------------------------ MODULE StoredReplay_proofs ------------------------
(***************************************************************************)
(* What both kinds of replay promise, proved for any tree of blocks, any   *)
(* number of observers with clocks of any values, and records of any       *)
(* number.                                                                 *)
(***************************************************************************)
EXTENDS StoredReplay, ForkTree_proofs, FiniteSetTheorems

-----------------------------------------------------------------------------
(* Numbers                                                                 *)

\* A bounded set of naturals has a greatest element.
LEMMA Greatest ==
  ASSUME NEW S \in SUBSET Nat, S # {}, NEW m \in Nat, \A x \in S : x <= m
  PROVE  \E x \in S : \A y \in S : y <= x
<1> DEFINE T == {m - x : x \in S}
<1>1. T \subseteq Nat /\ T # {}
  <2>1. \A x \in S : m - x \in Nat
    <3>1. ASSUME NEW x \in S  PROVE m - x \in Nat
      <4>1. x \in Nat /\ x <= m
        OBVIOUS
      <4>2. QED  BY <4>1
    <3>2. QED  BY <3>1
  <2>2. QED  BY <2>1
<1>2. PICK t \in T : \A y \in T : t <= y
  <2> HIDE DEF T
  <2>1. QED  BY <1>1, Least
<1>3. PICK x \in S : t = m - x
  BY <1>2
<1>4. ASSUME NEW y \in S  PROVE y <= x
  <2>1. m - x <= m - y
    BY <1>2, <1>3
  <2>2. x \in Nat /\ y \in Nat
    OBVIOUS
  <2>3. QED  BY <2>1, <2>2
<1>5. QED  BY <1>4

\* One of finitely many numbers is the greatest of them.
LEMMA GreatestOfMany ==
  ASSUME NEW n \in Nat \ {0}, NEW f \in [1 .. n -> Nat]
  PROVE  \E m \in 1 .. n : \A i \in 1 .. n : f[i] <= f[m]
<1> DEFINE Has(k) == \E m \in 1 .. k : \A i \in 1 .. k : f[i] <= f[m]
           Without == {k \in 1 .. n : ~Has(k)}
<1>1. SUFFICES ASSUME Without # {}  PROVE FALSE
  <2>1. n \in 1 .. n
    OBVIOUS
  <2>2. Without = {} => Has(n)
    BY <2>1
  <2>3. QED  BY <2>2
<1>2. PICK k \in Without : \A l \in Without : k <= l
  <2>1. Without \subseteq Nat
    OBVIOUS
  <2> HIDE DEF Without
  <2>2. QED  BY <1>1, <2>1, Least
<1>3. k \in 1 .. n /\ ~Has(k)
  BY <1>2
<1>4. CASE k = 1
  <2>1. Has(1)
    OBVIOUS
  <2>2. QED  BY <1>3, <1>4, <2>1
<1>5. CASE k # 1
  <2>1. k - 1 \in 1 .. n /\ k - 1 < k /\ k \in Nat
    BY <1>3, <1>5
  <2> DEFINE l == k - 1
  <2>2. Has(l)
    <3>1. l \notin Without
      <4> HIDE DEF Without
      <4>1. QED  BY <1>2, <2>1
    <3>2. l \in 1 .. n
      BY <2>1
    <3> HIDE DEF l, Has
    <3>3. QED  BY <3>1, <3>2
  <2>3. PICK m \in 1 .. k - 1 : \A i \in 1 .. k - 1 : f[i] <= f[m]
    <3> HIDE DEF l
    <3>1. \E m \in 1 .. l : \A i \in 1 .. l : f[i] <= f[m]
      BY <2>2
    <3>2. QED  BY <3>1 DEF l
  <2>4. /\ m \in 1 .. n /\ f[m] \in Nat /\ f[k] \in Nat
        /\ \A i \in 1 .. k : i = k \/ i \in 1 .. k - 1
    BY <1>3, <2>1, <2>3
  <2>5. CASE f[k] <= f[m]
    <3>1. m \in 1 .. k /\ \A i \in 1 .. k : f[i] <= f[m]
      BY <2>1, <2>3, <2>4, <2>5
    <3>2. QED  BY <1>3, <3>1
  <2>6. CASE f[m] < f[k]
    <3>1. \A i \in 1 .. k - 1 : f[i] \in Nat
      BY <2>1
    <3>2. k \in 1 .. k /\ \A i \in 1 .. k : f[i] <= f[k]
      BY <2>1, <2>3, <2>4, <2>6, <3>1
    <3>3. QED  BY <1>3, <3>2
  <2>7. QED  BY <2>4, <2>5, <2>6
<1>6. QED  BY <1>4, <1>5

-----------------------------------------------------------------------------
(* The records                                                             *)

Ids == 1 .. Len(log)

LEMMA RecordFacts ==
  ASSUME TypeOK
  PROVE  /\ Len(log) \in Nat /\ DOMAIN log = Ids
         /\ \A i \in Ids : /\ log[i] \in Record /\ log[i].block \in Block
                           /\ log[i].observer \in Observer /\ log[i].kind \in Kind
                           /\ log[i].at \in Time /\ log[i].at \in Nat
<1>1. log \in Seq(Record)
  BY DEF TypeOK
<1>2. Len(log) \in Nat /\ DOMAIN log = Ids
  BY <1>1 DEF Ids
<1>3. \A i \in Ids : log[i] \in Record
  BY <1>1, <1>2 DEF Ids
<1>4. \A r \in Record : /\ r.block \in Block /\ r.observer \in Observer /\ r.kind \in Kind
                         /\ r.at \in Time /\ r.at \in Nat
  BY ReplayAssumption DEF Record
<1>5. QED  BY <1>2, <1>3, <1>4

\* The bundle that is appended leaves the records that are there.
LEMMA AppendFacts ==
  ASSUME TypeOK, NEW b \in Block, NEW o \in Observer, NEW at \in [DOMAIN Parts -> Time],
         AppendBundle(b, o, at)
  PROVE  /\ log' \in Seq(Record) /\ Len(log') <= MaxRecords /\ Ids \subseteq Ids'
         /\ \A i \in Ids : log'[i] = log[i]
<1> DEFINE new == [i \in DOMAIN Parts |->
                     [block |-> b, observer |-> o, kind |-> Parts[i], at |-> at[i]]]
<1>1. log' = log \o new /\ Len(log) + Len(Parts) <= MaxRecords
  BY DEF AppendBundle
<1>2. new \in Seq(Record) /\ Len(new) = Len(Parts)
  <2>1. \A i \in DOMAIN Parts : [block |-> b, observer |-> o, kind |-> Parts[i], at |-> at[i]] \in Record
    BY DEF Record, Kind
  <2>2. new \in [1 .. Len(Parts) -> Record] /\ Len(Parts) \in Nat
    BY <2>1, ReplayAssumption
  <2> HIDE DEF new
  <2>3. QED  BY <2>2
<1>3. log \in Seq(Record)
  BY DEF TypeOK
<1> HIDE DEF new
<1>4. /\ log \o new \in Seq(Record) /\ Len(log \o new) = Len(log) + Len(new)
      /\ \A i \in 1 .. Len(log) : (log \o new)[i] = log[i]
  BY <1>2, <1>3
<1>5. Len(log) \in Nat /\ Len(new) \in Nat
  BY <1>2, <1>3
<1>6. QED  BY <1>1, <1>2, <1>4, <1>5 DEF Ids

\* The first record of a kind is one of the records.
LEMMA FirstIsThere ==
  ASSUME NEW ids \in SUBSET Nat, NEW b, NEW o, NEW k, \E i \in ids : Holds(i, b, o, k)
  PROVE  First(ids, b, o, k) \in ids
<1> DEFINE S == {i \in ids : Holds(i, b, o, k)}
<1>1. S \subseteq Nat /\ S # {}
  OBVIOUS
<1>2. PICK i \in S : \A j \in S : i <= j
  <2> HIDE DEF S
  <2>1. QED  BY <1>1, Least
<1>3. \E x \in ids : Holds(x, b, o, k) /\ \A j \in ids : Holds(j, b, o, k) => x <= j
  BY <1>2
<1>4. QED  BY <1>3 DEF First

LEMMA PartsFacts ==
  /\ Len(Parts) \in Nat \ {0}
  /\ Kind = {Parts[i] : i \in 1 .. Len(Parts)}
  /\ "receipts" \in Kind
<1>1. Kind = {Parts[i] : i \in 1 .. Len(Parts)} /\ "receipts" \in Kind /\ Len(Parts) \in Nat
  BY ReplayAssumption DEF Kind
<1>2. Len(Parts) # 0
  BY <1>1
<1>3. QED  BY <1>1, <1>2

\* The time of a block that assembles is a time.
LEMMA ReplayTimeIsTime ==
  ASSUME TypeOK, NEW ids \in SUBSET Ids, NEW b \in Block, Whole(ids, b)
  PROVE  ReplayTime(ids, b) \in Time
<1> DEFINE Has(p) == \A k \in Kind : \E i \in ids : Holds(i, b, p, k)
           o == CHOOSE p \in Observer : Has(p) /\ \A q \in Observer : Has(q) => p <= q
<1>1. o \in Observer /\ Has(o)
  <2> DEFINE S == {p \in Observer : Has(p)}
  <2>1. S \subseteq Nat /\ S # {}
    BY ReplayAssumption DEF Whole
  <2>2. PICK p \in S : \A q \in S : p <= q
    <3> HIDE DEF S
    <3>1. QED  BY <2>1, Least
  <2>3. \E x \in Observer : Has(x) /\ \A q \in Observer : Has(q) => x <= q
    <3> HIDE DEF Has
    <3>1. QED  BY <2>2
  <2> HIDE DEF Has
  <2>4. QED  BY <2>3
<1>2. ASSUME NEW k \in Kind  PROVE log[First(ids, b, o, k)].at \in Time
  <2>1. \E i \in ids : Holds(i, b, o, k)
    <3> HIDE DEF o
    <3>1. QED  BY <1>1, <1>2
  <2>2. ids \subseteq Nat
    BY RecordFacts DEF Ids
  <2> HIDE DEF o
  <2>3. First(ids, b, o, k) \in ids
    BY <2>1, <2>2, FirstIsThere
  <2>4. QED  BY <2>3, RecordFacts
<1>3. \E k \in Kind : \A l \in Kind : log[First(ids, b, o, l)].at <= log[First(ids, b, o, k)].at
  <2> HIDE DEF o
  <2> DEFINE f == [i \in 1 .. Len(Parts) |-> log[First(ids, b, o, Parts[i])].at]
  <2>1. f \in [1 .. Len(Parts) -> Nat]
    BY <1>2, PartsFacts, ReplayAssumption
  <2>2. PICK m \in 1 .. Len(Parts) : \A i \in 1 .. Len(Parts) : f[i] <= f[m]
    <3> HIDE DEF f
    <3>1. QED  BY <2>1, PartsFacts, GreatestOfMany
  <2>3. \A i \in 1 .. Len(Parts) :
           log[First(ids, b, o, Parts[i])].at <= log[First(ids, b, o, Parts[m])].at
    BY <2>2
  <2>4. QED  BY <2>3, PartsFacts
<1>4. ReplayTime(ids, b) = CHOOSE t \in Time :
         /\ \E k \in Kind : log[First(ids, b, o, k)].at = t
         /\ \A k \in Kind : log[First(ids, b, o, k)].at <= t
  BY DEF ReplayTime
<1> HIDE DEF o
<1>5. \E t \in Time : /\ \E k \in Kind : log[First(ids, b, o, k)].at = t
                      /\ \A k \in Kind : log[First(ids, b, o, k)].at <= t
  BY <1>2, <1>3
<1>6. QED  BY <1>4, <1>5

-----------------------------------------------------------------------------
(* The invariant                                                           *)

\* The records an observed replay has processed; a chain replay has nothing left.
Drained == window \ left

PartOf(i) == [block |-> log[i].block, observer |-> log[i].observer, kind |-> log[i].kind]

\* What is set where.
ModeInv ==
  /\ pc = "chain" => mode = "chain"
  /\ pc \in {"observe", "apply"} => mode = "observed"
  /\ pc = "apply" => clock \in Time
  /\ mode = "chain" => left = {} /\ pending = {} /\ \A i \in window : Number(log[i].block) <= Number(view)
  /\ mode = "observed" /\ pc = "idle" => window = {} /\ left = {} /\ view = Start
  /\ mode = "observed" /\ pc = "done" => left = {} /\ Number(view) = To

\* A drained record is of a block that was applied, or waits for its bundle.
PartsInv ==
  mode = "observed" =>
    /\ \A i \in Drained : OnChain(log[i].block, view) \/ PartOf(i) \in pending
    /\ \A part \in pending : \E i \in Drained : PartOf(i) = part

\* No drained records make a second block where the view has one.
ForkInv ==
  \A n \in Number(Start) + 1 .. Number(view) : Rivals(Drained, BlockAt(view, n)) = {}

\* The drained records are those up to the clock.
TimeInv ==
  mode = "observed" =>
    /\ \A i \in Drained : log[i].at <= clock
    /\ \A i \in Drained, j \in left : log[i].at < log[j].at
    /\ \A j \in left : clock <= log[j].at

\* The blocks of the view were known by then.
KnownInv ==
  mode = "observed" =>
    \A n \in Number(Start) + 1 .. Number(view) : KnownBy(window, BlockAt(view, n), clock)

\* The next one was not, when the records of this moment were drained.
MomentInv ==
  Number(view) < To =>
    \A s \in Block : Follows(s) =>
      /\ pc = "observe" => ~Whole(Drained, s)
      /\ pc = "apply" => \A t \in Time : t < clock => ~KnownUpTo(window, s, t)

RowsInv ==
  mode = "observed" =>
    \A b \in Block : rows[b] # None =>
      /\ rows[b].read \subseteq Ids
      /\ KnownUpTo(rows[b].read, b, rows[b].at)
      /\ \A t \in Time : t < rows[b].at => ~KnownUpTo(rows[b].read, b, t)

\* Without a mark the clocks of the records agree with their order.
OrderInv ==
  mode = "observed" /\ quality = NoMark =>
    \A i \in window, j \in window : i < j => log[i].at <= log[j].at

ReplayInv ==
  /\ TypeOK /\ ModeInv /\ PartsInv /\ ForkInv /\ TimeInv /\ KnownInv /\ MomentInv
  /\ RowsInv /\ OrderInv /\ StatusIsOfTheTime

\* A replay that has drained nothing.
Fresh ==
  /\ view = Start /\ window = left /\ clock = 0 /\ pending = {} /\ statuses = NoStatus

LEMMA StartFacts ==
  /\ Start \in Block /\ Number(Start) \in Nat /\ OnChain(Start, Start) /\ To \in Nat
  /\ Number(Start) <= To
BY ReplayAssumption, BlockFacts, OnChainOrder

LEMMA FreshHolds ==
  TypeOK /\ Fresh => PartsInv /\ ForkInv /\ TimeInv /\ KnownInv /\ StatusIsOfTheTime
<1> SUFFICES ASSUME TypeOK, Fresh
             PROVE  PartsInv /\ ForkInv /\ TimeInv /\ KnownInv /\ StatusIsOfTheTime
  OBVIOUS
<1>1. Drained = {} /\ view = Start /\ clock = 0 /\ pending = {} /\ statuses = NoStatus
  BY DEF Fresh, Drained
<1>2. PartsInv
  BY <1>1 DEF PartsInv
<1>3. Number(Start) + 1 .. Number(view) = {}
  BY <1>1, StartFacts
<1>4. ForkInv /\ KnownInv
  BY <1>3 DEF ForkInv, KnownInv
<1>5. TimeInv
  <2>1. \A j \in left : 0 <= log[j].at
    <3>1. left \subseteq Ids
      BY DEF TypeOK, Ids
    <3>2. QED  BY <3>1, RecordFacts
  <2>2. QED  BY <1>1, <2>1 DEF TimeInv
<1>6. StatusIsOfTheTime
  <2>1. window \ left = {}
    BY DEF Fresh
  <2>2. \A x \in Tx : statuses[x] = "Unknown"
    BY <1>1 DEF NoStatus
  <2>3. QED  BY <2>1, <2>2 DEF StatusIsOfTheTime
<1>7. QED  BY <1>2, <1>4, <1>5, <1>6

LEMMA InitReplayInv ==
  ASSUME Init
  PROVE  ReplayInv
<1>1. /\ log = <<>> /\ after = 0 /\ mode \in Mode /\ rows = [b \in Block |-> None]
      /\ pc = "idle" /\ view = Start /\ window = {} /\ left = {}
      /\ clock = 0 /\ pending = {} /\ statuses = NoStatus /\ quality = NoMark
  BY DEF Init
<1>2. TypeOK
  <2>1. log \in Seq(Record) /\ Len(log) = 0
    BY <1>1
  <2>2. quality \in [regressions : Nat, multiple : BOOLEAN] /\ statuses \in [Tx -> Status]
    BY <1>1 DEF NoMark, NoStatus, Status
  <2>3. QED
    BY <1>1, <2>1, <2>2, StartFacts, ReplayAssumption DEF TypeOK, Control
<1>3. Fresh
  BY <1>1 DEF Fresh
<1>4. ModeInv /\ MomentInv /\ RowsInv /\ OrderInv
  BY <1>1 DEF ModeInv, MomentInv, RowsInv, OrderInv
<1>5. QED  BY <1>2, <1>3, <1>4, FreshHolds DEF ReplayInv

\* The rows of an observed replay say what they say as long as their records are there.
LEMMA RowsKept ==
  ASSUME RowsInv, UNCHANGED <<log, mode, rows>>
  PROVE  RowsInv'
BY DEF RowsInv, KnownUpTo, KnownBy, Whole, Holds, Ids

\* The replay ends, or begins, with no row written.
LEMMA FreshKeeps ==
  ASSUME ReplayInv, UNCHANGED <<log, after, mode, rows>>,
         Fresh', window' \in SUBSET Ids, pc' \in Control \ {"apply"},
         pc' = "chain" => mode = "chain", pc' = "observe" => mode = "observed",
         window' = {} \/ (mode = "observed" /\ pc' = "observe"),
         pc' # "done",
         quality' \in [regressions : Nat, multiple : BOOLEAN], OrderInv'
  PROVE  ReplayInv'
<1>1. /\ view' = Start /\ window' = left' /\ clock' = 0 /\ pending' = {}
      /\ statuses' = NoStatus
  BY DEF Fresh, NoStatus
<1>2. TypeOK'
  <2>1. NoStatus \in [Tx -> Status]
    BY DEF NoStatus, Status
  <2>2. QED  BY <1>1, <2>1, StartFacts DEF ReplayInv, TypeOK, Ids
<1>3. ModeInv'
  BY <1>1 DEF ReplayInv, ModeInv
<1>4. MomentInv'
  <2>1. Drained' = {}
    BY <1>1 DEF Drained
  <2>2. \A s \in Block : ~Whole(Drained, s)'
    BY <2>1, PartsFacts DEF Whole
  <2>3. QED  BY <2>2 DEF MomentInv
<1>5. RowsInv'
  BY RowsKept DEF ReplayInv
<1>6. PartsInv' /\ ForkInv' /\ TimeInv' /\ KnownInv' /\ StatusIsOfTheTime'
  BY <1>2, FreshHolds, PTL
<1>7. QED  BY <1>2, <1>3, <1>4, <1>5, <1>6 DEF ReplayInv

\* What is asked of records that are there does not change when others are appended.
LEMMA WholeKept ==
  ASSUME TypeOK, Ids \subseteq Ids', \A i \in Ids : log'[i] = log[i],
         NEW ids \in SUBSET Ids
  PROVE  \A b \in Block : /\ Whole(ids, b)' <=> Whole(ids, b)
                          /\ Rivals(ids, b)' = Rivals(ids, b)
                          /\ \A t : KnownUpTo(ids, b, t)' <=> KnownUpTo(ids, b, t)
<1>1. \A some \in SUBSET ids : \A b, o, k :
        (\E i \in some : Holds(i, b, o, k)') <=> (\E i \in some : Holds(i, b, o, k))
  BY DEF Holds
<1>2. \A some \in SUBSET ids : \A b : Whole(some, b)' <=> Whole(some, b)
  BY <1>1 DEF Whole
<1>3. \A t : {i \in ids : log'[i].at <= t} = {i \in ids : log[i].at <= t}
  OBVIOUS
<1>4. \A b, t : KnownBy(ids, b, t)' <=> KnownBy(ids, b, t)
  <2> SUFFICES ASSUME NEW b, NEW t  PROVE KnownBy(ids, b, t)' <=> KnownBy(ids, b, t)
    OBVIOUS
  <2> DEFINE some == {i \in ids : log[i].at <= t}
  <2>1. some \in SUBSET ids
    OBVIOUS
  <2>2. KnownBy(ids, b, t) <=> Whole(some, b)
    BY DEF KnownBy
  <2>3. KnownBy(ids, b, t)' <=> \E o \in Observer : \A k \in Kind : \E i \in some : Holds(i, b, o, k)'
    BY <1>3 DEF KnownBy, Whole
  <2> HIDE DEF some
  <2>4. QED  BY <1>1, <2>1, <2>2, <2>3 DEF Whole
<1>5. \A b, t : KnownUpTo(ids, b, t)' <=> KnownUpTo(ids, b, t)
  BY <1>4 DEF KnownUpTo
<1>6. \A b : Rivals(ids, b)' = Rivals(ids, b)
  BY <1>2 DEF Rivals
<1>7. QED  BY <1>2, <1>5, <1>6

LEMMA AppendBundleKeeps ==
  ASSUME ReplayInv, NEW b \in Block, NEW o \in Observer, NEW at \in [DOMAIN Parts -> Time],
         AppendBundle(b, o, at)
  PROVE  ReplayInv'
<1>1. /\ TypeOK
      /\ after' = after /\ mode' = mode /\ rows' = rows /\ pc' = pc /\ view' = view
      /\ window' = window /\ left' = left /\ clock' = clock /\ pending' = pending
      /\ statuses' = statuses /\ quality' = quality
      /\ pc \notin {"observe", "apply"}
  BY DEF ReplayInv, AppendBundle, own
<1>2. /\ log' \in Seq(Record) /\ Len(log') <= MaxRecords /\ Ids \subseteq Ids'
      /\ \A i \in Ids : log'[i] = log[i]
  BY <1>1, AppendFacts
<1>3. window \subseteq Ids /\ left \subseteq window /\ Drained \subseteq Ids
  BY <1>1 DEF TypeOK, Ids, Drained
<1>4. Len(log) <= Len(log') /\ Len(log) \in Nat /\ Len(log') \in Nat
  <2>1. Len(log) \in Nat /\ Len(log') \in Nat /\ (Len(log) # 0 => Len(log) \in Ids)
    BY <1>1, <1>2, RecordFacts DEF Ids
  <2>2. QED  BY <1>2, <2>1 DEF Ids
<1>5. TypeOK'
  BY <1>1, <1>2, <1>4 DEF TypeOK
<1>6. ModeInv' /\ OrderInv' /\ TimeInv'
  BY <1>1, <1>2, <1>3 DEF ReplayInv, ModeInv, OrderInv, TimeInv, Drained
<1>7. PartsInv'
  BY <1>1, <1>2, <1>3 DEF ReplayInv, PartsInv, Drained, PartOf
<1>8. MomentInv'
  BY <1>1 DEF MomentInv
<1>9. KnownInv'
  BY <1>1, <1>2, <1>3 DEF ReplayInv, KnownInv, KnownBy, Whole, Holds
<1>10. ForkInv'
  <2>1. Drained' = Drained
    BY <1>1 DEF Drained
  <2>2. \A n \in Number(Start) + 1 .. Number(view) : BlockAt(view, n) \in Block
    BY <1>1, StartFacts, BlockAtFacts, BlockFacts DEF TypeOK
  <2>3. QED
    BY <1>1, <1>2, <1>3, <2>1, <2>2 DEF ReplayInv, ForkInv, Rivals, Whole, Holds
<1>11. RowsInv'
  <2> SUFFICES ASSUME mode = "observed", NEW c \in Block, rows[c] # None,
                      NEW ids, ids = rows[c].read, NEW time, time = rows[c].at
               PROVE  /\ ids \subseteq Ids'
                      /\ KnownUpTo(ids, c, time)'
                      /\ \A t \in Time : t < time => ~KnownUpTo(ids, c, t)'
    BY <1>1 DEF RowsInv, KnownUpTo, KnownBy, Whole, Holds
  <2>1. ids \in SUBSET Ids
    BY DEF ReplayInv, RowsInv
  <2>2. KnownUpTo(ids, c, time) /\ \A t \in Time : t < time => ~KnownUpTo(ids, c, t)
    BY DEF ReplayInv, RowsInv
  <2>3. KnownUpTo(ids, c, time)' /\ \A t \in Time : t < time => ~KnownUpTo(ids, c, t)'
    BY <1>1, <1>2, <2>1, <2>2, WholeKept
  <2>4. QED  BY <1>2, <2>1, <2>3
<1>12. StatusIsOfTheTime'
  <2>1. {j \in window' \ left' : log'[j].kind = "receipts"} = {j \in window \ left : log[j].kind = "receipts"}
    BY <1>1, <1>2, <1>3 DEF Drained
  <2>2. \A x \in Tx :
          {Outcome[log'[i].block][x] : i \in {j \in window' \ left' : log'[j].kind = "receipts"}}
            = {Outcome[log[i].block][x] : i \in {j \in window \ left : log[j].kind = "receipts"}}
    BY <1>2, <1>3, <2>1 DEF Drained
  <2>3. QED  BY <1>1, <2>2 DEF ReplayInv, StatusIsOfTheTime
<1>13. QED
  BY <1>5, <1>6, <1>7, <1>8, <1>9, <1>10, <1>11, <1>12 DEF ReplayInv

-----------------------------------------------------------------------------
(* Beginning and ending                                                    *)

LEMMA OneAtMost ==
  ASSUME NEW S, IsFiniteSet(S), ~(Cardinality(S) > 1)
  PROVE  \A x \in S, y \in S : x = y
<1> SUFFICES ASSUME NEW x \in S, NEW y \in S, x # y  PROVE FALSE
  OBVIOUS
<1>1. IsFiniteSet({x}) /\ Cardinality({x}) = 1
  BY FS_Singleton
<1>2. Cardinality({x} \cup {y}) = 2 /\ y \notin {x}
  BY <1>1, FS_AddElement
<1>3. Cardinality({x} \cup {y}) <= Cardinality(S) /\ Cardinality(S) \in Nat
  <2>1. {x} \cup {y} \in SUBSET S
    OBVIOUS
  <2>2. QED  BY <2>1, FS_Subset, FS_CardinalityType
<1>4. QED  BY <1>2, <1>3

\* Records of one observer whose clock never runs back to the record before are in order.
LEMMA UnmarkedIsOrdered ==
  ASSUME TypeOK, NEW ids \in SUBSET Ids, TimeQuality(ids) = NoMark
  PROVE  \A i \in ids, j \in ids : i < j => log[i].at <= log[j].at
<1> DEFINE Back == {i \in ids : \E j \in PriorOf(i, ids) : log[j].at > log[i].at}
           Of == {log[i].observer : i \in ids}
<1>1. IsFiniteSet(ids) /\ ids \subseteq Nat
  <2>1. Len(log) \in Nat
    BY RecordFacts
  <2>2. IsFiniteSet(1 .. Len(log))
    BY <2>1, FS_Interval
  <2>3. ids \in SUBSET (1 .. Len(log))
    BY DEF Ids
  <2>4. IsFiniteSet(ids)
    BY <2>2, <2>3, FS_Subset
  <2>5. QED  BY <2>1, <2>3, <2>4
<1>2. Cardinality(Back) = 0 /\ ~(Cardinality(Of) > 1)
  <2>1. [regressions |-> Cardinality(Back), multiple |-> Cardinality(Of) > 1]
          = [regressions |-> 0, multiple |-> FALSE]
    BY DEF TimeQuality, NoMark
  <2> HIDE DEF Back, Of
  <2>2. [regressions |-> Cardinality(Back), multiple |-> Cardinality(Of) > 1].regressions = 0
    BY <2>1
  <2>3. [regressions |-> Cardinality(Back), multiple |-> Cardinality(Of) > 1].multiple = FALSE
    BY <2>1
  <2>4. QED  BY <2>2, <2>3
<1>3. Back = {}
  <2>1. IsFiniteSet(Back)
    BY <1>1, FS_Subset
  <2> HIDE DEF Back
  <2>2. QED  BY <1>2, <2>1, FS_EmptySet
<1>4. \A i \in ids, j \in ids : log[i].observer = log[j].observer
  <2>1. IsFiniteSet(Of)
    <3>1. [i \in ids |-> log[i].observer] \in Surjection(ids, Of)
      BY DEF Surjection
    <3> HIDE DEF Of
    <3>2. QED  BY <1>1, <3>1, FS_Surjection
  <2>2. \A x \in Of, y \in Of : x = y
    <3> HIDE DEF Of
    <3>1. QED  BY <1>2, <2>1, OneAtMost
  <2>3. QED  BY <2>2
<1> DEFINE Behind == {j \in ids : \E i \in ids : i < j /\ log[i].at > log[j].at}
<1>5. SUFFICES ASSUME Behind # {}  PROVE FALSE
  <2>1. \A i \in ids : log[i].at \in Nat
    BY RecordFacts
  <2>2. QED  BY <2>1
<1>6. PICK j \in Behind : \A k \in Behind : j <= k
  <2>1. Behind \subseteq Nat
    BY <1>1
  <2> HIDE DEF Behind
  <2>2. QED  BY <1>5, <2>1, Least
<1>7. PICK i \in ids : i < j /\ log[i].at > log[j].at
  BY <1>6
<1> DEFINE Before == {l \in ids : l < j}
<1>8. PICK p \in Before : \A l \in Before : l <= p
  <2>1. Before \subseteq Nat /\ Before # {}
    BY <1>1, <1>7
  <2>2. j \in Nat
    BY <1>1, <1>6
  <2>3. \A l \in Before : l <= j
    <3>1. \A l \in Before : l < j /\ l \in Nat
      BY <1>1
    <3> HIDE DEF Before
    <3>2. QED  BY <2>2, <3>1
  <2> HIDE DEF Before
  <2>4. QED  BY <2>1, <2>2, <2>3, Greatest
<1>9. p \in PriorOf(j, ids) /\ j \in ids /\ p \in ids
  BY <1>4, <1>6, <1>8 DEF PriorOf
<1>10. ~(log[p].at > log[j].at)
  BY <1>3, <1>9
<1>11. /\ log[p].at \in Nat /\ log[j].at \in Nat /\ log[i].at \in Nat
       /\ i \in Nat /\ p \in Nat /\ j \in Nat
  BY <1>1, <1>7, <1>9, RecordFacts
<1>12. log[i].at > log[p].at
  BY <1>7, <1>10, <1>11
<1>13. i < p
  BY <1>7, <1>8, <1>11, <1>12
<1>14. p \in Behind
  BY <1>7, <1>9, <1>12, <1>13
<1>15. QED  BY <1>6, <1>8, <1>11, <1>14

LEMMA BeginKeeps ==
  ASSUME ReplayInv, BeginChain \/ BeginObserved
  PROVE  ReplayInv'
<1>1. NoMark \in [regressions : Nat, multiple : BOOLEAN]
  BY DEF NoMark
<1>2. CASE BeginChain
  <2>1. /\ mode = "chain" /\ pc' = "chain" /\ UNCHANGED <<log, after, mode, rows>>
        /\ window' = {} /\ quality' = NoMark
    BY <1>2 DEF BeginChain
  <2>2. Fresh'
    BY <1>2 DEF BeginChain, Fresh, NoStatus
  <2>3. OrderInv'
    BY <2>1 DEF OrderInv
  <2>4. QED  BY <1>1, <2>1, <2>2, <2>3, FreshKeeps DEF Control
<1>3. CASE BeginObserved
  <2>1. /\ mode = "observed" /\ pc' = "observe" /\ UNCHANGED <<log, after, mode, rows>>
        /\ window' = InWindow /\ quality' = TimeQuality(InWindow)
    BY <1>3 DEF BeginObserved
  <2>2. Fresh'
    BY <1>3 DEF BeginObserved, Fresh, NoStatus
  <2>3. InWindow \in SUBSET Ids
    BY RecordFacts DEF ReplayInv, TypeOK, InWindow, Ids
  <2>4. TimeQuality(InWindow) \in [regressions : Nat, multiple : BOOLEAN]
    <3> DEFINE S == {i \in InWindow : \E j \in PriorOf(i, InWindow) : log[j].at > log[i].at}
    <3>1. IsFiniteSet(Ids)
      BY RecordFacts, FS_Interval DEF ReplayInv, Ids
    <3>2. S \in SUBSET Ids
      BY <2>3
    <3> HIDE DEF S
    <3>3. Cardinality(S) \in Nat
      BY <3>1, <3>2, FS_Subset, FS_CardinalityType
    <3>4. QED  BY <3>3 DEF TimeQuality, S
  <2>5. OrderInv'
    <3>1. TypeOK
      BY DEF ReplayInv
    <3>2. TimeQuality(InWindow) = NoMark =>
            \A i \in InWindow, j \in InWindow : i < j => log[i].at <= log[j].at
      BY <2>3, <3>1, UnmarkedIsOrdered
    <3>3. QED  BY <2>1, <3>2 DEF OrderInv, NoMark
  <2>6. QED  BY <2>1, <2>2, <2>3, <2>4, <2>5, FreshKeeps DEF Control
<1>4. QED  BY <1>2, <1>3

LEMMA FailsKeeps ==
  ASSUME ReplayInv, Fails, UNCHANGED <<log, after, mode>>
  PROVE  ReplayInv'
<1>1. /\ pc' = "idle" /\ window' = {} /\ quality' = NoMark /\ rows' = rows
  BY DEF Fails
<1>2. Fresh'
  BY DEF Fails, Fresh, NoStatus
<1>3. NoMark \in [regressions : Nat, multiple : BOOLEAN] /\ OrderInv'
  BY <1>1 DEF NoMark, OrderInv
<1>4. QED  BY <1>1, <1>2, <1>3, FreshKeeps DEF Control

\* Steps that only change where the replay is, or the checkpoint.
LEMMA OthersKeep ==
  ASSUME ReplayInv,
         UNCHANGED <<log, mode, rows, view, window, left, clock, pending, statuses, quality>>,
         \/ after' \in 0 .. Len(log) /\ pc' = pc
         \/ after' = after /\ pc' = "done" /\ left = {} /\ Number(view) = To
            /\ (pc = "chain" \/ pc = "observe")
  PROVE  ReplayInv'
<1>1. TypeOK'
  BY DEF ReplayInv, TypeOK, Control
<1>2. ModeInv' /\ PartsInv' /\ TimeInv' /\ OrderInv'
  BY DEF ReplayInv, ModeInv, PartsInv, TimeInv, OrderInv, Drained, PartOf
<1>3. ForkInv' /\ KnownInv'
  BY DEF ReplayInv, ForkInv, KnownInv, Rivals, KnownBy, Whole, Holds, Drained
<1>4. MomentInv'
  BY DEF ReplayInv, MomentInv, Follows, KnownUpTo, KnownBy, Whole, Holds, Drained
<1>5. RowsInv'
  BY RowsKept DEF ReplayInv
<1>6. StatusIsOfTheTime'
  BY DEF ReplayInv, StatusIsOfTheTime
<1>7. QED  BY <1>1, <1>2, <1>3, <1>4, <1>5, <1>6 DEF ReplayInv

-----------------------------------------------------------------------------
(* The next block                                                          *)

LEMMA FollowsFacts ==
  ASSUME TypeOK, NEW b \in Block, Follows(b)
  PROVE  /\ Number(view) \in Nat /\ Number(b) = Number(view) + 1 /\ Number(b) \in Nat
         /\ OnChain(b, b) /\ OnChain(view, b) /\ OnChain(Start, b) /\ ~OnChain(b, view)
         /\ \A n \in 0 .. Number(view) : BlockAt(b, n) = BlockAt(view, n)
         /\ BlockAt(b, Number(b)) = b
         /\ \A a \in Block : OnChain(a, view) => OnChain(a, b)
<1>1. view \in Block /\ OnChain(Start, view) /\ Start \in Block
  BY StartFacts DEF TypeOK
<1>2. Number(b) = Number(view) + 1 /\ Parent(b) = view
  BY DEF Follows
<1>3. Number(view) \in Nat /\ Number(b) \in Nat
  BY <1>1, BlockFacts
<1>4. OnChain(b, b) /\ BlockAt(b, Number(b)) = b
  BY <1>3, OnChainOrder, BlockAtFacts
<1>5. OnChain(view, b)
  <2>1. view = BlockAt(b, Number(b) - 1)
    BY <1>2 DEF Parent, BlockAt, Number
  <2>2. Number(b) - 1 \in 0 .. Number(b)
    BY <1>2, <1>3
  <2>3. QED  BY <2>1, <2>2, BlockAtFacts
<1>6. \A a \in Block : OnChain(a, view) => OnChain(a, b)
  BY <1>1, <1>5, OnChainTransitive
<1>7. \A n \in 0 .. Number(view) : BlockAt(b, n) = BlockAt(view, n)
  <2> SUFFICES ASSUME NEW n \in 0 .. Number(view)  PROVE BlockAt(b, n) = BlockAt(view, n)
    OBVIOUS
  <2>1. BlockAt(view, n) \in Block /\ OnChain(BlockAt(view, n), view) /\ Number(BlockAt(view, n)) = n
    BY <1>1, BlockAtFacts
  <2>2. n \in 0 .. Number(b)
    BY <1>2, <1>3
  <2>3. QED  BY <1>6, <2>1, <2>2, BlockAtFacts
<1>8. ~OnChain(b, view)
  BY <1>1, <1>2, <1>3, OnChainPointwise
<1>9. QED  BY <1>1, <1>2, <1>3, <1>4, <1>5, <1>6, <1>7, <1>8

\* The heights of the next block are those of the view and its own.
LEMMA NextHeights ==
  ASSUME TypeOK, NEW b \in Block, Follows(b), NEW n \in Number(Start) + 1 .. Number(b)
  PROVE  \/ n \in Number(Start) + 1 .. Number(view) /\ n \in 0 .. Number(view)
         \/ n = Number(b)
BY FollowsFacts, StartFacts

LEMMA ReplayHeightKeeps ==
  ASSUME ReplayInv, ReplayHeight
  PROVE  ReplayInv'
<1> DEFINE ids == AtHeight(Number(view) + 1)
           next == {b \in Block : Follows(b) /\ Whole(ids, b)}
<1>1. CASE Fails /\ UNCHANGED <<log, after, mode>>
  BY <1>1, FailsKeeps
<1>2. CASE \E b \in next : next = {b} /\ b \notin Rejected
  <2>1. PICK b \in Block :
          /\ next = {b} /\ Follows(b) /\ Whole(ids, b)
          /\ view' = b
          /\ rows' = IF rows[b] # None THEN rows
                     ELSE [rows EXCEPT ![b] = [at |-> ReplayTime(ids, b), read |-> window \cup ids]]
          /\ window' = window \cup ids
    BY <1>2 DEF ReplayHeight, Process
  <2>2. /\ pc = "chain" /\ Number(view) < To
        /\ UNCHANGED <<log, after, mode, pc, left, clock, pending, statuses, quality>>
    BY <1>2 DEF ReplayHeight
  <2>3. TypeOK /\ mode = "chain" /\ left = {} /\ pending = {}
    BY <2>2 DEF ReplayInv, ModeInv
  <2>4. /\ Number(view) \in Nat /\ Number(b) = Number(view) + 1
        /\ OnChain(Start, b)
        /\ \A n \in 0 .. Number(view) : BlockAt(b, n) = BlockAt(view, n)
        /\ BlockAt(b, Number(b)) = b
    BY <2>1, <2>3, FollowsFacts
  <2>5. /\ ids \subseteq Ids /\ window \subseteq Ids /\ Ids \subseteq 1 .. MaxRecords
        /\ \A i \in ids : Number(log[i].block) = Number(view) + 1
        /\ \A i \in window : Number(log[i].block) <= Number(view)
        /\ \A i \in Ids : Number(log[i].block) = Number(view) + 1 => i \in ids
    <3>1. Ids \subseteq 1 .. MaxRecords /\ DOMAIN log = Ids
      BY <2>3, RecordFacts, ReplayAssumption DEF TypeOK, Ids
    <3>2. QED  BY <2>3, <3>1 DEF ReplayInv, ModeInv, TypeOK, AtHeight, Ids
  <2> HIDE DEF ids
  <2>6. TypeOK'
    <3>1. ReplayTime(ids, b) \in Time
      BY <2>1, <2>3, <2>5, ReplayTimeIsTime
    <3>2. [at |-> ReplayTime(ids, b), read |-> window \cup ids] \in Row
      BY <2>5, <3>1 DEF Row
    <3>3. DOMAIN rows' = Block /\ \A c \in Block : rows'[c] = None \/ rows'[c] \in Row
      BY <2>1, <2>3, <3>2 DEF TypeOK
    <3>4. Number(b) <= To
      BY <2>2, <2>4, StartFacts
    <3>5. window' \subseteq 1 .. Len(log) /\ left' \subseteq window'
      BY <2>1, <2>2, <2>3, <2>5 DEF Ids
    <3>6. QED  BY <2>1, <2>2, <2>3, <2>4, <3>3, <3>4, <3>5 DEF TypeOK
  <2>7. ModeInv'
    BY <2>1, <2>2, <2>3, <2>4, <2>5, RecordFacts, BlockFacts DEF ModeInv
  <2>8. ForkInv'
    <3>1. Drained' = window \cup ids /\ Drained = window
      BY <2>1, <2>2, <2>3 DEF Drained
    <3>2. SUFFICES ASSUME NEW n \in Number(Start) + 1 .. Number(b), NEW s \in Block,
                          s # BlockAt(b, n), Number(s) = Number(BlockAt(b, n)),
                          Parent(s) = Parent(BlockAt(b, n)), Whole(window \cup ids, s)
                   PROVE  FALSE
      BY <2>1, <2>2, <3>1 DEF ForkInv, Rivals, Whole, Holds
    <3>3. CASE n \in Number(Start) + 1 .. Number(view) /\ n \in 0 .. Number(view)
      <4>1. BlockAt(b, n) = BlockAt(view, n) /\ Number(s) = n /\ view \in Block
        BY <2>3, <2>4, <3>2, <3>3, BlockAtNumber DEF TypeOK
      <4>2. \A i \in ids : log[i].block # s
        BY <2>4, <2>5, <3>3, <4>1
      <4>3. Whole(window, s)
        BY <3>2, <4>2 DEF Whole, Holds
      <4>4. s \in Rivals(window, BlockAt(view, n))
        BY <3>2, <4>1, <4>3 DEF Rivals
      <4>5. QED  BY <3>1, <3>3, <4>4 DEF ReplayInv, ForkInv
    <3>4. CASE n = Number(b)
      <4>1. Number(s) = Number(view) + 1 /\ s # b /\ Parent(s) = Parent(b)
        BY <2>4, <3>2, <3>4
      <4>2. Follows(s)
        BY <2>1, <4>1 DEF Follows
      <4>3. \A i \in window : log[i].block # s
        BY <2>4, <2>5, <4>1
      <4>4. Whole(ids, s)
        BY <3>2, <4>3 DEF Whole, Holds
      <4>5. s \in next
        BY <4>2, <4>4
      <4>6. QED  BY <2>1, <4>1, <4>5
    <3>5. QED  BY <2>1, <2>3, <3>3, <3>4, NextHeights
  <2>9. PartsInv' /\ TimeInv' /\ KnownInv' /\ RowsInv' /\ OrderInv' /\ StatusIsOfTheTime'
    BY <2>2, <2>3 DEF PartsInv, TimeInv, KnownInv, RowsInv, OrderInv, StatusIsOfTheTime
  <2>10. MomentInv'
    BY <2>2 DEF MomentInv
  <2>11. QED  BY <2>6, <2>7, <2>8, <2>9, <2>10 DEF ReplayInv
<1>3. QED  BY <1>1, <1>2 DEF ReplayHeight

-----------------------------------------------------------------------------
(* The next moment                                                         *)

\* What an advance that neither meets a conflict nor a fork does.
Drains ==
  /\ pc = "observe" /\ ~Conflicting /\ ~Forked /\ pc' = "apply"
  /\ \E i \in Due : clock' = log[i].at
  /\ left' = left \ Due
  /\ statuses' = [x \in Tx |-> IF Told(x) = {} THEN "Unknown" ELSE CHOOSE s \in Told(x) : TRUE]
  /\ pending' = pending \cup Kept(Due)
  /\ UNCHANGED <<log, after, mode, rows, view, window, quality>>

LEMMA DueFacts ==
  ASSUME ReplayInv, Drains
  PROVE  /\ mode = "observed" /\ TypeOK
         /\ Due \subseteq left /\ left \subseteq window /\ window \subseteq Ids
         /\ Drained' = Drained \cup Due
         /\ clock' \in Nat /\ clock' \in Time /\ clock <= clock'
         /\ \A i \in Due : log[i].at = clock'
         /\ \A i \in Drained : log[i].at <= clock'
         /\ \A j \in left : clock' <= log[j].at
         /\ \A j \in left \ Due : clock' < log[j].at
<1>1. mode = "observed" /\ TypeOK /\ window' = window /\ left' = left \ Due
  BY DEF ReplayInv, ModeInv, Drains
<1>2. Due \subseteq left /\ left \subseteq window /\ window \subseteq Ids
  BY <1>1 DEF Due, TypeOK, Ids
<1>3. PICK d \in Due : clock' = log[d].at
  BY DEF Drains
<1>4. \A i \in window : log[i].at \in Nat
  BY <1>1, <1>2, RecordFacts
<1>5. d \in left /\ clock' \in Nat /\ \A j \in left : clock' <= log[j].at
  BY <1>2, <1>3, <1>4 DEF Due
<1>6. \A i \in Due : log[i].at = clock'
  <2> SUFFICES ASSUME NEW i \in Due  PROVE log[i].at = clock'
    OBVIOUS
  <2>1. log[i].at <= log[d].at /\ i \in left
    BY <1>5 DEF Due
  <2>2. QED  BY <1>2, <1>3, <1>4, <1>5, <2>1
<1>7. \A j \in left \ Due : clock' < log[j].at
  <2> SUFFICES ASSUME NEW j \in left, j \notin Due  PROVE clock' < log[j].at
    OBVIOUS
  <2>1. PICK k \in left : ~(log[j].at <= log[k].at)
    BY DEF Due
  <2>2. QED  BY <1>2, <1>4, <1>5, <2>1
<1>8. clock <= clock' /\ \A i \in Drained : log[i].at <= clock'
  <2>1. clock <= log[d].at /\ \A i \in Drained : log[i].at < log[d].at
    BY <1>1, <1>5 DEF ReplayInv, TimeInv
  <2>2. \A i \in Drained : log[i].at \in Nat
    BY <1>4 DEF Drained
  <2>3. QED  BY <1>3, <1>5, <2>1, <2>2
<1>9. Drained' = Drained \cup Due
  BY <1>1, <1>2 DEF Drained
<1>10. clock' \in Time
  BY <1>1, <1>2, <1>3, RecordFacts
<1>11. QED  BY <1>1, <1>2, <1>5, <1>6, <1>7, <1>8, <1>9, <1>10

\* Whatever receipts were drained, they agree: they say what is known, and all of it.
LEMMA DrainsKeepsStatus ==
  ASSUME ReplayInv, Drains
  PROVE  StatusIsOfTheTime' /\ statuses' \in [Tx -> Status]
<1> DEFINE Told2(x) == {Outcome[log[i].block][x] : i \in {j \in Due : log[j].kind = "receipts"}}
           Before(x) == {Outcome[log[i].block][x] : i \in {j \in Drained : log[j].kind = "receipts"}}
           Now(x) == {Outcome[log[i].block][x] : i \in {j \in Drained \cup Due : log[j].kind = "receipts"}}
<1>1. ASSUME NEW x \in Tx
      PROVE  statuses'[x] \in Status /\ Now(x) \ {"Unknown"} = {statuses'[x]} \ {"Unknown"}
  <2>1. Told(x) = ({statuses[x]} \cup Told2(x)) \ {"Unknown"}
    BY DEF Told
  <2>2. Before(x) \ {"Unknown"} = {statuses[x]} \ {"Unknown"}
    BY DueFacts DEF ReplayInv, StatusIsOfTheTime, Drained
  <2>3. Now(x) = Before(x) \cup Told2(x)
    OBVIOUS
  <2>4. Told(x) = Now(x) \ {"Unknown"}
    <3> HIDE DEF Now, Before, Told2
    <3>1. QED  BY <2>1, <2>2, <2>3
  <2>5. Told(x) \subseteq Status
    <3>1. statuses[x] \in Status
      BY DueFacts DEF TypeOK
    <3>2. \A i \in Due : Outcome[log[i].block][x] \in Status
      BY DueFacts, RecordFacts, ReplayAssumption
    <3>3. QED  BY <2>1, <3>1, <3>2
  <2>6. \A u \in Told(x), v \in Told(x) : u = v
    <3>1. IsFiniteSet(Status)
      <4>1. IsFiniteSet({"Unknown"})
        BY FS_Singleton
      <4>2. IsFiniteSet({"Unknown"} \cup {"Succeeded"})
        BY <4>1, FS_AddElement
      <4>3. IsFiniteSet({"Unknown"} \cup {"Succeeded"} \cup {"Reverted"})
        BY <4>2, FS_AddElement
      <4>4. {"Unknown"} \cup {"Succeeded"} \cup {"Reverted"} = Status
        BY DEF Status
      <4>5. QED  BY <4>3, <4>4
    <3>2. IsFiniteSet(Told(x))
      BY <2>5, <3>1, FS_Subset
    <3>3. ~(Cardinality(Told(x)) > 1)
      BY DEF Drains, Conflicting
    <3>4. QED  BY <3>2, <3>3, OneAtMost
  <2>7. statuses'[x] = IF Told(x) = {} THEN "Unknown" ELSE CHOOSE s \in Told(x) : TRUE
    BY DEF Drains
  <2>8. CASE Told(x) = {}
    <3> HIDE DEF Now, Before, Told2
    <3>1. QED  BY <2>4, <2>7, <2>8 DEF Status
  <2>9. CASE Told(x) # {}
    <3> HIDE DEF Now, Before, Told2
    <3>1. statuses'[x] \in Told(x)
      BY <2>7, <2>9
    <3>2. "Unknown" \notin Told(x)
      BY <2>4
    <3>3. QED  BY <2>4, <2>5, <2>6, <3>1, <3>2
  <2>10. QED  BY <2>8, <2>9
<1>2. \A x \in Tx :
        {Outcome[log'[i].block][x] : i \in {j \in window' \ left' : log'[j].kind = "receipts"}} = Now(x)
  <2>1. window' \ left' = Drained \cup Due /\ log' = log
    BY DueFacts DEF Drained, Drains
  <2>2. QED  BY <2>1
<1> HIDE DEF Now
<1>3. StatusIsOfTheTime'
  BY <1>1, <1>2 DEF StatusIsOfTheTime
<1>4. statuses' \in [Tx -> Status]
  <2>1. statuses' = [x \in Tx |-> statuses'[x]]
    BY DEF Drains
  <2>2. QED  BY <1>1, <2>1
<1>5. QED  BY <1>3, <1>4

LEMMA DrainsKeeps ==
  ASSUME ReplayInv, Drains
  PROVE  ReplayInv'
<1>1. /\ pc = "observe" /\ ~Forked /\ pc' = "apply"
      /\ left' = left \ Due
      /\ pending' = pending \cup Kept(Due)
      /\ UNCHANGED <<log, after, mode, rows, view, window, quality>>
  BY DEF Drains
<1>2. \A i \in Due : Applied(log[i].block) => OnChain(log[i].block, view)
  BY <1>1 DEF Forked, IsFork
<1>3. \A i \in Due : OnChain(log[i].block, view) \/ (PartOf(i) \in Kept(Due) /\ ~Applied(log[i].block))
  BY <1>2 DEF Kept, PartOf
<1>4. \A part \in Kept(Due) : \E i \in Due : PartOf(i) = part /\ ~Applied(log[i].block)
  BY DEF Kept, PartOf
<1>5. TypeOK'
  <2>1. Kept(Due) \subseteq Part
    <3> SUFFICES ASSUME NEW i \in Due  PROVE PartOf(i) \in Part
      BY <1>4
    <3>1. i \in Ids /\ TypeOK
      BY DueFacts
    <3>2. QED  BY <3>1, RecordFacts DEF PartOf, Part
  <2>2. \A part \in Kept(Due) : ~OnChain(part.block, view)
    <3> SUFFICES ASSUME NEW i \in Due, ~Applied(log[i].block)  PROVE ~OnChain(PartOf(i).block, view)
      BY <1>4
    <3>1. i \in Ids /\ TypeOK
      BY DueFacts
    <3>2. log[i].block \in Block /\ PartOf(i).block = log[i].block /\ view \in Block
      BY <3>1, RecordFacts DEF PartOf, TypeOK
    <3>3. QED  BY <3>2, OnChainPointwise DEF Applied
  <2>3. QED  BY <1>1, <2>1, <2>2, DueFacts, DrainsKeepsStatus DEF TypeOK, Control
<1>6. ModeInv' /\ OrderInv'
  BY <1>1, DueFacts DEF ReplayInv, ModeInv, OrderInv
<1>7. PartsInv'
  <2>1. \A i : PartOf(i)' = PartOf(i)
    BY <1>1 DEF PartOf
  <2>2. \A i \in Drained : OnChain(log[i].block, view) \/ PartOf(i) \in pending
    BY DueFacts DEF ReplayInv, PartsInv
  <2>3. \A part \in pending : \E i \in Drained : PartOf(i) = part
    BY DueFacts DEF ReplayInv, PartsInv
  <2>4. QED  BY <1>1, <1>3, <1>4, <2>1, <2>2, <2>3, DueFacts DEF PartsInv
<1>8. ForkInv'
  <2> SUFFICES ASSUME NEW n \in Number(Start) + 1 .. Number(view), NEW s \in Block,
                      s # BlockAt(view, n), Number(s) = Number(BlockAt(view, n)),
                      Parent(s) = Parent(BlockAt(view, n)), Whole(Drained \cup Due, s)
               PROVE  FALSE
    BY <1>1, DueFacts DEF ForkInv, Rivals, Whole, Holds
  <2>1. view \in Block /\ n \in 0 .. Number(view) /\ Number(view) \in Nat
    BY DueFacts, StartFacts, BlockFacts DEF TypeOK
  <2>2. Number(s) = n /\ ~OnChain(s, view) /\ Applied(s)
    BY <2>1, BlockAtFacts DEF Applied
  <2>3. \A i \in Due : log[i].block # s
    BY <1>2, <2>2
  <2>4. Whole(Drained, s)
    BY <2>3 DEF Whole, Holds
  <2>5. s \in Rivals(Drained, BlockAt(view, n))
    BY <2>4 DEF Rivals
  <2>6. QED  BY <2>5 DEF ReplayInv, ForkInv
<1>9. TimeInv'
  <2>1. \A i \in Drained \cup Due : log[i].at <= clock' /\ log[i].at \in Nat
    <3>1. Drained \cup Due \subseteq Ids /\ TypeOK
      BY DueFacts DEF Drained
    <3>2. \A i \in Drained \cup Due : log[i].at \in Nat
      BY <3>1, RecordFacts
    <3>3. QED  BY <3>2, DueFacts
  <2>2. \A j \in left \ Due : log[j].at \in Nat /\ clock' < log[j].at /\ clock' <= log[j].at
    BY DueFacts, RecordFacts
  <2>3. clock' \in Nat
    BY DueFacts
  <2>4. \A i \in Drained \cup Due, j \in left \ Due : log[i].at < log[j].at
    BY <2>1, <2>2, <2>3
  <2>5. QED  BY <1>1, <2>1, <2>2, <2>4, DueFacts DEF TimeInv
<1>10. KnownInv'
  <2> SUFFICES ASSUME NEW n \in Number(Start) + 1 .. Number(view)
               PROVE  Whole({i \in window : log[i].at <= clock'}, BlockAt(view, n))
    BY <1>1 DEF KnownInv, KnownBy, Whole, Holds
  <2>1. Whole({i \in window : log[i].at <= clock}, BlockAt(view, n))
    BY DueFacts DEF ReplayInv, KnownInv, KnownBy
  <2>2. \A i \in window : log[i].at \in Nat
    BY DueFacts, RecordFacts
  <2>3. clock \in Nat /\ clock' \in Nat /\ clock <= clock'
    BY DueFacts DEF TypeOK
  <2>4. {i \in window : log[i].at <= clock} \subseteq {i \in window : log[i].at <= clock'}
    BY <2>2, <2>3
  <2>5. QED  BY <2>1, <2>4 DEF Whole
<1>11. MomentInv'
  <2> SUFFICES ASSUME Number(view) < To, NEW s \in Block, Follows(s), NEW t \in Time, t < clock',
                      KnownUpTo(window, s, t)
               PROVE  FALSE
    BY <1>1 DEF MomentInv, Follows, KnownUpTo, KnownBy, Whole, Holds
  <2>1. ~Whole(Drained, s)
    BY <1>1 DEF ReplayInv, MomentInv
  <2>2. BlockAt(s, Number(s)) = s /\ Number(s) = Number(view) + 1 /\ Number(view) \in Nat
    BY DueFacts, FollowsFacts
  <2>3. Number(Start) <= Number(view)
    BY DueFacts, StartFacts, OnChainPointwise DEF TypeOK
  <2>4. Number(s) \in Number(Start) + 1 .. Number(s)
    BY <2>2, <2>3, StartFacts
  <2>5. Whole({i \in window : log[i].at <= t}, s)
    BY <2>2, <2>4 DEF KnownUpTo, KnownBy
  <2>6. {i \in window : log[i].at <= t} \subseteq Drained
    <3> SUFFICES ASSUME NEW i \in window, log[i].at <= t, i \in left  PROVE FALSE
      BY DEF Drained
    <3>1. log[i].at \in Nat /\ clock' <= log[i].at /\ clock' \in Nat /\ t \in Nat
      BY DueFacts, RecordFacts, ReplayAssumption
    <3>2. QED  BY <3>1
  <2>7. QED  BY <2>1, <2>5, <2>6 DEF Whole
<1>12. RowsInv'
  BY <1>1, RowsKept DEF ReplayInv
<1>13. QED
  BY <1>5, <1>6, <1>7, <1>8, <1>9, <1>10, <1>11, <1>12, DrainsKeepsStatus DEF ReplayInv

-----------------------------------------------------------------------------
(* The blocks that are whole by now                                        *)

\* A block above the view waits with the parts that were drained of it.
LEMMA WaitingParts ==
  ASSUME ReplayInv, mode = "observed", NEW s \in Block, ~OnChain(s, view)
  PROVE  WholeIn(pending, s) <=> Whole(Drained, s)
<1>1. /\ \A i \in Drained : OnChain(log[i].block, view) \/ PartOf(i) \in pending
      /\ \A part \in pending : \E i \in Drained : PartOf(i) = part
  BY DEF ReplayInv, PartsInv
<1>2. ASSUME NEW o \in Observer, NEW k \in Kind
      PROVE  [block |-> s, observer |-> o, kind |-> k] \in pending <=> \E i \in Drained : Holds(i, s, o, k)
  <2> DEFINE part == [block |-> s, observer |-> o, kind |-> k]
  <2>1. ASSUME NEW i \in Drained, Holds(i, s, o, k)  PROVE part \in pending
    <3>1. PartOf(i) = part
      BY <2>1 DEF PartOf, Holds
    <3>2. ~OnChain(log[i].block, view)
      BY <2>1 DEF Holds
    <3>3. QED  BY <1>1, <3>1, <3>2
  <2>2. ASSUME part \in pending  PROVE \E i \in Drained : Holds(i, s, o, k)
    <3>1. PICK i \in Drained : PartOf(i) = part
      BY <1>1, <2>2
    <3>2. PartOf(i).block = s /\ PartOf(i).observer = o /\ PartOf(i).kind = k
      BY <3>1
    <3>3. Holds(i, s, o, k)
      BY <3>2 DEF PartOf, Holds
    <3>4. QED  BY <3>3
  <2>3. QED  BY <2>1, <2>2
<1>3. QED  BY <1>2 DEF WholeIn, Whole

LEMMA NothingReadyKeeps ==
  ASSUME ReplayInv, pc = "apply", Ready = {}, pc' = "observe",
         UNCHANGED <<log, after, mode, rows, view, window, left, clock, pending, statuses, quality>>
  PROVE  ReplayInv'
<1>1. mode = "observed" /\ TypeOK
  BY DEF ReplayInv, ModeInv
<1>2. TypeOK' /\ ModeInv'
  BY <1>1 DEF ReplayInv, TypeOK, Control, ModeInv
<1>3. PartsInv' /\ TimeInv' /\ OrderInv'
  BY DEF ReplayInv, PartsInv, TimeInv, OrderInv, Drained, PartOf
<1>4. StatusIsOfTheTime'
  BY DEF ReplayInv, StatusIsOfTheTime
<1>5. ForkInv' /\ KnownInv'
  BY DEF ReplayInv, ForkInv, KnownInv, Rivals, KnownBy, Whole, Holds, Drained
<1>6. MomentInv'
  <2> SUFFICES ASSUME Number(view) < To, NEW s \in Block, Follows(s), Whole(Drained, s)
               PROVE  FALSE
    BY DEF MomentInv, Follows, Whole, Holds, Drained
  <2>1. ~OnChain(s, view)
    BY <1>1, FollowsFacts
  <2>2. WholeIn(pending, s)
    BY <1>1, <2>1, WaitingParts
  <2>3. QED  BY <2>2 DEF Ready
<1>7. RowsInv'
  BY RowsKept DEF ReplayInv
<1>8. QED  BY <1>2, <1>3, <1>4, <1>5, <1>6, <1>7 DEF ReplayInv

\* The one whole block that follows is applied.
Applies(b) ==
  /\ pc = "apply" /\ Number(view) < To /\ Follows(b) /\ WholeIn(pending, b) /\ Ready = {b}
  /\ Process(b, clock, window)
  /\ pending' = {part \in pending : part.block # b}
  /\ UNCHANGED <<log, after, mode, pc, window, left, clock, statuses, quality>>

LEMMA AppliesFacts ==
  ASSUME ReplayInv, NEW b \in Block, Applies(b)
  PROVE  /\ TypeOK /\ mode = "observed" /\ view' = b /\ Drained' = Drained
         /\ Whole(Drained, b)
         /\ Drained \subseteq window /\ window \subseteq Ids
         /\ Number(Start) + 1 <= Number(b) /\ Number(Start) \in Nat
<1>1. TypeOK /\ mode = "observed" /\ view' = b /\ Drained' = Drained /\ Follows(b)
  BY DEF ReplayInv, ModeInv, Applies, Process, Drained
<1>2. Whole(Drained, b)
  BY <1>1, FollowsFacts, WaitingParts DEF Applies
<1>3. Drained \subseteq window /\ window \subseteq Ids
  BY <1>1 DEF TypeOK, Drained, Ids
<1>4. Number(Start) <= Number(view)
  BY <1>1, StartFacts, OnChainPointwise DEF TypeOK
<1>5. QED  BY <1>1, <1>2, <1>3, <1>4, StartFacts, FollowsFacts

\* The block was known at the moment, with all before it, and at none before.
LEMMA AppliedWhenKnown ==
  ASSUME ReplayInv, NEW b \in Block, Applies(b)
  PROVE  /\ KnownBy(window, b, clock)
         /\ KnownUpTo(window, b, clock)
         /\ \A t \in Time : t < clock => ~KnownUpTo(window, b, t)
<1>1. KnownBy(window, b, clock)
  <2>1. Drained \subseteq {i \in window : log[i].at <= clock}
    BY AppliesFacts DEF ReplayInv, TimeInv
  <2>2. QED  BY <2>1, AppliesFacts DEF KnownBy, Whole
<1>2. KnownUpTo(window, b, clock)
  <2> SUFFICES ASSUME NEW n \in Number(Start) + 1 .. Number(b)
               PROVE  KnownBy(window, BlockAt(b, n), clock)
    BY DEF KnownUpTo
  <2>1. Follows(b) /\ TypeOK /\ mode = "observed"
    BY AppliesFacts DEF Applies
  <2>2. CASE n \in Number(Start) + 1 .. Number(view) /\ n \in 0 .. Number(view)
    <3>1. BlockAt(b, n) = BlockAt(view, n)
      BY <2>1, <2>2, FollowsFacts
    <3>2. QED  BY <2>1, <2>2, <3>1 DEF ReplayInv, KnownInv
  <2>3. CASE n = Number(b)
    BY <1>1, <2>1, <2>3, FollowsFacts
  <2>4. QED  BY <2>1, <2>2, <2>3, NextHeights
<1>3. \A t \in Time : t < clock => ~KnownUpTo(window, b, t)
  BY DEF ReplayInv, MomentInv, Applies
<1>4. QED  BY <1>1, <1>2, <1>3

LEMMA AppliesKeeps ==
  ASSUME ReplayInv, NEW b \in Block, Applies(b)
  PROVE  ReplayInv'
<1>1. /\ pc = "apply" /\ Number(view) < To /\ Follows(b) /\ Ready = {b}
      /\ rows' = IF rows[b] # None THEN rows
                 ELSE [rows EXCEPT ![b] = [at |-> clock, read |-> window]]
      /\ pending' = {part \in pending : part.block # b}
      /\ UNCHANGED <<log, after, mode, pc, window, left, clock, statuses, quality>>
  BY DEF Applies, Process
<1>2. /\ TypeOK /\ mode = "observed" /\ view' = b /\ Drained' = Drained
      /\ Whole(Drained, b) /\ Drained \subseteq window /\ window \subseteq Ids
  BY AppliesFacts
<1>3. /\ Number(view) \in Nat /\ Number(b) = Number(view) + 1 /\ Number(b) \in Nat
      /\ OnChain(b, b) /\ OnChain(view, b) /\ OnChain(Start, b)
      /\ \A n \in 0 .. Number(view) : BlockAt(b, n) = BlockAt(view, n)
      /\ BlockAt(b, Number(b)) = b
      /\ \A a \in Block : OnChain(a, view) => OnChain(a, b)
  BY <1>1, <1>2, FollowsFacts
<1>4. \A i \in Ids : log[i].block \in Block /\ log[i].at \in Nat
  BY <1>2, RecordFacts
<1>5. TypeOK'
  <2>1. \A part \in pending : part \in Part /\ part.block \in Block /\ ~OnChain(part.block, view)
    BY <1>2 DEF TypeOK, Part
  <2>2. \A part \in pending' : ~OnChain(part.block, b)
    <3> SUFFICES ASSUME NEW part \in pending, part.block # b, OnChain(part.block, b)
                 PROVE  OnChain(part.block, view)
      BY <1>1, <2>1
    <3> DEFINE c == part.block
    <3>1. c \in Block /\ c # b /\ OnChain(c, b) /\ view \in Block
      BY <1>2, <2>1 DEF TypeOK
    <3> HIDE DEF c
    <3>2. Number(c) \in Nat /\ Number(c) <= Number(b)
      BY <3>1, BlockFacts, OnChainPointwise
    <3>3. Number(c) # Number(b)
      <4>1. Number(b) \in 0 .. Number(b)
        BY <1>3
      <4>2. QED  BY <1>3, <3>1, <4>1, BlockAtFacts
    <3>4. Number(c) <= Number(view)
      BY <1>3, <3>2, <3>3
    <3>5. OnChain(c, view)
      BY <1>3, <3>1, <3>4, AncestorsAreOrdered
    <3>6. QED  BY <3>5 DEF c
  <2>3. window \in SUBSET (1 .. MaxRecords) /\ clock \in Nat
    BY <1>2, RecordFacts, ReplayAssumption DEF TypeOK, Ids
  <2>4. clock \in Time
    BY <1>1 DEF ReplayInv, ModeInv
  <2>5. [at |-> clock, read |-> window] \in Row
    BY <2>3, <2>4 DEF Row
  <2>6. DOMAIN rows' = Block /\ \A c \in Block : rows'[c] = None \/ rows'[c] \in Row
    BY <1>1, <1>2, <2>5 DEF TypeOK
  <2>7. Number(b) <= To /\ pending' \subseteq Part
    BY <1>1, <1>3, <2>1, StartFacts
  <2>8. QED  BY <1>1, <1>2, <1>3, <2>2, <2>6, <2>7 DEF TypeOK
<1>6. ModeInv'
  BY <1>1, <1>2 DEF ReplayInv, ModeInv
<1>7. PartsInv'
  <2>1. /\ \A i \in Drained : OnChain(log[i].block, view) \/ PartOf(i) \in pending
        /\ \A part \in pending : \E i \in Drained : PartOf(i) = part
    BY <1>2 DEF ReplayInv, PartsInv
  <2>2. \A i : PartOf(i)' = PartOf(i) /\ PartOf(i).block = log[i].block
    BY <1>1 DEF PartOf
  <2>3. \A i \in Drained : OnChain(log[i].block, b) \/ PartOf(i) \in pending'
    BY <1>1, <1>2, <1>3, <1>4, <2>1, <2>2
  <2>4. QED  BY <1>1, <1>2, <2>1, <2>2, <2>3 DEF PartsInv
<1>8. ForkInv'
  <2> SUFFICES ASSUME NEW n \in Number(Start) + 1 .. Number(b), NEW s \in Block,
                      s # BlockAt(b, n), Number(s) = Number(BlockAt(b, n)),
                      Parent(s) = Parent(BlockAt(b, n)), Whole(Drained, s)
               PROVE  FALSE
    BY <1>1, <1>2 DEF ForkInv, Rivals, Whole, Holds
  <2>1. CASE n \in Number(Start) + 1 .. Number(view) /\ n \in 0 .. Number(view)
    <3>1. s \in Rivals(Drained, BlockAt(view, n))
      BY <1>3, <2>1 DEF Rivals
    <3>2. QED  BY <2>1, <3>1 DEF ReplayInv, ForkInv
  <2>2. CASE n = Number(b)
    <3>1. s # b /\ Follows(s)
      BY <1>1, <1>3, <2>2 DEF Follows
    <3>2. ~OnChain(s, view)
      BY <1>2, <3>1, FollowsFacts
    <3>3. WholeIn(pending, s)
      BY <1>2, <3>2, WaitingParts
    <3>4. s \in Ready
      BY <1>1, <3>1, <3>3 DEF Ready
    <3>5. QED  BY <1>1, <3>1, <3>4
  <2>3. QED  BY <1>1, <1>2, <2>1, <2>2, NextHeights
<1>9. TimeInv' /\ OrderInv' /\ StatusIsOfTheTime'
  BY <1>1, <1>2 DEF ReplayInv, TimeInv, OrderInv, StatusIsOfTheTime
<1>10. KnownInv'
  <2>1. \A n \in Number(Start) + 1 .. Number(b) : KnownBy(window, BlockAt(b, n), clock)
    BY AppliedWhenKnown DEF KnownUpTo
  <2>2. QED  BY <1>1, <1>2, <2>1 DEF KnownInv, KnownBy, Whole, Holds
<1>11. MomentInv'
  <2> SUFFICES ASSUME NEW s \in Block, Number(s) = Number(b) + 1, Parent(s) = b,
                      NEW t \in Time, t < clock, KnownUpTo(window, s, t)
               PROVE  FALSE
    BY <1>1, <1>2 DEF MomentInv, Follows, KnownUpTo, KnownBy, Whole, Holds
  <2>1. \A n \in 0 .. Number(b) : BlockAt(s, n) = BlockAt(b, n)
    <3>1. OnChain(b, s)
      <4>1. b = BlockAt(s, Number(s) - 1)
        BY DEF Parent, BlockAt, Number
      <4>2. Number(s) - 1 \in 0 .. Number(s)
        BY <1>3
      <4>3. QED  BY <4>1, <4>2, BlockAtFacts
    <3> SUFFICES ASSUME NEW n \in 0 .. Number(b)  PROVE BlockAt(s, n) = BlockAt(b, n)
      OBVIOUS
    <3>2. BlockAt(b, n) \in Block /\ OnChain(BlockAt(b, n), b) /\ Number(BlockAt(b, n)) = n
      BY BlockAtFacts
    <3>3. n \in 0 .. Number(s)
      BY <1>3
    <3>4. OnChain(BlockAt(b, n), s)
      BY <3>1, <3>2, OnChainTransitive
    <3>5. QED  BY <3>2, <3>3, <3>4, BlockAtFacts
  <2>2. KnownUpTo(window, b, t)
    <3> SUFFICES ASSUME NEW n \in Number(Start) + 1 .. Number(b)
                 PROVE  KnownBy(window, BlockAt(b, n), t)
      BY DEF KnownUpTo
    <3>1. n \in Number(Start) + 1 .. Number(s) /\ n \in 0 .. Number(b)
      BY <1>3, StartFacts
    <3>2. QED  BY <2>1, <3>1 DEF KnownUpTo
  <2>3. QED  BY <2>2, AppliedWhenKnown
<1>12. RowsInv'
  <2> SUFFICES ASSUME NEW c \in Block, rows'[c] # None,
                      NEW ids, ids = rows'[c].read, NEW time, time = rows'[c].at
               PROVE  /\ ids \subseteq Ids
                      /\ KnownUpTo(ids, c, time)
                      /\ \A t \in Time : t < time => ~KnownUpTo(ids, c, t)
    BY <1>1, <1>2 DEF RowsInv, KnownUpTo, KnownBy, Whole, Holds, Ids
  <2>1. CASE rows'[c] = rows[c]
    BY <1>2, <2>1 DEF ReplayInv, RowsInv
  <2>2. CASE rows'[c] # rows[c]
    <3>1. c = b /\ rows'[c] = [at |-> clock, read |-> window]
      BY <1>1, <1>2, <2>2 DEF TypeOK
    <3>2. ids = window /\ time = clock
      BY <3>1
    <3>3. QED  BY <1>2, <3>1, <3>2, AppliedWhenKnown
  <2>3. QED  BY <2>1, <2>2
<1>13. QED
  BY <1>5, <1>6, <1>7, <1>8, <1>9, <1>10, <1>11, <1>12 DEF ReplayInv

-----------------------------------------------------------------------------
(* Every step                                                              *)

LEMMA AdvanceKeeps ==
  ASSUME ReplayInv, Advance
  PROVE  ReplayInv'
<1>1. CASE Conflicting \/ Forked
  BY <1>1, FailsKeeps DEF Advance
<1>2. CASE ~(Conflicting \/ Forked)
  <2>1. Drains
    BY <1>2 DEF Advance, Drains
  <2>2. QED  BY <2>1, DrainsKeeps
<1>3. QED  BY <1>1, <1>2

LEMMA ApplyKeeps ==
  ASSUME ReplayInv, Apply
  PROVE  ReplayInv'
<1>1. CASE Fails
  BY <1>1, FailsKeeps DEF Apply
<1>2. CASE /\ Ready = {} /\ pc' = "observe"
           /\ UNCHANGED <<rows, view, window, left, clock, pending, statuses, quality>>
  BY <1>2, NothingReadyKeeps DEF Apply
<1>3. CASE \E b \in Ready :
             /\ Ready = {b} /\ b \notin Rejected
             /\ Process(b, clock, window)
             /\ pending' = {part \in pending : part.block # b}
             /\ UNCHANGED pc
             /\ UNCHANGED <<window, left, clock, statuses, quality>>
  <2>1. PICK b \in Ready :
          /\ Ready = {b}
          /\ Process(b, clock, window)
          /\ pending' = {part \in pending : part.block # b}
          /\ UNCHANGED <<pc, window, left, clock, statuses, quality>>
    BY <1>3
  <2>2. b \in Block /\ Number(view) < To /\ Follows(b) /\ WholeIn(pending, b)
    BY DEF Ready
  <2>3. Applies(b)
    BY <2>1, <2>2 DEF Apply, Applies
  <2>4. QED  BY <2>2, <2>3, AppliesKeeps
<1>4. QED  BY <1>1, <1>2, <1>3 DEF Apply

LEMMA NextKeeps ==
  ASSUME ReplayInv, [Next]_vars
  PROVE  ReplayInv'
<1>1. TypeOK /\ Len(log) \in Nat
  BY RecordFacts DEF ReplayInv
<1>2. CASE \E b \in Block, o \in Observer, at \in [DOMAIN Parts -> Time] : AppendBundle(b, o, at)
  BY <1>2, AppendBundleKeeps
<1>3. CASE SaveCheckpoint
  BY <1>1, <1>3, OthersKeep DEF SaveCheckpoint, own
<1>4. CASE BeginChain \/ BeginObserved
  BY <1>4, BeginKeeps
<1>5. CASE ReplayHeight
  BY <1>5, ReplayHeightKeeps
<1>6. CASE EndChain
  <2>1. left = {}
    BY <1>6 DEF EndChain, ReplayInv, ModeInv
  <2>2. QED  BY <1>6, <2>1, OthersKeep DEF EndChain
<1>7. CASE Advance
  BY <1>7, AdvanceKeeps
<1>8. CASE Apply
  BY <1>8, ApplyKeeps
<1>9. CASE EndObserved
  <2>1. CASE Number(view) < To
    BY <1>9, <2>1, FailsKeeps DEF EndObserved
  <2>2. CASE ~(Number(view) < To)
    <3>1. Number(view) = To
      BY <1>1, <2>2, BlockFacts, StartFacts DEF TypeOK
    <3>2. QED  BY <1>9, <2>2, <3>1, OthersKeep DEF EndObserved
  <2>3. QED  BY <2>1, <2>2
<1>10. CASE Crash
  BY <1>10, FailsKeeps DEF Crash
<1>11. CASE UNCHANGED vars
  <2>1. after' \in 0 .. Len(log)
    BY <1>1, <1>11 DEF TypeOK, vars
  <2>2. QED  BY <1>11, <2>1, OthersKeep DEF vars, own
<1>12. QED
  BY <1>2, <1>3, <1>4, <1>5, <1>6, <1>7, <1>8, <1>9, <1>10, <1>11 DEF Next

LEMMA Invariance == Spec => []ReplayInv
<1>1. Init => ReplayInv
  BY InitReplayInv
<1>2. ReplayInv /\ [Next]_vars => ReplayInv'
  BY NextKeeps
<1>3. QED  BY <1>1, <1>2, PTL DEF Spec

-----------------------------------------------------------------------------
(* The theorems                                                            *)

\* The variables of a replay keep their types: what it applies is above the checkpoint and
\* up to the height asked for, and the parts that wait are of no block it has applied.
THEOREM ReplayTypesCorrect == Spec => []TypeOK
<1>1. ReplayInv => TypeOK
  BY DEF ReplayInv
<1>2. QED  BY <1>1, Invariance, PTL

\* A replay takes no side of a fork it could have seen (replay.rs: the candidates of a
\* height must be one, and a record of a block that lost fails the replay).
THEOREM ForksAreNotGuessed == Spec => []NoForkIsGuessed
<1>1. ReplayInv => NoForkIsGuessed
  <2> SUFFICES ASSUME ReplayInv  PROVE NoForkIsGuessed
    OBVIOUS
  <2>1. mode = "chain" => Drained = window
    BY DEF ReplayInv, ModeInv, Drained
  <2>2. mode = "observed" /\ pc = "done" => Drained = window /\ Number(view) = To
    BY DEF ReplayInv, ModeInv, Drained
  <2>3. QED  BY <2>1, <2>2 DEF ReplayInv, ForkInv, NoForkIsGuessed
<1>2. QED  BY <1>1, Invariance, PTL

\* A transaction's outcome is, at each moment of an observed replay, what the receipts
\* received by then say: none is forgotten, and none is known early.
THEOREM StatusesAreOfTheTime == Spec => []StatusIsOfTheTime
<1>1. ReplayInv => StatusIsOfTheTime
  BY DEF ReplayInv
<1>2. QED  BY <1>1, Invariance, PTL

\* An observed row is dated with the first moment at which the block, and all before it up
\* to the checkpoint, were whole at some observer, also in a second attempt over the rows
\* of the first; and clocks that were not marked gave the records in their stored order.
THEOREM RowsAreDatedWhenKnown == Spec => []DetectedWhenKnown
<1>1. ReplayInv => DetectedWhenKnown
  <2> SUFFICES ASSUME ReplayInv, mode = "observed"  PROVE DetectedWhenKnown
    BY DEF DetectedWhenKnown
  <2>1. ASSUME quality = NoMark, NEW i \in window \ left, NEW j \in left  PROVE i < j
    <3>1. i \in Drained /\ i \in window /\ j \in window /\ window \subseteq Ids /\ TypeOK
      BY DEF ReplayInv, TypeOK, Drained, Ids
    <3>2. log[i].at < log[j].at
      BY <3>1 DEF ReplayInv, TimeInv
    <3>3. j < i => log[j].at <= log[i].at
      BY <2>1, <3>1 DEF ReplayInv, OrderInv
    <3>4. /\ log[i].at \in Nat /\ log[j].at \in Nat /\ i \in Nat /\ j \in Nat
      BY <3>1, RecordFacts DEF Ids
    <3>5. QED  BY <3>2, <3>3, <3>4
  <2>2. QED  BY <2>1 DEF ReplayInv, RowsInv, DetectedWhenKnown
<1>2. QED  BY <1>1, Invariance, PTL

=============================================================================
