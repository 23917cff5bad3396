-------------------------- MODULE AuditChainProofs --------------------------
(***************************************************************************)
(* Proofs about AuditChain for any writers, clocks, entries and number of  *)
(* rows: the lock makes the rows a chain.                                  *)
(***************************************************************************)
EXTENDS AuditChain, SequenceTheorems, FiniteSetTheorems, TLAPS

\* A sequence with one element more.
LEMMA Extended ==
  ASSUME NEW S, NEW s \in Seq(S), NEW e \in S
  PROVE  /\ Append(s, e) \in Seq(S)
         /\ Len(Append(s, e)) = Len(s) + 1
         /\ \A i \in 1..Len(s) : Append(s, e)[i] = s[i]
         /\ Append(s, e)[Len(s) + 1] = e
         /\ DOMAIN Append(s, e) = 1..(Len(s) + 1)
         /\ SubSeq(Append(s, e), 1, Len(Append(s, e)) - 1) = s
<1>1. /\ Append(s, e) \in Seq(S)
      /\ Len(Append(s, e)) = Len(s) + 1
      /\ \A i \in 1..Len(s) : Append(s, e)[i] = s[i]
      /\ Append(s, e)[Len(s) + 1] = e
      /\ DOMAIN Append(s, e) = 1..(Len(s) + 1)
  BY AppendProperties
<1>2. SubSeq(Append(s, e), 1, Len(Append(s, e)) - 1) = s
  BY <1>1, HeadTailAppend
<1>. QED  BY <1>1, <1>2

-----------------------------------------------------------------------------
(* Type correctness. *)

LEMMA RowsTyped ==
  ASSUME TypeOK, NEW i \in DOMAIN rows
  PROVE  rows[i].at \in Int /\ rows[i].checksum \in Checksum
<1>1. rows \in Seq(AuditEvent) /\ i \in 1..Len(rows)
  BY LenProperties DEF TypeOK
<1>2. rows[i] \in AuditEvent
  BY <1>1, ElementOfSeq
<1>. QED  BY <1>2 DEF AuditEvent

LEMMA RowType ==
  ASSUME TypeOK, NEW w \in Writers, pc[w] # "idle"
  PROVE  /\ Row(w) \in AuditEvent
         /\ canonical(entry[w].subject, entry[w].metadata) \in Canonical
         /\ Row(w).checksum =
              Append(prev[w], canonical(entry[w].subject, entry[w].metadata))
<1>1. entry[w] \in Entry /\ prev[w] \in Checksum
  BY DEF TypeOK
<1>2. entry[w].subject \in Subject /\ entry[w].metadata \in Metadata
  BY <1>1 DEF Entry
<1>3. canonical(entry[w].subject, entry[w].metadata) \in Canonical
  BY <1>2 DEF Canonical
<1>4. Stored(entry[w].metadata) \in StoredMetadata
  BY <1>2 DEF StoredMetadata
<1>5. clock + ClockOf[w] \in Int
  BY ClockAssumption DEF TypeOK
<1>6. Append(prev[w], canonical(entry[w].subject, entry[w].metadata)) \in Checksum
  BY <1>1, <1>3, Extended DEF Checksum
<1>. QED  BY <1>2, <1>3, <1>4, <1>5, <1>6 DEF Row, AuditEvent

LEMMA TypeInit == Init => TypeOK
<1>. <<>> \in Checksum /\ <<>> \in Seq(AuditEvent)
  BY EmptySeq DEF Checksum
<1>. QED  BY DEF Init, TypeOK, PC, GENESIS

LEMMA EndTransactionType ==
  ASSUME TypeOK, NEW w \in Writers, EndTransaction(w)
  PROVE  /\ lock' \subseteq Writers
         /\ pc' \in [Writers -> PC]
         /\ entry' \in [Writers -> Entry \union {NoEntry}]
         /\ prev' \in [Writers -> Checksum]
         /\ \A v \in Writers : pc'[v] # "idle" => entry'[v] \in Entry
<1>. <<>> \in Checksum
  BY EmptySeq DEF Checksum
<1>. QED  BY DEF TypeOK, EndTransaction, Released, PC, GENESIS

LEMMA TypeNext ==
  ASSUME TypeOK, [Next]_vars
  PROVE  TypeOK'
<1>1. ASSUME NEW w \in Writers, NEW e \in Entry, begin(w, e)
      PROVE  TypeOK'
  BY <1>1 DEF begin, TypeOK, PC
<1>2. ASSUME NEW w \in Writers, acquire(w)
      PROVE  TypeOK'
  BY <1>2 DEF acquire, TypeOK, PC
<1>3. ASSUME NEW w \in Writers, readLast(w)
      PROVE  TypeOK'
  <2>1. <<>> \in Checksum
    BY EmptySeq DEF Checksum
  <2>2. \A i \in DOMAIN rows : rows[i].checksum \in Checksum
    BY RowsTyped
  <2>3. prev' \in [Writers -> Checksum]
    BY <1>3, <2>1, <2>2 DEF readLast, TypeOK, Last, GENESIS
  <2>. QED  BY <1>3, <2>3 DEF readLast, TypeOK, PC
<1>4. ASSUME NEW w \in Writers, create(w)
      PROVE  TypeOK'
  <2>1. rows' \in Seq(AuditEvent)
    BY <1>4, RowType, Extended DEF create, TypeOK
  <2>. QED  BY <1>4, <2>1, EndTransactionType DEF create, TypeOK
<1>5. ASSUME NEW w \in Writers, abort(w)
      PROVE  TypeOK'
  BY <1>5, EndTransactionType DEF abort, TypeOK
<1>6. CASE tick
  BY <1>6 DEF tick, TypeOK
<1>7. CASE UNCHANGED vars
  BY <1>7 DEF vars, TypeOK
<1>. QED  BY <1>1, <1>2, <1>3, <1>4, <1>5, <1>6, <1>7 DEF Next, Log

\* Rows and transactions are always what the schema and log make of them.
THEOREM TypeCorrect == Spec => []TypeOK
BY TypeInit, TypeNext, PTL DEF Spec

-----------------------------------------------------------------------------
(* The chain. *)

\* One transaction is past the lock, and its writer holds it.
Exclusive ==
  /\ \A w \in Writers : pc[w] \in {"read", "create"} => w \in lock
  /\ \A v, w \in lock : v = w

\* What was read under the lock still is a latest row when the row is made.
PrevIsLast ==
  \A w \in Writers : pc[w] = "create" =>
    IF rows = <<>> THEN prev[w] = GENESIS
    ELSE \E i \in Last : prev[w] = rows[i].checksum

IInv == TypeOK /\ Exclusive /\ PrevIsLast /\ NoOrphan /\ ChainIsLinear

LEMMA IInvInit == Init => IInv
BY TypeInit DEF Init, IInv, Exclusive, PrevIsLast, NoOrphan, ChainIsLinear, GENESIS

\* A step that adds no row and reads none.
LEMMA SameRows ==
  ASSUME IInv, UNCHANGED rows
  PROVE  NoOrphan' /\ ChainIsLinear' /\ Last' = Last
BY DEF IInv, NoOrphan, ChainIsLinear, OrderedUpTo, Last, GENESIS

\* When clocks agree with the commits, the latest row is the last.
LEMMA LatestIsLast ==
  ASSUME TypeOK, OrderedUpTo(Len(rows)), NEW i \in Last
  PROVE  i = Len(rows)
<1>1. i \in 1..Len(rows) /\ Len(rows) \in DOMAIN rows /\ Len(rows) \in Nat
  BY LenProperties DEF TypeOK, Last
<1>2. \A j \in DOMAIN rows : rows[j].at \in Int
  BY RowsTyped
<1>3. rows[Len(rows)].at <= rows[i].at
  BY <1>1 DEF Last
<1>. QED  BY <1>1, <1>2, <1>3 DEF OrderedUpTo

LEMMA CreateKeepsChain ==
  ASSUME IInv, NEW w \in Writers, create(w)
  PROVE  NoOrphan' /\ ChainIsLinear'
<1>. DEFINE n == Len(rows)
            x == canonical(entry[w].subject, entry[w].metadata)
<1>1. /\ rows \in Seq(AuditEvent) /\ prev[w] \in Seq(Canonical)
      /\ Row(w) \in AuditEvent /\ x \in Canonical
      /\ Row(w).checksum = Append(prev[w], x)
  BY RowType DEF IInv, TypeOK, create, Checksum
<1>2. /\ rows' = Append(rows, Row(w)) /\ rows' \in Seq(AuditEvent)
      /\ Len(rows') = n + 1 /\ DOMAIN rows' = 1..(n + 1) /\ DOMAIN rows = 1..n
      /\ \A i \in 1..n : rows'[i] = rows[i]
      /\ rows'[n + 1] = Row(w)
      /\ n \in Nat
  BY <1>1, Extended, LenProperties DEF create
<1>3. /\ Parent(Row(w)) = prev[w]
      /\ Len(Row(w).checksum) = Len(prev[w]) + 1
      /\ \A k \in 1..Len(prev[w]) : Row(w).checksum[k] = prev[w][k]
  BY <1>1, Extended DEF Parent
<1>4. CASE rows = <<>>
  <2>1. n = 0 /\ prev[w] = <<>>
    BY <1>4 DEF IInv, PrevIsLast, create, GENESIS
  <2>2. NoOrphan'
    BY <1>2, <1>3, <2>1 DEF NoOrphan, GENESIS
  <2>3. ChainIsLinear'
    BY <1>2, <1>3, <2>1 DEF ChainIsLinear
  <2>. QED  BY <2>2, <2>3
<1>5. CASE rows # <<>>
  <2>1. PICK last \in Last : prev[w] = rows[last].checksum
    BY <1>5 DEF IInv, PrevIsLast, create
  <2>2. last \in 1..n /\ n # 0
    BY <1>2, <2>1 DEF Last
  <2>3. NoOrphan'
    <3>. SUFFICES ASSUME NEW i \in 1..(n + 1)
                  PROVE  IF i = 1 THEN Parent(rows'[i]) = GENESIS
                         ELSE \E j \in 1..(i - 1) : rows'[j].checksum = Parent(rows'[i])
      BY <1>2 DEF NoOrphan, GENESIS, Parent
    <3>1. CASE i = n + 1
      BY <1>2, <1>3, <2>1, <2>2, <3>1
    <3>2. CASE i \in 1..n
      BY <1>2, <3>2 DEF IInv, NoOrphan
    <3>. QED  BY <1>2, <3>1, <3>2
  <2>4. ASSUME OrderedUpTo(Len(rows))', NEW i \in 1..(n + 1)
        PROVE  /\ Len(rows'[i].checksum) = i
               /\ \A k \in 1..(i - 1) : rows'[i].checksum[k] = rows'[k].checksum[k]
    <3>1. OrderedUpTo(Len(rows))
      BY <1>2, <2>4 DEF OrderedUpTo
    <3>2. last = n
      BY <2>1, <3>1, LatestIsLast DEF IInv
    <3>3. \A j \in 1..n :
            /\ Len(rows[j].checksum) = j
            /\ \A k \in 1..(j - 1) : rows[j].checksum[k] = rows[k].checksum[k]
      BY <1>2, <3>1 DEF IInv, ChainIsLinear
    <3>4. CASE i = n + 1
      BY <1>2, <1>3, <2>1, <2>2, <3>2, <3>3, <3>4
    <3>5. CASE i \in 1..n
      BY <1>2, <3>3, <3>5
    <3>. QED  BY <1>2, <3>4, <3>5
  <2>5. ChainIsLinear'
    BY <1>2, <2>4 DEF ChainIsLinear
  <2>. QED  BY <2>3, <2>5
<1>. QED  BY <1>4, <1>5

LEMMA IInvNext ==
  ASSUME IInv, [Next]_vars
  PROVE  IInv'
<1>. TypeOK /\ TypeOK'
  BY TypeNext DEF IInv
<1>1. ASSUME NEW w \in Writers, NEW e \in Entry, begin(w, e)
      PROVE  IInv'
  <2>1. Exclusive' /\ PrevIsLast'
    BY <1>1, SameRows DEF begin, IInv, TypeOK, Exclusive, PrevIsLast, GENESIS
  <2>. QED  BY <1>1, <2>1, SameRows DEF begin, IInv
<1>2. ASSUME NEW w \in Writers, acquire(w)
      PROVE  IInv'
  <2>1. Exclusive' /\ PrevIsLast'
    BY <1>2, SameRows DEF acquire, Grantable, IInv, TypeOK, Exclusive, PrevIsLast, GENESIS
  <2>. QED  BY <1>2, <2>1, SameRows DEF acquire, IInv
<1>3. ASSUME NEW w \in Writers, readLast(w)
      PROVE  IInv'
  <2>1. Exclusive'
    BY <1>3 DEF readLast, IInv, TypeOK, Exclusive
  <2>2. UNCHANGED rows /\ Last' = Last
    BY <1>3, SameRows DEF readLast
  <2>3. IF rows = <<>> THEN prev'[w] = GENESIS
        ELSE \E i \in Last : prev'[w] = rows[i].checksum
    BY <1>3 DEF readLast, TypeOK, Last, GENESIS
  <2>4. \A v \in Writers : v # w => pc'[v] = pc[v] /\ prev'[v] = prev[v]
    BY <1>3 DEF readLast, TypeOK
  <2>5. PrevIsLast'
    BY <2>2, <2>3, <2>4 DEF IInv, PrevIsLast, GENESIS
  <2>. QED  BY <2>1, <2>2, <2>5, SameRows DEF IInv
<1>4. ASSUME NEW w \in Writers, create(w)
      PROVE  IInv'
  <2>1. \A v \in Writers : pc'[v] # "create"
    BY <1>4 DEF create, EndTransaction, IInv, TypeOK, Exclusive
  <2>2. Exclusive'
    BY <1>4 DEF create, EndTransaction, Released, IInv, TypeOK, Exclusive
  <2>3. PrevIsLast'
    BY <2>1 DEF PrevIsLast
  <2>. QED  BY <1>4, <2>2, <2>3, CreateKeepsChain DEF IInv
<1>5. ASSUME NEW w \in Writers, abort(w)
      PROVE  IInv'
  <2>1. Exclusive' /\ PrevIsLast'
    BY <1>5, SameRows
    DEF abort, EndTransaction, Released, IInv, TypeOK, Exclusive, PrevIsLast, GENESIS
  <2>. QED  BY <1>5, <2>1, SameRows DEF abort, IInv
<1>6. CASE tick
  <2>1. Exclusive' /\ PrevIsLast'
    BY <1>6, SameRows DEF tick, IInv, Exclusive, PrevIsLast, GENESIS
  <2>. QED  BY <1>6, <2>1, SameRows DEF tick, IInv
<1>7. CASE UNCHANGED vars
  <2>1. Exclusive' /\ PrevIsLast'
    BY <1>7, SameRows DEF vars, IInv, Exclusive, PrevIsLast, GENESIS
  <2>. QED  BY <1>7, <2>1, SameRows DEF vars, IInv
<1>. QED  BY <1>1, <1>2, <1>3, <1>4, <1>5, <1>6, <1>7 DEF Next, Log

\* Whatever the interleaving of the writers and of their aborts, rows whose
\* timestamps follow their commits form one chain.
THEOREM ChainIsLinearAlways == Spec => []ChainIsLinear
BY IInvInit, IInvNext, PTL DEF Spec, IInv

\* Whatever the clocks, every row extends an earlier one.
THEOREM NoOrphanAlways == Spec => []NoOrphan
BY IInvInit, IInvNext, PTL DEF Spec, IInv
-----------------------------------------------------------------------------
(* verifyChain. *)

LEMMA RowsDomain ==
  ASSUME TypeOK
  PROVE  DOMAIN rows = 1..Len(rows) /\ Len(rows) \in Nat
BY LenProperties DEF TypeOK

\* The size of an interval, and that into a smaller one nothing maps
\* injectively.
LEMMA IntervalSize ==
  ASSUME NEW a \in Int, NEW b \in Int, a <= b
  PROVE  IsFiniteSet(a..b) /\ Cardinality(a..b) = b - a + 1
<1>1. IsFiniteSet(a..b) /\ Cardinality(a..b) = IF a > b THEN 0 ELSE b - a + 1
  BY FS_Interval
<1>. QED  BY <1>1

LEMMA NoRoomBelow ==
  ASSUME NEW i \in Nat, NEW m \in Nat, 1 <= m, m < i, NEW f \in [1..i -> 1..m]
  PROVE  \E x, y \in 1..i : x # y /\ f[x] = f[y]
<1>1. IsFiniteSet(1..i) /\ Cardinality(1..i) = i - 1 + 1
  BY IntervalSize
<1>2. IsFiniteSet(1..m) /\ Cardinality(1..m) = m - 1 + 1
  BY IntervalSize
<1>3. Cardinality(1..m) < Cardinality(1..i)
  BY <1>1, <1>2
<1>. QED  BY <1>1, <1>2, <1>3, FS_PigeonHole

LEMMA NoRoomAbove ==
  ASSUME NEW i \in Nat, NEW m \in Nat, NEW n \in Nat, i < m, m <= n,
         NEW f \in [i..n -> m..n]
  PROVE  \E x, y \in i..n : x # y /\ f[x] = f[y]
<1>1. IsFiniteSet(i..n) /\ Cardinality(i..n) = n - i + 1
  BY IntervalSize
<1>2. IsFiniteSet(m..n) /\ Cardinality(m..n) = n - m + 1
  BY IntervalSize
<1>3. Cardinality(m..n) < Cardinality(i..n)
  BY <1>1, <1>2
<1>. QED  BY <1>1, <1>2, <1>3, FS_PigeonHole

\* When no two rows share a timestamp there is one order to return them in:
\* a strictly increasing p from 1..n to itself leaves no room for a place to
\* move, up or down.
LEMMA OneOrder ==
  ASSUME TypeOK, OrderedUpTo(Len(rows)), NEW p \in ByTime, NEW i \in DOMAIN rows
  PROVE  p[i] = i
<1>. DEFINE n == Len(rows)
<1>1. n \in Nat /\ DOMAIN rows = 1..n /\ i \in 1..n
  BY RowsDomain
<1>2. /\ p \in [1..n -> 1..n]
      /\ \A j, k \in 1..n : p[j] = p[k] => j = k
      /\ \A j, k \in 1..n : j < k => rows[p[j]].at <= rows[p[k]].at
  BY <1>1 DEF ByTime
<1>3. \A j \in 1..n : rows[j].at \in Int
  BY <1>1, RowsTyped
<1>4. ASSUME NEW j \in 1..n, NEW k \in 1..n, j < k
      PROVE  p[j] < p[k]
  <2>1. p[j] \in 1..n /\ p[k] \in 1..n /\ p[j] # p[k]
    BY <1>1, <1>2, <1>4
  <2>2. ~(p[k] < p[j])
    BY <1>2, <1>3, <1>4, <2>1 DEF OrderedUpTo
  <2>. QED  BY <1>1, <2>1, <2>2
<1>. DEFINE m == p[i]
<1>5. m \in 1..n
  BY <1>1, <1>2
<1>6. ASSUME m < i  PROVE FALSE
  <2>. DEFINE low == [j \in 1..i |-> p[j]]
  <2>1. \A j \in 1..i : j \in 1..n /\ p[j] \in 1..m
    <3>. SUFFICES ASSUME NEW j \in 1..i  PROVE j \in 1..n /\ p[j] \in 1..m
      OBVIOUS
    <3>1. j \in 1..n /\ (j = i \/ j < i)
      BY <1>1
    <3>2. p[j] \in 1..n
      BY <1>2, <3>1
    <3>3. j = i \/ p[j] < m
      BY <1>1, <1>4, <3>1
    <3>. QED  BY <1>1, <1>5, <3>1, <3>2, <3>3
  <2>2. low \in [1..i -> 1..m]
    BY <2>1
  <2>3. \E x, y \in 1..i : x # y /\ low[x] = low[y]
    <3>1. i \in Nat /\ m \in Nat /\ 1 <= m
      BY <1>1, <1>5
    <3>. HIDE DEF low, m
    <3>2. \A f \in [1..i -> 1..m] : \E x, y \in 1..i : x # y /\ f[x] = f[y]
      BY <1>6, <3>1, NoRoomBelow
    <3>. QED  BY <2>2, <3>2
  <2>. QED  BY <1>2, <2>1, <2>3
<1>7. ASSUME i < m  PROVE FALSE
  <2>. DEFINE high == [j \in i..n |-> p[j]]
  <2>1. \A j \in i..n : j \in 1..n /\ p[j] \in m..n
    <3>. SUFFICES ASSUME NEW j \in i..n  PROVE j \in 1..n /\ p[j] \in m..n
      OBVIOUS
    <3>1. j \in 1..n /\ (j = i \/ i < j)
      BY <1>1
    <3>2. p[j] \in 1..n
      BY <1>2, <3>1
    <3>3. j = i \/ m < p[j]
      BY <1>1, <1>4, <3>1
    <3>. QED  BY <1>1, <1>5, <3>1, <3>2, <3>3
  <2>2. high \in [i..n -> m..n]
    BY <2>1
  <2>3. \E x, y \in i..n : x # y /\ high[x] = high[y]
    <3>1. i \in Nat /\ n \in Nat /\ m \in Nat /\ m <= n
      BY <1>1, <1>5
    <3>. HIDE DEF high, m, n
    <3>2. \A f \in [i..n -> m..n] : \E x, y \in i..n : x # y /\ f[x] = f[y]
      BY <1>7, <3>1, NoRoomAbove
    <3>. QED  BY <2>2, <3>2
  <2>. QED  BY <1>2, <2>1, <2>3
<1>. QED  BY <1>1, <1>5, <1>6, <1>7

\* In a chain a row's checksum is that of the row before it and one payload.
LEMMA Chained ==
  ASSUME TypeOK, ChainIsLinear, OrderedUpTo(Len(rows)), NEW i \in DOMAIN rows
  PROVE  /\ Len(rows[i].checksum) = i
         /\ rows[i].checksum[i] \in Canonical
         /\ IF i = 1 THEN GENESIS \in Checksum ELSE rows[i - 1].checksum \in Checksum
         /\ rows[i].checksum =
              Append(IF i = 1 THEN GENESIS ELSE rows[i - 1].checksum,
                     rows[i].checksum[i])
<1>1. i \in 1..Len(rows) /\ Len(rows) \in Nat /\ DOMAIN rows = 1..Len(rows)
  BY RowsDomain
<1>2. \A j \in DOMAIN rows :
        /\ Len(rows[j].checksum) = j
        /\ \A k \in 1..(j - 1) : rows[j].checksum[k] = rows[k].checksum[k]
        /\ rows[j].checksum \in Seq(Canonical)
  BY RowsTyped DEF ChainIsLinear, Checksum
<1>. DEFINE before == IF i = 1 THEN GENESIS ELSE rows[i - 1].checksum
            x == rows[i].checksum[i]
<1>3. x \in Canonical
  BY <1>1, <1>2, ElementOfSeq
<1>4. /\ before \in Seq(Canonical) /\ Len(before) = i - 1
      /\ \A k \in 1..(i - 1) : before[k] = rows[i].checksum[k]
  <2>1. CASE i = 1
    BY <2>1, EmptySeq DEF GENESIS
  <2>2. CASE i # 1
    <3>1. i - 1 \in DOMAIN rows
      BY <1>1, <2>2
    <3>2. ASSUME NEW k \in 1..(i - 1)
          PROVE  rows[i - 1].checksum[k] = rows[i].checksum[k]
      <4>1. rows[i].checksum[k] = rows[k].checksum[k]
        BY <1>2
      <4>2. k = i - 1 \/ k \in 1..((i - 1) - 1)
        BY <1>1
      <4>. QED  BY <1>2, <3>1, <4>1, <4>2
    <3>. QED  BY <1>2, <2>2, <3>1, <3>2
  <2>. QED  BY <2>1, <2>2
<1>. HIDE DEF before, x
<1>5. /\ Append(before, x) \in Seq(Canonical)
      /\ Len(Append(before, x)) = i
      /\ \A k \in 1..(i - 1) : Append(before, x)[k] = rows[i].checksum[k]
      /\ Append(before, x)[i] = x
  BY <1>1, <1>3, <1>4, Extended
<1>6. /\ rows[i].checksum \in Seq(Canonical)
      /\ Len(rows[i].checksum) = i
      /\ \A k \in 1..i : rows[i].checksum[k] = Append(before, x)[k]
  <2>1. \A k \in 1..i : k = i \/ k \in 1..(i - 1)
    BY <1>1
  <2>. QED  BY <1>2, <1>5, <2>1 DEF x
<1>7. rows[i].checksum = Append(before, x)
  BY <1>5, <1>6, SeqEqual
<1>. QED  BY <1>2, <1>3, <1>4, <1>7 DEF before, x, Checksum, GENESIS

\* What verifyChain compares at a place of a chain is whether the row there
\* reads back as it was hashed.
LEMMA MismatchIsMisread ==
  ASSUME TypeOK, ChainIsLinear, OrderedUpTo(Len(rows)), NEW p \in ByTime,
         NEW i \in DOMAIN rows
  PROVE  Mismatch(rows, p, i) <=> ~ReadsBack(i)
<1>. DEFINE before == IF i = 1 THEN GENESIS ELSE rows[i - 1].checksum
            x == rows[i].checksum[i]
            y == canonical(rows[i].subject, rows[i].metadata)
            S == Canonical \union {y}
<1>1. p[i] = i /\ (i # 1 => p[i - 1] = i - 1)
  <2>1. i \in 1..Len(rows) /\ Len(rows) \in Nat /\ DOMAIN rows = 1..Len(rows)
    BY RowsDomain
  <2>2. i # 1 => i - 1 \in DOMAIN rows
    BY <2>1
  <2>. QED  BY <2>2, OneOrder
<1>2. /\ rows[i].checksum = Append(before, x) /\ Len(rows[i].checksum) = i
      /\ before \in Seq(Canonical) /\ x \in Canonical
  BY Chained DEF Checksum
<1>3. Mismatch(rows, p, i) <=> Append(before, x) # Append(before, y)
  BY <1>1, <1>2 DEF Mismatch
<1>4. ReadsBack(i) <=> y = x
  BY <1>2 DEF ReadsBack
<1>. HIDE DEF before, x, y
<1>5. before \in Seq(S) /\ x \in S /\ y \in S
  BY <1>2, SeqMonotonic
<1>6. Append(before, x) = Append(before, y) <=> x = y
  BY <1>5, AppendInjective
<1>. QED  BY <1>3, <1>4, <1>6

\* When clocks agree with the commits, verifyChain is right about rows nobody
\* touched: the lock made them a chain, so the first row it reports is the
\* first that the column gives back otherwise than it was hashed.
THEOREM VerdictIsRightAlways == Spec => []VerdictIsRight
<1>1. ASSUME IInv, OrderedUpTo(Len(rows)), NEW p \in ByTime
      PROVE  /\ Valid(rows, p) <=> \A i \in DOMAIN rows : ReadsBack(i)
             /\ BrokenAt(rows, p) \subseteq
                  {i \in DOMAIN rows : ~ReadsBack(i) /\ \A j \in 1..(i - 1) : ReadsBack(j)}
  <2>0. /\ \A i \in DOMAIN rows : Mismatch(rows, p, i) <=> ~ReadsBack(i)
        /\ \A i \in DOMAIN rows : p[i] = i
    BY <1>1, MismatchIsMisread, OneOrder DEF IInv
  <2>1. Valid(rows, p) <=> \A i \in DOMAIN rows : ReadsBack(i)
    BY <2>0 DEF Valid
  <2>2. ASSUME NEW b \in BrokenAt(rows, p)
        PROVE  b \in DOMAIN rows /\ ~ReadsBack(b) /\ \A j \in 1..(b - 1) : ReadsBack(j)
    <3>1. PICK i \in DOMAIN rows : /\ b = p[i] /\ Mismatch(rows, p, i)
                                   /\ \A j \in 1..(i - 1) : ~Mismatch(rows, p, j)
      BY <2>2 DEF BrokenAt
    <3>2. b = i /\ ~ReadsBack(b)
      BY <2>0, <3>1
    <3>3. \A j \in 1..(i - 1) : j \in DOMAIN rows
      BY <1>1, RowsDomain DEF IInv
    <3>. QED  BY <2>0, <3>1, <3>2, <3>3
  <2>. QED  BY <2>1, <2>2
<1>2. IInv => VerdictIsRight
  BY <1>1 DEF VerdictIsRight
<1>. QED  BY <1>2, IInvInit, IInvNext, PTL DEF Spec

-----------------------------------------------------------------------------
(* An edit of a hashed column. *)

\* Every row has a place in the order: an injection of a finite set into
\* itself leaves nothing out.
LEMMA EveryRowIsReturned ==
  ASSUME TypeOK, NEW p \in ByTime, NEW i \in DOMAIN rows
  PROVE  \E j \in DOMAIN rows : p[j] = i
<1>. DEFINE n == Len(rows)
            T == (1..n) \ {i}
<1>1. n \in Nat /\ DOMAIN rows = 1..n /\ i \in 1..n
  BY RowsDomain
<1>2. /\ p \in [1..n -> 1..n]
      /\ \A j, k \in 1..n : p[j] = p[k] => j = k
  BY <1>1 DEF ByTime
<1>3. IsFiniteSet(1..n) /\ Cardinality(1..n) = n
  <2>1. IsFiniteSet(1..n) /\ Cardinality(1..n) = IF 1 > n THEN 0 ELSE n - 1 + 1
    <3>. HIDE DEF n
    <3>. QED  BY <1>1, FS_Interval
  <2>. QED  BY <1>1, <2>1
<1>4. IsFiniteSet(T) /\ Cardinality(T) = n - 1
  <2>1. IsFiniteSet(T) /\ Cardinality(T) =
          IF i \in 1..n THEN Cardinality(1..n) - 1 ELSE Cardinality(1..n)
    <3>. HIDE DEF n
    <3>. QED  BY <1>3, FS_RemoveElement
  <2>. QED  BY <1>1, <1>3, <2>1
<1>5. SUFFICES ASSUME \A j \in 1..n : p[j] # i  PROVE FALSE
  BY <1>1
<1>6. p \in [1..n -> T]
  BY <1>2, <1>5
<1>7. \E x, y \in 1..n : x # y /\ p[x] = p[y]
  <2>1. Cardinality(T) < Cardinality(1..n)
    BY <1>1, <1>3, <1>4
  <2>. HIDE DEF T
  <2>. QED  BY <1>3, <1>4, <1>6, <2>1, FS_PigeonHole
<1>. QED  BY <1>2, <1>7

\* What the column gives back has no undefined field left, so hashing it loses
\* nothing: two rows that hash alike are alike.
LEMMA StoredIsHashedWhole ==
  ASSUME NEW m \in StoredMetadata
  PROVE  stableStringify(m) = m
<1>1. PICK a \in Metadata : m = Stored(a)
  BY DEF StoredMetadata
<1>2. \A k \in DOMAIN m : m[k] # Undefined
  BY <1>1 DEF Stored
<1>3. m = [k \in DOMAIN m |-> m[k]]
  BY <1>1 DEF Stored
<1>. QED  BY <1>2, <1>3 DEF stableStringify

LEMMA HashedAlike ==
  ASSUME NEW s, NEW t, NEW m \in StoredMetadata, NEW q \in StoredMetadata,
         canonical(s, m) = canonical(t, q)
  PROVE  s = t /\ m = q
<1>1. canonical(s, m).subject = s /\ canonical(t, q).subject = t
  BY DEF canonical
<1>2. canonical(s, m).metadata = stableStringify(m)
      /\ canonical(t, q).metadata = stableStringify(q)
  BY DEF canonical
<1>. QED  BY <1>1, <1>2, StoredIsHashedWhole

\* Any change of a row's hashed columns turns a valid chain into an invalid
\* one, in whatever order the rows come back, for any clocks and any number of
\* rows: verifyChain reads every row, and its hash tells all contents apart.
THEOREM EditIsDetectedAlways == Spec => []EditIsDetected
<1>1. ASSUME TypeOK, NEW p \in ByTime, Valid(rows, p),
             NEW i \in DOMAIN rows, NEW s \in Subject, NEW m \in StoredMetadata,
             Valid([rows EXCEPT ![i].subject = s, ![i].metadata = m], p)
      PROVE  rows[i].subject = s /\ rows[i].metadata = m
  <2>. DEFINE edited == [rows EXCEPT ![i].subject = s, ![i].metadata = m]
  <2>1. PICK j \in DOMAIN rows : p[j] = i
    BY <1>1, EveryRowIsReturned
  <2>2. /\ DOMAIN rows = 1..Len(rows) /\ Len(rows) \in Nat
        /\ rows \in [DOMAIN rows -> AuditEvent]
        /\ p \in [DOMAIN rows -> DOMAIN rows]
    <3>1. \A k \in 1..Len(rows) : rows[k] \in AuditEvent
      BY <1>1, ElementOfSeq DEF TypeOK
    <3>2. rows = [k \in 1..Len(rows) |-> rows[k]]
      BY <1>1 DEF TypeOK
    <3>. QED  BY <1>1, <3>1, <3>2, RowsDomain DEF ByTime
  <2>3. /\ edited[i].subject = s /\ edited[i].metadata = m
        /\ DOMAIN edited = DOMAIN rows
        /\ \A k \in DOMAIN rows : edited[k].checksum = rows[k].checksum
    BY <2>2 DEF AuditEvent
  <2>. DEFINE before == IF j = 1 THEN GENESIS ELSE rows[p[j - 1]].checksum
              x == canonical(rows[i].subject, rows[i].metadata)
              y == canonical(s, m)
              S == Canonical \union {x, y}
  <2>4. j # 1 => p[j - 1] \in DOMAIN rows
    BY <2>2
  <2>5. rows[i].checksum = Append(before, x)
    BY <1>1, <2>1 DEF Valid, Mismatch
  <2>. HIDE DEF edited
  <2>6. edited[i].checksum =
          Append(IF j = 1 THEN GENESIS ELSE edited[p[j - 1]].checksum,
                 canonical(edited[i].subject, edited[i].metadata))
    <3>1. Valid(edited, p)
      BY <1>1 DEF edited
    <3>. QED  BY <2>1, <2>3, <3>1 DEF Valid, Mismatch
  <2>7. rows[i].checksum = Append(before, y)
    BY <2>3, <2>4, <2>6
  <2>8. before \in Seq(Canonical)
    BY <1>1, <2>4, RowsTyped, EmptySeq DEF Checksum, GENESIS
  <2>. HIDE DEF before
  <2>9. before \in Seq(S) /\ x \in S /\ y \in S
    BY <2>8, SeqMonotonic
  <2>10. x = y
    <3>1. Append(before, x) = Append(before, y)
      BY <2>5, <2>7
    <3>. HIDE DEF x, y, S
    <3>. QED  BY <2>9, <3>1, AppendInjective
  <2>11. rows[i].metadata \in StoredMetadata
    BY <2>2 DEF AuditEvent
  <2>. QED  BY <2>10, <2>11, HashedAlike
<1>2. TypeOK => EditIsDetected
  BY <1>1 DEF EditIsDetected
<1>. QED  BY <1>2, TypeCorrect, PTL
=============================================================================
