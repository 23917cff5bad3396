----------------------------- MODULE AuditChain -----------------------------
(***************************************************************************)
(* The audit log of audit.service.ts: log appends an entry under a         *)
(* PostgreSQL advisory lock, chained to the entry with the latest          *)
(* timestamp; verifyChain recomputes the chain in timestamp order.         *)
(*                                                                         *)
(* SHA-256 is taken to be injective, so a checksum is modelled by what was *)
(* hashed into it: the sequence of the payloads of its chain, GENESIS      *)
(* being the empty one.  Timestamps have a millisecond's resolution and    *)
(* come from the replica that writes, whose clock may be off.              *)
(***************************************************************************)
EXTENDS Integers, Sequences

CONSTANTS
  Writers,      \* requests that may be logging at once
  ClockOf,      \* how far the clock of each one's replica is off
  Subject,      \* what an entry is about: actor, action, target, ...
  Undefined,    \* a metadata field the caller left undefined
  Null,         \* JSON null
  Text,         \* metadata values that are neither
  NoEntry,      \* what a writer that is not logging holds
  MaxEntries,   \* bound: entries logged
  MaxTime       \* bound: the clock

ASSUME ClockAssumption == ClockOf \in [Writers -> Int]

\* The metadata of a validation: { fromStep, ..., comment }.  "step" stands
\* for the fields that are always set; "comment" is the caller's, who may
\* leave it out or null.
Metadata == [step : Text, comment : Text \union {Null, Undefined}]
Entry == [subject : Subject, metadata : Metadata]

ASSUME EntryAssumption ==
  /\ Undefined # Null /\ {Undefined, Null} \intersect Text = {}
  /\ NoEntry \notin Entry

\* stableStringify: a field with no value is written as null.
stableStringify(m) == [k \in DOMAIN m |-> IF m[k] = Undefined THEN Null ELSE m[k]]

\* The jsonb column: a field with no value is not written at all.
Stored(m) == [k \in {k \in DOMAIN m : m[k] # Undefined} |-> m[k]]

\* Slip: the metadata is not part of the hash.
canonicalWithoutMetadata(subject, metadata) == [subject |-> subject, metadata |-> <<>>]

\* What is hashed after the previous checksum.
canonical(subject, metadata) ==
  [subject |-> subject, metadata |-> stableStringify(metadata)]

GENESIS == <<>>

VARIABLES
  clock,     \* true time, in milliseconds
  rows,      \* AuditEvent rows in commit order: at, subject, metadata as
             \* stored, checksum
  lock,      \* who holds advisory lock 909090
  pc,        \* where each writer's transaction is
  entry,     \* what it logs
  prev       \* the checksum it read

vars == <<clock, rows, lock, pc, entry, prev>>

PC == {"idle", "lock", "read", "create"}

Init ==
  /\ clock = 0
  /\ rows = <<>>
  /\ lock = {}
  /\ pc = [w \in Writers |-> "idle"]
  /\ entry = [w \in Writers |-> NoEntry]
  /\ prev = [w \in Writers |-> GENESIS]

-----------------------------------------------------------------------------
(* log *)

\* A service logs entry e: the transaction begins.
begin(w, e) ==
  /\ pc[w] = "idle"
  /\ Len(rows) < MaxEntries
  /\ pc' = [pc EXCEPT ![w] = "lock"]
  /\ entry' = [entry EXCEPT ![w] = e]
  /\ UNCHANGED <<clock, rows, lock, prev>>

\* Slip: the lock is not taken.
NobodyLocks(w) == TRUE

\* SELECT pg_advisory_xact_lock(909090) returns.
Grantable(w) == lock = {}

acquire(w) ==
  /\ pc[w] = "lock"
  /\ Grantable(w)
  /\ lock' = lock \union {w}
  /\ pc' = [pc EXCEPT ![w] = "read"]
  /\ UNCHANGED <<clock, rows, entry, prev>>

\* Slip: any row, not the latest.
LastOfAny == DOMAIN rows

\* findFirst by at desc: one of the rows with the latest timestamp.
Last == {i \in DOMAIN rows : \A j \in DOMAIN rows : rows[j].at <= rows[i].at}

readLast(w) ==
  /\ pc[w] = "read"
  /\ \/ rows = <<>> /\ prev' = [prev EXCEPT ![w] = GENESIS]
     \/ \E i \in Last : prev' = [prev EXCEPT ![w] = rows[i].checksum]
  /\ pc' = [pc EXCEPT ![w] = "create"]
  /\ UNCHANGED <<clock, rows, lock, entry>>

\* Slip: the lock belongs to the session and outlives the transaction.
ReleasedLater(w) == lock

\* The advisory lock ends with its transaction.
Released(w) == lock \ {w}

\* Slip: a request whose transaction ended is not answered.
EndTransactionUnanswered(w) ==
  /\ lock' = Released(w)
  /\ entry' = [entry EXCEPT ![w] = NoEntry]
  /\ prev' = [prev EXCEPT ![w] = GENESIS]
  /\ UNCHANGED pc

\* The transaction ends, committed or rolled back.
EndTransaction(w) ==
  /\ lock' = Released(w)
  /\ pc' = [pc EXCEPT ![w] = "idle"]
  /\ entry' = [entry EXCEPT ![w] = NoEntry]
  /\ prev' = [prev EXCEPT ![w] = GENESIS]

\* Slip: the row is hashed alone.
RowUnchained(w) ==
  LET e == entry[w] IN
  [at |-> clock + ClockOf[w], subject |-> e.subject, metadata |-> Stored(e.metadata),
   checksum |-> <<canonical(e.subject, e.metadata)>>]

\* The row that is inserted, chained to the checksum that was read.
Row(w) ==
  LET e == entry[w] IN
  [at |-> clock + ClockOf[w], subject |-> e.subject, metadata |-> Stored(e.metadata),
   checksum |-> Append(prev[w], canonical(e.subject, e.metadata))]

\* auditEvent.create and the commit.
create(w) ==
  /\ pc[w] = "create"
  /\ rows' = Append(rows, Row(w))
  /\ EndTransaction(w)
  /\ UNCHANGED clock

\* The transaction times out (it waits for the lock with its clock running),
\* the connection is lost, or the replica dies.
abort(w) ==
  /\ pc[w] # "idle"
  /\ EndTransaction(w)
  /\ UNCHANGED <<clock, rows>>

tick ==
  /\ clock < MaxTime
  /\ clock' = clock + 1
  /\ UNCHANGED <<rows, lock, pc, entry, prev>>

Log(w) == acquire(w) \/ readLast(w) \/ create(w)

Next ==
  \/ \E w \in Writers : (\E e \in Entry : begin(w, e)) \/ Log(w) \/ abort(w)
  \/ tick

Spec == Init /\ [][Next]_vars

\* PostgreSQL grants an advisory lock in the order it was asked for, and a
\* transaction that holds it is two statements from its end.
Fairness ==
  \A w \in Writers : /\ SF_vars(acquire(w))
                     /\ WF_vars(readLast(w) \/ create(w))

FairSpec == Spec /\ Fairness

-----------------------------------------------------------------------------
(* verifyChain *)

\* The orders findMany may return the rows in: by at ascending, ties anyhow.
ByTime ==
  {p \in [DOMAIN rows -> DOMAIN rows] :
     /\ \A i, j \in DOMAIN rows : p[i] = p[j] => i = j
     /\ \A i, j \in DOMAIN rows : i < j => rows[p[i]].at <= rows[p[j]].at}

\* The row at place i of order p does not match what is recomputed for it.
Mismatch(rs, p, i) ==
  rs[p[i]].checksum # Append(IF i = 1 THEN GENESIS ELSE rs[p[i - 1]].checksum,
                             canonical(rs[p[i]].subject, rs[p[i]].metadata))

\* { valid }: no row mismatches.
Valid(rs, p) == \A i \in DOMAIN rs : ~Mismatch(rs, p, i)

\* { brokenAt }: the first row that does.
BrokenAt(rs, p) ==
  {p[i] : i \in {i \in DOMAIN rs : /\ Mismatch(rs, p, i)
                                   /\ \A j \in 1..(i - 1) : ~Mismatch(rs, p, j)}}

-----------------------------------------------------------------------------
(* Type invariant. *)
StoredMetadata == {Stored(m) : m \in Metadata}
Canonical == {canonical(s, m) : s \in Subject, m \in Metadata}
Checksum == Seq(Canonical)
AuditEvent == [at : Int, subject : Subject, metadata : StoredMetadata,
               checksum : Checksum]

TypeOK ==
  /\ clock \in Nat
  /\ rows \in Seq(AuditEvent)
  /\ lock \subseteq Writers
  /\ pc \in [Writers -> PC]
  /\ entry \in [Writers -> Entry \union {NoEntry}]
  /\ prev \in [Writers -> Checksum]
  /\ \A w \in Writers : pc[w] # "idle" => entry[w] \in Entry

\* The timestamps of the first n rows agree with the order of their commits.
OrderedUpTo(n) == \A i, j \in 1..n : i < j => rows[i].at < rows[j].at

\* Whatever the writers' interleaving, the chain is a chain: as long as clocks
\* agree with the commits, every row extends the row committed just before it,
\* and none else (the lock spans the read of prev and the commit, 47-66).
ChainIsLinear ==
  OrderedUpTo(Len(rows)) =>
    \A i \in DOMAIN rows :
      /\ Len(rows[i].checksum) = i
      /\ \A k \in 1..(i - 1) : rows[i].checksum[k] = rows[k].checksum[k]

\* The chain that row r was appended to.
Parent(r) == SubSeq(r.checksum, 1, Len(r.checksum) - 1)

\* Even when clocks disagree with the commits, no row is chained to nothing:
\* its checksum extends GENESIS, as only the first row does, or that of a row
\* committed before it.
NoOrphan ==
  \A i \in DOMAIN rows :
    IF i = 1 THEN Parent(rows[i]) = GENESIS
    ELSE \E j \in 1..(i - 1) : rows[j].checksum = Parent(rows[i])

\* A row reads back as it was hashed.
ReadsBack(i) ==
  canonical(rows[i].subject, rows[i].metadata) = rows[i].checksum[Len(rows[i].checksum)]

\* verifyChain's verdict on rows nobody touched, when clocks agree with the
\* commits: it stops at the first row that does not read back as it was
\* hashed, and at none if they all do.
VerdictIsRight ==
  OrderedUpTo(Len(rows)) =>
    \A p \in ByTime :
      /\ Valid(rows, p) <=> \A i \in DOMAIN rows : ReadsBack(i)
      /\ BrokenAt(rows, p) \subseteq
           {i \in DOMAIN rows : ~ReadsBack(i) /\ \A j \in 1..(i - 1) : ReadsBack(j)}

\* "Any later alteration breaks the chain" (36-37), of a column that is
\* hashed: a valid chain is valid no more once one row's subject or metadata
\* is replaced by another, whichever row it is.
EditIsDetected ==
  \A p \in ByTime : Valid(rows, p) =>
    \A i \in DOMAIN rows, s \in Subject, m \in StoredMetadata :
      rows[i].subject # s \/ rows[i].metadata # m =>
        ~Valid([rows EXCEPT ![i].subject = s, ![i].metadata = m], p)

\* Every request that logs gets an answer: its entry is appended or its
\* transaction rolled back; the lock is never left behind.
LogEnds == \A w \in Writers : pc[w] # "idle" ~> pc[w] = "idle"

-----------------------------------------------------------------------------
(* What the test suite says and the code refutes.                          *)

\* audit.service.spec.ts 33: verifyChain returns valid=true on an intact
\* chain.
IntactChainVerifies == \A p \in ByTime : Valid(rows, p)
=============================================================================
