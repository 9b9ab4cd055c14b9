------------------------------ MODULE MemTable ------------------------------
(***************************************************************************)
(* The in-memory write buffer (src/db/memtable.cc).  Every Put and Delete  *)
(* inserts a new record stamped with (next_sequence_num_ << 8) | type into *)
(* an ordered table; the comparator orders records by key and, for equal   *)
(* keys, puts the greater sequence number first.  Get seeks to the         *)
(* sentinel (key, max sequence number); the iterator's Next skips the      *)
(* older records of the key it leaves.                                     *)
(*                                                                         *)
(* The skip list is abstracted to the set of records it holds, ordered by  *)
(* the comparator; an iterator position is the record it is on.  Iterator  *)
(* steps interleave with inserts, as a caller may write while it scans.    *)
(***************************************************************************)
EXTENDS Integers, Sequences, FiniteSets, SequencesExt

CONSTANTS
  Keys,       \* user keys, ordered as Slice::compare orders them
  Values,     \* values written
  MaxWrites,  \* bound: inserts into the table
  NotFound,   \* Get's NotFound status
  Empty,      \* the empty value of a tombstone
  Invalid     \* an iterator that is not Valid()

ASSUME Keys \subseteq Nat \ {0}

kWrite  == 0
kDelete == 1
kEntryTypeMask == 255

\* The sentinel's sequence number: std::numeric_limits<uint64_t>::max(),
\* greater than every stamped number (the counter stays below 2^56).
SeekSeq == (MaxWrites + 1) * 256

VARIABLES
  table,   \* the records of the skip list
  next,    \* next_sequence_num_
  out,     \* the result of the last Get
  it,      \* the iterator's position, or Invalid
  seen,    \* what the iterator yielded since its last Seek / SeekToFirst
  from,    \* the key that scan started from (0 before any scan)
  quiet,   \* no insert happened since that scan started
  last     \* history: the last write of each key, or NotFound

vars == <<table, next, out, it, seen, from, quiet, last>>

-----------------------------------------------------------------------------
\* Mutant: the counter is not shifted past the type byte.
StampNoShift(n, t) == n + t

\* (next_sequence_num_++ << 8) | entry_type
Stamp(n, t) == n * 256 + t

TypeOf(r) == r.seq % (kEntryTypeMask + 1)

Entry(r) == [type  |-> IF TypeOf(r) = kDelete THEN "delete" ELSE "write",
             value |-> r.value]

\* Mutant: equal keys ordered by ascending sequence number.
CompareSeqAscending(r1, r2) ==
  CASE r1.key < r2.key -> -1
    [] r1.key > r2.key -> 1
    [] r1.seq < r2.seq -> -1
    [] r1.seq > r2.seq -> 1
    [] OTHER           -> 0

\* Comparator::operator(): by key, then the greater sequence number first.
Compare(r1, r2) ==
  CASE r1.key < r2.key -> -1
    [] r1.key > r2.key -> 1
    [] r1.seq < r2.seq -> 1
    [] r1.seq > r2.seq -> -1
    [] OTHER           -> 0

\* The first record of a non-empty set in skip-list order.
First(S) == CHOOSE r \in S : \A s \in S : Compare(r, s) <= 0

\* The skip list's Seek: the first record >= the given one.
SeekGE(x) ==
  LET ge == {r \in table : Compare(r, x) >= 0}
  IN  IF ge = {} THEN Invalid ELSE First(ge)

\* The skip list iterator's Next: the record right after r.
Succ(r) ==
  LET gt == {s \in table : Compare(s, r) > 0}
  IN  IF gt = {} THEN Invalid ELSE First(gt)

\* Iterator::Seek(target): seek to the sentinel (target, max sequence).
SeekRec(t) == SeekGE([key |-> t, seq |-> SeekSeq, value |-> Empty])

\* Mutant: Next advances one record without skipping older duplicates.
NextNoSkip(r) == Succ(r)

\* Iterator::Next: advance, then skip every record with the key just left.
RECURSIVE SkipKey(_, _)
SkipKey(r, k) ==
  LET s == Succ(r)
  IN  IF s = Invalid THEN Invalid ELSE IF s.key # k THEN s ELSE SkipKey(s, k)

NextRec(r) == SkipKey(r, r.key)

\* MemTable::Get: NotFound unless the sought record has the key itself.
GetResult(k) ==
  LET r == SeekRec(k)
  IN  IF r = Invalid \/ r.key # k THEN NotFound ELSE Entry(r)

Yield(r) == IF r = Invalid THEN <<>> ELSE <<[key |-> r.key, res |-> Entry(r)]>>

-----------------------------------------------------------------------------
Init ==
  /\ table = {}
  /\ next = 0
  /\ out = [key |-> NotFound, res |-> NotFound]
  /\ it = Invalid
  /\ seen = <<>>
  /\ from = 0
  /\ quiet = FALSE
  /\ last = [k \in Keys |-> NotFound]

\* MemTable::InsertImpl: a new record, never an update in place.
InsertImpl(k, v, t) ==
  /\ next < MaxWrites
  /\ table' = table \cup {[key |-> k, seq |-> Stamp(next, t), value |-> v]}
  /\ next' = next + 1
  /\ last' = [last EXCEPT ![k] = [type  |-> IF t = kDelete THEN "delete" ELSE "write",
                                  value |-> v]]
  /\ quiet' = FALSE
  /\ UNCHANGED <<out, it, seen, from>>

Put(k, v) == InsertImpl(k, v, kWrite)

Delete(k) == InsertImpl(k, Empty, kDelete)

Get(k) ==
  /\ out' = [key |-> k, res |-> GetResult(k)]
  /\ UNCHANGED <<table, next, it, seen, from, quiet, last>>

SeekToFirst ==
  LET r == IF table = {} THEN Invalid ELSE First(table)
  IN  /\ it' = r
      /\ seen' = Yield(r)
      /\ from' = Min(Keys)
      /\ quiet' = TRUE
      /\ UNCHANGED <<table, next, out, last>>

Seek(t) ==
  /\ it' = SeekRec(t)
  /\ seen' = Yield(SeekRec(t))
  /\ from' = t
  /\ quiet' = TRUE
  /\ UNCHANGED <<table, next, out, last>>

IterNext ==
  /\ it # Invalid
  /\ it' = NextRec(it)
  /\ seen' = seen \o Yield(NextRec(it))
  /\ UNCHANGED <<table, next, out, from, quiet, last>>

Next ==
  \/ \E k \in Keys : \/ \E v \in Values : Put(k, v)
                     \/ Delete(k)
                     \/ Get(k)
                     \/ Seek(k)
  \/ SeekToFirst
  \/ IterNext

Spec == Init /\ [][Next]_vars

-----------------------------------------------------------------------------
(* Properties.                                                             *)

\* Every record carries a write or delete type in its low byte.
TypeOK ==
  /\ \A r \in table : /\ r.key \in Keys
                      /\ r.value \in Values \cup {Empty}
                      /\ TypeOf(r) \in {kWrite, kDelete}
  /\ next \in 0..MaxWrites
  /\ it \in table \cup {Invalid}
  /\ quiet \in BOOLEAN

Abs == INSTANCE MemTableSpec WITH db <- last, out <- out

\* MemTable refines MemTableSpec: Get returns the last Put or Delete of the
\* key (a tombstone as (Delete, empty)), or NotFound if it was never
\* written, however the writes of that key and its neighbours interleave.
Refines == Abs!Spec

\* The latest of a scan that started at f: the last write of every key
\* >= f that was ever written, in key order.
LatestScan(f) ==
  LET ks == SetToSortSeq({k \in Keys : k >= f /\ last[k] # NotFound}, <)
  IN  [i \in DOMAIN ks |-> [key |-> ks[i], res |-> last[ks[i]]]]

\* The iterator yields each key once, in ascending order, even when inserts
\* interleave with the scan; and a scan no insert interrupted yields the
\* last write of every key, tombstones included, and nothing else.
IteratorYieldsLatest ==
  /\ \A i \in 1..Len(seen) - 1 : seen[i].key < seen[i + 1].key
  /\ quiet => IsPrefix(seen, LatestScan(from))
  /\ (quiet /\ it = Invalid) => seen = LatestScan(from)

=============================================================================
