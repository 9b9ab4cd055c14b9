---------------------------- MODULE FlattenLoad ----------------------------
(***************************************************************************)
(* The page variant of the segment manager: BulkLoadIntoPages builds the   *)
(* database from a sorted dataset through LoadIntoNewPages, the write path *)
(* hangs an overflow page off a full page, and FlattenChain                *)
(* (manager_rewrite.cc:433-533) merges a page, its overflow and a batch of *)
(* newer records into fresh one-page segments, again through               *)
(* LoadIntoNewPages (manager_load.cc:328-404).                             *)
(*                                                                         *)
(* A page is its fences, its records (key and version), its sequence       *)
(* number and overflow id.  `by` is a history field: the sequence number   *)
(* of the operation that wrote the page.  One manager thread runs the      *)
(* operations one after the other; the zeroing writes run on the pool and  *)
(* FlattenChain joins them before it returns.                              *)
(***************************************************************************)
EXTENDS Integers, Sequences, FiniteSets, SequencesExt, FiniteSetsExt, TLC

CONSTANTS
  MaxKey,     \* keys are 1..MaxKey
  Datasets,   \* sets of keys BulkLoadIntoPages may be given
  Goal,       \* options_.records_per_page_goal
  BgModes,    \* the values bg_threads_ != nullptr may have
  MaxOps,     \* bound: overflow writes and flattens
  NoSeg,      \* an invalid SegmentId
  NoVal       \* a key never written

Keys == 1..MaxKey
Top  == MaxKey + 1                 \* std::numeric_limits<Key>::max()

VARIABLES
  index,    \* base key -> SegmentId, NoSeg where there is no entry
  disk,     \* SegmentId -> page
  free,     \* free_: ids of one-page segments
  nextOff,  \* next offset SegmentFile::AllocateSegment returns
  seqNum,   \* next_sequence_number_
  futures,  \* ids with a zeroing write still on the pool
  db,       \* history: the newest version of every key
  ops,      \* operations run so far
  pc,       \* "idle", or "wait" while FlattenChain joins its futures
  useBg     \* bg_threads_ != nullptr, fixed when the Manager is built

vars == <<index, disk, free, nextOff, seqNum, futures, db, ops, pc, useBg>>

-----------------------------------------------------------------------------
Bases == {b \in Keys : index[b] # NoSeg}

\* index_.upper_bound(k)->first, or the largest key past the last entry.
UpperBound(k) ==
  LET above == {b \in Bases : b > k} IN IF above = {} THEN Top ELSE Min(above)

ByKey(a, b) == a.k < b.k

\* The records of a chain in key order, as its PageMergeIterator yields them.
ChainRecs(id) ==
  SetToSortSeq(disk[id].recs \cup
                 (IF disk[id].ovf = NoSeg THEN {} ELSE disk[disk[id].ovf].recs), ByKey)

\* Mutant: on equal keys the page record is kept and the batch record dropped.
RECURSIVE FlattenMergeOldWins(_, _)
FlattenMergeOldWins(p, m) ==
  IF p = <<>> THEN m ELSE IF m = <<>> THEN p
  ELSE IF Head(p).k = Head(m).k THEN <<Head(p)>> \o FlattenMergeOldWins(Tail(p), Tail(m))
  ELSE IF Head(p).k < Head(m).k THEN <<Head(p)>> \o FlattenMergeOldWins(Tail(p), m)
  ELSE <<Head(m)>> \o FlattenMergeOldWins(p, Tail(m))

\* The merge loop of FlattenChain: on equal keys the in-memory record is
\* taken and both sides advance; then the rest of either side.
RECURSIVE FlattenMerge(_, _)
FlattenMerge(p, m) ==
  IF p = <<>> THEN m ELSE IF m = <<>> THEN p
  ELSE IF Head(p).k = Head(m).k THEN <<Head(m)>> \o FlattenMerge(Tail(p), Tail(m))
  ELSE IF Head(p).k < Head(m).k THEN <<Head(p)>> \o FlattenMerge(Tail(p), m)
  ELSE <<Head(m)>> \o FlattenMerge(p, Tail(m))

\* Mutant: a page takes one record more than the goal.
PageEndPlusOne(start) == start + Goal + 1

\* page_end_idx = page_start_idx + options_.records_per_page_goal
PageEnd(start) == start + Goal

\* LoadIntoNewPages(sequence_number, lower_bound, upper_bound, records):
\* full pages while page_end_idx <= num_records, each with the next
\* page's first key as upper fence (upper_bound for the last); then the
\* rest on a last page, stamped with sequence number 0.
RECURSIVE NewPages(_, _, _, _, _)
NewPages(sq, lower, upper, r, start) ==
  LET n    == Len(r)
      end  == PageEnd(start)
      lo   == IF start = 0 THEN lower ELSE r[start + 1].k
  IN  IF end <= n
      THEN <<[lo |-> lo, hi |-> IF end = n THEN upper ELSE r[end + 1].k,
              recs |-> ToSet(SubSeq(r, start + 1, end)), seq |-> sq]>>
           \o NewPages(sq, lower, upper, r, end)
      ELSE IF start < n
      THEN <<[lo |-> lo, hi |-> upper, recs |-> ToSet(SubSeq(r, start + 1, n)), seq |-> 0]>>
      ELSE <<>>

LoadIntoNewPages(sq, lower, upper, r) == NewPages(sq, lower, upper, r, 0)

\* Write one page: free_.Get(1), else a fresh offset; its entry for the
\* index is (lower fence, id).
PlacePage(by, acc, pg) ==
    LET id == IF acc.free # {} THEN CHOOSE x \in acc.free : TRUE ELSE acc.next
    IN  [disk    |-> (id :> [lo |-> pg.lo, hi |-> pg.hi, recs |-> pg.recs, seq |-> pg.seq,
                             by |-> by, ovf |-> NoSeg, valid |-> TRUE]) @@ acc.disk,
         free    |-> acc.free \ {id},
         next    |-> IF acc.free # {} THEN acc.next ELSE acc.next + 1,
         entries |-> Append(acc.entries, <<pg.lo, id>>)]

Written(by, pages) ==
  FoldLeft(LAMBDA acc, pg : PlacePage(by, acc, pg),
           [disk |-> disk, free |-> free, next |-> nextOff, entries |-> <<>>],
           pages)

Stamped(S, ver) == {[k |-> x, v |-> ver] : x \in S}

-----------------------------------------------------------------------------
\* BulkLoadIntoPagesImpl (manager_load.cc:245-251) on a fresh Manager:
\* load the dataset from its first key to the largest key, then bulk load
\* the index.
Init ==
  \E D \in Datasets :
    LET r   == SetToSortSeq(Stamped(D, 0), ByKey)
        pgs == LoadIntoNewPages(0, r[1].k, Top, r)
        acc == FoldLeft(LAMBDA a, pg : PlacePage(0, a, pg),
                        [disk |-> [x \in {} |-> 0], free |-> {}, next |-> 1,
                         entries |-> <<>>], pgs)
        bs  == {acc.entries[i][1] : i \in DOMAIN acc.entries}
    IN  /\ index = [k \in Keys |->
                      IF k \in bs
                      THEN acc.entries[CHOOSE i \in DOMAIN acc.entries :
                                         acc.entries[i][1] = k][2]
                      ELSE NoSeg]
        /\ disk = acc.disk
        /\ free = {}
        /\ nextOff = acc.next
        /\ seqNum = 0
        /\ futures = {}
        /\ db = [k \in Keys |-> IF k \in D THEN 0 ELSE NoVal]
        /\ ops = 0
        /\ pc = "idle"
        /\ useBg \in BgModes

\* The write path (not under src/): new keys of a full page go to an
\* overflow page with the same fences, taken from the free list or fresh.
Overflow(b, R) ==
  LET id  == index[b]
      oid == IF free # {} THEN CHOOSE x \in free : TRUE ELSE nextOff
  IN
  /\ pc = "idle"
  /\ ops < MaxOps
  /\ disk[id].ovf = NoSeg
  /\ Cardinality(disk[id].recs) = Goal
  /\ Cardinality(R) <= Goal
  /\ disk' = (oid :> [lo |-> b, hi |-> disk[id].hi, recs |-> Stamped(R, ops + 1),
                      seq |-> disk[id].seq, by |-> disk[id].by, ovf |-> NoSeg,
                      valid |-> TRUE]) @@ [disk EXCEPT ![id].ovf = oid]
  /\ free' = free \ {oid}
  /\ nextOff' = IF free # {} THEN nextOff ELSE nextOff + 1
  /\ db' = [k \in Keys |-> IF k \in R THEN ops + 1 ELSE db[k]]
  /\ ops' = ops + 1
  /\ UNCHANGED <<index, seqNum, futures, pc, useBg>>

\* FlattenChain(base, batch) up to the index update (lines 436-528): read
\* the page and its overflow, merge them with the batch, take a sequence
\* number, write the records through LoadIntoNewPages, zero the old pages
\* (on the pool or synchronously) and free them, then swap the index
\* entry of the base for the new pages'.
FlattenChain(b, B) ==
  LET id    == index[b]
      ovf   == disk[id].ovf
      old   == {id} \cup (IF ovf = NoSeg THEN {} ELSE {ovf})
      r     == FlattenMerge(ChainRecs(id), SetToSortSeq(Stamped(B, ops + 1), ByKey))
      acc   == Written(seqNum, LoadIntoNewPages(seqNum, b, UpperBound(b), r))
      news  == {acc.entries[i][1] : i \in DOMAIN acc.entries}
      idOf(k) == acc.entries[CHOOSE i \in DOMAIN acc.entries : acc.entries[i][1] = k][2]
  IN
  /\ pc = "idle"
  /\ ops < MaxOps
  /\ seqNum' = seqNum + 1
  /\ IF useBg
     THEN /\ disk' = acc.disk
          /\ futures' = futures \cup old
     ELSE /\ disk' = [x \in DOMAIN acc.disk |->
                        IF x \in old THEN [acc.disk[x] EXCEPT !.valid = FALSE]
                        ELSE acc.disk[x]]
          /\ UNCHANGED futures
  /\ free' = acc.free \cup old
  /\ nextOff' = acc.next
  /\ index' = [k \in Keys |-> IF k \in news THEN idOf(k)
                              ELSE IF k = b THEN NoSeg ELSE index[k]]
  /\ db' = [k \in Keys |-> IF k \in B THEN ops + 1 ELSE db[k]]
  /\ ops' = ops + 1
  /\ pc' = "wait"
  /\ UNCHANGED useBg

\* Mutant: FlattenChain returns without joining its zeroing writes.
WaitNoJoin ==
  /\ pc = "wait"
  /\ pc' = "idle"
  /\ UNCHANGED <<index, disk, free, nextOff, seqNum, futures, db, ops, useBg>>

\* The join on the write futures (lines 530-532).
Wait ==
  /\ pc = "wait"
  /\ futures = {}
  /\ pc' = "idle"
  /\ UNCHANGED <<index, disk, free, nextOff, seqNum, futures, db, ops, useBg>>

\* A pool thread runs one zeroing WritePage (lines 506-513).
BgWrite(id) ==
  /\ id \in futures
  /\ disk' = [disk EXCEPT ![id].valid = FALSE]
  /\ futures' = futures \ {id}
  /\ UNCHANGED <<index, free, nextOff, seqNum, db, ops, pc, useBg>>

\* The inputs of a call: a base and keys of its range, new or not.
Next ==
  \/ \E b \in Bases : \E R \in SUBSET {k \in b..UpperBound(b) - 1 : k \notin
                                         {x.k : x \in disk[index[b]].recs}} \ {{}} :
       Overflow(b, R)
  \/ \E b \in Bases : \E B \in SUBSET (b..UpperBound(b) - 1) : FlattenChain(b, B)
  \/ Wait
  \/ \E id \in futures : BgWrite(id)

Spec == Init /\ [][Next]_vars

-----------------------------------------------------------------------------
(* Properties.                                                             *)

\* The segment the index routes k to and what a read of k finds in its
\* chain: a version, NoVal, Zeroed or Duplicate.
Zeroed    == -1
Duplicate == -2

Route(k) == LET below == {b \in Bases : b <= k} IN index[Max(below)]

ReadKey(k) ==
  LET id == Route(k)
      rs == {r \in disk[id].recs \cup
                   (IF disk[id].ovf = NoSeg THEN {} ELSE disk[disk[id].ovf].recs) :
               r.k = k}
  IN  IF ~disk[id].valid THEN Zeroed
      ELSE IF rs = {} THEN NoVal
      ELSE IF Cardinality(rs) > 1 THEN Duplicate
      ELSE (CHOOSE r \in rs : TRUE).v

\* What a caller reads: every key through the index, NoVal below the first
\* base key, where no write can land.
Store == [k \in Keys |-> IF Bases # {} /\ k >= Min(Bases) THEN ReadKey(k) ELSE NoVal]

Abstract == INSTANCE PageStore WITH store <- Store, ver <- ops

\* FlattenLoad implements PageStore: an overflow write or a FlattenChain
\* changes exactly the keys of its batch, to the new version, in one step,
\* and no other step (the join, a pooled zeroing write) changes what any
\* key reads, even while FlattenChain waits for its writes.
Refines == Abstract!Spec

\* Every variable has its type; no page LoadIntoNewPages wrote, and no
\* overflow page, holds more than the goal.
TypeOK ==
  /\ index \in [Keys -> Nat \cup {NoSeg}]
  /\ free \subseteq DOMAIN disk
  /\ futures \subseteq DOMAIN disk
  /\ pc \in {"idle", "wait"}
  /\ \A id \in DOMAIN disk : Cardinality(disk[id].recs) <= Goal

\* After every BulkLoadIntoPages and FlattenChain (spec P4, P6, and the
\* flatten test of section 8): every key reads back its newest version
\* exactly once through the index, no entry names a zeroed page or a free
\* id, and every entry's page has the fences [its base, the next base)
\* and only keys inside them.
FlattenPreservesRecords ==
  pc = "idle" =>
    /\ Bases # {}
    /\ \A k \in Keys : k >= Min(Bases) => ReadKey(k) = db[k]
    /\ \A b \in Bases :
         /\ index[b] \notin free
         /\ disk[index[b]].lo = b
         /\ disk[index[b]].hi = UpperBound(b)
         /\ \A r \in disk[index[b]].recs : b <= r.k /\ r.k < UpperBound(b)

\* Every page a FlattenChain wrote carries that flatten's sequence number
\* (spec 4.6 and 4.7: the new pages are stamped with the operation's
\* sequence number, which recovery uses to tell them from older copies).
PagesCarrySequenceNumber ==
  \A b \in Bases : disk[index[b]].seq = disk[index[b]].by

=============================================================================
