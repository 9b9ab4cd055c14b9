--------------------------- MODULE SegmentRewrite ---------------------------
(***************************************************************************)
(* Manager::RewriteSegments (src/page_grouping/manager_rewrite.cc): the    *)
(* segment variant's rewrite of an overflowing segment and its overflowing *)
(* neighbours, merged with a sorted in-memory batch through a sliding      *)
(* window of page slots (CircularPageBuffer) and a SegmentBuilder, then    *)
(* the invalidation of the old segments and the index swap.  Background    *)
(* zeroing writes run on a pool thread.                                    *)
(*                                                                         *)
(* A segment on disk is its sequence number, fences and pages; a page is a *)
(* set of records [k, v] and an optional overflow id.  A record's value is *)
(* the version of the write that produced it (0 for the loaded data, i for *)
(* the batch of the i-th rewrite).  A record taken from the window also    *)
(* carries the slot it lives in (src), 0 for an in-memory record.          *)
(* The SegmentBuilder, whose piecewise-linear models are not under src/,   *)
(* is abstracted to its contract: it holds a run of the records offered    *)
(* to it, emits a prefix of them as segments of at most SegCap records     *)
(* when it decides to, and CurrentBaseKey is the key of its first record.  *)
(***************************************************************************)
EXTENDS Integers, Sequences, FiniteSets, SequencesExt, FiniteSetsExt, TLC

CONSTANTS
  MaxKey,             \* keys are 1..MaxKey
  Setups,             \* [layout, data, cap, neighbors, bg]: a database the
                      \* rewrite may start from (a layout, or <<>> and a dataset
                      \* to bulk load; see MC module) and the manager's options
  RecsPerPage,        \* records an emitted page holds
  MaxSegPages,        \* pages of the largest emitted segment (16 in the code)
  MaxWrites,          \* bound: RewriteSegments calls and overflow writes
  NoSeg, NoOvf, NoVal \* sentinels

Keys   == 1..MaxKey
Top    == MaxKey + 1                 \* std::numeric_limits<Key>::max()
SegCap == MaxSegPages * RecsPerPage  \* records of the largest segment

ASSUME /\ \A s \in Setups : s.cap \in Nat \ {0} /\ s.neighbors \in BOOLEAN /\ s.bg \in BOOLEAN
       /\ MaxSegPages \in {1, 2}
       /\ RecsPerPage \in Nat \ {0}

VARIABLES
  index,    \* index_: base key -> segment id, NoSeg where none
  disk,     \* segment id -> [valid, seq, lo, hi, pages]
  free,     \* free_: ids handed back for reuse
  nextOff,  \* next fresh offset SegmentFile::AllocateSegment returns
  seqNum,   \* next_sequence_number_
  wbuf,     \* the pages in w_.buffer()
  futures,  \* ids with a zeroing write pending on the pool
  db,       \* history: the last version written of each key
  writes,   \* batch writes so far: RewriteSegments calls, overflow writes
  rw,       \* locals of the running RewriteSegments
  opt       \* the setup's options, fixed for the behaviour

vars == <<index, disk, free, nextOff, seqNum, wbuf, futures, db, writes, rw, opt>>

WindowCap         == opt.cap        \* page slots of the CircularPageBuffer (64 in the code)
ConsiderNeighbors == opt.neighbors  \* options_.consider_neighbors_during_rewrite
UseBg             == opt.bg         \* bg_threads_ != nullptr

-----------------------------------------------------------------------------
(* The index and the pages on disk.                                        *)

Bases == {b \in Keys : index[b] # NoSeg}

\* index_.upper_bound(k): the first base above k, or the maximum key.
UpperBound(k) ==
  LET above == {b \in Bases : b > k} IN IF above = {} THEN Top ELSE Min(above)

HasOverflow(id) == \E i \in DOMAIN disk[id].pages : disk[id].pages[i].ovf # NoSeg

PageCount(id) == Len(disk[id].pages)

\* The records of one page of id and of its overflow page.
PageRecs(id, i) ==
  disk[id].pages[i].recs \cup
    (IF disk[id].pages[i].ovf = NoSeg THEN {}
     ELSE disk[disk[id].pages[i].ovf].pages[1].recs)

SegRecs(id) == UNION {PageRecs(id, i) : i \in DOMAIN disk[id].pages}

ByKey(a, b) == a.k < b.k

-----------------------------------------------------------------------------
(* PagePlusRecordMerger::GetNext over the current chain's records pmi and  *)
(* the batch from position bi.                                             *)

\* Mutant: on equal keys only the in-memory side advances.
GetNextNoSkip(pmi, batch, bi) ==
  IF pmi = <<>> THEN [r |-> batch[bi], pmi |-> pmi, bi |-> bi + 1]
  ELSE IF bi > Len(batch) THEN [r |-> Head(pmi), pmi |-> Tail(pmi), bi |-> bi]
  ELSE IF batch[bi].k <= Head(pmi).k
       THEN [r |-> batch[bi], pmi |-> pmi, bi |-> bi + 1]
       ELSE [r |-> Head(pmi), pmi |-> Tail(pmi), bi |-> bi]

GetNext(pmi, batch, bi) ==
  IF pmi = <<>> THEN [r |-> batch[bi], pmi |-> pmi, bi |-> bi + 1]
  ELSE IF bi > Len(batch) THEN [r |-> Head(pmi), pmi |-> Tail(pmi), bi |-> bi]
  ELSE IF batch[bi].k <= Head(pmi).k
       THEN [r |-> batch[bi],
             pmi |-> IF batch[bi].k = Head(pmi).k THEN Tail(pmi) ELSE pmi,
             bi |-> bi + 1]
       ELSE [r |-> Head(pmi), pmi |-> Tail(pmi), bi |-> bi]

-----------------------------------------------------------------------------
(* The SegmentBuilder's output and LoadIntoNewSegment.                     *)

\* The ways to cut a run of records into segments of at most SegCap.
RECURSIVE Cuts(_)
Cuts(e) ==
  IF e = <<>> THEN {<<>>}
  ELSE UNION {{<<SubSeq(e, 1, n)>> \o c : c \in Cuts(SubSeq(e, n + 1, Len(e)))} :
                n \in 1..Min({Len(e), SegCap})}

\* SegmentBuilder::kSegmentPageCounts: the smallest size that holds n records.
SegPages(n) == IF n <= RecsPerPage THEN 1 ELSE 2

Strip(r) == [k |-> r.k, v |-> r.v]

\* The pages of a new segment, overflow bits cleared.  The page boundaries
\* that ComputePageLowerBoundaries derives from the model are abstracted to
\* RecsPerPage records per page.
\* Mutant: the page_count > 1 branch is skipped; every record lands on the
\* first page.
NewSegPagesNoSplit(s) ==
  [i \in 1..SegPages(Len(s)) |->
     [recs |-> IF i = 1 THEN {Strip(s[x]) : x \in DOMAIN s} ELSE {}, ovf |-> NoSeg]]

\* LoadIntoPage: Page::Put of the records at positions xs of s into a
\* zeroed page; the page fences are the segment's and its page starts.
\* The builder sizes pages so that no Put fails (asserted by the callers).
LoadIntoPage(s, xs) == [recs |-> {Strip(s[x]) : x \in xs}, ovf |-> NoSeg]

NewSegPages(s) ==
  [i \in 1..SegPages(Len(s)) |->
     LoadIntoPage(s, {y \in DOMAIN s : (y - 1) \div RecsPerPage = i - 1})]

-----------------------------------------------------------------------------
(* The sliding window.                                                     *)

FreeSlots == WindowCap - Len(rw.ring)

\* Mutant: the overflows are left out of the window test.
FitsPagesOnly(pages, ovfs) == pages <= FreeSlots

\* page_buf.NumFreePages() can take the pages and their overflows.
Fits(pages, ovfs) == pages + ovfs <= FreeSlots

LargestKey(c) == IF c.recs = <<>> THEN NoVal ELSE Last(c.recs).k

\* Mutant: a chain whose largest key equals the next base key is freed too.
SafeToFreeInclusive(c, next) == LargestKey(c) = NoVal \/ LargestKey(c) <= next

\* A processed chain may go once every key it holds is below next.
SafeToFree(c, next) == LargestKey(c) = NoVal \/ LargestKey(c) < next

\* How many processed chains, from the front, the lambda frees.
NumFreed(procd, pend) ==
  IF pend = <<>> THEN Len(procd)
  ELSE Max({n \in 0..Len(procd) :
              \A i \in 1..n : SafeToFree(procd[i], pend[1].k)})

\* Mutant: one slot is freed per chain, its overflow page forgotten.
SlotsOfHeads(procd, n) == n

SlotsOf(procd, n) == FoldLeft(LAMBDA acc, c : acc + Len(c.slots), 0, SubSeq(procd, 1, n))

-----------------------------------------------------------------------------
(* Initial databases: a layout is a sequence of segments [base, pages],    *)
(* each page [main, ovf] with the keys of its main page and of its         *)
(* overflow page (NoOvf for none).  Segment i has id <<pages, i>>; the     *)
(* overflow of its page j lives in the one-page file.                      *)

SegId(L, i)    == <<Len(L[i].pages), i>>
OvfId(L, i, j) == <<1, Len(L) + (i - 1) * MaxSegPages + j>>
Loaded(S)      == {[k |-> x, v |-> 0] : x \in S}

LayoutDisk(L) ==
  LET n      == Len(L)
      Hi(i)  == IF i = n THEN Top ELSE L[i + 1].base
      Seg(i) == [valid |-> TRUE, seq |-> 0, lo |-> L[i].base, hi |-> Hi(i),
                 pages |-> [j \in DOMAIN L[i].pages |->
                              [recs |-> Loaded(L[i].pages[j].main),
                               ovf  |-> IF L[i].pages[j].ovf = NoOvf THEN NoSeg
                                        ELSE OvfId(L, i, j)]]]
      Ovf(i, j) == [valid |-> TRUE, seq |-> 0, lo |-> L[i].base, hi |-> Hi(i),
                    pages |-> <<[recs |-> Loaded(L[i].pages[j].ovf), ovf |-> NoSeg]>>]
      segIds == {SegId(L, i) : i \in 1..n}
      ovfIds == {OvfId(L, i, j) : i \in 1..n, j \in 1..MaxSegPages}
      ovfOf(id) == CHOOSE ij \in (1..n) \X (1..MaxSegPages) :
                     OvfId(L, ij[1], ij[2]) = id
  IN  [id \in segIds \cup {o \in ovfIds : LET ij == ovfOf(o)
                                            IN  ij[2] \in DOMAIN L[ij[1]].pages
                                                /\ L[ij[1]].pages[ij[2]].ovf # NoOvf} |->
         IF id \in segIds THEN Seg(id[2]) ELSE Ovf(ovfOf(id)[1], ovfOf(id)[2])]

RwIdle == [pc |-> "idle", ret |-> "idle", ok |-> TRUE, seqNo |-> 0,
           segs |-> <<>>, j |-> 0, nOvf |-> 0, ring |-> <<>>, nextSid |-> 1,
           toProc |-> <<>>, processed |-> <<>>, loaded |-> FALSE, pmi |-> <<>>,
           batch |-> <<>>, bi |-> 1, pend |-> <<>>, queue |-> <<>>,
           emitted |-> <<>>, ovfClear |-> <<>>]

\* A database given as a layout.
LayoutInit(L) ==
  /\ index = [b \in Keys |-> IF \E i \in DOMAIN L : L[i].base = b
                             THEN SegId(L, CHOOSE i \in DOMAIN L : L[i].base = b)
                             ELSE NoSeg]
  /\ disk = LayoutDisk(L)
  /\ nextOff = Len(L) * (MaxSegPages + 1) + 1
  /\ db = [k \in Keys |->
             IF \E i \in DOMAIN L, j \in 1..MaxSegPages :
                  /\ j \in DOMAIN L[i].pages
                  /\ k \in L[i].pages[j].main \cup
                           (IF L[i].pages[j].ovf = NoOvf THEN {} ELSE L[i].pages[j].ovf)
             THEN 0 ELSE NoVal]

\* BulkLoadIntoSegmentsImpl (manager_load.cc:201-228) on a fresh Manager
\* (180-199): the builder's segments c, each written by LoadIntoNewSegment
\* with sequence number 0 to a fresh segment of its size class, with the
\* next segment's first key (the maximum key for the last) as upper bound;
\* then the index bulk load.
BulkLoadIntoSegments(c) ==
  LET n     == Len(c)
      Id(i) == <<SegPages(Len(c[i])), i>>
      Hi(i) == IF i = n THEN Top ELSE c[i + 1][1].k
      at(b) == {i \in 1..n : c[i][1].k = b}
  IN  /\ index = [b \in Keys |-> IF at(b) # {} THEN Id(CHOOSE i \in at(b) : TRUE) ELSE NoSeg]
      /\ disk = [id \in {Id(i) : i \in 1..n} |->
                  [valid |-> TRUE, seq |-> 0, lo |-> c[id[2]][1].k, hi |-> Hi(id[2]),
                   pages |-> NewSegPages(c[id[2]])]]
      /\ nextOff = n + 1
      /\ db = [k \in Keys |-> IF \E i \in 1..n : \E x \in DOMAIN c[i] : c[i][x].k = k
                              THEN 0 ELSE NoVal]

\* A setup starts from its layout, or, when it has none, from a bulk load
\* of its dataset.
Init ==
  \E S \in Setups :
    /\ opt = [cap |-> S.cap, neighbors |-> S.neighbors, bg |-> S.bg]
    /\ \/ S.layout # <<>> /\ LayoutInit(S.layout)
       \/ S.layout = <<>> /\ \E c \in Cuts(SetToSortSeq(Loaded(S.data), ByKey)) :
                              BulkLoadIntoSegments(c)
    /\ free = {}
    /\ seqNum = 0
    /\ wbuf = <<>>
    /\ futures = {}
    /\ writes = 0
    /\ rw = RwIdle

-----------------------------------------------------------------------------
(* RewriteSegments(segment_base, batch).                                   *)

\* Finish the builder and hand its segments to the lambda (lines 300-302,
\* 313-315); the code asserts that there is at least one.
FlushFrom(r, ret) ==
  \E c \in Cuts(r.pend) :
    rw' = [r EXCEPT !.pend = <<>>, !.queue = c, !.ok = @ /\ c # <<>>,
                    !.pc = "load", !.ret = ret]

\* SegmentBuilder::Offer(rec): the builder may emit a prefix of what it
\* holds (it must once it holds a full segment) and keeps rec.
OfferFrom(r, rec, ret) ==
  \E e \in 0..Len(r.pend) :
    /\ Len(r.pend) >= SegCap => e >= 1
    /\ \E c \in Cuts(SubSeq(r.pend, 1, e)) :
         rw' = [r EXCEPT !.pend = SubSeq(r.pend, e + 1, Len(r.pend)) \o <<rec>>,
                         !.queue = c, !.ret = ret,
                         !.pc = IF c = <<>> THEN ret ELSE "load"]

\* Step 1: the target, its overflowing neighbours on both sides (stopping
\* at the first one without overflow), sorted; the sequence number.
Start(t, B) ==
  LET Left  == {b \in Bases : b < t /\ \A c \in Bases : b <= c /\ c < t =>
                                          HasOverflow(index[c])}
      Right == {b \in Bases : b > t /\ \A c \in Bases : t < c /\ c <= b =>
                                          HasOverflow(index[c])}
      set   == IF ConsiderNeighbors THEN Left \cup {t} \cup Right ELSE {t}
      s     == SetToSortSeq(set, <)
      ver   == writes + 1
  IN
  /\ rw.pc = "idle"
  /\ writes < MaxWrites
  /\ rw' = [RwIdle EXCEPT !.pc = "check", !.seqNo = seqNum, !.j = 1,
                          !.segs = [i \in DOMAIN s |-> <<s[i], index[s[i]]>>],
                          !.batch = SetToSortSeq({[k |-> x, v |-> ver, src |-> 0] : x \in B},
                                                 ByKey)]
  /\ seqNum' = seqNum + 1
  /\ db' = [k \in Keys |-> IF k \in B THEN ver ELSE db[k]]
  /\ writes' = ver
  /\ UNCHANGED <<index, disk, free, nextOff, wbuf, futures, opt>>

CurId    == rw.segs[rw.j][2]
CurPages == PageCount(CurId)

\* Top of the loop over segments_to_rewrite (lines 296-304): flush the
\* builder when the segment's pages do not fit in the window.
Check ==
  /\ rw.pc = "check"
  /\ \/ /\ Fits(CurPages, 0)
        /\ rw' = [rw EXCEPT !.pc = "read"]
     \/ /\ ~Fits(CurPages, 0)
        /\ FlushFrom(rw, "read")
  /\ UNCHANGED <<index, disk, free, nextOff, seqNum, wbuf, futures, db, writes, opt>>

\* w_.buffer() after its first Len(pgs) pages are overwritten with pgs: a
\* read or a memset-and-fill of one segment leaves the pages beyond it as
\* they were (manager_load.cc:258-259 clears only seg.page_count pages).
Overlay(buf, pgs) ==
  [i \in 1..IF Len(pgs) > Len(buf) THEN Len(pgs) ELSE Len(buf) |->
     IF i <= Len(pgs) THEN pgs[i] ELSE buf[i]]

\* ReadSegment into w_.buffer() and count its overflows (lines 303-317):
\* flush again when the overflows do not fit as well.
Read ==
  LET k == Cardinality({i \in DOMAIN disk[CurId].pages :
                          disk[CurId].pages[i].ovf # NoSeg})
      r == [rw EXCEPT !.nOvf = k, !.ok = @ /\ Fits(CurPages, 0)]
  IN
  /\ rw.pc = "read"
  /\ wbuf' = Overlay(wbuf, disk[CurId].pages)
  /\ \/ /\ Fits(CurPages, k)
        /\ rw' = [r EXCEPT !.pc = "copy"]
     \/ /\ ~Fits(CurPages, k)
        /\ FlushFrom(r, "copy")
  /\ UNCHANGED <<index, disk, free, nextOff, seqNum, futures, db, writes, opt>>

\* Copy the first CurPages pages of w_.buffer() (the SegmentWrap of line
\* 308) into window slots, an extra slot for each overflow, read the
\* overflows into theirs, and queue the chains (lines 316-345).
Copy ==
  LET pg        == SubSeq(wbuf, 1, CurPages)
      has(i)    == pg[i].ovf # NoSeg
      width(i)  == IF has(i) THEN 2 ELSE 1
      first(i)  == rw.nextSid + FoldLeft(LAMBDA acc, x : acc + width(x), 0,
                                         [x \in 1..i - 1 |-> x])
      total     == FoldLeft(LAMBDA acc, x : acc + width(x), 0, [x \in DOMAIN pg |-> x])
      tag(S, sd) == {[k |-> x.k, v |-> x.v, src |-> sd] : x \in S}
      chain(i)  ==
        [slots |-> IF has(i) THEN <<first(i), first(i) + 1>> ELSE <<first(i)>>,
         recs  |-> SetToSortSeq(tag(pg[i].recs, first(i)) \cup
                                  (IF has(i) THEN tag(disk[pg[i].ovf].pages[1].recs,
                                                      first(i) + 1)
                                   ELSE {}), ByKey)]
      ovfs      == SelectSeq([i \in DOMAIN pg |-> pg[i].ovf], LAMBDA o : o # NoSeg)
  IN
  /\ rw.pc = "copy"
  /\ rw' = [rw EXCEPT !.ok = @ /\ Fits(CurPages, rw.nOvf),
                      !.ring = @ \o [x \in 1..total |-> rw.nextSid + x - 1],
                      !.nextSid = @ + total,
                      !.toProc = @ \o [i \in DOMAIN pg |-> chain(i)],
                      !.ovfClear = @ \o ovfs,
                      !.pc = "drain"]
  /\ UNCHANGED <<index, disk, free, nextOff, seqNum, wbuf, futures, db, writes, opt>>

\* pm.UpdatePageIterator(pc.GetIterator()) for the front chain (line 350).
Update ==
  /\ rw.pc = "drain"
  /\ rw.toProc # <<>>
  /\ ~rw.loaded
  /\ rw' = [rw EXCEPT !.pmi = rw.toProc[1].recs, !.loaded = TRUE]
  /\ UNCHANGED <<index, disk, free, nextOff, seqNum, wbuf, futures, db, writes, opt>>

\* seg_builder.Offer(pm.GetNext()) while the chain has records (352-356).
OfferPage ==
  LET g == GetNext(rw.pmi, rw.batch, rw.bi)
  IN
  /\ rw.pc = "drain"
  /\ rw.loaded
  /\ rw.pmi # <<>>
  /\ OfferFrom([rw EXCEPT !.pmi = g.pmi, !.bi = g.bi], g.r, "drain")
  /\ UNCHANGED <<index, disk, free, nextOff, seqNum, wbuf, futures, db, writes, opt>>

\* The chain is done: move it to pages_processed (359-360).
ChainDone ==
  /\ rw.pc = "drain"
  /\ rw.loaded
  /\ rw.pmi = <<>>
  /\ rw' = [rw EXCEPT !.processed = Append(@, rw.toProc[1]),
                      !.toProc = Tail(@), !.loaded = FALSE]
  /\ UNCHANGED <<index, disk, free, nextOff, seqNum, wbuf, futures, db, writes, opt>>

\* Next segment to rewrite, or the leftovers.
NextSegment ==
  /\ rw.pc = "drain"
  /\ rw.toProc = <<>>
  /\ ~rw.loaded
  /\ rw' = [rw EXCEPT !.j = @ + 1,
                      !.pc = IF rw.j < Len(rw.segs) THEN "check" ELSE "leftover"]
  /\ UNCHANGED <<index, disk, free, nextOff, seqNum, wbuf, futures, db, writes, opt>>

\* Leftover in-memory records (366-371), then the builder's last
\* segments (373-377).
Leftover ==
  LET g == GetNext(rw.pmi, rw.batch, rw.bi)
  IN
  /\ rw.pc = "leftover"
  /\ \/ /\ rw.bi <= Len(rw.batch)
        /\ OfferFrom([rw EXCEPT !.bi = g.bi], g.r, "leftover")
     \/ /\ rw.bi > Len(rw.batch)
        /\ \E c \in Cuts(rw.pend) :
             rw' = [rw EXCEPT !.pend = <<>>, !.queue = c, !.ret = "zero",
                              !.pc = IF c = <<>> THEN "zero" ELSE "load"]
  /\ UNCHANGED <<index, disk, free, nextOff, seqNum, wbuf, futures, db, writes, opt>>

\* LoadIntoNewSegment, step 3 (manager_load.cc:303-326): a free segment
\* of the same page count, else a fresh one in that size class's file.
NewSegId(n) ==
  LET fr == {x \in free : x[1] = n}
  IN  IF fr # {} THEN CHOOSE x \in fr : TRUE ELSE <<n, nextOff>>

\* One iteration of the lambda's loop (lines 225-257): the segment's upper
\* bound, then LoadIntoNewSegment (manager_load.cc:253-326), which fills
\* w_.buffer(), stamps the sequence number and writes the pages to a free
\* segment of that size or a newly allocated one.
LoadOne ==
  LET s     == rw.queue[1]
      upper == IF Len(rw.queue) > 1 THEN rw.queue[2][1].k
               ELSE IF rw.pend # <<>> THEN rw.pend[1].k
               ELSE UpperBound(Last(s).k)
      n     == SegPages(Len(s))
      pages == NewSegPages(s)
      id    == NewSegId(n)
  IN
  /\ rw.pc = "load"
  /\ rw.queue # <<>>
  /\ disk' = (id :> [valid |-> TRUE, seq |-> rw.seqNo, lo |-> s[1].k, hi |-> upper,
                     pages |-> pages]) @@ disk
  /\ wbuf' = Overlay(wbuf, pages)
  /\ free' = free \ {id}
  /\ nextOff' = IF id \in free THEN nextOff ELSE nextOff + 1
  /\ rw' = [rw EXCEPT !.queue = Tail(@), !.emitted = Append(@, <<s[1].k, id>>)]
  /\ UNCHANGED <<index, seqNum, futures, db, writes, opt>>

\* The lambda's tail (lines 259-292): free, slot by slot in FIFO order,
\* every processed chain whose keys are all below the builder's current
\* base key (all of them when the builder is empty); then return.
FreeChains ==
  LET n == NumFreed(rw.processed, rw.pend)
      m == SlotsOf(rw.processed, n)
  IN
  /\ rw.pc = "load"
  /\ rw.queue = <<>>
  /\ rw' = [rw EXCEPT !.ring = SubSeq(@, m + 1, Len(@)),
                      !.processed = SubSeq(@, n + 1, Len(@)),
                      !.pc = rw.ret]
  /\ UNCHANGED <<index, disk, free, nextOff, seqNum, wbuf, futures, db, writes, opt>>

\* Step 3 (lines 379-413): zero page 0 of every old segment and overflow,
\* on the pool or synchronously, and add their ids to the free list.
Zero ==
  LET old == {rw.segs[i][2] : i \in DOMAIN rw.segs} \cup Range(rw.ovfClear)
  IN
  /\ rw.pc = "zero"
  /\ IF UseBg
     THEN /\ futures' = old
          /\ UNCHANGED disk
     ELSE /\ disk' = [x \in DOMAIN disk |->
                        IF x \in old THEN [disk[x] EXCEPT !.valid = FALSE] ELSE disk[x]]
          /\ UNCHANGED futures
  /\ free' = free \cup old
  /\ rw' = [rw EXCEPT !.pc = "index"]
  /\ UNCHANGED <<index, nextOff, seqNum, wbuf, db, writes, opt>>

\* Step 4 (lines 415-422): erase the old bases, insert the new segments
\* (std::map::insert keeps the first of equal keys).
IndexUpdate ==
  LET olds   == {rw.segs[i][1] : i \in DOMAIN rw.segs}
      news   == {rw.emitted[i][1] : i \in DOMAIN rw.emitted}
      idOf(b) == rw.emitted[Min({i \in DOMAIN rw.emitted : rw.emitted[i][1] = b})][2]
  IN
  /\ rw.pc = "index"
  /\ index' = [b \in Keys |-> IF b \in news THEN idOf(b)
                              ELSE IF b \in olds THEN NoSeg ELSE index[b]]
  /\ rw' = [rw EXCEPT !.pc = "wait"]
  /\ UNCHANGED <<disk, free, nextOff, seqNum, wbuf, futures, db, writes, opt>>

\* Mutant: the call returns without joining the zeroing writes.
WaitNoJoin ==
  /\ rw.pc = "wait"
  /\ rw' = RwIdle
  /\ UNCHANGED <<index, disk, free, nextOff, seqNum, wbuf, futures, db, writes, opt>>

\* Step 5 (lines 424-427): wait for the zeroing writes; the call returns.
Wait ==
  /\ rw.pc = "wait"
  /\ futures = {}
  /\ rw' = RwIdle
  /\ UNCHANGED <<index, disk, free, nextOff, seqNum, wbuf, futures, db, writes, opt>>

\* Mutant: the write runs but its future is never made ready.
BgWriteLost(id) ==
  /\ id \in futures
  /\ disk' = [disk EXCEPT ![id].valid = FALSE]
  /\ UNCHANGED <<index, free, nextOff, seqNum, wbuf, futures, db, writes, rw, opt>>

\* A pool thread runs one zeroing WritePage.
BgWrite(id) ==
  /\ id \in futures
  /\ disk' = [disk EXCEPT ![id].valid = FALSE]
  /\ futures' = futures \ {id}
  /\ UNCHANGED <<index, free, nextOff, seqNum, wbuf, db, writes, rw, opt>>

\* The keys page i of segment id covers: from its first key (the segment's
\* lower fence for page 0) to the next page's first key or the upper fence.
PageRange(id, i) ==
  LET pg     == disk[id].pages
      from(j) == IF j = 1 THEN disk[id].lo ELSE Min({r.k : r \in pg[j].recs})
  IN  from(i)..((IF i = Len(pg) THEN disk[id].hi ELSE from(i + 1)) - 1)

\* The write path (not under src/; spec sections 1 and 4.6): new keys that
\* the index routes to segment b and its model to a full page i (the
\* page's range, abstracting the model) go to an overflow page in
\* the one-page file, taken from the free list or freshly allocated, and
\* the page's overflow bit is set.
Overflow(b, i, R) ==
  LET id  == index[b]
      oid == NewSegId(1)
  IN
  /\ rw.pc = "idle"
  /\ writes < MaxWrites
  /\ i \in DOMAIN disk[id].pages
  /\ disk[id].pages[i].ovf = NoSeg
  /\ Cardinality(disk[id].pages[i].recs) = RecsPerPage
  /\ R # {}
  /\ Cardinality(R) <= RecsPerPage
  /\ R \subseteq (PageRange(id, i) \cap b..UpperBound(b) - 1) \ {r.k : r \in SegRecs(id)}
  /\ disk' = (oid :> [valid |-> TRUE, seq |-> disk[id].seq, lo |-> disk[id].lo,
                      hi |-> disk[id].hi,
                      pages |-> <<[recs |-> {[k |-> x, v |-> writes + 1] : x \in R},
                                   ovf |-> NoSeg]>>])
             @@ [disk EXCEPT ![id].pages[i].ovf = oid]
  /\ free' = free \ {oid}
  /\ nextOff' = IF oid \in free THEN nextOff ELSE nextOff + 1
  /\ db' = [k \in Keys |-> IF k \in R THEN writes + 1 ELSE db[k]]
  /\ writes' = writes + 1
  /\ UNCHANGED <<index, seqNum, wbuf, futures, rw, opt>>

\* The steps of a running call, all on the manager thread.
CallStep ==
  \/ Check \/ Read \/ Copy
  \/ Update \/ OfferPage \/ ChainDone \/ NextSegment \/ Leftover
  \/ LoadOne \/ FreeChains
  \/ Zero \/ IndexUpdate \/ Wait

\* A pool thread runs a submitted write.
PoolStep == \E id \in futures : BgWrite(id)

-----------------------------------------------------------------------------
\* The inputs of a call: an overflowing segment and a batch of keys that
\* the index routes to it.
Next ==
  \/ \E t \in Bases : /\ HasOverflow(index[t])
                      /\ \E B \in SUBSET (t..UpperBound(t) - 1) : Start(t, B)
  \/ \E b \in Bases, i \in 1..MaxSegPages, R \in SUBSET Keys : Overflow(b, i, R)
  \/ CallStep
  \/ PoolStep

\* The manager thread runs each call to completion (operations run to
\* completion, spec section 5) and the pool runs every submitted write.
\* New calls and overflow writes come from the workload: no fairness.
Fairness == WF_vars(CallStep) /\ WF_vars(PoolStep)

Spec == Init /\ [][Next]_vars /\ Fairness

-----------------------------------------------------------------------------
(* Properties.                                                             *)

\* The segment the index routes k to, and what a read of k finds there.
Route(k) ==
  LET below == {b \in Bases : b <= k} IN IF below = {} THEN NoSeg ELSE index[Max(below)]

\* What a read finds besides a version: page 0 zeroed, or two records.
Zeroed    == -1
Duplicate == -2

\* The records of k in the segment the index routes it to, whatever page 0
\* holds.
Found(k) ==
  LET id == Route(k)
      rs == IF id = NoSeg THEN {} ELSE {r \in SegRecs(id) : r.k = k}
  IN  IF rs = {} THEN NoVal
      ELSE IF Cardinality(rs) > 1 THEN Duplicate
      ELSE (CHOOSE r \in rs : TRUE).v

ReadKey(k) ==
  IF Route(k) # NoSeg /\ ~disk[Route(k)].valid THEN Zeroed ELSE Found(k)

\* What the callers of the manager read.  Steps 3 and 4 of a call are one
\* step to them: the manager thread that runs RewriteSegments is the one
\* that serves reads of the manager, so between the zeroing and the index
\* swap the old segments are read as they were (the run rewrite_readers
\* shows what a reader on another thread would find).  The version count
\* moves when the swap makes the batch visible.
Store == [k \in Keys |-> IF rw.pc = "index" THEN Found(k) ELSE ReadKey(k)]

Abstract == INSTANCE PageStore
              WITH store <- Store,
                   ver   <- IF rw.pc \in {"idle", "wait"} THEN writes ELSE writes - 1

\* Every variable has its type.
TypeOK ==
  /\ index \in [Keys -> (Nat \X Nat) \cup {NoSeg}]
  /\ free \subseteq DOMAIN disk
  /\ futures \subseteq DOMAIN disk
  /\ seqNum \in Nat
  /\ \A id \in DOMAIN disk : /\ Len(disk[id].pages) \in 1..MaxSegPages
                            /\ \A i \in DOMAIN disk[id].pages :
                                 Cardinality(disk[id].pages[i].recs) <= RecsPerPage
  /\ rw.pc \in {"idle", "check", "read", "copy", "drain", "leftover", "load",
                "zero", "index", "wait"}
  /\ Len(rw.pend) <= SegCap
  /\ \A i \in DOMAIN rw.queue : Len(rw.queue[i]) \in 1..SegCap

\* The window is never overrun: a flush always finds something in the
\* builder (asserts at lines 301 and 314), after it the segment and its
\* overflows fit (asserts at 303 and 316), and page_buf.Allocate() never
\* runs out of slots.
WindowSuffices ==
  /\ rw.ok
  /\ Len(rw.ring) <= WindowCap

\* No record still to be written references a freed slot: every record
\* the builder holds or is handing to LoadIntoNewSegment either came from
\* the in-memory batch or lives in a slot of the circular buffer that has
\* not been freed (the lambda frees chains only below CurrentBaseKey).
NoFreedSlotRead ==
  \A r \in Range(rw.pend) \cup UNION {Range(rw.queue[i]) : i \in DOMAIN rw.queue} :
    r.src = 0 \/ r.src \in Range(rw.ring)

\* After every RewriteSegments call (P4, P6): a read of every key through
\* the index finds exactly the newest version written (the batch beats the
\* page), no key is lost or duplicated, every indexed segment is valid and
\* not in the free list, and it has the lower fence of its base and holds
\* only keys the index routes to it.
RewritePreservesRecords ==
  rw.pc = "idle" =>
    /\ \A k \in Keys : ReadKey(k) = db[k]
    /\ \A b \in Bases :
         /\ index[b] \notin free
         /\ disk[index[b]].lo = b
         /\ \A r \in SegRecs(index[b]) : b <= r.k /\ r.k < UpperBound(b)

\* The upper fence LoadIntoNewSegment gives every new segment is the
\* smallest key of the next segment (spec section 2: U is the smallest key
\* belonging to the next page), also for the last segment of a flush,
\* whose upper bound the lambda takes from index_.upper_bound(last key)
\* while the old entries are still in the index.
UpperFenceIsNextBase ==
  rw.pc = "idle" => \A b \in Bases : disk[index[b]].hi = UpperBound(b)

\* SegmentRewrite implements PageStore, as FlattenLoad does: a call
\* installs exactly its batch under the next version, in one step (the
\* index swap), and no other step of the call, of the pool's zeroing
\* writes or of a later call reusing freed ids changes what any key reads.
Refines == Abstract!Spec

\* Spec section 5: a reader that observes an index entry fixes pages
\* consistent with the entry's sequence number or greater.  So every
\* segment the index routes to, and every overflow page it links, is
\* valid at every step, also while RewriteSegments zeroes page 0 of the
\* old segments (lines 379-413) before it erases their entries (415-422).
IndexedSegmentsReadable ==
  \A b \in Bases :
    LET id == index[b]
    IN  /\ disk[id].valid
        /\ \A i \in DOMAIN disk[id].pages :
             disk[id].pages[i].ovf # NoSeg => disk[disk[id].pages[i].ovf].valid

\* Every RewriteSegments call returns: the manager thread runs the call to
\* completion and the pool thread runs every zeroing write whose future
\* the join at lines 424-427 waits on, so no call stays blocked in get().
RewriteReturns == rw.pc # "idle" ~> rw.pc = "idle"

=============================================================================
