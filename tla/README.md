# TLA+ models of treeline's storage core

This directory holds TLA+ models of the storage core of treeline, a key-value engine with a
learned index. TLC checks them. The C++ sources are under `src/`:

| file | what it holds |
|---|---|
| `src/db/memtable.cc` | the in-memory write buffer (MemTable, C1) |
| `src/db/db_impl_reorg.cc` | reorganization of an overflow chain in the page-chain variant (C5) |
| `src/page_grouping/manager_rewrite.cc` | segment rewrite (C6) and chain flattening (C7) in the segment variant, with PagePlusRecordMerger (C3) and PageChain |
| `src/page_grouping/manager_load.cc` | bulk loading into segments and pages, and the page-boundary search |

The names C1 to C7 are the component numbers of `spec.md` section 4.

## The system and how its parts interact

- **MemTable (C1).** Writes land here first. Each Put or Delete inserts a new record
  stamped `(next_sequence_num_++ << 8) | type`. The comparator orders records by key, and
  records of equal keys newest first. Get seeks to the sentinel `(key, UINT64_MAX)`. The
  iterator's Next skips the older records of the key it leaves. The flush worker drains
  the MemTable into pages.
- **Page-chain variant (C5).** The learned model (`model_`) maps the lower boundary of each
  main page to its id. A main page has fences `[lower, upper)` and, when full, an overflow
  link to a page with the same fences. Only the flush worker writes pages. It fixes a chain
  exclusively through `FixOverflowChain`, which returns null when the model changed while
  it waited, so the records must be reinserted. Once a chain is longer than a threshold,
  the flush worker schedules `ReorganizeOverflowChain`. That function:
  1. fixes the chain;
  2. returns early for a chain of one page or one longer than `max_reorg_fanout`;
  3. raises the fill percentage until the page estimate fits the fanout;
  4. finds the page boundaries in a first pass and fills in-memory pages in a second;
  5. commits them from the last page down to the first (memcpy, `model_->Insert`, unfix
     dirty);
  6. zeroes the surplus frames.

  Readers resolve a page through the model, fix it, and retry through the model when the
  key lies outside the page's fences.
- **Segment variant (C2, C3, C4, C6, C7, bulk load).** The index maps segment base keys to
  segments of 1 to 16 pages. `RewriteSegments` collects overflowing neighbours and reads
  them through a 64-slot `CircularPageBuffer`. It merges their chains with the in-memory
  batch in `PagePlusRecordMerger` (newest wins, both sides advance on a tie) and offers
  the records to a `SegmentBuilder`. It writes each finished segment with
  `LoadIntoNewSegment` and frees processed chains whose largest key lies below the
  builder's current base. At the end it zeroes the old segments, puts them on the free
  list and swaps the index entries. `FlattenChain` does the same for one page and its
  overflow, through `LoadIntoNewPages`. `ComputePageLowerBoundaries` finds each page's
  lower boundary by binary search in the key domain.

The hard behaviours:
- the flush worker, the reorganization worker and readers interleave on the same chain;
- a thread uses a page or model lookup made before it blocked;
- the commit order of a reorganization;
- off-by-ones in the split plan;
- a MemTable scan interleaved with writes;
- in the rewrite, the sliding window at its capacity, chains freed while the builder
  still holds records, and the index updated after the free list.

## Modules

### `ChainReorg.tla`: reorganization against the flush worker and readers (C5)

The model abstracts these parts of the code:
- A page is its fences (`lower`, `upper`), its overflow link `ovf`, and `recs[p]`, a map
  from keys to values. Values are the write counter, so every flush writes a fresh value.
- `model` maps boundary keys to page ids.
- `xlatch` records the exclusive holder of each frame between steps. Readers take shared
  latches that never block one another, so a reader's fix, fence check and read is one
  step.

The actions map to the code as follows:

| action | code |
|---|---|
| `ReorgStart` | the worker picks a scheduled head |
| `ReorgFix` | the fix loop (40-44); the length-1 return (46-50); the too-long return (52-66); the fill loop (`FillPct`, 68-105); both passes (`BoundaryKeys`, `NewPages`, 107-153). The passes happen while every frame is held, so they are one step. |
| `ReorgCommit` | one iteration of the backward loop (155-174). `CommitOrder` gives its index. It writes a reused or freshly allocated frame, runs `ModelInsert`, and unlatches. |
| `ReorgLeak` | the leak loop (176-204) |

The flush worker and the readers (`FlushResolve`, `FlushFix`, `ReaderStart`, `ReaderFix`)
are not under `src/`. They are modelled from the concurrency notes at the top of
`db_impl_reorg.cc` and spec section 4.5, and marked `spec_modelled` in the map.
`FlushFix` has three branches:
- a null chain, when `ChainChanged` is true: resolve the page again;
- a put into the page that holds the key, or into the last page with room;
- a new overflow page, which inherits the head's fences.

Scheduling happens when the chain is longer than `ReorgThreshold`.

### `MemTable.tla` and `MemTableSpec.tla` (C1)

The skip list is the set of records `table`. `Compare` is the comparator. `SeekGE` and
`Succ` are the skip list's Seek and Next over that order. Get, Seek, SeekToFirst and the
iterator's Next (`SkipKey`) follow `memtable.cc` line by line. Iterator steps interleave
with inserts. `last` is a history variable that holds the last write of each key.
`MemTableSpec` is the abstract map that Get must implement. `MemTable` instantiates it
with `db <- last`.

### `SegmentRewrite.tla` and `SegmentRewriteMC.tla`: the segment rewrite (C3, C4, C6)

The model abstracts these parts of the code:
- A segment on disk is `disk[id]`: its pages (each a set of `[k, v]` records and an
  overflow id), its fences `lo`/`hi`, the rewrite sequence number, and `valid`, which is
  FALSE once page 0 has been zeroed.
- A segment id is `<<page count, offset>>`. `free` is the free list, and `nextOff` is the
  file's next fresh offset.
- `index` maps base keys to ids.
- `wbuf` is `w_.buffer()`, the one-segment write buffer that `ReadSegment` and
  `LoadIntoNewSegment` share. Each of them overwrites only the first pages, as many as
  its segment has (`Overlay`), and `Copy` walks the first `CurPages` pages, as `sw` does
  with the old segment's page count (308).
- `db` is a history variable that holds the newest version of every key. A batch record
  carries version `writes + 1`, where `writes` counts the batch writes so far (rewrite
  calls and overflow writes); a record loaded at start carries version 0.
- `rw` holds the local state of the running `RewriteSegments` call:
  - the window ring, the chain deques and the merger position;
  - what the builder holds, and the segments it has emitted but not yet loaded.

A record in the window carries the id of the ring slot it was read into. Records of the
batch carry slot 0.

The builder (`SegmentBuilder`, not under `src/`) is abstracted. An `Offer` may emit any
prefix of what it holds, and must emit once it holds a full segment
(`MaxSegPages * RecsPerPage` records). `Finish` emits everything. Either cuts its output
into segments of at most that size (`Cuts`). The page boundaries that
`ComputePageLowerBoundaries` would give are abstracted to `RecsPerPage` records per page
(`NewSegPages`).

The actions map to the code as follows:

| action | code (`manager_rewrite.cc`) |
|---|---|
| `Start(t, B)` | the neighbour scan, the sort and the sequence number (135-214). The inputs are an overflowing base `t` and a batch `B` of keys the index routes to it. |
| `Check` | the first flush point (295-304) |
| `Read` | `ReadSegment`, counting the overflows, and the second flush point (306-317) |
| `Copy` | the `ForEachPage` copy into window slots, plus `ReadOverflows` (319-345) |
| `Update`, `OfferPage`, `ChainDone`, `NextSegment` | the drain loop (347-362). `OfferPage` merges with `GetNext` (88-120). |
| `Leftover` | the leftover batch records and the final `Finish` (364-377) |
| `LoadOne` | one iteration of the lambda's loop. It computes the upper bound, then runs `LoadIntoNewSegment` (`manager_load.cc:253-326`), which takes a free-list id or a fresh one and writes `w_.buffer()`. |
| `FreeChains` | the lambda's freeing loop (259-293) |
| `Zero`, `BgWrite` | zeroing page 0 of the old segments and overflows, on the pool or synchronously, and `free_.Add` (379-413) |
| `IndexUpdate` | the erase and the insert; `std::map::insert` keeps the first of two equal bases (415-422) |
| `Wait` | the join on the write futures (424-427) |
| `Overflow(b, i, R)` | the write path, which is not under `src/`, so it is modelled from the spec. New keys that the index routes to segment `b`, and whose page `i` is full, go to an overflow page in the one-page file: a free id or a fresh one. |

`Init` starts from a layout, or from `BulkLoadIntoSegments`
(`manager_load.cc:180-228`). For the bulk load, the abstracted builder cuts the dataset
into segments, and each segment is written as `LoadIntoNewSegment` writes it
(`NewSegPages`, with `LoadIntoPage` for each page, 20-39), with sequence number 0 and
the next segment's first key as upper fence.

The manager's options (`WindowCap`, `ConsiderNeighbors`, `UseBg`) come from the constant
`Setups` together with the starting database. The variable `opt` holds the chosen
setup's options, and no action changes it, so one run can check several configurations.
`SegmentRewriteMC` defines the setups and the starting databases:
- `ThreeSegments`: two overflowing one-page segments and a third without an overflow,
  where the neighbour scan stops.
- `GapBetween`: two overflowing segments with key 3 absent between them.
- `TwoPageFirst`: a two-page segment with one overflow, followed by an overflowing
  one-page segment.
- `Bulk(D, ...)`: no layout; a bulk load of dataset `D`, after which only `Overflow`
  creates overflows. Its window has 8 slots, the code's ratio of four largest segments.
  A 2-slot window cannot hold one 2-page segment with its overflows.

### `FlattenLoad.tla`: bulk load and chain flattening in the page variant (C7, `LoadIntoNewPages`)

The page variant keeps one-page segments in one file. The model abstracts it as follows:
- A page is `disk[id]`: its fences, its records (`[k, v]`), its sequence number `seq`, its
  overflow id and `valid`. `by` is a history field: the sequence number of the operation
  that wrote the page.
- `index`, `free`, `nextOff` and `seqNum` are `index_`, `free_`, the file's next offset and
  `next_sequence_number_`. `db` holds the newest version of every key.
- `futures` are the pooled zeroing writes not yet run, and `pc` is `"wait"` while
  `FlattenChain` joins them. `useBg` is whether the Manager has a pool.

`LoadIntoNewPages` (`manager_load.cc:328-404`) is a recursive operator over the start
index of the page, written as the code's loop: full pages of `records_per_page_goal`
records while `page_end_idx <= num_records`, then the partial last page. `PlacePage`
takes an id from the free list or a fresh offset, and `FoldLeft` applies it page by
page.

| action | code |
|---|---|
| `Init` | `BulkLoadIntoPages` and `BulkLoadIntoPagesImpl` (`manager_load.cc:230-251`) on one of `Datasets` |
| `Overflow(b, R)` | the write path's overflow page. It is not under `src/`, so it is modelled from spec section 4.5: new keys of a full page go to one overflow page. |
| `FlattenChain(b, B)` | `FlattenChain` (`manager_rewrite.cc:433-528`): the upper fence, the chain read, the merge (`FlattenMerge`), the sequence number, `LoadIntoNewPages`, zeroing and freeing the old pages, the index swap |
| `Wait`, `BgWrite` | the join on the write futures (530-532), and one pooled zeroing write (505-513) |

`PageStore.tla` is what both variants promise their callers: a map from keys to
versions, where each batch write gives some keys the next version in one step. In
`FlattenLoad`, `Store` reads every key through the index (`ReadKey`), and `Abstract`
instantiates `PageStore` with `store <- Store` and `ver <- ops`. In `SegmentRewrite`,
`Store` does the same. The exception is the window between the zeroing (`Zero`) and the
index swap (`IndexUpdate`): there the old segments are read as they were before page 0
was zeroed (`Found`). The version is `writes` once the swap is done, and
`writes - 1` before it. This mapping treats steps 3 and 4 of a call as one step, as
a caller on the manager's own thread sees them. The run `rewrite_readers` shows what a
reader on another thread would see instead.

### `PageBoundaries.tla` and `PageBoundariesMC.tla`: page lower boundaries of a segment (bulk load)

`ComputePageLowerBoundaries` (`manager_load.cc:112-174`) finds the smallest key of every
page of a segment whose model is a line. The model abstracts it as follows:
- Keys and `size_t` are `W`-bit unsigned integers, so `KeyAdd` and `KeySub` wrap as
  `KeyDomainIterator` does (56-91).
- A line is `[sn, sd, cn]`, meaning position(x) = (sn * x + cn) / sd pages for
  x = key - base. `PageForKey` is not under `src/`. It is modelled from spec 4.6: the
  line applied to key - base_key, truncated and clamped to the pages.
- `PageToKeyCast` is the set of values `static_cast<Key>(page_to_key(i))` may take:
  - an inverse that is an integer may come out of the double arithmetic just below
    itself and truncate one key low;
  - a negative inverse has no Key value (undefined behaviour). x86-64 truncates it and
    wraps; other targets saturate at 0.
- `Bracket` is step 2 of the loop, and `LowerBound` is `std::lower_bound`, written as a
  recursive operator with the library's halving loop.
- `ComputeBoundary` is one iteration of the loop over `page_idx`.
- `RefBoundary` is the reference: the smallest key of the segment that the model puts on
  a page.

## Runs

| run | cfg | what it shows |
|---|---|---|
| `reorg_grow` | `ChainReorgGrow.cfg` | 5 keys, 3 records per page, fanout 4, fill 34%, one reader, 5 writes. A two-page chain estimates 6 one-record pages, so the fill loop raises the percentage to 67% before the split. Chains split onto new pages while the flusher and a reader race with the commit loop. |
| `reorg_reject` | `ChainReorgReject.cfg` | 3 keys, 1 record per page, fanout 2, fill 100%, 4 writes. Chains outgrow the fanout and are rejected; others split in place. |
| `memtable` | `MemTable.cfg` | 2 keys, 2 values, 4 inserts. Keys are rewritten and deleted while a scan is open. |
| `rewrite_records` | `SegmentRewriteRecords.cfg` | Segments of up to 2 one-record pages, up to 2 writes. The setups are: `ThreeSegments` and `GapBetween` with neighbours and zeroing on the pool, where the first flush point fires; `ThreeSegments` without neighbours, with pooled or synchronous zeroing, where the second rewrite reuses the ids the first freed; a bulk load of keys {1, 2, 4} with an 8-slot window, where an overflow write of key 3 or 5 is followed by a rewrite of the segment and its neighbour; and a bulk load of keys {1, 3, 4, 5} with synchronous zeroing and no neighbours, which cuts a larger dataset into segments and rewrites one after an overflow write of key 2. |
| `rewrite_window` | `SegmentRewriteWindow.cfg` | `TwoPageFirst` through a 4-slot window, with synchronous zeroing. Both flush points fire. |
| `rewrite_clobber` | `SegmentRewriteClobber.cfg` | expected violation: the window run, checking `RewritePreservesRecords` |
| `rewrite_fence` | `SegmentRewriteFence.cfg` | expected violation: `GapBetween`, checking `UpperFenceIsNextBase` |
| `rewrite_readers` | `SegmentRewriteReaders.cfg` | expected violation: one rewrite of `ThreeSegments` with synchronous zeroing, checking `IndexedSegmentsReadable` |
| `flatten` | `FlattenLoad.cfg` | Keys 1..5, goal 2. Bulk loads of 3 keys (one full page and a partial one) and of 4 keys (an exact multiple of the goal). Then up to 4 overflow writes or flattens, with and without a pool. |
| `flatten_seq` | `FlattenLoadSeq.cfg` | expected violation: the flatten settings, checking `PagesCarrySequenceNumber` |
| `page_boundaries` | `PageBoundaries.cfg` | 5-bit keys, bases 0 and 5, 1 to 8 pages. The models have one page per key, three keys per page, and inverses that are not integers. |
| `page_boundaries_intercept` | `PageBoundariesIntercept.cfg` | expected violation: a model with a positive intercept, checking `BoundariesArePageStarts` |

Properties of `ChainReorg`:
- `TypeOK`: no page holds more than `Cap` records, and a reorganization never plans more
  than the fanout. In `reorg_grow` the fill loop at line 95 raises the percentage, so
  this checks that the loop stops in time and never passes a full page (hazard at 95).
- `IndexAgreesWithPages`: every free main page has the fences its model entry implies, and
  so do all pages of its chain, with records inside them.
- `FlushedWritesVisible`: every key inside a free chain's fences has the last flushed
  value.
- `ReadsReturnLatest`: an action property; a completed read returns the last flushed value.
- `ReadsComplete`: liveness; a reader that has resolved a page eventually reads.

Properties of `MemTable`:
- `Refines`: the MemTable implements `MemTableSpec`.
- `IteratorYieldsLatest`: keys come in ascending order, once each, and a scan that no
  insert interrupted yields exactly the last write of every key from its start.
- `TypeOK`.

Properties of `SegmentRewrite`:
- `RewritePreservesRecords` (spec P4 and P6): when no call is running, a read of every
  key through the index finds its newest version exactly once, in a valid segment that is
  not on the free list, whose lower fence is its base and whose records all belong to it.
- `WindowSuffices`: the asserts at the flush points hold, and the ring never holds more
  than `WindowCap` slots.
- `NoFreedSlotRead`: no record the builder holds, or is about to write, lies in a freed
  ring slot.
- `UpperFenceIsNextBase`: a new segment's upper fence is the next segment's base.
- `Refines`: `SegmentRewrite` implements `PageStore`. A call installs exactly its batch
  under the next version in one step, the index swap. No other step changes what any key
  reads: not the window and builder steps, not the writes of new segments to reused ids,
  and not the pool's zeroing writes.
- `RewriteReturns`: liveness; every call returns, so the join at 424-427 is never left
  waiting. This matters because every safety property above is stated for the idle
  manager, and a stuck call would satisfy them vacuously.
- `IndexedSegmentsReadable` (spec section 5): at every step, every segment the index
  routes to, and every overflow page it links, is valid.
- `TypeOK`: it includes the page capacity of every segment.

Properties of `FlattenLoad`:
- `FlattenPreservesRecords` (spec P4 and P6): when no call is running, every key reads its
  newest version exactly once through the index. Every indexed page is valid, is not on
  the free list, and has the fences [its base, the next base) with its records inside.
- `Refines`: `FlattenLoad` implements `PageStore`. Only an overflow write or a flatten
  changes what a key reads, and only to the new version. The join and the pooled
  zeroing writes change nothing, even while `FlattenChain` waits.
- `PagesCarrySequenceNumber`: every indexed page carries the sequence number of the
  operation that wrote it.
- `TypeOK`: it includes that no page holds more than the goal.

Properties of `PageBoundaries`:
- `BoundariesArePageStarts` (spec P5 and the asserts at 151 and 162-168): whatever the
  drift of the inverted model, the bracket is ordered, every boundary is the smallest key
  of its page, and the boundaries strictly increase.
- `TypeOK`: it includes that the loop yields no more boundaries than pages (the assert
  at 172).

Every property has a mutant in `PROJECT.json`: a plausible bug in a mapped definition that
TLC finds. For example:
- dropping the fill loop at line 95 breaks `TypeOK` in `reorg_grow`;
- a forward commit loop breaks `IndexAgreesWithPages`;
- FixOverflowChain never returning null breaks `ReadsReturnLatest`;
- Next without the skip loop breaks `IteratorYieldsLatest`;
- an ascending sequence comparator breaks `Refines`;
- a merger that does not advance the page side on a tie breaks `RewritePreservesRecords`;
- a `RewriteSegments` that returns without joining its zeroing writes breaks `Refines`
  in `rewrite_records`, because the late write zeroes a reused id;
- a pooled write whose future is never made ready breaks `RewriteReturns`;
- freeing a chain whose largest key equals the builder's base breaks `NoFreedSlotRead`;
- a flatten merge that keeps the page's record on a tie, or a `FlattenChain` that does
  not join its zeroing writes, breaks `FlattenPreservesRecords` (and the latter breaks
  `Refines`);
- a binary search that does not step past a key mapping too low, or a bracket that always
  takes the candidate as its upper end, breaks `BoundariesArePageStarts`.

## Findings

- **Code bug: the second flush point loses records**
  (`manager_rewrite.cc:314`, run `rewrite_clobber`).
  1. `ReadSegment` puts the next segment into `w_.buffer()`, and `sw` wraps it (307-308).
  2. If its overflows do not fit in the window, the builder is flushed through
     `LoadIntoNewSegment`. That memsets and refills the same `w_.buffer()`
     (`manager_load.cc:258-259`).
  3. `sw.ForEachPage` (323) then copies the first pages of the segment just written,
     as many as the segment read had, and beyond them what was left from the read.

  TLC's trace rewrites `TwoPageFirst`. After the call, key 4 is gone and key 3 is stored
  twice. The window is scaled down here, but the comment at 192-195 says the code may
  reach this point with its 64 slots too.
- **Divergence: upper fences overlap** (`manager_rewrite.cc:245`, run `rewrite_fence`).
  After a flush with the builder empty, the last segment's upper bound is
  `index_.upper_bound(last key)`, the next old base. A batch key between the two becomes
  the base of the next new segment. The flushed segment therefore has upper fence 4 while
  the next one starts at 3. Spec section 2 defines U as the smallest key of the next page.
  The model's write path routes keys through the index, so the overlap loses nothing
  there. A write path that trusted the page's fences would put key 3 into the older
  segment, where a read through the index misses it. TLC found exactly that while the
  `Overflow` action was first being written.
- **Divergence: the last page of `LoadIntoNewPages` has sequence number 0**
  (`manager_load.cc:383`, run `flatten_seq`). Full pages get the operation's sequence
  number (350), but the partial last page gets `SetSequenceNumber(0)`. The first
  `FlattenChain` uses sequence number 0, so TLC needs a second one: it flattens a chain
  of 3 records into a full page with sequence number 1 and a last page with 0. Spec 4.6
  and 4.7 say the new pages are stamped with the operation's sequence number, which
  recovery and readers (spec 4.5) rely on.
- **Gap: readers can be routed to zeroed segments** (`manager_rewrite.cc:391`, run
  `rewrite_readers`). Step 3 of `RewriteSegments` zeroes page 0 of every old segment and
  overflow, and adds their ids to the free list (379-413). Only step 4 erases their index
  entries (415-422). Spec 4.6 orders the steps this way. Spec section 5 says reader
  threads run concurrently, and that a reader which observes an index entry sees bytes
  consistent with its sequence number or greater. Between the two steps the index still
  routes keys 1 and 2 to a zeroed segment and overflow, and TLC reaches that state.
  The code takes no lock and carries `TODO: Multi-threading concerns` (138).
  `FlattenChain` uses the same order (501-525). `FlattenLoad` models it as one step, so
  no run of that module shows this.
- **Gap: the bracket's lower end can lie above its upper end**
  (`manager_load.cc:142`, run `page_boundaries_intercept`). For `page_idx` 1 the lower
  end is `static_cast<Key>(page_to_key(0)) + base_key`. The comment at 140-141 assumes
  this is a strictly lower key. If the model's intercept is positive, `page_to_key(0)` is
  negative, and its cast is undefined. On x86-64 it wraps, so for a segment based at
  key 0 TLC reaches lower 31 and upper 2, against the assert at 151. Nothing under
  `src/`, and nothing in spec 4.6, keeps the intercept non-positive. Whether the
  `SegmentBuilder` can fit such a line decides whether this is reachable.

**Why the bounds are enough.** Two configurations are needed for C5. With 3 records per
page and a 34% fill, a two-page chain is estimated at six one-record pages, more than the
fanout of 4, so the fill loop runs up to 67% (two records per page). Five keys then split
into three pages, so the commit loop reaches its `fresh` case, and five writes allow a
second split of a grown chain. With
one record per page and a fanout of 2, three writes give a chain of three pages, which is
rejected. The forward-commit race needs only one reorganization, one flush and one reader,
and it appears within these bounds. For the MemTable, two keys with four inserts cover:
- an overwrite;
- a delete after a write;
- a write of the neighbour key between two iterator steps.

For the rewrite, one or two segments with one overflow each, pages of one record and
segments of at most two pages already reach every branch: both flush points, the freeing
test with the builder holding records of a processed chain, multi-page new segments,
free-list reuse, and background zeroing. A 2-slot window forces the first flush point.
The 4-slot window with a 3-slot segment first is the smallest setting where the second
one fires. Either way the window is scaled down like the segments (the code uses
4 x 16). For the flatten, a goal of 2 with 3 or 4 loaded keys gives both endings of
`LoadIntoNewPages`. Four operations are enough for an overflow, a flatten of the chain,
an overflow of a flattened page, and a second flatten (sequence number 1) that reuses
the freed ids. For the page boundaries,
5-bit keys hold segments of up to 8 pages.
The four lines give every case of the bracket: a candidate on the boundary, one key
below it after drift, and one on the page before.

**Fairness.** `WF` on `ReorgCommit` and `ReorgLeak` holds because, once the chain is fixed,
the worker runs the commit and leak loops without blocking: every frame it touches is
already held or newly allocated. `WF` on each `ReaderFix` holds because a reader blocked
on a frame is woken when the frame is unfixed, and the reorganization always unfixes. The
flush worker gets no fairness, since flushes are driven by the workload. `MemTableSpec` and
`MemTable` are safety-only, and the run disables deadlock checking because a MemTable with
its insert bound reached has nothing left to do. `SegmentRewrite` has `WF` on two
actions, one per thread. `CallStep` covers the steps of a running call on the manager
thread, and `PoolStep` is a pooled write. Spec section 5 justifies both: operations run
to completion, and background writes are futures that are joined before the operation
returns. `RewriteReturns` relies on this. `FlattenLoad` is safety-only: `FlattenChain` is
one step, so the only wait left is the join, and a liveness property about it would
hold by the fairness alone. Starting a call, an overflow write
and a flatten come from the workload, so they get no fairness, and a behaviour may stop
between calls. The rewrite and flatten runs
disable deadlock checking because the model stops once `MaxWrites` (or `MaxOps`) writes
have returned.

## Not modelled, and why

- **Byte-level formats.** This covers key prefixes, record sizes (abstracted to `Cap`
  records per page), checksums and the model-line encoding. No property distinguishes
  them.
- **The buffer manager, file manager, index, segment files and logger.** They are not
  under `src/`. They appear only as latches, a page-id counter and the `model` function.
- **The reorganization's own null retry at line 41.** It cannot occur with a single
  reorganization worker: only a second reorganization of the same chain could make
  FixOverflowChain return null there.
- **The shrinking (leak) case of C5.** It needs deletes in the page variant, which the
  flush path modelled here does not issue.

- **Crash recovery of a rewrite.** The rewrite's recovery log is still a TODO in the code
  (lines 216-219 and 429-430). Nothing is logged, so there is no recovery to check.
- **Key prefixes, models and checksums of new segments.** They are abstracted to the
  fences and to `RecsPerPage` records per page. Spec P6 asks for a non-zero checksum on
  every indexed page. `LoadIntoNewSegment` computes one (`manager_load.cc:301`), but
  `LoadIntoNewPages` never calls `ComputeAndSetChecksum`. Checksums belong to the page
  codec, so no property covers this.
- **The builder's debug summary in `BulkLoadIntoSegmentsImpl`.** The
  `write_debug_info` branch (210-215) only writes a CSV file.
- **Debug output.** `PrintSegmentsAsCSV`, `PrintSegmentSummaryAsCsv` and the
  `write_debug_info` branch only write CSV files.
- **A model whose inverse skips a page.** `PageBoundaries` uses lines of at most one page
  per key. A steeper line leaves some page index with no key at all, so that page has no
  smallest key and P5 cannot hold. `Segments` leaves such segments out. Whether the
  builder can fit such a line is outside `src/`.
- **An empty bulk load.** `BulkLoadIntoPagesImpl` reads `records.front()` of a possibly
  empty vector (`manager_load.cc:247`). The behaviour is undefined, so the model loads
  only non-empty datasets.

## Plan for the rest of the project

1. **Done:** `SegmentRewrite.tla`, covering properties P4, P6, the window and freed
   slots.
2. **Done:** `PageBoundaries.tla`.
3. **Done:** `FlattenLoad.tla` (C7 with `LoadIntoNewPages`).
4. **Done:** `FlattenLoad` and `SegmentRewrite` both refine `PageStore`, and every rewrite
   call returns (`RewriteReturns`).
5. **Next:** a composition of `SegmentRewrite` with a reader process, which would check
   that readers are fixed by some ordering (for example, erasing the index entries before
   zeroing). Also, the window setup refines `PageStore` only once the second-flush bug is
   avoided.
