----------------------------- MODULE ChainReorg -----------------------------
(***************************************************************************)
(* Reorganization of one overflow chain in the page-chain variant          *)
(* (DBImpl::ReorganizeOverflowChain, src/db/db_impl_reorg.cc), run by the  *)
(* reorganization worker concurrently with the flush worker, which writes  *)
(* records into chains, and with readers, which look keys up through the  *)
(* model.                                                                  *)
(*                                                                         *)
(* A page is abstracted to its fences [lower, upper), its overflow link    *)
(* and a function from keys to values; a frame's latch to its exclusive    *)
(* holder (shared holders never block each other, and a reader's fix,      *)
(* check and read of a chain is one step).  The model (model_) maps the    *)
(* lower boundary of every main page to its page id.  The flush worker,    *)
(* the readers and FixOverflowChain are not under src/: they are modelled  *)
(* from the concurrency contract of the spec (section 4.5) and the notes   *)
(* at the top of db_impl_reorg.cc.                                         *)
(***************************************************************************)
EXTENDS Integers, Sequences, FiniteSets, SequencesExt, FiniteSetsExt

CONSTANTS
  MaxKey,          \* keys are 1..MaxKey
  Cap,             \* records that fit on one page; Put beyond it is "full"
  MaxReorgFanout,  \* options_.max_reorg_fanout
  PageFillPct,     \* page_fill_pct handed to ReorganizeOverflowChain
  ReorgThreshold,  \* chain length above which the flush worker schedules a reorg
  Readers,         \* reader threads
  MaxWrites,       \* bound: records the flush worker writes
  MaxPageId,       \* bound: page ids the file manager hands out
  NoPage, NoVal    \* sentinels

Keys    == 1..MaxKey
Top     == MaxKey + 1          \* the empty upper boundary of the last page
PageIds == 1..MaxPageId
Vals    == 1..MaxWrites

ASSUME /\ Cap \in Nat \ {0}
       /\ MaxReorgFanout \in Nat \ {0, 1}
       /\ PageFillPct \in 1..100
       /\ (Cap * PageFillPct) \div 100 > 0
       /\ MaxPageId >= 2 * MaxWrites + 1   \* allocation never runs dry

VARIABLES
  recs,      \* recs[p][k]: value of key k on page p, NoVal if absent
  lower,     \* lower fence of page p (0 for a page never written or zeroed)
  upper,     \* upper fence of page p, exclusive
  ovf,       \* overflow link of page p
  xlatch,    \* holder of p's frame between steps: "none" or "reorg"
  model,     \* model_: lower boundary -> page id, NoPage where none
  nextPage,  \* next page id FileManager::AllocatePage returns
  flushed,   \* the database: last value the flush worker wrote for each key
  writes,    \* records written so far (the next value written)
  pending,   \* head pages of chains scheduled for reorganization
  fw,        \* the flush worker
  ro,        \* the reorganization worker (locals of ReorganizeOverflowChain)
  rd         \* the readers

vars == <<recs, lower, upper, ovf, xlatch, model, nextPage, flushed, writes,
          pending, fw, ro, rd>>

-----------------------------------------------------------------------------
(* The model and the chains.                                               *)

Bounds == {b \in Keys : model[b] # NoPage}

\* The main page the model assigns to key k.
Lookup(k) == model[Max({b \in Bounds : b <= k})]

NextBound(b) ==
  LET above == {c \in Bounds : c > b} IN IF above = {} THEN Top ELSE Min(above)

ModelSize == Cardinality(Bounds)

\* Mutant: an insert that only overwrites boundaries already in the model.
ModelInsertExisting(m, b, p) == IF m[b] # NoPage THEN [m EXCEPT ![b] = p] ELSE m

\* model_->Insert(boundary, page id): the entry at b is added or overwritten.
ModelInsert(m, b, p) == [m EXCEPT ![b] = p]

RECURSIVE Chain(_)
Chain(p) == IF ovf[p] = NoPage THEN <<p>> ELSE <<p>> \o Chain(ovf[p])

KeysOn(p) == {k \in Keys : recs[p][k] # NoVal}

ChainKeys(c) == UNION {KeysOn(c[i]) : i \in DOMAIN c}

\* The value of k in chain c (pages of a chain hold disjoint keys).
ChainValue(c, k) ==
  LET on == {i \in DOMAIN c : recs[c[i]][k] # NoVal}
  IN  IF on = {} THEN NoVal ELSE recs[c[CHOOSE i \in on : TRUE]][k]

Free(c) == \A i \in DOMAIN c : xlatch[c[i]] = "none"

\* Mutant: the fullness test is off by one.
PageHasRoomOffByOne(p) == Cardinality(KeysOn(p)) <= Cap

\* Page::Put succeeds (is not "full").
PageHasRoom(p) == Cardinality(KeysOn(p)) < Cap

-----------------------------------------------------------------------------
(* The split plan of ReorganizeOverflowChain.                              *)

\* KeyDistHints::records_per_page() and num_pages() for a fill percentage.
RecordsPerPage(pct) == (Cap * pct) \div 100
NumPages(n, rpp) == (n + rpp - 1) \div rpp

\* Mutant: the while loop at line 95 is dropped; the caller's percentage is kept.
FillPctNoRaise(est, pct) == pct

\* Raise the fill percentage until the estimate fits the fanout.
RECURSIVE FillPct(_, _)
FillPct(est, pct) ==
  IF NumPages(est, RecordsPerPage(pct)) > MaxReorgFanout
  THEN FillPct(est, pct + 1) ELSE pct

\* Mutant: the first record also starts a page (record_count > 0 dropped).
StartsPageAtZero(j, rpp) == j % rpp = 0

\* First pass: record j (0-based) starts a new page.
StartsPage(j, rpp) == j % rpp = 0 /\ j > 0

SortedKeys(c) == SetToSortSeq(ChainKeys(c), <)

\* boundary_keys: the chain's lower boundary, every page-starting key, and
\* the chain's upper boundary.
BoundaryKeys(c, rpp) ==
  LET ks  == SortedKeys(c)
      idx == SetToSortSeq({j \in 0..Len(ks) - 1 : StartsPage(j, rpp)}, <)
  IN  <<lower[c[1]]>> \o [x \in DOMAIN idx |-> ks[idx[x] + 1]] \o <<upper[c[1]]>>

\* Second pass: record j goes to page j \div rpp.
PageOf(j, rpp) == j \div rpp

NewPages(c, rpp) ==
  LET ks == SortedKeys(c)
  IN  [i \in 1..NumPages(Len(ks), rpp) |->
         [k \in Keys |->
            IF \E j \in DOMAIN ks : ks[j] = k /\ PageOf(j - 1, rpp) = i - 1
            THEN ChainValue(c, k) ELSE NoVal]]

\* Mutant: the commit loop runs forwards, from page 0 up.
CommitOrderForward(n) == [j \in 1..n |-> j - 1]

\* The indices of the new pages in the order they are committed.
CommitOrder(n) == [j \in 1..n |-> n - j]

\* Mutant: FixOverflowChain never notices that the model changed.
ChainChangedNever(snap) == FALSE

\* FixOverflowChain returns null to a caller whose view of the model is
\* older than the model: the number of model pages changed since it looked.
ChainChanged(snap) == ModelSize # snap

-----------------------------------------------------------------------------
Init ==
  /\ recs     = [p \in PageIds |-> [k \in Keys |-> NoVal]]
  /\ lower    = [p \in PageIds |-> IF p = 1 THEN 1 ELSE 0]
  /\ upper    = [p \in PageIds |-> IF p = 1 THEN Top ELSE 0]
  /\ ovf      = [p \in PageIds |-> NoPage]
  /\ xlatch   = [p \in PageIds |-> "none"]
  /\ model    = [b \in Keys |-> IF b = 1 THEN 1 ELSE NoPage]
  /\ nextPage = 2
  /\ flushed  = [k \in Keys |-> NoVal]
  /\ writes   = 0
  /\ pending  = {}
  /\ fw = [pc |-> "idle", key |-> 1, page |-> NoPage, snap |-> 0]
  /\ ro = [pc |-> "idle", head |-> NoPage, chain |-> <<>>, bounds |-> <<>>,
           pages |-> <<>>, step |-> 0]
  /\ rd = [r \in Readers |-> [pc |-> "idle", key |-> 1, page |-> NoPage,
                              res |-> NoVal]]

-----------------------------------------------------------------------------
(* Flush worker: resolve the page of a record through the model, then fix  *)
(* its chain exclusively and put the record, appending an overflow page    *)
(* when the last page is full, and schedule a reorganization when the      *)
(* chain has grown past the threshold.  A null chain (the model changed    *)
(* while it waited) sends the record back to be resolved again.            *)

FlushResolve(k) ==
  /\ fw.pc = "idle"
  /\ writes < MaxWrites
  /\ fw' = [pc |-> "fix", key |-> k, page |-> Lookup(k), snap |-> ModelSize]
  /\ writes' = writes + 1
  /\ UNCHANGED <<recs, lower, upper, ovf, xlatch, model, nextPage, flushed,
                 pending, ro, rd>>

FlushFix ==
  LET c    == Chain(fw.page)
      k    == fw.key
      last == c[Len(c)]
      on   == {i \in DOMAIN c : recs[c[i]][k] # NoVal}
      Schedule(len) ==
        pending' = IF len > ReorgThreshold THEN pending \cup {fw.page}
                   ELSE pending
  IN
  /\ fw.pc = "fix"
  /\ Free(c)
  /\ \/ /\ ChainChanged(fw.snap)
        /\ fw' = [fw EXCEPT !.page = Lookup(k), !.snap = ModelSize]
        /\ UNCHANGED <<recs, lower, upper, ovf, nextPage, flushed, pending>>
     \/ /\ ~ChainChanged(fw.snap)
        /\ on # {} \/ PageHasRoom(last)
        /\ LET p == IF on # {} THEN c[CHOOSE i \in on : TRUE] ELSE last
           IN  recs' = [recs EXCEPT ![p][k] = writes]
        /\ Schedule(Len(c))
        /\ fw' = [fw EXCEPT !.pc = "idle"]
        /\ flushed' = [flushed EXCEPT ![k] = writes]
        /\ UNCHANGED <<lower, upper, ovf, nextPage>>
     \/ /\ ~ChainChanged(fw.snap)
        /\ on = {} /\ ~PageHasRoom(last)
        /\ nextPage <= MaxPageId
        /\ recs'  = [recs EXCEPT ![nextPage][k] = writes]
        /\ lower' = [lower EXCEPT ![nextPage] = lower[fw.page]]
        /\ upper' = [upper EXCEPT ![nextPage] = upper[fw.page]]
        /\ ovf'   = [ovf EXCEPT ![last] = nextPage]
        /\ nextPage' = nextPage + 1
        /\ Schedule(Len(c) + 1)
        /\ fw' = [fw EXCEPT !.pc = "idle"]
        /\ flushed' = [flushed EXCEPT ![k] = writes]
  /\ UNCHANGED <<xlatch, model, writes, ro, rd>>

-----------------------------------------------------------------------------
(* Reorganization worker: ReorganizeOverflowChain(page_id, page_fill_pct). *)

ReorgStart(h) ==
  /\ ro.pc = "idle"
  /\ h \in pending
  /\ ro' = [ro EXCEPT !.pc = "fix", !.head = h]
  /\ pending' = pending \ {h}
  /\ UNCHANGED <<recs, lower, upper, ovf, xlatch, model, nextPage, flushed,
                 writes, fw, rd>>

\* Fix the chain exclusively, then either release it (a chain of one page,
\* or one longer than the fanout) or plan the split: both passes over the
\* chain run while every frame of it is held.
ReorgFix ==
  LET c   == Chain(ro.head)
      rpp == RecordsPerPage(FillPct(Len(c) * Cap, PageFillPct))
  IN
  /\ ro.pc = "fix"
  /\ Free(c)
  /\ \/ /\ Len(c) = 1
        /\ ro' = [ro EXCEPT !.pc = "idle", !.head = NoPage]
        /\ UNCHANGED xlatch
     \/ /\ Len(c) > MaxReorgFanout
        /\ ro' = [ro EXCEPT !.pc = "idle", !.head = NoPage]
        /\ UNCHANGED xlatch
     \/ /\ Len(c) \in 2..MaxReorgFanout
        /\ xlatch' = [p \in PageIds |->
                        IF \E i \in DOMAIN c : c[i] = p THEN "reorg" ELSE xlatch[p]]
        /\ ro' = [ro EXCEPT !.pc = "commit", !.chain = c,
                             !.bounds = BoundaryKeys(c, rpp),
                             !.pages = NewPages(c, rpp), !.step = 1]
  /\ UNCHANGED <<recs, lower, upper, ovf, model, nextPage, flushed, writes,
                 pending, fw, rd>>

\* One iteration of the commit loop: page i goes to chain[i], or to a newly
\* allocated page when the chain is too short; its boundary is inserted into
\* the model and the frame is unfixed.
ReorgCommit ==
  LET n     == Len(ro.pages)
      i     == CommitOrder(n)[ro.step]
      fresh == i >= Len(ro.chain)
      frame == IF fresh THEN nextPage ELSE ro.chain[i + 1]
  IN
  /\ ro.pc = "commit"
  /\ fresh => nextPage <= MaxPageId
  /\ recs'   = [recs EXCEPT ![frame] = ro.pages[i + 1]]
  /\ lower'  = [lower EXCEPT ![frame] = ro.bounds[i + 1]]
  /\ upper'  = [upper EXCEPT ![frame] = ro.bounds[i + 2]]
  /\ ovf'    = [ovf EXCEPT ![frame] = NoPage]
  /\ model'  = ModelInsert(model, ro.bounds[i + 1], frame)
  /\ xlatch' = [xlatch EXCEPT ![frame] = "none"]
  /\ nextPage' = IF fresh THEN nextPage + 1 ELSE nextPage
  /\ ro' = [ro EXCEPT !.step = @ + 1,
                       !.pc = IF ro.step = n THEN "leak" ELSE "commit"]
  /\ UNCHANGED <<flushed, writes, pending, fw, rd>>

\* Zero and unfix the frames of the old chain that received no page.
ReorgLeak ==
  LET surplus == {ro.chain[i] : i \in Len(ro.pages) + 1..Len(ro.chain)}
  IN
  /\ ro.pc = "leak"
  /\ recs'   = [p \in PageIds |-> IF p \in surplus THEN [k \in Keys |-> NoVal]
                                               ELSE recs[p]]
  /\ lower'  = [p \in PageIds |-> IF p \in surplus THEN 0 ELSE lower[p]]
  /\ upper'  = [p \in PageIds |-> IF p \in surplus THEN 0 ELSE upper[p]]
  /\ ovf'    = [p \in PageIds |-> IF p \in surplus THEN NoPage ELSE ovf[p]]
  /\ xlatch' = [p \in PageIds |-> IF p \in surplus THEN "none" ELSE xlatch[p]]
  /\ ro' = [pc |-> "idle", head |-> NoPage, chain |-> <<>>, bounds |-> <<>>,
            pages |-> <<>>, step |-> 0]
  /\ UNCHANGED <<model, nextPage, flushed, writes, pending, fw, rd>>

-----------------------------------------------------------------------------
(* Readers: resolve the page through the model, fix its chain (waiting     *)
(* while a writer holds it), and read the key if it lies inside the        *)
(* page's fences; otherwise consult the model again and retry.             *)

ReaderStart(r, k) ==
  /\ rd[r].pc = "idle"
  /\ rd' = [rd EXCEPT ![r] = [pc |-> "fix", key |-> k, page |-> Lookup(k),
                              res |-> NoVal]]
  /\ UNCHANGED <<recs, lower, upper, ovf, xlatch, model, nextPage, flushed,
                 writes, pending, fw, ro>>

ReaderFix(r) ==
  LET k == rd[r].key
      p == rd[r].page
  IN
  /\ rd[r].pc = "fix"
  /\ Free(Chain(p))
  /\ \/ /\ k \in lower[p]..upper[p] - 1
        /\ rd' = [rd EXCEPT ![r] = [@ EXCEPT !.pc = "idle", !.page = NoPage,
                                            !.res = ChainValue(Chain(p), k)]]
     \/ /\ k \notin lower[p]..upper[p] - 1
        /\ rd' = [rd EXCEPT ![r].page = Lookup(k)]
  /\ UNCHANGED <<recs, lower, upper, ovf, xlatch, model, nextPage, flushed,
                 writes, pending, fw, ro>>

-----------------------------------------------------------------------------
Next ==
  \/ \E k \in Keys : FlushResolve(k)
  \/ FlushFix
  \/ \E h \in PageIds : ReorgStart(h)
  \/ ReorgFix
  \/ ReorgCommit
  \/ ReorgLeak
  \/ \E r \in Readers, k \in Keys : ReaderStart(r, k)
  \/ \E r \in Readers : ReaderFix(r)

\* The reorganization worker runs each reorganization to completion, and a
\* reader whose chain is free is eventually scheduled.
Fairness ==
  /\ WF_vars(ReorgCommit)
  /\ WF_vars(ReorgLeak)
  /\ \A r \in Readers : WF_vars(ReaderFix(r))

Spec == Init /\ [][Next]_vars /\ Fairness

-----------------------------------------------------------------------------
(* Properties.                                                             *)

\* Every variable has its type, and no page holds more records than fit
\* (Page::Put never reports "full" on a page the reorganization fills).
TypeOK ==
  /\ recs \in [PageIds -> [Keys -> Vals \cup {NoVal}]]
  /\ \A p \in PageIds : Cardinality(KeysOn(p)) <= Cap
  /\ lower \in [PageIds -> 0..Top]
  /\ upper \in [PageIds -> 0..Top]
  /\ ovf \in [PageIds -> PageIds \cup {NoPage}]
  /\ xlatch \in [PageIds -> {"none", "reorg"}]
  /\ model \in [Keys -> PageIds \cup {NoPage}]
  /\ nextPage \in 2..MaxPageId + 1
  /\ flushed \in [Keys -> Vals \cup {NoVal}]
  /\ pending \subseteq PageIds
  /\ fw \in [pc : {"idle", "fix"}, key : Keys, page : PageIds \cup {NoPage},
             snap : 0..MaxKey]
  /\ ro.pc \in {"idle", "fix", "commit", "leak"}
  /\ Len(ro.pages) <= MaxReorgFanout
  /\ rd \in [Readers -> [pc : {"idle", "fix"}, key : Keys,
                          page : PageIds \cup {NoPage}, res : Vals \cup {NoVal}]]

\* The model and the pages agree (invariants I2 and I4): every main page
\* whose chain nobody holds carries exactly the fences [b, next boundary)
\* its model entry gives it, every page of its chain carries the same
\* fences, and every record of the chain lies inside them.  This is what
\* the backward commit loop of ReorganizeOverflowChain protects.
IndexAgreesWithPages ==
  \A b \in Bounds :
    LET p == model[b]
        c == Chain(p)
    IN  Free(c) =>
          /\ lower[p] = b
          /\ upper[p] = NextBound(b)
          /\ \A i \in DOMAIN c : /\ lower[c[i]] = b
                                /\ upper[c[i]] = upper[p]
                                /\ KeysOn(c[i]) \subseteq b..upper[p] - 1

\* No flushed write is lost or stale (P4): in every main page whose chain
\* nobody holds, each key inside the fences has, in the chain, exactly the
\* value the flush worker last wrote for it, across any number of
\* reorganizations racing with flushes.
FlushedWritesVisible ==
  \A b \in Bounds :
    LET p == model[b]
        c == Chain(p)
    IN  Free(c) =>
          \A k \in lower[p]..upper[p] - 1 : ChainValue(c, k) = flushed[k]

\* A read that completes returns the last value flushed for its key, even
\* when it resolved its page before a reorganization and waited on the
\* chain head (section 5: a reader that observes an index entry sees bytes
\* consistent with it).
ReadsReturnLatest ==
  [][\A r \in Readers :
       (rd[r].pc = "fix" /\ rd'[r].pc = "idle") =>
          rd'[r].res = flushed[rd[r].key]]_vars

\* A reader that is told to retry eventually finds its page: the model
\* comes to route every key to the page whose fences hold it.
ReadsComplete ==
  \A r \in Readers : rd[r].pc = "fix" ~> rd[r].pc = "idle"

=============================================================================
