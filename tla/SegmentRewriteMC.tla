-------------------------- MODULE SegmentRewriteMC --------------------------
(***************************************************************************)
(* Databases for checking SegmentRewrite.  Every segment's base is the key *)
(* of its first record, as LoadIntoNewSegment makes it, and every page     *)
(* with an overflow page is full.                                          *)
(***************************************************************************)
EXTENDS SegmentRewrite

\* Three one-page segments, the first two with an overflow page: a rewrite
\* of either takes the other as a neighbour and stops at the third.
ThreeSegments ==
  << [base |-> 1, pages |-> << [main |-> {1}, ovf |-> {2}] >>],
     [base |-> 3, pages |-> << [main |-> {3}, ovf |-> {4}] >>],
     [base |-> 5, pages |-> << [main |-> {5}, ovf |-> NoOvf] >>] >>

\* A two-page segment whose first page overflows, then an overflowing
\* one-page segment: five window slots in all.
TwoPageFirst ==
  << [base |-> 1, pages |-> << [main |-> {1}, ovf |-> {2}],
                               [main |-> {3}, ovf |-> NoOvf] >>],
     [base |-> 4, pages |-> << [main |-> {4}, ovf |-> {5}] >>] >>

\* Two overflowing one-page segments with key 3 absent between them: a
\* batch for the first segment may insert it.
GapBetween ==
  << [base |-> 1, pages |-> << [main |-> {1}, ovf |-> {2}] >>],
     [base |-> 4, pages |-> << [main |-> {4}, ovf |-> {5}] >>] >>

Setup(L, cap, nb, bg) == [layout |-> L, data |-> {}, cap |-> cap, neighbors |-> nb, bg |-> bg]

\* A bulk load of dataset D.
Bulk(D, cap, nb, bg) == [layout |-> <<>>, data |-> D, cap |-> cap, neighbors |-> nb, bg |-> bg]

\* A two-slot window with neighbours, so that the builder is flushed before
\* a segment is read, with and without a key missing between the
\* segments; and without neighbours, so that a second rewrite takes the
\* ids the first freed, with zeroing on the pool and synchronous.
SetupsRecords ==
  { Setup(ThreeSegments, 2, TRUE, TRUE), Setup(GapBetween, 2, TRUE, TRUE),
    Setup(ThreeSegments, 2, FALSE, TRUE), Setup(ThreeSegments, 2, FALSE, FALSE),
    Bulk({1, 2, 4}, 8, TRUE, TRUE), Bulk({1, 3, 4, 5}, 8, FALSE, FALSE) }

\* A two-page segment through a four-slot window; synchronous zeroing.
SetupsWindow == {Setup(TwoPageFirst, 4, TRUE, FALSE)}

\* The gap layout with neighbours and the pool.
SetupsGap == {Setup(GapBetween, 2, TRUE, TRUE)}

\* One segment at a time, synchronous zeroing.
SetupsSync == {Setup(ThreeSegments, 2, FALSE, FALSE)}

=============================================================================
