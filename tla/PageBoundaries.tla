--------------------------- MODULE PageBoundaries ---------------------------
(***************************************************************************)
(* ComputePageLowerBoundaries (manager_load.cc:112-174): the smallest key  *)
(* of every page of a segment, found by a binary search over the key      *)
(* domain (std::lower_bound over KeyDomainIterator, lines 56-91) inside a  *)
(* bracket taken from the inverted model.                                  *)
(*                                                                         *)
(* Keys and size_t are W-bit unsigned integers (both are 64-bit in the     *)
(* code).  A model line is position(x) = (sn * x + cn) / sd pages for      *)
(* x = key - base; its inverse is key(y) = (sd * y - cn) / sn.  The        *)
(* double evaluation of the inverse may drift by less than one key, and    *)
(* the cast of a negative double to Key is undefined: both are             *)
(* nondeterministic choices over what the build can produce.               *)
(***************************************************************************)
EXTENDS Integers, Sequences, FiniteSets

CONSTANTS
  W,           \* bits of Key and size_t
  BaseKeys,    \* segment base keys
  Lines,       \* models [sn, sd, cn] the SegmentBuilder may fit
  PageCounts   \* segment page counts

M == 2^W

VARIABLES
  seg,      \* the Segment: [base, line, count]
  idx,      \* page_idx of the loop
  bounds,   \* lower_boundaries
  bracket   \* <<lower, upper>> of the last iteration

vars == <<seg, idx, bounds, bracket>>

-----------------------------------------------------------------------------
\* Key arithmetic wraps at 2^W.
KeyAdd(a, b) == (a + b) % M
KeySub(a, b) == (a - b) % M

\* PageForKey(base_key, model, page_count, key): the model applied to
\* key - base_key, truncated and clamped to the segment's pages.
PageForKey(s, k) ==
  LET p == s.line.sn * KeySub(k, s.base) + s.line.cn
  IN  IF p < 0 THEN 0
      ELSE IF p \div s.line.sd > s.count - 1 THEN s.count - 1 ELSE p \div s.line.sd

\* The values static_cast<Key>(page_to_key(i)) may take.  The exact
\* inverse q = num / sn is computed in doubles: an integer q may come out
\* just below itself and truncate to q - 1; a q at least 1/sn away from an
\* integer truncates to its floor.  A negative double has no Key value:
\* x86-64 truncates towards zero and wraps, other targets saturate at 0.
PageToKeyCast(s, i) ==
  LET num == s.line.sd * i - s.line.cn
      sn  == s.line.sn
  IN  IF num >= 0
      THEN IF num % sn = 0 /\ num > 0 THEN {num \div sn, num \div sn - 1}
           ELSE {num \div sn}
      ELSE {(-((-num) \div sn)) % M, 0}

\* Mutant: the iterator is not advanced past a key that maps too low.
RECURSIVE LowerBoundNoAdvance(_, _, _, _)
LowerBoundNoAdvance(s, first, count, i) ==
  IF count = 0 THEN first
  ELSE LET step == count \div 2
           it   == KeyAdd(first, step)
       IN  IF PageForKey(s, it) < i
           THEN LowerBoundNoAdvance(s, it, count - step - 1, i)
           ELSE LowerBoundNoAdvance(s, first, step, i)

\* std::lower_bound(lower_it, upper_it, page_idx, comp) over the key
\* domain: count = upper - lower (a size_t), halved each step; comp is
\* PageForKey(key) < page_idx.
RECURSIVE LowerBound(_, _, _, _)
LowerBound(s, first, count, i) ==
  IF count = 0 THEN first
  ELSE LET step == count \div 2
           it   == KeyAdd(first, step)
       IN  IF PageForKey(s, it) < i
           THEN LowerBound(s, KeyAdd(it, 1), count - step - 1, i)
           ELSE LowerBound(s, first, step, i)

\* Mutant: the candidate is always taken as the upper end of the search.
BracketCandidateAbove(s, i, cand, below, above) == <<KeyAdd(below, s.base), cand>>

\* Step 2: the candidate is an upper bound of the search when it already
\* maps to page_idx or later, else a lower bound.
Bracket(s, i, cand, below, above) ==
  IF PageForKey(s, cand) >= i THEN <<KeyAdd(below, s.base), cand>>
  ELSE <<cand, KeyAdd(above, s.base)>>

\* Mutant: the loop runs once too often.
MoreBoundariesInclusive == idx <= seg.count

\* for (page_idx = 1; page_idx < seg.page_count; ++page_idx)
MoreBoundaries == idx < seg.count

\* The smallest key of the segment's range that the model puts on page i.
RefBoundary(s, i) ==
  LET ks == {k \in s.base..M - 1 : PageForKey(s, k) = i}
  IN  CHOOSE k \in ks : \A x \in ks : k <= x

\* A segment the builder may emit: every page has a key inside the domain.
Segments ==
  {s \in [base : BaseKeys, line : Lines, count : PageCounts] :
     \A i \in 0..s.count - 1 : \E k \in s.base..M - 1 : PageForKey(s, k) = i}

Init ==
  /\ seg \in Segments
  /\ idx = 1
  /\ bounds = <<seg.base>>
  /\ bracket = <<>>

\* One iteration of the loop: the candidate from the inverted model, the
\* bracket, the search.
ComputeBoundary ==
  /\ MoreBoundaries
  /\ \E c \in PageToKeyCast(seg, idx), b \in PageToKeyCast(seg, idx - 1),
        a \in PageToKeyCast(seg, idx + 1) :
       LET br == Bracket(seg, idx, KeyAdd(c, seg.base), b, a)
       IN  /\ bracket' = br
           /\ bounds' = Append(bounds,
                               LowerBound(seg, br[1], KeySub(br[2], br[1]), idx))
  /\ idx' = idx + 1
  /\ UNCHANGED seg

Next == ComputeBoundary

Spec == Init /\ [][Next]_vars

-----------------------------------------------------------------------------
(* Properties.                                                             *)

\* Types; the function never returns more boundaries than pages
\* (assert lower_boundaries.size() == seg.page_count, line 172).
TypeOK ==
  /\ seg \in Segments
  /\ bounds \in Seq(0..M - 1)
  /\ Len(bounds) = idx
  /\ idx <= seg.count

\* Spec P5 and the asserts at lines 151 and 162-168, whatever the
\* drift of the inverted model: the bracket is ordered, and every boundary
\* is the smallest key of the segment that maps to its page, so the
\* boundaries strictly increase.
BoundariesArePageStarts ==
  /\ bracket # <<>> => bracket[1] < bracket[2]
  /\ \A j \in 2..Len(bounds) :
       /\ bounds[j] = RefBoundary(seg, j - 1)
       /\ bounds[j - 1] < bounds[j]

=============================================================================
