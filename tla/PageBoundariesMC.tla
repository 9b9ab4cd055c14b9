-------------------------- MODULE PageBoundariesMC --------------------------
(* Models for ComputePageLowerBoundaries: one page per key, three keys per *)
(* page, and two lines with a negative intercept, whose inverse is not an  *)
(* integer at every page; and a line with a positive intercept.           *)
EXTENDS PageBoundaries

MCLines ==
  { [sn |-> 1, sd |-> 1, cn |-> 0],
    [sn |-> 1, sd |-> 3, cn |-> 0],
    [sn |-> 2, sd |-> 5, cn |-> -1],
    [sn |-> 3, sd |-> 4, cn |-> -2] }

\* A line with a positive intercept: the base key sits a third of the way
\* into page 0, and the inverse of page 0 is the key before the base.
MCLinesPositive == { [sn |-> 1, sd |-> 3, cn |-> 1] }
=============================================================================
