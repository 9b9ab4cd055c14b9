------------------------------ MODULE PageStore ------------------------------
(***************************************************************************)
(* What the page variant of the segment manager promises its callers       *)
(* (spec section 4.7 and property P4): a map from keys to their newest     *)
(* version, where every write of a batch (an overflow write or a           *)
(* FlattenChain) installs all its records at once under the next version   *)
(* and changes no other key.                                               *)
(***************************************************************************)
EXTENDS Naturals

CONSTANTS Keys, NoVal

VARIABLES store,  \* store[k]: the version a read of k returns, or NoVal
          ver     \* versions handed out so far

\* A batch write: every key keeps its version or takes the new one.
Write ==
  LET new == store' IN
  /\ new \in [Keys -> {NoVal} \cup Nat]
  /\ \A k \in Keys : new[k] \in {store[k], ver + 1}
  /\ ver' = ver + 1

Init ==
  /\ store \in [Keys -> {0, NoVal}]
  /\ ver = 0

Next == Write

Spec == Init /\ [][Next]_<<store, ver>>

=============================================================================
