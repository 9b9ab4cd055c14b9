---------------------------- MODULE MemTableSpec ----------------------------
(***************************************************************************)
(* What the MemTable promises (spec section 4.1, property P1): a map from  *)
(* keys to the last write, where a Delete leaves a tombstone that Get      *)
(* reports as (Delete, empty) rather than NotFound.                        *)
(***************************************************************************)
CONSTANTS Keys, Values, NotFound, Empty

VARIABLES db,   \* db[k]: the last write of k, or NotFound
          out   \* the result of the last Get: [key, res]

Entry == [type : {"write", "delete"}, value : Values \cup {Empty}]

Put(k, v) ==
  /\ db' = [db EXCEPT ![k] = [type |-> "write", value |-> v]]
  /\ UNCHANGED out

Delete(k) ==
  /\ db' = [db EXCEPT ![k] = [type |-> "delete", value |-> Empty]]
  /\ UNCHANGED out

Get(k) ==
  /\ out' = [key |-> k, res |-> db[k]]
  /\ UNCHANGED db

Init ==
  /\ db = [k \in Keys |-> NotFound]
  /\ out = [key |-> NotFound, res |-> NotFound]

Next == \E k \in Keys : \/ \E v \in Values : Put(k, v)
                        \/ Delete(k)
                        \/ Get(k)

Spec == Init /\ [][Next]_<<db, out>>

=============================================================================
