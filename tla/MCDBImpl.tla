------------------------------ MODULE MCDBImpl ------------------------------
(* Instances of DBImpl for TLC. *)
EXTENDS DBImpl, TLC

Put(k) == [type |-> kTypeValue, key |-> k]
Del(k) == [type |-> kTypeDeletion, key |-> k]

TwoKeys == {1, 2}
SmallRequests == {[batch |-> << Put(1) >>, sync |-> TRUE],
                  [batch |-> << Del(1), Put(2) >>, sync |-> FALSE]}
ThreeKeys == {1, 2, 3}
SinglePuts == {[batch |-> << Put(k) >>, sync |-> TRUE] : k \in ThreeKeys}
WholeRange == {<< NULL, NULL >>}
ThreadSymmetry == Permutations(Threads)
=============================================================================
