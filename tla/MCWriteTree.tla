---------------------------- MODULE MCWriteTree ----------------------------
(***************************************************************************)
(* The write tree by itself, over a grandchild and a child of the root.    *)
(***************************************************************************)
EXTENDS WriteTree

TwoLeaves == {<< "a", "b" >>, << "d" >>}
=============================================================================
