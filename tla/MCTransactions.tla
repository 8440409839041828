--------------------------- MODULE MCTransactions ---------------------------
\* Instances of Transactions for TLC: a chain of two nodes below the root, and
\* a node with two children.
EXTENDS Transactions

Chain == {<<>>, <<"a">>, <<"a", "b">>}

Siblings == {<<>>, <<"a">>, <<"b">>}
=============================================================================
