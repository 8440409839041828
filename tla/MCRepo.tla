------------------------------- MODULE MCRepo -------------------------------
(***************************************************************************)
(* Small instances of what works on the serial queue of a database: the    *)
(* persistent connection, and the transactions of the repo that uses it.   *)
(* part says which of them a behaviour is of; Transactions describes the   *)
(* connection by the answers it owes.                                      *)
(***************************************************************************)
EXTENDS MCPersistentConnection, Transactions

VARIABLE part

MCVars == << part, vars, transactionsVars >>

\* A node with two children.
Siblings == {<< >>, << "a" >>, << "b" >>}

MCInit == part \in {"connection", "transactions"} /\ Init /\ TransactionsInit

MCNext ==
    \/ part = "connection" /\ Next /\ UNCHANGED << part, transactionsVars >>
    \/ part = "transactions" /\ TransactionsNext /\ UNCHANGED << part, vars >>

MCSpec == MCInit /\ [][MCNext]_MCVars
=============================================================================
