----------------------- MODULE MCPersistentConnection -----------------------
(* Small instances of PersistentConnection. *)
EXTENDS PersistentConnection

\* One query, and two queries at one path (the case listen revocation groups).
OneQuery == {<<"a", "default">>}
TwoQueries == {<<"a", "default">>, <<"a", "limit">>}
=============================================================================
