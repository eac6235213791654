------------------------------ MODULE MCFat32 ------------------------------
(* An instance of Fat32 for TLC. *)
EXTENDS Fat32

\* Names at the root and in one directory.
MCPaths == {<<"a">>, <<"a", "b">>}
MCDirPaths == {<<"a">>}

=============================================================================
