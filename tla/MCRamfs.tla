------------------------------ MODULE MCRamfs ------------------------------
(* Instances of Ramfs for TLC. *)
EXTENDS Ramfs

\* Names at the root and in one directory.
TreePaths == {<<"a">>, <<"b">>, <<"b", "a">>}
OnePath == {<<"a">>}

TreeFlags == {{}, {"O_CREAT"}}
DataFlags == {{"O_CREAT"}, {"O_TRUNC"}, {"O_CREAT", "O_APPEND"}, {"O_TRUNC", "O_APPEND"}}

NoPayloads == {}
NoDeltas == {}
\* Writes that add nothing, fit, and outgrow the buffer.
DataPayloads == {<<>>, <<1>>, <<1, 0>>}
OnePayload == {<<1>>}
DataDeltas == {-1, 0, 1}

=============================================================================
