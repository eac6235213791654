---------------------------- MODULE MCFdTable ----------------------------
(* Instances of FdTable for TLC. *)
EXTENDS FdTable

CONSTANTS f1

MCFiles == {f1}

\* Descriptor runs: every flag combination that changes control.
MCOpenFlags == {{}, {"O_CLOEXEC"}}
MCPipeFlags == {{}, {"O_CLOEXEC"}}
MCSetflArgs == {{"O_WRONLY", "O_CLOEXEC"}}
MCSetfdArgs == BOOLEAN
NoPayloads == {}

\* Data runs: two byte values, writes that fit, fill and overflow the ring.
NoCloexec == {FALSE}
NoFlags == {{}}
MCByte == {0, 1}
MCPayloads == {<<0>>, <<1, 0>>, <<0, 1, 1>>}

=============================================================================
