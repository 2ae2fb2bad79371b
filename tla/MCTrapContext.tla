--------------------------- MODULE MCTrapContext ---------------------------
(* TrapContext for TLC. *)
EXTENDS TrapContext

CONSTANT Versions   \* distinct register files of the user programs

UserWords == {<<"user", n>> : n \in Versions}
Returned == {<<"result", 0>>}

(* All registers of a file hold one version, a0 that or a result. *)
Register(n, v) == [r \in Regs |-> IF r = "a0" THEN v ELSE <<"user", n>>]
ProgramFiles ==
    {Register(n, v) : n \in Versions, v \in UserWords \cup Returned}

=============================================================================
