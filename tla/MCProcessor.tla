----------------------------- MODULE MCProcessor -----------------------------
(***************************************************************************)
(* Small instances of Processor for TLC: three architectural registers, a  *)
(* pipeline two instructions wide, and every program of a bounded length   *)
(* over a small pool of instructions.                                      *)
(***************************************************************************)
EXTENDS Processor

CONSTANT MAX_PROGRAM    \* longest program

Op(type, dest, opA, opB) == [type |-> type, dest |-> dest, opA |-> opA, opB |-> opB]

\* x0 is 0 until the mulu writes it, so that both divisions fault or not
\* depending on what was computed before; the pool has chains of dependencies,
\* an instruction that reads and writes one register, and reuses of a register.
Pool == { Op("addi", 1, 0, 3),
          Op("add",  2, 1, 1),
          Op("sub",  1, 2, 1),
          Op("mulu", 0, 1, 2),
          Op("divu", 2, 1, 0),
          Op("remu", 1, 1, 2) }

MCPrograms == UNION { [1 .. n -> Pool] : n \in 0 .. MAX_PROGRAM }
=============================================================================
