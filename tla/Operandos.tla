----------------------------- MODULE Operandos -----------------------------
(***************************************************************************)
(* The registers of the CPU and the arithmetic on them (registro.c and     *)
(* execute.c).  AX..DX are one byte wide, the others ANCHO bytes; memory   *)
(* holds them least significant byte first.                                *)
(***************************************************************************)
EXTENDS Integers, Sequences, SequencesExt

CONSTANTS
  BYTE,    \* values of a byte: 256
  ANCHO    \* bytes of a uint32_t: 4

ASSUME OperandosOK == BYTE \in Nat \ {0, 1} /\ ANCHO \in Nat \ {0}

es8int(r) == r \in {"ax", "bx", "cx", "dx"}
tam_registro(r) == IF es8int(r) THEN 1 ELSE ANCHO

\* The weight of a byte among those of a number: BYTE ^ n.
Peso[n \in 0 .. ANCHO] == IF n = 0 THEN 1 ELSE BYTE * Peso[n - 1]

Modulo(r) == Peso[tam_registro(r)]

exec_set(regs, r, valor) == [regs EXCEPT ![r] = valor % Modulo(r)]

\* Defect: the sum of two one-byte registers keeps its carry.
exec_sum_ConAcarreo(regs, d, o) == [regs EXCEPT ![d] = @ + regs[o]]

\* The destination's width decides, whatever the origin's.
exec_sum(regs, d, o) == [regs EXCEPT ![d] = (@ + regs[o]) % Modulo(d)]
exec_sub(regs, d, o) == [regs EXCEPT ![d] = (@ - regs[o]) % Modulo(d)]

\* A register as memory sees it, and back.
EnBytes(valor, r) == [k \in 1 .. tam_registro(r) |-> (valor \div Peso[k - 1]) % BYTE]
DeBytes(bytes) == FoldRight(LAMBDA b, alto : b + BYTE * alto, bytes, 0)

=============================================================================
