----------------------------- MODULE MC_Kernel -----------------------------
EXTENDS Kernel
CONSTANTS GEN, RA
Instancias1 == [r \in Recursos |-> 1]
=============================================================================
