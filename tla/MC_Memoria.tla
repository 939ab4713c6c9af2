----------------------------- MODULE MC_Memoria -----------------------------
EXTENDS Memoria
=============================================================================
