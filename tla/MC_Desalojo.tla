---------------------------- MODULE MC_Desalojo ----------------------------
EXTENDS Desalojo
CONSTANTS p1, p2
=============================================================================
