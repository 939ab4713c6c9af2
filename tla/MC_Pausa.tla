------------------------------ MODULE MC_Pausa ------------------------------
EXTENDS Pausa
CONSTANTS largo, corto, io
=============================================================================
