------------------------------- MODULE Puerta -------------------------------
(***************************************************************************)
(* What the pause of the scheduling promises: a thread that reaches the    *)
(* gate goes through it only while the scheduling is active.  This is the  *)
(* gate that the module Kernel uses.                                       *)
(***************************************************************************)
CONSTANT Hilos

VARIABLES activa, lugar

Init ==
  /\ activa = TRUE
  /\ lugar = [h \in Hilos |-> "puerta"]

Llega(h) ==
  /\ lugar[h] = "paso"
  /\ lugar' = [lugar EXCEPT ![h] = "puerta"]
  /\ UNCHANGED activa

Pasa(h) ==
  /\ lugar[h] = "puerta" /\ activa
  /\ lugar' = [lugar EXCEPT ![h] = "paso"]
  /\ UNCHANGED activa

Detener == activa' = FALSE /\ UNCHANGED lugar

Reanudar == activa' = TRUE /\ UNCHANGED lugar

Next ==
  \/ Detener
  \/ Reanudar
  \/ \E h \in Hilos : Llega(h) \/ Pasa(h)

Spec == Init /\ [][Next]_<<activa, lugar>>
=============================================================================
