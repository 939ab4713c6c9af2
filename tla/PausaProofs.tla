---------------------------- MODULE PausaProofs ----------------------------
(***************************************************************************)
(* Proofs about Pausa, for any set of threads and any sequence of          *)
(* commands: the mutex, the flag and the semaphore of                      *)
(* detener_planificacion.c implement the one-step gate of Puerta, and no   *)
(* wake-up is lost.                                                        *)
(***************************************************************************)
EXTENDS Pausa, TLAPS

\* The inductive invariant: a thread between the lock and the unlock is the
\* only one there, so nobody clears the flag or takes its post meanwhile.
IndInv ==
  /\ TypeOK
  /\ MutexExclusivo
  /\ SaleConLaPlanificacionActiva
  /\ AvisoPendiente

LEMMA InvInicial == Init => IndInv
  BY PausaOK DEF Init, IndInv, TypeOK, MutexExclusivo,
                 SaleConLaPlanificacionActiva, AvisoPendiente

-----------------------------------------------------------------------------
(***************************************************************************)
(* One lemma per side of the gate.                                         *)
(***************************************************************************)
LEMMA PasoDeHilo ==
  ASSUME IndInv, NEW h \in Hilos, EsperarPlanificacion(h) \/ Llega(h)
  PROVE  IndInv'
  <1> USE PausaOK DEF IndInv, TypeOK, MutexExclusivo,
                      SaleConLaPlanificacionActiva, AvisoPendiente, HiloVa
  <1>1. CASE Bloquea(h)
    BY <1>1 DEF Bloquea
  <1>2. CASE Revisa(h)
    BY <1>2 DEF Revisa
  <1>3. CASE Espera(h)
    BY <1>3 DEF Espera
  <1>4. CASE Desbloquea(h)
    BY <1>4 DEF Desbloquea
  <1>5. CASE Llega(h)
    BY <1>5 DEF Llega
  <1>6. QED
    BY <1>1, <1>2, <1>3, <1>4, <1>5 DEF EsperarPlanificacion

LEMMA PasoDeConsola ==
  ASSUME IndInv, Consola
  PROVE  IndInv'
  <1> USE PausaOK DEF IndInv, TypeOK, MutexExclusivo,
                      SaleConLaPlanificacionActiva, AvisoPendiente, ConsolaVa
  <1>1. CASE PideDetener
    BY <1>1 DEF PideDetener
  <1>2. CASE ConsolaBloquea
    BY <1>2 DEF ConsolaBloquea
  <1>3. CASE Apaga
    BY <1>3 DEF Apaga
  <1>4. CASE ConsolaDesbloquea
    BY <1>4 DEF ConsolaDesbloquea
  <1>5. CASE Enciende
    BY <1>5 DEF Enciende
  <1>6. CASE Avisa
    BY <1>6 DEF Avisa
  <1>7. QED
    BY <1>1, <1>2, <1>3, <1>4, <1>5, <1>6 DEF Consola

\* The four invariants of Pausa hold together in every reachable state.
THEOREM Invariante == Spec => []IndInv
  <1>1. IndInv /\ [Next]_vars => IndInv'
    <2> SUFFICES ASSUME IndInv, [Next]_vars PROVE IndInv'
      OBVIOUS
    <2>1. CASE Consola
      BY <2>1, PasoDeConsola
    <2>2. CASE \E h \in Hilos : EsperarPlanificacion(h) \/ Llega(h)
      BY <2>2, PasoDeHilo
    <2>3. CASE UNCHANGED vars
      BY <2>3 DEF vars, IndInv, TypeOK, MutexExclusivo,
                  SaleConLaPlanificacionActiva, AvisoPendiente
    <2>4. QED
      BY <2>1, <2>2, <2>3 DEF Next
  <1>2. QED
    BY InvInicial, <1>1, PTL DEF Spec

\* mutex_planificacion_activa excludes, sem_wait included.
THEOREM ExclusionMutua == Spec => []MutexExclusivo
  BY Invariante, PTL DEF IndInv

\* A thread leaves esperar_planificacion only while the scheduling is active.
THEOREM SalidaActiva == Spec => []SaleConLaPlanificacionActiva
  BY Invariante, PTL DEF IndInv

\* reanudar_planificacion leaves no thread asleep without a post.
THEOREM NingunAvisoPerdido == Spec => []AvisoPendiente
  BY Invariante, PTL DEF IndInv

-----------------------------------------------------------------------------
(***************************************************************************)
(* The refinement: only the unlock is seen from outside as going through   *)
(* the gate.                                                               *)
(***************************************************************************)
LEMMA PasoVisto ==
  ASSUME IndInv, [Next]_vars
  PROVE  [P!Next]_<<planificacion_activada, [h \in Hilos |-> LugarDe(h)]>>
  <1> DEFINE Lugar == [h \in Hilos |-> LugarDe(h)]
  <1>1. CASE Consola
    <2>1. UNCHANGED Lugar
      BY <1>1 DEF Consola, PideDetener, ConsolaBloquea, Apaga, ConsolaDesbloquea,
                  Enciende, Avisa, LugarDe
    <2>2. planificacion_activada' = FALSE \/ planificacion_activada' = TRUE
          \/ UNCHANGED planificacion_activada
      BY <1>1 DEF Consola, PideDetener, ConsolaBloquea, Apaga, ConsolaDesbloquea,
                  Enciende, Avisa
    <2>3. QED
      BY <2>1, <2>2 DEF P!Next, P!Detener, P!Reanudar
  <1>2. ASSUME NEW h \in Hilos, Bloquea(h) \/ Revisa(h) \/ Espera(h)
        PROVE  UNCHANGED <<planificacion_activada, Lugar>>
    BY <1>2 DEF IndInv, TypeOK, Bloquea, Revisa, Espera, HiloVa, LugarDe
  <1>3. ASSUME NEW h \in Hilos, Desbloquea(h)
        PROVE  P!Pasa(h)
    <2>1. planificacion_activada
      BY <1>3 DEF IndInv, SaleConLaPlanificacionActiva, Desbloquea, HiloVa
    <2>2. Lugar[h] = "puerta" /\ Lugar' = [Lugar EXCEPT ![h] = "paso"]
      BY <1>3 DEF IndInv, TypeOK, Desbloquea, HiloVa, LugarDe
    <2>3. QED
      BY <1>3, <2>1, <2>2 DEF P!Pasa, Desbloquea
  <1>4. ASSUME NEW h \in Hilos, Llega(h)
        PROVE  P!Llega(h)
    <2>1. Lugar[h] = "paso" /\ Lugar' = [Lugar EXCEPT ![h] = "puerta"]
      BY <1>4 DEF IndInv, TypeOK, Llega, HiloVa, LugarDe
    <2>2. QED
      BY <1>4, <2>1 DEF P!Llega, Llega
  <1>5. CASE UNCHANGED vars
    BY <1>5 DEF vars, LugarDe
  <1>6. QED
    BY <1>1, <1>2, <1>3, <1>4, <1>5 DEF Next, EsperarPlanificacion, P!Next

\* detener_planificacion.c, lock by lock, implements the gate that module
\* Kernel uses as one step.
THEOREM Refinamiento == Spec => ImplementaPuerta
  <1>1. Init => P!Init
    BY DEF Init, P!Init, LugarDe
  <1>2. QED
    BY <1>1, Invariante, PasoVisto, PTL DEF Spec, ImplementaPuerta, P!Spec

\* The flag, the mutex and the semaphore keep their types and every thread is
\* at one of the steps of the gate, however the commands of the console and the
\* threads interleave (detener_planificacion.c).
THEOREM Tipos == Spec => []TypeOK
  BY Invariante, PTL DEF IndInv
=============================================================================
