------------------------------- MODULE Pausa -------------------------------
(***************************************************************************)
(* detener_planificacion.c, lock by lock: the flag, the mutex and the      *)
(* semaphore with which the console stops and resumes the threads of the   *)
(* kernel.  The threads are the schedulers and the escuchar_io and         *)
(* resource threads of module Kernel; here they do nothing but reach the   *)
(* gate again and again.                                                   *)
(***************************************************************************)
EXTENDS Integers

CONSTANTS
  Hilos,      \* the threads that call esperar_planificacion
  Comandos,   \* the commands the operator may give
  MaxAvisos,  \* bound: posts of sem_planificacion_activa not yet consumed
  Nadie       \* no thread holds the mutex

ASSUME PausaOK ==
  /\ Comandos \subseteq {"INICIAR_PLANIFICACION", "DETENER_PLANIFICACION"}
  /\ MaxAvisos \in Nat \ {0}
  /\ Nadie \notin Hilos
  /\ "consola" \notin Hilos \cup {Nadie}

VARIABLES
  planificacion_activada,
  mutex,                     \* the holder of mutex_planificacion_activa
  sem_planificacion_activa,
  hilo,                      \* where each thread is
  consola                    \* where the console is

vars == <<planificacion_activada, mutex, sem_planificacion_activa, hilo, consola>>

Init ==
  /\ planificacion_activada = TRUE
  /\ mutex = Nadie
  /\ sem_planificacion_activa = 0
  /\ hilo = [h \in Hilos |-> "lock"]
  /\ consola = "leer"

HiloVa(h, desde, hasta) ==
  /\ hilo[h] = desde
  /\ hilo' = [hilo EXCEPT ![h] = hasta]

ConsolaVa(desde, hasta) == consola = desde /\ consola' = hasta

-----------------------------------------------------------------------------
(***************************************************************************)
(* esperar_planificacion                                                   *)
(***************************************************************************)
\* Defect: the flag is read without the mutex.
Bloquea_SinMutex(h) ==
  /\ HiloVa(h, "lock", "revisa")
  /\ UNCHANGED <<planificacion_activada, mutex, sem_planificacion_activa, consola>>

Bloquea(h) ==
  /\ HiloVa(h, "lock", "revisa")
  /\ mutex = Nadie
  /\ mutex' = h
  /\ UNCHANGED <<planificacion_activada, sem_planificacion_activa, consola>>

Revisa(h) ==
  /\ HiloVa(h, "revisa", IF planificacion_activada THEN "unlock" ELSE "espera")
  /\ UNCHANGED <<planificacion_activada, mutex, sem_planificacion_activa, consola>>

\* Defect: an `if' where the code has a `while'.
Espera_SinRevisar(h) ==
  /\ HiloVa(h, "espera", "unlock")
  /\ sem_planificacion_activa > 0
  /\ sem_planificacion_activa' = sem_planificacion_activa - 1
  /\ UNCHANGED <<planificacion_activada, mutex, consola>>

\* Defect: the wait does not block.
Espera_SinBloquear(h) ==
  /\ HiloVa(h, "espera", "revisa")
  /\ sem_planificacion_activa' = sem_planificacion_activa - 1
  /\ UNCHANGED <<planificacion_activada, mutex, consola>>

\* The mutex stays locked while the thread sleeps.
Espera(h) ==
  /\ HiloVa(h, "espera", "revisa")
  /\ sem_planificacion_activa > 0
  /\ sem_planificacion_activa' = sem_planificacion_activa - 1
  /\ UNCHANGED <<planificacion_activada, mutex, consola>>

\* Defect: the mutex is not unlocked.
Desbloquea_SinUnlock(h) ==
  /\ HiloVa(h, "unlock", "paso")
  /\ UNCHANGED <<planificacion_activada, mutex, sem_planificacion_activa, consola>>

Desbloquea(h) ==
  /\ HiloVa(h, "unlock", "paso")
  /\ mutex' = Nadie
  /\ UNCHANGED <<planificacion_activada, sem_planificacion_activa, consola>>

EsperarPlanificacion(h) == Bloquea(h) \/ Revisa(h) \/ Espera(h) \/ Desbloquea(h)

\* The thread did its step and is back at the gate.
Llega(h) ==
  /\ HiloVa(h, "paso", "lock")
  /\ UNCHANGED <<planificacion_activada, mutex, sem_planificacion_activa, consola>>

-----------------------------------------------------------------------------
(***************************************************************************)
(* detener_planificacion and reanudar_planificacion, called by the console *)
(***************************************************************************)
PideDetener ==
  /\ "DETENER_PLANIFICACION" \in Comandos
  /\ ConsolaVa("leer", "lock")
  /\ UNCHANGED <<planificacion_activada, mutex, sem_planificacion_activa, hilo>>

\* Defect: the flag is cleared without the mutex.
ConsolaBloquea_SinMutex ==
  /\ ConsolaVa("lock", "apaga")
  /\ UNCHANGED <<planificacion_activada, mutex, sem_planificacion_activa, hilo>>

ConsolaBloquea ==
  /\ ConsolaVa("lock", "apaga")
  /\ mutex = Nadie
  /\ mutex' = "consola"
  /\ UNCHANGED <<planificacion_activada, sem_planificacion_activa, hilo>>

Apaga ==
  /\ ConsolaVa("apaga", "unlock")
  /\ planificacion_activada' = FALSE
  /\ UNCHANGED <<mutex, sem_planificacion_activa, hilo>>

ConsolaDesbloquea ==
  /\ ConsolaVa("unlock", "leer")
  /\ mutex' = Nadie
  /\ UNCHANGED <<planificacion_activada, sem_planificacion_activa, hilo>>

\* An active scheduling is left alone.  The flag is set without the mutex.
Enciende ==
  /\ "INICIAR_PLANIFICACION" \in Comandos
  /\ ~planificacion_activada /\ sem_planificacion_activa < MaxAvisos
  /\ ConsolaVa("leer", "post")
  /\ planificacion_activada' = TRUE
  /\ UNCHANGED <<mutex, sem_planificacion_activa, hilo>>

\* Defect: no post at all.
Avisa_SinPost ==
  /\ ConsolaVa("post", "leer")
  /\ UNCHANGED <<planificacion_activada, mutex, sem_planificacion_activa, hilo>>

Avisa ==
  /\ ConsolaVa("post", "leer")
  /\ sem_planificacion_activa' = sem_planificacion_activa + 1
  /\ UNCHANGED <<planificacion_activada, mutex, hilo>>

Consola ==
  \/ PideDetener
  \/ ConsolaBloquea
  \/ Apaga
  \/ ConsolaDesbloquea
  \/ Enciende
  \/ Avisa

Next ==
  \/ Consola
  \/ \E h \in Hilos : EsperarPlanificacion(h) \/ Llega(h)

Spec == Init /\ [][Next]_vars

\* A thread inside the gate goes on if it can, and so does a command under
\* way; nobody makes a thread come back, nor the operator type.
SpecJusta ==
  /\ Spec
  /\ \A h \in Hilos : WF_vars(EsperarPlanificacion(h))
  /\ WF_vars(ConsolaBloquea \/ Apaga \/ ConsolaDesbloquea \/ Avisa)

-----------------------------------------------------------------------------
\* Type invariant.
TypeOK ==
  /\ planificacion_activada \in BOOLEAN
  /\ mutex \in Hilos \cup {"consola", Nadie}
  /\ sem_planificacion_activa \in Nat
  /\ hilo \in [Hilos -> {"lock", "revisa", "espera", "unlock", "paso"}]
  /\ consola \in {"leer", "lock", "apaga", "unlock", "post"}

\* mutex_planificacion_activa protects the code between its lock and its
\* unlock, sem_wait included: whoever is there, and nobody else, holds it.
MutexExclusivo ==
  /\ \A h \in Hilos : hilo[h] \in {"revisa", "espera", "unlock"} <=> mutex = h
  /\ consola \in {"apaga", "unlock"} <=> mutex = "consola"

\* What a thread saw under the mutex still holds when it leaves the gate:
\* only detener_planificacion clears the flag, and it needs the mutex.
SaleConLaPlanificacionActiva ==
  \A h \in Hilos : hilo[h] = "unlock" => planificacion_activada

\* No wake-up is lost: a thread asleep in the gate of an active scheduling has
\* a post to consume, or the console is about to give it one.
AvisoPendiente ==
  \A h \in Hilos : hilo[h] = "espera" /\ planificacion_activada
                     => sem_planificacion_activa > 0 \/ consola = "post"

\* The system stops for ever in one way only: the operator gave a second
\* DETENER_PLANIFICACION while a thread sleeps with the mutex.
SoloTrabaLaSegundaParada ==
  ~ENABLED Next => consola = "lock" /\ ~planificacion_activada

\* The gate as module Kernel has it, one step that tests the flag.
LugarDe(h) == IF hilo[h] = "paso" THEN "paso" ELSE "puerta"

P == INSTANCE Puerta WITH activa <- planificacion_activada,
                          lugar <- [h \in Hilos |-> LugarDe(h)]

ImplementaPuerta == P!Spec

\* Once the operator leaves the scheduling active, a thread asleep in the gate
\* goes through it.
DormidoPasa ==
  <>[]planificacion_activada =>
    \A h \in Hilos : (hilo[h] = "espera") ~> (hilo[h] = "paso")
=============================================================================
