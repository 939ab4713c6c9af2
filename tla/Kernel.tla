------------------------------- MODULE Kernel -------------------------------
(***************************************************************************)
(* The kernel process of C-Comenta: the console, the long-term and the     *)
(* short-term scheduler, one escuchar_io thread per connected interface    *)
(* and one thread per resource, over the shared queues, semaphores and     *)
(* resource lists of src/kernel.  The CPU is the environment: it answers   *)
(* each dispatched process with any operation code a program can produce.  *)
(*                                                                         *)
(* One action is one thread's step between two points where another thread *)
(* can be seen to act: a sem_wait, a push or a pop of a queue, the pause   *)
(* gate, a blocking recv.  A NULL that the thread goes on to dereference   *)
(* is the death of the kernel process (`caido').                           *)
(*                                                                         *)
(* Several of these lists have no lock, or a lock some threads copy before *)
(* they take it.  `carreras' has the lists in which two threads have met;  *)
(* from then on such a list may lose elements or kill the process.         *)
(***************************************************************************)
EXTENDS Integers, SequencesExt

CONSTANTS
  MaxProcesos,         \* bound: PIDs the console hands out, 1..MaxProcesos
  Interfaces,          \* interface connections that may be established
  Recursos,            \* config->recursos
  InstanciasIniciales, \* config->instancias_recursos
  GradoInicial,        \* config->grado_multiprogramacion
  Grados,              \* values given to MULTIPROGRAMACION
  MaxCambios,          \* bound: MULTIPROGRAMACION commands
  MaxFinalizaciones,   \* bound: FINALIZAR_PROCESO commands
  Algoritmo,           \* config->algoritmo_planificacion
  Eventos,             \* optional events this instance admits
  Disciplinados,       \* programs WAIT only what they lack, SIGNAL what they hold
  MaxInstancias,       \* bound: instances reachable by SIGNAL without WAIT
  MaxCarreras,         \* bound: lists that two threads may spoil
  Ninguno              \* no process (NULL), or a name that is not configured

Procesos == 1 .. MaxProcesos

EventosPosibles == {"DETENER_PLANIFICACION", "MULTIPROGRAMACION",
                    "FINALIZAR_PROCESO", "DESCONEXION_IO", "MUTEX_COPIADO"}

ASSUME ConstantesOK ==
  /\ MaxProcesos \in Nat
  /\ InstanciasIniciales \in [Recursos -> Nat]
  /\ GradoInicial \in Nat
  /\ Grados \subseteq Nat
  /\ MaxCambios \in Nat
  /\ MaxFinalizaciones \in Nat
  /\ Algoritmo \in {"FIFO", "RR", "VRR"}
  /\ Eventos \subseteq EventosPosibles
  /\ Disciplinados \in BOOLEAN
  /\ MaxInstancias \in Nat
  /\ MaxCarreras \in Nat
  /\ Ninguno \notin Procesos \cup Interfaces \cup Recursos
  /\ Interfaces \cap Recursos = {}

VARIABLES
  cola,          \* colas_estado: new, ready, readyVRR, execute, exit
  estado,        \* pcb->estado of each process
  sem,           \* the kernel's four counting semaphores
  grado,         \* config->grado_multiprogramacion and the pending difference
  planificacion_activada,
  pcb_counter,
  conexion,      \* per interface: cola_espera, sem_cliente
  recurso,       \* per resource: instancias, PIDs, procesos_en_espera, procesos_en_cola
  interrupcion,  \* an INTERRUPCION_USUARIO sent to the CPU may still take effect
  caido,         \* the kernel dereferenced NULL
  carreras,      \* lists two threads have used at once
  largo, corto, consola, hilo_io, hilo_recurso   \* threads: pc and locals

vars == <<cola, estado, sem, grado, planificacion_activada, pcb_counter,
          conexion, recurso, interrupcion, caido, carreras,
          largo, corto, consola, hilo_io, hilo_recurso>>

hilos == <<largo, corto, consola, hilo_io, hilo_recurso, carreras>>

Init ==
  /\ cola = [new |-> <<>>, ready |-> <<>>, readyVRR |-> <<>>,
             execute |-> <<>>, exit |-> <<>>]
  /\ estado = [p \in Procesos |-> "NO_CREADO"]
  /\ sem = [nuevo_proceso |-> 0, proceso_en_ready |-> 0, cpu_libre |-> 1,
            grado_multiprog |-> GradoInicial]
  /\ grado = [valor |-> GradoInicial, diferencia |-> 0, cambios |-> 0]
  /\ planificacion_activada = TRUE
  /\ pcb_counter = 1
  /\ conexion = [i \in Interfaces |-> [cola_espera |-> <<>>, sem_cliente |-> 0]]
  /\ recurso = [r \in Recursos |->
                  [instancias |-> InstanciasIniciales[r],
                   PIDs |-> [p \in Procesos |-> 0],
                   procesos_en_espera |-> <<>>,
                   procesos_en_cola |-> 0]]
  /\ interrupcion = FALSE
  /\ caido = FALSE
  /\ carreras = {}
  /\ largo = [pc |-> "sem_grado", pcb |-> Ninguno]
  /\ corto = [pc |-> "sem_ready", pcb |-> Ninguno, op |-> "NADA",
              arg |-> Ninguno, leido |-> 0]
  /\ consola = [pc |-> "leer", pid |-> Ninguno, reanudar |-> FALSE,
                leido |-> 0, finalizaciones |-> 0]
  /\ hilo_io = [i \in Interfaces |-> [pc |-> "sin_conectar", pcb |-> Ninguno]]
  /\ hilo_recurso = [r \in Recursos |-> [pc |-> "en_cola", pcb |-> Ninguno]]

(***************************************************************************)
(* Where each thread stands.  Nothing runs once the process has died.      *)
(***************************************************************************)
EnLargo(l) == ~caido /\ largo.pc = l
EnCorto(l) == ~caido /\ corto.pc = l
EnConsola(l) == ~caido /\ consola.pc = l
EnIO(i, l) == ~caido /\ hilo_io[i].pc = l
EnRecurso(r, l) == ~caido /\ hilo_recurso[r].pc = l

LargoVa(l, p) == largo' = [pc |-> l, pcb |-> p]
CortoVa(l) == corto' = [corto EXCEPT !.pc = l]
ConsolaVa(l) == consola' = [consola EXCEPT !.pc = l]
IOVa(i, l, p) == hilo_io' = [hilo_io EXCEPT ![i] = [pc |-> l, pcb |-> p]]
RecursoVa(r, l, p) ==
  hilo_recurso' = [hilo_recurso EXCEPT ![r] = [pc |-> l, pcb |-> p]]

Cae == caido' = TRUE

(***************************************************************************)
(* colas_planificador.c: the queue operations, each with the semaphore it  *)
(* posts.                                                                  *)
(***************************************************************************)
push_cola_new(p) ==
  /\ cola' = [cola EXCEPT !.new = Append(@, p)]
  /\ estado' = [estado EXCEPT ![p] = "NEW"]
  /\ sem' = [sem EXCEPT !.nuevo_proceso = @ + 1]

\* Defect: the post is forgotten.
push_cola_ready_SinAviso(p) ==
  /\ cola' = [cola EXCEPT !.ready = Append(@, p)]
  /\ estado' = [estado EXCEPT ![p] = "READY"]
  /\ UNCHANGED sem

\* Defect: pcb->estado keeps its old value.
push_cola_ready_SinEstado(p) ==
  /\ cola' = [cola EXCEPT !.ready = Append(@, p)]
  /\ sem' = [sem EXCEPT !.proceso_en_ready = @ + 1]
  /\ UNCHANGED estado

push_cola_ready(p) ==
  /\ cola' = [cola EXCEPT !.ready = Append(@, p)]
  /\ estado' = [estado EXCEPT ![p] = "READY"]
  /\ sem' = [sem EXCEPT !.proceso_en_ready = @ + 1]

\* Defect: nobody posts sem_proceso_en_ready.
push_cola_ready_priority_SinAviso(p) ==
  /\ cola' = [cola EXCEPT !.readyVRR = Append(@, p)]
  /\ estado' = [estado EXCEPT ![p] = "READY_PRIORIDAD"]
  /\ UNCHANGED sem

\* Its only caller posts sem_proceso_en_ready right after it.
push_cola_ready_priority(p) ==
  /\ cola' = [cola EXCEPT !.readyVRR = Append(@, p)]
  /\ estado' = [estado EXCEPT ![p] = "READY_PRIORIDAD"]
  /\ sem' = [sem EXCEPT !.proceso_en_ready = @ + 1]

\* Defect: pcb->estado keeps its old value.
push_cola_execute_SinEstado(p) ==
  /\ cola' = [cola EXCEPT !.execute = Append(@, p)]
  /\ UNCHANGED estado

push_cola_execute(p) ==
  /\ cola' = [cola EXCEPT !.execute = Append(@, p)]
  /\ estado' = [estado EXCEPT ![p] = "EXECUTE"]

\* Defect: the process stays in EXECUTE.
pop_and_destroy_execute_SinPop == UNCHANGED cola

pop_and_destroy_execute == cola' = [cola EXCEPT !.execute = Tail(@)]

\* wait_recurso: one instance less, one entry of the PID more.
Tomado(rec, p) ==
  [instancias |-> rec.instancias - 1,
   PIDs |-> [rec.PIDs EXCEPT ![p] = @ + 1],
   procesos_en_espera |-> rec.procesos_en_espera,
   procesos_en_cola |-> rec.procesos_en_cola]

\* Defects: the instance is not posted; the entries of the PID stay in the list.
Senalado_SinPost(rec, p) ==
  [rec EXCEPT !.PIDs[p] = 0]

Senalado_SinBaja(rec, p) ==
  [rec EXCEPT !.instancias = @ + 1]

\* signal_recurso: one post, and every entry of the PID goes.
Senalado(rec, p) ==
  [instancias |-> rec.instancias + 1,
   PIDs |-> [rec.PIDs EXCEPT ![p] = 0],
   procesos_en_espera |-> rec.procesos_en_espera,
   procesos_en_cola |-> rec.procesos_en_cola]

\* Defects: procesos_en_cola, or sem_cliente, is not posted.
EnEspera_SinAviso(rec, p) ==
  [rec EXCEPT !.procesos_en_espera = Append(@, p)]

EnEsperaIO_SinAviso(con, p) ==
  [con EXCEPT !.cola_espera = Append(@, p)]

\* push_cola_blocked, on the queue of a resource and on that of an interface;
\* its lock is commented out (see Carreras).
EnEspera(rec, p) ==
  [instancias |-> rec.instancias,
   PIDs |-> rec.PIDs,
   procesos_en_espera |-> Append(rec.procesos_en_espera, p),
   procesos_en_cola |-> rec.procesos_en_cola + 1]

EnEsperaIO(con, p) ==
  [cola_espera |-> Append(con.cola_espera, p),
   sem_cliente |-> con.sem_cliente + 1]

liberar_recurso_del_proceso(p) ==
  recurso' = [r \in Recursos |-> IF recurso[r].PIDs[p] > 0
                                 THEN Senalado(recurso[r], p)
                                 ELSE recurso[r]]

\* The push of push_cola_exit.  The resources and the degree are settled
\* afterwards, with mutex_exit unlocked.
push_cola_exit(p) ==
  /\ cola' = [cola EXCEPT !.exit = Append(@, p)]
  /\ estado' = [estado EXCEPT ![p] = "EXIT"]

PostGrado == sem' = [sem EXCEPT !.grado_multiprog = @ + 1]

\* diferencia_grado_multiprog++ with no lock: the value incremented is the
\* one the condition read or the one another thread stored since.
IncrementarDiferencia(leido) ==
  \E v \in {leido, grado.diferencia} :
    grado' = [grado EXCEPT !.diferencia = v + 1]

\* What an action leaves alone: the other threads, and the console's data.
menosLargo == <<corto, consola, hilo_io, hilo_recurso, carreras>>
menosCorto == <<largo, consola, hilo_io, hilo_recurso, carreras>>
menosConsola == <<largo, corto, hilo_io, hilo_recurso, carreras>>
menosIO == <<largo, corto, consola, hilo_recurso, carreras>>
menosRecurso == <<largo, corto, consola, hilo_io, carreras>>
mando == <<grado, planificacion_activada, pcb_counter>>

-----------------------------------------------------------------------------
(***************************************************************************)
(* planificador_largo.c                                                    *)
(***************************************************************************)
LargoEsperaGrado ==
  /\ EnLargo("sem_grado")
  /\ sem.grado_multiprog > 0
  /\ sem' = [sem EXCEPT !.grado_multiprog = @ - 1]
  /\ LargoVa("sem_nuevo", Ninguno)
  /\ UNCHANGED <<cola, estado, mando, conexion, recurso, interrupcion, caido, menosLargo>>

LargoEsperaNuevo ==
  /\ EnLargo("sem_nuevo")
  /\ sem.nuevo_proceso > 0
  /\ sem' = [sem EXCEPT !.nuevo_proceso = @ - 1]
  /\ LargoVa("puerta", Ninguno)
  /\ UNCHANGED <<cola, estado, mando, conexion, recurso, interrupcion, caido, menosLargo>>

LargoPasaPuerta ==
  /\ EnLargo("puerta")
  /\ planificacion_activada
  /\ LargoVa("pop_new", Ninguno)
  /\ UNCHANGED <<cola, estado, sem, mando, conexion, recurso, interrupcion, caido, menosLargo>>

\* pop_cola_new; push_cola_ready dereferences what it returns.
LargoSacaDeNew ==
  /\ EnLargo("pop_new")
  /\ IF cola.new = <<>>
     THEN Cae /\ UNCHANGED <<cola, largo>>
     ELSE /\ LargoVa("push_ready", Head(cola.new))
          /\ cola' = [cola EXCEPT !.new = Tail(@)]
          /\ UNCHANGED caido
  /\ UNCHANGED <<estado, sem, mando, conexion, recurso, interrupcion, menosLargo>>

LargoAdmite ==
  /\ EnLargo("push_ready")
  /\ push_cola_ready(largo.pcb)
  /\ LargoVa("sem_grado", Ninguno)
  /\ UNCHANGED <<mando, conexion, recurso, interrupcion, caido, menosLargo>>

Largo ==
  \/ LargoEsperaGrado
  \/ LargoEsperaNuevo
  \/ LargoPasaPuerta
  \/ LargoSacaDeNew
  \/ LargoAdmite

-----------------------------------------------------------------------------
(***************************************************************************)
(* planificador_corto.c: the FIFO, RR and VRR loops.  They differ in the   *)
(* queue the next process comes from and in whether a quantum timer runs.  *)
(***************************************************************************)
CortoEsperaListo ==
  /\ EnCorto("sem_ready")
  /\ sem.proceso_en_ready > 0
  /\ sem' = [sem EXCEPT !.proceso_en_ready = @ - 1]
  /\ CortoVa("sem_cpu")
  /\ UNCHANGED <<cola, estado, mando, conexion, recurso, interrupcion, caido, menosCorto>>

CortoEsperaCpu ==
  /\ EnCorto("sem_cpu")
  /\ sem.cpu_libre > 0
  /\ sem' = [sem EXCEPT !.cpu_libre = @ - 1]
  /\ CortoVa("puerta")
  /\ UNCHANGED <<cola, estado, mando, conexion, recurso, interrupcion, caido, menosCorto>>

\* Only the VRR loop has two queues to choose from.
CortoPasaPuerta ==
  /\ EnCorto("puerta")
  /\ planificacion_activada
  /\ CortoVa(IF Algoritmo = "VRR" THEN "elegir" ELSE "pop_ready")
  /\ UNCHANGED <<cola, estado, sem, mando, conexion, recurso, interrupcion, caido, menosCorto>>

\* Defect: READY is preferred without looking at the priority queue.
CortoElige_SinPrioridad ==
  /\ EnCorto("elegir")
  /\ CortoVa("pop_ready")
  /\ UNCHANGED <<cola, estado, sem, mando, conexion, recurso, interrupcion, caido, menosCorto>>

\* queue_is_empty(cola_readyVRR), with no lock; the pop comes later.
CortoElige ==
  /\ EnCorto("elegir")
  /\ CortoVa(IF cola.readyVRR = <<>> THEN "pop_ready" ELSE "pop_vrr")
  /\ UNCHANGED <<cola, estado, sem, mando, conexion, recurso, interrupcion, caido, menosCorto>>

\* pop_cola_ready and pop_cola_ready_priority; push_cola_execute dereferences
\* what they return.
CortoSacaDe(l, nombre) ==
  /\ EnCorto(l)
  /\ IF cola[nombre] = <<>>
     THEN Cae /\ UNCHANGED <<cola, corto>>
     ELSE /\ corto' = [corto EXCEPT !.pc = "despachar", !.pcb = Head(cola[nombre])]
          /\ cola' = [cola EXCEPT ![nombre] = Tail(@)]
          /\ UNCHANGED caido
  /\ UNCHANGED <<estado, sem, mando, conexion, recurso, interrupcion, menosCorto>>

CortoSacaDeReady == CortoSacaDe("pop_ready", "ready")

CortoSacaDePrioridad == CortoSacaDe("pop_vrr", "readyVRR")

\* push_cola_execute and dispatch_proceso_planificador.
CortoDespacha ==
  /\ EnCorto("despachar")
  /\ push_cola_execute(corto.pcb)
  /\ CortoVa("respuesta")
  /\ UNCHANGED <<sem, mando, conexion, recurso, interrupcion, caido, menosCorto>>

(***************************************************************************)
(* The CPU's answers.  A pending user interruption may stay pending or be  *)
(* discarded whatever the CPU answers (checkInterrupt.c).                  *)
(***************************************************************************)
OpsFinales == {"PROCESO_TERMINADO", "INTERRUPCION_USUARIO",
               "ERROR_DE_PROCESAMIENTO", "OUT_OF_MEMORY"}

PideRecurso(op, r) ==
  \/ r = Ninguno
  \/ /\ op = "PROCESO_SOLICITA_RECURSO"
     /\ ~Disciplinados \/ recurso[r].PIDs[corto.pcb] = 0
  \/ /\ op = "PROCESO_LIBERA_RECURSO"
     /\ IF Disciplinados THEN recurso[r].PIDs[corto.pcb] > 0
                         ELSE recurso[r].instancias < MaxInstancias

Respuestas ==
  [op : OpsFinales \ {"INTERRUPCION_USUARIO"}, arg : {Ninguno}]
  \cup [op : IF interrupcion THEN {"INTERRUPCION_USUARIO"} ELSE {}, arg : {Ninguno}]
  \cup [op : IF Algoritmo = "FIFO" THEN {} ELSE {"INTERRUPCION_QUANTUM"},
        arg : {Ninguno}]
  \cup [op : {"PROCESO_BLOQUEADO_IO"}, arg : Interfaces]
  \cup {s \in [op : {"PROCESO_SOLICITA_RECURSO", "PROCESO_LIBERA_RECURSO"},
               arg : Recursos \cup {Ninguno}] : PideRecurso(s.op, s.arg)}

\* recibir_operacion and recibir_pcb on the dispatch socket.
CortoRecibe ==
  /\ EnCorto("respuesta")
  /\ \E s \in Respuestas :
       /\ corto' = [corto EXCEPT !.pc = "puerta_respuesta", !.op = s.op, !.arg = s.arg]
       /\ \E queda \in BOOLEAN :
            interrupcion' = (interrupcion /\ s.op # "INTERRUPCION_USUARIO" /\ queda)
  /\ UNCHANGED <<cola, estado, sem, mando, conexion, recurso, caido, menosCorto>>

CortoPasaPuertaRespuesta ==
  /\ EnCorto("puerta_respuesta")
  /\ planificacion_activada
  /\ CortoVa("atender")
  /\ UNCHANGED <<cola, estado, sem, mando, conexion, recurso, interrupcion, caido, menosCorto>>

\* gestionar_respuesta_cpu: the process leaves EXECUTE for good.
CortoAtiendeFin ==
  /\ EnCorto("atender")
  /\ \/ corto.op \in OpsFinales
     \/ /\ corto.op \in {"PROCESO_SOLICITA_RECURSO", "PROCESO_LIBERA_RECURSO"}
        /\ corto.arg = Ninguno
  /\ pop_and_destroy_execute
  /\ CortoVa("exit")
  /\ UNCHANGED <<estado, sem, mando, conexion, recurso, interrupcion, caido, menosCorto>>

CortoAtiendeQuantum ==
  /\ EnCorto("atender")
  /\ corto.op = "INTERRUPCION_QUANTUM"
  /\ pop_and_destroy_execute
  /\ CortoVa("a_ready")
  /\ UNCHANGED <<estado, sem, mando, conexion, recurso, interrupcion, caido, menosCorto>>

Conectada(i) == hilo_io[i].pc \notin {"sin_conectar", "cerrada"}

\* existe_io_conectada, the first lookup of validar_instruccion_a_io.
CortoAtiendeIO ==
  /\ EnCorto("atender")
  /\ corto.op = "PROCESO_BLOQUEADO_IO"
  /\ pop_and_destroy_execute
  /\ CortoVa(IF Conectada(corto.arg) THEN "validar" ELSE "exit")
  /\ UNCHANGED <<estado, sem, mando, conexion, recurso, interrupcion, caido, menosCorto>>

\* Its second lookup, whose result is dereferenced: a program may name an
\* instruction of the interface or not.  If the interface is gone the result is
\* NULL, or was freed after it was found, which need not be noticed.
CortoValidaIO ==
  /\ EnCorto("validar")
  /\ \/ ~Conectada(corto.arg) /\ Cae /\ UNCHANGED corto
     \/ \E l \in {"a_io", "exit"} : CortoVa(l) /\ UNCHANGED caido
  /\ UNCHANGED <<cola, estado, sem, mando, conexion, recurso, interrupcion, menosCorto>>

\* recurso_disponible reads the semaphore; the wait on it comes later.
CortoAtiendeSolicita ==
  /\ EnCorto("atender")
  /\ corto.op = "PROCESO_SOLICITA_RECURSO" /\ corto.arg # Ninguno
  /\ IF recurso[corto.arg].instancias > 0
     THEN CortoVa("wait_recurso") /\ UNCHANGED cola
     ELSE CortoVa("a_espera") /\ pop_and_destroy_execute
  /\ UNCHANGED <<estado, sem, mando, conexion, recurso, interrupcion, caido, menosCorto>>

\* signal_recurso, then the same process is dispatched again.
CortoAtiendeLibera ==
  /\ EnCorto("atender")
  /\ corto.op = "PROCESO_LIBERA_RECURSO" /\ corto.arg # Ninguno
  /\ recurso' = [recurso EXCEPT ![corto.arg] = Senalado(@, corto.pcb)]
  /\ CortoVa("respuesta")
  /\ UNCHANGED <<cola, estado, sem, mando, conexion, interrupcion, caido, menosCorto>>

\* wait_recurso, then the same process is dispatched again.
CortoTomaRecurso ==
  /\ EnCorto("wait_recurso")
  /\ recurso[corto.arg].instancias > 0
  /\ recurso' = [recurso EXCEPT ![corto.arg] = Tomado(@, corto.pcb)]
  /\ CortoVa("respuesta")
  /\ UNCHANGED <<cola, estado, sem, mando, conexion, interrupcion, caido, menosCorto>>

CortoDevuelveAReady ==
  /\ EnCorto("a_ready")
  /\ push_cola_ready(corto.pcb)
  /\ CortoVa("post_cpu")
  /\ UNCHANGED <<mando, conexion, recurso, interrupcion, caido, menosCorto>>

\* enviar_proceso_a_esperar_io looks the interface up again and dereferences
\* the result: NULL, or freed since, if the interface is gone.
CortoEncolaEnIO ==
  /\ EnCorto("a_io")
  /\ \/ /\ ~Conectada(corto.arg)
        /\ Cae
        /\ UNCHANGED <<conexion, estado, corto>>
     \/ /\ conexion' = [conexion EXCEPT ![corto.arg] = EnEsperaIO(@, corto.pcb)]
        /\ estado' = [estado EXCEPT ![corto.pcb] = "BLOCKED"]
        /\ CortoVa("post_cpu")
        /\ UNCHANGED caido
  /\ UNCHANGED <<cola, sem, mando, recurso, interrupcion, menosCorto>>

\* The push half of esperar_recurso.
CortoEncolaEnRecurso ==
  /\ EnCorto("a_espera")
  /\ recurso' = [recurso EXCEPT ![corto.arg] = EnEspera(@, corto.pcb)]
  /\ estado' = [estado EXCEPT ![corto.pcb] = "BLOCKED"]
  /\ CortoVa("post_cpu")
  /\ UNCHANGED <<cola, sem, mando, conexion, interrupcion, caido, menosCorto>>

CortoFinaliza ==
  /\ EnCorto("exit")
  /\ push_cola_exit(corto.pcb)
  /\ CortoVa("exit_recursos")
  /\ UNCHANGED <<sem, mando, conexion, recurso, interrupcion, caido, menosCorto>>

\* Defect: the resources of the process are not released.
CortoLiberaRecursos_Nada ==
  /\ EnCorto("exit_recursos")
  /\ CortoVa("grado")
  /\ UNCHANGED <<cola, estado, sem, mando, conexion, recurso, interrupcion, caido, menosCorto>>

CortoLiberaRecursos ==
  /\ EnCorto("exit_recursos")
  /\ liberar_recurso_del_proceso(corto.pcb)
  /\ CortoVa("grado")
  /\ UNCHANGED <<cola, estado, sem, mando, conexion, interrupcion, caido, menosCorto>>

\* Defect: `<=' in the test of the pending reduction.
CortoLiberaGrado_ConCero ==
  /\ EnCorto("grado")
  /\ IF grado.diferencia <= 0
     THEN /\ corto' = [corto EXCEPT !.pc = "diferencia", !.leido = grado.diferencia]
          /\ UNCHANGED sem
     ELSE CortoVa("post_cpu") /\ PostGrado
  /\ UNCHANGED <<cola, estado, mando, conexion, recurso, interrupcion, caido, menosCorto>>

CortoLiberaGrado ==
  /\ EnCorto("grado")
  /\ IF grado.diferencia < 0
     THEN /\ corto' = [corto EXCEPT !.pc = "diferencia", !.leido = grado.diferencia]
          /\ UNCHANGED sem
     ELSE CortoVa("post_cpu") /\ PostGrado
  /\ UNCHANGED <<cola, estado, mando, conexion, recurso, interrupcion, caido, menosCorto>>

CortoReduceGrado ==
  /\ EnCorto("diferencia")
  /\ IncrementarDiferencia(corto.leido)
  /\ corto' = [corto EXCEPT !.pc = "post_cpu", !.leido = 0]
  /\ UNCHANGED <<cola, estado, sem, planificacion_activada, pcb_counter,
                 conexion, recurso, interrupcion, caido, menosCorto>>

CortoLiberaCpu ==
  /\ EnCorto("post_cpu")
  /\ sem' = [sem EXCEPT !.cpu_libre = @ + 1]
  /\ corto' = [corto EXCEPT !.pc = "sem_ready", !.pcb = Ninguno,
                            !.op = "NADA", !.arg = Ninguno]
  /\ UNCHANGED <<cola, estado, mando, conexion, recurso, interrupcion, caido, menosCorto>>

Corto ==
  \/ CortoEsperaListo
  \/ CortoEsperaCpu
  \/ CortoPasaPuerta
  \/ CortoElige
  \/ CortoSacaDeReady
  \/ CortoSacaDePrioridad
  \/ CortoDespacha
  \/ CortoRecibe
  \/ CortoPasaPuertaRespuesta
  \/ CortoAtiendeFin
  \/ CortoAtiendeQuantum
  \/ CortoAtiendeIO
  \/ CortoValidaIO
  \/ CortoAtiendeSolicita
  \/ CortoAtiendeLibera
  \/ CortoTomaRecurso
  \/ CortoDevuelveAReady
  \/ CortoEncolaEnIO
  \/ CortoEncolaEnRecurso
  \/ CortoFinaliza
  \/ CortoLiberaRecursos
  \/ CortoLiberaGrado
  \/ CortoReduceGrado
  \/ CortoLiberaCpu

-----------------------------------------------------------------------------
(***************************************************************************)
(* gestor_io.c: one thread per connected interface.  A connection that is  *)
(* closed does not come back; the same interface connecting again is       *)
(* another member of Interfaces.                                           *)
(***************************************************************************)
\* esperar_y_escuchar_conexiones_io.
ConectarIO(i) ==
  /\ EnIO(i, "sin_conectar")
  /\ IOVa(i, "sem_cliente", Ninguno)
  /\ UNCHANGED <<cola, estado, sem, mando, conexion, recurso, interrupcion, caido, menosIO>>

IOEsperaCliente(i) ==
  /\ EnIO(i, "sem_cliente")
  /\ conexion[i].sem_cliente > 0
  /\ conexion' = [conexion EXCEPT ![i].sem_cliente = @ - 1]
  /\ IOVa(i, "peek", Ninguno)
  /\ UNCHANGED <<cola, estado, sem, mando, recurso, interrupcion, caido, menosIO>>

\* queue_peek; enviar_instruccion_io_segun_op dereferences what it returns.
IOEnviaInstruccion(i) ==
  /\ EnIO(i, "peek")
  /\ IF conexion[i].cola_espera = <<>>
     THEN Cae /\ UNCHANGED hilo_io
     ELSE IOVa(i, "respuesta", Head(conexion[i].cola_espera)) /\ UNCHANGED caido
  /\ UNCHANGED <<cola, estado, sem, mando, conexion, recurso, interrupcion, menosIO>>

\* FIN_EJECUCION_IO.
IORecibeFin(i) ==
  /\ EnIO(i, "respuesta")
  /\ IOVa(i, "puerta", hilo_io[i].pcb)
  /\ UNCHANGED <<cola, estado, sem, mando, conexion, recurso, interrupcion, caido, menosIO>>

\* -1: cerrar_conexion_io and the end of the thread.
IOSeDesconecta(i) ==
  /\ EnIO(i, "respuesta")
  /\ "DESCONEXION_IO" \in Eventos
  /\ IOVa(i, "cerrada", Ninguno)
  /\ UNCHANGED <<cola, estado, sem, mando, conexion, recurso, interrupcion, caido, menosIO>>

IOPasaPuerta(i) ==
  /\ EnIO(i, "puerta")
  /\ planificacion_activada
  /\ IOVa(i, "pop_espera", hilo_io[i].pcb)
  /\ UNCHANGED <<cola, estado, sem, mando, conexion, recurso, interrupcion, caido, menosIO>>

\* Defect: the process is peeked and never popped.
IOSacaDeEspera_SinPop(i) ==
  /\ EnIO(i, "pop_espera")
  /\ IOVa(i, "push_ready", hilo_io[i].pcb)
  /\ UNCHANGED <<cola, estado, sem, mando, conexion, recurso, interrupcion, caido, menosIO>>

\* queue_pop into pcb_to_ready, which nothing uses: the process that goes on
\* is the one that was peeked.
IOSacaDeEspera(i) ==
  /\ EnIO(i, "pop_espera")
  /\ conexion' = [conexion EXCEPT ![i].cola_espera = IF @ = <<>> THEN @ ELSE Tail(@)]
  /\ IOVa(i, "push_ready", hilo_io[i].pcb)
  /\ UNCHANGED <<cola, estado, sem, mando, recurso, interrupcion, caido, menosIO>>

IODesbloquea(i) ==
  /\ EnIO(i, "push_ready")
  /\ IF Algoritmo = "VRR" THEN push_cola_ready_priority(hilo_io[i].pcb)
                          ELSE push_cola_ready(hilo_io[i].pcb)
  /\ IOVa(i, "sem_cliente", Ninguno)
  /\ UNCHANGED <<mando, conexion, recurso, interrupcion, caido, menosIO>>

HiloIO(i) ==
  \/ IOEsperaCliente(i)
  \/ IOEnviaInstruccion(i)
  \/ IORecibeFin(i)
  \/ IOSeDesconecta(i)
  \/ IOPasaPuerta(i)
  \/ IOSacaDeEspera(i)
  \/ IODesbloquea(i)

-----------------------------------------------------------------------------
(***************************************************************************)
(* recurso.c: esperar_recurso_thread_handler, one thread per resource.     *)
(***************************************************************************)
RecursoEsperaCola(r) ==
  /\ EnRecurso(r, "en_cola")
  /\ recurso[r].procesos_en_cola > 0
  /\ recurso' = [recurso EXCEPT ![r].procesos_en_cola = @ - 1]
  /\ RecursoVa(r, "puerta", Ninguno)
  /\ UNCHANGED <<cola, estado, sem, mando, conexion, interrupcion, caido, menosRecurso>>

RecursoPasaPuerta(r) ==
  /\ EnRecurso(r, "puerta")
  /\ planificacion_activada
  /\ RecursoVa(r, "peek", Ninguno)
  /\ UNCHANGED <<cola, estado, sem, mando, conexion, recurso, interrupcion, caido, menosRecurso>>

\* queue_peek, whose result the next line dereferences.
RecursoMiraEspera(r) ==
  /\ EnRecurso(r, "peek")
  /\ IF recurso[r].procesos_en_espera = <<>>
     THEN Cae /\ UNCHANGED hilo_recurso
     ELSE /\ RecursoVa(r, "wait_instancia", Head(recurso[r].procesos_en_espera))
          /\ UNCHANGED caido
  /\ UNCHANGED <<cola, estado, sem, mando, conexion, recurso, interrupcion, menosRecurso>>

\* wait_recurso_de_espera: the instance goes to the process if it is still
\* waiting, and back if it is not.
RecursoTomaInstancia(r) ==
  /\ EnRecurso(r, "wait_instancia")
  /\ recurso[r].instancias > 0
  /\ LET p == hilo_recurso[r].pcb IN
       IF Contains(recurso[r].procesos_en_espera, p)
       THEN /\ recurso' = [recurso EXCEPT ![r] = Tomado(@, p)]
            /\ RecursoVa(r, "pop_espera", p)
       ELSE RecursoVa(r, "en_cola", Ninguno) /\ UNCHANGED recurso
  /\ UNCHANGED <<cola, estado, sem, mando, conexion, interrupcion, caido, menosRecurso>>

\* queue_pop; push_cola_ready dereferences what it returns.
RecursoSacaDeEspera(r) ==
  /\ EnRecurso(r, "pop_espera")
  /\ IF recurso[r].procesos_en_espera = <<>>
     THEN Cae /\ UNCHANGED <<recurso, hilo_recurso>>
     ELSE /\ RecursoVa(r, "push_ready", Head(recurso[r].procesos_en_espera))
          /\ recurso' = [recurso EXCEPT ![r].procesos_en_espera = Tail(@)]
          /\ UNCHANGED caido
  /\ UNCHANGED <<cola, estado, sem, mando, conexion, interrupcion, menosRecurso>>

RecursoDesbloquea(r) ==
  /\ EnRecurso(r, "push_ready")
  /\ push_cola_ready(hilo_recurso[r].pcb)
  /\ RecursoVa(r, "en_cola", Ninguno)
  /\ UNCHANGED <<mando, conexion, recurso, interrupcion, caido, menosRecurso>>

HiloRecurso(r) ==
  \/ RecursoEsperaCola(r)
  \/ RecursoPasaPuerta(r)
  \/ RecursoMiraEspera(r)
  \/ RecursoTomaInstancia(r)
  \/ RecursoSacaDeEspera(r)
  \/ RecursoDesbloquea(r)

-----------------------------------------------------------------------------
(***************************************************************************)
(* consola.c: the operator's commands.  EJECUTAR_SCRIPT is a sequence of   *)
(* them and PROCESO_ESTADO only prints.                                    *)
(***************************************************************************)
\* The memory accepts the process or refuses it; a refused PID is not reused.
IniciarProceso ==
  /\ EnConsola("leer")
  /\ pcb_counter \in Procesos
  /\ pcb_counter' = pcb_counter + 1
  /\ \/ push_cola_new(pcb_counter)
     \/ UNCHANGED <<cola, estado, sem>>
  /\ UNCHANGED <<grado, planificacion_activada, conexion, recurso,
                 interrupcion, caido, hilos>>

DetenerPlanificacion ==
  /\ EnConsola("leer")
  /\ "DETENER_PLANIFICACION" \in Eventos
  /\ planificacion_activada
  /\ planificacion_activada' = FALSE
  /\ UNCHANGED <<cola, estado, sem, grado, pcb_counter, conexion, recurso,
                 interrupcion, caido, hilos>>

\* esperar_planificacion waits with mutex_planificacion_activa locked, so a
\* second DETENER_PLANIFICACION may block for ever (Pausa has the details).
DetenerEnPausa ==
  /\ EnConsola("leer")
  /\ "DETENER_PLANIFICACION" \in Eventos
  /\ ~planificacion_activada
  /\ \/ EnLargo("puerta")
     \/ EnCorto("puerta") \/ EnCorto("puerta_respuesta")
     \/ \E i \in Interfaces : EnIO(i, "puerta")
     \/ \E r \in Recursos : EnRecurso(r, "puerta")
  /\ ConsolaVa("bloqueada")
  /\ UNCHANGED <<cola, estado, sem, mando, conexion, recurso, interrupcion,
                 caido, menosConsola>>

ReanudarPlanificacion ==
  /\ EnConsola("leer")
  /\ ~planificacion_activada
  /\ planificacion_activada' = TRUE
  /\ UNCHANGED <<cola, estado, sem, grado, pcb_counter, conexion, recurso,
                 interrupcion, caido, hilos>>

\* Defect: a lower degree is taken from the semaphore at once.
Multiprogramacion_SinSigno ==
  /\ EnConsola("leer")
  /\ "MULTIPROGRAMACION" \in Eventos /\ grado.cambios < MaxCambios
  /\ \E valor \in Grados :
       /\ grado' = [valor |-> valor, diferencia |-> 0, cambios |-> grado.cambios + 1]
       /\ sem' = [sem EXCEPT !.grado_multiprog = @ + valor - grado.valor]
  /\ UNCHANGED <<cola, estado, planificacion_activada, pcb_counter, conexion,
                 recurso, interrupcion, caido, hilos>>

Multiprogramacion ==
  /\ EnConsola("leer")
  /\ "MULTIPROGRAMACION" \in Eventos /\ grado.cambios < MaxCambios
  /\ \E valor \in Grados :
       LET d == valor - grado.valor IN
         /\ grado' = [valor |-> valor, diferencia |-> d, cambios |-> grado.cambios + 1]
         /\ sem' = [sem EXCEPT !.grado_multiprog = IF d > 0 THEN @ + d ELSE @]
  /\ UNCHANGED <<cola, estado, planificacion_activada, pcb_counter, conexion,
                 recurso, interrupcion, caido, hilos>>

\* FINALIZAR_PROCESO stops the scheduling if it was active, looks for the
\* process queue by queue, and resumes it.
FinalizarProceso ==
  /\ EnConsola("leer")
  /\ "FINALIZAR_PROCESO" \in Eventos /\ consola.finalizaciones < MaxFinalizaciones
  /\ \E p \in Procesos :
       consola' = [consola EXCEPT !.pc = "buscar_execute", !.pid = p,
                                  !.reanudar = planificacion_activada,
                                  !.finalizaciones = @ + 1]
  /\ planificacion_activada' = FALSE
  /\ UNCHANGED <<cola, estado, sem, grado, pcb_counter, conexion, recurso,
                 interrupcion, caido, menosConsola>>

EsperaIO(p) == {i \in Interfaces : Conectada(i) /\ Contains(conexion[i].cola_espera, p)}
EsperaRecurso(p) == {r \in Recursos : Contains(recurso[r].procesos_en_espera, p)}

\* Is the process in the queue this step looks at, and where the search goes
\* when it is and when it is not.  cola_readyVRR is not searched.
Busqueda(p) ==
  [buscar_execute |-> <<Contains(cola.execute, p), "interrumpir", "buscar_new">>,
   buscar_new |-> <<Contains(cola.new, p), "sacar_new", "buscar_ready">>,
   buscar_ready |-> <<Contains(cola.ready, p), "sacar_ready", "buscar_exit">>,
   buscar_exit |-> <<Contains(cola.exit, p), "liberar", "buscar_io">>,
   buscar_io |-> <<EsperaIO(p) # {}, "sacar_io", "buscar_recurso">>,
   buscar_recurso |-> <<EsperaRecurso(p) # {}, "sacar_recurso", "reanudar">>]

BuscarProceso ==
  /\ \E l \in DOMAIN Busqueda(consola.pid) :
       /\ EnConsola(l)
       /\ LET b == Busqueda(consola.pid)[l] IN ConsolaVa(IF b[1] THEN b[2] ELSE b[3])
  /\ UNCHANGED <<cola, estado, sem, mando, conexion, recurso, interrupcion,
                 caido, menosConsola>>

\* interrumpir_proceso_ejecutando looks at the queue twice: is it empty, and
\* who is at its head; the PID of what the second look returns is read.
InterrumpirProceso ==
  /\ EnConsola("interrumpir")
  /\ ConsolaVa(IF cola.execute = <<>> THEN "liberar" ELSE "peek_execute")
  /\ UNCHANGED <<cola, estado, sem, mando, conexion, recurso, interrupcion,
                 caido, menosConsola>>

\* Defect: the process is taken out of EXECUTE while the CPU still runs it.
EnviarInterrupcion_SacandoDeExecute ==
  /\ EnConsola("peek_execute")
  /\ IF cola.execute = <<>>
     THEN Cae /\ UNCHANGED <<cola, interrupcion, consola>>
     ELSE /\ interrupcion' = TRUE
          /\ cola' = [cola EXCEPT !.execute = Tail(@)]
          /\ ConsolaVa("exit")
          /\ UNCHANGED caido
  /\ UNCHANGED <<estado, sem, mando, conexion, recurso, menosConsola>>

EnviarInterrupcion ==
  /\ EnConsola("peek_execute")
  /\ IF cola.execute = <<>>
     THEN Cae /\ UNCHANGED <<interrupcion, consola>>
     ELSE /\ interrupcion' = TRUE
          /\ ConsolaVa("liberar")
          /\ UNCHANGED caido
  /\ UNCHANGED <<cola, estado, sem, mando, conexion, recurso, menosConsola>>

\* list_remove_by_condition removes the first entry that has the PID.
PrimeraPosicion(q, p) ==
  {k \in 1 .. Len(q) : q[k] = p /\ \A j \in 1 .. k - 1 : q[j] # p}

\* pop_proceso; push_cola_exit dereferences what it returns.  If the scheduler
\* that takes from the same queue is inside it too, both may get the process.
SacarDeCola(l, nombre) ==
  /\ EnConsola(l)
  /\ IF Contains(cola[nombre], consola.pid)
     THEN /\ \/ \E k \in PrimeraPosicion(cola[nombre], consola.pid) :
                  cola' = [cola EXCEPT ![nombre] = RemoveAt(@, k)]
             \/ <<"cola", nombre>> \in carreras /\ UNCHANGED cola
          /\ ConsolaVa("exit")
          /\ UNCHANGED caido
     ELSE Cae /\ UNCHANGED <<cola, consola>>
  /\ UNCHANGED <<estado, sem, mando, conexion, recurso, interrupcion, menosConsola>>

SacarDeIO ==
  /\ EnConsola("sacar_io")
  /\ IF EsperaIO(consola.pid) # {}
     THEN /\ \E i \in EsperaIO(consola.pid) :
               \E k \in PrimeraPosicion(conexion[i].cola_espera, consola.pid) :
                 conexion' = [conexion EXCEPT ![i].cola_espera = RemoveAt(@, k)]
          /\ ConsolaVa("exit")
          /\ UNCHANGED caido
     ELSE Cae /\ UNCHANGED <<conexion, consola>>
  /\ UNCHANGED <<cola, estado, sem, mando, recurso, interrupcion, menosConsola>>

SacarDeRecurso ==
  /\ EnConsola("sacar_recurso")
  /\ IF EsperaRecurso(consola.pid) # {}
     THEN /\ \E r \in EsperaRecurso(consola.pid) :
               \E k \in PrimeraPosicion(recurso[r].procesos_en_espera, consola.pid) :
                 recurso' = [recurso EXCEPT ![r].procesos_en_espera = RemoveAt(@, k)]
          /\ ConsolaVa("exit")
          /\ UNCHANGED caido
     ELSE Cae /\ UNCHANGED <<recurso, consola>>
  /\ UNCHANGED <<cola, estado, sem, mando, conexion, interrupcion, menosConsola>>

ConsolaFinaliza ==
  /\ EnConsola("exit")
  /\ push_cola_exit(consola.pid)
  /\ ConsolaVa("exit_recursos")
  /\ UNCHANGED <<sem, mando, conexion, recurso, interrupcion, caido, menosConsola>>

ConsolaLiberaGrado ==
  /\ EnConsola("grado")
  /\ IF grado.diferencia < 0
     THEN /\ consola' = [consola EXCEPT !.pc = "diferencia", !.leido = grado.diferencia]
          /\ UNCHANGED sem
     ELSE ConsolaVa("liberar") /\ PostGrado
  /\ UNCHANGED <<cola, estado, mando, conexion, recurso, interrupcion, caido, menosConsola>>

ConsolaReduceGrado ==
  /\ EnConsola("diferencia")
  /\ IncrementarDiferencia(consola.leido)
  /\ consola' = [consola EXCEPT !.pc = "liberar", !.leido = 0]
  /\ UNCHANGED <<cola, estado, sem, planificacion_activada, pcb_counter,
                 conexion, recurso, interrupcion, caido, menosConsola>>

\* push_cola_exit releases the resources, and finalizar_proceso does it again
\* whichever way it found the process.
ConsolaLiberaRecursos(l, despues) ==
  /\ EnConsola(l)
  /\ liberar_recurso_del_proceso(consola.pid)
  /\ ConsolaVa(despues)
  /\ UNCHANGED <<cola, estado, sem, mando, conexion, interrupcion, caido, menosConsola>>

ConsolaReanuda ==
  /\ EnConsola("reanudar")
  /\ planificacion_activada' = (planificacion_activada \/ consola.reanudar)
  /\ consola' = [consola EXCEPT !.pc = "leer", !.pid = Ninguno, !.reanudar = FALSE]
  /\ UNCHANGED <<cola, estado, sem, grado, pcb_counter, conexion, recurso,
                 interrupcion, caido, menosConsola>>

Finalizacion ==
  \/ BuscarProceso
  \/ InterrumpirProceso
  \/ EnviarInterrupcion
  \/ SacarDeCola("sacar_new", "new")
  \/ SacarDeCola("sacar_ready", "ready")
  \/ SacarDeIO
  \/ SacarDeRecurso
  \/ ConsolaFinaliza
  \/ ConsolaLiberaGrado
  \/ ConsolaReduceGrado
  \/ ConsolaLiberaRecursos("exit_recursos", "grado")
  \/ ConsolaLiberaRecursos("liberar", "reanudar")
  \/ ConsolaReanuda

Consola ==
  \/ IniciarProceso
  \/ DetenerPlanificacion
  \/ DetenerEnPausa
  \/ ReanudarPlanificacion
  \/ Multiprogramacion
  \/ FinalizarProceso
  \/ Finalizacion

-----------------------------------------------------------------------------
(***************************************************************************)
(* Carreras: two threads in one list with no lock in common.  The queues   *)
(* of interfaces and resources and the lists PIDs have no lock at all;     *)
(* cola_new and cola_ready have one, but the console takes a copy of it,   *)
(* and so does whoever pops cola_readyVRR: the mutex is passed by value.   *)
(* A copy made while the mutex is free excludes nobody; one made while it  *)
(* is taken is a mutex nobody will ever unlock.                            *)
(***************************************************************************)
HiloEn(x, l) == (x \in Interfaces /\ EnIO(x, l)) \/ (x \in Recursos /\ EnRecurso(x, l))

ConsolaSaca(x) == EnConsola(IF x \in Interfaces THEN "sacar_io" ELSE "sacar_recurso")

ConsolaBusca(x) == EnConsola(IF x \in Interfaces THEN "buscar_io" ELSE "buscar_recurso")

\* Two writers: the push of the short-term scheduler, the pop of the thread and
\* the removal of the console.
ChocanEnEspera(x) ==
  LET encola == corto.pc \in {"a_io", "a_espera"} /\ corto.arg = x
      saca == HiloEn(x, "pop_espera")
  IN \/ encola /\ (saca \/ ConsolaSaca(x))
     \/ saca /\ ConsolaSaca(x)

\* Some thread is at a push or a pop that locks the mutex of this queue.
MutexTomado(c) ==
  \/ c = "new" /\ EnLargo("pop_new")
  \/ /\ c = "ready"
     /\ \/ EnLargo("push_ready") \/ EnCorto("pop_ready") \/ EnCorto("a_ready")
        \/ Algoritmo # "VRR" /\ \E i \in Interfaces : EnIO(i, "push_ready")
        \/ \E r \in Recursos : EnRecurso(r, "push_ready")
  \/ c = "readyVRR" /\ Algoritmo = "VRR" /\ \E i \in Interfaces : EnIO(i, "push_ready")
  \/ c = "execute" /\ EnCorto("despachar")
  \/ c = "exit" /\ EnCorto("exit")

\* Writers that hold a copy.
SacaConCopia(c) ==
  \/ c = "new" /\ EnConsola("sacar_new")
  \/ c = "ready" /\ EnConsola("sacar_ready")
  \/ c = "readyVRR" /\ EnCorto("pop_vrr")

\* The lists PIDs: wait_recurso, signal_recurso and wait_recurso_de_espera use
\* them with no lock; liberar_recurso_del_proceso excludes only itself.
ChocanEnPIDs(r) ==
  LET toma == EnCorto("wait_recurso") /\ corto.arg = r
      suelta == EnCorto("atender") /\ corto.op = "PROCESO_LIBERA_RECURSO" /\ corto.arg = r
      libera == EnCorto("exit_recursos") /\ recurso[r].PIDs[corto.pcb] > 0
      consola_libera == /\ EnConsola("exit_recursos") \/ EnConsola("liberar")
                        /\ recurso[r].PIDs[consola.pid] > 0
      hilo == EnRecurso(r, "wait_instancia")
  IN \/ toma /\ (consola_libera \/ (hilo /\ recurso[r].instancias > 1))
     \/ suelta /\ (consola_libera \/ hilo)
     \/ hilo /\ (libera \/ consola_libera)

Chocadas ==
  {<<"espera", x>> : x \in {y \in Interfaces \cup Recursos : ChocanEnEspera(y)}}
  \cup {<<"cola", c>> : c \in {d \in DOMAIN cola : SacaConCopia(d) /\ MutexTomado(d)}}
  \cup {<<"PIDs", r>> : r \in {t \in Recursos : ChocanEnPIDs(t)}}

Choque ==
  /\ ~caido /\ Cardinality(carreras) < MaxCarreras
  /\ \E l \in Chocadas \ carreras : carreras' = carreras \cup {l}
  /\ UNCHANGED <<cola, estado, sem, mando, conexion, recurso, interrupcion, caido,
                 largo, corto, consola, hilo_io, hilo_recurso>>

\* From then on elements_count and the links of the list may disagree: some
\* element is no longer reached, or the next access kills the process.
PierdeDeCola ==
  /\ ~caido
  /\ \E c \in DOMAIN cola : \E k \in DOMAIN cola[c] :
       <<"cola", c>> \in carreras /\ cola' = [cola EXCEPT ![c] = RemoveAt(@, k)]
  /\ UNCHANGED <<estado, sem, mando, conexion, recurso, interrupcion, caido, hilos>>

PierdeDeIO ==
  /\ ~caido
  /\ \E i \in Interfaces : \E k \in DOMAIN conexion[i].cola_espera :
       /\ <<"espera", i>> \in carreras
       /\ conexion' = [conexion EXCEPT ![i].cola_espera = RemoveAt(@, k)]
  /\ UNCHANGED <<cola, estado, sem, mando, recurso, interrupcion, caido, hilos>>

PierdeDeRecurso ==
  /\ ~caido
  /\ \E r \in Recursos : \E k \in DOMAIN recurso[r].procesos_en_espera :
       /\ <<"espera", r>> \in carreras
       /\ recurso' = [recurso EXCEPT ![r].procesos_en_espera = RemoveAt(@, k)]
  /\ UNCHANGED <<cola, estado, sem, mando, conexion, interrupcion, caido, hilos>>

PierdePID ==
  /\ ~caido
  /\ \E r \in Recursos, p \in Procesos :
       /\ <<"PIDs", r>> \in carreras /\ recurso[r].PIDs[p] > 0
       /\ recurso' = [recurso EXCEPT ![r].PIDs[p] = @ - 1]
  /\ UNCHANGED <<cola, estado, sem, mando, conexion, interrupcion, caido, hilos>>

MuerePorCarrera ==
  /\ ~caido /\ carreras # {}
  /\ Cae
  /\ UNCHANGED <<cola, estado, sem, mando, conexion, recurso, interrupcion, hilos>>

\* Readers with no lock: PROCESO_ESTADO (imprimir_colas), the searches of the
\* console and, of EXECUTE, the quantum thread.  The element they are looking
\* at may be freed by a pop.
SaleDeExecute ==
  /\ EnCorto("atender") /\ corto.op # "PROCESO_LIBERA_RECURSO"
  /\ corto.op = "PROCESO_SOLICITA_RECURSO" /\ corto.arg # Ninguno
       => recurso[corto.arg].instancias = 0

LeidaYSacada(c) ==
  \/ c = "new" /\ EnLargo("pop_new") /\ (EnConsola("leer") \/ EnConsola("buscar_new"))
  \/ c = "ready" /\ EnCorto("pop_ready") /\ (EnConsola("leer") \/ EnConsola("buscar_ready"))
  \/ c = "readyVRR" /\ EnCorto("pop_vrr") /\ EnConsola("leer")
  \/ /\ c = "execute" /\ SaleDeExecute
     /\ \/ EnConsola("leer") \/ EnConsola("buscar_execute") \/ EnConsola("peek_execute")
        \/ Algoritmo # "FIFO"

EsperaLeidaYSacada(x) ==
  \/ HiloEn(x, "pop_espera") /\ (EnConsola("leer") \/ ConsolaBusca(x))
  \/ (HiloEn(x, "peek") \/ HiloEn(x, "wait_instancia")) /\ ConsolaSaca(x)

Leidas ==
  {<<"cola", c>> : c \in {d \in DOMAIN cola : LeidaYSacada(d)}}
  \cup {<<"espera", x>> : x \in {y \in Interfaces \cup Recursos : EsperaLeidaYSacada(y)}}

LecturaRota ==
  /\ ~caido /\ Cardinality(carreras) < MaxCarreras
  /\ \E l \in Leidas : carreras' = carreras \cup {l}
  /\ Cae
  /\ UNCHANGED <<cola, estado, sem, mando, conexion, recurso, interrupcion,
                 largo, corto, consola, hilo_io, hilo_recurso>>

CortoSeCuelga ==
  /\ "MUTEX_COPIADO" \in Eventos
  /\ EnCorto("pop_vrr") /\ MutexTomado("readyVRR")
  /\ CortoVa("colgado")
  /\ UNCHANGED <<cola, estado, sem, mando, conexion, recurso, interrupcion, caido, menosCorto>>

PideCopia == [buscar_execute |-> "execute", buscar_new |-> "new", buscar_ready |-> "ready",
              buscar_exit |-> "exit", sacar_new |-> "new", sacar_ready |-> "ready"]

ConsolaSeCuelga ==
  /\ "MUTEX_COPIADO" \in Eventos
  /\ \E l \in DOMAIN PideCopia : EnConsola(l) /\ MutexTomado(PideCopia[l])
  /\ ConsolaVa("bloqueada")
  /\ UNCHANGED <<cola, estado, sem, mando, conexion, recurso, interrupcion, caido, menosConsola>>

Carreras ==
  \/ Choque
  \/ PierdeDeCola
  \/ PierdeDeIO
  \/ PierdeDeRecurso
  \/ PierdePID
  \/ MuerePorCarrera
  \/ LecturaRota
  \/ CortoSeCuelga
  \/ ConsolaSeCuelga

Next ==
  \/ Largo
  \/ Corto
  \/ Consola
  \/ Carreras
  \/ \E i \in Interfaces : ConectarIO(i) \/ HiloIO(i)
  \/ \E r \in Recursos : HiloRecurso(r)

Spec == Init /\ [][Next]_vars

\* The scheduling of the threads: each goes on if it can and the interfaces do
\* their work; nobody makes the operator type or the CPU answer.
Justicia ==
  /\ WF_vars(Largo)
  /\ WF_vars(Corto /\ ~EnCorto("respuesta"))
  /\ WF_vars(Finalizacion)
  /\ \A i \in Interfaces : WF_vars(HiloIO(i))
  /\ \A r \in Recursos : WF_vars(HiloRecurso(r))

SpecJusta == Spec /\ Justicia

-----------------------------------------------------------------------------
(***************************************************************************)
(* Type invariant: the shape of the queues, semaphores and thread locals.  *)
(***************************************************************************)
PcsLargo == {"sem_grado", "sem_nuevo", "puerta", "pop_new", "push_ready"}
PcsCorto == {"sem_ready", "sem_cpu", "puerta", "elegir", "pop_ready", "pop_vrr",
             "colgado", "despachar", "respuesta", "puerta_respuesta", "atender",
             "wait_recurso", "a_ready", "validar", "a_io", "a_espera", "exit",
             "exit_recursos", "grado", "diferencia", "post_cpu"}
PcsConsola == {"leer", "bloqueada", "buscar_execute", "buscar_new",
               "buscar_ready", "buscar_exit", "buscar_io", "buscar_recurso",
               "interrumpir", "peek_execute", "sacar_new", "sacar_ready",
               "sacar_io", "sacar_recurso", "exit", "exit_recursos", "grado",
               "diferencia", "liberar", "reanudar"}
PcsIO == {"sin_conectar", "sem_cliente", "peek", "respuesta", "puerta",
          "pop_espera", "push_ready", "cerrada"}
PcsRecurso == {"en_cola", "puerta", "peek", "wait_instancia", "pop_espera",
               "push_ready"}
Ops == OpsFinales \cup {"NADA", "INTERRUPCION_QUANTUM", "PROCESO_BLOQUEADO_IO",
                        "PROCESO_SOLICITA_RECURSO", "PROCESO_LIBERA_RECURSO"}
Estados == {"NO_CREADO", "NEW", "READY", "READY_PRIORIDAD", "EXECUTE",
            "BLOCKED", "EXIT"}
Pcb == Procesos \cup {Ninguno}

TipoCola ==
  cola \in [new : Seq(Procesos), ready : Seq(Procesos), readyVRR : Seq(Procesos),
           execute : Seq(Procesos), exit : Seq(Procesos)]

TipoEstado == estado \in [Procesos -> Estados]

TipoSem ==
  sem \in [nuevo_proceso : Nat, proceso_en_ready : Nat, cpu_libre : Nat,
          grado_multiprog : Nat]

TipoMando ==
  /\ grado \in [valor : Nat, diferencia : Int, cambios : Nat]
  /\ planificacion_activada \in BOOLEAN
  /\ pcb_counter \in 1 .. MaxProcesos + 1

UnaConexion == [cola_espera : Seq(Procesos), sem_cliente : Nat]

TipoConexion == conexion \in [Interfaces -> UnaConexion]

UnRecurso == [instancias : Nat, PIDs : [Procesos -> Nat],
              procesos_en_espera : Seq(Procesos), procesos_en_cola : Nat]

TipoRecurso == recurso \in [Recursos -> UnRecurso]

Listas == ({"cola"} \X {"new", "ready", "readyVRR", "execute", "exit"})
          \cup ({"espera"} \X (Interfaces \cup Recursos)) \cup ({"PIDs"} \X Recursos)

TipoSenales ==
  /\ interrupcion \in BOOLEAN /\ caido \in BOOLEAN
  /\ carreras \subseteq Listas

\* A thread that is past the point where it takes a process has one, and the
\* answer being attended names an interface or a resource if its code does.
TipoLargo ==
  /\ largo \in [pc : PcsLargo, pcb : Pcb]
  /\ largo.pc = "push_ready" => largo.pcb \in Procesos

TipoCorto ==
  /\ corto \in [pc : PcsCorto, pcb : Pcb, op : Ops,
               arg : Interfaces \cup Recursos \cup {Ninguno}, leido : Int]
  /\ corto.pc \notin {"sem_ready", "sem_cpu", "puerta", "elegir", "pop_ready", "pop_vrr",
                     "colgado"} => corto.pcb \in Procesos
  /\ corto.pc \in {"puerta_respuesta", "atender"} =>
       /\ corto.op = "PROCESO_BLOQUEADO_IO" => corto.arg \in Interfaces
       /\ corto.op \in {"PROCESO_SOLICITA_RECURSO", "PROCESO_LIBERA_RECURSO"}
            => corto.arg \in Recursos \cup {Ninguno}
  /\ corto.pc \in {"validar", "a_io"} => corto.arg \in Interfaces
  /\ corto.pc \in {"wait_recurso", "a_espera"} => corto.arg \in Recursos

TipoConsola ==
  /\ consola \in [pc : PcsConsola, pid : Pcb, reanudar : BOOLEAN, leido : Int,
                 finalizaciones : Nat]
  /\ consola.pc \notin {"leer", "bloqueada"} => consola.pid \in Procesos

TipoHiloIO ==
  /\ hilo_io \in [Interfaces -> [pc : PcsIO, pcb : Pcb]]
  /\ \A i \in Interfaces :
       hilo_io[i].pc \in {"respuesta", "puerta", "pop_espera", "push_ready"}
         => hilo_io[i].pcb \in Procesos

TipoHiloRecurso ==
  /\ hilo_recurso \in [Recursos -> [pc : PcsRecurso, pcb : Pcb]]
  /\ \A r \in Recursos :
       hilo_recurso[r].pc \in {"wait_instancia", "pop_espera", "push_ready"}
         => hilo_recurso[r].pcb \in Procesos

TypeOK ==
  /\ TipoCola /\ TipoEstado /\ TipoSem /\ TipoMando
  /\ TipoConexion /\ TipoRecurso /\ TipoSenales
  /\ TipoLargo /\ TipoCorto /\ TipoConsola /\ TipoHiloIO /\ TipoHiloRecurso

-----------------------------------------------------------------------------
(***************************************************************************)
(* Safety                                                                  *)
(***************************************************************************)
Uno(b) == IF b THEN 1 ELSE 0

EjecutaEnCpu == corto.pc \in {"respuesta", "puerta_respuesta", "atender", "wait_recurso"}

\* The queue EXECUTE holds the process the CPU was given and no other, and
\* sem_cpu_libre is 0 from the moment the short-term scheduler reserves the
\* CPU until it has placed the process somewhere else.  pop_and_destroy_execute
\* pops whatever is at the head: it is right only because of this.
UnSoloProcesoEnCpu ==
  /\ sem.cpu_libre = Uno(corto.pc \in {"sem_ready", "sem_cpu"})
  /\ cola.execute = IF EjecutaEnCpu THEN <<corto.pcb>> ELSE <<>>

\* The consumer of READY has waited for a post it has not honoured yet.
CortoAvisado == corto.pc \in {"sem_cpu", "puerta", "elegir", "pop_ready", "pop_vrr", "colgado"}

\* No queued process goes unannounced: whatever the operator does, and even in
\* a list two threads have spoilt, each queue is covered by the posts not yet
\* consumed and the one its consumer took.
AvisosSuficientes ==
  /\ Len(cola.new) <= sem.nuevo_proceso + Uno(largo.pc \in {"puerta", "pop_new"})
  /\ Len(cola.ready) + Len(cola.readyVRR) <= sem.proceso_en_ready + Uno(CortoAvisado)
  /\ \A i \in Interfaces :
       hilo_io[i].pc # "cerrada" =>
         Len(conexion[i].cola_espera) <= conexion[i].sem_cliente
           + Uno(hilo_io[i].pc \in {"peek", "respuesta", "puerta", "pop_espera"})
  /\ \A r \in Recursos :
       Len(recurso[r].procesos_en_espera) <= recurso[r].procesos_en_cola
         + Uno(hilo_recurso[r].pc \in {"puerta", "peek", "wait_instancia", "pop_espera"})

\* What follows of exact counts and places holds until two threads meet in a
\* list with no lock in common.
SinCarreras == carreras = {}

\* Without FINALIZAR_PROCESO, and until a list is spoilt, the posts are never
\* more than the processes: a consumer that gets through its semaphore finds a
\* process in its queue.
AvisosJustos ==
  SinCarreras =>
    /\ Len(cola.new) = sem.nuevo_proceso + Uno(largo.pc \in {"puerta", "pop_new"})
    /\ Len(cola.ready) + Len(cola.readyVRR) = sem.proceso_en_ready + Uno(CortoAvisado)
    /\ \A i \in Interfaces :
         hilo_io[i].pc # "cerrada" =>
           Len(conexion[i].cola_espera) = conexion[i].sem_cliente
             + Uno(hilo_io[i].pc \in {"peek", "respuesta", "puerta", "pop_espera"})
    /\ \A r \in Recursos :
         Len(recurso[r].procesos_en_espera) = recurso[r].procesos_en_cola
           + Uno(hilo_recurso[r].pc \in {"puerta", "peek", "wait_instancia", "pop_espera"})

\* Without FINALIZAR_PROCESO a scheduler, the console or the thread of an
\* interface or a resource dereferences NULL in two places only: where the
\* short-term scheduler looks an interface up again after existe_io_conectada,
\* in its validation and in the push; or where a list was spoilt before.
CaeSoloPorDesconexion ==
  caido => corto.pc \in {"validar", "a_io"} \/ ~SinCarreras

\* The places of process p: its positions in the queues, and the threads that
\* took it out of one queue and have not put it in the next.
Puestos(tipo, x, q, p) == {<<tipo, x, k>> : k \in {j \in DOMAIN q : q[j] = p}}

EnMano(tipo, x, hilo, p) ==
  {u \in {<<tipo, x, 0>>} : hilo = [pc |-> "push_ready", pcb |-> p]}

Lugares(p) ==
  (UNION {Puestos("cola", c, cola[c], p) : c \in DOMAIN cola})
  \cup (UNION {Puestos("conexion", i, conexion[i].cola_espera, p)
                 \cup EnMano("hilo_io", i, hilo_io[i], p) : i \in Interfaces})
  \cup (UNION {Puestos("recurso", r, recurso[r].procesos_en_espera, p)
                 \cup EnMano("hilo_recurso", r, hilo_recurso[r], p) : r \in Recursos})
  \cup EnMano("largo", Ninguno, largo, p)
  \cup {u \in {<<"corto", Ninguno, 0>>} :
          /\ corto.pcb = p
          /\ corto.pc \in {"despachar", "a_ready", "validar", "a_io", "a_espera", "exit"}}

\* Without FINALIZAR_PROCESO a created process is in exactly one place until two
\* threads meet in a list: but for that no hand-over loses it or leaves it in
\* two queues.
CadaProcesoEnUnLugar ==
  SinCarreras =>
    \A p \in Procesos : Cardinality(Lugares(p)) = Uno(estado[p] # "NO_CREADO")

\* What PROCESO_ESTADO prints agrees with the queue it prints it from.
EstadoSegunCola ==
  /\ \A k \in DOMAIN cola.new : estado[cola.new[k]] = "NEW"
  /\ \A k \in DOMAIN cola.ready : estado[cola.ready[k]] = "READY"
  /\ \A k \in DOMAIN cola.readyVRR : estado[cola.readyVRR[k]] = "READY_PRIORIDAD"
  /\ \A k \in DOMAIN cola.execute : estado[cola.execute[k]] = "EXECUTE"
  /\ \A k \in DOMAIN cola.exit : estado[cola.exit[k]] = "EXIT"
  /\ \A i \in Interfaces : \A p \in ToSet(conexion[i].cola_espera) : estado[p] = "BLOCKED"
  /\ \A r \in Recursos :
       \A p \in ToSet(recurso[r].procesos_en_espera) : estado[p] = "BLOCKED"

\* The slots of the multiprogramming degree: one per admitted process, until
\* its exit settles the degree, and the one the long-term scheduler reserves.
Admitido(p) == estado[p] \in {"READY", "READY_PRIORIDAD", "EXECUTE", "BLOCKED"}

LugaresOcupados ==
  Cardinality({p \in Procesos : Admitido(p)})
  + Uno(largo.pc # "sem_grado")
  + Uno(corto.pc \in {"exit_recursos", "grado", "diferencia"})

\* With at most one MULTIPROGRAMACION and no FINALIZAR_PROCESO, the slots free
\* and taken exceed the configured degree only by the reduction still owed.
GradoConservado ==
  sem.grado_multiprog + LugaresOcupados
    = grado.valor + (IF grado.diferencia < 0 THEN -grado.diferencia ELSE 0)

\* The instances of resource r that processes have, as many of each as the list
\* PIDs says.
Tomadas(r) == UNION {{p} \X (1 .. recurso[r].PIDs[p]) : p \in Procesos}

\* With programs that WAIT and SIGNAL in pairs, and until a list is spoilt, every
\* instance of a resource is either free or listed once for the process that has
\* it.
InstanciasConservadas ==
  SinCarreras =>
    \A r \in Recursos :
      recurso[r].instancias + Cardinality(Tomadas(r)) = InstanciasIniciales[r]

\* FINALIZAR_PROCESO may release twice what a running process holds, but while
\* no list is spoilt it never loses an instance.
InstanciasNoSePierden ==
  SinCarreras =>
    \A r \in Recursos :
      recurso[r].instancias + Cardinality(Tomadas(r)) >= InstanciasIniciales[r]

\* push_cola_exit queues the process in EXIT and releases its resources later,
\* with other threads in between: only the process that the short-term
\* scheduler is still releasing holds an instance in EXIT, and nobody gives one
\* to a process that is there.
ExitSinRecursos ==
  \A p \in ToSet(cola.exit) : \A r \in Recursos :
    recurso[r].PIDs[p] = 0 \/ (corto.pc = "exit_recursos" /\ corto.pcb = p)

\* A process that waits for a resource is blocked and the scheduler goes on: it
\* is never the scheduler that waits for an instance (planificador_corto.c:198).
PlanificadorNoEsperaInstancias ==
  corto.pc = "wait_recurso" => recurso[corto.arg].instancias > 0

\* A process that the console sent to EXIT stays there
\* (colas_planificador.c:300).
FinalizadoNoVuelve ==
  [][\A p \in Procesos : estado[p] = "EXIT" => estado'[p] = "EXIT"]_vars

\* The kernel implements the state diagram of a process.
Diagrama == INSTANCE EstadosProceso

ImplementaDiagrama == Diagrama!Spec

-----------------------------------------------------------------------------
(***************************************************************************)
(* Liveness                                                                *)
(***************************************************************************)
PausaTermina == <>[]planificacion_activada

\* The processes that come back from an interface go first under VRR: they may
\* keep READY waiting for ever, and it is no promise of the code that they do not.
PrioridadCesa == <>[](corto.pc # "pop_vrr")

\* The short-term scheduler found an instance, another thread took it, and the
\* scheduler sleeps in wait_recurso, which it left to no thread to undo.
EsperaInstancia == corto.pc = "wait_recurso" /\ recurso[corto.arg].instancias = 0

\* No process stays in the CPU for ever: it ends, blocks or is interrupted.
CpuDevuelve == []<>(~EjecutaEnCpu \/ EsperaInstancia)

\* Once the operator leaves the scheduling active, and if no list is spoilt, no
\* process keeps the CPU and the priority queue leaves room, every process in
\* READY gets the CPU, unless the kernel dies or the short-term scheduler falls
\* asleep first, in wait_recurso or in the copy of a mutex.
ListoLlegaACpu ==
  PausaTermina /\ []SinCarreras /\ CpuDevuelve /\ PrioridadCesa =>
    \A p \in Procesos :
      (estado[p] = "READY")
        ~> (estado[p] = "EXECUTE" \/ caido \/ EsperaInstancia \/ corto.pc = "colgado")

\* Once the operator leaves the scheduling active, and if no list is spoilt, a
\* process queued on an interface comes back to READY, unless the interface
\* disconnects or the kernel dies first.
BloqueadoVuelve ==
  PausaTermina /\ []SinCarreras =>
    \A p \in Procesos, i \in Interfaces :
      (p \in ToSet(conexion[i].cola_espera))
        ~> (estado[p] # "BLOCKED" \/ hilo_io[i].pc = "cerrada" \/ caido)
=============================================================================
