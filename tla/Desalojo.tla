----------------------------- MODULE Desalojo -----------------------------
(***************************************************************************)
(* Who holds the PCB, and who may take it off the CPU: the dispatch and    *)
(* interrupt threads of the CPU, the short-term scheduler that waits for   *)
(* the answer, and the quantum threads.  The PCB travels as the packets of *)
(* Mensajes.  The queues' semaphores, the pause and the resources' waits   *)
(* are module Kernel's; here READY is a queue and BLOCKED a set.           *)
(***************************************************************************)
EXTENDS Integers, FiniteSets, Mensajes

CONSTANTS
  Procesos,
  Algoritmos,    \* ALGORITMO_PLANIFICACION: one of these
  Quantum,       \* config->quantum
  UltimoPc,      \* bound: the last instruction of the programs
  MaxDespachos,  \* bound: dispatches (and so quantum threads)
  MaxUsuario     \* bound: interruptions asked by the console

ASSUME DesalojoOK ==
  /\ Algoritmos \subseteq {"FIFO", "RR", "VRR"}
  /\ IsFiniteSet(Procesos)
  /\ Quantum \in Nat /\ UltimoPc \in Nat /\ MaxDespachos \in Nat /\ MaxUsuario \in Nat
  /\ NULL \notin Procesos

VARIABLES
  algoritmo,
  cola_ready, cola_readyVRR, cola_execute, bloqueados, cola_exit,
  sem_cpu_libre,
  corto,                \* where the short-term scheduler is
  pcb,                  \* the PCB it last sent or received
  motivo_recibido,      \* the code it is serving
  dispatch,             \* socket_cpu_dispatch, kernel to CPU
  respuesta,            \* socket_cpu_dispatch, CPU to kernel
  interrupt,            \* socket_cpu_interrupt
  hilos,                \* quantum threads asleep, by number
  hilo_quantum,         \* the last one created
  despachos,            \* dispatches so far
  usuario,              \* interruptions asked so far
  cpu,                  \* where the dispatch thread of the CPU is
  pcb_actual, liberado, \* the global PCB of the CPU, and whether it was freed
  tengo_pcb,
  INTERRUPTION_FLAG, MOTIVO_INTERRUPCION,
  hiloInterrupt,        \* the code the interrupt thread has still to store, or NULL
  aceptadas             \* interruptions accepted minus evictions made: see below

kernelVars == <<algoritmo, cola_ready, cola_readyVRR, cola_execute, bloqueados, cola_exit,
                sem_cpu_libre, corto, pcb, motivo_recibido, hilos, hilo_quantum, despachos,
                usuario>>
cpuVars == <<cpu, pcb_actual, liberado, tengo_pcb>>
interVars == <<INTERRUPTION_FLAG, MOTIVO_INTERRUPCION, hiloInterrupt, aceptadas>>
vars == <<kernelVars, dispatch, respuesta, interrupt, cpuVars, interVars>>

-----------------------------------------------------------------------------
crear_pcb(id) ==
  [pid |-> id, pc |-> 0, quantum |-> Quantum, estado |-> "READY",
   registros |-> [r \in Registro |-> 0], solicitud |-> NULL]

EnEstado(p, estado) == [p EXCEPT !.estado = estado]

Init ==
  /\ algoritmo \in Algoritmos
  \* In the order they were created.
  /\ cola_ready = CHOOSE s \in [1 .. Cardinality(Procesos) -> {crear_pcb(p) : p \in Procesos}] :
                    \A p \in Procesos : \E i \in DOMAIN s : s[i].pid = p
  /\ cola_readyVRR = <<>> /\ cola_execute = <<>>
  /\ bloqueados = {} /\ cola_exit = {}
  /\ sem_cpu_libre = 1
  /\ corto = "inicio" /\ pcb = NULL /\ motivo_recibido = NULL
  /\ dispatch = <<>> /\ respuesta = <<>> /\ interrupt = <<>>
  /\ hilos = {} /\ hilo_quantum = 0 /\ despachos = 0 /\ usuario = 0
  /\ cpu = "recibir" /\ pcb_actual = NULL /\ liberado = FALSE /\ tengo_pcb = FALSE
  \* MOTIVO_INTERRUPCION starts as the first op_code.
  /\ INTERRUPTION_FLAG = FALSE /\ MOTIVO_INTERRUPCION = "MENSAJE"
  /\ hiloInterrupt = NULL /\ aceptadas = 0

-----------------------------------------------------------------------------
(***************************************************************************)
(* Kernel: dispatch                                                        *)
(***************************************************************************)
HayListo == cola_readyVRR # <<>> \/ cola_ready # <<>>

\* Pops READY (the priority queue first), pushes EXECUTE and sends the PCB.
CortoDespacha ==
  /\ corto = "inicio" /\ HayListo /\ sem_cpu_libre > 0
  /\ despachos < MaxDespachos
  /\ despachos' = despachos + 1
  /\ sem_cpu_libre' = sem_cpu_libre - 1
  /\ LET prioridad == cola_readyVRR # <<>>
         elegido == EnEstado(Head(IF prioridad THEN cola_readyVRR ELSE cola_ready), "EXECUTE")
     IN  /\ cola_readyVRR' = IF prioridad THEN Tail(cola_readyVRR) ELSE cola_readyVRR
         /\ cola_ready' = IF prioridad THEN cola_ready ELSE Tail(cola_ready)
         /\ cola_execute' = Append(cola_execute, elegido)
         /\ pcb' = elegido
         /\ dispatch' = Append(dispatch, enviar_pcb(elegido, "DISPATCH_PROCESO"))
  /\ corto' = IF algoritmo = "FIFO" THEN "esperar" ELSE "crear_hilo"
  /\ UNCHANGED <<algoritmo, bloqueados, cola_exit, motivo_recibido, hilos, hilo_quantum,
                 usuario, respuesta, interrupt, cpuVars, interVars>>

CrearHiloQuantum ==
  /\ corto = "crear_hilo"
  /\ hilo_quantum' = despachos
  /\ hilos' = hilos \cup {despachos}
  /\ corto' = "esperar"
  /\ UNCHANGED <<algoritmo, cola_ready, cola_readyVRR, cola_execute, bloqueados, cola_exit,
                 sem_cpu_libre, pcb, motivo_recibido, despachos, usuario, dispatch, respuesta,
                 interrupt, cpuVars, interVars>>

(***************************************************************************)
(* interrumpir_proceso_ejecutando, by a quantum thread when its sleep ends *)
(* or by the console: whoever is in EXECUTE at that moment.  The message   *)
(* may be read much later, which is what a late send amounts to.           *)
(***************************************************************************)
\* Defect: the process looked at is the next one, not the one that runs.
Interrumpir_AlSiguiente(motivo) ==
  interrupt' = IF cola_ready = <<>> THEN interrupt
               ELSE Append(interrupt, [codigo |-> motivo, pid |-> Head(cola_ready).pid])

Interrumpir(motivo) ==
  interrupt' = IF cola_execute = <<>> THEN interrupt
               ELSE Append(interrupt, [codigo |-> motivo, pid |-> Head(cola_execute).pid])

VenceQuantum(h) ==
  /\ h \in hilos
  /\ hilos' = hilos \ {h}
  /\ Interrumpir("INTERRUPCION_QUANTUM")
  /\ UNCHANGED <<algoritmo, cola_ready, cola_readyVRR, cola_execute, bloqueados, cola_exit,
                 sem_cpu_libre, corto, pcb, motivo_recibido, hilo_quantum, despachos,
                 usuario, dispatch, respuesta, cpuVars, interVars>>

\* FINALIZAR_PROCESO of the process in EXECUTE.
FinalizarEnEjecucion ==
  /\ usuario < MaxUsuario /\ cola_execute # <<>>
  /\ usuario' = usuario + 1
  /\ Interrumpir("INTERRUPCION_USUARIO")
  /\ UNCHANGED <<algoritmo, cola_ready, cola_readyVRR, cola_execute, bloqueados, cola_exit,
                 sem_cpu_libre, corto, pcb, motivo_recibido, hilos, hilo_quantum,
                 despachos, dispatch, respuesta, cpuVars, interVars>>

-----------------------------------------------------------------------------
(***************************************************************************)
(* Kernel: the answer of the CPU                                           *)
(***************************************************************************)
CodigosAtendidos ==
  {"PROCESO_TERMINADO", "PROCESO_BLOQUEADO_IO", "INTERRUPCION_USUARIO",
   "INTERRUPCION_QUANTUM", "ERROR_DE_PROCESAMIENTO", "OUT_OF_MEMORY",
   "PROCESO_SOLICITA_RECURSO", "PROCESO_LIBERA_RECURSO"}

\* cancelar_hilo_quantum, called for two of the codes.
CancelaHilo(codigo) ==
  hilos' = IF codigo \in {"PROCESO_TERMINADO", "PROCESO_BLOQUEADO_IO"}
           THEN hilos \ {hilo_quantum} ELSE hilos

CortoRecibe ==
  /\ corto = "esperar" /\ respuesta # <<>>
  /\ LET paquete == Head(respuesta)
     IN  /\ respuesta' = Tail(respuesta)
         /\ CancelaHilo(paquete.codigo)
         /\ IF paquete.codigo \in CodigosAtendidos
            THEN /\ pcb' = recibir_pcb(paquete.campos)
                 /\ motivo_recibido' = paquete.codigo
                 /\ corto' = "atender"
            \* default: nothing is done, and the CPU is never free again
            ELSE corto' = "inicio" /\ UNCHANGED <<pcb, motivo_recibido>>
  /\ UNCHANGED <<algoritmo, cola_ready, cola_readyVRR, cola_execute, bloqueados, cola_exit,
                 sem_cpu_libre, hilo_quantum, despachos, usuario, dispatch, interrupt,
                 cpuVars, interVars>>

Atiende(codigos) == corto = "atender" /\ motivo_recibido \in codigos

LiberaCpu ==
  /\ cola_execute' = Tail(cola_execute)     \* pop_and_destroy_execute
  /\ sem_cpu_libre' = sem_cpu_libre + 1
  /\ corto' = "inicio"
  /\ UNCHANGED <<pcb, dispatch>>

CortoMandaAExit(codigos) ==
  /\ Atiende(codigos)
  /\ cola_exit' = cola_exit \cup {pcb.pid}
  /\ LiberaCpu
  /\ UNCHANGED <<cola_ready, cola_readyVRR, bloqueados>>

\* A process ends, or asks for an interface or a resource that does not exist.
CortoFinaliza ==
  CortoMandaAExit({"PROCESO_TERMINADO", "INTERRUPCION_USUARIO", "ERROR_DE_PROCESAMIENTO",
                   "OUT_OF_MEMORY", "PROCESO_BLOQUEADO_IO", "PROCESO_SOLICITA_RECURSO",
                   "PROCESO_LIBERA_RECURSO"})

CortoFinQuantum ==
  /\ Atiende({"INTERRUPCION_QUANTUM"})
  /\ cola_ready' = Append(cola_ready, [EnEstado(pcb, "READY") EXCEPT !.quantum = Quantum])
  /\ LiberaCpu
  /\ UNCHANGED <<cola_readyVRR, bloqueados, cola_exit>>

\* The quantum a process blocked on an interface keeps, if it used q_usado.
\* Defect: what was used is subtracted without looking.
QuantumRestante_SinGuarda(quantum, q_usado) ==
  CASE algoritmo = "FIFO" -> quantum
    [] algoritmo = "RR"   -> Quantum
    [] algoritmo = "VRR"  -> quantum - q_usado

QuantumRestante(quantum, q_usado) ==
  CASE algoritmo = "FIFO" -> quantum
    [] algoritmo = "RR"   -> Quantum
    [] algoritmo = "VRR"  -> IF q_usado > quantum THEN Quantum ELSE quantum - q_usado

Bloqueado(p) == bloqueados' = bloqueados \cup {EnEstado(p, "BLOCKED")}

CortoBloqueaEnIO ==
  /\ Atiende({"PROCESO_BLOQUEADO_IO"})
  /\ \E q_usado \in 0 .. Quantum + 1 :
       Bloqueado([pcb EXCEPT !.quantum = QuantumRestante(@, q_usado)])
  /\ LiberaCpu
  /\ UNCHANGED <<cola_ready, cola_readyVRR, cola_exit>>

CortoBloqueaEnRecurso ==
  /\ Atiende({"PROCESO_SOLICITA_RECURSO"})
  /\ Bloqueado(pcb)
  /\ LiberaCpu
  /\ UNCHANGED <<cola_ready, cola_readyVRR, cola_exit>>

\* WAIT of an available instance, or SIGNAL: back to the CPU, same quantum thread.
CortoRedespacha ==
  /\ Atiende({"PROCESO_SOLICITA_RECURSO", "PROCESO_LIBERA_RECURSO"})
  /\ pcb' = [pcb EXCEPT !.solicitud = NULL]
  /\ dispatch' = Append(dispatch, enviar_pcb(pcb', "DISPATCH_PROCESO"))
  /\ corto' = "esperar"
  /\ UNCHANGED <<cola_ready, cola_readyVRR, cola_execute, bloqueados, cola_exit, sem_cpu_libre>>

CortoAtiende ==
  /\ \/ CortoFinaliza
     \/ CortoFinQuantum
     \/ CortoBloqueaEnIO
     \/ CortoBloqueaEnRecurso
     \/ CortoRedespacha
  /\ UNCHANGED <<algoritmo, motivo_recibido, hilos, hilo_quantum, despachos, usuario, respuesta,
                 interrupt, cpuVars, interVars>>

EsDeIO(p) == p.solicitud.instruc_io_tokenizadas[1] # "WAIT"

\* The interface or the resource serves a blocked process.  Only the
\* interface clears the request.
Desbloquear(p) ==
  /\ p \in bloqueados
  /\ bloqueados' = bloqueados \ {p}
  /\ LET limpio == IF EsDeIO(p) THEN [p EXCEPT !.solicitud = NULL] ELSE p
     IN  IF EsDeIO(p) /\ algoritmo = "VRR"
         THEN /\ cola_readyVRR' = Append(cola_readyVRR, EnEstado(limpio, "READY_PRIORIDAD"))
              /\ UNCHANGED cola_ready
         ELSE /\ cola_ready' = Append(cola_ready, EnEstado(limpio, "READY"))
              /\ UNCHANGED cola_readyVRR
  /\ UNCHANGED <<algoritmo, cola_execute, cola_exit, sem_cpu_libre, corto, pcb,
                 motivo_recibido, hilos, hilo_quantum, despachos, usuario, dispatch, respuesta,
                 interrupt, cpuVars, interVars>>

-----------------------------------------------------------------------------
(***************************************************************************)
(* CPU: server_dispatch and the instruction cycle                          *)
(***************************************************************************)
CpuRecibe ==
  /\ cpu = "recibir" /\ dispatch # <<>>
  /\ dispatch' = Tail(dispatch)
  /\ pcb_actual' = recibir_pcb(Head(dispatch).campos)
  /\ liberado' = FALSE /\ tengo_pcb' = TRUE
  /\ cpu' = "fetch"
  /\ UNCHANGED <<kernelVars, respuesta, interrupt, interVars>>

\* The memory does not answer the fetch: the cycle ends and nobody is told.
CpuFetchFalla ==
  /\ cpu = "fetch"
  /\ tengo_pcb' = FALSE
  /\ cpu' = "soltar"
  /\ UNCHANGED <<kernelVars, dispatch, respuesta, interrupt, pcb_actual, liberado, interVars>>

siguiente_pc(p) == [p EXCEPT !.pc = @ + 1]

\* Fetch, decode and execute of an instruction that does not return the PCB.
Instruccion ==
  /\ cpu = "fetch"
  /\ cpu' = "check"
  /\ UNCHANGED <<kernelVars, dispatch, interrupt, liberado, interVars>>

\* SET, SUM, SUB, MOV_IN, MOV_OUT, COPY_STRING, RESIZE with memory.
CpuEjecuta ==
  /\ Instruccion /\ pcb_actual.pc <= UltimoPc
  /\ \E v \in {pcb_actual.registros["si"], 1} :
       pcb_actual' = [siguiente_pc(pcb_actual) EXCEPT !.registros["si"] = v]
  /\ UNCHANGED <<respuesta, tengo_pcb>>

CpuJNZ ==
  /\ Instruccion /\ pcb_actual.pc <= UltimoPc
  /\ \E destino \in 0 .. UltimoPc : pcb_actual' = [pcb_actual EXCEPT !.pc = destino]
  /\ UNCHANGED <<respuesta, tengo_pcb>>

\* An instruction that gives the PCB back.
Devuelve(p, codigo) ==
  /\ tengo_pcb' = FALSE
  /\ respuesta' = Append(respuesta, enviar_pcb(p, codigo))

\* RESIZE without memory: the counter moves after the PCB was sent.
CpuSinMemoria ==
  /\ Instruccion /\ pcb_actual.pc <= UltimoPc
  /\ Devuelve(pcb_actual, "OUT_OF_MEMORY")
  /\ pcb_actual' = siguiente_pc(pcb_actual)

Solicitudes ==
  {<<"PROCESO_BLOQUEADO_IO", <<"IO_GEN_SLEEP", "GEN", "1">>, NULL>>,
   <<"PROCESO_BLOQUEADO_IO", <<"IO_STDIN_READ", "TECLADO", "AX", "BX">>,
     <<[direccion_fisica |-> 3, tam_dato |-> 1], [direccion_fisica |-> 8, tam_dato |-> 2]>> >>,
   <<"PROCESO_SOLICITA_RECURSO", <<"WAIT", "RA">>, NULL>>,
   <<"PROCESO_LIBERA_RECURSO", <<"SIGNAL", "RA">>, NULL>>}

ASSUME NullNoEsLista == \A s \in Solicitudes : s[2] # NULL

\* WAIT, SIGNAL and the instructions of the interfaces (desalojar_pcb).
CpuDesaloja ==
  /\ Instruccion /\ pcb_actual.pc <= UltimoPc
  /\ \E s \in Solicitudes :
       /\ pcb_actual' = [siguiente_pc(pcb_actual) EXCEPT !.solicitud = crear_solicitud_io(s[2], s[3])]
       /\ Devuelve(pcb_actual', s[1])

\* EXIT; past the end of the program, or with an unknown word, an error.
CpuTermina ==
  /\ Instruccion
  /\ \E codigo \in {"PROCESO_TERMINADO", "ERROR_DE_PROCESAMIENTO"} :
       /\ pcb_actual.pc > UltimoPc => codigo = "ERROR_DE_PROCESAMIENTO"
       /\ Devuelve(pcb_actual, codigo)
  /\ UNCHANGED pcb_actual

\* checkInterrupt: the flag is read and lowered; a PCB already returned
\* leaves nothing to do.
\* Defect: the flag stays raised.
CheckInterrupt_SinBajar ==
  /\ cpu = "check"
  /\ tengo_pcb' = (tengo_pcb /\ ~INTERRUPTION_FLAG)
  /\ cpu' = IF ~tengo_pcb THEN "soltar" ELSE IF INTERRUPTION_FLAG THEN "enviar" ELSE "fetch"
  /\ UNCHANGED <<kernelVars, dispatch, respuesta, interrupt, pcb_actual, liberado, interVars>>

\* Defect: the PCB is sent whoever has it.
CheckInterrupt_SinMirar ==
  /\ cpu = "check"
  /\ INTERRUPTION_FLAG' = FALSE
  /\ tengo_pcb' = (tengo_pcb /\ ~INTERRUPTION_FLAG)
  /\ cpu' = IF INTERRUPTION_FLAG THEN "enviar" ELSE IF tengo_pcb THEN "fetch" ELSE "soltar"
  /\ UNCHANGED <<kernelVars, dispatch, respuesta, interrupt, pcb_actual, liberado,
                 MOTIVO_INTERRUPCION, hiloInterrupt, aceptadas>>

CheckInterrupt ==
  /\ cpu = "check"
  /\ INTERRUPTION_FLAG' = FALSE
  /\ tengo_pcb' = (tengo_pcb /\ ~INTERRUPTION_FLAG)
  /\ cpu' = IF ~tengo_pcb THEN "soltar" ELSE IF INTERRUPTION_FLAG THEN "enviar" ELSE "fetch"
  /\ UNCHANGED <<kernelVars, dispatch, respuesta, interrupt, pcb_actual, liberado,
                 MOTIVO_INTERRUPCION, hiloInterrupt, aceptadas>>

CpuEnviaInterrumpido ==
  /\ cpu = "enviar"
  /\ respuesta' = Append(respuesta, enviar_pcb(pcb_actual, MOTIVO_INTERRUPCION))
  /\ cpu' = "soltar"
  /\ aceptadas' = aceptadas - 1
  /\ UNCHANGED <<kernelVars, dispatch, interrupt, pcb_actual, liberado, tengo_pcb,
                 INTERRUPTION_FLAG, MOTIVO_INTERRUPCION, hiloInterrupt>>

\* free(pcb_actual): the pointer stays.
CpuSuelta ==
  /\ cpu = "soltar"
  /\ liberado' = TRUE
  /\ cpu' = "recibir"
  /\ UNCHANGED <<kernelVars, dispatch, respuesta, interrupt, pcb_actual, tengo_pcb, interVars>>

(***************************************************************************)
(* CPU: server_interrupt                                                   *)
(***************************************************************************)
\* The PID of a freed PCB may be anything.
Coincide(pid) ==
  IF liberado THEN BOOLEAN ELSE {pid = pcb_actual.pid}

InterrupcionLlega ==
  /\ interrupt # <<>> /\ hiloInterrupt = NULL /\ pcb_actual # NULL
  /\ interrupt' = Tail(interrupt)
  /\ \E coincide \in Coincide(Head(interrupt).pid) :
       IF coincide
       THEN /\ INTERRUPTION_FLAG' = TRUE
            /\ hiloInterrupt' = Head(interrupt).codigo
            /\ aceptadas' = aceptadas + 1
       ELSE UNCHANGED <<INTERRUPTION_FLAG, hiloInterrupt, aceptadas>>
  /\ UNCHANGED <<kernelVars, dispatch, respuesta, cpuVars, MOTIVO_INTERRUPCION>>

\* Before the first PCB the pointer is NULL: the CPU dies.
InterrupcionSinPcb ==
  /\ interrupt # <<>> /\ pcb_actual = NULL /\ cpu # "caida"
  /\ cpu' = "caida"
  /\ UNCHANGED <<kernelVars, dispatch, respuesta, interrupt, pcb_actual, liberado, tengo_pcb,
                 interVars>>

InterrupcionMotivo ==
  /\ hiloInterrupt # NULL
  /\ MOTIVO_INTERRUPCION' = hiloInterrupt
  /\ hiloInterrupt' = NULL
  /\ UNCHANGED <<kernelVars, dispatch, respuesta, interrupt, cpuVars, INTERRUPTION_FLAG,
                 aceptadas>>

-----------------------------------------------------------------------------
Kernel == CortoDespacha \/ CrearHiloQuantum \/ CortoRecibe \/ CortoAtiende

Ejecutar == CpuEjecuta \/ CpuJNZ \/ CpuSinMemoria \/ CpuDesaloja \/ CpuTermina

Cpu == CpuRecibe \/ Ejecutar \/ CheckInterrupt \/ CpuEnviaInterrumpido \/ CpuSuelta

Interrupciones == InterrupcionLlega \/ InterrupcionMotivo

Next ==
  \/ Kernel \/ Cpu \/ Interrupciones
  \/ CpuFetchFalla
  \/ InterrupcionSinPcb
  \/ FinalizarEnEjecucion
  \/ \E h \in hilos : VenceQuantum(h)
  \/ \E p \in bloqueados : Desbloquear(p)

Spec == Init /\ [][Next]_vars

\* The threads of the CPU and the quantum threads go on when they can.
SpecJusta ==
  /\ Spec
  /\ WF_vars(Cpu)
  /\ WF_vars(Interrupciones)
  /\ \A h \in 1 .. MaxDespachos : WF_vars(VenceQuantum(h))

-----------------------------------------------------------------------------
(***************************************************************************)
(* Properties                                                              *)
(***************************************************************************)
Pcb == [pid : Procesos, pc : 0 .. UltimoPc + 1, quantum : 0 .. Quantum,
        estado : {"READY", "READY_PRIORIDAD", "EXECUTE", "BLOCKED"},
        registros : [Registro -> {0, 1}],
        solicitud : {NULL} \cup {crear_solicitud_io(s[2], s[3]) : s \in Solicitudes}]

ASSUME NullNoEsPcb == NULL \notin Pcb

EnCola == {cola_ready[i] : i \in DOMAIN cola_ready}
            \cup {cola_readyVRR[i] : i \in DOMAIN cola_readyVRR}
            \cup {cola_execute[i] : i \in DOMAIN cola_execute} \cup bloqueados

(***************************************************************************)
(* Every PCB a queue, the CPU or the scheduler holds is well formed        *)
(* whatever packets it went through: its quantum stays between zero and    *)
(* the configured one (planificador_corto.c:104-110), and a process that   *)
(* runs past its program goes at most one instruction past it.             *)
(***************************************************************************)
TypeOK ==
  /\ EnCola \cup ({pcb, pcb_actual} \ {NULL}) \subseteq Pcb
  /\ cola_exit \subseteq Procesos
  /\ sem_cpu_libre \in {0, 1}
  /\ corto \in {"inicio", "crear_hilo", "esperar", "atender"}
  /\ cpu \in {"recibir", "fetch", "check", "enviar", "soltar", "caida"}
  /\ hilos \subseteq 1 .. MaxDespachos
  /\ MOTIVO_INTERRUPCION \in CodigosAtendidos \cup {"MENSAJE"}

\* The places from which a PCB may still reach the kernel or the CPU.
Duenos ==
  [i \in DOMAIN dispatch |-> recibir_pcb(dispatch[i].campos).pid]
    \o [i \in DOMAIN respuesta |-> recibir_pcb(respuesta[i].campos).pid]
    \o (IF tengo_pcb \/ cpu = "enviar" THEN <<pcb_actual.pid>> ELSE <<>>)
    \o (IF corto = "atender" THEN <<pcb.pid>> ELSE <<>>)

(***************************************************************************)
(* The PCB of the process in EXECUTE is in one place only: on its way to   *)
(* the CPU, in the CPU, on its way back, or in the hands of the scheduler. *)
(* The CPU never sends it twice (checkInterrupt.c:8 against execute.c), so *)
(* the answer the scheduler reads is that of the process it dispatched.    *)
(***************************************************************************)
UnSoloDueno ==
  /\ Len(Duenos) <= 1
  /\ Len(cola_execute) <= 1
  /\ Duenos # <<>> => cola_execute # <<>> /\ Head(cola_execute).pid = Duenos[1]
  /\ sem_cpu_libre = 1 => Duenos = <<>>

(***************************************************************************)
(* What arrives is what left: the packet on the way to the CPU unpacks to  *)
(* the PCB the scheduler sent, and the packet on the way back to the PCB   *)
(* of the CPU, registers, program counter and request included (pcb.c).    *)
(* RESIZE without memory moves its counter after sending.                  *)
(***************************************************************************)
PcbFiel ==
  /\ \A i \in DOMAIN dispatch : recibir_pcb(dispatch[i].campos) = pcb
  /\ \A i \in DOMAIN respuesta :
       LET recibido == recibir_pcb(respuesta[i].campos)
       IN  pcb_actual = IF respuesta[i].codigo = "OUT_OF_MEMORY"
                        THEN siguiente_pc(recibido) ELSE recibido

(***************************************************************************)
(* An interruption takes at most one process off the CPU: whatever process *)
(* the flag of checkInterrupt.c:4 hits, no more processes are evicted than *)
(* interruptions were accepted (conexion.c:125, 137).                      *)
(***************************************************************************)
UnDesalojoPorInterrupcion ==
  aceptadas >= Cardinality({x \in {"flag", "enviar"} :
                              (x = "flag" /\ INTERRUPTION_FLAG) \/ (x = "enviar" /\ cpu = "enviar")})

(***************************************************************************)
(* A process the CPU runs while the quantum thread of its dispatch sleeps  *)
(* leaves the CPU, though it loops for ever.                               *)
(***************************************************************************)
RafagaAcotada ==
  (tengo_pcb /\ corto = "esperar" /\ hilo_quantum \in hilos) ~> ~tengo_pcb

(***************************************************************************)
(* The comment of planificador_corto.c:149: a process that comes back with *)
(* INTERRUPCION_QUANTUM used its whole quantum, so the thread of its       *)
(* dispatch is no longer asleep.                                           *)
(***************************************************************************)
QuantumConsumido ==
  Atiende({"INTERRUPCION_QUANTUM"}) => hilo_quantum \notin hilos

=============================================================================
