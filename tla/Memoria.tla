------------------------------ MODULE Memoria ------------------------------
(***************************************************************************)
(* The memory module as its clients use it: the thread that serves the     *)
(* CPU, the thread that serves the kernel, the frames and page tables they *)
(* share, and the one kernel socket on which the console and the           *)
(* schedulers send requests and read answers.  Of the kernel only what     *)
(* decides those requests is here, a finalised process that a gestor_io    *)
(* puts back in READY (FinalizadoNoVuelve of Kernel) included.  What the   *)
(* frames hold is module Ejecucion's.                                      *)
(***************************************************************************)
EXTENDS Integers, FiniteSets, Sequences, SequencesExt

CONSTANTS
  MaxProcesos,      \* bound: INICIAR_PROCESO commands
  frames_totales,   \* TAM_MEMORIA / TAM_PAGINA
  BITS,             \* bits per byte of the bitmap: 8
  TamPagina,        \* config.tam_pagina
  MaxTamanio,       \* bound: largest RESIZE, in bytes
  NULL

ASSUME MemoriaOK ==
  /\ MaxProcesos \in Nat /\ frames_totales \in Nat /\ MaxTamanio \in Nat
  /\ BITS \in Nat \ {0} /\ TamPagina \in Nat \ {0}
  /\ NULL \notin Nat \cup {"kernel", "cpu", "tabla"}

\* The bitmap has whole bytes only: the frames of the last partial one are not used.
size_bitmap == (frames_totales \div BITS) * BITS
Frame == 0 .. size_bitmap - 1
Pid == 1 .. MaxProcesos
HiloKernel == {"consola", "corto"}

VARIABLES
  procesos_en_memoria,  \* the page table of each process loaded
  FRAME_BITMAP,
  PID_solicitado,       \* global: the process of the last fetch; 0 at start
  mutex_procesos_en_memoria,
  kernel,               \* the kernel thread: paso, and the process it is destroying
  cpu,                  \* the CPU thread: paso, and what it has computed
  aborto,               \* the thread that called abort(), "tabla" once a page table is
                        \* freed under the loop that uses it, or NULL
  pedidos, respuestas,  \* socket_kernel, both ways
  espera,               \* what each kernel thread asked and waits an answer for
  admitidos,            \* processes in the kernel's queues, or on the CPU
  finalizando,          \* the one the console took off its queue and has still to send to EXIT
  sacados,              \* those it took off, which a gestor_io may still be serving
  resucitados,          \* those a gestor_io put back in READY after that
  cruzados,             \* those whose CREAR was decided by another request's answer
  pcb_counter,
  enCpu                 \* the process the CPU runs

memVars == <<procesos_en_memoria, FRAME_BITMAP, PID_solicitado, mutex_procesos_en_memoria>>
colaVars == <<admitidos, finalizando, sacados, resucitados>>
clienteVars == <<espera, colaVars, cruzados, pcb_counter>>
vars == <<memVars, kernel, cpu, aborto, pedidos, respuestas, clienteVars, enCpu>>

KernelOcioso == [paso |-> "ocioso", pid |-> NULL, tabla |-> <<>>]
CpuOcioso == [paso |-> "ocioso", paginas |-> 0, frame |-> NULL]

Init ==
  /\ procesos_en_memoria = <<>> /\ FRAME_BITMAP = [f \in Frame |-> FALSE]
  /\ PID_solicitado = 0 /\ mutex_procesos_en_memoria = NULL
  /\ kernel = KernelOcioso /\ cpu = CpuOcioso /\ aborto = NULL
  /\ pedidos = <<>> /\ respuestas = <<>>
  /\ espera = [h \in HiloKernel |-> NULL] /\ admitidos = {} /\ cruzados = {}
  /\ finalizando = NULL /\ sacados = {} /\ resucitados = {}
  /\ pcb_counter = 1 /\ enCpu = NULL

-----------------------------------------------------------------------------
(***************************************************************************)
(* Frames and page tables                                                  *)
(***************************************************************************)
cargados == DOMAIN procesos_en_memoria

frames_libres == Cardinality({f \in Frame : ~FRAME_BITMAP[f]})

\* The first clear bit, or -1.
get_available_frame ==
  IF frames_libres = 0 THEN -1
  ELSE CHOOSE f \in Frame : ~FRAME_BITMAP[f] /\ \A g \in 0 .. f - 1 : FRAME_BITMAP[g]

marcar_frame_como(f, estado) == FRAME_BITMAP' = [FRAME_BITMAP EXCEPT ![f] = estado]

calcular_cantidad_de_paginas_por_bytes(bytes) == (bytes + TamPagina - 1) \div TamPagina

tabla == IF PID_solicitado \in cargados THEN procesos_en_memoria[PID_solicitado] ELSE <<>>
cantidad_de_paginas == Len(tabla)

\* The lookup takes the mutex and aborts when PID_solicitado is not loaded; then
\* nothing else matters, for the module is gone.
get_table_by_PID(hilo) ==
  /\ mutex_procesos_en_memoria = NULL
  /\ aborto' = IF PID_solicitado \in cargados THEN NULL ELSE hilo

-----------------------------------------------------------------------------
(***************************************************************************)
(* The thread that serves the kernel                                       *)
(***************************************************************************)
RecibePedido(op) == kernel.paso = "ocioso" /\ pedidos # <<>> /\ Head(pedidos).op = op
Responde(status, pid) == respuestas' = Append(respuestas, [status |-> status, pid |-> pid])

\* Defect: the process is never added to the list.
cargar_proceso_en_memoria_SinAgregar(pid, existe) ==
  procesos_en_memoria' = procesos_en_memoria

cargar_proceso_en_memoria(pid, existe) ==
  procesos_en_memoria' =
    [q \in cargados \cup {r \in {pid} : existe} |->
       IF q = pid THEN <<>> ELSE procesos_en_memoria[q]]

CrearProceso ==
  /\ RecibePedido("CREAR") /\ mutex_procesos_en_memoria = NULL
  /\ \E existe \in BOOLEAN :
       /\ cargar_proceso_en_memoria(Head(pedidos).pid, existe)
       /\ Responde(IF existe THEN "SUCCESS" ELSE "ERROR", Head(pedidos).pid)
  /\ pedidos' = Tail(pedidos)
  /\ UNCHANGED <<FRAME_BITMAP, PID_solicitado, mutex_procesos_en_memoria, kernel, cpu, aborto,
                 clienteVars, enCpu>>

\* Before freeing, the log asks for the pages of PID_solicitado, whoever that is.
LiberarRegistra ==
  /\ RecibePedido("LIBERAR")
  /\ get_table_by_PID("kernel")
  /\ kernel' = [KernelOcioso EXCEPT !.paso = "liberar", !.pid = Head(pedidos).pid]
  /\ pedidos' = Tail(pedidos)
  /\ UNCHANGED <<memVars, cpu, respuestas, clienteVars, enCpu>>

\* The loops of agregar_paginas and quitar_paginas hold the table, not the mutex.
TablaEnUso(pid) ==
  pid = PID_solicitado /\ cpu.paso \in {"agregar", "marcar", "quitar", "desmarcar"}

\* The table is freed under the loop that goes on with it: what follows is
\* undefined, and the model follows it no further.
LiberarEnUso ==
  /\ kernel.paso = "liberar" /\ mutex_procesos_en_memoria = NULL /\ TablaEnUso(kernel.pid)
  /\ aborto' = "tabla"
  /\ UNCHANGED <<memVars, kernel, cpu, pedidos, respuestas, clienteVars, enCpu>>

\* The mutex is held until the last frame is back.  Freeing what is not there does nothing.
LiberarProceso ==
  /\ kernel.paso = "liberar" /\ mutex_procesos_en_memoria = NULL /\ ~TablaEnUso(kernel.pid)
  /\ mutex_procesos_en_memoria' = "kernel"
  /\ procesos_en_memoria' = [q \in cargados \ {kernel.pid} |-> procesos_en_memoria[q]]
  /\ kernel' = [kernel EXCEPT
       !.paso = "quitar",
       !.tabla = IF kernel.pid \in cargados THEN procesos_en_memoria[kernel.pid] ELSE <<>>]
  /\ UNCHANGED <<FRAME_BITMAP, PID_solicitado, cpu, aborto, pedidos, respuestas, clienteVars,
                 enCpu>>

\* The list is out of everybody's reach: its last page and the bit go in one step.
LiberarPagina ==
  /\ kernel.paso = "quitar" /\ kernel.tabla # <<>>
  /\ marcar_frame_como(Last(kernel.tabla), FALSE)
  /\ kernel' = [kernel EXCEPT !.tabla = Front(kernel.tabla)]
  /\ UNCHANGED <<procesos_en_memoria, PID_solicitado, mutex_procesos_en_memoria, cpu, aborto,
                 pedidos, respuestas, clienteVars, enCpu>>

\* Defect: the mutex is not unlocked.
LiberarTermina_SinSoltar ==
  /\ kernel.paso = "quitar" /\ kernel.tabla = <<>>
  /\ Responde("SUCCESS", kernel.pid)
  /\ kernel' = KernelOcioso
  /\ UNCHANGED <<procesos_en_memoria, FRAME_BITMAP, PID_solicitado, mutex_procesos_en_memoria,
                 cpu, aborto, pedidos, clienteVars, enCpu>>

LiberarTermina ==
  /\ kernel.paso = "quitar" /\ kernel.tabla = <<>>
  /\ mutex_procesos_en_memoria' = NULL
  /\ Responde("SUCCESS", kernel.pid)
  /\ kernel' = KernelOcioso
  /\ UNCHANGED <<procesos_en_memoria, FRAME_BITMAP, PID_solicitado, cpu, aborto, pedidos,
                 clienteVars, enCpu>>

gestionar_solicitudes_kernel ==
  \/ CrearProceso \/ LiberarRegistra \/ LiberarEnUso \/ LiberarProceso \/ LiberarPagina
  \/ LiberarTermina

-----------------------------------------------------------------------------
(***************************************************************************)
(* The thread that serves the CPU                                          *)
(***************************************************************************)
CpuSigue(paso) == cpu' = [cpu EXCEPT !.paso = paso]
SoloCpu == UNCHANGED <<memVars, kernel, pedidos, respuestas, clienteVars>>

recibir_fetch_de_cpu ==
  /\ cpu.paso = "ocioso" /\ enCpu # NULL
  /\ PID_solicitado' = enCpu
  /\ CpuSigue("instruccion")
  /\ UNCHANGED <<procesos_en_memoria, FRAME_BITMAP, mutex_procesos_en_memoria, kernel, aborto,
                 pedidos, respuestas, clienteVars, enCpu>>

\* get_instr_by_pc does not take the mutex.  A text that is no instruction
\* ("PID NOT FOUND", "OUT OF BOUNDS") and EXIT make the CPU give the process up;
\* so does, for this module, whatever else makes it leave the CPU.
enviar_instruccion_a_cpu ==
  /\ cpu.paso = "instruccion"
  /\ \/ cpu' = CpuOcioso /\ enCpu' \in {enCpu, NULL}
        /\ (PID_solicitado \notin cargados => enCpu' = NULL)
     \/ /\ PID_solicitado \in cargados
        /\ \E bytes \in 0 .. MaxTamanio :
             cpu' = [paso |-> "redimensionar", frame |-> NULL,
                     paginas |-> calcular_cantidad_de_paginas_por_bytes(bytes)]
        /\ UNCHANGED enCpu
  /\ SoloCpu /\ UNCHANGED aborto

\* Defect: the free frames are not looked at.
puedo_agregar_o_disminuir_SinComparar(paginas) == TRUE

\* Shrinking compares unsigned numbers with zero: it is always allowed.
puedo_agregar_o_disminuir(paginas) ==
  paginas >= cantidad_de_paginas => frames_libres >= paginas - cantidad_de_paginas

RedimensionarVerifica ==
  /\ cpu.paso = "redimensionar"
  /\ get_table_by_PID("cpu")
  /\ \/ puedo_agregar_o_disminuir(cpu.paginas) /\ CpuSigue("aplicar") /\ UNCHANGED enCpu
     \/ ~puedo_agregar_o_disminuir(cpu.paginas) /\ cpu' = CpuOcioso /\ enCpu' = NULL
  /\ SoloCpu

\* The pages to add or to take away are counted once.
redimensionar_memoria_proceso ==
  /\ cpu.paso = "aplicar"
  /\ get_table_by_PID("cpu")
  /\ cpu' = IF cpu.paginas >= cantidad_de_paginas
            THEN [cpu EXCEPT !.paso = "por_agregar", !.paginas = @ - cantidad_de_paginas]
            ELSE [cpu EXCEPT !.paso = "por_quitar", !.paginas = cantidad_de_paginas - @]
  /\ SoloCpu /\ UNCHANGED enCpu

\* Each loop looks the process up again.  To take pages away the lookup does not
\* abort: it gives a NULL, and the module falls when it is used.
BuscaTabla ==
  /\ cpu.paso \in {"por_agregar", "por_quitar"}
  /\ get_table_by_PID("cpu")
  /\ CpuSigue(IF cpu.paso = "por_agregar" THEN "agregar" ELSE "quitar")
  /\ SoloCpu /\ UNCHANGED enCpu

ConTabla(nueva) ==
  procesos_en_memoria' =
    [q \in cargados |-> IF q = PID_solicitado THEN nueva ELSE procesos_en_memoria[q]]

\* One page: the search and the list first, the bit in a step of its own.
agregar_paginas ==
  /\ cpu.paso = "agregar" /\ cpu.paginas > 0
  /\ ConTabla(Append(tabla, get_available_frame))
  /\ cpu' = [cpu EXCEPT !.paso = "marcar", !.frame = get_available_frame]
  /\ UNCHANGED <<FRAME_BITMAP, PID_solicitado, mutex_procesos_en_memoria, kernel, aborto,
                 pedidos, respuestas, clienteVars, enCpu>>

AgregarMarca ==
  /\ cpu.paso = "marcar"
  /\ marcar_frame_como(cpu.frame, TRUE)
  /\ cpu' = [cpu EXCEPT !.paso = "agregar", !.paginas = @ - 1, !.frame = NULL]
  /\ UNCHANGED <<procesos_en_memoria, PID_solicitado, mutex_procesos_en_memoria, kernel, aborto,
                 pedidos, respuestas, clienteVars, enCpu>>

\* Defect: the bit of the page taken away is never cleared.
quitar_paginas_SinMarcar ==
  /\ cpu.paso = "quitar" /\ cpu.paginas > 0
  /\ ConTabla(Front(tabla))
  /\ cpu' = [cpu EXCEPT !.paginas = @ - 1]
  /\ UNCHANGED <<FRAME_BITMAP, PID_solicitado, mutex_procesos_en_memoria, kernel, aborto,
                 pedidos, respuestas, clienteVars, enCpu>>

quitar_paginas ==
  /\ cpu.paso = "quitar" /\ cpu.paginas > 0
  /\ ConTabla(Front(tabla))
  /\ cpu' = [cpu EXCEPT !.paso = "desmarcar", !.frame = Last(tabla)]
  /\ UNCHANGED <<FRAME_BITMAP, PID_solicitado, mutex_procesos_en_memoria, kernel, aborto,
                 pedidos, respuestas, clienteVars, enCpu>>

QuitarMarca ==
  /\ cpu.paso = "desmarcar"
  /\ marcar_frame_como(cpu.frame, FALSE)
  /\ cpu' = [cpu EXCEPT !.paso = "quitar", !.paginas = @ - 1, !.frame = NULL]
  /\ UNCHANGED <<procesos_en_memoria, PID_solicitado, mutex_procesos_en_memoria, kernel, aborto,
                 pedidos, respuestas, clienteVars, enCpu>>

RedimensionarTermina ==
  /\ cpu.paso \in {"agregar", "quitar"} /\ cpu.paginas = 0
  /\ CpuSigue("mostrar")
  /\ SoloCpu /\ UNCHANGED <<aborto, enCpu>>

\* Defect: the status leaves before the table is shown, and the CPU goes on.
mostrar_tabla_paginas_TrasResponder ==
  /\ cpu.paso = "mostrar"
  /\ \/ get_table_by_PID("cpu") /\ cpu' = CpuOcioso /\ UNCHANGED enCpu
     \/ enCpu # NULL /\ enCpu' = NULL /\ UNCHANGED <<cpu, aborto>>
  /\ SoloCpu

\* Only after this last lookup does the CPU get its SUCCESS.
mostrar_tabla_paginas ==
  /\ cpu.paso = "mostrar"
  /\ get_table_by_PID("cpu")
  /\ cpu' = CpuOcioso
  /\ SoloCpu /\ UNCHANGED enCpu

gestionar_solicitudes_cpu ==
  \/ recibir_fetch_de_cpu \/ enviar_instruccion_a_cpu \/ RedimensionarVerifica
  \/ redimensionar_memoria_proceso \/ BuscaTabla \/ agregar_paginas \/ AgregarMarca
  \/ quitar_paginas \/ QuitarMarca \/ RedimensionarTermina \/ mostrar_tabla_paginas

-----------------------------------------------------------------------------
(***************************************************************************)
(* The kernel: console and short-term scheduler on one socket              *)
(***************************************************************************)
SoloCliente == UNCHANGED <<memVars, kernel, cpu, aborto>>

Pide(hilo, op, pid) ==
  /\ espera[hilo] = NULL
  /\ pedidos' = Append(pedidos, [op |-> op, pid |-> pid])
  /\ espera' = [espera EXCEPT ![hilo] = [op |-> op, pid |-> pid]]

IniciarProceso ==
  /\ pcb_counter <= MaxProcesos /\ finalizando = NULL
  /\ Pide("consola", "CREAR", pcb_counter)
  /\ pcb_counter' = pcb_counter + 1
  /\ SoloCliente /\ UNCHANGED <<respuestas, colaVars, cruzados, enCpu>>

\* The console takes off its queue what is not on the CPU.
finalizar_proceso(p) ==
  /\ finalizando = NULL /\ espera["consola"] = NULL
  /\ p \in admitidos /\ p # enCpu
  /\ admitidos' = admitidos \ {p} /\ finalizando' = p /\ sacados' = sacados \cup {p}
  /\ SoloCliente /\ UNCHANGED <<pedidos, respuestas, espera, resucitados, cruzados, pcb_counter,
                                enCpu>>

\* The gestor_io that was serving it ends, and puts in READY the process it had peeked.
escuchar_io(p) ==
  /\ p \in sacados
  /\ admitidos' = admitidos \cup {p} /\ resucitados' = resucitados \cup {p}
  /\ sacados' = sacados \ {p}
  /\ SoloCliente /\ UNCHANGED <<pedidos, respuestas, espera, finalizando, cruzados, pcb_counter,
                                enCpu>>

\* The console sends to EXIT what it took off, wherever it is by now; the
\* scheduler, what the CPU gave back.
push_cola_exit(hilo, p) ==
  /\ \/ /\ hilo = "consola" /\ finalizando = p
        /\ finalizando' = NULL /\ UNCHANGED admitidos
     \/ /\ hilo = "corto" /\ p \in admitidos /\ p # enCpu
        /\ admitidos' = admitidos \ {p} /\ UNCHANGED finalizando
  /\ Pide(hilo, "LIBERAR", p)
  /\ SoloCliente /\ UNCHANGED <<respuestas, sacados, resucitados, cruzados, pcb_counter, enCpu>>

\* Whoever waits takes the first answer: it may be the other's.
RecibeStatus(hilo) ==
  /\ espera[hilo] # NULL /\ respuestas # <<>>
  /\ LET pid == espera[hilo].pid
         admite == espera[hilo].op = "CREAR" /\ Head(respuestas).status = "SUCCESS"
     IN  /\ admitidos' = admitidos \cup {p \in {pid} : admite}
         /\ cruzados' = cruzados \cup {p \in {pid} : admite /\ Head(respuestas).pid # p}
  /\ respuestas' = Tail(respuestas)
  /\ espera' = [espera EXCEPT ![hilo] = NULL]
  /\ SoloCliente /\ UNCHANGED <<pedidos, finalizando, sacados, resucitados, pcb_counter, enCpu>>

Despacha(p) ==
  /\ enCpu = NULL /\ cpu.paso = "ocioso" /\ p \in admitidos
  /\ enCpu' = p
  /\ SoloCliente /\ UNCHANGED <<pedidos, respuestas, clienteVars>>

Kernel ==
  \/ IniciarProceso
  \/ \E hilo \in HiloKernel : RecibeStatus(hilo) \/ \E p \in Pid : push_cola_exit(hilo, p)
  \/ \E p \in Pid : finalizar_proceso(p) \/ escuchar_io(p) \/ Despacha(p)

-----------------------------------------------------------------------------
Next == aborto = NULL /\ (gestionar_solicitudes_kernel \/ gestionar_solicitudes_cpu \/ Kernel)

Spec == Init /\ [][Next]_vars

\* Both threads of the memory keep running; so does a kernel thread with an answer to read.
SpecJusta ==
  /\ Spec
  /\ WF_vars(aborto = NULL /\ gestionar_solicitudes_kernel)
  /\ WF_vars(aborto = NULL /\ gestionar_solicitudes_cpu)
  /\ \A hilo \in HiloKernel : WF_vars(aborto = NULL /\ RecibeStatus(hilo))

-----------------------------------------------------------------------------
(***************************************************************************)
(* Properties                                                              *)
(***************************************************************************)
Pedido == [op : {"CREAR", "LIBERAR"}, pid : Pid]

\* The state has its types: no page table ever holds the -1 of a search without success.
TypeOK ==
  /\ cargados \subseteq Pid
  /\ \A p \in cargados : procesos_en_memoria[p] \in Seq(Frame)
  /\ FRAME_BITMAP \in [Frame -> BOOLEAN]
  /\ PID_solicitado \in 0 .. MaxProcesos
  /\ mutex_procesos_en_memoria \in {NULL, "kernel"}
  /\ kernel.paso \in {"ocioso", "liberar", "quitar"} /\ kernel.tabla \in Seq(Frame)
  /\ kernel.pid \in Pid \cup {NULL}
  /\ cpu.paso \in {"ocioso", "instruccion", "redimensionar", "aplicar", "por_agregar",
                   "por_quitar", "agregar", "marcar", "quitar", "desmarcar", "mostrar"}
  /\ cpu.paginas \in Nat /\ cpu.frame \in Frame \cup {NULL}
  /\ aborto \in {NULL, "kernel", "cpu", "tabla"}
  /\ pedidos \in Seq(Pedido)
  /\ respuestas \in Seq([status : {"SUCCESS", "ERROR"}, pid : Pid])
  /\ espera \in [HiloKernel -> Pedido \cup {NULL}]
  /\ admitidos \subseteq Pid /\ cruzados \subseteq Pid /\ finalizando \in Pid \cup {NULL}
  /\ sacados \subseteq Pid /\ resucitados \subseteq Pid
  /\ pcb_counter \in 1 .. MaxProcesos + 1 /\ enCpu \in Pid \cup {NULL}

\* Every marked frame is a page of exactly one process, counting the one being
\* destroyed and the page just taken away, and every page is marked but the one
\* just added: growing (tabla_paginas.c, without a lock round search and mark)
\* while the other thread frees neither shares a frame nor loses one.
Duenos(f) ==
  (UNION {{<<p, k>> : k \in {k \in DOMAIN procesos_en_memoria[p] : procesos_en_memoria[p][k] = f}}
            : p \in cargados})
    \cup {<<"liberado", k>> : k \in {k \in DOMAIN kernel.tabla : kernel.tabla[k] = f}}
    \cup {<<"quitado", 1>> : k \in {k \in {1} : cpu.paso = "desmarcar" /\ cpu.frame = f}}

MarcosConservados ==
  \A f \in Frame : Cardinality(Duenos(f)) = IF FRAME_BITMAP[f] \/ cpu.frame = f THEN 1 ELSE 0

\* Unless a finalised process runs again (gestor_io.c:92-101 puts it back in
\* READY), every lookup made for the CPU finds its process and no table is freed
\* under a RESIZE: only the log line of LIBERAR_PROCESO_EN_MEMORIA (memory.c:80)
\* aborts the module, and only when the last process fetched is gone.
AbortoSoloAlLiberar ==
  /\ aborto \in {"cpu", "tabla"} => PID_solicitado \in resucitados
  /\ aborto = "kernel" => PID_solicitado \notin cargados

\* A process in the kernel's queues is loaded in memory, unless its creation
\* was decided by the answer to the other thread's request or a gestor_io put
\* it back in READY after the console had finalised it.
AdmitidosCargados == \A p \in admitidos : p \in cargados \cup cruzados \cup resucitados

\* Every request of a kernel thread is answered, unless the module aborts.
PedidoRespondido ==
  \A hilo \in HiloKernel : espera[hilo] # NULL ~> espera[hilo] = NULL \/ aborto # NULL

=============================================================================
