--------------------------- MODULE MemoriaProofs ---------------------------
(***************************************************************************)
(* Proofs about Memoria, for any number of processes, frames and bytes:    *)
(* only a process that came back from EXIT makes a lookup for the CPU      *)
(* abort, no page table ever holds the -1 of a search without success, and *)
(* every marked frame has one owner.                                       *)
(***************************************************************************)
EXTENDS Memoria, FiniteSetTheorems, SequenceTheorems, WellFoundedInduction, TLAPS

-----------------------------------------------------------------------------
(***************************************************************************)
(* The inductive invariant                                                 *)
(***************************************************************************)
PasoKernel == {"ocioso", "liberar", "quitar"}
PasoCpu == {"ocioso", "instruccion", "redimensionar", "aplicar", "por_agregar", "por_quitar",
            "agregar", "marcar", "quitar", "desmarcar", "mostrar"}
\* Where the CPU thread holds a table without the mutex.
Bucle == {"agregar", "marcar", "quitar", "desmarcar"}

Tipo ==
  /\ cargados \subseteq Pid
  /\ procesos_en_memoria \in [cargados -> Seq(Frame)]
  /\ FRAME_BITMAP \in [Frame -> BOOLEAN]
  /\ PID_solicitado \in 0 .. MaxProcesos
  /\ mutex_procesos_en_memoria \in {NULL, "kernel"}
  /\ kernel \in [paso : PasoKernel, pid : Pid \cup {NULL}, tabla : Seq(Frame)]
  /\ cpu \in [paso : PasoCpu, paginas : Nat, frame : Frame \cup {NULL}]
  /\ aborto \in {NULL, "kernel", "cpu", "tabla"}
  /\ pedidos \in Seq(Pedido)
  /\ respuestas \in Seq([status : {"SUCCESS", "ERROR"}, pid : Pid])
  /\ espera \in [HiloKernel -> Pedido \cup {NULL}]
  /\ admitidos \subseteq Pid /\ cruzados \subseteq Pid /\ finalizando \in Pid \cup {NULL}
  /\ sacados \subseteq Pid /\ resucitados \subseteq Pid
  /\ pcb_counter \in 1 .. MaxProcesos + 1 /\ enCpu \in Pid \cup {NULL}

\* A PID is given once: every one in use is below the counter, and a process
\* still to be created is not loaded, nor asked for twice.
Numerados ==
  /\ \A p \in cargados \cup admitidos \cup sacados : p < pcb_counter
  /\ finalizando # NULL => finalizando < pcb_counter
  /\ \A i \in DOMAIN pedidos : pedidos[i].pid < pcb_counter
  /\ \A i \in DOMAIN pedidos : pedidos[i].op = "CREAR" => pedidos[i].pid \notin cargados
  /\ \A i, j \in DOMAIN pedidos :
       pedidos[i].op = "CREAR" /\ pedidos[j].op = "CREAR" /\ pedidos[i].pid = pedidos[j].pid
         => i = j
  /\ kernel.paso # "ocioso" => kernel.pid \in Pid /\ kernel.pid < pcb_counter

\* Only the console creates, one thing at a time, and what it waits for is in
\* nobody's hands yet.
Pendientes ==
  /\ espera["corto"] # NULL => espera["corto"].op = "LIBERAR"
  /\ finalizando # NULL => espera["consola"] = NULL
  /\ espera["consola"] # NULL /\ espera["consola"].op = "CREAR" =>
       /\ espera["consola"].pid < pcb_counter
       /\ espera["consola"].pid \notin admitidos \cup sacados
       /\ \A i \in DOMAIN pedidos :
            pedidos[i].op = "LIBERAR" => pedidos[i].pid # espera["consola"].pid
       /\ kernel.paso # "ocioso" => kernel.pid # espera["consola"].pid

\* What is being freed left the queues of the kernel before, and came back only
\* by the hand of a gestor_io.
Despedido(p) == p \in admitidos => p \in resucitados

Despedidos ==
  /\ \A i \in DOMAIN pedidos : pedidos[i].op = "LIBERAR" => Despedido(pedidos[i].pid)
  /\ kernel.paso # "ocioso" => Despedido(kernel.pid)
  /\ finalizando # NULL => Despedido(finalizando)

\* The thread of the CPU works for the process that runs, which was loaded, is
\* not to be created again, and stays loaded unless it came back from EXIT.
CpuAtendida ==
  /\ enCpu # NULL => enCpu \in admitidos
  /\ cpu.paso # "ocioso" => enCpu # NULL /\ PID_solicitado = enCpu
  /\ cpu.paso \notin {"ocioso", "instruccion"} =>
       /\ PID_solicitado \in cargados \cup resucitados
       /\ \A i \in DOMAIN pedidos :
            pedidos[i].op = "CREAR" => pedidos[i].pid # PID_solicitado
  /\ cpu.paso \in Bucle /\ aborto = NULL => PID_solicitado \in cargados

\* The frames counted are still free when they are taken.
Alcanza ==
  /\ PID_solicitado \in cargados =>
       /\ cpu.paso = "aplicar" => cpu.paginas - cantidad_de_paginas <= frames_libres
       /\ cpu.paso \in {"por_agregar", "agregar", "marcar"} => cpu.paginas <= frames_libres
       /\ cpu.paso \in {"por_quitar", "quitar"} => cpu.paginas <= cantidad_de_paginas
       /\ cpu.paso = "desmarcar" => cpu.paginas - 1 <= cantidad_de_paginas
  /\ cpu.paso = "marcar" =>
       cpu.paginas > 0 /\ cpu.frame \in Frame /\ ~FRAME_BITMAP[cpu.frame]
  /\ cpu.paso = "desmarcar" => cpu.paginas > 0 /\ cpu.frame \in Frame
  /\ cpu.paso \notin {"marcar", "desmarcar"} => cpu.frame = NULL

IndInv ==
  Tipo /\ Numerados /\ Pendientes /\ Despedidos /\ CpuAtendida /\ Alcanza /\ AbortoSoloAlLiberar

\* Whose frames are: a page is marked, but for the one just added, which is the
\* last found for the process that grows; no two pages share a frame; and a
\* marked frame is somebody's.
Marcadas ==
  /\ \A p \in cargados : \A k \in DOMAIN procesos_en_memoria[p] :
       \/ FRAME_BITMAP[procesos_en_memoria[p][k]]
       \/ procesos_en_memoria[p][k] = cpu.frame
  /\ \A k \in DOMAIN kernel.tabla : FRAME_BITMAP[kernel.tabla[k]]

Ajenas ==
  /\ \A p, q \in cargados :
       \A j \in DOMAIN procesos_en_memoria[p], k \in DOMAIN procesos_en_memoria[q] :
         procesos_en_memoria[p][j] = procesos_en_memoria[q][k] => p = q /\ j = k
  /\ \A j, k \in DOMAIN kernel.tabla : kernel.tabla[j] = kernel.tabla[k] => j = k
  /\ \A p \in cargados : \A j \in DOMAIN procesos_en_memoria[p], k \in DOMAIN kernel.tabla :
       procesos_en_memoria[p][j] # kernel.tabla[k]

EnTabla(f) ==
  \E p \in cargados : \E k \in DOMAIN procesos_en_memoria[p] : procesos_en_memoria[p][k] = f
Liberandose(f) == \E k \in DOMAIN kernel.tabla : kernel.tabla[k] = f
Quitada(f) == cpu.paso = "desmarcar" /\ cpu.frame = f
Conocidas == \A f \in Frame : FRAME_BITMAP[f] => EnTabla(f) \/ Liberandose(f) \/ Quitada(f)

EnManos ==
  /\ kernel.paso # "quitar" => kernel.tabla = <<>>
  /\ cpu.paso = "marcar" =>
       /\ PID_solicitado \in cargados
       /\ \E k \in DOMAIN procesos_en_memoria[PID_solicitado] :
            procesos_en_memoria[PID_solicitado][k] = cpu.frame
  /\ cpu.paso = "desmarcar" => ~EnTabla(cpu.frame) /\ ~Liberandose(cpu.frame)

Repartidos == Marcadas /\ Ajenas /\ Conocidas /\ EnManos

-----------------------------------------------------------------------------
(***************************************************************************)
(* The constants, and the operators on frames and tables                   *)
(***************************************************************************)
LEMMA Constantes ==
  /\ size_bitmap \in Int /\ Frame \subseteq Nat /\ IsFiniteSet(Frame) /\ -1 \notin Frame
  /\ Pid \subseteq Nat /\ 0 \notin Pid /\ NULL \notin Frame /\ NULL \notin Pid
  <1>1. frames_totales \div BITS \in Int
    BY MemoriaOK
  <1>2. size_bitmap \in Int
    BY <1>1, MemoriaOK DEF size_bitmap
  <1>3. IsFiniteSet(Frame)
    BY <1>2, FS_Interval DEF Frame
  <1>4. QED
    BY <1>2, <1>3, MemoriaOK DEF Frame, Pid

\* The frames not marked.
LibresSet == {f \in Frame : ~FRAME_BITMAP[f]}

LEMMA LibresFinito ==
  /\ IsFiniteSet(LibresSet) /\ LibresSet \subseteq Nat
  /\ frames_libres = Cardinality(LibresSet) /\ frames_libres \in Nat
  /\ frames_libres = 0 <=> LibresSet = {}
  <1>1. IsFiniteSet(LibresSet)
    BY Constantes, FS_Subset DEF LibresSet
  <1>2. LibresSet \subseteq Nat /\ frames_libres = Cardinality(LibresSet)
    BY Constantes DEF LibresSet, frames_libres
  <1>3. QED
    BY <1>1, <1>2, FS_CardinalityType, FS_EmptySet

\* A search with a free frame left finds the lowest one.
LEMMA Disponible ==
  ASSUME frames_libres > 0
  PROVE  get_available_frame \in Frame /\ ~FRAME_BITMAP[get_available_frame]
  <1>1. LibresSet # {} /\ frames_libres # 0
    BY LibresFinito
  <1>2. PICK f \in LibresSet : \A g \in LibresSet : ~(<<g, f>> \in OpToRel(<, Nat))
    BY <1>1, LibresFinito, NatLessThanWellFounded, WFMin
  <1>3. f \in Frame /\ ~FRAME_BITMAP[f] /\ f \in Nat
    BY LibresFinito DEF LibresSet
  <1>4. \A g \in 0 .. f - 1 : FRAME_BITMAP[g]
    <2> SUFFICES ASSUME NEW g \in 0 .. f - 1, ~FRAME_BITMAP[g] PROVE FALSE
      OBVIOUS
    <2>1. g \in Frame /\ g \in Nat /\ g < f
      BY <1>3, Constantes DEF Frame
    <2>2. g \in LibresSet
      BY <2>1 DEF LibresSet
    <2>3. QED
      BY <1>2, <1>3, <2>1, <2>2 DEF OpToRel
  <1>5. \E x \in Frame : ~FRAME_BITMAP[x] /\ \A g \in 0 .. x - 1 : FRAME_BITMAP[g]
    BY <1>3, <1>4
  <1>6. get_available_frame =
          CHOOSE x \in Frame : ~FRAME_BITMAP[x] /\ \A g \in 0 .. x - 1 : FRAME_BITMAP[g]
    BY <1>1 DEF get_available_frame
  <1>7. QED
    BY <1>5, <1>6

\* Marking a free frame leaves one less; clearing one leaves no fewer.
LEMMA Marcar ==
  ASSUME FRAME_BITMAP \in [Frame -> BOOLEAN], NEW f \in Frame, ~FRAME_BITMAP[f],
         marcar_frame_como(f, TRUE)
  PROVE  frames_libres' = frames_libres - 1
  <1>1. LibresSet' = LibresSet \ {f} /\ f \in LibresSet
    BY DEF marcar_frame_como, LibresSet, Frame
  <1>2. frames_libres' = Cardinality(LibresSet')
    BY DEF frames_libres, LibresSet
  <1>3. QED
    BY <1>1, <1>2, LibresFinito, FS_RemoveElement

LEMMA Desmarcar ==
  ASSUME FRAME_BITMAP \in [Frame -> BOOLEAN], NEW f \in Frame, marcar_frame_como(f, FALSE)
  PROVE  frames_libres' \in Nat /\ frames_libres <= frames_libres'
  <1>1. LibresSet' = LibresSet \cup {f}
    BY DEF marcar_frame_como, LibresSet, Frame
  <1>2. frames_libres' = Cardinality(LibresSet')
    BY DEF frames_libres, LibresSet
  <1>3. Cardinality(LibresSet \cup {f}) =
          IF f \in LibresSet THEN Cardinality(LibresSet) ELSE Cardinality(LibresSet) + 1
    BY LibresFinito, FS_AddElement
  <1>4. QED
    BY <1>1, <1>2, <1>3, LibresFinito

\* What Front and Last return.
LEMMA FrenteYFondo ==
  ASSUME NEW S, NEW s \in Seq(S), s # <<>>
  PROVE  /\ Last(s) \in S /\ Last(s) = s[Len(s)] /\ Len(s) \in Nat \ {0}
         /\ Front(s) \in Seq(S) /\ Len(Front(s)) = Len(s) - 1
         /\ \A k \in 1 .. Len(s) - 1 : Front(s)[k] = s[k]
  <1>1. Len(s) \in Nat \ {0}
    BY EmptySeq
  <1>2. QED
    BY <1>1, SubSeqProperties DEF Front, Last
-----------------------------------------------------------------------------
(***************************************************************************)
(* The initial state, and one lemma per thread                             *)
(***************************************************************************)
LEMMA Inicial == Init => IndInv
  <1> SUFFICES ASSUME Init PROVE IndInv
    OBVIOUS
  <1> USE DEF Init, KernelOcioso, CpuOcioso
  <1>1. Tipo
    BY MemoriaOK, EmptySeq DEF Tipo, PasoKernel, PasoCpu, cargados, Pid
  <1>2. Numerados /\ Pendientes /\ Despedidos /\ CpuAtendida
    BY MemoriaOK DEF Numerados, Pendientes, Despedidos, CpuAtendida, cargados, HiloKernel, Bucle
  <1>3. Alcanza /\ AbortoSoloAlLiberar
    BY MemoriaOK DEF Alcanza, AbortoSoloAlLiberar
  <1>4. QED
    BY <1>1, <1>2, <1>3 DEF IndInv

\* The first request leaves the queue.
LEMMA Atendido ==
  ASSUME pedidos \in Seq(Pedido), pedidos # <<>>, pedidos' = Tail(pedidos)
  PROVE  /\ pedidos' \in Seq(Pedido) /\ Head(pedidos) = pedidos[1] /\ 1 \in DOMAIN pedidos
         /\ pedidos[1] \in Pedido
         /\ \A i \in DOMAIN pedidos' :
              i + 1 \in DOMAIN pedidos /\ i \in Nat \ {0} /\ pedidos'[i] = pedidos[i + 1]
  BY HeadTailProperties

LEMMA PasoDelKernel ==
  ASSUME IndInv, aborto = NULL, gestionar_solicitudes_kernel
  PROVE  IndInv'
  <1> USE DEF IndInv
  <1>1. CASE CrearProceso
    <2> DEFINE pid == Head(pedidos).pid
    <2>1. PICK existe \in BOOLEAN :
            /\ cargar_proceso_en_memoria(pid, existe)
            /\ Responde(IF existe THEN "SUCCESS" ELSE "ERROR", pid)
      BY <1>1 DEF CrearProceso
    <2>2. /\ pedidos # <<>> /\ pedidos' = Tail(pedidos) /\ Head(pedidos).op = "CREAR"
          /\ kernel.paso = "ocioso"
          /\ UNCHANGED <<FRAME_BITMAP, PID_solicitado, mutex_procesos_en_memoria, kernel, cpu,
                         aborto, espera, admitidos, finalizando, sacados, resucitados, cruzados,
                         pcb_counter, enCpu>>
      BY <1>1 DEF CrearProceso, RecibePedido, clienteVars, colaVars
    <2>3. /\ pid \in Pid /\ pid \notin cargados /\ pid < pcb_counter
          /\ \A i \in DOMAIN pedidos' :
               pedidos'[i].op = "CREAR" => pedidos'[i].pid # pid
      BY <2>2, Atendido DEF Tipo, Numerados, Pedido
    <2>4. /\ cargados' = cargados \cup {r \in {pid} : existe}
          /\ \A q \in cargados : procesos_en_memoria'[q] = procesos_en_memoria[q]
          /\ procesos_en_memoria' \in [cargados' -> Seq(Frame)]
      BY <2>1, <2>3, EmptySeq DEF cargar_proceso_en_memoria, cargados, Tipo
    <2>5. respuestas' \in Seq([status : {"SUCCESS", "ERROR"}, pid : Pid])
      BY <2>1, <2>3, AppendProperties DEF Responde, Tipo
    <2>6. Tipo'
      BY <2>2, <2>3, <2>4, <2>5, Atendido DEF Tipo
    <2>7. Numerados'
      BY <2>2, <2>3, <2>4, Atendido DEF Numerados, Tipo
    <2>8. Pendientes' /\ Despedidos'
      BY <2>2, Atendido DEF Pendientes, Despedidos, Despedido, Tipo
    <2>9. CpuAtendida' /\ AbortoSoloAlLiberar'
      BY <2>2, <2>4, Atendido, MemoriaOK DEF CpuAtendida, AbortoSoloAlLiberar, Tipo, Bucle
    <2>10. cpu.paso \notin {"ocioso", "instruccion"} =>
             /\ cantidad_de_paginas' = cantidad_de_paginas
             /\ PID_solicitado \in cargados' <=> PID_solicitado \in cargados
      <3>1. cpu.paso \notin {"ocioso", "instruccion"} => PID_solicitado # pid
        BY <2>2, Atendido DEF CpuAtendida, Tipo
      <3>2. QED
        BY <2>2, <2>4, <3>1 DEF cantidad_de_paginas, tabla
    <2>11. Alcanza'
      BY <2>2, <2>10 DEF Alcanza, frames_libres
    <2>12. QED
      BY <2>6, <2>7, <2>8, <2>9, <2>11
  <1>2. CASE LiberarRegistra
    <2> DEFINE pid == Head(pedidos).pid
    <2>1. /\ pedidos # <<>> /\ pedidos' = Tail(pedidos) /\ Head(pedidos).op = "LIBERAR"
          /\ kernel.paso = "ocioso" /\ kernel' = [paso |-> "liberar", pid |-> pid, tabla |-> <<>>]
          /\ aborto' = IF PID_solicitado \in cargados THEN NULL ELSE "kernel"
          /\ UNCHANGED <<procesos_en_memoria, FRAME_BITMAP, PID_solicitado,
                         mutex_procesos_en_memoria, cpu, respuestas, espera, admitidos,
                         finalizando, sacados, resucitados, cruzados, pcb_counter, enCpu>>
      BY <1>2 DEF LiberarRegistra, RecibePedido, get_table_by_PID, KernelOcioso, memVars,
                  clienteVars, colaVars
    <2>2. pid \in Pid /\ pid < pcb_counter /\ Despedido(pid)
      BY <2>1, Atendido DEF Tipo, Numerados, Despedidos, Pedido
    <2>3. Tipo'
      BY <2>1, <2>2, Atendido, EmptySeq DEF Tipo, cargados, PasoKernel
    <2>4. Numerados' /\ Despedidos'
      BY <2>1, <2>2, Atendido DEF Numerados, Despedidos, Despedido, cargados, Tipo
    <2>5. Pendientes'
      BY <2>1, <2>2, Atendido DEF Pendientes, Tipo
    <2>6. CpuAtendida' /\ AbortoSoloAlLiberar'
      BY <2>1, Atendido, MemoriaOK DEF CpuAtendida, AbortoSoloAlLiberar, cargados, Tipo
    <2>7. Alcanza'
      BY <2>1 DEF Alcanza, frames_libres, cantidad_de_paginas, tabla, cargados
    <2>8. QED
      BY <2>3, <2>4, <2>5, <2>6, <2>7
  <1>6. CASE LiberarEnUso
    <2>1. /\ aborto' = "tabla" /\ kernel.paso = "liberar"
          /\ kernel.pid = PID_solicitado /\ cpu.paso \in Bucle
          /\ UNCHANGED <<procesos_en_memoria, FRAME_BITMAP, PID_solicitado,
                         mutex_procesos_en_memoria, kernel, cpu, pedidos, respuestas, espera,
                         admitidos, finalizando, sacados, resucitados, cruzados, pcb_counter,
                         enCpu>>
      BY <1>6 DEF LiberarEnUso, TablaEnUso, Bucle, memVars, clienteVars, colaVars
    <2>2. Tipo' /\ Numerados' /\ Pendientes' /\ Despedidos'
      BY <2>1 DEF Tipo, Numerados, Pendientes, Despedidos, Despedido, cargados
    <2>3. PID_solicitado \in resucitados
      BY <2>1 DEF CpuAtendida, Despedidos, Despedido, Bucle
    <2>4. CpuAtendida' /\ AbortoSoloAlLiberar'
      BY <2>1, <2>3, MemoriaOK DEF CpuAtendida, AbortoSoloAlLiberar, cargados
    <2>5. Alcanza'
      BY <2>1 DEF Alcanza, frames_libres, cantidad_de_paginas, tabla, cargados
    <2>6. QED
      BY <2>2, <2>4, <2>5
  <1>3. CASE LiberarProceso
    <2>1. /\ kernel.paso = "liberar" /\ mutex_procesos_en_memoria' = "kernel"
          /\ ~TablaEnUso(kernel.pid)
          /\ procesos_en_memoria' = [q \in cargados \ {kernel.pid} |-> procesos_en_memoria[q]]
          /\ kernel' = [kernel EXCEPT
               !.paso = "quitar",
               !.tabla = IF kernel.pid \in cargados THEN procesos_en_memoria[kernel.pid] ELSE <<>>]
          /\ UNCHANGED <<FRAME_BITMAP, PID_solicitado, cpu, aborto, pedidos, respuestas, espera,
                         admitidos, finalizando, sacados, resucitados, cruzados, pcb_counter,
                         enCpu>>
      BY <1>3 DEF LiberarProceso, clienteVars, colaVars
    <2>2. /\ kernel'.paso = "quitar" /\ kernel'.pid = kernel.pid
          /\ kernel' \in [paso : PasoKernel, pid : Pid \cup {NULL}, tabla : Seq(Frame)]
      BY <2>1, EmptySeq DEF Tipo, PasoKernel
    <2>3. /\ cargados' = cargados \ {kernel.pid}
          /\ \A q \in cargados' : procesos_en_memoria'[q] = procesos_en_memoria[q]
          /\ procesos_en_memoria' \in [cargados' -> Seq(Frame)]
      BY <2>1 DEF cargados, Tipo
    <2>4. Tipo'
      BY <2>1, <2>2, <2>3 DEF Tipo
    <2>5. Numerados' /\ Pendientes' /\ Despedidos'
      BY <2>1, <2>2, <2>3 DEF Numerados, Pendientes, Despedidos, Despedido
    <2>6. /\ cpu.paso \in Bucle => PID_solicitado # kernel.pid
          /\ cpu.paso # "ocioso" /\ PID_solicitado = kernel.pid => PID_solicitado \in resucitados
      BY <2>1 DEF CpuAtendida, Despedidos, Despedido, TablaEnUso, Bucle
    <2>7. CpuAtendida' /\ AbortoSoloAlLiberar'
      BY <2>1, <2>3, <2>6, MemoriaOK DEF CpuAtendida, AbortoSoloAlLiberar
    <2>8. PID_solicitado \in cargados' =>
            PID_solicitado \in cargados /\ cantidad_de_paginas' = cantidad_de_paginas
      BY <2>1, <2>3 DEF cantidad_de_paginas, tabla
    <2>9. Alcanza'
      BY <2>1, <2>8 DEF Alcanza, frames_libres
    <2>10. QED
      BY <2>4, <2>5, <2>7, <2>9
  <1>4. CASE LiberarPagina
    <2>1. /\ kernel.paso = "quitar" /\ kernel.tabla # <<>>
          /\ marcar_frame_como(Last(kernel.tabla), FALSE)
          /\ kernel' = [kernel EXCEPT !.tabla = Front(kernel.tabla)]
          /\ UNCHANGED <<procesos_en_memoria, PID_solicitado, mutex_procesos_en_memoria, cpu,
                         aborto, pedidos, respuestas, espera, admitidos, finalizando, sacados,
                         resucitados, cruzados, pcb_counter, enCpu>>
      BY <1>4 DEF LiberarPagina, clienteVars, colaVars
    <2>2. Last(kernel.tabla) \in Frame /\ Front(kernel.tabla) \in Seq(Frame)
      BY <2>1, FrenteYFondo DEF Tipo
    <2>3. /\ kernel'.paso = kernel.paso /\ kernel'.pid = kernel.pid
          /\ kernel' \in [paso : PasoKernel, pid : Pid \cup {NULL}, tabla : Seq(Frame)]
      BY <2>1, <2>2 DEF Tipo
    <2>4. /\ FRAME_BITMAP' \in [Frame -> BOOLEAN]
          /\ \A f \in Frame : ~FRAME_BITMAP[f] => ~FRAME_BITMAP'[f]
      BY <2>1, <2>2, Constantes DEF marcar_frame_como, Tipo
    <2>5. frames_libres <= frames_libres' /\ frames_libres \in Nat /\ frames_libres' \in Nat
      BY <2>1, <2>2, Desmarcar, LibresFinito DEF Tipo
    <2>6. Tipo'
      BY <2>1, <2>3, <2>4 DEF Tipo, cargados
    <2>7. Numerados' /\ Pendientes' /\ Despedidos'
      BY <2>1, <2>3 DEF Numerados, Pendientes, Despedidos, Despedido, cargados
    <2>8. CpuAtendida' /\ AbortoSoloAlLiberar'
      BY <2>1, MemoriaOK DEF CpuAtendida, AbortoSoloAlLiberar, cargados
    <2>9. cantidad_de_paginas' = cantidad_de_paginas
      BY <2>1 DEF cantidad_de_paginas, tabla, cargados
    <2>10. PID_solicitado \in cargados => cantidad_de_paginas \in Nat
      BY DEF cantidad_de_paginas, tabla, Tipo
    <2>11. Alcanza'
      <3>1. PID_solicitado \in cargados' <=> PID_solicitado \in cargados
        BY <2>1 DEF cargados
      <3>2. cpu.paginas \in Nat
        BY DEF Tipo
      <3>3. QED
        BY <2>1, <2>4, <2>5, <2>9, <2>10, <3>1, <3>2 DEF Alcanza
    <2>12. QED
      BY <2>6, <2>7, <2>8, <2>11
  <1>5. CASE LiberarTermina
    <2>1. /\ kernel.paso = "quitar" /\ mutex_procesos_en_memoria' = NULL
          /\ Responde("SUCCESS", kernel.pid) /\ kernel' = KernelOcioso
          /\ UNCHANGED <<procesos_en_memoria, FRAME_BITMAP, PID_solicitado, cpu, aborto, pedidos,
                         espera, admitidos, finalizando, sacados, resucitados, cruzados,
                         pcb_counter, enCpu>>
      BY <1>5 DEF LiberarTermina, clienteVars, colaVars
    <2>2. respuestas' \in Seq([status : {"SUCCESS", "ERROR"}, pid : Pid])
      BY <2>1, AppendProperties DEF Responde, Tipo, Numerados
    <2>3. /\ kernel'.paso = "ocioso"
          /\ kernel' \in [paso : PasoKernel, pid : Pid \cup {NULL}, tabla : Seq(Frame)]
      BY <2>1, EmptySeq DEF KernelOcioso, PasoKernel
    <2>4. Tipo'
      BY <2>1, <2>2, <2>3 DEF Tipo, cargados
    <2>5. Numerados' /\ Pendientes' /\ Despedidos'
      BY <2>1, <2>3 DEF Numerados, Pendientes, Despedidos, Despedido, cargados
    <2>6. CpuAtendida' /\ AbortoSoloAlLiberar'
      BY <2>1, MemoriaOK DEF CpuAtendida, AbortoSoloAlLiberar, cargados
    <2>7. Alcanza'
      BY <2>1 DEF Alcanza, frames_libres, cantidad_de_paginas, tabla, cargados
    <2>8. QED
      BY <2>4, <2>5, <2>6, <2>7
  <1>7. QED
    BY <1>1, <1>2, <1>3, <1>4, <1>5, <1>6 DEF gestionar_solicitudes_kernel

\* The thread of the CPU leaves the requests of the kernel alone.
LEMMA AjenoAlKernel ==
  ASSUME IndInv, cargados' = cargados,
         UNCHANGED <<kernel, pedidos, espera, admitidos, finalizando, sacados, resucitados,
                     cruzados, pcb_counter>>
  PROVE  Numerados' /\ Pendientes' /\ Despedidos'
  BY DEF IndInv, Numerados, Pendientes, Despedidos, Despedido

\* A lookup made for the CPU finds its process, unless it came back from EXIT.
LEMMA BusquedaCierta ==
  ASSUME IndInv, get_table_by_PID("cpu"), cpu.paso \notin {"ocioso", "instruccion"}
  PROVE  /\ aborto' \in {NULL, "cpu"}
         /\ aborto' = "cpu" => PID_solicitado \in resucitados
         /\ aborto' = NULL => PID_solicitado \in cargados
         /\ cantidad_de_paginas \in Nat /\ tabla \in Seq(Frame)
  <1>1. tabla \in Seq(Frame)
    BY EmptySeq DEF IndInv, tabla, Tipo
  <1>2. PID_solicitado \in cargados \cup resucitados
    BY DEF IndInv, CpuAtendida
  <1>3. QED
    BY <1>1, <1>2, MemoriaOK DEF get_table_by_PID, cantidad_de_paginas

LEMMA PasoDeLaCpu ==
  ASSUME IndInv, aborto = NULL, gestionar_solicitudes_cpu
  PROVE  IndInv'
  <1> USE DEF IndInv
  <1> DEFINE Quieto ==
        /\ UNCHANGED <<kernel, pedidos, respuestas, espera, admitidos, finalizando, sacados,
                       resucitados, cruzados, pcb_counter>>
        /\ UNCHANGED mutex_procesos_en_memoria
  <1>a. ASSUME Quieto, UNCHANGED <<procesos_en_memoria, FRAME_BITMAP>>,
               PID_solicitado' \in 0 .. MaxProcesos, aborto' \in {NULL, "cpu"},
               aborto' = "cpu" => PID_solicitado' \in resucitados,
               enCpu' \in {enCpu, NULL},
               cpu' \in [paso : PasoCpu, paginas : Nat, frame : Frame \cup {NULL}]
        PROVE  Tipo' /\ Numerados' /\ Pendientes' /\ Despedidos' /\ AbortoSoloAlLiberar'
    <2>1. Tipo'
      BY <1>a DEF Tipo, cargados
    <2>2. Numerados' /\ Pendientes' /\ Despedidos'
      BY <1>a, AjenoAlKernel DEF cargados
    <2>3. AbortoSoloAlLiberar'
      BY <1>a, MemoriaOK DEF AbortoSoloAlLiberar
    <2>4. QED
      BY <2>1, <2>2, <2>3
  <1>1. CASE recibir_fetch_de_cpu
    <2>1. /\ cpu.paso = "ocioso" /\ enCpu # NULL /\ PID_solicitado' = enCpu
          /\ cpu' = [cpu EXCEPT !.paso = "instruccion"]
          /\ Quieto /\ UNCHANGED <<procesos_en_memoria, FRAME_BITMAP, enCpu, aborto>>
      BY <1>1 DEF recibir_fetch_de_cpu, CpuSigue, clienteVars, colaVars
    <2>2. /\ cpu'.paso = "instruccion" /\ cpu'.frame = cpu.frame
          /\ cpu' \in [paso : PasoCpu, paginas : Nat, frame : Frame \cup {NULL}]
      BY <2>1 DEF Tipo, PasoCpu
    <2>3. PID_solicitado' \in 0 .. MaxProcesos
      BY <2>1 DEF Tipo, Pid
    <2>4. CpuAtendida' /\ Alcanza'
      BY <2>1, <2>2 DEF CpuAtendida, Alcanza, cargados, Bucle
    <2>5. QED
      BY <2>1, <2>2, <2>3, <2>4, MemoriaOK, <1>a
  <1>2. CASE enviar_instruccion_a_cpu
    <2>1. /\ cpu.paso = "instruccion" /\ Quieto
          /\ UNCHANGED <<procesos_en_memoria, FRAME_BITMAP, PID_solicitado, aborto>>
      BY <1>2 DEF enviar_instruccion_a_cpu, SoloCpu, memVars, clienteVars, colaVars
    <2>2. PID_solicitado' \in 0 .. MaxProcesos
      BY <2>1 DEF Tipo
    <2>3. CASE cpu' = CpuOcioso /\ enCpu' \in {enCpu, NULL}
      <3>1. /\ cpu'.paso = "ocioso" /\ cpu'.frame = NULL
            /\ cpu' \in [paso : PasoCpu, paginas : Nat, frame : Frame \cup {NULL}]
        BY <2>3 DEF CpuOcioso, PasoCpu
      <3>2. CpuAtendida' /\ Alcanza'
        BY <2>1, <2>3, <3>1 DEF CpuAtendida, Alcanza, Bucle
      <3>3. QED
        BY <2>1, <2>2, <2>3, <3>1, <3>2, MemoriaOK, <1>a
    <2>4. CASE /\ PID_solicitado \in cargados /\ UNCHANGED enCpu
               /\ \E bytes \in 0 .. MaxTamanio :
                    cpu' = [paso |-> "redimensionar", frame |-> NULL,
                            paginas |-> calcular_cantidad_de_paginas_por_bytes(bytes)]
      <3>1. PICK bytes \in 0 .. MaxTamanio :
              cpu' = [paso |-> "redimensionar", frame |-> NULL,
                      paginas |-> calcular_cantidad_de_paginas_por_bytes(bytes)]
        BY <2>4
      <3>2. calcular_cantidad_de_paginas_por_bytes(bytes) \in Nat
        BY MemoriaOK DEF calcular_cantidad_de_paginas_por_bytes
      <3>3. /\ cpu'.paso = "redimensionar" /\ cpu'.frame = NULL
            /\ cpu' \in [paso : PasoCpu, paginas : Nat, frame : Frame \cup {NULL}]
        BY <3>1, <3>2 DEF PasoCpu
      <3>4. CpuAtendida' /\ Alcanza'
        BY <2>1, <2>4, <3>3 DEF CpuAtendida, Alcanza, cargados, Bucle, Numerados
      <3>5. QED
        BY <2>1, <2>2, <2>4, <3>3, <3>4, MemoriaOK, <1>a
    <2>5. QED
      BY <1>2, <2>3, <2>4 DEF enviar_instruccion_a_cpu
  <1>3. CASE RedimensionarVerifica
    <2>1. /\ cpu.paso = "redimensionar" /\ get_table_by_PID("cpu") /\ Quieto
          /\ UNCHANGED <<procesos_en_memoria, FRAME_BITMAP, PID_solicitado>>
      BY <1>3 DEF RedimensionarVerifica, SoloCpu, memVars, clienteVars, colaVars
    <2>2. /\ aborto' \in {NULL, "cpu"}
          /\ aborto' = "cpu" => PID_solicitado \in resucitados
          /\ cantidad_de_paginas \in Nat /\ cantidad_de_paginas' = cantidad_de_paginas
      BY <2>1, BusquedaCierta DEF cantidad_de_paginas, tabla, cargados
    <2>3. PID_solicitado' \in 0 .. MaxProcesos /\ frames_libres' = frames_libres
      BY <2>1 DEF Tipo, frames_libres
    <2>4. CASE puedo_agregar_o_disminuir(cpu.paginas) /\ CpuSigue("aplicar") /\ UNCHANGED enCpu
      <3>1. /\ cpu'.paso = "aplicar" /\ cpu'.frame = cpu.frame /\ cpu'.paginas = cpu.paginas
            /\ cpu' \in [paso : PasoCpu, paginas : Nat, frame : Frame \cup {NULL}]
        BY <2>4 DEF CpuSigue, Tipo, PasoCpu
      <3>2. cpu.paginas - cantidad_de_paginas <= frames_libres
        BY <2>2, <2>4, LibresFinito DEF puedo_agregar_o_disminuir, Tipo
      <3>3. CpuAtendida' /\ Alcanza'
        BY <2>1, <2>2, <2>3, <2>4, <3>1, <3>2 DEF CpuAtendida, Alcanza, cargados, Bucle
      <3>4. QED
        BY <2>1, <2>2, <2>3, <2>4, <3>1, <3>3, <1>a
    <2>5. CASE cpu' = CpuOcioso /\ enCpu' = NULL
      <3>1. /\ cpu'.paso = "ocioso" /\ cpu'.frame = NULL
            /\ cpu' \in [paso : PasoCpu, paginas : Nat, frame : Frame \cup {NULL}]
        BY <2>5 DEF CpuOcioso, PasoCpu
      <3>2. CpuAtendida' /\ Alcanza'
        BY <2>5, <3>1 DEF CpuAtendida, Alcanza, Bucle
      <3>3. QED
        BY <2>1, <2>2, <2>3, <2>5, <3>1, <3>2, <1>a
    <2>6. QED
      BY <1>3, <2>4, <2>5 DEF RedimensionarVerifica
  <1>4. CASE redimensionar_memoria_proceso
    <2>1. /\ cpu.paso = "aplicar" /\ get_table_by_PID("cpu") /\ Quieto
          /\ cpu' = IF cpu.paginas >= cantidad_de_paginas
                    THEN [cpu EXCEPT !.paso = "por_agregar", !.paginas = @ - cantidad_de_paginas]
                    ELSE [cpu EXCEPT !.paso = "por_quitar", !.paginas = cantidad_de_paginas - @]
          /\ UNCHANGED <<procesos_en_memoria, FRAME_BITMAP, PID_solicitado, enCpu>>
      BY <1>4 DEF redimensionar_memoria_proceso, SoloCpu, memVars, clienteVars, colaVars
    <2>2. /\ aborto' \in {NULL, "cpu"}
          /\ aborto' = "cpu" => PID_solicitado \in resucitados
          /\ cantidad_de_paginas \in Nat /\ frames_libres' = frames_libres
          /\ cantidad_de_paginas' = cantidad_de_paginas
      BY <2>1, BusquedaCierta DEF cantidad_de_paginas, tabla, cargados, frames_libres
    <2>3. PID_solicitado' \in 0 .. MaxProcesos /\ cpu.paginas \in Nat
      BY <2>1 DEF Tipo
    <2>4. /\ cpu'.frame = cpu.frame
          /\ \/ cpu'.paso = "por_agregar" /\ cpu'.paginas = cpu.paginas - cantidad_de_paginas
             \/ cpu'.paso = "por_quitar" /\ cpu'.paginas = cantidad_de_paginas - cpu.paginas
          /\ cpu' \in [paso : PasoCpu, paginas : Nat, frame : Frame \cup {NULL}]
      <3>1. CASE cpu.paginas >= cantidad_de_paginas
        <4>1. cpu' = [cpu EXCEPT !.paso = "por_agregar", !.paginas = @ - cantidad_de_paginas]
          BY <2>1, <3>1
        <4>2. cpu.paginas - cantidad_de_paginas \in Nat
          BY <2>2, <2>3, <3>1
        <4>3. QED
          BY <4>1, <4>2 DEF Tipo, PasoCpu
      <3>2. CASE ~(cpu.paginas >= cantidad_de_paginas)
        <4>1. cpu' = [cpu EXCEPT !.paso = "por_quitar", !.paginas = cantidad_de_paginas - @]
          BY <2>1, <3>2
        <4>2. cantidad_de_paginas - cpu.paginas \in Nat
          BY <2>2, <2>3, <3>2
        <4>3. QED
          BY <4>1, <4>2 DEF Tipo, PasoCpu
      <3>3. QED
        BY <3>1, <3>2
    <2>5. CpuAtendida' /\ Alcanza'
      BY <2>1, <2>2, <2>3, <2>4 DEF CpuAtendida, Alcanza, cargados, Bucle
    <2>6. QED
      BY <2>1, <2>2, <2>3, <2>4, <2>5, <1>a
  <1>10. CASE BuscaTabla
    <2>1. /\ cpu.paso \in {"por_agregar", "por_quitar"} /\ get_table_by_PID("cpu") /\ Quieto
          /\ cpu' = [cpu EXCEPT !.paso = IF cpu.paso = "por_agregar" THEN "agregar" ELSE "quitar"]
          /\ UNCHANGED <<procesos_en_memoria, FRAME_BITMAP, PID_solicitado, enCpu>>
      BY <1>10 DEF BuscaTabla, CpuSigue, SoloCpu, memVars, clienteVars, colaVars
    <2>2. /\ aborto' \in {NULL, "cpu"}
          /\ aborto' = "cpu" => PID_solicitado \in resucitados
          /\ aborto' = NULL => PID_solicitado \in cargados
          /\ cantidad_de_paginas' = cantidad_de_paginas /\ frames_libres' = frames_libres
      BY <2>1, BusquedaCierta DEF cantidad_de_paginas, tabla, cargados, frames_libres
    <2>3. PID_solicitado' \in 0 .. MaxProcesos
      BY <2>1 DEF Tipo
    <2>4. /\ cpu'.frame = cpu.frame /\ cpu'.paginas = cpu.paginas
          /\ \/ cpu.paso = "por_agregar" /\ cpu'.paso = "agregar"
             \/ cpu.paso = "por_quitar" /\ cpu'.paso = "quitar"
          /\ cpu' \in [paso : PasoCpu, paginas : Nat, frame : Frame \cup {NULL}]
      BY <2>1 DEF Tipo, PasoCpu
    <2>5. CpuAtendida' /\ Alcanza'
      BY <2>1, <2>2, <2>4 DEF CpuAtendida, Alcanza, cargados, Bucle
    <2>6. QED
      BY <2>1, <2>2, <2>3, <2>4, <2>5, <1>a
  <1>5. CASE agregar_paginas
    <2> DEFINE f == get_available_frame
    <2>1. /\ cpu.paso = "agregar" /\ cpu.paginas > 0 /\ Quieto
          /\ ConTabla(Append(tabla, f))
          /\ cpu' = [cpu EXCEPT !.paso = "marcar", !.frame = f]
          /\ UNCHANGED <<FRAME_BITMAP, PID_solicitado, aborto, enCpu>>
      BY <1>5 DEF agregar_paginas, clienteVars, colaVars
    <2>2. frames_libres > 0 /\ PID_solicitado \in cargados /\ tabla \in Seq(Frame)
      BY <2>1, LibresFinito DEF Alcanza, Tipo, CpuAtendida, tabla, Bucle
    <2>3. f \in Frame /\ ~FRAME_BITMAP[f]
      BY <2>2, Disponible
    <2>4. /\ cpu'.paso = "marcar" /\ cpu'.frame = f /\ cpu'.paginas = cpu.paginas
          /\ cpu' \in [paso : PasoCpu, paginas : Nat, frame : Frame \cup {NULL}]
      BY <2>1, <2>3 DEF Tipo, PasoCpu
    <2>5. Append(tabla, f) \in Seq(Frame)
      BY <2>2, <2>3, AppendProperties
    <2>6. cargados' = cargados /\ procesos_en_memoria' \in [cargados' -> Seq(Frame)]
      BY <2>1, <2>5 DEF ConTabla, cargados, Tipo
    <2>7. Tipo'
      BY <2>1, <2>4, <2>6 DEF Tipo
    <2>8. Numerados' /\ Pendientes' /\ Despedidos'
      BY <2>1, <2>6, AjenoAlKernel
    <2>9. CpuAtendida' /\ AbortoSoloAlLiberar' /\ Alcanza'
      BY <2>1, <2>3, <2>4, <2>6, MemoriaOK
         DEF CpuAtendida, AbortoSoloAlLiberar, Alcanza, frames_libres, Bucle
    <2>10. QED
      BY <2>7, <2>8, <2>9
  <1>6. CASE AgregarMarca
    <2>1. /\ cpu.paso = "marcar" /\ marcar_frame_como(cpu.frame, TRUE) /\ Quieto
          /\ cpu' = [cpu EXCEPT !.paso = "agregar", !.paginas = @ - 1, !.frame = NULL]
          /\ UNCHANGED <<procesos_en_memoria, PID_solicitado, aborto, enCpu>>
      BY <1>6 DEF AgregarMarca, clienteVars, colaVars
    <2>2. cpu.frame \in Frame /\ ~FRAME_BITMAP[cpu.frame] /\ cpu.paginas - 1 \in Nat
      BY <2>1 DEF Alcanza, Tipo
    <2>3. /\ cpu'.paso = "agregar" /\ cpu'.frame = NULL /\ cpu'.paginas = cpu.paginas - 1
          /\ cpu' \in [paso : PasoCpu, paginas : Nat, frame : Frame \cup {NULL}]
      BY <2>1, <2>2 DEF Tipo, PasoCpu
    <2>4. FRAME_BITMAP' \in [Frame -> BOOLEAN]
      BY <2>1 DEF marcar_frame_como, Tipo
    <2>5. frames_libres' = frames_libres - 1 /\ frames_libres \in Nat
      BY <2>1, <2>2, Marcar, LibresFinito DEF Tipo
    <2>6. Tipo'
      BY <2>1, <2>3, <2>4 DEF Tipo, cargados
    <2>7. Numerados' /\ Pendientes' /\ Despedidos'
      BY <2>1, AjenoAlKernel DEF cargados
    <2>8. CpuAtendida' /\ AbortoSoloAlLiberar'
      BY <2>1, <2>3, MemoriaOK DEF CpuAtendida, AbortoSoloAlLiberar, cargados, Bucle
    <2>9. Alcanza'
      BY <2>1, <2>3, <2>5 DEF Alcanza, Tipo, cargados
    <2>10. QED
      BY <2>6, <2>7, <2>8, <2>9
  <1>7. CASE quitar_paginas
    <2>1. /\ cpu.paso = "quitar" /\ cpu.paginas > 0 /\ Quieto
          /\ ConTabla(Front(tabla))
          /\ cpu' = [cpu EXCEPT !.paso = "desmarcar", !.frame = Last(tabla)]
          /\ UNCHANGED <<FRAME_BITMAP, PID_solicitado, aborto, enCpu>>
      BY <1>7 DEF quitar_paginas, clienteVars, colaVars
    <2>2. /\ PID_solicitado \in cargados /\ tabla \in Seq(Frame)
          /\ cpu.paginas \in Nat /\ cpu.paginas <= Len(tabla)
      BY <2>1 DEF CpuAtendida, Tipo, tabla, Alcanza, cantidad_de_paginas, Bucle
    <2>3. tabla # <<>>
      BY <2>1, <2>2, EmptySeq DEF Tipo
    <2>4. Last(tabla) \in Frame /\ Front(tabla) \in Seq(Frame) /\ Len(Front(tabla)) = Len(tabla) - 1
      BY <2>2, <2>3, FrenteYFondo
    <2>5. /\ cpu'.paso = "desmarcar" /\ cpu'.frame = Last(tabla) /\ cpu'.paginas = cpu.paginas
          /\ cpu' \in [paso : PasoCpu, paginas : Nat, frame : Frame \cup {NULL}]
      BY <2>1, <2>4 DEF Tipo, PasoCpu
    <2>6. /\ cargados' = cargados /\ procesos_en_memoria' \in [cargados' -> Seq(Frame)]
          /\ procesos_en_memoria'[PID_solicitado] = Front(tabla)
      BY <2>1, <2>2, <2>4 DEF ConTabla, cargados, Tipo
    <2>7. Tipo'
      BY <2>1, <2>5, <2>6 DEF Tipo
    <2>8. Numerados' /\ Pendientes' /\ Despedidos'
      BY <2>1, <2>6, AjenoAlKernel
    <2>9. CpuAtendida' /\ AbortoSoloAlLiberar'
      BY <2>1, <2>5, <2>6, MemoriaOK DEF CpuAtendida, AbortoSoloAlLiberar, Bucle
    <2>10. cantidad_de_paginas' = Len(tabla) - 1 /\ Len(tabla) \in Nat
      BY <2>1, <2>2, <2>4, <2>6 DEF cantidad_de_paginas, tabla
    <2>11. Alcanza'
      BY <2>1, <2>2, <2>4, <2>5, <2>10 DEF Alcanza
    <2>12. QED
      BY <2>7, <2>8, <2>9, <2>11
  <1>11. CASE QuitarMarca
    <2>1. /\ cpu.paso = "desmarcar" /\ marcar_frame_como(cpu.frame, FALSE) /\ Quieto
          /\ cpu' = [cpu EXCEPT !.paso = "quitar", !.paginas = @ - 1, !.frame = NULL]
          /\ UNCHANGED <<procesos_en_memoria, PID_solicitado, aborto, enCpu>>
      BY <1>11 DEF QuitarMarca, clienteVars, colaVars
    <2>2. cpu.frame \in Frame /\ cpu.paginas - 1 \in Nat
      BY <2>1 DEF Alcanza, Tipo
    <2>3. /\ cpu'.paso = "quitar" /\ cpu'.frame = NULL /\ cpu'.paginas = cpu.paginas - 1
          /\ cpu' \in [paso : PasoCpu, paginas : Nat, frame : Frame \cup {NULL}]
      BY <2>1, <2>2 DEF Tipo, PasoCpu
    <2>4. FRAME_BITMAP' \in [Frame -> BOOLEAN]
      BY <2>1 DEF marcar_frame_como, Tipo
    <2>5. cantidad_de_paginas' = cantidad_de_paginas
      BY <2>1 DEF cantidad_de_paginas, tabla, cargados
    <2>6. Tipo'
      BY <2>1, <2>3, <2>4 DEF Tipo, cargados
    <2>7. Numerados' /\ Pendientes' /\ Despedidos'
      BY <2>1, AjenoAlKernel DEF cargados
    <2>8. CpuAtendida' /\ AbortoSoloAlLiberar'
      BY <2>1, <2>3, MemoriaOK DEF CpuAtendida, AbortoSoloAlLiberar, cargados, Bucle
    <2>9. Alcanza'
      BY <2>1, <2>3, <2>5 DEF Alcanza, cargados
    <2>10. QED
      BY <2>6, <2>7, <2>8, <2>9
  <1>8. CASE RedimensionarTermina
    <2>1. /\ cpu.paso \in {"agregar", "quitar"} /\ cpu' = [cpu EXCEPT !.paso = "mostrar"] /\ Quieto
          /\ UNCHANGED <<procesos_en_memoria, FRAME_BITMAP, PID_solicitado, aborto, enCpu>>
      BY <1>8 DEF RedimensionarTermina, CpuSigue, SoloCpu, memVars, clienteVars, colaVars
    <2>2. /\ cpu'.paso = "mostrar" /\ cpu'.frame = cpu.frame
          /\ cpu' \in [paso : PasoCpu, paginas : Nat, frame : Frame \cup {NULL}]
      BY <2>1 DEF Tipo, PasoCpu
    <2>3. PID_solicitado' \in 0 .. MaxProcesos
      BY <2>1 DEF Tipo
    <2>4. CpuAtendida' /\ Alcanza'
      BY <2>1, <2>2 DEF CpuAtendida, Alcanza, cargados, Bucle
    <2>5. QED
      BY <2>1, <2>2, <2>3, <2>4, MemoriaOK, <1>a
  <1>9. CASE mostrar_tabla_paginas
    <2>1. /\ cpu.paso = "mostrar" /\ get_table_by_PID("cpu") /\ cpu' = CpuOcioso /\ Quieto
          /\ UNCHANGED <<procesos_en_memoria, FRAME_BITMAP, PID_solicitado, enCpu>>
      BY <1>9 DEF mostrar_tabla_paginas, SoloCpu, memVars, clienteVars, colaVars
    <2>2. /\ aborto' \in {NULL, "cpu"}
          /\ aborto' = "cpu" => PID_solicitado \in resucitados
          /\ PID_solicitado' \in 0 .. MaxProcesos
      BY <2>1, BusquedaCierta DEF Tipo
    <2>3. /\ cpu'.paso = "ocioso" /\ cpu'.frame = NULL
          /\ cpu' \in [paso : PasoCpu, paginas : Nat, frame : Frame \cup {NULL}]
      BY <2>1 DEF CpuOcioso, PasoCpu
    <2>4. CpuAtendida' /\ Alcanza'
      BY <2>1, <2>3 DEF CpuAtendida, Alcanza, Bucle
    <2>5. QED
      BY <2>1, <2>2, <2>3, <2>4, <1>a
  <1>12. QED
    BY <1>1, <1>2, <1>3, <1>4, <1>5, <1>6, <1>7, <1>8, <1>9, <1>10, <1>11
       DEF gestionar_solicitudes_cpu

\* The kernel does not touch the memory.
LEMMA PasoDelCliente ==
  ASSUME IndInv, aborto = NULL, Kernel
  PROVE  IndInv'
  <1> USE DEF IndInv
  <1> DEFINE Quieto ==
        UNCHANGED <<procesos_en_memoria, FRAME_BITMAP, PID_solicitado, mutex_procesos_en_memoria,
                    kernel, cpu, aborto>>
  <1>a. ASSUME Quieto, CpuAtendida' PROVE CpuAtendida' /\ Alcanza' /\ AbortoSoloAlLiberar'
    BY <1>a, MemoriaOK DEF Alcanza, AbortoSoloAlLiberar, frames_libres, cantidad_de_paginas, tabla,
                           cargados
  <1>1. CASE IniciarProceso
    <2> DEFINE pedido == [op |-> "CREAR", pid |-> pcb_counter]
    <2>1. /\ pcb_counter <= MaxProcesos /\ espera["consola"] = NULL
          /\ pedidos' = Append(pedidos, pedido)
          /\ espera' = [espera EXCEPT !["consola"] = pedido]
          /\ pcb_counter' = pcb_counter + 1 /\ Quieto
          /\ finalizando = NULL
          /\ UNCHANGED <<respuestas, admitidos, finalizando, sacados, resucitados, cruzados,
                         enCpu>>
      BY <1>1 DEF IniciarProceso, Pide, SoloCliente, memVars, colaVars
    <2>2. pedido \in Pedido /\ pcb_counter \in Nat
      BY <2>1, MemoriaOK DEF Pedido, Tipo, Pid
    <2>3. /\ pedidos' \in Seq(Pedido) /\ Len(pedidos') = Len(pedidos) + 1
          /\ \A i \in DOMAIN pedidos' :
               \/ i \in DOMAIN pedidos /\ pedidos'[i] = pedidos[i]
               \/ i = Len(pedidos) + 1 /\ pedidos'[i] = pedido
      BY <2>1, <2>2, AppendProperties DEF Tipo
    <2>4. /\ espera' \in [HiloKernel -> Pedido \cup {NULL}]
          /\ espera'["consola"] = pedido /\ espera'["corto"] = espera["corto"]
      BY <2>1, <2>2 DEF Tipo, HiloKernel
    <2>5. Tipo'
      BY <2>1, <2>2, <2>3, <2>4, MemoriaOK DEF Tipo, cargados
    <2>6. Numerados'
      <3>1. pedido.pid = pcb_counter /\ pedido.op = "CREAR" /\ cargados' = cargados
        BY <2>1 DEF cargados
      <3>2. /\ \A p \in cargados \cup admitidos \cup sacados : p < pcb_counter /\ p \in Nat
            /\ \A i \in DOMAIN pedidos : pedidos[i].pid < pcb_counter /\ pedidos[i].pid \in Nat
            /\ kernel.paso # "ocioso" => kernel.pid < pcb_counter /\ kernel.pid \in Nat
        <4>1. \A i \in DOMAIN pedidos : pedidos[i].pid \in Pid
          <5>1. pedidos \in Seq(Pedido)
            BY DEF Tipo
          <5>2. \A i \in DOMAIN pedidos : pedidos[i] \in Pedido
            BY <5>1
          <5>3. QED
            BY <5>2 DEF Pedido
        <4>2. cargados \cup admitidos \cup sacados \subseteq Pid
          BY DEF Tipo
        <4>3. QED
          BY <4>1, <4>2, Constantes DEF Numerados
      <3>3. /\ \A p \in cargados' \cup admitidos' \cup sacados' : p < pcb_counter'
            /\ \A i \in DOMAIN pedidos' : pedidos'[i].pid < pcb_counter'
            /\ kernel'.paso # "ocioso" => kernel'.pid < pcb_counter'
        BY <2>1, <2>2, <2>3, <3>1, <3>2
      <3>4. \A i \in DOMAIN pedidos' : pedidos'[i].op = "CREAR" => pedidos'[i].pid \notin cargados'
        BY <2>2, <2>3, <3>1, <3>2 DEF Numerados
      <3>5. \A i, j \in DOMAIN pedidos' :
              pedidos'[i].op = "CREAR" /\ pedidos'[j].op = "CREAR" /\ pedidos'[i].pid = pedidos'[j].pid
                => i = j
        BY <2>2, <2>3, <3>1, <3>2 DEF Numerados
      <3>6. QED
        BY <2>1, <3>3, <3>4, <3>5 DEF Numerados
    <2>7. Pendientes'
      BY <2>1, <2>2, <2>3, <2>4 DEF Pendientes, Numerados, Tipo, Pid, Pedido
    <2>8. Despedidos'
      BY <2>1, <2>2, <2>3 DEF Despedidos, Despedido
    <2>9. CpuAtendida'
      <3>1. cpu.paso # "ocioso" => PID_solicitado < pcb_counter /\ PID_solicitado \in Nat
        BY DEF CpuAtendida, Numerados, Tipo
      <3>2. QED
        BY <2>1, <2>2, <2>3, <3>1 DEF CpuAtendida, cargados
    <2>10. QED
      BY <2>1, <2>5, <2>6, <2>7, <2>8, <2>9, <1>a
  <1>2. ASSUME NEW hilo \in HiloKernel, NEW p \in Pid, push_cola_exit(hilo, p) PROVE IndInv'
    <2> DEFINE pedido == [op |-> "LIBERAR", pid |-> p]
    <2>1. /\ \/ hilo = "consola" /\ finalizando = p /\ finalizando' = NULL /\ admitidos' = admitidos
             \/ /\ hilo = "corto" /\ p \in admitidos /\ p # enCpu
                /\ admitidos' = admitidos \ {p} /\ finalizando' = finalizando
          /\ espera[hilo] = NULL /\ pedidos' = Append(pedidos, pedido)
          /\ espera' = [espera EXCEPT ![hilo] = pedido] /\ Quieto
          /\ UNCHANGED <<respuestas, sacados, resucitados, cruzados, pcb_counter, enCpu>>
      BY <1>2 DEF push_cola_exit, Pide, SoloCliente, memVars
    <2>2. /\ pedido \in Pedido /\ p < pcb_counter /\ p # NULL
          /\ admitidos' \subseteq admitidos /\ finalizando' \in {finalizando, NULL}
      BY <2>1, Constantes DEF Pedido, Numerados
    <2>3. /\ pedidos' \in Seq(Pedido)
          /\ \A i \in DOMAIN pedidos' :
               \/ i \in DOMAIN pedidos /\ pedidos'[i] = pedidos[i]
               \/ i = Len(pedidos) + 1 /\ pedidos'[i] = pedido
      BY <2>1, <2>2, AppendProperties DEF Tipo
    <2>4. /\ espera' \in [HiloKernel -> Pedido \cup {NULL}]
          /\ \A h \in HiloKernel : espera'[h] = IF h = hilo THEN pedido ELSE espera[h]
      BY <2>1, <2>2 DEF Tipo
    <2>5. Tipo'
      BY <2>1, <2>2, <2>3, <2>4 DEF Tipo, cargados
    <2>6. Numerados'
      BY <2>1, <2>2, <2>3 DEF Numerados, Tipo, cargados
    <2>7. Pendientes'
      <3>1. CASE hilo = "consola"
        BY <2>1, <2>2, <2>4, <3>1 DEF Pendientes, HiloKernel
      <3>2. CASE hilo = "corto"
        BY <2>1, <2>2, <2>3, <2>4, <3>2 DEF Pendientes, HiloKernel
      <3>3. QED
        BY <3>1, <3>2 DEF HiloKernel
    <2>8. Despedidos'
      <3>1. Despedido(p)'
        BY <2>1, <2>2 DEF Despedidos, Despedido
      <3>2. \A q : Despedido(q) => Despedido(q)'
        BY <2>1, <2>2 DEF Despedido
      <3>3. QED
        BY <2>1, <2>2, <2>3, <3>1, <3>2 DEF Despedidos
    <2>9. CpuAtendida'
      BY <2>1, <2>3 DEF CpuAtendida, cargados
    <2>10. QED
      BY <2>1, <2>5, <2>6, <2>7, <2>8, <2>9, <1>a
  <1>3. ASSUME NEW hilo \in HiloKernel, RecibeStatus(hilo) PROVE IndInv'
    <2> DEFINE pid == espera[hilo].pid
               admite == espera[hilo].op = "CREAR" /\ Head(respuestas).status = "SUCCESS"
    <2>1. /\ espera[hilo] # NULL /\ respuestas # <<>> /\ respuestas' = Tail(respuestas)
          /\ admitidos' = admitidos \cup {q \in {pid} : admite}
          /\ cruzados' = cruzados \cup {q \in {pid} : admite /\ Head(respuestas).pid # q}
          /\ espera' = [espera EXCEPT ![hilo] = NULL] /\ Quieto
          /\ UNCHANGED <<pedidos, finalizando, sacados, resucitados, pcb_counter, enCpu>>
      BY <1>3 DEF RecibeStatus, SoloCliente, memVars
    <2>2. espera[hilo] \in Pedido /\ pid \in Pid
      BY <2>1 DEF Tipo, Pedido
    <2>3. respuestas' \in Seq([status : {"SUCCESS", "ERROR"}, pid : Pid])
      BY <2>1, HeadTailProperties DEF Tipo
    <2>4. /\ espera' \in [HiloKernel -> Pedido \cup {NULL}]
          /\ \A h \in HiloKernel : espera'[h] = IF h = hilo THEN NULL ELSE espera[h]
      BY <2>1 DEF Tipo
    <2>5. admite => hilo = "consola"
      BY <2>1, <2>2 DEF Pendientes, HiloKernel
    <2>6. Tipo'
      BY <2>1, <2>2, <2>3, <2>4 DEF Tipo, cargados
    <2>7. Numerados'
      BY <2>1, <2>5 DEF Numerados, Pendientes, cargados
    <2>8. Pendientes'
      BY <2>1, <2>4, <2>5 DEF Pendientes, HiloKernel
    <2>9. Despedidos'
      BY <2>1, <2>5 DEF Despedidos, Despedido, Pendientes
    <2>10. CpuAtendida'
      BY <2>1 DEF CpuAtendida, cargados
    <2>11. QED
      BY <2>1, <2>6, <2>7, <2>8, <2>9, <2>10, <1>a
  <1>4. ASSUME NEW p \in Pid, Despacha(p) PROVE IndInv'
    <2>1. /\ enCpu = NULL /\ cpu.paso = "ocioso" /\ p \in admitidos /\ enCpu' = p /\ Quieto
          /\ UNCHANGED <<pedidos, respuestas, espera, admitidos, finalizando, sacados,
                         resucitados, cruzados, pcb_counter>>
      BY <1>4 DEF Despacha, SoloCliente, memVars, clienteVars, colaVars
    <2>2. Tipo'
      BY <2>1 DEF Tipo, cargados
    <2>3. Numerados' /\ Pendientes' /\ Despedidos'
      BY <2>1, AjenoAlKernel DEF cargados
    <2>4. CpuAtendida'
      BY <2>1 DEF CpuAtendida, Bucle
    <2>5. QED
      BY <2>1, <2>2, <2>3, <2>4, <1>a
  <1>5. ASSUME NEW p \in Pid, finalizar_proceso(p) PROVE IndInv'
    <2>1. /\ finalizando = NULL /\ espera["consola"] = NULL /\ p \in admitidos /\ p # enCpu
          /\ admitidos' = admitidos \ {p} /\ finalizando' = p /\ sacados' = sacados \cup {p}
          /\ Quieto
          /\ UNCHANGED <<pedidos, respuestas, espera, resucitados, cruzados, pcb_counter, enCpu>>
      BY <1>5 DEF finalizar_proceso, SoloCliente, memVars
    <2>2. Tipo' /\ Numerados' /\ Pendientes' /\ Despedidos'
      BY <2>1 DEF Tipo, Numerados, Pendientes, Despedidos, Despedido, cargados
    <2>3. CpuAtendida'
      BY <2>1 DEF CpuAtendida, cargados
    <2>4. QED
      BY <2>1, <2>2, <2>3, <1>a
  <1>6. ASSUME NEW p \in Pid, escuchar_io(p) PROVE IndInv'
    <2>1. /\ p \in sacados /\ admitidos' = admitidos \cup {p} /\ sacados' = sacados \ {p}
          /\ resucitados' = resucitados \cup {p} /\ Quieto
          /\ UNCHANGED <<pedidos, respuestas, espera, finalizando, cruzados, pcb_counter, enCpu>>
      BY <1>6 DEF escuchar_io, SoloCliente, memVars
    <2>2. Tipo' /\ Numerados' /\ Pendientes' /\ Despedidos'
      BY <2>1 DEF Tipo, Numerados, Pendientes, Despedidos, Despedido, cargados
    <2>3. CpuAtendida'
      BY <2>1 DEF CpuAtendida, cargados
    <2>4. QED
      BY <2>1, <2>2, <2>3, <1>a
  <1>7. QED
    BY <1>1, <1>2, <1>3, <1>4, <1>5, <1>6 DEF Kernel

-----------------------------------------------------------------------------
\* The invariant holds of every state the two threads and the kernel reach.
THEOREM Invariante == Spec => []IndInv
  <1>1. IndInv /\ [Next]_vars => IndInv'
    <2> SUFFICES ASSUME IndInv, [Next]_vars PROVE IndInv'
      OBVIOUS
    <2>1. CASE Next
      BY <2>1, PasoDelKernel, PasoDeLaCpu, PasoDelCliente DEF Next
    <2>2. CASE UNCHANGED vars
      BY <2>2 DEF vars, memVars, clienteVars, colaVars, IndInv, Tipo, Numerados, Pendientes,
                  Despedidos, CpuAtendida, Alcanza, AbortoSoloAlLiberar, cargados, frames_libres,
                  cantidad_de_paginas, tabla, Despedido
    <2>3. QED
      BY <2>1, <2>2
  <1>2. QED
    BY Inicial, <1>1, PTL DEF Spec

\* The state keeps its types: in particular the search that grows a process
\* always finds a frame (tabla_paginas.c:19), so no -1 enters a page table.
THEOREM Tipos == Spec => []TypeOK
  <1>1. IndInv => TypeOK
    BY DEF IndInv, Tipo, TypeOK, PasoKernel, PasoCpu
  <1>2. QED
    BY Invariante, <1>1, PTL

\* A lookup made for the CPU aborts (tabla_paginas.c:5), and a table is freed under
\* a RESIZE, only for a finalised process that a gestor_io put back in READY;
\* otherwise only the log line of LIBERAR_PROCESO_EN_MEMORIA aborts, and only
\* when the last process fetched is gone.
THEOREM AbortoAcotado == Spec => []AbortoSoloAlLiberar
  BY Invariante, PTL DEF IndInv


-----------------------------------------------------------------------------
(***************************************************************************)
(* Whose frames are                                                        *)
(***************************************************************************)
\* The tables, the pages being freed and the page not yet marked, as sequences
\* and frames.
LEMMA Tablas ==
  ASSUME IndInv
  PROVE  /\ \A p \in cargados :
              /\ procesos_en_memoria[p] \in Seq(Frame)
              /\ DOMAIN procesos_en_memoria[p] = 1 .. Len(procesos_en_memoria[p])
              /\ \A k \in DOMAIN procesos_en_memoria[p] : procesos_en_memoria[p][k] \in Frame
         /\ kernel.tabla \in Seq(Frame) /\ DOMAIN kernel.tabla = 1 .. Len(kernel.tabla)
         /\ \A k \in DOMAIN kernel.tabla : kernel.tabla[k] \in Frame
  <1>1. /\ \A p \in cargados : procesos_en_memoria[p] \in Seq(Frame)
        /\ kernel.tabla \in Seq(Frame)
    BY DEF IndInv, Tipo
  <1>2. QED
    BY <1>1

\* What a step that moves no frame keeps.
LEMMA SinMover ==
  ASSUME Repartidos, UNCHANGED <<procesos_en_memoria, FRAME_BITMAP>>,
         kernel'.tabla = kernel.tabla, kernel'.paso # "quitar" => kernel.tabla = <<>>,
         cpu'.frame = cpu.frame,
         cpu'.paso = "marcar" => cpu.paso = "marcar" /\ PID_solicitado' = PID_solicitado,
         cpu'.paso = "desmarcar" <=> cpu.paso = "desmarcar"
  PROVE  Repartidos'
  <1> USE DEF Repartidos, cargados
  <1>1. Marcadas' /\ Ajenas'
    BY DEF Marcadas, Ajenas
  <1>2. Conocidas' /\ EnManos'
    BY DEF Conocidas, EnTabla, Liberandose, Quitada, EnManos
  <1>3. QED
    BY <1>1, <1>2

LEMMA RepartoInicial == Init => Repartidos
  <1> SUFFICES ASSUME Init PROVE Repartidos
    OBVIOUS
  <1>1. cargados = {} /\ kernel.tabla = <<>> /\ cpu.paso = "ocioso"
    BY DEF Init, KernelOcioso, CpuOcioso, cargados
  <1>2. \A f \in Frame : ~FRAME_BITMAP[f]
    BY DEF Init
  <1>3. QED
    BY <1>1, <1>2 DEF Repartidos, Marcadas, Ajenas, Conocidas, EnManos

LEMMA RepartoDelKernel ==
  ASSUME IndInv, Repartidos, gestionar_solicitudes_kernel
  PROVE  Repartidos'
  <1> DEFINE T == procesos_en_memoria
             K == kernel.tabla
  <1>a. cpu.paso = "marcar" => PID_solicitado \in cargados
    BY DEF Repartidos, EnManos
  <1>b. cpu.frame \in Frame => cpu.paso \in {"marcar", "desmarcar"}
    BY Constantes DEF IndInv, Alcanza
  <1>1. CASE CrearProceso
    <2>1. PICK existe \in BOOLEAN : cargar_proceso_en_memoria(Head(pedidos).pid, existe)
      BY <1>1 DEF CrearProceso
    <2>2. /\ pedidos # <<>> /\ Head(pedidos).op = "CREAR"
          /\ UNCHANGED <<FRAME_BITMAP, kernel, cpu, PID_solicitado>>
      BY <1>1 DEF CrearProceso, RecibePedido
    <2>3. Head(pedidos).pid \notin cargados
      <3>1. pedidos \in Seq(Pedido)
        BY DEF IndInv, Tipo
      <3>2. Head(pedidos) = pedidos[1] /\ 1 \in DOMAIN pedidos
        BY <2>2, <3>1, EmptySeq
      <3>3. QED
        BY <2>2, <3>2 DEF IndInv, Numerados
    <2>4. /\ cargados \subseteq cargados' /\ \A p \in cargados : T'[p] = T[p]
          /\ \A p \in cargados' : p \in cargados \/ DOMAIN T'[p] = {}
      BY <2>1, <2>3 DEF cargar_proceso_en_memoria, cargados
    <2>5. \A p \in cargados' : \A k \in DOMAIN T'[p] : p \in cargados /\ T'[p] = T[p]
      BY <2>4
    <2>6. Marcadas'
      BY <2>2, <2>5 DEF Repartidos, Marcadas
    <2>7. Ajenas'
      BY <2>2, <2>5 DEF Repartidos, Ajenas
    <2>8. Conocidas'
      BY <2>2, <2>4 DEF Repartidos, Conocidas, EnTabla, Liberandose, Quitada
    <2>9. EnManos'
      BY <2>2, <2>4, <2>5, <1>a DEF Repartidos, EnManos, EnTabla, Liberandose
    <2>10. QED
      BY <2>6, <2>7, <2>8, <2>9 DEF Repartidos
  <1>2. CASE LiberarRegistra
    <2>1. /\ kernel.paso = "ocioso" /\ kernel'.tabla = <<>>
          /\ UNCHANGED <<procesos_en_memoria, FRAME_BITMAP, PID_solicitado, cpu>>
      BY <1>2 DEF LiberarRegistra, RecibePedido, KernelOcioso, memVars
    <2>2. kernel.tabla = <<>>
      BY <2>1 DEF Repartidos, EnManos
    <2>3. QED
      BY <2>1, <2>2, SinMover
  <1>3. CASE LiberarProceso
    <2>1. /\ kernel.paso = "liberar" /\ kernel'.paso = "quitar" /\ ~TablaEnUso(kernel.pid)
          /\ cargados' = cargados \ {kernel.pid}
          /\ \A p \in cargados' : T'[p] = T[p]
          /\ kernel'.tabla = IF kernel.pid \in cargados THEN T[kernel.pid] ELSE <<>>
          /\ UNCHANGED <<FRAME_BITMAP, PID_solicitado, cpu>>
      BY <1>3 DEF LiberarProceso, cargados, IndInv, Tipo
    <2>2. K = <<>>
      BY <2>1 DEF Repartidos, EnManos
    <2>3. cpu.paso = "marcar" => PID_solicitado # kernel.pid
      BY <2>1 DEF TablaEnUso
    <2>4. \A k \in DOMAIN kernel'.tabla :
            /\ kernel.pid \in cargados /\ k \in DOMAIN T[kernel.pid]
            /\ kernel'.tabla[k] = T[kernel.pid][k] /\ T[kernel.pid][k] \in Frame
            /\ T[kernel.pid][k] # cpu.frame
      <3> SUFFICES ASSUME NEW k \in DOMAIN kernel'.tabla
                   PROVE  /\ kernel.pid \in cargados /\ k \in DOMAIN T[kernel.pid]
                          /\ kernel'.tabla[k] = T[kernel.pid][k] /\ T[kernel.pid][k] \in Frame
                          /\ T[kernel.pid][k] # cpu.frame
        OBVIOUS
      <3>1. kernel.pid \in cargados /\ kernel'.tabla = T[kernel.pid]
        BY <2>1
      <3>2. T[kernel.pid][k] \in Frame
        BY <3>1, Tablas
      <3>3. ASSUME T[kernel.pid][k] = cpu.frame PROVE FALSE
        <4>1. cpu.paso = "marcar" /\ PID_solicitado \in cargados
          BY <3>1, <3>2, <3>3, <2>1, <1>a, <1>b DEF Repartidos, EnManos, EnTabla
        <4>2. PICK j \in DOMAIN T[PID_solicitado] : T[PID_solicitado][j] = cpu.frame
          BY <4>1 DEF Repartidos, EnManos
        <4>3. PID_solicitado = kernel.pid
          BY <3>1, <3>3, <4>1, <4>2 DEF Repartidos, Ajenas
        <4>4. QED
          BY <2>3, <4>1, <4>3
      <3>4. QED
        BY <3>1, <3>2, <3>3
    <2>5. Marcadas'
      BY <2>1, <2>4 DEF Repartidos, Marcadas
    <2>6. Ajenas'
      <3>1. \A p, q \in cargados' : \A j \in DOMAIN T'[p], k \in DOMAIN T'[q] :
              T'[p][j] = T'[q][k] => p = q /\ j = k
        BY <2>1 DEF Repartidos, Ajenas
      <3>2. \A j, k \in DOMAIN kernel'.tabla : kernel'.tabla[j] = kernel'.tabla[k] => j = k
        BY <2>4 DEF Repartidos, Ajenas
      <3>3. \A p \in cargados' : \A j \in DOMAIN T'[p], k \in DOMAIN kernel'.tabla :
              T'[p][j] # kernel'.tabla[k]
        BY <2>1, <2>4 DEF Repartidos, Ajenas
      <3>4. QED
        BY <3>1, <3>2, <3>3 DEF Ajenas
    <2>7. Conocidas'
      <3> SUFFICES ASSUME NEW f \in Frame, FRAME_BITMAP[f]
                   PROVE  EnTabla(f)' \/ Liberandose(f)' \/ Quitada(f)'
        BY <2>1 DEF Conocidas
      <3>1. EnTabla(f) \/ Quitada(f)
        BY <2>2 DEF Repartidos, Conocidas, Liberandose
      <3>2. CASE EnTabla(f)
        <4>1. PICK p \in cargados : \E k \in DOMAIN T[p] : T[p][k] = f
          BY <3>2 DEF EnTabla
        <4>2. CASE p = kernel.pid
          BY <2>1, <4>1, <4>2 DEF Liberandose
        <4>3. CASE p # kernel.pid
          BY <2>1, <4>1, <4>3 DEF EnTabla
        <4>4. QED
          BY <4>2, <4>3
      <3>3. CASE Quitada(f)
        BY <2>1, <3>3 DEF Quitada
      <3>4. QED
        BY <3>1, <3>2, <3>3
    <2>8. EnManos'
      <3>1. cpu.paso = "desmarcar" => ~EnTabla(cpu.frame)
        BY DEF Repartidos, EnManos
      <3>2. cpu'.paso = "desmarcar" => ~EnTabla(cpu.frame)' /\ ~Liberandose(cpu.frame)'
        BY <2>1, <2>4, <3>1 DEF EnTabla, Liberandose
      <3>3. QED
        BY <2>1, <2>3, <3>2, <1>a DEF Repartidos, EnManos
    <2>9. QED
      BY <2>5, <2>6, <2>7, <2>8 DEF Repartidos
  <1>4. CASE LiberarPagina
    <2> DEFINE f == Last(K)
    <2>1. /\ kernel.paso = "quitar" /\ K # <<>> /\ marcar_frame_como(f, FALSE)
          /\ kernel'.tabla = Front(K) /\ kernel'.paso = "quitar" /\ cargados' = cargados
          /\ UNCHANGED <<procesos_en_memoria, PID_solicitado, cpu>>
      BY <1>4 DEF LiberarPagina, IndInv, Tipo, cargados
    <2>2. /\ f \in Frame /\ Len(K) \in DOMAIN K /\ f = K[Len(K)]
          /\ Front(K) \in Seq(Frame) /\ Len(K) \in Nat \ {0} /\ Len(Front(K)) = Len(K) - 1
          /\ \A k \in 1 .. Len(K) - 1 : Front(K)[k] = K[k]
      BY <2>1, Tablas, FrenteYFondo
    <2>3. /\ \A k \in DOMAIN kernel'.tabla :
               k \in DOMAIN K /\ k # Len(K) /\ kernel'.tabla[k] = K[k]
          /\ \A k \in DOMAIN K : k # Len(K) => k \in DOMAIN kernel'.tabla
      BY <2>1, <2>2, Tablas
    <2>4. \A g \in Frame : FRAME_BITMAP'[g] <=> g # f /\ FRAME_BITMAP[g]
      BY <2>1, <2>2 DEF marcar_frame_como, IndInv, Tipo
    <2>5. \A p \in cargados : \A k \in DOMAIN T[p] : T[p][k] # f /\ T[p][k] \in Frame
      BY <2>2, Tablas DEF Repartidos, Ajenas
    <2>6. \A k \in DOMAIN kernel'.tabla : kernel'.tabla[k] # f /\ kernel'.tabla[k] \in Frame
      BY <2>2, <2>3, Tablas DEF Repartidos, Ajenas
    <2>7. Marcadas'
      <3>1. \A p \in cargados : \A k \in DOMAIN T[p] :
              FRAME_BITMAP'[T[p][k]] \/ T[p][k] = cpu.frame
        BY <2>4, <2>5 DEF Repartidos, Marcadas
      <3>2. \A k \in DOMAIN kernel'.tabla : FRAME_BITMAP'[kernel'.tabla[k]]
        BY <2>3, <2>4, <2>6 DEF Repartidos, Marcadas
      <3>3. QED
        BY <2>1, <3>1, <3>2 DEF Marcadas
    <2>8. Ajenas'
      BY <2>1, <2>3 DEF Repartidos, Ajenas
    <2>9. Conocidas'
      <3> SUFFICES ASSUME NEW g \in Frame, FRAME_BITMAP'[g]
                   PROVE  EnTabla(g)' \/ Liberandose(g)' \/ Quitada(g)'
        BY DEF Conocidas
      <3>1. g # f /\ (EnTabla(g) \/ Liberandose(g) \/ Quitada(g))
        BY <2>4 DEF Repartidos, Conocidas
      <3>2. (EnTabla(g) => EnTabla(g)') /\ (Quitada(g) => Quitada(g)')
        BY <2>1 DEF EnTabla, Quitada
      <3>3. Liberandose(g) => Liberandose(g)'
        BY <2>2, <2>3, <3>1 DEF Liberandose
      <3>4. QED
        BY <3>1, <3>2, <3>3
    <2>10. EnManos'
      BY <2>1, <2>3 DEF Repartidos, EnManos, EnTabla, Liberandose
    <2>11. QED
      BY <2>7, <2>8, <2>9, <2>10 DEF Repartidos
  <1>5. CASE LiberarTermina
    <2>1. /\ kernel.tabla = <<>> /\ kernel'.tabla = <<>>
          /\ UNCHANGED <<procesos_en_memoria, FRAME_BITMAP, PID_solicitado, cpu>>
      BY <1>5 DEF LiberarTermina, KernelOcioso
    <2>2. QED
      BY <2>1, SinMover
  <1>6. CASE LiberarEnUso
    <2>1. UNCHANGED <<procesos_en_memoria, FRAME_BITMAP, PID_solicitado, kernel, cpu>>
      BY <1>6 DEF LiberarEnUso, memVars
    <2>2. QED
      BY <2>1, SinMover DEF Repartidos, EnManos
  <1>7. QED
    BY <1>1, <1>2, <1>3, <1>4, <1>5, <1>6 DEF gestionar_solicitudes_kernel

LEMMA RepartoDeLaCpu ==
  ASSUME IndInv, Repartidos, aborto = NULL, gestionar_solicitudes_cpu
  PROVE  Repartidos'
  <1> DEFINE T == procesos_en_memoria
             K == kernel.tabla
  <1>a. cpu.paso \notin {"marcar", "desmarcar"} => cpu.frame = NULL
    BY DEF IndInv, Alcanza
  <1>b. cpu.paso \in Bucle => PID_solicitado \in cargados
    BY DEF IndInv, CpuAtendida
  <1>c. cpu \in [paso : PasoCpu, paginas : Nat, frame : Frame \cup {NULL}]
    BY DEF IndInv, Tipo
  <1>d. ASSUME UNCHANGED <<procesos_en_memoria, FRAME_BITMAP, kernel>>,
               cpu.paso \notin {"marcar", "desmarcar"}, cpu'.paso \notin {"marcar", "desmarcar"},
               cpu'.frame = NULL
        PROVE  Repartidos'
    BY <1>d, <1>a, SinMover DEF Repartidos, EnManos
  <1>1. CASE recibir_fetch_de_cpu
    BY <1>1, <1>a, <1>c, <1>d DEF recibir_fetch_de_cpu, CpuSigue
  <1>2. CASE enviar_instruccion_a_cpu
    <2>1. /\ cpu.paso = "instruccion" /\ cpu'.paso \notin {"marcar", "desmarcar"}
          /\ cpu'.frame = NULL
          /\ UNCHANGED <<procesos_en_memoria, FRAME_BITMAP, kernel>>
      BY <1>2 DEF enviar_instruccion_a_cpu, SoloCpu, memVars, CpuOcioso
    <2>2. QED
      BY <2>1, <1>d
  <1>3. CASE RedimensionarVerifica
    <2>1. /\ cpu.paso = "redimensionar" /\ cpu'.paso \notin {"marcar", "desmarcar"}
          /\ cpu'.frame = NULL
          /\ UNCHANGED <<procesos_en_memoria, FRAME_BITMAP, kernel>>
      BY <1>3, <1>a, <1>c DEF RedimensionarVerifica, SoloCpu, memVars, CpuOcioso, CpuSigue
    <2>2. QED
      BY <2>1, <1>d
  <1>4. CASE redimensionar_memoria_proceso
    <2>1. /\ cpu.paso = "aplicar" /\ cpu'.paso \notin {"marcar", "desmarcar"}
          /\ cpu'.frame = NULL
          /\ UNCHANGED <<procesos_en_memoria, FRAME_BITMAP, kernel>>
      BY <1>4, <1>a, <1>c DEF redimensionar_memoria_proceso, SoloCpu, memVars
    <2>2. QED
      BY <2>1, <1>d
  <1>10. CASE BuscaTabla
    <2>1. /\ cpu.paso \notin {"marcar", "desmarcar"} /\ cpu'.paso \notin {"marcar", "desmarcar"}
          /\ cpu'.frame = NULL
          /\ UNCHANGED <<procesos_en_memoria, FRAME_BITMAP, kernel>>
      BY <1>10, <1>a, <1>c DEF BuscaTabla, CpuSigue, SoloCpu, memVars
    <2>2. QED
      BY <2>1, <1>d
  <1>5. CASE agregar_paginas
    <2> DEFINE f == get_available_frame
               n == Len(tabla) + 1
    <2>1. /\ cpu.paso = "agregar" /\ cpu.paginas > 0 /\ ConTabla(Append(tabla, f))
          /\ cpu'.paso = "marcar" /\ cpu'.frame = f
          /\ UNCHANGED <<FRAME_BITMAP, PID_solicitado, kernel>>
      BY <1>5, <1>c DEF agregar_paginas
    <2>2. /\ PID_solicitado \in cargados /\ tabla = T[PID_solicitado]
          /\ tabla \in Seq(Frame) /\ DOMAIN tabla = 1 .. Len(tabla) /\ Len(tabla) \in Nat
      BY <2>1, <1>b, Tablas DEF tabla, Bucle
    <2>3. f \in Frame /\ ~FRAME_BITMAP[f]
      <3>1. frames_libres > 0
        BY <2>1, <2>2, <1>c, LibresFinito DEF IndInv, Alcanza
      <3>2. QED
        BY <3>1, Disponible
    <2>4. /\ cargados' = cargados
          /\ \A p \in cargados : p # PID_solicitado => T'[p] = T[p]
          /\ T'[PID_solicitado] = Append(tabla, f)
      BY <2>1, <2>2 DEF ConTabla, cargados
    <2>5. /\ DOMAIN T'[PID_solicitado] = 1 .. n /\ n \notin DOMAIN tabla /\ n \in 1 .. n
          /\ T'[PID_solicitado][n] = f
          /\ \A k \in DOMAIN tabla : k \in 1 .. n /\ T'[PID_solicitado][k] = tabla[k]
          /\ \A k \in 1 .. n : k \in DOMAIN tabla \/ k = n
      BY <2>2, <2>3, <2>4, AppendProperties
    <2>6. \A p \in cargados : \A k \in DOMAIN T[p] : FRAME_BITMAP[T[p][k]] /\ T[p][k] # f
      BY <2>1, <2>3, <1>a, Constantes, Tablas DEF Repartidos, Marcadas
    <2>7. \A k \in DOMAIN K : FRAME_BITMAP[K[k]] /\ K[k] # f
      BY <2>3 DEF Repartidos, Marcadas
    \* A page now is one of those there were or the one added.
    <2>8. \A p \in cargados : \A k \in DOMAIN T'[p] :
            \/ k \in DOMAIN T[p] /\ T'[p][k] = T[p][k]
            \/ p = PID_solicitado /\ k = n /\ T'[p][k] = f
      BY <2>2, <2>4, <2>5
    <2>9. Marcadas'
      BY <2>1, <2>4, <2>6, <2>7, <2>8 DEF Marcadas
    <2>10. Ajenas'
      <3>1. \A p, q \in cargados : \A j \in DOMAIN T'[p], k \in DOMAIN T'[q] :
              T'[p][j] = T'[q][k] => p = q /\ j = k
        BY <2>6, <2>8 DEF Repartidos, Ajenas
      <3>2. \A p \in cargados : \A j \in DOMAIN T'[p], k \in DOMAIN K : T'[p][j] # K[k]
        BY <2>7, <2>8 DEF Repartidos, Ajenas
      <3>3. QED
        BY <2>1, <2>4, <3>1, <3>2 DEF Repartidos, Ajenas
    <2>11. Conocidas'
      <3>1. \A p \in cargados : \A k \in DOMAIN T[p] : k \in DOMAIN T'[p] /\ T'[p][k] = T[p][k]
        BY <2>2, <2>4, <2>5
      <3>2. \A g \in Frame : EnTabla(g) => EnTabla(g)'
        BY <2>4, <3>1 DEF EnTabla
      <3>3. QED
        BY <2>1, <3>2 DEF Repartidos, Conocidas, Liberandose, Quitada
    <2>12. EnManos'
      BY <2>1, <2>2, <2>4, <2>5 DEF Repartidos, EnManos
    <2>13. QED
      BY <2>9, <2>10, <2>11, <2>12 DEF Repartidos
  <1>6. CASE AgregarMarca
    <2>1. /\ cpu.paso = "marcar" /\ marcar_frame_como(cpu.frame, TRUE)
          /\ cpu'.paso = "agregar" /\ cpu'.frame = NULL /\ cargados' = cargados
          /\ UNCHANGED <<procesos_en_memoria, PID_solicitado, kernel>>
      BY <1>6, <1>c DEF AgregarMarca, cargados
    <2>2. cpu.frame \in Frame /\ PID_solicitado \in cargados
      BY <2>1, <1>b DEF IndInv, Alcanza, Bucle
    <2>3. \A g \in Frame : FRAME_BITMAP'[g] <=> g = cpu.frame \/ FRAME_BITMAP[g]
      BY <2>1, <2>2 DEF marcar_frame_como, IndInv, Tipo
    <2>4. Marcadas'
      BY <2>1, <2>3, Tablas DEF Repartidos, Marcadas
    <2>5. Ajenas'
      BY <2>1 DEF Repartidos, Ajenas
    <2>6. Conocidas'
      <3>1. EnTabla(cpu.frame)
        BY <2>1, <2>2 DEF Repartidos, EnManos, EnTabla
      <3>2. \A g \in Frame : FRAME_BITMAP'[g] => EnTabla(g) \/ Liberandose(g)
        BY <2>1, <2>3, <3>1 DEF Repartidos, Conocidas, Quitada
      <3>3. QED
        BY <2>1, <3>2 DEF Conocidas, EnTabla, Liberandose
    <2>7. EnManos'
      BY <2>1 DEF Repartidos, EnManos
    <2>8. QED
      BY <2>4, <2>5, <2>6, <2>7 DEF Repartidos
  <1>7. CASE quitar_paginas
    <2> DEFINE f == Last(tabla)
               n == Len(tabla)
    <2>1. /\ cpu.paso = "quitar" /\ cpu.paginas > 0 /\ ConTabla(Front(tabla))
          /\ cpu'.paso = "desmarcar" /\ cpu'.frame = f
          /\ UNCHANGED <<FRAME_BITMAP, PID_solicitado, kernel>>
      BY <1>7, <1>a, <1>c DEF quitar_paginas
    <2>2. /\ PID_solicitado \in cargados /\ tabla = T[PID_solicitado]
          /\ tabla \in Seq(Frame) /\ DOMAIN tabla = 1 .. n
      BY <2>1, <1>b, Tablas DEF tabla, Bucle
    <2>3. tabla # <<>>
      BY <2>1, <2>2, <1>c, EmptySeq DEF IndInv, Alcanza, cantidad_de_paginas
    <2>4. /\ f \in Frame /\ n \in DOMAIN tabla /\ f = tabla[n]
          /\ Front(tabla) \in Seq(Frame) /\ n \in Nat \ {0} /\ Len(Front(tabla)) = n - 1
          /\ \A k \in 1 .. n - 1 : Front(tabla)[k] = tabla[k]
      <3>1. /\ f \in Frame /\ f = tabla[n] /\ n \in Nat \ {0}
            /\ Front(tabla) \in Seq(Frame) /\ Len(Front(tabla)) = n - 1
            /\ \A k \in 1 .. n - 1 : Front(tabla)[k] = tabla[k]
        BY <2>2, <2>3, FrenteYFondo
      <3>2. QED
        BY <2>2, <3>1
    <2>5. /\ cargados' = cargados
          /\ \A p \in cargados : p # PID_solicitado => T'[p] = T[p]
          /\ T'[PID_solicitado] = Front(tabla)
      BY <2>1, <2>2 DEF ConTabla, cargados
    <2>6. /\ DOMAIN T'[PID_solicitado] = 1 .. n - 1
          /\ \A k \in DOMAIN tabla : k # n => k \in 1 .. n - 1
          /\ \A k \in 1 .. n - 1 : k \in DOMAIN tabla /\ k # n
      BY <2>2, <2>4, <2>5
    \* The pages left are the others.
    <2>7. \A p \in cargados : \A k \in DOMAIN T'[p] :
            k \in DOMAIN T[p] /\ T'[p][k] = T[p][k] /\ (p = PID_solicitado => k # n)
      BY <2>2, <2>4, <2>5, <2>6
    <2>8. \A p \in cargados : \A k \in DOMAIN T'[p] : T'[p][k] # f /\ T'[p][k] \in Frame
      BY <2>2, <2>4, <2>7, Tablas DEF Repartidos, Ajenas
    <2>9. \A k \in DOMAIN K : K[k] # f /\ K[k] \in Frame
      BY <2>2, <2>4, Tablas DEF Repartidos, Ajenas
    <2>10. Marcadas'
      <3>1. \A p \in cargados : \A k \in DOMAIN T'[p] : FRAME_BITMAP[T'[p][k]]
        <4>1. \A p \in cargados : \A k \in DOMAIN T[p] :
                T[p][k] \in Frame => FRAME_BITMAP[T[p][k]]
          BY <2>1, <1>a, Constantes DEF Repartidos, Marcadas
        <4>2. QED
          BY <2>7, <2>8, <4>1
      <3>2. QED
        BY <2>1, <2>5, <3>1 DEF Repartidos, Marcadas
    <2>11. Ajenas'
      BY <2>1, <2>5, <2>7 DEF Repartidos, Ajenas
    <2>12. Conocidas'
      <3> SUFFICES ASSUME NEW g \in Frame, FRAME_BITMAP[g], g # f
                   PROVE  EnTabla(g)' \/ Liberandose(g)'
        BY <2>1 DEF Conocidas, Quitada
      <3>1. EnTabla(g) \/ Liberandose(g)
        BY <2>1 DEF Repartidos, Conocidas, Quitada
      <3>2. EnTabla(g) => EnTabla(g)'
        <4> SUFFICES ASSUME NEW p \in cargados, NEW k \in DOMAIN T[p], T[p][k] = g
                     PROVE  k \in DOMAIN T'[p] /\ T'[p][k] = g
          BY <2>5 DEF EnTabla
        <4>1. CASE p = PID_solicitado
          BY <2>2, <2>4, <2>5, <2>6, <4>1
        <4>2. CASE p # PID_solicitado
          BY <2>5, <4>2
        <4>3. QED
          BY <4>1, <4>2
      <3>3. Liberandose(g) => Liberandose(g)'
        BY <2>1 DEF Liberandose
      <3>4. QED
        BY <3>1, <3>2, <3>3
    <2>13. EnManos'
      <3>1. cpu'.frame = f /\ cargados' = cargados /\ kernel'.tabla = K
        BY <2>1, <2>5
      <3>2. ~EnTabla(cpu.frame)' /\ ~Liberandose(cpu.frame)'
        BY <2>8, <2>9, <3>1 DEF EnTabla, Liberandose
      <3>3. QED
        BY <2>1, <3>2 DEF Repartidos, EnManos
    <2>14. QED
      BY <2>10, <2>11, <2>12, <2>13 DEF Repartidos
  <1>11. CASE QuitarMarca
    <2> DEFINE f == cpu.frame
    <2>1. /\ cpu.paso = "desmarcar" /\ marcar_frame_como(f, FALSE)
          /\ cpu'.paso = "quitar" /\ cpu'.frame = NULL /\ cargados' = cargados
          /\ UNCHANGED <<procesos_en_memoria, PID_solicitado, kernel>>
      BY <1>11, <1>c DEF QuitarMarca, cargados
    <2>2. f \in Frame /\ ~EnTabla(f) /\ ~Liberandose(f)
      BY <2>1 DEF IndInv, Alcanza, Repartidos, EnManos
    <2>3. \A g \in Frame : FRAME_BITMAP'[g] <=> g # f /\ FRAME_BITMAP[g]
      BY <2>1, <2>2 DEF marcar_frame_como, IndInv, Tipo
    <2>4. Marcadas'
      BY <2>1, <2>2, <2>3, Tablas DEF Repartidos, Marcadas, EnTabla, Liberandose
    <2>5. Ajenas'
      BY <2>1 DEF Repartidos, Ajenas
    <2>6. Conocidas'
      <3>1. \A g \in Frame : FRAME_BITMAP'[g] => EnTabla(g) \/ Liberandose(g)
        BY <2>1, <2>3 DEF Repartidos, Conocidas, Quitada
      <3>2. QED
        BY <2>1, <3>1 DEF Conocidas, EnTabla, Liberandose
    <2>7. EnManos'
      BY <2>1 DEF Repartidos, EnManos
    <2>8. QED
      BY <2>4, <2>5, <2>6, <2>7 DEF Repartidos
  <1>8. CASE RedimensionarTermina
    <2>1. /\ cpu.paso \notin {"marcar", "desmarcar"} /\ cpu'.paso \notin {"marcar", "desmarcar"}
          /\ cpu'.frame = NULL
          /\ UNCHANGED <<procesos_en_memoria, FRAME_BITMAP, kernel>>
      BY <1>8, <1>a, <1>c DEF RedimensionarTermina, SoloCpu, memVars, CpuSigue
    <2>2. QED
      BY <2>1, <1>d
  <1>9. CASE mostrar_tabla_paginas
    <2>1. /\ cpu.paso \notin {"marcar", "desmarcar"} /\ cpu'.paso \notin {"marcar", "desmarcar"}
          /\ cpu'.frame = NULL
          /\ UNCHANGED <<procesos_en_memoria, FRAME_BITMAP, kernel>>
      BY <1>9 DEF mostrar_tabla_paginas, SoloCpu, memVars, CpuOcioso
    <2>2. QED
      BY <2>1, <1>d
  <1>12. QED
    BY <1>1, <1>2, <1>3, <1>4, <1>5, <1>6, <1>7, <1>8, <1>9, <1>10, <1>11
       DEF gestionar_solicitudes_cpu

LEMMA RepartoDelCliente ==
  ASSUME Repartidos, Kernel
  PROVE  Repartidos'
  <1>1. UNCHANGED <<procesos_en_memoria, FRAME_BITMAP, PID_solicitado, kernel, cpu>>
    BY DEF Kernel, IniciarProceso, push_cola_exit, finalizar_proceso, escuchar_io, RecibeStatus,
           Despacha, SoloCliente, memVars
  <1>2. QED
    BY <1>1, SinMover DEF Repartidos, EnManos

\* Every frame in use is in one table, that of a loaded process or the one being
\* destroyed (proceso_mem.c:110 frees it out of the list, tabla_paginas.c:16 grows it).
THEOREM Reparto == Spec => []Repartidos
  <1>1. IndInv /\ Repartidos /\ [Next]_vars => Repartidos'
    <2> SUFFICES ASSUME IndInv, Repartidos, [Next]_vars PROVE Repartidos'
      OBVIOUS
    <2>1. CASE Next
      BY <2>1, RepartoDelKernel, RepartoDeLaCpu, RepartoDelCliente DEF Next
    <2>2. CASE UNCHANGED vars
      BY <2>2, SinMover DEF vars, memVars, Repartidos, EnManos
    <2>3. QED
      BY <2>1, <2>2
  <1>2. QED
    BY RepartoInicial, Invariante, <1>1, PTL DEF Spec

\* What an owner of a frame is.
LEMMA Dueno ==
  ASSUME NEW f, NEW x
  PROVE  x \in Duenos(f) <=>
           \/ \E p \in cargados : \E k \in DOMAIN procesos_en_memoria[p] :
                procesos_en_memoria[p][k] = f /\ x = <<p, k>>
           \/ \E k \in DOMAIN kernel.tabla : kernel.tabla[k] = f /\ x = <<"liberado", k>>
           \/ Quitada(f) /\ x = <<"quitado", 1>>
  <1> DEFINE Paginas(p) ==
               {<<p, k>> : k \in {k \in DOMAIN procesos_en_memoria[p] : procesos_en_memoria[p][k] = f}}
             Sueltas == {<<"liberado", k>> : k \in {k \in DOMAIN kernel.tabla : kernel.tabla[k] = f}}
             Enmano == {<<"quitado", 1>> : k \in {k \in {1} : cpu.paso = "desmarcar" /\ cpu.frame = f}}
  <1>1. \A p : x \in Paginas(p) <=>
                 \E k \in DOMAIN procesos_en_memoria[p] :
                   procesos_en_memoria[p][k] = f /\ x = <<p, k>>
    OBVIOUS
  <1>2. x \in Sueltas <=> \E k \in DOMAIN kernel.tabla : kernel.tabla[k] = f /\ x = <<"liberado", k>>
    OBVIOUS
  <1>3. x \in Enmano <=> Quitada(f) /\ x = <<"quitado", 1>>
    BY DEF Quitada
  <1>4. Duenos(f) = (UNION {Paginas(p) : p \in cargados}) \cup Sueltas \cup Enmano
    BY DEF Duenos
  <1> HIDE DEF Paginas, Sueltas, Enmano
  <1>5. x \in UNION {Paginas(p) : p \in cargados} <=> \E p \in cargados : x \in Paginas(p)
    OBVIOUS
  <1>6. x \in Duenos(f) <=> (\E p \in cargados : x \in Paginas(p)) \/ x \in Sueltas \/ x \in Enmano
    BY <1>4, <1>5
  <1>7. QED
    BY <1>1, <1>2, <1>3, <1>6

\* Every marked frame is a page of exactly one process, or of the one being
\* destroyed, and every page is marked but the one just added: growing a process
\* takes no lock between the search (tabla_paginas.c:19) and the mark (:21) while
\* the other thread frees, and still no frame is shared or lost.
THEOREM Marcos == Spec => []MarcosConservados
  <1>1. IndInv /\ Repartidos => MarcosConservados
    <2> SUFFICES ASSUME IndInv, Repartidos, NEW f \in Frame
                 PROVE  Cardinality(Duenos(f)) =
                          IF FRAME_BITMAP[f] \/ cpu.frame = f THEN 1 ELSE 0
      BY DEF MarcosConservados
    <2>1. CASE FRAME_BITMAP[f] \/ cpu.frame = f
      <3>1. cpu.frame = f => EnTabla(f) \/ Quitada(f)
        <4> SUFFICES ASSUME cpu.frame = f PROVE EnTabla(f) \/ Quitada(f)
          OBVIOUS
        <4>1. cpu.paso \in {"marcar", "desmarcar"}
          BY Constantes DEF IndInv, Alcanza
        <4>2. QED
          BY <4>1 DEF Repartidos, EnManos, EnTabla, Quitada
      <3>2. EnTabla(f) \/ Liberandose(f) \/ Quitada(f)
        BY <2>1, <3>1 DEF Repartidos, Conocidas
      <3>3. PICK x : x \in Duenos(f)
        <4>1. CASE EnTabla(f)
          <5>1. PICK p \in cargados : \E k \in DOMAIN procesos_en_memoria[p] :
                  procesos_en_memoria[p][k] = f
            BY <4>1 DEF EnTabla
          <5>2. PICK k \in DOMAIN procesos_en_memoria[p] : procesos_en_memoria[p][k] = f
            BY <5>1
          <5>3. <<p, k>> \in Duenos(f)
            BY <5>2, Dueno
          <5>4. QED
            BY <5>3
        <4>2. CASE Liberandose(f)
          <5>1. PICK k \in DOMAIN kernel.tabla : kernel.tabla[k] = f
            BY <4>2 DEF Liberandose
          <5>2. <<"liberado", k>> \in Duenos(f)
            BY <5>1, Dueno
          <5>3. QED
            BY <5>2
        <4>3. CASE Quitada(f)
          <5>1. <<"quitado", 1>> \in Duenos(f)
            BY <4>3, Dueno
          <5>2. QED
            BY <5>1
        <4>4. QED
          BY <3>2, <4>1, <4>2, <4>3
      <3>4. \A y \in Duenos(f) : y = x
        <4> TAKE y \in Duenos(f)
        <4>0. Quitada(f) => ~EnTabla(f) /\ ~Liberandose(f)
          BY DEF Repartidos, EnManos, Quitada
        <4>1. CASE \E p \in cargados : \E k \in DOMAIN procesos_en_memoria[p] :
                     procesos_en_memoria[p][k] = f /\ x = <<p, k>>
          <5>1. ~Liberandose(f) /\ ~Quitada(f)
            BY <4>0, <4>1 DEF Repartidos, Ajenas, Liberandose, EnTabla
          <5>2. \E p \in cargados : \E k \in DOMAIN procesos_en_memoria[p] :
                  procesos_en_memoria[p][k] = f /\ y = <<p, k>>
            BY <5>1, Dueno DEF Liberandose
          <5>3. QED
            BY <4>1, <5>2 DEF Repartidos, Ajenas
        <4>2. CASE \E k \in DOMAIN kernel.tabla : kernel.tabla[k] = f /\ x = <<"liberado", k>>
          <5>1. ~EnTabla(f) /\ ~Quitada(f)
            BY <4>0, <4>2 DEF Repartidos, Ajenas, EnTabla, Liberandose
          <5>2. \E k \in DOMAIN kernel.tabla : kernel.tabla[k] = f /\ y = <<"liberado", k>>
            BY <5>1, Dueno DEF EnTabla
          <5>3. QED
            BY <4>2, <5>2 DEF Repartidos, Ajenas
        <4>3. CASE Quitada(f) /\ x = <<"quitado", 1>>
          BY <4>0, <4>3, Dueno DEF EnTabla, Liberandose
        <4>4. QED
          BY <3>3, <4>1, <4>2, <4>3, Dueno
      <3>5. Duenos(f) = {x}
        BY <3>3, <3>4
      <3>6. QED
        BY <2>1, <3>5, FS_Singleton
    <2>2. CASE ~(FRAME_BITMAP[f] \/ cpu.frame = f)
      <3>1. ~EnTabla(f) /\ ~Liberandose(f) /\ ~Quitada(f)
        BY <2>2 DEF Repartidos, Marcadas, EnTabla, Liberandose, Quitada
      <3>2. \A y : y \notin Duenos(f)
        BY <3>1, Dueno DEF EnTabla, Liberandose
      <3>3. Duenos(f) = {}
        BY <3>2
      <3>4. QED
        BY <2>2, <3>3, FS_EmptySet
    <2>3. QED
      BY <2>1, <2>2
  <1>2. QED
    BY Invariante, Reparto, <1>1, PTL
-----------------------------------------------------------------------------
(***************************************************************************)
(* Who is admitted                                                         *)
(***************************************************************************)
Respuesta == [status : {"SUCCESS", "ERROR"}, pid : Pid]

\* The PID the console waits to see created, and an answer that grants it.
Creando(p) == espera["consola"] # NULL /\ espera["consola"] = [op |-> "CREAR", pid |-> p]

\* A SUCCESS with the PID the console asks to create is the answer to that very
\* request, and the process is still there when the console reads it.
Respondidos ==
  \A i \in DOMAIN respuestas :
    /\ respuestas[i].pid < pcb_counter
    /\ respuestas[i].status = "SUCCESS" /\ Creando(respuestas[i].pid)
         => respuestas[i].pid \in cargados

AdmisionInv == AdmitidosCargados /\ Respondidos

\* A step that unloads nobody waited for, answers nobody and admits nobody.
LEMMA AdmisionAjena ==
  ASSUME AdmisionInv, cargados' = cargados, UNCHANGED <<respuestas, clienteVars>>
  PROVE  AdmisionInv'
  BY DEF AdmisionInv, AdmitidosCargados, Respondidos, Creando, clienteVars, colaVars

\* A new answer that keeps the promise.
LEMMA UnaRespuestaMas ==
  ASSUME IndInv, Respondidos, NEW st \in {"SUCCESS", "ERROR"}, NEW p \in Pid, Responde(st, p),
         cargados \subseteq cargados', p < pcb_counter, UNCHANGED clienteVars,
         st = "SUCCESS" /\ Creando(p) => p \in cargados'
  PROVE  Respondidos'
  <1> DEFINE r == [status |-> st, pid |-> p]
  <1>1. /\ Len(respuestas') = Len(respuestas) + 1
        /\ \A i \in DOMAIN respuestas' :
             \/ i \in DOMAIN respuestas /\ respuestas'[i] = respuestas[i]
             \/ respuestas'[i] = r
    BY AppendProperties DEF IndInv, Tipo, Responde
  <1>2. UNCHANGED <<espera, pcb_counter>>
    BY DEF clienteVars, colaVars
  <1>3. QED
    BY <1>1, <1>2 DEF Respondidos, Creando

LEMMA AdmisionInicial == Init => AdmisionInv
  BY DEF Init, AdmisionInv, AdmitidosCargados, Respondidos

LEMMA AdmisionDelKernel ==
  ASSUME IndInv, AdmisionInv, gestionar_solicitudes_kernel
  PROVE  AdmisionInv'
  <1> USE DEF AdmisionInv
  <1>1. CASE CrearProceso
    <2> DEFINE pid == Head(pedidos).pid
    <2>1. PICK existe \in BOOLEAN :
            /\ cargar_proceso_en_memoria(pid, existe)
            /\ Responde(IF existe THEN "SUCCESS" ELSE "ERROR", pid)
      BY <1>1 DEF CrearProceso
    <2>2. pedidos # <<>> /\ pedidos' = Tail(pedidos) /\ UNCHANGED clienteVars
      BY <1>1 DEF CrearProceso, RecibePedido
    <2>3. pid \in Pid /\ pid < pcb_counter
      BY <2>2, Atendido DEF IndInv, Tipo, Numerados, Pedido
    <2>4. cargados' = cargados \cup {r \in {pid} : existe}
      BY <2>1 DEF cargar_proceso_en_memoria, cargados
    <2>5. Respondidos'
      BY <2>1, <2>2, <2>3, <2>4, UnaRespuestaMas
    <2>6. AdmitidosCargados'
      BY <2>2, <2>4 DEF AdmitidosCargados, clienteVars, colaVars
    <2>7. QED
      BY <2>5, <2>6
  <1>2. CASE LiberarRegistra
    BY <1>2, AdmisionAjena DEF LiberarRegistra, memVars, cargados
  <1>7. CASE LiberarEnUso
    BY <1>7, AdmisionAjena DEF LiberarEnUso, memVars, cargados
  <1>3. CASE LiberarProceso
    <2>1. /\ kernel.paso = "liberar" /\ cargados' = cargados \ {kernel.pid}
          /\ UNCHANGED <<respuestas, espera, admitidos, resucitados, cruzados, pcb_counter>>
      BY <1>3 DEF LiberarProceso, clienteVars, colaVars, cargados
    <2>2. Despedido(kernel.pid) /\ ~Creando(kernel.pid)
      BY <2>1 DEF IndInv, Despedidos, Pendientes, Creando
    <2>3. QED
      BY <2>1, <2>2 DEF AdmitidosCargados, Respondidos, Creando, Despedido
  <1>4. CASE LiberarPagina
    BY <1>4, AdmisionAjena DEF LiberarPagina, cargados
  <1>5. CASE LiberarTermina
    <2>1. /\ kernel.paso = "quitar" /\ Responde("SUCCESS", kernel.pid) /\ cargados' = cargados
          /\ UNCHANGED clienteVars
      BY <1>5 DEF LiberarTermina, cargados
    <2>2. kernel.pid \in Pid /\ kernel.pid < pcb_counter /\ ~Creando(kernel.pid)
      BY <2>1 DEF IndInv, Numerados, Pendientes, Creando
    <2>3. Respondidos'
      BY <2>1, <2>2, UnaRespuestaMas
    <2>4. QED
      BY <2>1, <2>3 DEF AdmitidosCargados, clienteVars, colaVars
  <1>8. QED
    BY <1>1, <1>2, <1>3, <1>4, <1>5, <1>7 DEF gestionar_solicitudes_kernel

LEMMA AdmisionDeLaCpu ==
  ASSUME IndInv, AdmisionInv, gestionar_solicitudes_cpu
  PROVE  AdmisionInv'
  <1>1. UNCHANGED <<respuestas, clienteVars>>
    BY DEF gestionar_solicitudes_cpu, recibir_fetch_de_cpu, enviar_instruccion_a_cpu,
           RedimensionarVerifica, redimensionar_memoria_proceso, BuscaTabla, agregar_paginas,
           AgregarMarca, quitar_paginas, QuitarMarca, RedimensionarTermina,
           mostrar_tabla_paginas, SoloCpu
  <1>2. cargados' = cargados
    BY DEF gestionar_solicitudes_cpu, recibir_fetch_de_cpu, enviar_instruccion_a_cpu,
           RedimensionarVerifica, redimensionar_memoria_proceso, BuscaTabla, agregar_paginas,
           AgregarMarca, quitar_paginas, QuitarMarca, RedimensionarTermina,
           mostrar_tabla_paginas, SoloCpu, memVars,
           ConTabla, cargados
  <1>3. QED
    BY <1>1, <1>2, AdmisionAjena

LEMMA AdmisionDelCliente ==
  ASSUME IndInv, AdmisionInv, Kernel
  PROVE  AdmisionInv'
  <1> USE DEF AdmisionInv
  <1>0. cargados' = cargados
    BY DEF Kernel, IniciarProceso, push_cola_exit, finalizar_proceso, escuchar_io, RecibeStatus,
           Despacha, SoloCliente, memVars, cargados
  <1>1. CASE IniciarProceso
    <2>1. /\ espera' = [espera EXCEPT !["consola"] = [op |-> "CREAR", pid |-> pcb_counter]]
          /\ pcb_counter' = pcb_counter + 1
          /\ UNCHANGED <<respuestas, admitidos, resucitados, cruzados>>
      BY <1>1 DEF IniciarProceso, Pide, colaVars
    <2>2. espera'["consola"] = [op |-> "CREAR", pid |-> pcb_counter]
      BY <2>1 DEF IndInv, Tipo, HiloKernel
    <2>3. \A i \in DOMAIN respuestas : respuestas[i].pid \in Nat
      <3>1. respuestas \in Seq(Respuesta)
        BY DEF IndInv, Tipo, Respuesta
      <3>2. \A i \in DOMAIN respuestas : respuestas[i] \in Respuesta
        BY <3>1
      <3>3. \A i \in DOMAIN respuestas : respuestas[i].pid \in Pid
        BY <3>2 DEF Respuesta
      <3>4. QED
        BY <3>3, Constantes
    <2>4. pcb_counter \in Nat
      BY MemoriaOK DEF IndInv, Tipo
    <2>5. \A i \in DOMAIN respuestas' :
            respuestas'[i].pid < pcb_counter' /\ respuestas'[i].pid # pcb_counter
      BY <2>1, <2>3, <2>4 DEF Respondidos
    <2>6. Respondidos'
      BY <2>2, <2>5 DEF Respondidos, Creando
    <2>7. QED
      BY <1>0, <2>1, <2>6 DEF AdmitidosCargados
  <1>2. ASSUME NEW hilo \in HiloKernel, NEW p \in Pid, push_cola_exit(hilo, p) PROVE AdmisionInv'
    <2>1. /\ admitidos' \subseteq admitidos
          /\ UNCHANGED <<respuestas, resucitados, cruzados, pcb_counter>>
          /\ espera' = [espera EXCEPT ![hilo] = [op |-> "LIBERAR", pid |-> p]]
      BY <1>2 DEF push_cola_exit, Pide
    <2>2. \A q : Creando(q)' => Creando(q)
      BY <2>1 DEF IndInv, Tipo, HiloKernel, Creando
    <2>3. QED
      BY <1>0, <2>1, <2>2 DEF AdmitidosCargados, Respondidos
  <1>3. ASSUME NEW hilo \in HiloKernel, RecibeStatus(hilo) PROVE AdmisionInv'
    <2> DEFINE pid == espera[hilo].pid
               admite == espera[hilo].op = "CREAR" /\ Head(respuestas).status = "SUCCESS"
    <2>1. /\ espera[hilo] # NULL /\ respuestas # <<>> /\ respuestas' = Tail(respuestas)
          /\ admitidos' = admitidos \cup {q \in {pid} : admite}
          /\ cruzados' = cruzados \cup {q \in {pid} : admite /\ Head(respuestas).pid # q}
          /\ espera' = [espera EXCEPT ![hilo] = NULL] /\ UNCHANGED <<resucitados, pcb_counter>>
      BY <1>3 DEF RecibeStatus
    <2>2. /\ Head(respuestas) = respuestas[1] /\ 1 \in DOMAIN respuestas
          /\ \A i \in DOMAIN respuestas' :
               i + 1 \in DOMAIN respuestas /\ respuestas'[i] = respuestas[i + 1]
      BY <2>1, HeadTailProperties DEF IndInv, Tipo
    <2>3. \A q : Creando(q)' => Creando(q)
      BY <2>1 DEF IndInv, Tipo, HiloKernel, Creando
    <2>4. Respondidos'
      BY <1>0, <2>1, <2>2, <2>3 DEF Respondidos
    <2>5. admite => Creando(pid)
      BY <2>1 DEF IndInv, Tipo, Pendientes, HiloKernel, Pedido, Creando
    <2>6. admite => pid \in cargados \/ pid \in cruzados'
      BY <2>1, <2>2, <2>5 DEF Respondidos
    <2>7. AdmitidosCargados'
      BY <1>0, <2>1, <2>6 DEF AdmitidosCargados
    <2>8. QED
      BY <2>4, <2>7
  <1>4. ASSUME NEW p \in Pid, Despacha(p) PROVE AdmisionInv'
    BY <1>0, <1>4, AdmisionAjena DEF Despacha
  <1>5. ASSUME NEW p \in Pid, finalizar_proceso(p) \/ escuchar_io(p) PROVE AdmisionInv'
    <2>1. /\ admitidos' \subseteq admitidos \cup resucitados' /\ resucitados \subseteq resucitados'
          /\ UNCHANGED <<respuestas, espera, cruzados, pcb_counter>>
      BY <1>5 DEF finalizar_proceso, escuchar_io
    <2>2. QED
      BY <1>0, <2>1 DEF AdmitidosCargados, Respondidos, Creando
  <1>6. QED
    BY <1>1, <1>2, <1>3, <1>4, <1>5 DEF Kernel

\* A process in the kernel's queues is loaded in memory (proceso.c's inicializar_proceso asks,
\* memory.c answers) unless another request's answer admitted it or a gestor_io
\* put it back in READY after FINALIZAR_PROCESO (gestor_io.c:92-101): besides
\* those two no order of creations, liberations and answers queues a process that
\* the memory does not have.
THEOREM Admision == Spec => []AdmitidosCargados
  <1>1. IndInv /\ AdmisionInv /\ [Next]_vars => AdmisionInv'
    <2> SUFFICES ASSUME IndInv, AdmisionInv, [Next]_vars PROVE AdmisionInv'
      OBVIOUS
    <2>1. CASE Next
      BY <2>1, AdmisionDelKernel, AdmisionDeLaCpu, AdmisionDelCliente DEF Next
    <2>2. CASE UNCHANGED vars
      BY <2>2, AdmisionAjena DEF vars, memVars, cargados
    <2>3. QED
      BY <2>1, <2>2
  <1>2. AdmisionInv => AdmitidosCargados
    BY DEF AdmisionInv
  <1>3. QED
    BY AdmisionInicial, Invariante, <1>1, <1>2, PTL DEF Spec
=============================================================================
