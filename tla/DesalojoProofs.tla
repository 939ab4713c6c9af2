-------------------------- MODULE DesalojoProofs --------------------------
(***************************************************************************)
(* The PCB between the kernel and the CPU, proved for every set of         *)
(* processes, every algorithm, quantum and number of dispatches and of     *)
(* interruptions: it has one owner, it arrives as it left, and an          *)
(* interruption evicts one process at most.                                *)
(*                                                                         *)
(* The inductive invariant has three parts: the types (TipoInv), where the *)
(* PCB is and whose it is (DuenoInv), and what is in the packets on their  *)
(* way (ViajeInv).  The last needs that the receiver of a packet finds in  *)
(* it the PCB the sender put, whatever its request (PcbViaja).             *)
(***************************************************************************)
EXTENDS Desalojo, MensajesProofs

Motivos == {"INTERRUPCION_QUANTUM", "INTERRUPCION_USUARIO"}

\* The CPU has a PCB that it has not sent back.
EnCpu == tengo_pcb \/ cpu = "enviar"

TipoKernel ==
  /\ algoritmo \in {"FIFO", "RR", "VRR"}
  /\ cola_ready \in Seq(Pcb) /\ cola_readyVRR \in Seq(Pcb) /\ cola_execute \in Seq(Pcb)
  /\ bloqueados \subseteq Pcb /\ cola_exit \subseteq Procesos
  /\ sem_cpu_libre \in {0, 1}
  /\ corto \in {"inicio", "crear_hilo", "esperar", "atender"}
  /\ pcb \in Pcb \cup {NULL}
  /\ corto # "inicio" => pcb \in Pcb
  /\ despachos \in 0 .. MaxDespachos /\ hilos \subseteq 1 .. MaxDespachos
  /\ corto = "crear_hilo" => despachos > 0

TipoCpu ==
  /\ cpu \in {"recibir", "fetch", "check", "enviar", "soltar", "caida"}
  /\ tengo_pcb \in BOOLEAN
  /\ pcb_actual \in Pcb \cup {NULL}
  /\ EnCpu => pcb_actual \in Pcb

TipoInter ==
  /\ interrupt \in Seq([codigo : Motivos, pid : Procesos])
  /\ hiloInterrupt \in Motivos \cup {NULL}
  /\ MOTIVO_INTERRUPCION \in Motivos \cup {"MENSAJE"}
  /\ INTERRUPTION_FLAG \in BOOLEAN /\ aceptadas \in Int

TipoInv == TipoKernel /\ TipoCpu /\ TipoInter

\* The PCB is in one place, and EXECUTE has the process it is of.
DuenoInv ==
  /\ cpu = "fetch" => tengo_pcb
  /\ tengo_pcb => cpu \in {"fetch", "check"}
  /\ corto \in {"inicio", "atender"} => dispatch = <<>> /\ respuesta = <<>> /\ ~EnCpu
  /\ EnCpu => dispatch = <<>> /\ respuesta = <<>>
  /\ dispatch = <<>> \/ respuesta = <<>>
  /\ corto = "inicio" /\ cola_execute # <<>> =>
       sem_cpu_libre = 0 /\ \E x \in Pcb : cola_execute = Sola(x)
  /\ corto # "inicio" =>
       sem_cpu_libre = 0 /\ \E x \in Pcb : x.pid = pcb.pid /\ cola_execute = Sola(x)
  /\ EnCpu => pcb_actual.pid = pcb.pid

Codigos == CodigosAtendidos \cup {"MENSAJE"}

\* The packets are those of the PCBs both sides have.
ViajeInv ==
  /\ dispatch # <<>> => dispatch = Sola(enviar_pcb(pcb, "DISPATCH_PROCESO"))
  /\ respuesta # <<>> =>
       \E q \in Pcb, codigo \in Codigos :
         /\ respuesta = Sola(enviar_pcb(q, codigo))
         /\ q.pid = pcb.pid
         /\ pcb_actual = IF codigo = "OUT_OF_MEMORY" THEN siguiente_pc(q) ELSE q

DesalojoInv == TipoInv /\ DuenoInv /\ ViajeInv

-----------------------------------------------------------------------------
(***************************************************************************)
(* What the receiver takes out of a packet is what the sender put in it.   *)
(***************************************************************************)
Ficha == {"IO_GEN_SLEEP", "GEN", "1", "IO_STDIN_READ", "TECLADO", "AX", "BX", "WAIT", "RA",
          "SIGNAL"}
LEMMA SolicitudesTipadas ==
  ASSUME NEW s \in Solicitudes
  PROVE  /\ s[2] \in Seq(Ficha) /\ s[2] # NULL
         /\ s[3] # NULL => s[3] \in Seq(PeticionMemoria)
  <1>1. s[2] # NULL
    BY NullNoEsLista
  <1>0. ASSUME NEW T, NEW x \in T, NEW y \in T, NEW z \in T, NEW t \in T
        PROVE  <<x, y>> \in Seq(T) /\ <<x, y, z>> \in Seq(T) /\ <<x, y, z, t>> \in Seq(T)
    OBVIOUS
  <1>2. CASE s = <<"PROCESO_BLOQUEADO_IO", <<"IO_GEN_SLEEP", "GEN", "1">>, NULL>>
    <2>1. s[2] = <<"IO_GEN_SLEEP", "GEN", "1">> /\ s[3] = NULL
      BY <1>2
    <2>2. "IO_GEN_SLEEP" \in Ficha /\ "GEN" \in Ficha /\ "1" \in Ficha
      BY DEF Ficha
    <2>3. <<"IO_GEN_SLEEP", "GEN", "1">> \in Seq(Ficha)
      BY <1>0, <2>2
    <2>4. QED
      BY <1>1, <2>1, <2>3
  <1>3. CASE s = <<"PROCESO_BLOQUEADO_IO", <<"IO_STDIN_READ", "TECLADO", "AX", "BX">>,
                   <<[direccion_fisica |-> 3, tam_dato |-> 1],
                     [direccion_fisica |-> 8, tam_dato |-> 2]>> >>
    <2>1. /\ s[2] = <<"IO_STDIN_READ", "TECLADO", "AX", "BX">>
          /\ s[3] = <<[direccion_fisica |-> 3, tam_dato |-> 1],
                      [direccion_fisica |-> 8, tam_dato |-> 2]>>
      BY <1>3
    <2>2. /\ [direccion_fisica |-> 3, tam_dato |-> 1] \in PeticionMemoria
          /\ [direccion_fisica |-> 8, tam_dato |-> 2] \in PeticionMemoria
      BY DEF PeticionMemoria
    <2>3. "IO_STDIN_READ" \in Ficha /\ "TECLADO" \in Ficha /\ "AX" \in Ficha /\ "BX" \in Ficha
      BY DEF Ficha
    <2>4. s[3] \in Seq(PeticionMemoria)
      BY <1>0, <2>1, <2>2
    <2>5. s[2] \in Seq(Ficha)
      BY <1>0, <2>1, <2>3
    <2>6. QED
      BY <1>1, <2>4, <2>5
  <1>4. CASE s = <<"PROCESO_SOLICITA_RECURSO", <<"WAIT", "RA">>, NULL>>
    <2>1. s[2] = <<"WAIT", "RA">> /\ s[3] = NULL
      BY <1>4
    <2>2. "WAIT" \in Ficha /\ "RA" \in Ficha
      BY DEF Ficha
    <2>3. <<"WAIT", "RA">> \in Seq(Ficha)
      BY <1>0, <2>2
    <2>4. QED
      BY <1>1, <2>1, <2>3
  <1>5. CASE s = <<"PROCESO_LIBERA_RECURSO", <<"SIGNAL", "RA">>, NULL>>
    <2>1. s[2] = <<"SIGNAL", "RA">> /\ s[3] = NULL
      BY <1>5
    <2>2. "SIGNAL" \in Ficha /\ "RA" \in Ficha
      BY DEF Ficha
    <2>3. <<"SIGNAL", "RA">> \in Seq(Ficha)
      BY <1>0, <2>2
    <2>4. QED
      BY <1>1, <2>1, <2>3
  <1>6. QED
    BY <1>2, <1>3, <1>4, <1>5 DEF Solicitudes

\* A PCB comes out of the packet as it went in.
LEMMA PcbViaja ==
  ASSUME NEW p \in Pcb, NEW codigo
  PROVE  recibir_pcb(enviar_pcb(p, codigo).campos) = p
  <1>1. PICK V : Completo(p, V)
    BY DEF Pcb, Completo
  <1>2. CASE p.solicitud = NULL
    BY <1>1, <1>2, PcbSinSolicitud
  <1>3. CASE p.solicitud # NULL
    <2>1. PICK s \in Solicitudes : p.solicitud = crear_solicitud_io(s[2], s[3])
      BY <1>3 DEF Pcb
    <2>2. PICK tokens, peticiones : /\ tokens = s[2] /\ peticiones = s[3]
                                    /\ p.solicitud = crear_solicitud_io(tokens, peticiones)
      BY <2>1
    <2>3. /\ tokens \in Seq(Ficha) /\ tokens # NULL
          /\ peticiones # NULL => peticiones \in Seq(PeticionMemoria)
      BY <2>2, SolicitudesTipadas
    <2>4. QED
      BY <1>1, <1>3, <2>2, <2>3, PcbConSolicitud
  <1>4. QED
    BY <1>2, <1>3

-----------------------------------------------------------------------------
(***************************************************************************)
(* Queues and PCBs                                                         *)
(***************************************************************************)
LEMMA Primero ==
  ASSUME NEW S, NEW q \in Seq(S), q # <<>>
  PROVE  Head(q) \in S /\ Tail(q) \in Seq(S)
  BY HeadTailProperties

LEMMA Encolar ==
  ASSUME NEW S, NEW q \in Seq(S), NEW x \in S
  PROVE  Append(q, x) \in Seq(S) /\ Append(q, x) # <<>>
  BY AppendProperties

LEMMA DeUno ==
  ASSUME NEW S, NEW x \in S
  PROVE  /\ Sola(x) \in Seq(S) /\ Sola(x) # <<>> /\ Head(Sola(x)) = x /\ Tail(Sola(x)) = <<>>
         /\ Len(Sola(x)) = 1 /\ DOMAIN Sola(x) = {1} /\ Sola(x)[1] = x
  <1>1. /\ <<x>> \in Seq(S) /\ <<x>> # <<>> /\ Head(<<x>>) = x
        /\ Len(<<x>>) = 1 /\ DOMAIN <<x>> = {1} /\ <<x>>[1] = x
    OBVIOUS
  <1>2. Tail(<<x>>) = <<>>
    OBVIOUS
  <1>3. QED
    BY <1>1, <1>2 DEF Sola

LEMMA EncolarPrimero ==
  ASSUME NEW x
  PROVE  Append(<<>>, x) = Sola(x)
  BY DEF Sola

Estados == {"READY", "READY_PRIORIDAD", "EXECUTE", "BLOCKED"}

LEMMA PcbCambia ==
  ASSUME NEW p \in Pcb
  PROVE  /\ \A e \in Estados : EnEstado(p, e) \in Pcb /\ EnEstado(p, e).pid = p.pid
         /\ \A q \in 0 .. Quantum : /\ [p EXCEPT !.quantum = q] \in Pcb
                                    /\ [p EXCEPT !.quantum = q].pid = p.pid
         /\ [p EXCEPT !.solicitud = NULL] \in Pcb /\ [p EXCEPT !.solicitud = NULL].pid = p.pid
         /\ p.pc <= UltimoPc => siguiente_pc(p) \in Pcb /\ siguiente_pc(p).pid = p.pid
         /\ \A d \in 0 .. UltimoPc : [p EXCEPT !.pc = d] \in Pcb /\ [p EXCEPT !.pc = d].pid = p.pid
         /\ \A s \in Solicitudes :
              LET pedido == [p EXCEPT !.solicitud = crear_solicitud_io(s[2], s[3])]
              IN  pedido \in Pcb /\ pedido.pid = p.pid
         /\ \A v \in {0, 1} :
              LET escrito == [p EXCEPT !.registros["si"] = v]
              IN  escrito \in Pcb /\ escrito.pid = p.pid
         /\ p.pid \in Procesos /\ p.registros["si"] \in {0, 1} /\ p.quantum \in 0 .. Quantum
  <1> USE DesalojoOK
  <1>1. \A e \in Estados : EnEstado(p, e) \in Pcb /\ EnEstado(p, e).pid = p.pid
    BY DEF Pcb, Estados, EnEstado
  <1>2. \A q \in 0 .. Quantum : /\ [p EXCEPT !.quantum = q] \in Pcb
                                /\ [p EXCEPT !.quantum = q].pid = p.pid
    BY DEF Pcb
  <1>3. [p EXCEPT !.solicitud = NULL] \in Pcb /\ [p EXCEPT !.solicitud = NULL].pid = p.pid
    BY DEF Pcb
  <1>4. p.pc <= UltimoPc => siguiente_pc(p) \in Pcb /\ siguiente_pc(p).pid = p.pid
    BY DEF Pcb, siguiente_pc
  <1>5. \A d \in 0 .. UltimoPc : [p EXCEPT !.pc = d] \in Pcb /\ [p EXCEPT !.pc = d].pid = p.pid
    BY DEF Pcb
  <1>6. \A s \in Solicitudes :
          LET pedido == [p EXCEPT !.solicitud = crear_solicitud_io(s[2], s[3])]
          IN  pedido \in Pcb /\ pedido.pid = p.pid
    BY DEF Pcb
  <1>7. "si" \in Registro
    BY DEF Registro, Registros
  <1>8. \A v \in {0, 1} :
          LET escrito == [p EXCEPT !.registros["si"] = v]
          IN  escrito \in Pcb /\ escrito.pid = p.pid
    BY <1>7 DEF Pcb
  <1>9. p.pid \in Procesos /\ p.registros["si"] \in {0, 1} /\ p.quantum \in 0 .. Quantum
    BY <1>7 DEF Pcb
  <1>10. QED
    BY <1>1, <1>2, <1>3, <1>4, <1>5, <1>6, <1>8, <1>9

-----------------------------------------------------------------------------
(***************************************************************************)
(* What the actions of the other side leave alone                          *)
(***************************************************************************)
LEMMA KernelQuieto ==
  ASSUME TipoKernel, UNCHANGED kernelVars
  PROVE  TipoKernel'
  BY DEF TipoKernel, kernelVars

LEMMA CpuQuieta ==
  ASSUME TipoCpu, UNCHANGED cpuVars
  PROVE  TipoCpu' /\ EnCpu' = EnCpu
  BY DEF TipoCpu, EnCpu, cpuVars

LEMMA InterQuieto ==
  ASSUME TipoInter, UNCHANGED <<interrupt, interVars>>
  PROVE  TipoInter'
  BY DEF TipoInter, interVars

-----------------------------------------------------------------------------
(***************************************************************************)
(* The steps of the kernel                                                 *)
(***************************************************************************)
LEMMA PasoDespacha ==
  ASSUME DesalojoInv, CortoDespacha
  PROVE  DesalojoInv'
  <1> USE DEF DesalojoInv, TipoInv
  <1> DEFINE prioridad == cola_readyVRR # <<>>
             cabeza == Head(IF prioridad THEN cola_readyVRR ELSE cola_ready)
  <1>1. cola_ready \in Seq(Pcb) /\ cola_readyVRR \in Seq(Pcb)
    BY DEF TipoKernel
  <1>2. /\ cabeza \in Pcb
        /\ (IF prioridad THEN Tail(cola_readyVRR) ELSE cola_readyVRR) \in Seq(Pcb)
        /\ (IF prioridad THEN cola_ready ELSE Tail(cola_ready)) \in Seq(Pcb)
    <2>1. CASE prioridad
      BY <1>1, <2>1, Primero
    <2>2. CASE ~prioridad
      <3>1. cola_ready # <<>>
        BY <2>2 DEF CortoDespacha, HayListo
      <3>2. QED
        BY <1>1, <2>2, <3>1, Primero
    <2>3. QED
      BY <2>1, <2>2
  <1>3. /\ corto = "inicio" /\ sem_cpu_libre > 0 /\ despachos < MaxDespachos
        /\ despachos' = despachos + 1 /\ sem_cpu_libre' = sem_cpu_libre - 1
        /\ cola_readyVRR' = (IF prioridad THEN Tail(cola_readyVRR) ELSE cola_readyVRR)
        /\ cola_ready' = (IF prioridad THEN cola_ready ELSE Tail(cola_ready))
        /\ pcb' = EnEstado(cabeza, "EXECUTE")
        /\ cola_execute' = Append(cola_execute, pcb')
        /\ dispatch' = Append(dispatch, enviar_pcb(pcb', "DISPATCH_PROCESO"))
        /\ corto' = (IF algoritmo = "FIFO" THEN "esperar" ELSE "crear_hilo")
        /\ UNCHANGED <<algoritmo, bloqueados, cola_exit, motivo_recibido, hilos, hilo_quantum,
                       usuario, respuesta, interrupt, cpuVars, interVars>>
    BY DEF CortoDespacha
  <1> HIDE DEF cabeza, prioridad
  <1>4. pcb' \in Pcb
    BY <1>2, <1>3, PcbCambia DEF Estados
  <1>5. cola_execute = <<>> /\ dispatch = <<>> /\ respuesta = <<>> /\ ~EnCpu
    BY <1>3 DEF DuenoInv
  <1>6. cola_execute' = Sola(pcb') /\ dispatch' = Sola(enviar_pcb(pcb', "DISPATCH_PROCESO"))
    BY <1>3, <1>5, EncolarPrimero
  <1>7. TipoKernel'
    <2>1. cola_execute' \in Seq(Pcb)
      BY <1>4, <1>6, DeUno
    <2>2. sem_cpu_libre' = 0
      BY <1>3 DEF TipoKernel
    <2>3. corto' \in {"esperar", "crear_hilo"}
      BY <1>3
    <2>4. despachos' \in 0 .. MaxDespachos /\ despachos' > 0
      BY <1>3, DesalojoOK DEF TipoKernel
    <2>5. QED
      BY <1>2, <1>3, <1>4, <2>1, <2>2, <2>3, <2>4 DEF TipoKernel
  <1>8. TipoCpu' /\ EnCpu' = EnCpu
    BY <1>3, CpuQuieta
  <1>9. TipoInter'
    BY <1>3, InterQuieto DEF interVars
  <1>10. DuenoInv'
    <2>1. corto' \notin {"inicio", "atender"} /\ sem_cpu_libre' = 0
      BY <1>3 DEF TipoKernel
    <2>2. /\ cpu' = "fetch" => tengo_pcb'
          /\ tengo_pcb' => cpu' \in {"fetch", "check"}
      BY <1>3 DEF DuenoInv, cpuVars
    <2>3. respuesta' = <<>> /\ ~EnCpu'
      BY <1>3, <1>5, <1>8
    <2>4. QED
      BY <1>4, <1>6, <2>1, <2>2, <2>3 DEF DuenoInv
  <1>11. ViajeInv'
    BY <1>3, <1>5, <1>6 DEF ViajeInv
  <1>12. QED
    BY <1>7, <1>8, <1>9, <1>10, <1>11

LEMMA PasoCrearHilo ==
  ASSUME DesalojoInv, CrearHiloQuantum
  PROVE  DesalojoInv'
  <1> USE DEF DesalojoInv, TipoInv
  <1>1. /\ corto = "crear_hilo" /\ corto' = "esperar" /\ hilos' = hilos \cup {despachos}
        /\ UNCHANGED <<algoritmo, cola_ready, cola_readyVRR, cola_execute, bloqueados, cola_exit,
                       sem_cpu_libre, pcb, motivo_recibido, despachos, usuario, dispatch,
                       respuesta, interrupt, cpuVars, interVars>>
    BY DEF CrearHiloQuantum
  <1>2. TipoKernel'
    BY <1>1, DesalojoOK DEF TipoKernel
  <1>3. TipoCpu' /\ EnCpu' = EnCpu
    BY <1>1, CpuQuieta
  <1>4. TipoInter'
    BY <1>1, InterQuieto
  <1>5. DuenoInv'
    BY <1>1, <1>3 DEF DuenoInv, cpuVars
  <1>6. ViajeInv'
    BY <1>1 DEF ViajeInv, cpuVars
  <1>7. QED
    BY <1>2, <1>3, <1>4, <1>5, <1>6

\* Actions that touch neither EXECUTE, the PCB nor a packet.
LEMMA Ajenos ==
  ASSUME DesalojoInv,
         UNCHANGED <<cola_execute, sem_cpu_libre, corto, pcb, dispatch, respuesta, cpuVars>>
  PROVE  TipoCpu' /\ DuenoInv' /\ ViajeInv'
  <1>1. TipoCpu' /\ EnCpu' = EnCpu
    BY CpuQuieta DEF DesalojoInv, TipoInv
  <1>2. DuenoInv'
    BY <1>1 DEF DuenoInv, DesalojoInv, cpuVars
  <1>3. ViajeInv'
    BY DEF ViajeInv, DesalojoInv, cpuVars
  <1>4. QED
    BY <1>1, <1>2, <1>3

\* An interruption asked for names the process in EXECUTE.
LEMMA PideInterrumpir ==
  ASSUME TipoKernel, TipoInter, NEW motivo \in Motivos, Interrumpir(motivo), UNCHANGED interVars
  PROVE  TipoInter'
  <1>1. CASE cola_execute = <<>>
    BY <1>1 DEF Interrumpir, TipoInter, interVars
  <1>2. CASE cola_execute # <<>>
    <2>1. Head(cola_execute) \in Pcb
      BY <1>2, Primero DEF TipoKernel
    <2>2. [codigo |-> motivo, pid |-> Head(cola_execute).pid] \in [codigo : Motivos, pid : Procesos]
      BY <2>1, PcbCambia
    <2>3. interrupt' \in Seq([codigo : Motivos, pid : Procesos])
      BY <1>2, <2>2, Encolar DEF Interrumpir, TipoInter
    <2>4. QED
      BY <2>3 DEF TipoInter, interVars
  <1>3. QED
    BY <1>1, <1>2

LEMMA PasoVenceQuantum ==
  ASSUME DesalojoInv, NEW h \in hilos, VenceQuantum(h)
  PROVE  DesalojoInv'
  <1> USE DEF DesalojoInv, TipoInv
  <1>1. /\ hilos' = hilos \ {h} /\ Interrumpir("INTERRUPCION_QUANTUM")
        /\ UNCHANGED <<algoritmo, cola_ready, cola_readyVRR, cola_execute, bloqueados, cola_exit,
                       sem_cpu_libre, corto, pcb, motivo_recibido, hilo_quantum, despachos,
                       usuario, dispatch, respuesta, cpuVars, interVars>>
    BY DEF VenceQuantum
  <1>2. TipoKernel'
    BY <1>1 DEF TipoKernel
  <1>3. TipoInter'
    BY <1>1, PideInterrumpir DEF Motivos
  <1>4. QED
    BY <1>1, <1>2, <1>3, Ajenos

LEMMA PasoFinalizarEnEjecucion ==
  ASSUME DesalojoInv, FinalizarEnEjecucion
  PROVE  DesalojoInv'
  <1> USE DEF DesalojoInv, TipoInv
  <1>1. /\ Interrumpir("INTERRUPCION_USUARIO")
        /\ UNCHANGED <<algoritmo, cola_ready, cola_readyVRR, cola_execute, bloqueados, cola_exit,
                       sem_cpu_libre, corto, pcb, motivo_recibido, hilos, hilo_quantum,
                       despachos, dispatch, respuesta, cpuVars, interVars>>
    BY DEF FinalizarEnEjecucion
  <1>2. TipoKernel'
    BY <1>1 DEF TipoKernel
  <1>3. TipoInter'
    BY <1>1, PideInterrumpir DEF Motivos
  <1>4. QED
    BY <1>1, <1>2, <1>3, Ajenos

LEMMA PasoRecibe ==
  ASSUME DesalojoInv, CortoRecibe
  PROVE  DesalojoInv'
  <1> USE DEF DesalojoInv, TipoInv
  <1>1. /\ corto = "esperar" /\ respuesta # <<>> /\ respuesta' = Tail(respuesta)
        /\ hilos' \subseteq hilos
        /\ IF Head(respuesta).codigo \in CodigosAtendidos
           THEN pcb' = recibir_pcb(Head(respuesta).campos) /\ corto' = "atender"
           ELSE corto' = "inicio" /\ UNCHANGED pcb
        /\ UNCHANGED <<algoritmo, cola_ready, cola_readyVRR, cola_execute, bloqueados, cola_exit,
                       sem_cpu_libre, hilo_quantum, despachos, usuario, dispatch, interrupt,
                       cpuVars, interVars>>
    BY DEF CortoRecibe, CancelaHilo
  <1>2. PICK q \in Pcb, codigo \in Codigos :
          respuesta = Sola(enviar_pcb(q, codigo)) /\ q.pid = pcb.pid
    BY <1>1 DEF ViajeInv
  <1>3. Head(respuesta) = enviar_pcb(q, codigo) /\ respuesta' = <<>>
    BY <1>1, <1>2, DeUno
  <1>4. recibir_pcb(Head(respuesta).campos) = q
    BY <1>3, PcbViaja
  <1>5. pcb' \in Pcb /\ pcb'.pid = pcb.pid /\ corto' \in {"inicio", "atender"}
    <2>1. pcb \in Pcb
      BY <1>1 DEF TipoKernel
    <2>2. QED
      BY <1>1, <1>2, <1>4, <2>1
  <1>6. TipoKernel'
    BY <1>1, <1>5 DEF TipoKernel
  <1>7. TipoCpu' /\ EnCpu' = EnCpu
    BY <1>1, CpuQuieta
  <1>8. TipoInter'
    BY <1>1, InterQuieto
  <1>9. dispatch = <<>> /\ ~EnCpu
    BY <1>1 DEF DuenoInv
  <1>10. sem_cpu_libre = 0 /\ \E x \in Pcb : x.pid = pcb.pid /\ cola_execute = Sola(x)
    BY <1>1 DEF DuenoInv
  <1>11. DuenoInv'
    <2>1. /\ cpu' = "fetch" => tengo_pcb'
          /\ tengo_pcb' => cpu' \in {"fetch", "check"}
      BY <1>1 DEF DuenoInv, cpuVars
    <2>2. dispatch' = <<>> /\ ~EnCpu'
      BY <1>1, <1>7, <1>9
    <2>3. sem_cpu_libre' = 0 /\ \E x \in Pcb : x.pid = pcb'.pid /\ cola_execute' = Sola(x)
      BY <1>1, <1>5, <1>10
    <2>4. QED
      BY <1>3, <2>1, <2>2, <2>3 DEF DuenoInv
  <1>12. ViajeInv'
    BY <1>1, <1>3, <1>9 DEF ViajeInv
  <1>13. QED
    BY <1>6, <1>7, <1>8, <1>11, <1>12

\* What serving an answer starts from, and what most ways of serving it do.
LEMMA AlAtender ==
  ASSUME DesalojoInv, corto = "atender"
  PROVE  /\ pcb \in Pcb /\ sem_cpu_libre = 0 /\ dispatch = <<>> /\ respuesta = <<>> /\ ~EnCpu
         /\ \E x \in Pcb : x.pid = pcb.pid /\ cola_execute = Sola(x)
  BY DEF DesalojoInv, TipoInv, TipoKernel, DuenoInv

LEMMA AlLiberar ==
  ASSUME DesalojoInv, corto = "atender", LiberaCpu,
         UNCHANGED <<algoritmo, motivo_recibido, hilos, hilo_quantum, despachos, usuario,
                     respuesta, interrupt, cpuVars, interVars>>,
         cola_ready' \in Seq(Pcb), cola_readyVRR' \in Seq(Pcb),
         bloqueados' \subseteq Pcb, cola_exit' \subseteq Procesos
  PROVE  DesalojoInv'
  <1> USE DEF DesalojoInv, TipoInv
  <1>1. /\ cola_execute' = <<>> /\ sem_cpu_libre' = 1 /\ corto' = "inicio"
        /\ pcb' = pcb /\ dispatch' = dispatch
    <2>1. cola_execute' = <<>>
      BY AlAtender, DeUno DEF LiberaCpu
    <2>2. QED
      BY <2>1, AlAtender DEF LiberaCpu
  <1>2. TipoKernel'
    <2>1. cola_execute' \in Seq(Pcb)
      BY <1>1
    <2>2. QED
      BY <1>1, <2>1 DEF TipoKernel
  <1>3. TipoCpu' /\ EnCpu' = EnCpu
    BY CpuQuieta
  <1>4. TipoInter'
    BY InterQuieto
  <1>5. dispatch' = <<>> /\ respuesta' = <<>> /\ ~EnCpu'
    BY <1>1, <1>3, AlAtender
  <1>6. DuenoInv'
    BY <1>1, <1>5 DEF DuenoInv, cpuVars
  <1>7. ViajeInv'
    BY <1>5 DEF ViajeInv
  <1>8. QED
    BY <1>2, <1>3, <1>4, <1>6, <1>7

LEMMA PasoAtiende ==
  ASSUME DesalojoInv, CortoAtiende
  PROVE  DesalojoInv'
  <1> USE DEF DesalojoInv, TipoInv
  <1>1. /\ corto = "atender"
        /\ UNCHANGED <<algoritmo, motivo_recibido, hilos, hilo_quantum, despachos, usuario,
                       respuesta, interrupt, cpuVars, interVars>>
    BY DEF CortoAtiende, CortoFinaliza, CortoMandaAExit, CortoFinQuantum, CortoBloqueaEnIO,
           CortoBloqueaEnRecurso, CortoRedespacha, Atiende
  <1>2. pcb \in Pcb
    BY <1>1, AlAtender
  <1>3. /\ cola_ready \in Seq(Pcb) /\ cola_readyVRR \in Seq(Pcb)
        /\ bloqueados \subseteq Pcb /\ cola_exit \subseteq Procesos
    BY DEF TipoKernel
  <1>4. CASE CortoFinaliza
    <2>1. /\ cola_exit' = cola_exit \cup {pcb.pid} /\ LiberaCpu
          /\ UNCHANGED <<cola_ready, cola_readyVRR, bloqueados>>
      BY <1>4 DEF CortoFinaliza, CortoMandaAExit
    <2>2. pcb.pid \in Procesos
      BY <1>2, PcbCambia
    <2>3. cola_exit' \subseteq Procesos
      BY <1>3, <2>1, <2>2
    <2>4. QED
      BY <1>1, <1>3, <2>1, <2>3, AlLiberar
  <1>5. CASE CortoFinQuantum
    <2>1. /\ cola_ready' = Append(cola_ready, [EnEstado(pcb, "READY") EXCEPT !.quantum = Quantum])
          /\ LiberaCpu /\ UNCHANGED <<cola_readyVRR, bloqueados, cola_exit>>
      BY <1>5 DEF CortoFinQuantum
    <2>2. [EnEstado(pcb, "READY") EXCEPT !.quantum = Quantum] \in Pcb
      <3>1. PICK listo \in Pcb : listo = EnEstado(pcb, "READY")
        BY <1>2, PcbCambia DEF Estados
      <3>2. Quantum \in 0 .. Quantum
        BY DesalojoOK
      <3>3. [listo EXCEPT !.quantum = Quantum] \in Pcb
        BY <3>2, PcbCambia
      <3>4. QED
        BY <3>1, <3>3
    <2>3. cola_ready' \in Seq(Pcb)
      BY <1>3, <2>1, <2>2, Encolar
    <2>4. QED
      BY <1>1, <1>3, <2>1, <2>3, AlLiberar
  <1>6. CASE CortoBloqueaEnIO
    <2>1. PICK q_usado \in 0 .. Quantum + 1 :
            Bloqueado([pcb EXCEPT !.quantum = QuantumRestante(pcb.quantum, q_usado)])
      BY <1>6 DEF CortoBloqueaEnIO
    <2>2. LiberaCpu /\ UNCHANGED <<cola_ready, cola_readyVRR, cola_exit>>
      BY <1>6 DEF CortoBloqueaEnIO
    <2>3. QuantumRestante(pcb.quantum, q_usado) \in 0 .. Quantum
      <3>1. pcb.quantum \in 0 .. Quantum
        BY <1>2, PcbCambia
      <3>2. algoritmo \in {"FIFO", "RR", "VRR"}
        BY DEF TipoKernel
      <3>3. QED
        BY <3>1, <3>2, DesalojoOK DEF QuantumRestante
    <2>4. EnEstado([pcb EXCEPT !.quantum = QuantumRestante(pcb.quantum, q_usado)], "BLOCKED")
            \in Pcb
      BY <1>2, <2>3, PcbCambia DEF Estados
    <2>5. bloqueados' \subseteq Pcb
      BY <1>3, <2>1, <2>4 DEF Bloqueado
    <2>6. QED
      BY <1>1, <1>3, <2>2, <2>5, AlLiberar
  <1>7. CASE CortoBloqueaEnRecurso
    <2>1. bloqueados' = bloqueados \cup {EnEstado(pcb, "BLOCKED")} /\ LiberaCpu
          /\ UNCHANGED <<cola_ready, cola_readyVRR, cola_exit>>
      BY <1>7 DEF CortoBloqueaEnRecurso, Bloqueado
    <2>2. EnEstado(pcb, "BLOCKED") \in Pcb
      BY <1>2, PcbCambia DEF Estados
    <2>3. bloqueados' \subseteq Pcb
      BY <1>3, <2>1, <2>2
    <2>4. QED
      BY <1>1, <1>3, <2>1, <2>3, AlLiberar
  <1>8. CASE CortoRedespacha
    <2>1. /\ pcb' = [pcb EXCEPT !.solicitud = NULL] /\ corto' = "esperar"
          /\ dispatch' = Append(dispatch, enviar_pcb(pcb', "DISPATCH_PROCESO"))
          /\ UNCHANGED <<cola_ready, cola_readyVRR, cola_execute, bloqueados, cola_exit,
                         sem_cpu_libre>>
      BY <1>8 DEF CortoRedespacha
    <2>2. pcb' \in Pcb /\ pcb'.pid = pcb.pid
      BY <1>2, <2>1, PcbCambia
    <2>3. dispatch' = Sola(enviar_pcb(pcb', "DISPATCH_PROCESO"))
      BY <1>1, <2>1, AlAtender, EncolarPrimero
    <2>4. TipoKernel'
      BY <1>1, <2>1, <2>2 DEF TipoKernel
    <2>5. TipoCpu' /\ EnCpu' = EnCpu
      BY <1>1, CpuQuieta
    <2>6. TipoInter'
      BY <1>1, InterQuieto
    <2>7. respuesta' = <<>> /\ ~EnCpu' /\ sem_cpu_libre' = 0
      BY <1>1, <2>1, <2>5, AlAtender
    <2>8. \E x \in Pcb : x.pid = pcb'.pid /\ cola_execute' = Sola(x)
      BY <1>1, <2>1, <2>2, AlAtender
    <2>9. DuenoInv'
      <3>1. /\ cpu' = "fetch" => tengo_pcb'
            /\ tengo_pcb' => cpu' \in {"fetch", "check"}
        BY <1>1 DEF DuenoInv, cpuVars
      <3>2. QED
        BY <2>1, <2>7, <2>8, <3>1 DEF DuenoInv
    <2>10. ViajeInv'
      BY <2>3, <2>7 DEF ViajeInv
    <2>11. QED
      BY <2>4, <2>5, <2>6, <2>9, <2>10
  <1>9. QED
    BY <1>4, <1>5, <1>6, <1>7, <1>8 DEF CortoAtiende

LEMMA PasoDesbloquear ==
  ASSUME DesalojoInv, NEW p \in bloqueados, Desbloquear(p)
  PROVE  DesalojoInv'
  <1> USE DEF DesalojoInv, TipoInv
  <1>1. p \in Pcb
    BY DEF TipoKernel
  <1>2. PICK limpio \in Pcb :
          limpio = IF EsDeIO(p) THEN [p EXCEPT !.solicitud = NULL] ELSE p
    BY <1>1, PcbCambia
  <1>3. /\ bloqueados' = bloqueados \ {p}
        /\ \/ /\ cola_readyVRR' = Append(cola_readyVRR, EnEstado(limpio, "READY_PRIORIDAD"))
              /\ UNCHANGED cola_ready
           \/ /\ cola_ready' = Append(cola_ready, EnEstado(limpio, "READY"))
              /\ UNCHANGED cola_readyVRR
        /\ UNCHANGED <<algoritmo, cola_execute, cola_exit, sem_cpu_libre, corto, pcb,
                       motivo_recibido, hilos, hilo_quantum, despachos, usuario, dispatch,
                       respuesta, interrupt, cpuVars, interVars>>
    BY <1>2 DEF Desbloquear
  <1>4. EnEstado(limpio, "READY") \in Pcb /\ EnEstado(limpio, "READY_PRIORIDAD") \in Pcb
    BY <1>2, PcbCambia DEF Estados
  <1>5. cola_ready' \in Seq(Pcb) /\ cola_readyVRR' \in Seq(Pcb)
    BY <1>3, <1>4, Encolar DEF TipoKernel
  <1>6. TipoKernel'
    BY <1>3, <1>5 DEF TipoKernel
  <1>7. TipoInter'
    BY <1>3, InterQuieto
  <1>8. QED
    BY <1>3, <1>6, <1>7, Ajenos

-----------------------------------------------------------------------------
(***************************************************************************)
(* The steps of the CPU                                                    *)
(***************************************************************************)
LEMMA PasoCpuRecibe ==
  ASSUME DesalojoInv, CpuRecibe
  PROVE  DesalojoInv'
  <1> USE DEF DesalojoInv, TipoInv
  <1>1. /\ cpu = "recibir" /\ dispatch # <<>> /\ dispatch' = Tail(dispatch)
        /\ pcb_actual' = recibir_pcb(Head(dispatch).campos)
        /\ tengo_pcb' = TRUE /\ cpu' = "fetch"
        /\ UNCHANGED <<kernelVars, respuesta, interrupt, interVars>>
    BY DEF CpuRecibe
  <1>2. corto \notin {"inicio", "atender"} /\ respuesta = <<>> /\ pcb \in Pcb
    BY <1>1 DEF DuenoInv, TipoKernel
  <1>3. dispatch = Sola(enviar_pcb(pcb, "DISPATCH_PROCESO"))
    BY <1>1 DEF ViajeInv
  <1>4. Head(dispatch) = enviar_pcb(pcb, "DISPATCH_PROCESO") /\ dispatch' = <<>>
    BY <1>1, <1>3, DeUno
  <1>5. pcb_actual' = pcb
    BY <1>1, <1>2, <1>4, PcbViaja
  <1>6. TipoKernel'
    BY <1>1, KernelQuieto
  <1>7. TipoCpu' /\ EnCpu'
    BY <1>1, <1>2, <1>5 DEF TipoCpu, EnCpu
  <1>8. TipoInter'
    BY <1>1, InterQuieto
  <1>9. UNCHANGED <<corto, cola_execute, sem_cpu_libre, pcb>>
    BY <1>1 DEF kernelVars
  <1>10. DuenoInv'
    BY <1>1, <1>2, <1>4, <1>5, <1>9 DEF DuenoInv
  <1>11. ViajeInv'
    BY <1>1, <1>2, <1>4 DEF ViajeInv
  <1>12. QED
    BY <1>6, <1>7, <1>8, <1>10, <1>11

\* The CPU without its PCB changes nothing of the PCB's.
LEMMA PasoFetchFalla ==
  ASSUME DesalojoInv, CpuFetchFalla
  PROVE  DesalojoInv'
  <1> USE DEF DesalojoInv, TipoInv
  <1>1. /\ cpu = "fetch" /\ tengo_pcb' = FALSE /\ cpu' = "soltar"
        /\ UNCHANGED <<kernelVars, dispatch, respuesta, interrupt, pcb_actual, interVars>>
    BY DEF CpuFetchFalla
  <1>2. TipoKernel'
    BY <1>1, KernelQuieto
  <1>3. TipoCpu' /\ ~EnCpu'
    BY <1>1 DEF TipoCpu, EnCpu
  <1>4. TipoInter'
    BY <1>1, InterQuieto
  <1>5. UNCHANGED <<corto, cola_execute, sem_cpu_libre, pcb>>
    BY <1>1 DEF kernelVars
  <1>6. DuenoInv'
    BY <1>1, <1>3, <1>5 DEF DuenoInv
  <1>7. ViajeInv'
    BY <1>1, <1>5 DEF ViajeInv
  <1>8. QED
    BY <1>2, <1>3, <1>4, <1>6, <1>7

\* An instruction that keeps the PCB.
LEMMA AlSeguir ==
  ASSUME DesalojoInv, Instruccion, UNCHANGED <<respuesta, tengo_pcb>>,
         pcb_actual' \in Pcb, pcb_actual'.pid = pcb_actual.pid
  PROVE  DesalojoInv'
  <1> USE DEF DesalojoInv, TipoInv
  <1>1. /\ cpu = "fetch" /\ cpu' = "check" /\ tengo_pcb' = tengo_pcb /\ respuesta' = respuesta
        /\ UNCHANGED <<kernelVars, dispatch, interrupt, interVars>>
    BY DEF Instruccion
  <1>2. tengo_pcb /\ EnCpu
    BY <1>1 DEF DuenoInv, EnCpu
  <1>3. TipoKernel'
    BY <1>1, KernelQuieto
  <1>4. TipoCpu' /\ EnCpu'
    BY <1>1, <1>2 DEF TipoCpu, EnCpu
  <1>5. TipoInter'
    BY <1>1, InterQuieto
  <1>6. UNCHANGED <<corto, cola_execute, sem_cpu_libre, pcb>>
    BY <1>1 DEF kernelVars
  <1>7. dispatch' = <<>> /\ respuesta' = <<>>
    BY <1>1, <1>2 DEF DuenoInv
  <1>8. DuenoInv'
    BY <1>1, <1>2, <1>4, <1>6, <1>7 DEF DuenoInv
  <1>9. ViajeInv'
    BY <1>7 DEF ViajeInv
  <1>10. QED
    BY <1>3, <1>4, <1>5, <1>8, <1>9

\* The PCB goes back: at the end of an instruction or interrupted.
LEMMA AlDevolver ==
  ASSUME DesalojoInv, EnCpu, cpu' \in {"check", "soltar"}, ~tengo_pcb', tengo_pcb' \in BOOLEAN,
         NEW q \in Pcb, NEW codigo \in Codigos, q.pid = pcb_actual.pid,
         respuesta' = Append(respuesta, enviar_pcb(q, codigo)),
         pcb_actual' \in Pcb,
         pcb_actual' = IF codigo = "OUT_OF_MEMORY" THEN siguiente_pc(q) ELSE q,
         TipoInter',
         UNCHANGED <<kernelVars, dispatch>>
  PROVE  DesalojoInv'
  <1> USE DEF DesalojoInv, TipoInv
  <1>1. /\ dispatch = <<>> /\ respuesta = <<>> /\ corto \notin {"inicio", "atender"}
        /\ pcb_actual.pid = pcb.pid
    BY DEF DuenoInv
  <1>2. respuesta' = Sola(enviar_pcb(q, codigo))
    BY <1>1, EncolarPrimero
  <1>3. TipoKernel'
    BY KernelQuieto
  <1>4. TipoCpu' /\ ~EnCpu'
    BY DEF TipoCpu, EnCpu
  <1>5. UNCHANGED <<corto, cola_execute, sem_cpu_libre, pcb>>
    BY DEF kernelVars
  <1>6. dispatch' = <<>>
    BY <1>1
  <1>7. DuenoInv'
    BY <1>1, <1>4, <1>5, <1>6 DEF DuenoInv
  <1>8. ViajeInv'
    <2>1. q.pid = pcb'.pid
      BY <1>1, <1>5
    <2>2. QED
      BY <1>2, <1>6, <2>1 DEF ViajeInv
  <1>9. QED
    BY <1>3, <1>4, <1>7, <1>8

LEMMA PasoEjecutar ==
  ASSUME DesalojoInv, Ejecutar
  PROVE  DesalojoInv'
  <1> USE DEF DesalojoInv, TipoInv
  <1>1. /\ Instruccion /\ cpu = "fetch" /\ cpu' = "check"
        /\ UNCHANGED <<kernelVars, dispatch, interrupt, interVars>>
    BY DEF Ejecutar, CpuEjecuta, CpuJNZ, CpuSinMemoria, CpuDesaloja, CpuTermina, Instruccion
  <1>2. EnCpu /\ pcb_actual \in Pcb
    BY <1>1 DEF DuenoInv, EnCpu, TipoCpu
  <1>3. TipoInter'
    BY <1>1, InterQuieto
  <1>4. CASE CpuEjecuta
    <2>1. PICK v \in {pcb_actual.registros["si"], 1} :
            pcb_actual' = [siguiente_pc(pcb_actual) EXCEPT !.registros["si"] = v]
      BY <1>4 DEF CpuEjecuta
    <2>2. v \in {0, 1}
      BY <1>2, PcbCambia
    <2>3. PICK p \in Pcb : p = siguiente_pc(pcb_actual) /\ p.pid = pcb_actual.pid
      BY <1>2, <1>4, PcbCambia DEF CpuEjecuta
    <2>4. pcb_actual' \in Pcb /\ pcb_actual'.pid = pcb_actual.pid
      BY <2>1, <2>2, <2>3, PcbCambia
    <2>5. QED
      BY <1>1, <1>4, <2>4, AlSeguir DEF CpuEjecuta
  <1>5. CASE CpuJNZ
    <2>1. PICK destino \in 0 .. UltimoPc : pcb_actual' = [pcb_actual EXCEPT !.pc = destino]
      BY <1>5 DEF CpuJNZ
    <2>2. pcb_actual' \in Pcb /\ pcb_actual'.pid = pcb_actual.pid
      BY <1>2, <2>1, PcbCambia
    <2>3. QED
      BY <1>1, <1>5, <2>2, AlSeguir DEF CpuJNZ
  <1>6. CASE CpuSinMemoria
    <2>1. /\ tengo_pcb' = FALSE /\ respuesta' = Append(respuesta, enviar_pcb(pcb_actual, "OUT_OF_MEMORY"))
          /\ pcb_actual' = siguiente_pc(pcb_actual) /\ pcb_actual.pc <= UltimoPc
      BY <1>6 DEF CpuSinMemoria, Devuelve
    <2>2. pcb_actual' \in Pcb
      BY <1>2, <2>1, PcbCambia
    <2>3. "OUT_OF_MEMORY" \in Codigos
      BY DEF Codigos, CodigosAtendidos
    <2>4. QED
      BY <1>1, <1>2, <1>3, <2>1, <2>2, <2>3, AlDevolver
  <1>7. CASE CpuDesaloja
    <2>1. PICK s \in Solicitudes :
            /\ pcb_actual' = [siguiente_pc(pcb_actual) EXCEPT
                                !.solicitud = crear_solicitud_io(s[2], s[3])]
            /\ tengo_pcb' = FALSE /\ respuesta' = Append(respuesta, enviar_pcb(pcb_actual', s[1]))
      BY <1>7 DEF CpuDesaloja, Devuelve
    <2>2. PICK p \in Pcb : p = siguiente_pc(pcb_actual) /\ p.pid = pcb_actual.pid
      BY <1>2, <1>7, PcbCambia DEF CpuDesaloja
    <2>3. pcb_actual' \in Pcb /\ pcb_actual'.pid = pcb_actual.pid
      <3>1. /\ pcb_actual' = [p EXCEPT !.solicitud = crear_solicitud_io(s[2], s[3])]
            /\ p.pid = pcb_actual.pid
        BY <2>1, <2>2
      <3>2. /\ [p EXCEPT !.solicitud = crear_solicitud_io(s[2], s[3])] \in Pcb
            /\ [p EXCEPT !.solicitud = crear_solicitud_io(s[2], s[3])].pid = p.pid
        BY PcbCambia
      <3>3. QED
        BY <3>1, <3>2
    <2>4. s[1] \in {"PROCESO_BLOQUEADO_IO", "PROCESO_SOLICITA_RECURSO", "PROCESO_LIBERA_RECURSO"}
      BY DEF Solicitudes
    <2>5. s[1] \in Codigos /\ s[1] # "OUT_OF_MEMORY"
      BY <2>4 DEF Codigos, CodigosAtendidos
    <2>6. PICK q \in Pcb : q = pcb_actual'
      BY <2>3
    <2>7. QED
      BY <1>1, <1>2, <1>3, <2>1, <2>3, <2>5, <2>6, AlDevolver
  <1>8. CASE CpuTermina
    <2>1. PICK codigo \in {"PROCESO_TERMINADO", "ERROR_DE_PROCESAMIENTO"} :
            /\ tengo_pcb' = FALSE /\ respuesta' = Append(respuesta, enviar_pcb(pcb_actual, codigo))
            /\ pcb_actual' = pcb_actual
      BY <1>8 DEF CpuTermina, Devuelve
    <2>2. codigo \in Codigos /\ codigo # "OUT_OF_MEMORY"
      BY DEF Codigos, CodigosAtendidos
    <2>3. QED
      BY <1>1, <1>2, <1>3, <2>1, <2>2, AlDevolver
  <1>9. QED
    BY <1>4, <1>5, <1>6, <1>7, <1>8 DEF Ejecutar

LEMMA PasoCheckInterrupt ==
  ASSUME DesalojoInv, CheckInterrupt
  PROVE  DesalojoInv'
  <1> USE DEF DesalojoInv, TipoInv
  <1>1. /\ cpu = "check" /\ INTERRUPTION_FLAG' = FALSE
        /\ tengo_pcb' = (tengo_pcb /\ ~INTERRUPTION_FLAG)
        /\ cpu' = IF ~tengo_pcb THEN "soltar" ELSE IF INTERRUPTION_FLAG THEN "enviar" ELSE "fetch"
        /\ UNCHANGED <<kernelVars, dispatch, respuesta, interrupt, pcb_actual, liberado,
                       MOTIVO_INTERRUPCION, hiloInterrupt, aceptadas>>
    BY DEF CheckInterrupt
  <1>2. TipoKernel'
    BY <1>1, KernelQuieto
  <1>3. tengo_pcb \in BOOLEAN /\ INTERRUPTION_FLAG \in BOOLEAN
    BY DEF TipoCpu, TipoInter
  <1>4. EnCpu' <=> EnCpu
    BY <1>1, <1>3 DEF EnCpu
  <1>5. tengo_pcb' \in BOOLEAN
    BY <1>1, <1>3
  <1>6. TipoCpu'
    BY <1>1, <1>4, <1>5 DEF TipoCpu
  <1>7. TipoInter'
    BY <1>1 DEF TipoInter
  <1>8. UNCHANGED <<corto, cola_execute, sem_cpu_libre, pcb>>
    BY <1>1 DEF kernelVars
  <1>9. /\ cpu' = "fetch" => tengo_pcb'
        /\ tengo_pcb' => cpu' \in {"fetch", "check"}
    BY <1>1, <1>3
  <1>10. DuenoInv'
    BY <1>1, <1>4, <1>8, <1>9 DEF DuenoInv
  <1>11. ViajeInv'
    BY <1>1, <1>8 DEF ViajeInv
  <1>12. QED
    BY <1>2, <1>6, <1>7, <1>10, <1>11

LEMMA PasoEnviaInterrumpido ==
  ASSUME DesalojoInv, CpuEnviaInterrumpido
  PROVE  DesalojoInv'
  <1> USE DEF DesalojoInv, TipoInv
  <1>1. /\ cpu = "enviar" /\ cpu' = "soltar"
        /\ respuesta' = Append(respuesta, enviar_pcb(pcb_actual, MOTIVO_INTERRUPCION))
        /\ aceptadas' = aceptadas - 1
        /\ UNCHANGED <<kernelVars, dispatch, interrupt, pcb_actual, tengo_pcb,
                       INTERRUPTION_FLAG, MOTIVO_INTERRUPCION, hiloInterrupt>>
    BY DEF CpuEnviaInterrumpido
  <1>2. TipoInter'
    BY <1>1 DEF TipoInter
  <1>3. EnCpu /\ pcb_actual \in Pcb /\ ~tengo_pcb
    BY <1>1 DEF EnCpu, TipoCpu, DuenoInv
  <1>4. MOTIVO_INTERRUPCION \in Codigos /\ MOTIVO_INTERRUPCION # "OUT_OF_MEMORY"
    BY DEF TipoInter, Motivos, Codigos, CodigosAtendidos
  <1>5. QED
    BY <1>1, <1>2, <1>3, <1>4, AlDevolver DEF TipoCpu

\* Steps of the CPU that move its thread while it has no PCB.
LEMMA SinPcb ==
  ASSUME DesalojoInv, ~tengo_pcb, cpu # "enviar", cpu' \in {"recibir", "caida"},
         UNCHANGED <<kernelVars, dispatch, respuesta, interrupt, pcb_actual, tengo_pcb, interVars>>
  PROVE  DesalojoInv'
  <1> USE DEF DesalojoInv, TipoInv
  <1>1. TipoKernel'
    BY KernelQuieto
  <1>2. TipoCpu' /\ ~EnCpu'
    BY DEF TipoCpu, EnCpu
  <1>3. TipoInter'
    BY InterQuieto
  <1>4. UNCHANGED <<corto, cola_execute, sem_cpu_libre, pcb>>
    BY DEF kernelVars
  <1>5. DuenoInv'
    BY <1>2, <1>4 DEF DuenoInv
  <1>6. ViajeInv'
    BY <1>4 DEF ViajeInv
  <1>7. QED
    BY <1>1, <1>2, <1>3, <1>5, <1>6

LEMMA PasoSuelta ==
  ASSUME DesalojoInv, CpuSuelta
  PROVE  DesalojoInv'
  <1>1. cpu = "soltar" /\ ~tengo_pcb
    BY DEF CpuSuelta, DesalojoInv, DuenoInv
  <1>2. QED
    BY <1>1, SinPcb DEF CpuSuelta

LEMMA PasoSinPcb ==
  ASSUME DesalojoInv, InterrupcionSinPcb
  PROVE  DesalojoInv'
  <1>1. ~EnCpu
    BY NullNoEsPcb DEF InterrupcionSinPcb, DesalojoInv, TipoInv, TipoCpu
  <1>2. QED
    BY <1>1, SinPcb DEF InterrupcionSinPcb, EnCpu

-----------------------------------------------------------------------------
(***************************************************************************)
(* The steps of the interruptions                                          *)
(***************************************************************************)
LEMMA PasoLlega ==
  ASSUME DesalojoInv, InterrupcionLlega
  PROVE  DesalojoInv'
  <1> USE DEF DesalojoInv, TipoInv
  <1>1. /\ interrupt # <<>> /\ interrupt' = Tail(interrupt)
        /\ UNCHANGED <<kernelVars, dispatch, respuesta, cpuVars, MOTIVO_INTERRUPCION>>
        /\ \/ /\ INTERRUPTION_FLAG' = TRUE
              /\ hiloInterrupt' = Head(interrupt).codigo
              /\ aceptadas' = aceptadas + 1
           \/ UNCHANGED <<INTERRUPTION_FLAG, hiloInterrupt, aceptadas>>
    BY DEF InterrupcionLlega
  <1>2. /\ Head(interrupt) \in [codigo : Motivos, pid : Procesos]
        /\ interrupt' \in Seq([codigo : Motivos, pid : Procesos])
    BY <1>1, Primero DEF TipoInter
  <1>3. Head(interrupt).codigo \in Motivos
    BY <1>2
  <1>4. INTERRUPTION_FLAG' \in BOOLEAN
    BY <1>1, Zenon DEF TipoInter
  <1>5. hiloInterrupt' \in Motivos \cup {NULL} /\ aceptadas' \in Int
    BY <1>1, <1>3 DEF TipoInter
  <1>6. TipoInter'
    BY <1>1, <1>2, <1>4, <1>5 DEF TipoInter
  <1>7. TipoKernel'
    BY <1>1, KernelQuieto
  <1>8. QED
    BY <1>1, <1>6, <1>7, Ajenos DEF kernelVars

LEMMA PasoMotivo ==
  ASSUME DesalojoInv, InterrupcionMotivo
  PROVE  DesalojoInv'
  <1> USE DEF DesalojoInv, TipoInv
  <1>1. /\ hiloInterrupt # NULL /\ MOTIVO_INTERRUPCION' = hiloInterrupt /\ hiloInterrupt' = NULL
        /\ UNCHANGED <<kernelVars, dispatch, respuesta, interrupt, cpuVars, INTERRUPTION_FLAG,
                       aceptadas>>
    BY DEF InterrupcionMotivo
  <1>2. TipoInter'
    BY <1>1 DEF TipoInter
  <1>3. TipoKernel'
    BY <1>1, KernelQuieto
  <1>4. QED
    BY <1>1, <1>2, <1>3, Ajenos DEF kernelVars

-----------------------------------------------------------------------------
(***************************************************************************)
(* The inductive invariant                                                 *)
(***************************************************************************)
LEMMA ColaInicial ==
  Init => cola_ready \in Seq(Pcb)
  <1> DEFINE n == Cardinality(Procesos)
             Listas == [1 .. n -> {crear_pcb(p) : p \in Procesos}]
             Completa(s) == \A p \in Procesos : \E i \in DOMAIN s : s[i].pid = p
  <1>1. n \in Nat /\ \E f : f \in Bijection(1 .. n, Procesos)
    <2>1. IsFiniteSet(Procesos)
      BY DesalojoOK
    <2>2. QED
      BY <2>1, FS_CardinalityType DEF ExistsBijection
  <1>2. PICK f : f \in [1 .. n -> Procesos] /\ \A p \in Procesos : \E i \in 1 .. n : f[i] = p
    <2>1. PICK f : f \in Bijection(1 .. n, Procesos)
      BY <1>1
    <2>2. QED
      BY <2>1 DEF Bijection, Injection, Surjection
  <1> HIDE DEF n
  <1>3. PICK s \in Listas : Completa(s)
    <2> DEFINE s == [i \in 1 .. n |-> crear_pcb(f[i])]
    <2>1. s \in Listas
      BY <1>2
    <2>2. \A i \in 1 .. n : s[i].pid = f[i]
      BY DEF crear_pcb
    <2>3. Completa(s)
      BY <1>2, <2>2
    <2> HIDE DEF s, Listas, Completa
    <2>4. QED
      BY <2>1, <2>3
  <1>4. \A p \in Procesos : crear_pcb(p) \in Pcb
    BY DesalojoOK DEF crear_pcb, Pcb
  <1>5. ASSUME NEW q \in Listas
        PROVE  q \in Seq(Pcb)
    BY <1>1, <1>4
  <1>6. ASSUME Init
        PROVE  cola_ready \in Listas
    <2>1. cola_ready = CHOOSE q \in Listas : Completa(q)
      BY <1>6 DEF Init, n
    <2> HIDE DEF Listas, Completa
    <2>2. QED
      BY <1>3, <2>1
  <1>7. QED
    BY <1>5, <1>6

LEMMA InvInicial ==
  Init => DesalojoInv
  <1> SUFFICES ASSUME Init PROVE DesalojoInv
    OBVIOUS
  <1>1. TipoKernel
    <2>1. cola_ready \in Seq(Pcb)
      BY ColaInicial
    <2>2. /\ cola_readyVRR \in Seq(Pcb) /\ cola_execute \in Seq(Pcb)
      BY DEF Init
    <2>3. QED
      BY <2>1, <2>2, DesalojoOK DEF Init, TipoKernel
  <1>2. TipoCpu /\ ~EnCpu
    BY DEF Init, TipoCpu, EnCpu
  <1>3. TipoInter
    <2>1. interrupt \in Seq([codigo : Motivos, pid : Procesos])
      BY DEF Init
    <2>2. INTERRUPTION_FLAG \in BOOLEAN
      BY Zenon DEF Init
    <2>3. /\ hiloInterrupt \in Motivos \cup {NULL} /\ MOTIVO_INTERRUPCION \in Motivos \cup {"MENSAJE"}
          /\ aceptadas \in Int
      BY DEF Init
    <2>4. QED
      BY <2>1, <2>2, <2>3 DEF TipoInter
  <1>4. DuenoInv
    BY <1>2 DEF Init, DuenoInv
  <1>5. ViajeInv
    BY DEF Init, ViajeInv
  <1>6. QED
    BY <1>1, <1>2, <1>3, <1>4, <1>5 DEF DesalojoInv, TipoInv

LEMMA InvPaso ==
  ASSUME DesalojoInv, [Next]_vars
  PROVE  DesalojoInv'
  <1>1. CASE Next
    BY <1>1, PasoDespacha, PasoCrearHilo, PasoRecibe, PasoAtiende, PasoCpuRecibe,
       PasoEjecutar,
       PasoCheckInterrupt, PasoEnviaInterrumpido, PasoSuelta, PasoLlega, PasoMotivo,
       PasoFetchFalla, PasoSinPcb, PasoFinalizarEnEjecucion, PasoVenceQuantum,
       PasoDesbloquear
       DEF Next, Kernel, Cpu, Interrupciones
  <1>2. CASE UNCHANGED vars
    <2>1. TipoKernel'
      BY <1>2, KernelQuieto DEF vars, DesalojoInv, TipoInv
    <2>2. TipoInter'
      BY <1>2, InterQuieto DEF vars, DesalojoInv, TipoInv
    <2>3. TipoCpu' /\ DuenoInv' /\ ViajeInv'
      BY <1>2, Ajenos DEF vars, kernelVars
    <2>4. QED
      BY <2>1, <2>2, <2>3 DEF DesalojoInv, TipoInv
  <1>3. QED
    BY <1>1, <1>2

-----------------------------------------------------------------------------
(***************************************************************************)
(* Theorems                                                                *)
(***************************************************************************)
LEMMA DesalojoInvariante ==
  Spec => []DesalojoInv
  <1>1. DesalojoInv /\ [Next]_vars => DesalojoInv'
    BY InvPaso
  <1>2. QED
    BY InvInicial, <1>1, PTL DEF Spec

(***************************************************************************)
(* Every PCB of the kernel and of the CPU is well formed, whatever packets *)
(* it travelled in: the quantum that is left when a process blocks never   *)
(* goes below zero nor above the configured one                            *)
(* (planificador_corto.c:104-110).                                         *)
(***************************************************************************)
THEOREM Tipos == Spec => []TypeOK
  <1>1. ASSUME NEW q \in Seq(Pcb)
        PROVE  {q[i] : i \in DOMAIN q} \subseteq Pcb
    <2>1. DOMAIN q = 1 .. Len(q)
      BY LenProperties
    <2>2. QED
      BY <2>1, ElementOfSeq
  <1>2. DesalojoInv => TypeOK
    <2> SUFFICES ASSUME DesalojoInv PROVE TypeOK
      OBVIOUS
    <2>1. TipoKernel /\ TipoCpu /\ TipoInter
      BY DEF DesalojoInv, TipoInv
    <2>2. EnCola \subseteq Pcb
      BY <1>1, <2>1 DEF EnCola, TipoKernel
    <2>3. {pcb, pcb_actual} \ {NULL} \subseteq Pcb
      BY <2>1 DEF TipoKernel, TipoCpu
    <2>4. MOTIVO_INTERRUPCION \in CodigosAtendidos \cup {"MENSAJE"}
      BY <2>1 DEF TipoInter, Motivos, CodigosAtendidos
    <2>5. QED
      BY <2>1, <2>2, <2>3, <2>4 DEF TypeOK, TipoKernel, TipoCpu
  <1>3. QED
    BY <1>2, DesalojoInvariante, PTL

\* The places the PCB is in, one or none.
LEMMA DuenosPosibles ==
  ASSUME DesalojoInv
  PROVE  Duenos = <<>> \/ (corto # "inicio" /\ Duenos = Sola(pcb.pid))
  <1> USE DEF DesalojoInv, TipoInv
  <1> DEFINE Pids(q) == [i \in DOMAIN q |-> recibir_pcb(q[i].campos).pid]
             enCpu == IF tengo_pcb \/ cpu = "enviar" THEN <<pcb_actual.pid>> ELSE <<>>
             enCorto == IF corto = "atender" THEN <<pcb.pid>> ELSE <<>>
  <1>1. Duenos = Pids(dispatch) \o Pids(respuesta) \o enCpu \o enCorto
    BY DEF Duenos
  <1>2. ASSUME NEW x
        PROVE  <<>> \o <<x>> = <<x>> /\ <<x>> \o <<>> = <<x>> /\ <<>> \o <<>> = <<>>
    <2>1. <<x>> \in Seq({x}) /\ <<>> \in Seq({x})
      OBVIOUS
    <2>2. QED
      BY <2>1, ConcatEmptySeq
  <1>3. Pids(<<>>) = <<>>
    OBVIOUS
  <1>4. ASSUME NEW q \in Pcb, NEW codigo, q.pid = pcb.pid
        PROVE  Pids(Sola(enviar_pcb(q, codigo))) = <<pcb.pid>>
    <2>1. PICK p : p = enviar_pcb(q, codigo) /\ recibir_pcb(p.campos) = q
      BY PcbViaja
    <2>2. DOMAIN Sola(p) = {1} /\ Sola(p)[1] = p
      BY DeUno
    <2>3. Pids(Sola(p)) = [i \in {1} |-> pcb.pid]
      BY <1>4, <2>1, <2>2
    <2>4. [i \in {1} |-> pcb.pid] = <<pcb.pid>>
      OBVIOUS
    <2>5. QED
      BY <2>1, <2>3, <2>4
  <1> HIDE DEF Pids
  <1>5. CASE dispatch # <<>>
    <2>1. respuesta = <<>> /\ ~EnCpu /\ corto \notin {"inicio", "atender"} /\ pcb \in Pcb
      BY <1>5 DEF DuenoInv, TipoKernel
    <2>2. Pids(dispatch) = <<pcb.pid>>
      BY <1>4, <1>5, <2>1 DEF ViajeInv
    <2>3. Pids(respuesta) = <<>> /\ enCpu = <<>> /\ enCorto = <<>>
      BY <1>3, <2>1 DEF EnCpu
    <2>4. QED
      BY <1>1, <1>2, <2>1, <2>2, <2>3 DEF Sola
  <1>6. CASE respuesta # <<>>
    <2>1. dispatch = <<>> /\ ~EnCpu /\ corto \notin {"inicio", "atender"}
      BY <1>6 DEF DuenoInv
    <2>2. Pids(respuesta) = <<pcb.pid>>
      BY <1>4, <1>6 DEF ViajeInv
    <2>3. Pids(dispatch) = <<>> /\ enCpu = <<>> /\ enCorto = <<>>
      BY <1>3, <2>1 DEF EnCpu
    <2>4. QED
      BY <1>1, <1>2, <2>1, <2>2, <2>3 DEF Sola
  <1>7. CASE dispatch = <<>> /\ respuesta = <<>>
    <2>1. Pids(dispatch) = <<>> /\ Pids(respuesta) = <<>>
      BY <1>3, <1>7
    <2>2. CASE EnCpu
      <3>1. corto \notin {"inicio", "atender"} /\ pcb_actual.pid = pcb.pid
        BY <2>2 DEF DuenoInv
      <3>2. enCpu = <<pcb.pid>> /\ enCorto = <<>>
        BY <2>2, <3>1 DEF EnCpu
      <3>3. Duenos = <<>> \o <<>> \o <<pcb.pid>> \o <<>>
        BY <1>1, <2>1, <3>2
      <3>4. <<>> \o <<>> \o <<pcb.pid>> \o <<>> = <<pcb.pid>>
        BY <1>2
      <3>5. QED
        BY <3>1, <3>3, <3>4 DEF Sola
    <2>3. CASE ~EnCpu
      <3>1. enCpu = <<>>
        BY <2>3 DEF EnCpu
      <3>2. QED
        BY <1>1, <1>2, <2>1, <3>1 DEF Sola
    <2>4. QED
      BY <2>2, <2>3
  <1>8. QED
    BY <1>5, <1>6, <1>7

(***************************************************************************)
(* The PCB has one owner: on its way to the CPU, in the CPU, on its way    *)
(* back or with the scheduler, and it is of the process in EXECUTE.  The   *)
(* CPU never gives back the same PCB twice, so the scheduler never serves  *)
(* the answer of a process it did not dispatch.                            *)
(***************************************************************************)
THEOREM UnDueno == Spec => []UnSoloDueno
  <1>1. DesalojoInv => UnSoloDueno
    <2> SUFFICES ASSUME DesalojoInv PROVE UnSoloDueno
      OBVIOUS
    <2>1. Len(cola_execute) <= 1
      <3>1. cola_execute = <<>> \/ \E x \in Pcb : cola_execute = Sola(x)
        BY DEF DesalojoInv, DuenoInv
      <3>2. Len(<<>>) = 0
        OBVIOUS
      <3>3. CASE cola_execute = <<>>
        BY <3>2, <3>3
      <3>4. CASE \E x \in Pcb : cola_execute = Sola(x)
        <4>1. Len(cola_execute) = 1
          BY <3>4, DeUno
        <4>2. QED
          BY <4>1
      <3>5. QED
        BY <3>1, <3>3, <3>4
    <2>2. CASE Duenos = <<>>
      BY <2>1, <2>2 DEF UnSoloDueno
    <2>3. CASE corto # "inicio" /\ Duenos = Sola(pcb.pid)
      <3>1. Len(Duenos) = 1 /\ Duenos # <<>> /\ Duenos[1] = pcb.pid
        BY <2>3, DeUno
      <3>2. PICK x \in Pcb : sem_cpu_libre = 0 /\ x.pid = pcb.pid /\ cola_execute = Sola(x)
        BY <2>3 DEF DesalojoInv, DuenoInv
      <3>3. cola_execute # <<>> /\ Head(cola_execute).pid = Duenos[1]
        BY <3>1, <3>2, DeUno
      <3>4. QED
        BY <2>1, <3>1, <3>2, <3>3 DEF UnSoloDueno
    <2>4. QED
      BY <2>2, <2>3, DuenosPosibles
  <1>2. QED
    BY <1>1, DesalojoInvariante, PTL

(***************************************************************************)
(* What arrives is what left, in both directions: registers, counter and   *)
(* request, with or without accesses to memory (pcb.c).                    *)
(***************************************************************************)
THEOREM PcbSinCambios == Spec => []PcbFiel
  <1>1. DesalojoInv => PcbFiel
    <2> SUFFICES ASSUME DesalojoInv PROVE PcbFiel
      OBVIOUS
    <2> USE DEF DesalojoInv, TipoInv
    <2>1. ASSUME NEW i \in DOMAIN dispatch
          PROVE  recibir_pcb(dispatch[i].campos) = pcb
      <3>1. dispatch # <<>>
        OBVIOUS
      <3>2. dispatch = Sola(enviar_pcb(pcb, "DISPATCH_PROCESO")) /\ pcb \in Pcb
        BY <3>1 DEF ViajeInv, DuenoInv, TipoKernel
      <3>3. dispatch[i] = enviar_pcb(pcb, "DISPATCH_PROCESO")
        BY <3>2, DeUno
      <3>4. QED
        BY <3>2, <3>3, PcbViaja
    <2>2. ASSUME NEW i \in DOMAIN respuesta
          PROVE  pcb_actual = IF respuesta[i].codigo = "OUT_OF_MEMORY"
                              THEN siguiente_pc(recibir_pcb(respuesta[i].campos))
                              ELSE recibir_pcb(respuesta[i].campos)
      <3>1. respuesta # <<>>
        OBVIOUS
      <3>2. PICK q \in Pcb, codigo \in Codigos :
              /\ respuesta = Sola(enviar_pcb(q, codigo))
              /\ pcb_actual = IF codigo = "OUT_OF_MEMORY" THEN siguiente_pc(q) ELSE q
        BY <3>1 DEF ViajeInv
      <3>3. respuesta[i] = enviar_pcb(q, codigo)
        BY <3>2, DeUno
      <3>4. recibir_pcb(respuesta[i].campos) = q
        BY <3>3, PcbViaja
      <3>5. respuesta[i].codigo = codigo
        BY <3>3 DEF enviar_pcb, Paquete
      <3>6. QED
        BY <3>2, <3>4, <3>5
    <2>3. QED
      BY <2>1, <2>2 DEF PcbFiel
  <1>2. QED
    BY <1>1, DesalojoInvariante, PTL

-----------------------------------------------------------------------------
(***************************************************************************)
(* Interruptions are counted: what UnDesalojoPorInterrupcion says with a   *)
(* cardinality, as a sum.                                                  *)
(***************************************************************************)
CuentaInv ==
  /\ aceptadas \in Int
  /\ aceptadas >= 0
  /\ INTERRUPTION_FLAG => aceptadas >= 1
  /\ cpu = "enviar" => aceptadas >= 1
  /\ INTERRUPTION_FLAG /\ cpu = "enviar" => aceptadas >= 2

LEMMA CuentaPaso ==
  ASSUME CuentaInv, [Next]_vars
  PROVE  CuentaInv'
  <1>1. ASSUME UNCHANGED interVars, cpu' # "enviar" \/ cpu' = cpu
        PROVE  CuentaInv'
    BY <1>1 DEF CuentaInv, interVars
  <1>2. CASE Kernel \/ FinalizarEnEjecucion \/ (\E h \in hilos : VenceQuantum(h))
               \/ (\E p \in bloqueados : Desbloquear(p)) \/ UNCHANGED vars
    BY <1>1, <1>2 DEF Kernel, CortoDespacha, CrearHiloQuantum, CortoRecibe, CortoAtiende,
       FinalizarEnEjecucion, VenceQuantum, Desbloquear, vars, cpuVars
  <1>3. CASE CpuRecibe \/ Ejecutar \/ CpuSuelta \/ CpuFetchFalla \/ InterrupcionSinPcb
    BY <1>1, <1>3 DEF CpuRecibe, Ejecutar, CpuEjecuta, CpuJNZ, CpuSinMemoria, CpuDesaloja,
       CpuTermina, Instruccion, CpuSuelta, CpuFetchFalla, InterrupcionSinPcb
  <1>4. CASE CheckInterrupt
    BY <1>4 DEF CheckInterrupt, CuentaInv
  <1>5. CASE CpuEnviaInterrumpido
    BY <1>5 DEF CpuEnviaInterrumpido, CuentaInv
  <1>6. CASE InterrupcionLlega
    BY <1>6 DEF InterrupcionLlega, CuentaInv, cpuVars
  <1>7. CASE InterrupcionMotivo
    BY <1>7 DEF InterrupcionMotivo, CuentaInv, cpuVars
  <1>8. QED
    BY <1>2, <1>3, <1>4, <1>5, <1>6, <1>7 DEF Next, Cpu, Interrupciones

(***************************************************************************)
(* No more processes leave the CPU interrupted than interruptions were     *)
(* accepted, though the flag, its reason and the PCB are written by two    *)
(* threads without a lock (conexion.c:125, 137; checkInterrupt.c:4).       *)
(***************************************************************************)
THEOREM UnDesalojo == Spec => []UnDesalojoPorInterrupcion
  <1>1. Init => CuentaInv
    BY DEF Init, CuentaInv
  <1>2. CuentaInv /\ [Next]_vars => CuentaInv'
    BY CuentaPaso
  <1>3. CuentaInv => UnDesalojoPorInterrupcion
    <2> SUFFICES ASSUME CuentaInv PROVE UnDesalojoPorInterrupcion
      OBVIOUS
    <2> DEFINE Ocupados == {x \in {"flag", "enviar"} : \/ x = "flag" /\ INTERRUPTION_FLAG
                                                       \/ x = "enviar" /\ cpu = "enviar"}
    <2>1. /\ Cardinality({}) = 0
          /\ Cardinality({"flag"}) = 1 /\ Cardinality({"enviar"}) = 1
          /\ Cardinality({"flag", "enviar"}) = 2
      <3>1. IsFiniteSet({"flag"}) /\ Cardinality({"flag"}) = 1 /\ Cardinality({"enviar"}) = 1
        BY FS_Singleton
      <3>2. Cardinality({"flag"} \cup {"enviar"}) = Cardinality({"flag"}) + 1
        BY <3>1, FS_AddElement
      <3>3. {"flag"} \cup {"enviar"} = {"flag", "enviar"}
        OBVIOUS
      <3>4. QED
        BY <3>1, <3>2, <3>3, FS_EmptySet
    <2>2. CASE INTERRUPTION_FLAG /\ cpu = "enviar"
      <3>1. Ocupados = {"flag", "enviar"}
        BY <2>2
      <3>2. QED
        BY <2>1, <2>2, <3>1 DEF UnDesalojoPorInterrupcion, CuentaInv
    <2>3. CASE INTERRUPTION_FLAG /\ cpu # "enviar"
      <3>1. Ocupados = {"flag"}
        BY <2>3
      <3>2. QED
        BY <2>1, <2>3, <3>1 DEF UnDesalojoPorInterrupcion, CuentaInv
    <2>4. CASE ~INTERRUPTION_FLAG /\ cpu = "enviar"
      <3>1. Ocupados = {"enviar"}
        BY <2>4
      <3>2. QED
        BY <2>1, <2>4, <3>1 DEF UnDesalojoPorInterrupcion, CuentaInv
    <2>5. CASE ~INTERRUPTION_FLAG /\ cpu # "enviar"
      <3>1. Ocupados = {}
        BY <2>5
      <3>2. QED
        BY <2>1, <2>5, <3>1 DEF UnDesalojoPorInterrupcion, CuentaInv
    <2>6. QED
      BY <2>2, <2>3, <2>4, <2>5
  <1>4. QED
    BY <1>1, <1>2, <1>3, PTL DEF Spec
=============================================================================
