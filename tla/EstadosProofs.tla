--------------------------- MODULE EstadosProofs ---------------------------
(***************************************************************************)
(* What the states, the queues and the instances of the kernel owe each    *)
(* other, proved for every number of processes, interfaces and resources   *)
(* and every scheduling algorithm.                                         *)
(*                                                                         *)
(* First, while the console does not run FINALIZAR_PROCESO (the one        *)
(* operation that leaves a thread holding a process somebody else has      *)
(* moved) and until two threads meet in a list with no lock in common      *)
(* (SinCarreras).  The inductive invariant, EstadosInv, says for each      *)
(* state of the PCB which queue, or which thread between two queues, has   *)
(* the process, and that it is there once.  From it follow the state each  *)
(* queue implies, the diagram of states, what a process in EXIT may still  *)
(* hold, and the balance of the multiprogramming degree.                   *)
(*                                                                         *)
(* Then with FINALIZAR_PROCESO.  EstadosInv is false there; what remains,  *)
(* VidaInv, is that a process which may still run lives in one place, even *)
(* in a spoilt list, and PrestamoInv draws from it that no instance of a   *)
(* resource is lost until a list is spoilt.                                *)
(***************************************************************************)
EXTENDS KernelProofs, FiniteSetTheorems

\* The processes of a queue, and a queue that has each of them once.
EnCola(q) == ToSet(q)

SinRepetir(q) == IsInjective(q)

\* The process a thread has taken out of one queue and not yet put in the next.
LargoTiene(p) == largo.pc = "push_ready" /\ largo.pcb = p

CortoTiene(p) == corto.pc = "despachar" /\ corto.pcb = p

\* The short-term scheduler has a process in EXECUTE, or has popped it from
\* EXECUTE and not yet placed it.
PcsEjecuta == {"respuesta", "puerta_respuesta", "atender", "wait_recurso",
               "a_ready", "validar", "a_io", "a_espera", "exit"}

Ejecuta(p) == corto.pc \in PcsEjecuta /\ corto.pcb = p

\* A process is NEW exactly while it is in the queue NEW or in the hands of the
\* long-term scheduler.
NuevosInv ==
  /\ SinRepetir(cola.new)
  /\ \A p \in Procesos :
       /\ p \in EnCola(cola.new) <=> estado[p] = "NEW" /\ ~LargoTiene(p)
       /\ LargoTiene(p) => estado[p] = "NEW"

\* The same of the two READY queues and the short-term scheduler,
ListosInv ==
  /\ SinRepetir(cola.ready) /\ SinRepetir(cola.readyVRR)
  /\ \A p \in Procesos :
       /\ p \in EnCola(cola.ready) <=> estado[p] = "READY" /\ ~CortoTiene(p)
       /\ p \in EnCola(cola.readyVRR) <=> estado[p] = "READY_PRIORIDAD" /\ ~CortoTiene(p)
       /\ CortoTiene(p) => estado[p] \in {"READY", "READY_PRIORIDAD"}

\* of EXECUTE,
EjecutaInv == \A p \in Procesos : estado[p] = "EXECUTE" <=> Ejecuta(p)

\* of EXIT,
SalidosInv ==
  /\ SinRepetir(cola.exit)
  /\ \A p \in Procesos : p \in EnCola(cola.exit) <=> estado[p] = "EXIT"

\* and of the identifiers iniciar_proceso has not given yet.
CreadosInv == \A p \in Procesos : p >= pcb_counter => estado[p] = "NO_CREADO"

\* What a process can be blocked on: the queue, the process its thread has
\* popped from the queue to unblock it, and both.
Esperas == Interfaces \cup Recursos

Fila(x) == IF x \in Interfaces THEN conexion[x].cola_espera
                               ELSE recurso[x].procesos_en_espera

Mano(x) == IF x \in Interfaces
           THEN IF hilo_io[x].pc = "push_ready" THEN {hilo_io[x].pcb} ELSE {}
           ELSE IF hilo_recurso[x].pc = "push_ready" THEN {hilo_recurso[x].pcb} ELSE {}

Esperan(x) == EnCola(Fila(x)) \cup Mano(x)

\* A queue of waiting processes repeats none, nor the one in the thread's hands;
FilasInv ==
  \A x \in Esperas :
    /\ SinRepetir(Fila(x))
    /\ EnCola(Fila(x)) \cap Mano(x) = {}

\* a process is BLOCKED exactly while some queue or thread has it, and only one;
BloqueadosInv ==
  /\ \A p \in Procesos : estado[p] = "BLOCKED" <=> \E x \in Esperas : p \in Esperan(x)
  /\ \A x, y \in Esperas : x # y => Esperan(x) \cap Esperan(y) = {}

\* and the thread of an interface serves the process at the head of its queue.
AtendidoInv ==
  \A i \in Interfaces :
    hilo_io[i].pc \in {"respuesta", "puerta", "pop_espera"}
      => hilo_io[i].pcb = Head(conexion[i].cola_espera)

\* The inductive invariant.
EstadosInv ==
  /\ NuevosInv /\ ListosInv /\ EjecutaInv /\ SalidosInv /\ CreadosInv
  /\ FilasInv /\ BloqueadosInv /\ AtendidoInv

\* push_cola_exit gives back what the process holds after it is in EXIT, and
\* nobody gives it anything in between or afterwards.
EnSalida(p) == corto.pc = "exit_recursos" /\ corto.pcb = p

SinRetener ==
  \A p \in Procesos, r \in Recursos :
    estado[p] = "EXIT" => recurso[r].PIDs[p] = 0 \/ EnSalida(p)

-----------------------------------------------------------------------------
(***************************************************************************)
(* Queues of processes, as sets.                                           *)
(***************************************************************************)
LEMMA ColaVacia == EnCola(<<>>) = {} /\ SinRepetir(<<>>)
  BY EmptySeq DEF EnCola, SinRepetir, ToSet, IsInjective

LEMMA EnColaTipo ==
  ASSUME NEW q \in Seq(Procesos)
  PROVE  EnCola(q) \subseteq Procesos
  BY LenProperties DEF EnCola, ToSet

\* A push adds one process, and repeats none if it was not there.
LEMMA Encolar ==
  ASSUME NEW q \in Seq(Procesos), NEW p \in Procesos
  PROVE  /\ EnCola(Append(q, p)) = EnCola(q) \cup {p}
         /\ SinRepetir(q) /\ p \notin EnCola(q) => SinRepetir(Append(q, p))
  <1>1. /\ Len(q) \in Nat /\ DOMAIN q = 1 .. Len(q)
        /\ DOMAIN Append(q, p) = 1 .. Len(q) + 1
        /\ \A k \in 1 .. Len(q) : Append(q, p)[k] = q[k]
        /\ Append(q, p)[Len(q) + 1] = p
    BY AppendProperties, LenProperties
  <1>2. EnCola(Append(q, p)) = EnCola(q) \cup {p}
    <2>1. EnCola(Append(q, p)) \subseteq EnCola(q) \cup {p}
      BY <1>1 DEF EnCola, ToSet
    <2>2. EnCola(q) \subseteq EnCola(Append(q, p))
      BY <1>1 DEF EnCola, ToSet
    <2>3. p \in EnCola(Append(q, p))
      BY <1>1 DEF EnCola, ToSet
    <2>4. QED
      BY <2>1, <2>2, <2>3
  <1>3. ASSUME SinRepetir(q), p \notin EnCola(q)
        PROVE  SinRepetir(Append(q, p))
    <2>1. \A k \in 1 .. Len(q) : q[k] # p
      BY <1>1, <1>3 DEF EnCola, ToSet
    <2>2. QED
      BY <1>1, <1>3, <2>1 DEF SinRepetir, IsInjective
  <1>4. QED
    BY <1>2, <1>3

\* A pop takes the process at the head, and it is not left anywhere else.
LEMMA Desencolar ==
  ASSUME NEW q \in Seq(Procesos), q # <<>>, SinRepetir(q)
  PROVE  /\ Head(q) \in EnCola(q) /\ Head(q) \in Procesos
         /\ EnCola(Tail(q)) = EnCola(q) \ {Head(q)}
         /\ SinRepetir(Tail(q))
  <1>1. /\ Len(q) \in Nat /\ Len(q) > 0 /\ DOMAIN q = 1 .. Len(q)
        /\ DOMAIN Tail(q) = 1 .. Len(q) - 1
        /\ \A k \in 1 .. Len(q) - 1 : Tail(q)[k] = q[k + 1]
        /\ Head(q) = q[1]
    BY HeadTailProperties, LenProperties, EmptySeq
  <1>2. Head(q) \in EnCola(q) /\ Head(q) \in Procesos
    BY <1>1, HeadTailProperties DEF EnCola, ToSet
  <1>3. SinRepetir(Tail(q))
    BY <1>1 DEF SinRepetir, IsInjective
  <1>4. Head(q) \notin EnCola(Tail(q))
    BY <1>1 DEF EnCola, ToSet, SinRepetir, IsInjective
  <1>5. EnCola(Tail(q)) \subseteq EnCola(q)
    BY <1>1 DEF EnCola, ToSet
  <1>6. ASSUME NEW p \in EnCola(q), p # Head(q)
        PROVE  p \in EnCola(Tail(q))
    <2>1. PICK k \in 1 .. Len(q) : q[k] = p
      BY <1>1 DEF EnCola, ToSet
    <2>2. k # 1
      BY <1>1, <1>6, <2>1
    <2>3. k - 1 \in 1 .. Len(q) - 1 /\ Tail(q)[k - 1] = p
      BY <1>1, <2>1, <2>2
    <2>4. QED
      BY <1>1, <2>3 DEF EnCola, ToSet
  <1>7. QED
    BY <1>2, <1>3, <1>4, <1>5, <1>6

-----------------------------------------------------------------------------
(***************************************************************************)
(* What a step must leave alone to keep each part of the invariant.        *)
(***************************************************************************)
LEMMA NuevosQuietos ==
  ASSUME NuevosInv, cola'.new = cola.new,
         \A p \in Procesos : /\ LargoTiene(p)' <=> LargoTiene(p)
                             /\ estado'[p] = "NEW" <=> estado[p] = "NEW"
  PROVE  NuevosInv'
  BY DEF NuevosInv

LEMMA ListosQuietos ==
  ASSUME ListosInv, cola'.ready = cola.ready, cola'.readyVRR = cola.readyVRR,
         \A p \in Procesos :
           /\ CortoTiene(p)' <=> CortoTiene(p)
           /\ estado'[p] = "READY" <=> estado[p] = "READY"
           /\ estado'[p] = "READY_PRIORIDAD" <=> estado[p] = "READY_PRIORIDAD"
  PROVE  ListosInv'
  BY DEF ListosInv

LEMMA EjecutaQuieta ==
  ASSUME EjecutaInv,
         \A p \in Procesos : /\ Ejecuta(p)' <=> Ejecuta(p)
                             /\ estado'[p] = "EXECUTE" <=> estado[p] = "EXECUTE"
  PROVE  EjecutaInv'
  BY DEF EjecutaInv

LEMMA SalidosQuietos ==
  ASSUME SalidosInv, cola'.exit = cola.exit,
         \A p \in Procesos : estado'[p] = "EXIT" <=> estado[p] = "EXIT"
  PROVE  SalidosInv'
  BY DEF SalidosInv

LEMMA CreadosQuietos ==
  ASSUME CreadosInv, pcb_counter' = pcb_counter,
         \A p \in Procesos : estado[p] = "NO_CREADO" => estado'[p] = "NO_CREADO"
  PROVE  CreadosInv'
  BY DEF CreadosInv

LEMMA EsperasQuedan ==
  ASSUME FilasInv, BloqueadosInv,
         \A x \in Esperas : Fila(x)' = Fila(x) /\ Mano(x)' = Mano(x),
         \A p \in Procesos : estado'[p] = "BLOCKED" <=> estado[p] = "BLOCKED"
  PROVE  FilasInv' /\ BloqueadosInv'
  <1>1. \A x \in Esperas : Esperan(x)' = Esperan(x)
    BY DEF Esperan
  <1>2. FilasInv'
    BY DEF FilasInv
  <1>3. BloqueadosInv'
    BY <1>1 DEF BloqueadosInv
  <1>4. QED
    BY <1>2, <1>3

\* The queues of interfaces and resources, and who the threads hold.
LEMMA FilaIgual ==
  ASSUME NEW x \in Esperas,
         x \in Interfaces => conexion'[x].cola_espera = conexion[x].cola_espera,
         x \in Recursos => recurso'[x].procesos_en_espera = recurso[x].procesos_en_espera
  PROVE  Fila(x)' = Fila(x)
  BY DEF Fila, Esperas

LEMMA ManoIgual ==
  ASSUME NEW x \in Esperas,
         x \in Interfaces =>
           \/ hilo_io'[x] = hilo_io[x]
           \/ hilo_io[x].pc # "push_ready" /\ hilo_io'[x].pc # "push_ready",
         x \in Recursos =>
           \/ hilo_recurso'[x] = hilo_recurso[x]
           \/ hilo_recurso[x].pc # "push_ready" /\ hilo_recurso'[x].pc # "push_ready"
  PROVE  Mano(x)' = Mano(x)
  BY DEF Mano, Esperas

\* A step that moves nobody.
LEMMA NadieSeMueve ==
  ASSUME EstadosInv, UNCHANGED <<estado, pcb_counter>>,
         cola'.new = cola.new, cola'.ready = cola.ready, cola'.readyVRR = cola.readyVRR,
         cola'.exit = cola.exit,
         \A p \in Procesos : /\ LargoTiene(p)' <=> LargoTiene(p)
                             /\ CortoTiene(p)' <=> CortoTiene(p)
                             /\ Ejecuta(p)' <=> Ejecuta(p),
         \A x \in Esperas : Fila(x)' = Fila(x) /\ Mano(x)' = Mano(x),
         AtendidoInv'
  PROVE  EstadosInv'
  BY NuevosQuietos, ListosQuietos, EjecutaQuieta, SalidosQuietos, CreadosQuietos,
     EsperasQuedan DEF EstadosInv

-----------------------------------------------------------------------------
(***************************************************************************)
(* What the moves do.                                                      *)
(***************************************************************************)
\* A process enters the queue of an interface or a resource.
LEMMA EntraEnEspera ==
  ASSUME FilasInv, BloqueadosInv, TipoEstado, NEW x \in Esperas, NEW p \in Procesos,
         Fila(x) \in Seq(Procesos), Fila(x)' = Append(Fila(x), p),
         \A y \in Esperas \ {x} : Fila(y)' = Fila(y),
         \A y \in Esperas : Mano(y)' = Mano(y),
         estado[p] # "BLOCKED", estado' = [estado EXCEPT ![p] = "BLOCKED"]
  PROVE  FilasInv' /\ BloqueadosInv'
  <1>1. \A y \in Esperas : p \notin Esperan(y)
    BY DEF BloqueadosInv
  <1>2. /\ Esperan(x)' = Esperan(x) \cup {p}
        /\ \A y \in Esperas \ {x} : Esperan(y)' = Esperan(y)
    BY Encolar DEF Esperan
  <1>3. FilasInv'
    <2>1. SinRepetir(Fila(x)') /\ EnCola(Fila(x)') \cap Mano(x)' = {}
      BY <1>1, Encolar DEF FilasInv, Esperan
    <2>2. QED
      BY <2>1 DEF FilasInv
  <1>4. BloqueadosInv'
    <2>1. \A q \in Procesos : estado'[q] = "BLOCKED" <=> q = p \/ estado[q] = "BLOCKED"
      BY DEF TipoEstado
    <2>2. \A q \in Procesos : (estado[q] = "BLOCKED" <=> \E y \in Esperas : q \in Esperan(y))'
      BY <1>2, <2>1 DEF BloqueadosInv
    <2>3. ASSUME NEW y \in Esperas, NEW z \in Esperas, y # z
          PROVE  Esperan(y)' \cap Esperan(z)' = {}
      <3>1. Esperan(y) \cap Esperan(z) = {} /\ p \notin Esperan(y) /\ p \notin Esperan(z)
        BY <1>1, <2>3 DEF BloqueadosInv
      <3>2. \/ y # x /\ z # x
            \/ y = x /\ z # x
            \/ y # x /\ z = x
        BY <2>3
      <3>3. QED
        BY <1>2, <3>1, <3>2
    <2>4. QED
      BY <2>2, <2>3 DEF BloqueadosInv
  <1>5. QED
    BY <1>3, <1>4

\* The thread of an interface or a resource pops the process at the head.
LEMMA SaleDeFila ==
  ASSUME FilasInv, BloqueadosInv, NEW x \in Esperas,
         Fila(x) \in Seq(Procesos), Fila(x) # <<>>, Fila(x)' = Tail(Fila(x)),
         Mano(x) = {}, Mano(x)' = {Head(Fila(x))},
         \A y \in Esperas \ {x} : Fila(y)' = Fila(y) /\ Mano(y)' = Mano(y),
         UNCHANGED estado
  PROVE  FilasInv' /\ BloqueadosInv'
  <1>1. /\ Head(Fila(x)) \in EnCola(Fila(x))
        /\ EnCola(Fila(x)') = EnCola(Fila(x)) \ {Head(Fila(x))}
        /\ SinRepetir(Fila(x)')
    BY Desencolar DEF FilasInv
  <1>2. \A y \in Esperas : Esperan(y)' = Esperan(y)
    <2>1. Esperan(x)' = Esperan(x)
      BY <1>1 DEF Esperan
    <2>2. \A y \in Esperas \ {x} : Esperan(y)' = Esperan(y)
      BY DEF Esperan
    <2>3. QED
      BY <2>1, <2>2
  <1>3. FilasInv'
    BY <1>1 DEF FilasInv
  <1>4. BloqueadosInv'
    BY <1>2 DEF BloqueadosInv
  <1>5. QED
    BY <1>3, <1>4

\* The thread gives the process it popped to another queue.
LEMMA SaleDeEspera ==
  ASSUME FilasInv, BloqueadosInv, TipoEstado, NEW x \in Esperas, NEW p \in Procesos,
         Mano(x) = {p}, Mano(x)' = {},
         \A y \in Esperas \ {x} : Mano(y)' = Mano(y),
         \A y \in Esperas : Fila(y)' = Fila(y),
         NEW s, s # "BLOCKED", estado' = [estado EXCEPT ![p] = s]
  PROVE  FilasInv' /\ BloqueadosInv'
  <1>1. p \notin EnCola(Fila(x))
    BY DEF FilasInv
  <1>2. \A y \in Esperas \ {x} : p \notin Esperan(y)
    BY DEF BloqueadosInv, Esperan
  <1>3. \A y \in Esperas : Esperan(y)' = Esperan(y) \ {p}
    BY <1>1, <1>2 DEF Esperan
  <1>4. FilasInv'
    BY DEF FilasInv
  <1>5. BloqueadosInv'
    <2>1. \A q \in Procesos : estado'[q] = "BLOCKED" <=> q # p /\ estado[q] = "BLOCKED"
      BY DEF TipoEstado
    <2>2. QED
      BY <1>3, <2>1 DEF BloqueadosInv
  <1>6. QED
    BY <1>4, <1>5

\* Whoever enters READY, and from where.
LEMMA EntraEnReady ==
  ASSUME TipoCola, TipoEstado, ListosInv, NEW p \in Procesos, push_cola_ready(p),
         estado[p] \notin {"READY", "READY_PRIORIDAD"},
         \A q \in Procesos : CortoTiene(q)' <=> CortoTiene(q)
  PROVE  ListosInv'
  <1>1. /\ cola'.ready = Append(cola.ready, p) /\ cola'.readyVRR = cola.readyVRR
        /\ cola.ready \in Seq(Procesos)
    BY DEF push_cola_ready, TipoCola
  <1>2. /\ EnCola(cola'.ready) = EnCola(cola.ready) \cup {p}
        /\ SinRepetir(cola'.ready)
    BY <1>1, Encolar DEF ListosInv
  <1>3. \A q \in Procesos : estado'[q] = IF q = p THEN "READY" ELSE estado[q]
    BY DEF push_cola_ready, TipoEstado
  <1>4. QED
    BY <1>1, <1>2, <1>3 DEF ListosInv

LEMMA EntraEnPrioridad ==
  ASSUME TipoCola, TipoEstado, ListosInv, NEW p \in Procesos, push_cola_ready_priority(p),
         estado[p] \notin {"READY", "READY_PRIORIDAD"},
         \A q \in Procesos : CortoTiene(q)' <=> CortoTiene(q)
  PROVE  ListosInv'
  <1>1. /\ cola'.readyVRR = Append(cola.readyVRR, p) /\ cola'.ready = cola.ready
        /\ cola.readyVRR \in Seq(Procesos)
    BY DEF push_cola_ready_priority, TipoCola
  <1>2. /\ EnCola(cola'.readyVRR) = EnCola(cola.readyVRR) \cup {p}
        /\ SinRepetir(cola'.readyVRR)
    BY <1>1, Encolar DEF ListosInv
  <1>3. \A q \in Procesos : estado'[q] = IF q = p THEN "READY_PRIORIDAD" ELSE estado[q]
    BY DEF push_cola_ready_priority, TipoEstado
  <1>4. QED
    BY <1>1, <1>2, <1>3 DEF ListosInv

-----------------------------------------------------------------------------
(***************************************************************************)
(* The process an interface works for is still at the head of its queue.   *)
(***************************************************************************)
LEMMA AtendidoQuieto ==
  ASSUME AtendidoInv, UNCHANGED <<conexion, hilo_io>>
  PROVE  AtendidoInv'
  BY DEF AtendidoInv

LEMMA AtendidoEncola ==
  ASSUME IndInv, Ajustado, AtendidoInv, CortoEncolaEnIO
  PROVE  AtendidoInv'
  <1>1. CASE UNCHANGED conexion
    BY <1>1, AtendidoQuieto DEF CortoEncolaEnIO, menosCorto
  <1>2. CASE conexion' = [conexion EXCEPT ![corto.arg] = EnEsperaIO(@, corto.pcb)]
    <2> SUFFICES ASSUME NEW i \in Interfaces,
                        hilo_io[i].pc \in {"respuesta", "puerta", "pop_espera"}
                 PROVE  Head(conexion'[i].cola_espera) = Head(conexion[i].cola_espera)
      BY DEF AtendidoInv, CortoEncolaEnIO, menosCorto
    <2>1. /\ corto.pcb \in Procesos
          /\ conexion[i].cola_espera \in Seq(Procesos) /\ conexion[i].cola_espera # <<>>
      BY ColaConProceso DEF CortoEncolaEnIO, EnCorto, IndInv, TypeOK, TipoCorto,
         TipoConexion, UnaConexion
    <2>2. \/ conexion'[i].cola_espera = conexion[i].cola_espera
          \/ conexion'[i].cola_espera = Append(conexion[i].cola_espera, corto.pcb)
      BY <1>2 DEF EnEsperaIO, IndInv, TypeOK, TipoConexion
    <2>3. Head(Append(conexion[i].cola_espera, corto.pcb)) = Head(conexion[i].cola_espera)
      BY <2>1, AppendProperties, HeadTailProperties, LenProperties, EmptySeq
    <2>4. QED
      BY <2>2, <2>3
  <1>3. QED
    BY <1>1, <1>2 DEF CortoEncolaEnIO

LEMMA AtendidoIO ==
  ASSUME IndInv, AtendidoInv, NEW i \in Interfaces, ConectarIO(i) \/ HiloIO(i)
  PROVE  AtendidoInv'
  <1> USE DEF IndInv, TypeOK
  <1>1. \A j \in Interfaces \ {i} : conexion'[j] = conexion[j] /\ hilo_io'[j] = hilo_io[j]
    BY DEF TipoConexion, TipoHiloIO, ConectarIO, HiloIO, IOEsperaCliente,
       IOEnviaInstruccion, IORecibeFin, IOSeDesconecta, IOPasaPuerta, IOSacaDeEspera,
       IODesbloquea, IOVa, menosIO
  <1>2. SUFFICES ASSUME hilo_io'[i].pc \in {"respuesta", "puerta", "pop_espera"}
                 PROVE  hilo_io'[i].pcb = Head(conexion'[i].cola_espera)
    BY <1>1 DEF AtendidoInv
  <1>3. CASE IOEnviaInstruccion(i)
    BY <1>2, <1>3 DEF IOEnviaInstruccion, EnIO, IOVa, TipoHiloIO
  <1>4. CASE IORecibeFin(i) \/ IOPasaPuerta(i)
    BY <1>4 DEF IORecibeFin, IOPasaPuerta, EnIO, IOVa, TipoHiloIO, AtendidoInv
  <1>5. CASE \/ ConectarIO(i) \/ IOEsperaCliente(i) \/ IOSeDesconecta(i)
             \/ IOSacaDeEspera(i) \/ IODesbloquea(i)
    BY <1>2, <1>5 DEF ConectarIO, IOEsperaCliente, IOSeDesconecta, IOSacaDeEspera,
       IODesbloquea, IOVa, TipoHiloIO
  <1>6. QED
    BY <1>3, <1>4, <1>5 DEF HiloIO

-----------------------------------------------------------------------------
(***************************************************************************)
(* Each thread.                                                            *)
(***************************************************************************)
\* planificador_largo.c
LEMMA EstadosLargo ==
  ASSUME IndInv, EstadosInv, Largo
  PROVE  EstadosInv'
  <1> USE DEF IndInv, TypeOK
  <1>1. UNCHANGED <<corto, conexion, recurso, hilo_io, hilo_recurso, pcb_counter>>
    BY DEF Largo, LargoEsperaGrado, LargoEsperaNuevo, LargoPasaPuerta, LargoSacaDeNew,
       LargoAdmite, menosLargo, mando
  <1>2. /\ \A p \in Procesos : /\ CortoTiene(p)' <=> CortoTiene(p)
                               /\ Ejecuta(p)' <=> Ejecuta(p)
        /\ \A x \in Esperas : Fila(x)' = Fila(x) /\ Mano(x)' = Mano(x)
        /\ AtendidoInv'
    BY <1>1, FilaIgual, ManoIgual, AtendidoQuieto DEF CortoTiene, Ejecuta, EstadosInv
  <1>3. CASE \/ LargoEsperaGrado \/ LargoEsperaNuevo \/ LargoPasaPuerta
             \/ LargoSacaDeNew /\ cola.new = <<>>
    <2>1. UNCHANGED <<cola, estado>>
      BY <1>3 DEF LargoEsperaGrado, LargoEsperaNuevo, LargoPasaPuerta, LargoSacaDeNew
    <2>2. \A p \in Procesos : LargoTiene(p)' <=> LargoTiene(p)
      BY <1>3 DEF LargoEsperaGrado, LargoEsperaNuevo, LargoPasaPuerta, LargoSacaDeNew,
         LargoVa, EnLargo, LargoTiene
    <2>3. QED
      BY <1>1, <1>2, <2>1, <2>2, NadieSeMueve
  <1>4. CASE LargoSacaDeNew /\ cola.new # <<>>
    <2>1. /\ UNCHANGED estado /\ cola.new \in Seq(Procesos) /\ largo.pc = "pop_new"
          /\ cola' = [cola EXCEPT !.new = Tail(@)]
          /\ largo'.pc = "push_ready" /\ largo'.pcb = Head(cola.new)
      BY <1>4 DEF LargoSacaDeNew, TipoCola, LargoVa, EnLargo
    <2>2. /\ cola'.new = Tail(cola.new) /\ cola'.ready = cola.ready
          /\ cola'.readyVRR = cola.readyVRR /\ cola'.exit = cola.exit
      BY <2>1 DEF TipoCola
    <2>3. /\ Head(cola.new) \in EnCola(cola.new)
          /\ EnCola(cola'.new) = EnCola(cola.new) \ {Head(cola.new)}
          /\ SinRepetir(cola'.new)
      BY <1>4, <2>1, <2>2, Desencolar DEF EstadosInv, NuevosInv
    <2>4. NuevosInv'
      BY <2>1, <2>3 DEF EstadosInv, NuevosInv, LargoTiene
    <2>5. QED
      BY <1>1, <1>2, <2>1, <2>2, <2>4, ListosQuietos, EjecutaQuieta, SalidosQuietos,
         CreadosQuietos, EsperasQuedan DEF EstadosInv
  <1>5. CASE LargoAdmite
    <2>1. /\ largo.pc = "push_ready" /\ largo'.pc = "sem_grado" /\ largo.pcb \in Procesos
          /\ push_cola_ready(largo.pcb)
      BY <1>5 DEF LargoAdmite, EnLargo, LargoVa, TipoLargo
    <2>2. estado[largo.pcb] = "NEW" /\ largo.pcb \notin EnCola(cola.new)
      BY <2>1 DEF EstadosInv, NuevosInv, LargoTiene
    <2>3. /\ cola'.new = cola.new /\ cola'.exit = cola.exit
          /\ \A p \in Procesos :
               estado'[p] = IF p = largo.pcb THEN "READY" ELSE estado[p]
      BY <2>1 DEF push_cola_ready, TipoCola, TipoEstado
    <2>4. NuevosInv'
      BY <2>1, <2>2, <2>3 DEF EstadosInv, NuevosInv, LargoTiene
    <2>5. ListosInv'
      BY <1>2, <2>1, <2>2, EntraEnReady DEF EstadosInv
    <2>6. EjecutaInv' /\ SalidosInv' /\ CreadosInv'
      BY <1>1, <1>2, <2>2, <2>3, EjecutaQuieta, SalidosQuietos, CreadosQuietos
         DEF EstadosInv
    <2>7. FilasInv' /\ BloqueadosInv'
      BY <1>2, <2>2, <2>3, EsperasQuedan DEF EstadosInv
    <2>8. QED
      BY <1>2, <2>4, <2>5, <2>6, <2>7 DEF EstadosInv
  <1>6. QED
    BY <1>3, <1>4, <1>5 DEF Largo

\* planificador_corto.c: the actions that move no process between queues
\* other than EXECUTE.
LEMMA EstadosCortoQuieto ==
  ASSUME IndInv, EstadosInv,
         \/ CortoEsperaListo \/ CortoEsperaCpu \/ CortoPasaPuerta \/ CortoRecibe
         \/ CortoPasaPuertaRespuesta \/ CortoAtiendeFin \/ CortoAtiendeQuantum
         \/ CortoAtiendeIO \/ CortoAtiendeSolicita \/ CortoAtiendeLibera
         \/ CortoTomaRecurso \/ CortoLiberaGrado \/ CortoReduceGrado \/ CortoLiberaCpu
         \/ CortoElige \/ CortoValidaIO \/ CortoLiberaRecursos \/ CortoSeCuelga
  PROVE  EstadosInv'
  <1> USE DEF IndInv, TypeOK
  <1>1. UNCHANGED <<estado, pcb_counter, largo, conexion, hilo_io, hilo_recurso>>
    BY DEF CortoEsperaListo, CortoEsperaCpu, CortoPasaPuerta, CortoRecibe,
       CortoPasaPuertaRespuesta, CortoAtiendeFin, CortoAtiendeQuantum, CortoAtiendeIO,
       CortoAtiendeSolicita, CortoAtiendeLibera, CortoTomaRecurso, CortoLiberaGrado,
       CortoReduceGrado, CortoLiberaCpu, CortoElige, CortoValidaIO, CortoLiberaRecursos,
       CortoSeCuelga, menosCorto, mando
  <1>2. /\ cola'.new = cola.new /\ cola'.ready = cola.ready
        /\ cola'.readyVRR = cola.readyVRR /\ cola'.exit = cola.exit
    BY DEF CortoEsperaListo, CortoEsperaCpu, CortoPasaPuerta, CortoRecibe,
       CortoPasaPuertaRespuesta, CortoAtiendeFin, CortoAtiendeQuantum, CortoAtiendeIO,
       CortoAtiendeSolicita, CortoAtiendeLibera, CortoTomaRecurso, CortoLiberaGrado,
       CortoReduceGrado, CortoLiberaCpu, CortoElige, CortoValidaIO, CortoLiberaRecursos,
       CortoSeCuelga, pop_and_destroy_execute, TipoCola
  <1>3. /\ corto'.pc \in PcsEjecuta <=> corto.pc \in PcsEjecuta
        /\ corto.pc \in PcsEjecuta => corto'.pcb = corto.pcb
        /\ corto.pc # "despachar" /\ corto'.pc # "despachar"
    BY DEF CortoEsperaListo, CortoEsperaCpu, CortoPasaPuerta, CortoRecibe,
       CortoPasaPuertaRespuesta, CortoAtiendeFin, CortoAtiendeQuantum, CortoAtiendeIO,
       CortoAtiendeSolicita, CortoAtiendeLibera, CortoTomaRecurso, CortoLiberaGrado,
       CortoReduceGrado, CortoLiberaCpu, CortoElige, CortoValidaIO, CortoLiberaRecursos,
       CortoSeCuelga, EnCorto, CortoVa, TipoCorto, PcsEjecuta
  <1>4. \A p \in Procesos : /\ LargoTiene(p)' <=> LargoTiene(p)
                            /\ CortoTiene(p)' <=> CortoTiene(p)
                            /\ Ejecuta(p)' <=> Ejecuta(p)
    BY <1>1, <1>3 DEF LargoTiene, CortoTiene, Ejecuta
  <1>5. \A r \in Recursos : recurso'[r].procesos_en_espera = recurso[r].procesos_en_espera
    <2>1. CASE UNCHANGED recurso
      BY <2>1
    <2>2. CASE CortoAtiendeLibera
      BY <2>2 DEF CortoAtiendeLibera, Senalado, TipoRecurso
    <2>3. CASE CortoTomaRecurso
      BY <2>3 DEF CortoTomaRecurso, Tomado, TipoRecurso
    <2>4. CASE CortoLiberaRecursos
      BY <2>4, LiberarEsperas DEF CortoLiberaRecursos
    <2>5. QED
      BY <2>1, <2>2, <2>3, <2>4 DEF CortoEsperaListo, CortoEsperaCpu, CortoPasaPuerta, CortoRecibe,
       CortoPasaPuertaRespuesta, CortoAtiendeFin, CortoAtiendeQuantum, CortoAtiendeIO,
       CortoAtiendeSolicita, CortoLiberaGrado, CortoReduceGrado, CortoLiberaCpu, CortoElige,
       CortoValidaIO, CortoSeCuelga
  <1>6. \A x \in Esperas : Fila(x)' = Fila(x) /\ Mano(x)' = Mano(x)
    BY <1>1, <1>5, FilaIgual, ManoIgual
  <1>7. AtendidoInv'
    BY <1>1, AtendidoQuieto DEF EstadosInv
  <1>8. QED
    BY <1>1, <1>2, <1>4, <1>6, <1>7, NadieSeMueve

\* The pops of READY and of the priority queue.
LEMMA EstadosSacaDeReady ==
  ASSUME IndInv, EstadosInv, CortoSacaDeReady \/ CortoSacaDePrioridad
  PROVE  EstadosInv'
  <1> USE DEF IndInv, TypeOK, CortoSacaDeReady, CortoSacaDePrioridad
  <1>1. /\ UNCHANGED <<estado, pcb_counter, largo, conexion, recurso, hilo_io, hilo_recurso>>
        /\ corto.pc \in {"pop_ready", "pop_vrr"}
        /\ cola.ready \in Seq(Procesos) /\ cola.readyVRR \in Seq(Procesos)
    BY DEF CortoSacaDe, menosCorto, mando, EnCorto, TipoCola
  <1>2. /\ \A p \in Procesos : LargoTiene(p)' <=> LargoTiene(p)
        /\ \A x \in Esperas : Fila(x)' = Fila(x) /\ Mano(x)' = Mano(x)
        /\ AtendidoInv'
    BY <1>1, FilaIgual, ManoIgual, AtendidoQuieto DEF LargoTiene, EstadosInv
  <1>3. CASE UNCHANGED <<cola, corto>>
    BY <1>1, <1>2, <1>3, NadieSeMueve DEF CortoTiene, Ejecuta
  <1>4. ASSUME corto'.pc = "despachar",
               cola'.new = cola.new, cola'.exit = cola.exit
        PROVE  /\ \A p \in Procesos : Ejecuta(p)' <=> Ejecuta(p)
               /\ \A p \in Procesos : ~CortoTiene(p)
               /\ ListosInv' => EstadosInv'
    <2>1. /\ \A p \in Procesos : Ejecuta(p)' <=> Ejecuta(p)
          /\ \A p \in Procesos : ~CortoTiene(p)
      BY <1>1, <1>4 DEF Ejecuta, PcsEjecuta, CortoTiene
    <2>2. QED
      BY <1>1, <1>2, <1>4, <2>1, NuevosQuietos, EjecutaQuieta, SalidosQuietos,
         CreadosQuietos, EsperasQuedan DEF EstadosInv
  <1>5. CASE CortoSacaDePrioridad /\ cola.readyVRR # <<>>
    <2>1. /\ cola' = [cola EXCEPT !.readyVRR = Tail(@)]
          /\ corto'.pc = "despachar" /\ corto'.pcb = Head(cola.readyVRR)
      BY <1>5 DEF CortoSacaDe, TipoCola, TipoCorto
    <2>2. /\ cola'.readyVRR = Tail(cola.readyVRR) /\ cola'.ready = cola.ready
          /\ cola'.new = cola.new /\ cola'.exit = cola.exit
      BY <2>1 DEF TipoCola
    <2>3. /\ Head(cola.readyVRR) \in EnCola(cola.readyVRR)
          /\ EnCola(cola'.readyVRR) = EnCola(cola.readyVRR) \ {Head(cola.readyVRR)}
          /\ SinRepetir(cola'.readyVRR)
      BY <1>1, <1>5, <2>2, Desencolar DEF EstadosInv, ListosInv
    <2>4. ListosInv'
      BY <1>1, <1>4, <2>1, <2>2, <2>3 DEF EstadosInv, ListosInv, CortoTiene
    <2>5. QED
      BY <1>4, <2>1, <2>2, <2>4
  <1>6. CASE CortoSacaDeReady /\ cola.ready # <<>>
    <2>1. /\ cola' = [cola EXCEPT !.ready = Tail(@)]
          /\ corto'.pc = "despachar" /\ corto'.pcb = Head(cola.ready)
      BY <1>6 DEF CortoSacaDe, TipoCola, TipoCorto
    <2>2. /\ cola'.ready = Tail(cola.ready) /\ cola'.readyVRR = cola.readyVRR
          /\ cola'.new = cola.new /\ cola'.exit = cola.exit
      BY <2>1 DEF TipoCola
    <2>3. /\ Head(cola.ready) \in EnCola(cola.ready)
          /\ EnCola(cola'.ready) = EnCola(cola.ready) \ {Head(cola.ready)}
          /\ SinRepetir(cola'.ready)
      BY <1>1, <1>6, <2>2, Desencolar DEF EstadosInv, ListosInv
    <2>4. ListosInv'
      BY <1>1, <1>4, <2>1, <2>2, <2>3 DEF EstadosInv, ListosInv, CortoTiene
    <2>5. QED
      BY <1>4, <2>1, <2>2, <2>4
  <1>7. QED
    BY <1>3, <1>5, <1>6 DEF CortoSacaDe

\* The CPU gets the process that was popped.
LEMMA EstadosDespacha ==
  ASSUME IndInv, EstadosInv, CortoDespacha
  PROVE  EstadosInv'
  <1> USE DEF IndInv, TypeOK
  <1>1. /\ UNCHANGED <<pcb_counter, largo, conexion, recurso, hilo_io, hilo_recurso>>
        /\ corto.pc = "despachar" /\ corto'.pc = "respuesta" /\ corto'.pcb = corto.pcb
        /\ corto.pcb \in Procesos
    BY DEF CortoDespacha, menosCorto, mando, EnCorto, CortoVa, TipoCorto
  <1>2. /\ cola'.new = cola.new /\ cola'.ready = cola.ready
        /\ cola'.readyVRR = cola.readyVRR /\ cola'.exit = cola.exit
        /\ \A p \in Procesos : estado'[p] = IF p = corto.pcb THEN "EXECUTE" ELSE estado[p]
    BY DEF CortoDespacha, push_cola_execute, TipoCola, TipoEstado
  <1>3. estado[corto.pcb] \in {"READY", "READY_PRIORIDAD"}
    BY <1>1 DEF EstadosInv, ListosInv, CortoTiene
  <1>4. ListosInv'
    BY <1>1, <1>2 DEF EstadosInv, ListosInv, CortoTiene
  <1>5. EjecutaInv'
    BY <1>1, <1>2 DEF EstadosInv, EjecutaInv, Ejecuta, PcsEjecuta
  <1>6. NuevosInv' /\ SalidosInv' /\ CreadosInv'
    BY <1>1, <1>2, <1>3, NuevosQuietos, SalidosQuietos, CreadosQuietos
       DEF EstadosInv, LargoTiene
  <1>7. FilasInv' /\ BloqueadosInv'
    BY <1>1, <1>2, <1>3, FilaIgual, ManoIgual, EsperasQuedan DEF EstadosInv
  <1>8. QED
    BY <1>1, <1>4, <1>5, <1>6, <1>7, AtendidoQuieto DEF EstadosInv

\* The process leaves EXECUTE: to READY when its quantum ends.
LEMMA EstadosDevuelve ==
  ASSUME IndInv, EstadosInv, CortoDevuelveAReady
  PROVE  EstadosInv'
  <1> USE DEF IndInv, TypeOK
  <1>1. /\ UNCHANGED <<pcb_counter, largo, conexion, recurso, hilo_io, hilo_recurso>>
        /\ corto.pc = "a_ready" /\ corto'.pc = "post_cpu"
        /\ corto.pcb \in Procesos /\ push_cola_ready(corto.pcb)
    BY DEF CortoDevuelveAReady, menosCorto, mando, EnCorto, CortoVa, TipoCorto
  <1>2. /\ cola'.new = cola.new /\ cola'.exit = cola.exit
        /\ \A p \in Procesos : estado'[p] = IF p = corto.pcb THEN "READY" ELSE estado[p]
    BY <1>1 DEF push_cola_ready, TipoCola, TipoEstado
  <1>3. estado[corto.pcb] = "EXECUTE"
    BY <1>1 DEF EstadosInv, EjecutaInv, Ejecuta, PcsEjecuta
  <1>4. ListosInv'
    BY <1>1, <1>3, EntraEnReady DEF EstadosInv, CortoTiene
  <1>5. EjecutaInv'
    BY <1>1, <1>2 DEF EstadosInv, EjecutaInv, Ejecuta, PcsEjecuta
  <1>6. NuevosInv' /\ SalidosInv' /\ CreadosInv'
    BY <1>1, <1>2, <1>3, NuevosQuietos, SalidosQuietos, CreadosQuietos
       DEF EstadosInv, LargoTiene
  <1>7. FilasInv' /\ BloqueadosInv'
    BY <1>1, <1>2, <1>3, FilaIgual, ManoIgual, EsperasQuedan DEF EstadosInv
  <1>8. QED
    BY <1>1, <1>4, <1>5, <1>6, <1>7, AtendidoQuieto DEF EstadosInv

\* To EXIT.
LEMMA EstadosFinaliza ==
  ASSUME IndInv, EstadosInv, CortoFinaliza
  PROVE  EstadosInv'
  <1> USE DEF IndInv, TypeOK
  <1>1. /\ UNCHANGED <<pcb_counter, largo, conexion, recurso, hilo_io, hilo_recurso>>
        /\ corto.pc = "exit" /\ corto'.pc = "exit_recursos"
        /\ corto.pcb \in Procesos /\ push_cola_exit(corto.pcb)
    BY DEF CortoFinaliza, menosCorto, mando, EnCorto, CortoVa, TipoCorto
  <1>2. /\ cola'.new = cola.new /\ cola'.ready = cola.ready
        /\ cola'.readyVRR = cola.readyVRR /\ cola'.exit = Append(cola.exit, corto.pcb)
        /\ cola.exit \in Seq(Procesos)
        /\ \A p \in Procesos : estado'[p] = IF p = corto.pcb THEN "EXIT" ELSE estado[p]
    BY <1>1 DEF push_cola_exit, TipoCola, TipoEstado
  <1>3. estado[corto.pcb] = "EXECUTE"
    BY <1>1 DEF EstadosInv, EjecutaInv, Ejecuta, PcsEjecuta
  <1>4. SalidosInv'
    <2>1. /\ EnCola(cola'.exit) = EnCola(cola.exit) \cup {corto.pcb}
          /\ SinRepetir(cola'.exit)
      BY <1>1, <1>2, <1>3, Encolar DEF EstadosInv, SalidosInv
    <2>2. QED
      BY <1>2, <2>1 DEF EstadosInv, SalidosInv
  <1>5. EjecutaInv'
    BY <1>1, <1>2 DEF EstadosInv, EjecutaInv, Ejecuta, PcsEjecuta
  <1>6. NuevosInv' /\ ListosInv' /\ CreadosInv'
    BY <1>1, <1>2, <1>3, NuevosQuietos, ListosQuietos, CreadosQuietos
       DEF EstadosInv, LargoTiene, CortoTiene
  <1>7. FilasInv' /\ BloqueadosInv'
    BY <1>1, <1>2, <1>3, FilaIgual, ManoIgual, EsperasQuedan DEF EstadosInv
  <1>8. QED
    BY <1>1, <1>4, <1>5, <1>6, <1>7, AtendidoQuieto DEF EstadosInv

\* And to the queue of an interface or of a resource.
LEMMA EstadosBloquea ==
  ASSUME IndInv, Ajustado, EstadosInv, CortoEncolaEnIO \/ CortoEncolaEnRecurso
  PROVE  EstadosInv'
  <1> USE DEF IndInv, TypeOK
  <1>1. /\ UNCHANGED <<cola, pcb_counter, largo, hilo_io, hilo_recurso>>
        /\ corto.pc \in {"a_io", "a_espera"} /\ corto.pcb \in Procesos
    BY DEF CortoEncolaEnIO, CortoEncolaEnRecurso, menosCorto, mando, EnCorto, TipoCorto
  <1>2. estado[corto.pcb] = "EXECUTE"
    BY <1>1 DEF EstadosInv, EjecutaInv, Ejecuta, PcsEjecuta
  <1>3. AtendidoInv'
    BY AtendidoEncola, AtendidoQuieto DEF EstadosInv, CortoEncolaEnRecurso, menosCorto
  <1>4. \A x \in Esperas : Mano(x)' = Mano(x)
    BY <1>1, ManoIgual
  <1>5. CASE UNCHANGED <<conexion, estado, corto>> /\ CortoEncolaEnIO
    <2>1. \A x \in Esperas : Fila(x)' = Fila(x)
      BY <1>5, FilaIgual DEF CortoEncolaEnIO
    <2>2. QED
      BY <1>1, <1>3, <1>4, <1>5, <2>1, NadieSeMueve DEF LargoTiene, CortoTiene, Ejecuta
  <1>6. CASE /\ corto'.pc = "post_cpu" /\ estado' = [estado EXCEPT ![corto.pcb] = "BLOCKED"]
             /\ \E x \in Esperas :
                  /\ Fila(x) \in Seq(Procesos) /\ Fila(x)' = Append(Fila(x), corto.pcb)
                  /\ \A y \in Esperas \ {x} : Fila(y)' = Fila(y)
    <2>1. \A p \in Procesos : estado'[p] = IF p = corto.pcb THEN "BLOCKED" ELSE estado[p]
      BY <1>6 DEF TipoEstado
    <2>2. EjecutaInv'
      BY <1>1, <1>6, <2>1 DEF EstadosInv, EjecutaInv, Ejecuta, PcsEjecuta
    <2>3. NuevosInv' /\ ListosInv' /\ SalidosInv' /\ CreadosInv'
      BY <1>1, <1>2, <1>6, <2>1, NuevosQuietos, ListosQuietos, SalidosQuietos,
         CreadosQuietos DEF EstadosInv, LargoTiene, CortoTiene
    <2>4. FilasInv' /\ BloqueadosInv'
      BY <1>1, <1>2, <1>4, <1>6, EntraEnEspera DEF EstadosInv
    <2>5. QED
      BY <1>3, <2>2, <2>3, <2>4 DEF EstadosInv
  <1>7. CASE CortoEncolaEnIO /\ corto'.pc = "post_cpu"
    <2>0. /\ corto.pc = "a_io" /\ corto.arg \in Interfaces /\ corto' # corto /\ UNCHANGED recurso
          /\ conexion' = [conexion EXCEPT ![corto.arg] = EnEsperaIO(@, corto.pcb)]
          /\ estado' = [estado EXCEPT ![corto.pcb] = "BLOCKED"]
      BY <1>7 DEF CortoEncolaEnIO, EnCorto, TipoCorto
    <2>1. PICK i \in Interfaces : i = corto.arg
      BY <2>0
    <2>2. /\ conexion[i].cola_espera \in Seq(Procesos) /\ UNCHANGED recurso
          /\ conexion'[i].cola_espera = Append(conexion[i].cola_espera, corto.pcb)
          /\ \A j \in Interfaces \ {i} : conexion'[j] = conexion[j]
      BY <2>0, <2>1 DEF EnEsperaIO, TipoConexion, UnaConexion
    <2>3. /\ i \in Esperas /\ Fila(i) \in Seq(Procesos)
          /\ Fila(i)' = Append(Fila(i), corto.pcb)
          /\ \A y \in Esperas \ {i} : Fila(y)' = Fila(y)
      BY <2>2 DEF Fila, Esperas
    <2>4. QED
      BY <1>6, <1>7, <2>0, <2>3
  <1>8. CASE CortoEncolaEnRecurso
    <2>1. PICK r \in Recursos : r = corto.arg
      BY <1>8 DEF CortoEncolaEnRecurso, EnCorto, TipoCorto
    <2>2. /\ recurso[r].procesos_en_espera \in Seq(Procesos) /\ UNCHANGED conexion
          /\ recurso'[r].procesos_en_espera
               = Append(recurso[r].procesos_en_espera, corto.pcb)
          /\ \A s \in Recursos \ {r} : recurso'[s] = recurso[s]
      BY <1>8, <2>1 DEF CortoEncolaEnRecurso, EnEspera, TipoRecurso, UnRecurso
    <2>3. /\ r \in Esperas /\ Fila(r) \in Seq(Procesos)
          /\ Fila(r)' = Append(Fila(r), corto.pcb)
          /\ \A y \in Esperas \ {r} : Fila(y)' = Fila(y)
      BY <2>2, ConstantesOK DEF Fila, Esperas
    <2>4. QED
      BY <1>6, <1>8, <2>3 DEF CortoEncolaEnRecurso, CortoVa, TipoCorto
  <1>9. QED
    BY <1>5, <1>7, <1>8 DEF CortoEncolaEnIO, CortoVa, TipoCorto

LEMMA EstadosCorto ==
  ASSUME IndInv, Ajustado, EstadosInv, Corto
  PROVE  EstadosInv'
  BY EstadosCortoQuieto, EstadosSacaDeReady, EstadosDespacha, EstadosDevuelve,
     EstadosFinaliza, EstadosBloquea DEF Corto

\* consola.c, without FINALIZAR_PROCESO: a process is created, or nobody moves.
LEMMA EstadosInicia ==
  ASSUME IndInv, EstadosInv, IniciarProceso, push_cola_new(pcb_counter)
  PROVE  EstadosInv'
  <1> USE DEF IndInv, TypeOK
  <1>1. /\ UNCHANGED <<largo, corto, conexion, recurso, hilo_io, hilo_recurso>>
        /\ pcb_counter \in Procesos /\ pcb_counter' = pcb_counter + 1
        /\ pcb_counter \in Nat
    BY DEF IniciarProceso, hilos, TipoMando
  <1>2. /\ cola'.new = Append(cola.new, pcb_counter) /\ cola.new \in Seq(Procesos)
        /\ cola'.ready = cola.ready /\ cola'.readyVRR = cola.readyVRR
        /\ cola'.exit = cola.exit
        /\ \A p \in Procesos : estado'[p] = IF p = pcb_counter THEN "NEW" ELSE estado[p]
    BY DEF push_cola_new, TipoCola, TipoEstado
  <1>3. estado[pcb_counter] = "NO_CREADO"
    BY <1>1 DEF EstadosInv, CreadosInv
  <1>4. NuevosInv'
    <2>1. /\ EnCola(cola'.new) = EnCola(cola.new) \cup {pcb_counter}
          /\ SinRepetir(cola'.new)
      BY <1>1, <1>2, <1>3, Encolar DEF EstadosInv, NuevosInv
    <2>2. \A p \in Procesos : LargoTiene(p)' <=> LargoTiene(p)
      BY <1>1 DEF LargoTiene
    <2>3. ~LargoTiene(pcb_counter)
      BY <1>1, <1>3 DEF EstadosInv, NuevosInv
    <2>4. QED
      BY <1>2, <2>1, <2>2, <2>3 DEF EstadosInv, NuevosInv
  <1>5. CreadosInv'
    <2>1. \A p \in Procesos : p \in Int
      BY DEF Procesos
    <2>2. \A p \in Procesos : p >= pcb_counter + 1 => p # pcb_counter /\ p >= pcb_counter
      BY <1>1, <2>1
    <2>3. QED
      BY <1>1, <1>2, <2>2 DEF EstadosInv, CreadosInv
  <1>6. ListosInv' /\ EjecutaInv' /\ SalidosInv'
    BY <1>1, <1>2, <1>3, ListosQuietos, EjecutaQuieta, SalidosQuietos
       DEF EstadosInv, CortoTiene, Ejecuta
  <1>7. FilasInv' /\ BloqueadosInv'
    BY <1>1, <1>2, <1>3, FilaIgual, ManoIgual, EsperasQuedan DEF EstadosInv
  <1>8. QED
    BY <1>1, <1>4, <1>5, <1>6, <1>7, AtendidoQuieto DEF EstadosInv

LEMMA EstadosConsola ==
  ASSUME "FINALIZAR_PROCESO" \notin Eventos, SinFinalizacion, IndInv, EstadosInv, Consola
  PROVE  EstadosInv'
  <1>1. CASE IniciarProceso /\ push_cola_new(pcb_counter)
    BY <1>1, EstadosInicia
  <1>2. CASE /\ UNCHANGED <<cola, estado, largo, corto, conexion, recurso, hilo_io,
                            hilo_recurso>>
             /\ pcb_counter' \in {pcb_counter, pcb_counter + 1}
    <2>1. AtendidoInv' /\ \A x \in Esperas : Fila(x)' = Fila(x) /\ Mano(x)' = Mano(x)
      BY <1>2, FilaIgual, ManoIgual, AtendidoQuieto DEF EstadosInv
    <2>2. CreadosInv'
      <3>1. \A p \in Procesos : p \in Int
        BY DEF Procesos
      <3>2. pcb_counter \in Int
        BY DEF IndInv, TypeOK, TipoMando
      <3>3. \A p \in Procesos : p >= pcb_counter' => p >= pcb_counter
        BY <1>2, <3>1, <3>2
      <3>4. QED
        BY <1>2, <3>3 DEF EstadosInv, CreadosInv
    <2>3. NuevosInv' /\ ListosInv' /\ EjecutaInv' /\ SalidosInv'
      BY <1>2, NuevosQuietos, ListosQuietos, EjecutaQuieta, SalidosQuietos
         DEF EstadosInv, LargoTiene, CortoTiene, Ejecuta
    <2>4. QED
      BY <1>2, <2>1, <2>2, <2>3, EsperasQuedan DEF EstadosInv
  <1>3. QED
    BY <1>1, <1>2, ConsolaSinFinalizar DEF IniciarProceso, DetenerPlanificacion,
       DetenerEnPausa, ReanudarPlanificacion, Multiprogramacion, hilos, menosConsola, mando

\* gestor_io.c
LEMMA EstadosIO ==
  ASSUME IndInv, Ajustado, EstadosInv, NEW i \in Interfaces, ConectarIO(i) \/ HiloIO(i)
  PROVE  EstadosInv'
  <1> USE DEF IndInv, TypeOK
  <1>1. /\ UNCHANGED <<largo, corto, recurso, hilo_recurso, pcb_counter>>
        /\ \A j \in Interfaces \ {i} : conexion'[j] = conexion[j] /\ hilo_io'[j] = hilo_io[j]
    BY DEF TipoConexion, TipoHiloIO, ConectarIO, HiloIO, IOEsperaCliente,
       IOEnviaInstruccion, IORecibeFin, IOSeDesconecta, IOPasaPuerta, IOSacaDeEspera,
       IODesbloquea, IOVa, menosIO, mando
  <1>2. /\ AtendidoInv' /\ i \in Esperas
        /\ \A p \in Procesos : /\ LargoTiene(p)' <=> LargoTiene(p)
                               /\ CortoTiene(p)' <=> CortoTiene(p)
                               /\ Ejecuta(p)' <=> Ejecuta(p)
    BY <1>1, AtendidoIO DEF LargoTiene, CortoTiene, Ejecuta, EstadosInv, Esperas
  <1>3. \A x \in Esperas \ {i} : Fila(x)' = Fila(x) /\ Mano(x)' = Mano(x)
    BY <1>1, FilaIgual, ManoIgual DEF Esperas
  <1>4. CASE \/ ConectarIO(i) \/ IOEsperaCliente(i) \/ IOEnviaInstruccion(i)
             \/ IORecibeFin(i) \/ IOSeDesconecta(i) \/ IOPasaPuerta(i)
    <2>1. UNCHANGED <<cola, estado>>
      BY <1>4 DEF ConectarIO, IOEsperaCliente, IOEnviaInstruccion, IORecibeFin,
         IOSeDesconecta, IOPasaPuerta
    <2>2. conexion'[i].cola_espera = conexion[i].cola_espera
      BY <1>4 DEF ConectarIO, IOEsperaCliente, IOEnviaInstruccion, IORecibeFin,
         IOSeDesconecta, IOPasaPuerta, TipoConexion, UnaConexion
    <2>3. hilo_io[i].pc # "push_ready" /\ hilo_io'[i].pc # "push_ready"
      BY <1>4 DEF ConectarIO, IOEsperaCliente, IOEnviaInstruccion, IORecibeFin,
         IOSeDesconecta, IOPasaPuerta, EnIO, IOVa, TipoHiloIO
    <2>4. Fila(i)' = Fila(i) /\ Mano(i)' = Mano(i)
      BY <2>2, <2>3 DEF Fila, Mano
    <2>5. QED
      BY <1>1, <1>2, <1>3, <2>1, <2>4, NadieSeMueve
  <1>5. CASE IOSacaDeEspera(i)
    <2>1. /\ conexion[i].cola_espera \in Seq(Procesos) /\ conexion[i].cola_espera # <<>>
          /\ hilo_io[i].pc = "pop_espera"
      BY <1>5, ColaConProceso DEF IOSacaDeEspera, EnIO, TipoConexion, UnaConexion
    <2>2. /\ UNCHANGED <<cola, estado>>
          /\ conexion'[i].cola_espera = Tail(conexion[i].cola_espera)
          /\ hilo_io'[i].pc = "push_ready" /\ hilo_io'[i].pcb = hilo_io[i].pcb
      BY <1>5, <2>1 DEF IOSacaDeEspera, IOVa, TipoConexion, UnaConexion, TipoHiloIO
    <2>3. hilo_io[i].pcb = Head(conexion[i].cola_espera)
      BY <2>1 DEF EstadosInv, AtendidoInv
    <2>4. /\ Fila(i) \in Seq(Procesos) /\ Fila(i) # <<>> /\ Fila(i)' = Tail(Fila(i))
          /\ Mano(i) = {} /\ Mano(i)' = {Head(Fila(i))}
      BY <2>1, <2>2, <2>3 DEF Fila, Mano
    <2>5. FilasInv' /\ BloqueadosInv'
      BY <1>2, <1>3, <2>2, <2>4, SaleDeFila DEF EstadosInv
    <2>6. NuevosInv' /\ ListosInv' /\ EjecutaInv' /\ SalidosInv' /\ CreadosInv'
      BY <1>1, <1>2, <2>2, NuevosQuietos, ListosQuietos, EjecutaQuieta, SalidosQuietos,
         CreadosQuietos DEF EstadosInv
    <2>7. QED
      BY <1>2, <2>5, <2>6 DEF EstadosInv
  <1>6. CASE IODesbloquea(i)
    <2>1. /\ hilo_io[i].pc = "push_ready" /\ hilo_io[i].pcb \in Procesos
          /\ hilo_io'[i].pc = "sem_cliente" /\ UNCHANGED conexion
          /\ \/ push_cola_ready(hilo_io[i].pcb)
             \/ push_cola_ready_priority(hilo_io[i].pcb)
      BY <1>6 DEF IODesbloquea, EnIO, IOVa, TipoHiloIO
    <2>2. PICK s \in {"READY", "READY_PRIORIDAD"} :
            estado' = [estado EXCEPT ![hilo_io[i].pcb] = s]
      BY <2>1 DEF push_cola_ready, push_cola_ready_priority
    <2>3. /\ cola'.new = cola.new /\ cola'.exit = cola.exit
          /\ \A p \in Procesos : estado'[p] = IF p = hilo_io[i].pcb THEN s ELSE estado[p]
      BY <2>1, <2>2 DEF push_cola_ready, push_cola_ready_priority, TipoCola, TipoEstado
    <2>4. Mano(i) = {hilo_io[i].pcb} /\ Mano(i)' = {} /\ Fila(i)' = Fila(i)
      BY <2>1 DEF Mano, Fila
    <2>5. estado[hilo_io[i].pcb] = "BLOCKED"
      BY <1>2, <2>1, <2>4 DEF EstadosInv, BloqueadosInv, Esperan
    <2>6. ListosInv'
      BY <1>2, <2>1, <2>5, EntraEnReady, EntraEnPrioridad DEF EstadosInv
    <2>7. FilasInv' /\ BloqueadosInv'
      <3>1. s # "BLOCKED" /\ \A y \in Esperas : Fila(y)' = Fila(y)
        BY <1>3, <2>4
      <3>2. QED
        BY <1>2, <1>3, <2>1, <2>2, <2>4, <3>1, SaleDeEspera DEF EstadosInv
    <2>8. NuevosInv' /\ EjecutaInv' /\ SalidosInv' /\ CreadosInv'
      BY <1>1, <1>2, <2>3, <2>5, NuevosQuietos, EjecutaQuieta, SalidosQuietos,
         CreadosQuietos DEF EstadosInv
    <2>9. QED
      BY <1>2, <2>6, <2>7, <2>8 DEF EstadosInv
  <1>7. QED
    BY <1>4, <1>5, <1>6 DEF HiloIO

\* recurso.c
LEMMA EstadosRecurso ==
  ASSUME IndInv, Ajustado, EstadosInv, NEW r \in Recursos, HiloRecurso(r)
  PROVE  EstadosInv'
  <1> USE DEF IndInv, TypeOK
  <1>1. /\ UNCHANGED <<largo, corto, conexion, hilo_io, pcb_counter>>
        /\ \A s \in Recursos \ {r} : /\ recurso'[s] = recurso[s]
                                     /\ hilo_recurso'[s] = hilo_recurso[s]
    BY DEF TipoRecurso, TipoHiloRecurso, HiloRecurso, RecursoEsperaCola,
       RecursoPasaPuerta, RecursoMiraEspera, RecursoTomaInstancia, RecursoSacaDeEspera,
       RecursoDesbloquea, RecursoVa, menosRecurso, mando
  <1>2. /\ AtendidoInv' /\ r \in Esperas /\ r \notin Interfaces
        /\ \A p \in Procesos : /\ LargoTiene(p)' <=> LargoTiene(p)
                               /\ CortoTiene(p)' <=> CortoTiene(p)
                               /\ Ejecuta(p)' <=> Ejecuta(p)
    BY <1>1, AtendidoQuieto, ConstantesOK
       DEF LargoTiene, CortoTiene, Ejecuta, EstadosInv, Esperas
  <1>3. \A x \in Esperas \ {r} : Fila(x)' = Fila(x) /\ Mano(x)' = Mano(x)
    BY <1>1, FilaIgual, ManoIgual DEF Esperas
  <1>4. CASE \/ RecursoEsperaCola(r) \/ RecursoPasaPuerta(r) \/ RecursoMiraEspera(r)
             \/ RecursoTomaInstancia(r)
    <2>1. UNCHANGED <<cola, estado>>
      BY <1>4 DEF RecursoEsperaCola, RecursoPasaPuerta, RecursoMiraEspera,
         RecursoTomaInstancia
    <2>2. recurso'[r].procesos_en_espera = recurso[r].procesos_en_espera
      BY <1>4 DEF RecursoEsperaCola, RecursoPasaPuerta, RecursoMiraEspera,
         RecursoTomaInstancia, Tomado, TipoRecurso, UnRecurso
    <2>3. hilo_recurso[r].pc # "push_ready" /\ hilo_recurso'[r].pc # "push_ready"
      BY <1>4 DEF RecursoEsperaCola, RecursoPasaPuerta, RecursoMiraEspera,
         RecursoTomaInstancia, EnRecurso, RecursoVa, TipoHiloRecurso
    <2>4. Fila(r)' = Fila(r) /\ Mano(r)' = Mano(r)
      BY <1>2, <2>2, <2>3 DEF Fila, Mano
    <2>5. QED
      BY <1>1, <1>2, <1>3, <2>1, <2>4, NadieSeMueve
  <1>5. CASE RecursoSacaDeEspera(r)
    <2>1. /\ recurso[r].procesos_en_espera \in Seq(Procesos)
          /\ recurso[r].procesos_en_espera # <<>> /\ hilo_recurso[r].pc = "pop_espera"
      BY <1>5, EsperaConProceso DEF RecursoSacaDeEspera, EnRecurso, TipoRecurso,
         UnRecurso
    <2>2. /\ UNCHANGED <<cola, estado>>
          /\ recurso'[r].procesos_en_espera = Tail(recurso[r].procesos_en_espera)
          /\ hilo_recurso'[r].pc = "push_ready"
          /\ hilo_recurso'[r].pcb = Head(recurso[r].procesos_en_espera)
      <3>1. /\ UNCHANGED <<cola, estado>>
            /\ RecursoVa(r, "push_ready", Head(recurso[r].procesos_en_espera))
            /\ recurso' = [recurso EXCEPT ![r].procesos_en_espera = Tail(@)]
        BY <1>5, <2>1 DEF RecursoSacaDeEspera
      <3>2. recurso'[r].procesos_en_espera = Tail(recurso[r].procesos_en_espera)
        BY <3>1 DEF TipoRecurso, UnRecurso
      <3>3. QED
        BY <3>1, <3>2 DEF RecursoVa, TipoHiloRecurso
    <2>3. /\ Fila(r) \in Seq(Procesos) /\ Fila(r) # <<>> /\ Fila(r)' = Tail(Fila(r))
          /\ Mano(r) = {} /\ Mano(r)' = {Head(Fila(r))}
      BY <1>2, <2>1, <2>2 DEF Fila, Mano
    <2>4. FilasInv' /\ BloqueadosInv'
      BY <1>2, <1>3, <2>2, <2>3, SaleDeFila DEF EstadosInv
    <2>5. NuevosInv' /\ ListosInv' /\ EjecutaInv' /\ SalidosInv' /\ CreadosInv'
      BY <1>1, <1>2, <2>2, NuevosQuietos, ListosQuietos, EjecutaQuieta, SalidosQuietos,
         CreadosQuietos DEF EstadosInv
    <2>6. QED
      BY <1>2, <2>4, <2>5 DEF EstadosInv
  <1>6. CASE RecursoDesbloquea(r)
    <2>1. /\ hilo_recurso[r].pc = "push_ready" /\ hilo_recurso[r].pcb \in Procesos
          /\ hilo_recurso'[r].pc = "en_cola" /\ UNCHANGED recurso
          /\ push_cola_ready(hilo_recurso[r].pcb)
      BY <1>6 DEF RecursoDesbloquea, EnRecurso, RecursoVa, TipoHiloRecurso
    <2>2. /\ cola'.new = cola.new /\ cola'.exit = cola.exit
          /\ estado' = [estado EXCEPT ![hilo_recurso[r].pcb] = "READY"]
          /\ \A p \in Procesos :
               estado'[p] = IF p = hilo_recurso[r].pcb THEN "READY" ELSE estado[p]
      BY <2>1 DEF push_cola_ready, TipoCola, TipoEstado
    <2>3. Mano(r) = {hilo_recurso[r].pcb} /\ Mano(r)' = {} /\ Fila(r)' = Fila(r)
      BY <1>2, <2>1 DEF Mano, Fila
    <2>4. estado[hilo_recurso[r].pcb] = "BLOCKED"
      BY <1>2, <2>1, <2>3 DEF EstadosInv, BloqueadosInv, Esperan
    <2>5. ListosInv'
      BY <1>2, <2>1, <2>4, EntraEnReady DEF EstadosInv
    <2>6. FilasInv' /\ BloqueadosInv'
      <3>1. \A y \in Esperas : Fila(y)' = Fila(y)
        BY <1>3, <2>3
      <3>2. QED
        BY <1>2, <1>3, <2>1, <2>2, <2>3, <3>1, SaleDeEspera DEF EstadosInv
    <2>7. NuevosInv' /\ EjecutaInv' /\ SalidosInv' /\ CreadosInv'
      BY <1>1, <1>2, <2>2, <2>4, NuevosQuietos, EjecutaQuieta, SalidosQuietos,
         CreadosQuietos DEF EstadosInv
    <2>8. QED
      BY <1>2, <2>5, <2>6, <2>7 DEF EstadosInv
  <1>7. QED
    BY <1>4, <1>5, <1>6 DEF HiloRecurso

LEMMA EstadosPaso ==
  ASSUME "FINALIZAR_PROCESO" \notin Eventos, IndInv, JustoInv, SinCarreras => EstadosInv,
         [Next]_vars, SinCarreras'
  PROVE  EstadosInv'
  <1>1. Ajustado /\ EstadosInv /\ (Carreras => CortoSeCuelga \/ ConsolaSeCuelga)
    BY SanaAntes DEF JustoInv
  <1>2. CASE UNCHANGED <<cola, estado, pcb_counter, conexion, recurso, largo, corto,
                         hilo_io, hilo_recurso>>
    <2>1. \A x \in Esperas : Fila(x)' = Fila(x) /\ Mano(x)' = Mano(x)
      BY <1>2, FilaIgual, ManoIgual
    <2>2. AtendidoInv'
      BY <1>1, <1>2, AtendidoQuieto DEF EstadosInv
    <2>3. QED
      BY <1>1, <1>2, <2>1, <2>2, NadieSeMueve DEF LargoTiene, CortoTiene, Ejecuta
  <1>3. CASE Carreras
    <2>1. CASE CortoSeCuelga
      BY <1>1, <2>1, EstadosCortoQuieto
    <2>2. CASE ConsolaSeCuelga
      BY <1>2, <2>2 DEF ConsolaSeCuelga, menosConsola, mando
    <2>3. QED
      BY <1>1, <1>3, <2>1, <2>2
  <1>4. CASE Next /\ ~Carreras
    BY <1>1, <1>4, EstadosLargo, EstadosCorto, EstadosConsola, EstadosIO, EstadosRecurso
       DEF Next, JustoInv
  <1>5. QED
    BY <1>2, <1>3, <1>4 DEF vars

LEMMA EstadosInicial ==
  ASSUME Init
  PROVE  EstadosInv
  <1>1. \A x \in Esperas : Fila(x) = <<>> /\ Mano(x) = {}
    BY DEF Init, Fila, Mano, Esperas
  <1>2. FilasInv /\ BloqueadosInv
    <2>1. \A x \in Esperas : Esperan(x) = {}
      BY <1>1, ColaVacia DEF Esperan
    <2>2. QED
      BY <1>1, <2>1, ColaVacia DEF FilasInv, BloqueadosInv, Init
  <1>3. NuevosInv /\ ListosInv /\ EjecutaInv /\ SalidosInv /\ CreadosInv /\ AtendidoInv
    BY ColaVacia DEF Init, NuevosInv, ListosInv, EjecutaInv, SalidosInv, CreadosInv,
       AtendidoInv, LargoTiene, CortoTiene, Ejecuta, PcsEjecuta
  <1>4. QED
    BY <1>2, <1>3 DEF EstadosInv

\* Without FINALIZAR_PROCESO, and until two threads meet in a list, the state of
\* every process says where it is.
EstadosSanos == SinCarreras => EstadosInv

THEOREM EstadosInvariante ==
  ASSUME "FINALIZAR_PROCESO" \notin Eventos
  PROVE  Spec => []EstadosSanos
  <1>1. IndInv /\ JustoInv /\ EstadosSanos /\ [Next]_vars => EstadosSanos'
    BY EstadosPaso DEF EstadosSanos
  <1>2. Init => EstadosSanos
    BY EstadosInicial DEF EstadosSanos
  <1>3. QED
    BY <1>1, <1>2, Invariante, JustoInvariante, PTL DEF Spec

-----------------------------------------------------------------------------
(***************************************************************************)
(* What the invariant says of the queues, and of the state diagram.        *)
(***************************************************************************)
LEMMA ElementoEnCola ==
  ASSUME NEW q \in Seq(Procesos), NEW k \in DOMAIN q
  PROVE  q[k] \in EnCola(q) /\ q[k] \in Procesos
  BY EnColaTipo DEF EnCola, ToSet

LEMMA EstadosBastan ==
  ASSUME IndInv, EstadosInv
  PROVE  EstadoSegunCola
  <1> USE DEF IndInv, TypeOK, TipoCola
  <1>1. \A k \in DOMAIN cola.new : estado[cola.new[k]] = "NEW"
    BY ElementoEnCola DEF EstadosInv, NuevosInv
  <1>2. \A k \in DOMAIN cola.ready : estado[cola.ready[k]] = "READY"
    BY ElementoEnCola DEF EstadosInv, ListosInv
  <1>3. \A k \in DOMAIN cola.readyVRR : estado[cola.readyVRR[k]] = "READY_PRIORIDAD"
    BY ElementoEnCola DEF EstadosInv, ListosInv
  <1>4. \A k \in DOMAIN cola.execute : estado[cola.execute[k]] = "EXECUTE"
    <2>1. CASE EjecutaEnCpu
      <3>1. cola.execute = <<corto.pcb>> /\ corto.pcb \in Procesos
        BY <2>1 DEF UnSoloProcesoEnCpu, EjecutaEnCpu, TipoCorto
      <3>2. estado[corto.pcb] = "EXECUTE"
        BY <2>1, <3>1 DEF EstadosInv, EjecutaInv, Ejecuta, PcsEjecuta, EjecutaEnCpu
      <3>3. QED
        BY <3>1, <3>2
    <2>2. CASE ~EjecutaEnCpu
      BY <2>2 DEF UnSoloProcesoEnCpu
    <2>3. QED
      BY <2>1, <2>2
  <1>5. \A k \in DOMAIN cola.exit : estado[cola.exit[k]] = "EXIT"
    BY ElementoEnCola DEF EstadosInv, SalidosInv
  <1>6. ASSUME NEW i \in Interfaces, NEW p \in ToSet(conexion[i].cola_espera)
        PROVE  estado[p] = "BLOCKED"
    <2>1. i \in Esperas /\ p \in Esperan(i)
      BY <1>6 DEF Esperas, Esperan, EnCola, Fila
    <2>2. p \in Procesos
      BY <1>6, EnColaTipo DEF EnCola, TipoConexion, UnaConexion
    <2>3. QED
      BY <2>1, <2>2 DEF EstadosInv, BloqueadosInv
  <1>7. ASSUME NEW r \in Recursos, NEW p \in ToSet(recurso[r].procesos_en_espera)
        PROVE  estado[p] = "BLOCKED"
    <2>1. r \in Esperas /\ p \in Esperan(r)
      BY <1>7, ConstantesOK DEF Esperas, Esperan, EnCola, Fila
    <2>2. p \in Procesos
      BY <1>7, EnColaTipo DEF EnCola, TipoRecurso, UnRecurso
    <2>3. QED
      BY <2>1, <2>2 DEF EstadosInv, BloqueadosInv
  <1>8. QED
    BY <1>1, <1>2, <1>3, <1>4, <1>5, <1>6, <1>7 DEF EstadoSegunCola

\* Without FINALIZAR_PROCESO, and until two threads meet in a list, what
\* PROCESO_ESTADO prints of a process agrees with the queue it is in: no thread
\* moves a process and forgets its estado.
THEOREM EstadosConCola ==
  ASSUME "FINALIZAR_PROCESO" \notin Eventos
  PROVE  Spec => [](SinCarreras => EstadoSegunCola)
  <1>1. IndInv /\ EstadosSanos => (SinCarreras => EstadoSegunCola)
    BY EstadosBastan DEF EstadosSanos
  <1>2. QED
    BY <1>1, EstadosInvariante, Invariante, PTL

\* The steps of the diagram, thread by thread.
LEMMA DiagramaLargo ==
  ASSUME IndInv, EstadosInv, Largo
  PROVE  [Diagrama!Next]_estado
  <1>1. CASE UNCHANGED estado
    BY <1>1
  <1>2. CASE LargoAdmite
    <2>1. /\ largo.pc = "push_ready" /\ largo.pcb \in Procesos
          /\ estado' = [estado EXCEPT ![largo.pcb] = "READY"]
      BY <1>2 DEF LargoAdmite, EnLargo, push_cola_ready, IndInv, TypeOK, TipoLargo
    <2>2. estado[largo.pcb] = "NEW"
      BY <2>1 DEF EstadosInv, NuevosInv, LargoTiene
    <2>3. QED
      BY <2>1, <2>2 DEF Diagrama!Next, Diagrama!Admitir, Diagrama!Pasa
  <1>3. QED
    BY <1>1, <1>2 DEF Largo, LargoEsperaGrado, LargoEsperaNuevo, LargoPasaPuerta,
       LargoSacaDeNew

LEMMA DiagramaCorto ==
  ASSUME IndInv, EstadosInv, Corto
  PROVE  [Diagrama!Next]_estado
  <1> USE DEF Diagrama!Next, Diagrama!Pasa
  <1>1. CASE UNCHANGED estado
    BY <1>1
  <1>2. CASE CortoDespacha
    <2>1. /\ corto.pc = "despachar" /\ corto.pcb \in Procesos
          /\ estado' = [estado EXCEPT ![corto.pcb] = "EXECUTE"]
      BY <1>2 DEF CortoDespacha, EnCorto, push_cola_execute, IndInv, TypeOK, TipoCorto
    <2>2. estado[corto.pcb] \in {"READY", "READY_PRIORIDAD"}
      BY <2>1 DEF EstadosInv, ListosInv, CortoTiene
    <2>3. \A q \in Procesos : estado[q] # "EXECUTE"
      BY <2>1 DEF EstadosInv, EjecutaInv, Ejecuta, PcsEjecuta
    <2>4. QED
      BY <2>1, <2>2, <2>3 DEF Diagrama!Despachar
  <1>3. CASE \/ CortoDevuelveAReady \/ CortoEncolaEnRecurso \/ CortoFinaliza
             \/ CortoEncolaEnIO /\ ~UNCHANGED estado
    <2>1. /\ corto.pc \in {"a_ready", "a_io", "a_espera", "exit"} /\ corto.pcb \in Procesos
          /\ \/ estado' = [estado EXCEPT ![corto.pcb] = "READY"]
             \/ estado' = [estado EXCEPT ![corto.pcb] = "BLOCKED"]
             \/ estado' = [estado EXCEPT ![corto.pcb] = "EXIT"]
      BY <1>3 DEF CortoDevuelveAReady, CortoEncolaEnRecurso, CortoFinaliza, CortoEncolaEnIO,
         EnCorto, push_cola_ready, push_cola_exit, IndInv, TypeOK, TipoCorto
    <2>2. estado[corto.pcb] = "EXECUTE"
      BY <2>1 DEF EstadosInv, EjecutaInv, Ejecuta, PcsEjecuta
    <2>3. QED
      BY <2>1, <2>2 DEF Diagrama!Desalojar, Diagrama!Bloquear, Diagrama!Terminar
  <1>4. QED
    BY <1>1, <1>2, <1>3 DEF Corto, CortoEsperaListo, CortoEsperaCpu, CortoPasaPuerta,
       CortoElige, CortoSacaDeReady, CortoSacaDePrioridad, CortoSacaDe, CortoRecibe,
       CortoPasaPuertaRespuesta, CortoAtiendeFin, CortoAtiendeQuantum, CortoAtiendeIO,
       CortoValidaIO, CortoAtiendeSolicita, CortoAtiendeLibera,
       CortoTomaRecurso, CortoEncolaEnIO, CortoLiberaRecursos, CortoLiberaGrado, CortoReduceGrado,
       CortoLiberaCpu

\* A process that leaves the queue of an interface or a resource was BLOCKED.
LEMMA EnManoBloqueado ==
  ASSUME IndInv, EstadosInv
  PROVE  /\ \A i \in Interfaces : hilo_io[i].pc = "push_ready" =>
              hilo_io[i].pcb \in Procesos /\ estado[hilo_io[i].pcb] = "BLOCKED"
         /\ \A r \in Recursos : hilo_recurso[r].pc = "push_ready" =>
              hilo_recurso[r].pcb \in Procesos /\ estado[hilo_recurso[r].pcb] = "BLOCKED"
  <1>1. ASSUME NEW i \in Interfaces, hilo_io[i].pc = "push_ready"
        PROVE  hilo_io[i].pcb \in Procesos /\ estado[hilo_io[i].pcb] = "BLOCKED"
    <2>1. hilo_io[i].pcb \in Procesos /\ i \in Esperas /\ hilo_io[i].pcb \in Esperan(i)
      BY <1>1 DEF IndInv, TypeOK, TipoHiloIO, Esperas, Esperan, Mano
    <2>2. QED
      BY <2>1 DEF EstadosInv, BloqueadosInv
  <1>2. ASSUME NEW r \in Recursos, hilo_recurso[r].pc = "push_ready"
        PROVE  hilo_recurso[r].pcb \in Procesos /\ estado[hilo_recurso[r].pcb] = "BLOCKED"
    <2>1. /\ hilo_recurso[r].pcb \in Procesos /\ r \in Esperas
          /\ hilo_recurso[r].pcb \in Esperan(r)
      BY <1>2, ConstantesOK DEF IndInv, TypeOK, TipoHiloRecurso, Esperas, Esperan, Mano
    <2>2. QED
      BY <2>1 DEF EstadosInv, BloqueadosInv
  <1>3. QED
    BY <1>1, <1>2

LEMMA DiagramaHilos ==
  ASSUME IndInv, EstadosInv,
         \/ \E i \in Interfaces : ConectarIO(i) \/ HiloIO(i)
         \/ \E r \in Recursos : HiloRecurso(r)
  PROVE  [Diagrama!Next]_estado
  <1> USE DEF Diagrama!Next, Diagrama!Pasa, Diagrama!Desbloquear
  <1>1. CASE UNCHANGED estado
    BY <1>1
  <1>2. CASE \E i \in Interfaces : IODesbloquea(i)
    <2>1. PICK i \in Interfaces : IODesbloquea(i)
      BY <1>2
    <2>2. /\ hilo_io[i].pc = "push_ready"
          /\ \E s \in {"READY", "READY_PRIORIDAD"} :
               estado' = [estado EXCEPT ![hilo_io[i].pcb] = s]
      BY <2>1 DEF IODesbloquea, EnIO, push_cola_ready, push_cola_ready_priority
    <2>3. QED
      BY <2>2, EnManoBloqueado
  <1>3. CASE \E r \in Recursos : RecursoDesbloquea(r)
    <2>1. PICK r \in Recursos : RecursoDesbloquea(r)
      BY <1>3
    <2>2. /\ hilo_recurso[r].pc = "push_ready"
          /\ estado' = [estado EXCEPT ![hilo_recurso[r].pcb] = "READY"]
      BY <2>1 DEF RecursoDesbloquea, EnRecurso, push_cola_ready
    <2>3. QED
      BY <2>2, EnManoBloqueado
  <1>4. QED
    BY <1>1, <1>2, <1>3 DEF ConectarIO, HiloIO, IOEsperaCliente, IOEnviaInstruccion,
       IORecibeFin, IOSeDesconecta, IOPasaPuerta, IOSacaDeEspera, HiloRecurso,
       RecursoEsperaCola, RecursoPasaPuerta, RecursoMiraEspera, RecursoTomaInstancia,
       RecursoSacaDeEspera

LEMMA DiagramaPaso ==
  ASSUME "FINALIZAR_PROCESO" \notin Eventos, IndInv, JustoInv, EstadosInv, [Next]_vars
  PROVE  [Diagrama!Next]_estado
  <1>1. CASE UNCHANGED vars
    BY <1>1 DEF vars
  <1>2. CASE Consola
    <2>1. CASE UNCHANGED estado
      BY <2>1
    <2>2. CASE IniciarProceso /\ push_cola_new(pcb_counter)
      <3>1. pcb_counter \in Procesos /\ estado' = [estado EXCEPT ![pcb_counter] = "NEW"]
        BY <2>2 DEF IniciarProceso, push_cola_new
      <3>2. estado[pcb_counter] = "NO_CREADO"
        <4>1. pcb_counter >= pcb_counter
          BY DEF IndInv, TypeOK, TipoMando
        <4>2. QED
          BY <3>1, <4>1 DEF EstadosInv, CreadosInv
      <3>3. QED
        BY <3>1, <3>2 DEF Diagrama!Next, Diagrama!Crear, Diagrama!Pasa
    <2>3. QED
      BY <1>2, <2>1, <2>2, ConsolaSinFinalizar DEF JustoInv, IniciarProceso,
         DetenerPlanificacion, DetenerEnPausa, ReanudarPlanificacion, Multiprogramacion
  <1>3. CASE Carreras
    BY <1>3 DEF Carreras, Choque, PierdeDeCola, PierdeDeIO, PierdeDeRecurso, PierdePID,
       MuerePorCarrera, LecturaRota, CortoSeCuelga, ConsolaSeCuelga
  <1>4. QED
    BY <1>1, <1>2, <1>3, DiagramaLargo, DiagramaCorto, DiagramaHilos DEF Next

\* Without FINALIZAR_PROCESO, and as long as no two threads meet in a list, the
\* kernel implements the state diagram of a process: a thread only moves a
\* process along an arrow of the diagram, and the CPU is handed over only when
\* no process is executing.
THEOREM RefinaDiagrama ==
  ASSUME "FINALIZAR_PROCESO" \notin Eventos
  PROVE  Spec /\ []SinCarreras => ImplementaDiagrama
  <1>1. IndInv /\ JustoInv /\ EstadosSanos /\ SinCarreras /\ [Next]_vars
          => [Diagrama!Next]_estado
    BY DiagramaPaso DEF EstadosSanos
  <1>2. Init => Diagrama!Init
    BY DEF Init, Diagrama!Init
  <1>3. QED
    BY <1>1, <1>2, Invariante, JustoInvariante, EstadosInvariante, PTL
       DEF Spec, ImplementaDiagrama, Diagrama!Spec

-----------------------------------------------------------------------------
(***************************************************************************)
(* Nobody takes an instance for a process that has reached EXIT.           *)
(***************************************************************************)
\* Who gets to EXIT.
LEMMA QuienSale ==
  ASSUME "FINALIZAR_PROCESO" \notin Eventos, IndInv, SinFinalizacion, [Next]_vars,
         NEW p \in Procesos, estado'[p] = "EXIT"
  PROVE  estado[p] = "EXIT" \/ (CortoFinaliza /\ corto.pcb = p)
  <1> USE DEF IndInv, TypeOK, TipoEstado
  <1>1. CASE UNCHANGED estado
    BY <1>1
  <1>2. CASE Largo
    BY <1>2 DEF Largo, LargoEsperaGrado, LargoEsperaNuevo, LargoPasaPuerta, LargoSacaDeNew,
       LargoAdmite, push_cola_ready
  <1>3. CASE Corto
    BY <1>3 DEF Corto, CortoEsperaListo, CortoEsperaCpu, CortoPasaPuerta, CortoElige,
       CortoSacaDeReady, CortoSacaDePrioridad, CortoSacaDe,
       CortoDespacha, CortoRecibe, CortoPasaPuertaRespuesta, CortoAtiendeFin,
       CortoAtiendeQuantum, CortoAtiendeIO, CortoValidaIO, CortoAtiendeSolicita, CortoAtiendeLibera,
       CortoTomaRecurso, CortoDevuelveAReady, CortoEncolaEnIO, CortoEncolaEnRecurso,
       CortoFinaliza, CortoLiberaRecursos, CortoLiberaGrado, CortoReduceGrado, CortoLiberaCpu,
       push_cola_ready, push_cola_execute, push_cola_exit
  <1>4. CASE Consola
    BY <1>4, ConsolaSinFinalizar DEF IniciarProceso, DetenerPlanificacion, DetenerEnPausa,
       ReanudarPlanificacion, Multiprogramacion, push_cola_new
  <1>5. CASE \E i \in Interfaces : ConectarIO(i) \/ HiloIO(i)
    BY <1>5 DEF ConectarIO, HiloIO, IOEsperaCliente, IOEnviaInstruccion, IORecibeFin,
       IOSeDesconecta, IOPasaPuerta, IOSacaDeEspera, IODesbloquea, push_cola_ready,
       push_cola_ready_priority
  <1>6. CASE \E r \in Recursos : HiloRecurso(r)
    BY <1>6 DEF HiloRecurso, RecursoEsperaCola, RecursoPasaPuerta, RecursoMiraEspera,
       RecursoTomaInstancia, RecursoSacaDeEspera, RecursoDesbloquea, push_cola_ready
  <1>7. CASE Carreras
    BY <1>7 DEF Carreras, Choque, PierdeDeCola, PierdeDeIO, PierdeDeRecurso, PierdePID,
       MuerePorCarrera, LecturaRota, CortoSeCuelga, ConsolaSeCuelga
  <1>8. QED
    BY <1>1, <1>2, <1>3, <1>4, <1>5, <1>6, <1>7 DEF Next, vars

\* push_cola_exit leaves the process with nothing.
LEMMA LiberarDejaNada ==
  ASSUME TipoRecurso, NEW p \in Procesos, liberar_recurso_del_proceso(p),
         NEW r \in Recursos, NEW q \in Procesos
  PROVE  recurso'[r].PIDs[q] = IF q = p THEN 0 ELSE recurso[r].PIDs[q]
  <1>1. /\ recurso[r] \in UnRecurso
        /\ recurso'[r] = IF recurso[r].PIDs[p] > 0 THEN Senalado(recurso[r], p)
                                                   ELSE recurso[r]
    BY DEF liberar_recurso_del_proceso, TipoRecurso
  <1>2. recurso[r].PIDs \in [Procesos -> Nat]
    BY <1>1 DEF UnRecurso
  <1>3. CASE recurso[r].PIDs[p] > 0
    BY <1>1, <1>2, <1>3 DEF Senalado
  <1>4. CASE recurso[r].PIDs[p] = 0
    BY <1>1, <1>4
  <1>5. QED
    BY <1>2, <1>3, <1>4

\* Who is given an instance, by each thread.
LEMMA TomaCorto ==
  ASSUME IndInv, EstadosInv, Corto, NEW r \in Recursos, NEW p \in Procesos
  PROVE  \/ recurso'[r].PIDs[p] = recurso[r].PIDs[p]
         \/ recurso'[r].PIDs[p] = 0
         \/ estado[p] = "EXECUTE"
  <1> USE DEF IndInv, TypeOK
  <1>1. CASE UNCHANGED recurso
    BY <1>1
  <1>2. CASE CortoAtiendeLibera
    <2>1. recurso'[r] = recurso[r] \/ recurso'[r] = Senalado(recurso[r], corto.pcb)
      BY <1>2 DEF CortoAtiendeLibera, TipoRecurso
    <2>2. recurso[r].PIDs \in [Procesos -> Nat]
      BY DEF TipoRecurso, UnRecurso
    <2>3. QED
      BY <2>1, <2>2 DEF Senalado
  <1>3. CASE CortoTomaRecurso
    <2>1. corto.pc = "wait_recurso" /\ corto.pcb \in Procesos
      BY <1>3 DEF CortoTomaRecurso, EnCorto, TipoCorto
    <2>2. estado[corto.pcb] = "EXECUTE"
      BY <2>1 DEF EstadosInv, EjecutaInv, Ejecuta, PcsEjecuta
    <2>3. recurso'[r] = recurso[r] \/ recurso'[r] = Tomado(recurso[r], corto.pcb)
      BY <1>3 DEF CortoTomaRecurso, TipoRecurso
    <2>4. recurso[r].PIDs \in [Procesos -> Nat]
      BY DEF TipoRecurso, UnRecurso
    <2>5. QED
      BY <2>2, <2>3, <2>4 DEF Tomado
  <1>4. CASE CortoEncolaEnRecurso
    BY <1>4 DEF CortoEncolaEnRecurso, EnEspera, TipoRecurso
  <1>5. CASE CortoLiberaRecursos
    <2>1. corto.pcb \in Procesos /\ liberar_recurso_del_proceso(corto.pcb)
      BY <1>5 DEF CortoLiberaRecursos, EnCorto, TipoCorto
    <2>2. QED
      BY <2>1, LiberarDejaNada
  <1>6. QED
    BY <1>1, <1>2, <1>3, <1>4, <1>5 DEF Corto, CortoEsperaListo, CortoEsperaCpu,
       CortoPasaPuerta, CortoElige, CortoSacaDeReady, CortoSacaDePrioridad, CortoSacaDe,
       CortoDespacha, CortoRecibe,
       CortoPasaPuertaRespuesta, CortoAtiendeFin, CortoAtiendeQuantum, CortoAtiendeIO,
       CortoValidaIO, CortoAtiendeSolicita, CortoDevuelveAReady, CortoEncolaEnIO,
       CortoFinaliza, push_cola_exit, CortoLiberaGrado,
       CortoReduceGrado, CortoLiberaCpu

LEMMA TomaRecurso ==
  ASSUME IndInv, EstadosInv, NEW s \in Recursos, HiloRecurso(s),
         NEW r \in Recursos, NEW p \in Procesos
  PROVE  recurso'[r].PIDs[p] = recurso[r].PIDs[p] \/ estado[p] = "BLOCKED"
  <1> USE DEF IndInv, TypeOK
  <1>1. CASE RecursoTomaInstancia(s) /\ recurso' = [recurso EXCEPT ![s] =
                                                  Tomado(@, hilo_recurso[s].pcb)]
    <2>1. /\ hilo_recurso[s].pcb \in Procesos
          /\ Contains(recurso[s].procesos_en_espera, hilo_recurso[s].pcb)
          /\ recurso[s].procesos_en_espera \in Seq(Procesos)
      <3>1. CASE Contains(recurso[s].procesos_en_espera, hilo_recurso[s].pcb)
        BY <1>1, <3>1 DEF RecursoTomaInstancia, EnRecurso, TipoHiloRecurso, TipoRecurso,
           UnRecurso
      <3>2. CASE UNCHANGED recurso
        <4>1. Tomado(recurso[s], hilo_recurso[s].pcb) = recurso[s]
          BY <1>1, <3>2 DEF TipoRecurso
        <4>2. recurso[s].instancias \in Nat
          BY DEF TipoRecurso, UnRecurso
        <4>3. QED
          BY <4>1, <4>2 DEF Tomado
      <3>3. QED
        BY <1>1, <3>1, <3>2 DEF RecursoTomaInstancia
    <2>2. hilo_recurso[s].pcb \in EnCola(Fila(s)) /\ s \in Esperas
      BY <2>1, LenProperties, ConstantesOK DEF Contains, EnCola, ToSet, Fila, Esperas
    <2>3. estado[hilo_recurso[s].pcb] = "BLOCKED"
      BY <2>1, <2>2 DEF EstadosInv, BloqueadosInv, Esperan
    <2>4. recurso'[r] = recurso[r] \/ recurso'[r] = Tomado(recurso[r], hilo_recurso[s].pcb)
      BY <1>1 DEF TipoRecurso
    <2>5. recurso[r].PIDs \in [Procesos -> Nat]
      BY DEF TipoRecurso, UnRecurso
    <2>6. QED
      BY <2>3, <2>4, <2>5 DEF Tomado
  <1>2. CASE recurso'[s].PIDs = recurso[s].PIDs
    BY <1>2, RecursoAjeno
  <1>3. CASE \/ RecursoEsperaCola(s) \/ RecursoPasaPuerta(s) \/ RecursoMiraEspera(s)
             \/ RecursoSacaDeEspera(s) \/ RecursoDesbloquea(s)
    BY <1>2, <1>3 DEF RecursoEsperaCola, RecursoPasaPuerta, RecursoMiraEspera,
       RecursoSacaDeEspera, RecursoDesbloquea, TipoRecurso, UnRecurso
  <1>4. QED
    BY <1>1, <1>2, <1>3 DEF HiloRecurso, RecursoTomaInstancia

LEMMA SinRetenerPaso ==
  ASSUME "FINALIZAR_PROCESO" \notin Eventos, IndInv, JustoInv, EstadosInv, SinRetener,
         [Next]_vars, Carreras => CortoSeCuelga \/ ConsolaSeCuelga
  PROVE  SinRetener'
  <1> SUFFICES ASSUME NEW p \in Procesos, NEW r \in Recursos, estado'[p] = "EXIT"
               PROVE  recurso'[r].PIDs[p] = 0 \/ EnSalida(p)'
    BY DEF SinRetener
  <1>1. estado[p] = "EXIT" \/ (CortoFinaliza /\ corto.pcb = p)
    BY QuienSale DEF JustoInv
  <1>2. CASE CortoFinaliza /\ corto.pcb = p
    BY <1>2 DEF CortoFinaliza, CortoVa, EnSalida, IndInv, TypeOK, TipoCorto
  <1>3. CASE estado[p] = "EXIT" /\ recurso[r].PIDs[p] = 0
    <2>1. CASE UNCHANGED recurso
      BY <1>3, <2>1
    <2>2. CASE Corto
      BY <1>3, <2>2, TomaCorto
    <2>3. CASE \E s \in Recursos : HiloRecurso(s)
      BY <1>3, <2>3, TomaRecurso
    <2>4. QED
      BY <2>1, <2>2, <2>3, ConsolaSinFinalizar DEF JustoInv, Next, vars, Largo,
         LargoEsperaGrado, LargoEsperaNuevo, LargoPasaPuerta, LargoSacaDeNew, LargoAdmite,
         IniciarProceso, DetenerPlanificacion, DetenerEnPausa, ReanudarPlanificacion,
         Multiprogramacion, ConectarIO, HiloIO, IOEsperaCliente, IOEnviaInstruccion,
         IORecibeFin, IOSeDesconecta, IOPasaPuerta, IOSacaDeEspera, IODesbloquea,
         CortoSeCuelga, ConsolaSeCuelga
  <1>4. CASE EnSalida(p)
    <2>1. CASE UNCHANGED corto
      BY <1>4, <2>1 DEF EnSalida
    <2>2. CASE CortoLiberaRecursos
      BY <1>4, <2>2, LiberarDejaNada DEF CortoLiberaRecursos, EnSalida, IndInv, TypeOK
    <2>3. ~CortoSeCuelga /\ (Corto => CortoLiberaRecursos)
      BY <1>4 DEF EnSalida, CortoSeCuelga, EnCorto, Corto, CortoEsperaListo, CortoEsperaCpu,
         CortoPasaPuerta, CortoElige, CortoSacaDeReady, CortoSacaDePrioridad, CortoSacaDe,
         CortoDespacha, CortoRecibe, CortoPasaPuertaRespuesta, CortoAtiendeFin,
         CortoAtiendeQuantum, CortoAtiendeIO, CortoValidaIO, CortoAtiendeSolicita,
         CortoAtiendeLibera, CortoTomaRecurso, CortoDevuelveAReady, CortoEncolaEnIO,
         CortoEncolaEnRecurso, CortoFinaliza, CortoLiberaGrado, CortoReduceGrado,
         CortoLiberaCpu
    <2>4. QED
      BY <2>1, <2>2, <2>3, ConsolaSinFinalizar DEF JustoInv, Next, vars, Largo,
         LargoEsperaGrado, LargoEsperaNuevo, LargoPasaPuerta, LargoSacaDeNew, LargoAdmite,
         IniciarProceso, DetenerPlanificacion, DetenerEnPausa, ReanudarPlanificacion,
         Multiprogramacion, ConectarIO, HiloIO, IOEsperaCliente, IOEnviaInstruccion,
         IORecibeFin, IOSeDesconecta, IOPasaPuerta, IOSacaDeEspera, IODesbloquea,
         HiloRecurso, RecursoEsperaCola, RecursoPasaPuerta, RecursoMiraEspera,
         RecursoTomaInstancia, RecursoSacaDeEspera, RecursoDesbloquea,
         ConsolaSeCuelga, hilos, menosLargo, menosIO, menosRecurso, menosConsola
  <1>5. QED
    BY <1>1, <1>2, <1>3, <1>4 DEF SinRetener

RetenerSano == SinCarreras => SinRetener

\* Without FINALIZAR_PROCESO, and until two threads meet in a list, a process in
\* EXIT holds an instance only while the short-term scheduler is on its way to
\* release it, with the process already visible in the queue: neither the
\* scheduler nor the thread of a resource gives it one there, before or after.
THEOREM ExitLibera ==
  ASSUME "FINALIZAR_PROCESO" \notin Eventos
  PROVE  Spec => [](SinCarreras => ExitSinRecursos)
  <1>1. IndInv /\ JustoInv /\ EstadosSanos /\ RetenerSano /\ [Next]_vars => RetenerSano'
    BY SanaAntes, SinRetenerPaso DEF EstadosSanos, RetenerSano
  <1>2. Init => RetenerSano
    BY DEF Init, RetenerSano, SinRetener
  <1>3. IndInv /\ EstadosSanos /\ RetenerSano => (SinCarreras => ExitSinRecursos)
    <2> SUFFICES ASSUME IndInv, EstadosInv, SinRetener, NEW p \in EnCola(cola.exit),
                        NEW r \in Recursos
                 PROVE  recurso[r].PIDs[p] = 0 \/ EnSalida(p)
      BY DEF ExitSinRecursos, EnCola, EnSalida, EstadosSanos, RetenerSano
    <2>1. p \in Procesos
      BY EnColaTipo DEF IndInv, TypeOK, TipoCola
    <2>2. QED
      BY <2>1 DEF EstadosInv, SalidosInv, SinRetener
  <1>4. QED
    BY <1>1, <1>2, <1>3, Invariante, JustoInvariante, EstadosInvariante, PTL DEF Spec

-----------------------------------------------------------------------------
(***************************************************************************)
(* The multiprogramming degree.                                            *)
(***************************************************************************)
\* The processes the degree counts, how many they are, and the reduction of the
\* degree that exits have still to pay.
Admitidos == {p \in Procesos : Admitido(p)}

Cuantos == Cardinality(Admitidos)

Deuda == IF grado.diferencia < 0 THEN -grado.diferencia ELSE 0

\* With one MULTIPROGRAMACION at most, nothing changes the difference while the
\* short-term scheduler is between reading it and paying it.
DeudaInv ==
  /\ grado.cambios = 0 => grado.diferencia = 0
  /\ corto.pc = "diferencia" => corto.leido = grado.diferencia /\ grado.diferencia < 0

LEMMA AdmitidosFinitos ==
  /\ IsFiniteSet(Admitidos) /\ Cuantos \in Nat
  /\ \A p : IsFiniteSet(Admitidos \cup {p}) /\ IsFiniteSet(Admitidos \ {p})
  <1>1. IsFiniteSet(Procesos)
    BY FS_Interval, ConstantesOK DEF Procesos
  <1>2. IsFiniteSet(Admitidos)
    BY <1>1, FS_Subset DEF Admitidos
  <1>3. QED
    BY <1>2, FS_CardinalityType, FS_AddElement, FS_RemoveElement DEF Cuantos

LEMMA MismosAdmitidos ==
  ASSUME \A p \in Procesos : Admitido(p)' <=> Admitido(p)
  PROVE  Cuantos' = Cuantos
  <1>1. Admitidos' = Admitidos
    BY DEF Admitidos
  <1>2. QED
    BY <1>1 DEF Cuantos

LEMMA UnoMas ==
  ASSUME NEW p \in Procesos, ~Admitido(p),
         \A q \in Procesos : Admitido(q)' <=> q = p \/ Admitido(q)
  PROVE  Cuantos' = Cuantos + 1
  <1>1. Admitidos' = Admitidos \cup {p} /\ p \notin Admitidos
    BY DEF Admitidos
  <1>2. QED
    BY <1>1, AdmitidosFinitos, FS_AddElement DEF Cuantos

LEMMA UnoMenos ==
  ASSUME NEW p \in Procesos, Admitido(p),
         \A q \in Procesos : Admitido(q)' <=> q # p /\ Admitido(q)
  PROVE  Cuantos' = Cuantos - 1
  <1>1. Admitidos' = Admitidos \ {p} /\ p \in Admitidos
    BY DEF Admitidos
  <1>2. QED
    BY <1>1, AdmitidosFinitos, FS_RemoveElement DEF Cuantos

\* The balance, with each of its terms named.
Balance ==
  sem.grado_multiprog + Cuantos + Uno(largo.pc # "sem_grado")
    + Uno(corto.pc \in {"exit_recursos", "grado", "diferencia"}) = grado.valor + Deuda

GradoInv == Balance /\ DeudaInv

LEMMA GradoTipos ==
  ASSUME TypeOK
  PROVE  /\ sem.grado_multiprog \in Nat /\ Cuantos \in Nat
         /\ grado.valor \in Nat /\ grado.diferencia \in Int /\ grado.cambios \in Nat
         /\ Deuda \in Nat
  BY AdmitidosFinitos DEF TypeOK, TipoSem, TipoMando, Deuda

LEMMA BalanceEsGrado ==
  ASSUME TypeOK, Balance
  PROVE  GradoConservado
  <1>1. Cuantos = Cardinality({p \in Procesos : Admitido(p)})
    BY DEF Cuantos, Admitidos
  <1>2. LugaresOcupados = Cuantos + Uno(largo.pc # "sem_grado")
                            + Uno(corto.pc \in {"exit_recursos", "grado", "diferencia"})
    BY <1>1 DEF LugaresOcupados
  <1>3. /\ Uno(largo.pc # "sem_grado") \in Nat
        /\ Uno(corto.pc \in {"exit_recursos", "grado", "diferencia"}) \in Nat
    BY DEF Uno
  <1>4. sem.grado_multiprog + LugaresOcupados = grado.valor + Deuda
    BY <1>2, <1>3, GradoTipos DEF Balance
  <1>5. QED
    BY <1>4 DEF GradoConservado, Deuda

LEMMA GradoQuieto ==
  ASSUME GradoInv, UNCHANGED grado, Cuantos' = Cuantos,
         sem'.grado_multiprog = sem.grado_multiprog,
         largo'.pc # "sem_grado" <=> largo.pc # "sem_grado",
         corto'.pc \in {"exit_recursos", "grado", "diferencia"}
           <=> corto.pc \in {"exit_recursos", "grado", "diferencia"},
         corto'.pc = "diferencia" => corto.pc = "diferencia" /\ corto'.leido = corto.leido
  PROVE  GradoInv'
  <1>1. Deuda' = Deuda
    BY DEF Deuda
  <1>2. /\ Uno(largo.pc # "sem_grado")' = Uno(largo.pc # "sem_grado")
        /\ Uno(corto.pc \in {"exit_recursos", "grado", "diferencia"})'
             = Uno(corto.pc \in {"exit_recursos", "grado", "diferencia"})
    BY DEF Uno
  <1>3. Balance'
    BY <1>1, <1>2 DEF GradoInv, Balance
  <1>4. DeudaInv'
    BY DEF GradoInv, DeudaInv
  <1>5. QED
    BY <1>3, <1>4 DEF GradoInv

\* planificador_largo.c
LEMMA GradoLargo ==
  ASSUME IndInv, IndInv', EstadosInv, GradoInv, Largo
  PROVE  GradoInv'
  <1> USE DEF IndInv
  <1>1. UNCHANGED <<corto, grado>>
    BY DEF Largo, LargoEsperaGrado, LargoEsperaNuevo, LargoPasaPuerta, LargoSacaDeNew,
       LargoAdmite, menosLargo, mando
  <1>2. Deuda' = Deuda /\ DeudaInv'
    BY <1>1 DEF Deuda, GradoInv, DeudaInv
  <1>3. CASE LargoEsperaGrado
    <2>1. UNCHANGED estado
      BY <1>3 DEF LargoEsperaGrado
    <2>2. Cuantos' = Cuantos
      BY <2>1, MismosAdmitidos DEF Admitido
    <2>3. /\ sem'.grado_multiprog = sem.grado_multiprog - 1
          /\ largo.pc = "sem_grado" /\ largo'.pc = "sem_nuevo"
      BY <1>3 DEF LargoEsperaGrado, TypeOK, TipoSem, EnLargo, LargoVa
    <2>4. Balance'
      <3>1. CASE corto.pc \in {"exit_recursos", "grado", "diferencia"}
        BY <1>1, <1>2, <2>2, <2>3, <3>1, GradoTipos DEF GradoInv, Balance, Uno
      <3>2. CASE corto.pc \notin {"exit_recursos", "grado", "diferencia"}
        BY <1>1, <1>2, <2>2, <2>3, <3>2, GradoTipos DEF GradoInv, Balance, Uno
      <3>3. QED
        BY <3>1, <3>2
    <2>5. QED
      BY <1>2, <2>4 DEF GradoInv
  <1>4. CASE LargoEsperaNuevo \/ LargoPasaPuerta \/ LargoSacaDeNew
    <2>1. UNCHANGED estado
      BY <1>4 DEF LargoEsperaNuevo, LargoPasaPuerta, LargoSacaDeNew
    <2>2. /\ sem'.grado_multiprog = sem.grado_multiprog
          /\ largo.pc # "sem_grado" /\ largo'.pc # "sem_grado"
      BY <1>4 DEF LargoEsperaNuevo, LargoPasaPuerta, LargoSacaDeNew, EnLargo, LargoVa,
         TypeOK, TipoSem
    <2>3. QED
      BY <1>1, <2>1, <2>2, MismosAdmitidos, GradoQuieto DEF Admitido
  <1>5. CASE LargoAdmite
    <2>1. /\ largo.pc = "push_ready" /\ largo'.pc = "sem_grado" /\ largo.pcb \in Procesos
          /\ push_cola_ready(largo.pcb)
      BY <1>5 DEF LargoAdmite, EnLargo, LargoVa, TypeOK, TipoLargo
    <2>2. /\ estado[largo.pcb] = "NEW"
          /\ sem'.grado_multiprog = sem.grado_multiprog
          /\ \A p \in Procesos :
               estado'[p] = IF p = largo.pcb THEN "READY" ELSE estado[p]
      BY <2>1 DEF EstadosInv, NuevosInv, LargoTiene, push_cola_ready, TypeOK, TipoSem,
         TipoEstado
    <2>3. Cuantos' = Cuantos + 1
      BY <2>1, <2>2, UnoMas DEF Admitido
    <2>4. Balance'
      <3>1. CASE corto.pc \in {"exit_recursos", "grado", "diferencia"}
        BY <1>1, <1>2, <2>1, <2>2, <2>3, <3>1, GradoTipos DEF GradoInv, Balance, Uno
      <3>2. CASE corto.pc \notin {"exit_recursos", "grado", "diferencia"}
        BY <1>1, <1>2, <2>1, <2>2, <2>3, <3>2, GradoTipos DEF GradoInv, Balance, Uno
      <3>3. QED
        BY <3>1, <3>2
    <2>5. QED
      BY <1>2, <2>4 DEF GradoInv
  <1>6. QED
    BY <1>3, <1>4, <1>5 DEF Largo

\* planificador_corto.c: a process moves among the admitted ones,
LEMMA GradoCortoMueve ==
  ASSUME IndInv, EstadosInv, GradoInv,
         \/ CortoDespacha \/ CortoDevuelveAReady \/ CortoEncolaEnIO \/ CortoEncolaEnRecurso
  PROVE  GradoInv'
  <1> USE DEF IndInv
  <1>1. /\ UNCHANGED <<largo, grado>> /\ sem'.grado_multiprog = sem.grado_multiprog
        /\ corto.pc \notin {"exit_recursos", "grado", "diferencia"}
        /\ corto'.pc \notin {"exit_recursos", "grado", "diferencia"}
    BY DEF CortoDespacha, CortoDevuelveAReady, CortoEncolaEnIO, CortoEncolaEnRecurso,
       menosCorto, mando, EnCorto, CortoVa, push_cola_ready, TypeOK, TipoSem, TipoCorto
  <1>2. /\ corto.pcb \in Procesos
        /\ estado[corto.pcb] \in {"READY", "READY_PRIORIDAD", "EXECUTE"}
    BY DEF CortoDespacha, CortoDevuelveAReady, CortoEncolaEnIO, CortoEncolaEnRecurso,
       EnCorto, TypeOK, TipoCorto, EstadosInv, EjecutaInv, Ejecuta, PcsEjecuta, ListosInv,
       CortoTiene
  <1>3. \A p \in Procesos :
          \/ estado'[p] = estado[p]
          \/ p = corto.pcb /\ estado'[p] \in {"READY", "EXECUTE", "BLOCKED"}
    BY DEF CortoDespacha, CortoDevuelveAReady, CortoEncolaEnIO, CortoEncolaEnRecurso,
       push_cola_ready, push_cola_execute, TypeOK, TipoEstado
  <1>4. QED
    BY <1>1, <1>2, <1>3, MismosAdmitidos, GradoQuieto DEF Admitido

\* no process moves,
LEMMA GradoCortoQuieto ==
  ASSUME IndInv, EstadosInv, GradoInv,
         \/ CortoEsperaListo \/ CortoEsperaCpu \/ CortoPasaPuerta \/ CortoElige
         \/ CortoSacaDeReady \/ CortoSacaDePrioridad \/ CortoValidaIO \/ CortoSeCuelga
         \/ CortoRecibe \/ CortoPasaPuertaRespuesta \/ CortoAtiendeFin
         \/ CortoAtiendeQuantum \/ CortoAtiendeIO \/ CortoAtiendeSolicita
         \/ CortoAtiendeLibera \/ CortoTomaRecurso \/ CortoLiberaCpu
  PROVE  GradoInv'
  <1> USE DEF IndInv, TypeOK
  <1>1. UNCHANGED <<estado, largo, grado>>
    BY DEF CortoEsperaListo, CortoEsperaCpu, CortoPasaPuerta, CortoElige, CortoSacaDeReady,
       CortoSacaDePrioridad, CortoSacaDe, CortoValidaIO, CortoSeCuelga, CortoRecibe,
       CortoPasaPuertaRespuesta, CortoAtiendeFin, CortoAtiendeQuantum, CortoAtiendeIO,
       CortoAtiendeSolicita, CortoAtiendeLibera, CortoTomaRecurso, CortoLiberaCpu,
       menosCorto, mando
  <1>2. sem'.grado_multiprog = sem.grado_multiprog
    BY DEF CortoEsperaListo, CortoEsperaCpu, CortoPasaPuerta, CortoElige, CortoSacaDeReady,
       CortoSacaDePrioridad, CortoSacaDe, CortoValidaIO, CortoSeCuelga, CortoRecibe,
       CortoPasaPuertaRespuesta, CortoAtiendeFin, CortoAtiendeQuantum, CortoAtiendeIO,
       CortoAtiendeSolicita, CortoAtiendeLibera, CortoTomaRecurso, CortoLiberaCpu, TipoSem
  <1>3. /\ corto.pc \notin {"exit_recursos", "grado", "diferencia"}
        /\ corto'.pc \notin {"exit_recursos", "grado", "diferencia"}
    BY DEF CortoEsperaListo, CortoEsperaCpu, CortoPasaPuerta, CortoElige, CortoSacaDeReady,
       CortoSacaDePrioridad, CortoSacaDe, CortoValidaIO, CortoSeCuelga, CortoRecibe,
       CortoPasaPuertaRespuesta, CortoAtiendeFin, CortoAtiendeQuantum, CortoAtiendeIO,
       CortoAtiendeSolicita, CortoAtiendeLibera, CortoTomaRecurso, CortoLiberaCpu,
       EnCorto, CortoVa, TipoCorto
  <1>4. QED
    BY <1>1, <1>2, <1>3, MismosAdmitidos, GradoQuieto DEF Admitido

\* and the exit, which settles the degree in two steps.
LEMMA GradoCortoSale ==
  ASSUME IndInv, IndInv', EstadosInv, GradoInv,
         CortoFinaliza \/ CortoLiberaRecursos \/ CortoLiberaGrado \/ CortoReduceGrado
  PROVE  GradoInv'
  <1> USE DEF IndInv
  <1>1. UNCHANGED largo /\ corto.pc \in {"exit", "exit_recursos", "grado", "diferencia"}
    BY DEF CortoFinaliza, CortoLiberaRecursos, CortoLiberaGrado, CortoReduceGrado, menosCorto,
       EnCorto
  <1>2. CASE CortoFinaliza
    <2>1. /\ corto.pc = "exit" /\ corto'.pc = "exit_recursos" /\ corto.pcb \in Procesos
          /\ UNCHANGED <<grado, sem>>
          /\ \A p \in Procesos : estado'[p] = IF p = corto.pcb THEN "EXIT" ELSE estado[p]
      BY <1>2 DEF CortoFinaliza, EnCorto, CortoVa, push_cola_exit, mando, TypeOK, TipoCorto,
         TipoEstado
    <2>2. estado[corto.pcb] = "EXECUTE"
      BY <2>1 DEF EstadosInv, EjecutaInv, Ejecuta, PcsEjecuta
    <2>3. Cuantos' = Cuantos - 1
      BY <2>1, <2>2, UnoMenos DEF Admitido
    <2>4. Deuda' = Deuda /\ DeudaInv'
      BY <2>1 DEF Deuda, GradoInv, DeudaInv
    <2>5. Balance'
      <3>1. CASE largo.pc = "sem_grado"
        BY <1>1, <2>1, <2>3, <2>4, <3>1, GradoTipos DEF GradoInv, Balance, Uno
      <3>2. CASE largo.pc # "sem_grado"
        BY <1>1, <2>1, <2>3, <2>4, <3>2, GradoTipos DEF GradoInv, Balance, Uno
      <3>3. QED
        BY <3>1, <3>2
    <2>6. QED
      BY <2>4, <2>5 DEF GradoInv
  <1>3. CASE CortoLiberaGrado
    <2>1. UNCHANGED <<estado, grado>> /\ corto.pc = "grado"
      BY <1>3 DEF CortoLiberaGrado, mando, EnCorto
    <2>2. Cuantos' = Cuantos /\ Deuda' = Deuda
      BY <2>1, MismosAdmitidos DEF Admitido, Deuda
    <2>3. CASE grado.diferencia < 0
      <3>1. /\ corto'.pc = "diferencia" /\ corto'.leido = grado.diferencia /\ UNCHANGED sem
        BY <1>3, <2>3 DEF CortoLiberaGrado, TypeOK, TipoCorto
      <3>2. Balance'
        BY <1>1, <2>1, <2>2, <3>1 DEF GradoInv, Balance, Uno
      <3>3. DeudaInv'
        BY <2>1, <2>3, <3>1 DEF GradoInv, DeudaInv
      <3>4. QED
        BY <3>2, <3>3 DEF GradoInv
    <2>4. CASE ~(grado.diferencia < 0)
      <3>1. corto'.pc = "post_cpu" /\ sem'.grado_multiprog = sem.grado_multiprog + 1
        BY <1>3, <2>4 DEF CortoLiberaGrado, CortoVa, PostGrado, TypeOK, TipoCorto, TipoSem
      <3>2. Balance'
        <4>1. CASE largo.pc = "sem_grado"
          BY <1>1, <2>1, <2>2, <3>1, <4>1, GradoTipos DEF GradoInv, Balance, Uno
        <4>2. CASE largo.pc # "sem_grado"
          BY <1>1, <2>1, <2>2, <3>1, <4>2, GradoTipos DEF GradoInv, Balance, Uno
        <4>3. QED
          BY <4>1, <4>2
      <3>3. DeudaInv'
        BY <2>1, <3>1 DEF GradoInv, DeudaInv
      <3>4. QED
        BY <3>2, <3>3 DEF GradoInv
    <2>5. QED
      BY <2>3, <2>4
  <1>4. CASE CortoReduceGrado
    <2>1. /\ UNCHANGED <<estado, sem>> /\ corto.pc = "diferencia" /\ corto'.pc = "post_cpu"
          /\ IncrementarDiferencia(corto.leido)
      BY <1>4 DEF CortoReduceGrado, EnCorto, TypeOK, TipoCorto
    <2>2. corto.leido = grado.diferencia /\ grado.diferencia < 0
      BY <2>1 DEF GradoInv, DeudaInv
    <2>3. /\ grado'.diferencia = grado.diferencia + 1 /\ grado'.valor = grado.valor
          /\ grado'.cambios = grado.cambios
      BY <2>1, <2>2 DEF IncrementarDiferencia, TypeOK, TipoMando
    <2>4. Cuantos' = Cuantos
      BY <2>1, MismosAdmitidos DEF Admitido
    <2>5. Deuda' = Deuda - 1
      BY <2>2, <2>3, GradoTipos DEF Deuda
    <2>6. Balance'
      <3>1. CASE largo.pc = "sem_grado"
        BY <1>1, <2>1, <2>3, <2>4, <2>5, <3>1, GradoTipos DEF GradoInv, Balance, Uno
      <3>2. CASE largo.pc # "sem_grado"
        BY <1>1, <2>1, <2>3, <2>4, <2>5, <3>2, GradoTipos DEF GradoInv, Balance, Uno
      <3>3. QED
        BY <3>1, <3>2
    <2>7. DeudaInv'
      BY <2>1, <2>2, <2>3, GradoTipos DEF GradoInv, DeudaInv
    <2>8. QED
      BY <2>6, <2>7 DEF GradoInv
  <1>5. CASE CortoLiberaRecursos
    <2>1. /\ UNCHANGED <<estado, grado, sem>>
          /\ corto.pc = "exit_recursos" /\ corto'.pc = "grado"
      BY <1>5 DEF CortoLiberaRecursos, mando, EnCorto, CortoVa, TypeOK, TipoCorto
    <2>2. QED
      BY <1>1, <2>1, MismosAdmitidos, GradoQuieto DEF Admitido
  <1>6. QED
    BY <1>2, <1>3, <1>4, <1>5

\* consola.c: MULTIPROGRAMACION, once.
LEMMA GradoConsola ==
  ASSUME "FINALIZAR_PROCESO" \notin Eventos, MaxCambios <= 1, SinFinalizacion,
         IndInv, IndInv', EstadosInv, GradoInv, Consola
  PROVE  GradoInv'
  <1> USE DEF IndInv
  <1>1. UNCHANGED <<largo, corto>>
    BY ConsolaSinFinalizar DEF IniciarProceso, DetenerPlanificacion, DetenerEnPausa,
       ReanudarPlanificacion, Multiprogramacion, menosConsola, hilos
  <1>2. CASE IniciarProceso
    <2>1. UNCHANGED grado /\ sem'.grado_multiprog = sem.grado_multiprog
      BY <1>2 DEF IniciarProceso, push_cola_new, TypeOK, TipoSem
    <2>2. \A p \in Procesos :
            \/ estado'[p] = estado[p]
            \/ p = pcb_counter /\ estado'[p] = "NEW"
      BY <1>2 DEF IniciarProceso, push_cola_new, TypeOK, TipoEstado
    <2>3. pcb_counter \in Procesos => estado[pcb_counter] = "NO_CREADO"
      <3>1. pcb_counter >= pcb_counter
        BY DEF TypeOK, TipoMando
      <3>2. QED
        BY <3>1 DEF EstadosInv, CreadosInv
    <2>4. QED
      BY <1>1, <2>1, <2>2, <2>3, MismosAdmitidos, GradoQuieto DEF Admitido
  <1>3. CASE DetenerPlanificacion \/ DetenerEnPausa \/ ReanudarPlanificacion
    <2>1. UNCHANGED <<estado, grado, sem>>
      BY <1>3 DEF DetenerPlanificacion, DetenerEnPausa, ReanudarPlanificacion, mando
    <2>2. QED
      BY <1>1, <2>1, MismosAdmitidos, GradoQuieto DEF Admitido
  <1>4. CASE Multiprogramacion
    <2>1. grado.diferencia = 0 /\ corto.pc # "diferencia"
      <3>1. grado.cambios < MaxCambios /\ MaxCambios \in Nat
        BY <1>4, ConstantesOK DEF Multiprogramacion
      <3>2. grado.cambios = 0
        BY <3>1, GradoTipos
      <3>3. QED
        BY <3>2, GradoTipos DEF GradoInv, DeudaInv
    <2>2. PICK valor \in Nat :
            /\ grado' = [valor |-> valor, diferencia |-> valor - grado.valor,
                         cambios |-> grado.cambios + 1]
            /\ sem' = [sem EXCEPT !.grado_multiprog =
                         IF valor - grado.valor > 0 THEN @ + (valor - grado.valor) ELSE @]
      BY <1>4, ConstantesOK DEF Multiprogramacion
    <2>3. /\ grado'.valor = valor /\ grado'.diferencia = valor - grado.valor
          /\ grado'.cambios = grado.cambios + 1
          /\ sem'.grado_multiprog = IF valor - grado.valor > 0
                                    THEN sem.grado_multiprog + (valor - grado.valor)
                                    ELSE sem.grado_multiprog
      BY <2>2 DEF TypeOK, TipoSem
    <2>4. Cuantos' = Cuantos
      BY <1>4, MismosAdmitidos DEF Multiprogramacion, Admitido
    <2>5. Deuda = 0 /\ Deuda' = IF valor - grado.valor < 0 THEN grado.valor - valor ELSE 0
      BY <2>1, <2>3, GradoTipos DEF Deuda
    <2>6. /\ Uno(largo.pc # "sem_grado") \in Nat
          /\ Uno(corto.pc \in {"exit_recursos", "grado", "diferencia"}) \in Nat
          /\ Uno(largo.pc # "sem_grado")' = Uno(largo.pc # "sem_grado")
          /\ Uno(corto.pc \in {"exit_recursos", "grado", "diferencia"})'
               = Uno(corto.pc \in {"exit_recursos", "grado", "diferencia"})
      BY <1>1 DEF Uno
    <2>7. Balance'
      BY <2>3, <2>4, <2>5, <2>6, GradoTipos DEF GradoInv, Balance
    <2>8. DeudaInv'
      BY <1>1, <2>1, <2>3, GradoTipos DEF DeudaInv
    <2>9. QED
      BY <2>7, <2>8 DEF GradoInv
  <1>5. QED
    BY <1>2, <1>3, <1>4, ConsolaSinFinalizar

\* gestor_io.c and recurso.c: a process that is unblocked was admitted.
LEMMA GradoHilos ==
  ASSUME IndInv, EstadosInv, GradoInv,
         \/ \E i \in Interfaces : ConectarIO(i) \/ HiloIO(i)
         \/ \E r \in Recursos : HiloRecurso(r)
  PROVE  GradoInv'
  <1> USE DEF IndInv
  <1>1. UNCHANGED <<largo, corto, grado>> /\ sem'.grado_multiprog = sem.grado_multiprog
    BY DEF ConectarIO, HiloIO, IOEsperaCliente, IOEnviaInstruccion, IORecibeFin,
       IOSeDesconecta, IOPasaPuerta, IOSacaDeEspera, IODesbloquea, HiloRecurso,
       RecursoEsperaCola, RecursoPasaPuerta, RecursoMiraEspera, RecursoTomaInstancia,
       RecursoSacaDeEspera, RecursoDesbloquea, push_cola_ready, push_cola_ready_priority,
       menosIO, menosRecurso, mando, TypeOK, TipoSem
  <1>2. ASSUME NEW p \in Procesos
        PROVE  \/ estado'[p] = estado[p]
               \/ /\ estado[p] = "BLOCKED"
                  /\ estado'[p] \in {"READY", "READY_PRIORIDAD"}
    <2>1. CASE UNCHANGED estado
      BY <2>1
    <2>2. CASE \E i \in Interfaces : IODesbloquea(i)
      BY <2>2, EnManoBloqueado DEF IODesbloquea, EnIO, push_cola_ready,
         push_cola_ready_priority, TypeOK, TipoEstado
    <2>3. CASE \E r \in Recursos : RecursoDesbloquea(r)
      BY <2>3, EnManoBloqueado DEF RecursoDesbloquea, EnRecurso, push_cola_ready, TypeOK,
         TipoEstado
    <2>4. QED
      BY <2>1, <2>2, <2>3 DEF ConectarIO, HiloIO, IOEsperaCliente, IOEnviaInstruccion,
         IORecibeFin, IOSeDesconecta, IOPasaPuerta, IOSacaDeEspera, HiloRecurso,
         RecursoEsperaCola, RecursoPasaPuerta, RecursoMiraEspera, RecursoTomaInstancia,
         RecursoSacaDeEspera
  <1>3. QED
    BY <1>1, <1>2, MismosAdmitidos, GradoQuieto DEF Admitido

LEMMA GradoPaso ==
  ASSUME "FINALIZAR_PROCESO" \notin Eventos, MaxCambios <= 1,
         IndInv, IndInv', JustoInv, EstadosInv, GradoInv, [Next]_vars,
         Carreras => CortoSeCuelga \/ ConsolaSeCuelga
  PROVE  GradoInv'
  <1>1. CASE UNCHANGED vars \/ ConsolaSeCuelga
    BY <1>1, MismosAdmitidos, GradoQuieto DEF vars, Admitido, ConsolaSeCuelga, menosConsola,
       mando
  <1>2. CASE Corto \/ CortoSeCuelga
    BY <1>2, GradoCortoMueve, GradoCortoQuieto, GradoCortoSale DEF Corto
  <1>3. QED
    BY <1>1, <1>2, GradoLargo, GradoConsola, GradoHilos DEF Next, JustoInv

LEMMA GradoAlEmpezar ==
  ASSUME Init
  PROVE  GradoInv
  <1>1. Admitidos = {}
    BY DEF Init, Admitidos, Admitido
  <1>2. Cuantos = 0
    BY <1>1, FS_EmptySet DEF Cuantos
  <1>3. Balance
    BY <1>2, ConstantesOK DEF Init, Balance, Uno, Deuda
  <1>4. grado.diferencia = 0 /\ corto.pc = "sem_ready"
    BY DEF Init
  <1>5. DeudaInv
    BY <1>4 DEF DeudaInv
  <1>6. QED
    BY <1>3, <1>5 DEF GradoInv

GradoSano == SinCarreras => GradoInv

\* With at most one MULTIPROGRAMACION and no FINALIZAR_PROCESO, for any degree
\* and any new value of it, and until two threads meet in a list, no slot of the
\* degree is lost or handed out twice: the exits pay the reduction back one by
\* one.
THEOREM GradoSeConserva ==
  ASSUME "FINALIZAR_PROCESO" \notin Eventos, MaxCambios <= 1
  PROVE  Spec => [](SinCarreras => GradoConservado)
  <1>1. IndInv /\ IndInv' /\ JustoInv /\ EstadosSanos /\ GradoSano /\ [Next]_vars
          => GradoSano'
    BY SanaAntes, GradoPaso DEF EstadosSanos, GradoSano
  <1>2. Init => GradoSano
    BY GradoAlEmpezar DEF GradoSano
  <1>3. IndInv /\ GradoSano => (SinCarreras => GradoConservado)
    BY BalanceEsGrado DEF GradoSano, GradoInv, IndInv
  <1>4. QED
    BY <1>1, <1>2, <1>3, Invariante, JustoInvariante, EstadosInvariante, PTL DEF Spec

-----------------------------------------------------------------------------
(***************************************************************************)
(* A created process is in one place.                                      *)
(***************************************************************************)
LEMMA PuestosDe ==
  ASSUME NEW q \in Seq(Procesos), SinRepetir(q), NEW p, NEW t, NEW x
  PROVE  /\ p \notin EnCola(q) => Puestos(t, x, q, p) = {}
         /\ p \in EnCola(q) => \E k : Puestos(t, x, q, p) = {<<t, x, k>>}
  <1>1. ASSUME p \notin EnCola(q)
        PROVE  Puestos(t, x, q, p) = {}
    BY <1>1 DEF Puestos, EnCola, ToSet
  <1>2. ASSUME p \in EnCola(q)
        PROVE  \E k : Puestos(t, x, q, p) = {<<t, x, k>>}
    <2>1. PICK k \in DOMAIN q : q[k] = p
      BY <1>2 DEF EnCola, ToSet
    <2>2. {j \in DOMAIN q : q[j] = p} = {k}
      BY <2>1 DEF SinRepetir, IsInjective
    <2>3. Puestos(t, x, q, p) = {<<t, x, k>>}
      BY <2>2 DEF Puestos
    <2>4. QED
      BY <2>3
  <1>3. QED
    BY <1>1, <1>2

\* The places of a process in the queue of an interface or a resource, or in the
\* hands of its thread.
LugaresEn(x, p) ==
  IF x \in Interfaces
  THEN Puestos("conexion", x, conexion[x].cola_espera, p)
       \cup EnMano("hilo_io", x, hilo_io[x], p)
  ELSE Puestos("recurso", x, recurso[x].procesos_en_espera, p)
       \cup EnMano("hilo_recurso", x, hilo_recurso[x], p)

EsperandoEn(p) == UNION {LugaresEn(x, p) : x \in Esperas}

LEMMA EnUnaEspera ==
  ASSUME IndInv, EstadosInv, NEW p \in Procesos, NEW x \in Esperas
  PROVE  /\ p \notin Esperan(x) => LugaresEn(x, p) = {}
         /\ p \in Esperan(x) => \E u : LugaresEn(x, p) = {u}
  <1> USE DEF IndInv, TypeOK
  <1>1. Fila(x) \in Seq(Procesos) /\ SinRepetir(Fila(x)) /\ EnCola(Fila(x)) \cap Mano(x) = {}
    BY DEF EstadosInv, FilasInv, Fila, Esperas, TipoConexion, UnaConexion, TipoRecurso,
       UnRecurso
  <1>2. CASE x \in Interfaces
    <2>1. hilo_io[x] \in [pc : PcsIO, pcb : Pcb]
      BY <1>2 DEF TipoHiloIO
    <2>2. hilo_io[x] = [pc |-> "push_ready", pcb |-> p] <=> p \in Mano(x)
      BY <1>2, <2>1 DEF Mano
    <2>3. LugaresEn(x, p) = Puestos("conexion", x, Fila(x), p)
                            \cup {u \in {<<"hilo_io", x, 0>>} : p \in Mano(x)}
      BY <1>2, <2>2 DEF LugaresEn, Fila, EnMano
    <2>4. QED
      BY <1>1, <2>3, PuestosDe DEF Esperan
  <1>3. CASE x \notin Interfaces
    <2>1. x \in Recursos /\ hilo_recurso[x] \in [pc : PcsRecurso, pcb : Pcb]
      BY <1>3 DEF TipoHiloRecurso, Esperas
    <2>2. hilo_recurso[x] = [pc |-> "push_ready", pcb |-> p] <=> p \in Mano(x)
      BY <1>3, <2>1 DEF Mano
    <2>3. LugaresEn(x, p) = Puestos("recurso", x, Fila(x), p)
                            \cup {u \in {<<"hilo_recurso", x, 0>>} : p \in Mano(x)}
      BY <1>3, <2>2 DEF LugaresEn, Fila, EnMano
    <2>4. QED
      BY <1>1, <2>3, PuestosDe DEF Esperan
  <1>4. QED
    BY <1>2, <1>3

LEMMA EnLasEsperas ==
  ASSUME IndInv, EstadosInv, NEW p \in Procesos
  PROVE  /\ estado[p] # "BLOCKED" => EsperandoEn(p) = {}
         /\ estado[p] = "BLOCKED" => \E u : EsperandoEn(p) = {u}
  <1>1. ASSUME estado[p] # "BLOCKED"
        PROVE  EsperandoEn(p) = {}
    <2>1. \A x \in Esperas : p \notin Esperan(x)
      BY <1>1 DEF EstadosInv, BloqueadosInv
    <2>2. \A x \in Esperas : LugaresEn(x, p) = {}
      BY <2>1, EnUnaEspera
    <2>3. QED
      BY <2>2 DEF EsperandoEn
  <1>2. ASSUME estado[p] = "BLOCKED"
        PROVE  \E u : EsperandoEn(p) = {u}
    <2>1. PICK x \in Esperas : p \in Esperan(x)
      BY <1>2 DEF EstadosInv, BloqueadosInv
    <2>2. \A y \in Esperas : y # x => p \notin Esperan(y)
      BY <2>1 DEF EstadosInv, BloqueadosInv
    <2>3. \A y \in Esperas : y # x => LugaresEn(y, p) = {}
      BY <2>2, EnUnaEspera
    <2>4. EsperandoEn(p) = LugaresEn(x, p)
      BY <2>3 DEF EsperandoEn
    <2>5. QED
      BY <2>1, <2>4, EnUnaEspera
  <1>3. QED
    BY <1>1, <1>2

LEMMA LugaresSon ==
  ASSUME TypeOK, NEW p \in Procesos
  PROVE  Lugares(p) =
           UNION {Puestos("cola", "new", cola.new, p), Puestos("cola", "ready", cola.ready, p),
                  Puestos("cola", "readyVRR", cola.readyVRR, p),
                  Puestos("cola", "execute", cola.execute, p),
                  Puestos("cola", "exit", cola.exit, p), EsperandoEn(p),
                  {u \in {<<"largo", Ninguno, 0>>} : LargoTiene(p)},
                  {u \in {<<"corto", Ninguno, 0>>} :
                     /\ corto.pcb = p
                     /\ corto.pc \in {"despachar", "a_ready", "validar", "a_io", "a_espera", "exit"}}}
  <1>1. UNION {Puestos("cola", c, cola[c], p) : c \in DOMAIN cola}
          = UNION {Puestos("cola", "new", cola.new, p), Puestos("cola", "ready", cola.ready, p),
                   Puestos("cola", "readyVRR", cola.readyVRR, p),
                   Puestos("cola", "execute", cola.execute, p),
                   Puestos("cola", "exit", cola.exit, p)}
    <2>1. DOMAIN cola = {"new", "ready", "readyVRR", "execute", "exit"}
      BY DEF TypeOK, TipoCola
    <2>2. {Puestos("cola", c, cola[c], p) : c \in DOMAIN cola}
            = {Puestos("cola", "new", cola.new, p), Puestos("cola", "ready", cola.ready, p),
               Puestos("cola", "readyVRR", cola.readyVRR, p),
               Puestos("cola", "execute", cola.execute, p),
               Puestos("cola", "exit", cola.exit, p)}
      BY <2>1
    <2>3. QED
      BY <2>2
  <1>2. EnMano("largo", Ninguno, largo, p) = {u \in {<<"largo", Ninguno, 0>>} : LargoTiene(p)}
    <2>1. largo = [pc |-> "push_ready", pcb |-> p] <=> LargoTiene(p)
      BY DEF LargoTiene, TypeOK, TipoLargo
    <2>2. QED
      BY <2>1 DEF EnMano
  <1>3. EsperandoEn(p) =
          (UNION {Puestos("conexion", i, conexion[i].cola_espera, p)
                    \cup EnMano("hilo_io", i, hilo_io[i], p) : i \in Interfaces})
          \cup (UNION {Puestos("recurso", r, recurso[r].procesos_en_espera, p)
                         \cup EnMano("hilo_recurso", r, hilo_recurso[r], p) : r \in Recursos})
    <2>1. \A r \in Recursos :
            LugaresEn(r, p) = Puestos("recurso", r, recurso[r].procesos_en_espera, p)
                                \cup EnMano("hilo_recurso", r, hilo_recurso[r], p)
      BY ConstantesOK DEF LugaresEn
    <2>2. \A i \in Interfaces :
            LugaresEn(i, p) = Puestos("conexion", i, conexion[i].cola_espera, p)
                                \cup EnMano("hilo_io", i, hilo_io[i], p)
      BY DEF LugaresEn
    <2>3. EsperandoEn(p) = (UNION {LugaresEn(i, p) : i \in Interfaces})
                           \cup (UNION {LugaresEn(r, p) : r \in Recursos})
      <3>1. \A u : u \in EsperandoEn(p) <=> \/ \E i \in Interfaces : u \in LugaresEn(i, p)
                                            \/ \E r \in Recursos : u \in LugaresEn(r, p)
        BY DEF EsperandoEn, Esperas
      <3>2. QED
        BY <3>1
    <2>4. {LugaresEn(i, p) : i \in Interfaces}
            = {Puestos("conexion", i, conexion[i].cola_espera, p)
                 \cup EnMano("hilo_io", i, hilo_io[i], p) : i \in Interfaces}
      BY <2>2
    <2>5. {LugaresEn(r, p) : r \in Recursos}
            = {Puestos("recurso", r, recurso[r].procesos_en_espera, p)
                 \cup EnMano("hilo_recurso", r, hilo_recurso[r], p) : r \in Recursos}
      BY <2>1
    <2>6. QED
      BY <2>3, <2>4, <2>5
  <1> DEFINE C == UNION {Puestos("cola", c, cola[c], p) : c \in DOMAIN cola}
             I == UNION {Puestos("conexion", i, conexion[i].cola_espera, p)
                           \cup EnMano("hilo_io", i, hilo_io[i], p) : i \in Interfaces}
             R == UNION {Puestos("recurso", r, recurso[r].procesos_en_espera, p)
                           \cup EnMano("hilo_recurso", r, hilo_recurso[r], p) : r \in Recursos}
             HL == {u \in {<<"largo", Ninguno, 0>>} : LargoTiene(p)}
             HC == {u \in {<<"corto", Ninguno, 0>>} :
                      /\ corto.pcb = p
                      /\ corto.pc \in {"despachar", "a_ready", "validar", "a_io", "a_espera", "exit"}}
             P(c) == Puestos("cola", c, cola[c], p)
  <1>4. Lugares(p) = C \cup I \cup R \cup EnMano("largo", Ninguno, largo, p) \cup HC
    BY DEF Lugares
  <1>5. C = UNION {P("new"), P("ready"), P("readyVRR"), P("execute"), P("exit")}
    BY <1>1
  <1>6. EsperandoEn(p) = I \cup R
    BY <1>3
  <1>7. EnMano("largo", Ninguno, largo, p) = HL
    BY <1>2
  <1>8. Lugares(p) = UNION {P("new"), P("ready"), P("readyVRR"), P("execute"), P("exit"),
                            EsperandoEn(p), HL, HC}
    <2> HIDE DEF C, I, R, HL, HC, P
    <2>1. QED
      BY <1>4, <1>5, <1>6, <1>7
  <1>9. QED
    BY <1>8

\* Where a process is, state by state.
LEMMA UnLugar ==
  ASSUME IndInv, EstadosInv, NEW p \in Procesos
  PROVE  IF estado[p] = "NO_CREADO" THEN Lugares(p) = {} ELSE \E u : Lugares(p) = {u}
  <1> USE DEF IndInv, TypeOK
  <1> DEFINE N == Puestos("cola", "new", cola.new, p)
             L == Puestos("cola", "ready", cola.ready, p)
             V == Puestos("cola", "readyVRR", cola.readyVRR, p)
             E == Puestos("cola", "execute", cola.execute, p)
             X == Puestos("cola", "exit", cola.exit, p)
             W == EsperandoEn(p)
             HL == {u \in {<<"largo", Ninguno, 0>>} : LargoTiene(p)}
             HC == {u \in {<<"corto", Ninguno, 0>>} :
                      /\ corto.pcb = p
                      /\ corto.pc \in {"despachar", "a_ready", "validar", "a_io", "a_espera", "exit"}}
             Vacio(S) == S = {}
             Unico(S) == \E u : S = {u}
  <1>1. Lugares(p) = UNION {N, L, V, E, X, W, HL, HC}
    BY LugaresSon
  <1>2. IF estado[p] = "NEW" /\ ~LargoTiene(p) THEN Unico(N) ELSE Vacio(N)
    BY PuestosDe DEF TipoCola, EstadosInv, NuevosInv
  <1>3. IF LargoTiene(p) THEN Unico(HL) /\ estado[p] = "NEW" ELSE Vacio(HL)
    <2>1. CASE LargoTiene(p)
      <3>1. HL = {<<"largo", Ninguno, 0>>} /\ estado[p] = "NEW"
        BY <2>1 DEF EstadosInv, NuevosInv
      <3>2. QED
        BY <2>1, <3>1
    <2>2. QED
      BY <2>1
  <1>4. IF estado[p] = "READY" /\ ~CortoTiene(p) THEN Unico(L) ELSE Vacio(L)
    <2>1. /\ cola.ready \in Seq(Procesos) /\ SinRepetir(cola.ready)
          /\ p \in EnCola(cola.ready) <=> estado[p] = "READY" /\ ~CortoTiene(p)
      BY DEF TipoCola, EstadosInv, ListosInv
    <2>2. QED
      BY <2>1, PuestosDe
  <1>5. IF estado[p] = "READY_PRIORIDAD" /\ ~CortoTiene(p) THEN Unico(V) ELSE Vacio(V)
    <2>1. /\ cola.readyVRR \in Seq(Procesos) /\ SinRepetir(cola.readyVRR)
          /\ p \in EnCola(cola.readyVRR) <=> estado[p] = "READY_PRIORIDAD" /\ ~CortoTiene(p)
      BY DEF TipoCola, EstadosInv, ListosInv
    <2>2. QED
      BY <2>1, PuestosDe
  <1>6. IF estado[p] = "EXIT" THEN Unico(X) ELSE Vacio(X)
    BY PuestosDe DEF TipoCola, EstadosInv, SalidosInv
  <1>7. IF estado[p] = "BLOCKED" THEN Unico(W) ELSE Vacio(W)
    BY EnLasEsperas
  <1>8. IF estado[p] = "EXECUTE" /\ EjecutaEnCpu THEN Unico(E) ELSE Vacio(E)
    <2>1. CASE EjecutaEnCpu
      <3>1. cola.execute = <<corto.pcb>> /\ corto.pcb \in Procesos
        BY <2>1 DEF UnSoloProcesoEnCpu, EjecutaEnCpu, TipoCorto
      <3>2. estado[p] = "EXECUTE" <=> p = corto.pcb
        BY <2>1 DEF EstadosInv, EjecutaInv, Ejecuta, PcsEjecuta, EjecutaEnCpu
      <3>3. SinRepetir(cola.execute) /\ EnCola(cola.execute) = {corto.pcb}
        BY <3>1 DEF SinRepetir, IsInjective, EnCola, ToSet
      <3>4. cola.execute \in Seq(Procesos)
        BY DEF TipoCola
      <3>5. IF p = corto.pcb THEN Unico(E) ELSE Vacio(E)
        BY <3>3, <3>4, PuestosDe
      <3>6. QED
        BY <2>1, <3>2, <3>5
    <2>2. CASE ~EjecutaEnCpu
      <3>1. cola.execute = <<>>
        BY <2>2 DEF UnSoloProcesoEnCpu
      <3>2. QED
        BY <2>2, <3>1, ColaVacia, PuestosDe DEF TipoCola
    <2>3. QED
      BY <2>1, <2>2
  <1>9. IF CortoTiene(p) \/ (estado[p] = "EXECUTE" /\ ~EjecutaEnCpu)
        THEN Unico(HC) ELSE Vacio(HC)
    <2>1. CortoTiene(p) \/ (estado[p] = "EXECUTE" /\ ~EjecutaEnCpu)
            <=> /\ corto.pcb = p
                /\ corto.pc \in {"despachar", "a_ready", "validar", "a_io", "a_espera", "exit"}
      BY DEF CortoTiene, EjecutaEnCpu, EstadosInv, EjecutaInv, Ejecuta, PcsEjecuta
    <2>2. CASE CortoTiene(p) \/ (estado[p] = "EXECUTE" /\ ~EjecutaEnCpu)
      <3>1. HC = {<<"corto", Ninguno, 0>>}
        BY <2>1, <2>2
      <3>2. QED
        BY <2>2, <3>1
    <2>3. QED
      BY <2>1, <2>2
  <1>10. CortoTiene(p) => estado[p] \in {"READY", "READY_PRIORIDAD"}
    BY DEF EstadosInv, ListosInv
  <1>11. estado[p] \in Estados
    BY DEF TipoEstado
  <1> HIDE DEF N, L, V, E, X, W, HL, HC
  <1> HIDE DEF IndInv, TypeOK
  <1>12. CASE estado[p] = "NO_CREADO"
    BY <1>1, <1>2, <1>3, <1>4, <1>5, <1>6, <1>7, <1>8, <1>9, <1>10, <1>12
  <1>13. CASE estado[p] = "NEW"
    <2>1. L = {} /\ V = {} /\ E = {} /\ X = {} /\ W = {} /\ HC = {}
      BY <1>4, <1>5, <1>6, <1>7, <1>8, <1>9, <1>10, <1>13
    <2>2. Lugares(p) = N \cup HL
      BY <1>1, <2>1
    <2>3. QED
      BY <1>2, <1>3, <1>13, <2>2
  <1>14. CASE estado[p] = "READY"
    BY <1>1, <1>2, <1>3, <1>4, <1>5, <1>6, <1>7, <1>8, <1>9, <1>10, <1>14
  <1>15. CASE estado[p] = "READY_PRIORIDAD"
    BY <1>1, <1>2, <1>3, <1>4, <1>5, <1>6, <1>7, <1>8, <1>9, <1>10, <1>15
  <1>16. CASE estado[p] = "EXECUTE"
    <2>1. N = {} /\ HL = {} /\ L = {} /\ V = {} /\ X = {} /\ W = {}
      BY <1>2, <1>3, <1>4, <1>5, <1>6, <1>7, <1>16
    <2>2. Lugares(p) = E \cup HC
      BY <1>1, <2>1
    <2>3. ~CortoTiene(p)
      BY <1>10, <1>16
    <2>4. QED
      BY <1>8, <1>9, <1>16, <2>2, <2>3
  <1>17. CASE estado[p] = "BLOCKED"
    BY <1>1, <1>2, <1>3, <1>4, <1>5, <1>6, <1>7, <1>8, <1>9, <1>10, <1>17
  <1>18. CASE estado[p] = "EXIT"
    BY <1>1, <1>2, <1>3, <1>4, <1>5, <1>6, <1>7, <1>8, <1>9, <1>10, <1>18
  <1>19. QED
    BY <1>11, <1>12, <1>13, <1>14, <1>15, <1>16, <1>17, <1>18 DEF Estados

\* Without FINALIZAR_PROCESO, and until two threads meet in a list with no lock
\* in common, no hand-over between two threads loses a process or leaves it in
\* two places, for every number of processes, interfaces and resources.
THEOREM UnLugarCadaUno ==
  ASSUME "FINALIZAR_PROCESO" \notin Eventos
  PROVE  Spec => []CadaProcesoEnUnLugar
  <1>1. IndInv /\ EstadosSanos => CadaProcesoEnUnLugar
    <2> SUFFICES ASSUME IndInv, EstadosInv, NEW p \in Procesos
                 PROVE  Cardinality(Lugares(p)) = Uno(estado[p] # "NO_CREADO")
      BY DEF CadaProcesoEnUnLugar, EstadosSanos
    <2>1. CASE estado[p] = "NO_CREADO"
      BY <2>1, UnLugar, FS_EmptySet DEF Uno
    <2>2. CASE estado[p] # "NO_CREADO"
      BY <2>2, UnLugar, FS_Singleton DEF Uno
    <2>3. QED
      BY <2>1, <2>2
  <1>2. QED
    BY <1>1, Invariante, EstadosInvariante, PTL DEF Spec

-----------------------------------------------------------------------------
(***************************************************************************)
(* The instances of the resources.                                         *)
(***************************************************************************)
Libres(r) == recurso[r].instancias

Tiene(r, p) == recurso[r].PIDs[p]

Duenos(r) == {p \in Procesos : Tiene(r, p) = 1}

EnEsperaDe(r) == EnCola(recurso[r].procesos_en_espera)

\* Programs that WAIT and SIGNAL in pairs have at most one instance, and each
\* instance is free or has an owner.
CuentaInv ==
  \A r \in Recursos :
    /\ \A p \in Procesos : Tiene(r, p) \in {0, 1}
    /\ Libres(r) + Cardinality(Duenos(r)) = InstanciasIniciales[r]

\* What the program asked for still makes sense when it is attended to.
PedidoInv ==
  /\ corto.pc \in {"puerta_respuesta", "atender"} /\ corto.arg \in Recursos =>
       /\ corto.op = "PROCESO_SOLICITA_RECURSO" => Tiene(corto.arg, corto.pcb) = 0
       /\ corto.op = "PROCESO_LIBERA_RECURSO" => Tiene(corto.arg, corto.pcb) = 1
  /\ corto.pc \in {"wait_recurso", "a_espera"} => Tiene(corto.arg, corto.pcb) = 0

\* The thread of a resource serves the head of its queue, and only once served
\* has a waiting process an instance.
TurnoInv ==
  \A r \in Recursos :
    hilo_recurso[r].pc \in {"wait_instancia", "pop_espera"} =>
      /\ recurso[r].procesos_en_espera # <<>>
      /\ hilo_recurso[r].pcb = Head(recurso[r].procesos_en_espera)

Servido(r, p) == hilo_recurso[r].pc = "pop_espera" /\ hilo_recurso[r].pcb = p

SinTurnoInv ==
  \A r \in Recursos : \A p \in EnEsperaDe(r) : Tiene(r, p) = 1 <=> Servido(r, p)

InstInv == CuentaInv /\ PedidoInv /\ TurnoInv /\ SinTurnoInv

\* The three things a step can do to the count of a resource.
LEMMA DuenosFinitos ==
  \A r : /\ IsFiniteSet(Duenos(r)) /\ Cardinality(Duenos(r)) \in Nat
         /\ \A p : IsFiniteSet(Duenos(r) \cup {p}) /\ IsFiniteSet(Duenos(r) \ {p})
  <1>1. IsFiniteSet(Procesos)
    BY FS_Interval, ConstantesOK DEF Procesos
  <1>2. \A r : IsFiniteSet(Duenos(r))
    BY <1>1, FS_Subset DEF Duenos
  <1>3. QED
    BY <1>2, FS_CardinalityType, FS_AddElement, FS_RemoveElement

LEMMA CuentaQuieta ==
  ASSUME NEW r \in Recursos, Libres(r)' = Libres(r),
         \A p \in Procesos : Tiene(r, p)' = Tiene(r, p), CuentaInv
  PROVE  /\ \A p \in Procesos : Tiene(r, p)' \in {0, 1}
         /\ Libres(r)' + Cardinality(Duenos(r)') = InstanciasIniciales[r]
  <1>1. Duenos(r)' = Duenos(r)
    BY DEF Duenos
  <1>2. QED
    BY <1>1 DEF CuentaInv

LEMMA CuentaToma ==
  ASSUME NEW r \in Recursos, NEW q \in Procesos, Libres(r) \in Nat, Libres(r)' = Libres(r) - 1,
         Tiene(r, q) = 0, Tiene(r, q)' = 1,
         \A p \in Procesos \ {q} : Tiene(r, p)' = Tiene(r, p), CuentaInv
  PROVE  /\ \A p \in Procesos : Tiene(r, p)' \in {0, 1}
         /\ Libres(r)' + Cardinality(Duenos(r)') = InstanciasIniciales[r]
  <1>1. Duenos(r)' = Duenos(r) \cup {q} /\ q \notin Duenos(r)
    BY DEF Duenos
  <1>2. Cardinality(Duenos(r)') = Cardinality(Duenos(r)) + 1
    BY <1>1, DuenosFinitos, FS_AddElement
  <1>3. Libres(r) + Cardinality(Duenos(r)) = InstanciasIniciales[r]
    BY DEF CuentaInv
  <1>4. Cardinality(Duenos(r)) \in Nat
    BY DuenosFinitos
  <1>5. QED
    BY <1>2, <1>3, <1>4 DEF CuentaInv

LEMMA CuentaSuelta ==
  ASSUME NEW r \in Recursos, NEW q \in Procesos, Libres(r) \in Nat, Libres(r)' = Libres(r) + 1,
         Tiene(r, q) = 1, Tiene(r, q)' = 0,
         \A p \in Procesos \ {q} : Tiene(r, p)' = Tiene(r, p), CuentaInv
  PROVE  /\ \A p \in Procesos : Tiene(r, p)' \in {0, 1}
         /\ Libres(r)' + Cardinality(Duenos(r)') = InstanciasIniciales[r]
  <1>1. Duenos(r)' = Duenos(r) \ {q} /\ q \in Duenos(r)
    BY DEF Duenos
  <1>2. Cardinality(Duenos(r)') = Cardinality(Duenos(r)) - 1
    BY <1>1, DuenosFinitos, FS_RemoveElement
  <1>3. Libres(r) + Cardinality(Duenos(r)) = InstanciasIniciales[r]
    BY DEF CuentaInv
  <1>4. Cardinality(Duenos(r)) \in Nat
    BY DuenosFinitos
  <1>5. QED
    BY <1>2, <1>3, <1>4 DEF CuentaInv

\* wait_recurso and signal_recurso on the entries of the model.
LEMMA TomadoDa ==
  ASSUME TipoRecurso, NEW r \in Recursos, NEW q \in Procesos,
         recurso'[r] = Tomado(recurso[r], q)
  PROVE  /\ Libres(r) \in Nat /\ Libres(r)' = Libres(r) - 1
         /\ Tiene(r, q)' = Tiene(r, q) + 1
         /\ \A p \in Procesos \ {q} : Tiene(r, p)' = Tiene(r, p)
         /\ recurso'[r].procesos_en_espera = recurso[r].procesos_en_espera
  <1>1. recurso[r].PIDs \in [Procesos -> Nat] /\ recurso[r].instancias \in Nat
    BY DEF TipoRecurso, UnRecurso
  <1>2. /\ recurso'[r].PIDs = [recurso[r].PIDs EXCEPT ![q] = @ + 1]
        /\ recurso'[r].instancias = recurso[r].instancias - 1
        /\ recurso'[r].procesos_en_espera = recurso[r].procesos_en_espera
    BY DEF Tomado
  <1>3. QED
    BY <1>1, <1>2 DEF Libres, Tiene

LEMMA SenaladoDa ==
  ASSUME TipoRecurso, NEW r \in Recursos, NEW q \in Procesos,
         recurso'[r] = Senalado(recurso[r], q)
  PROVE  /\ Libres(r) \in Nat /\ Libres(r)' = Libres(r) + 1
         /\ Tiene(r, q)' = 0
         /\ \A p \in Procesos \ {q} : Tiene(r, p)' = Tiene(r, p)
         /\ recurso'[r].procesos_en_espera = recurso[r].procesos_en_espera
  <1>1. recurso[r].PIDs \in [Procesos -> Nat] /\ recurso[r].instancias \in Nat
    BY DEF TipoRecurso, UnRecurso
  <1>2. /\ recurso'[r].PIDs = [recurso[r].PIDs EXCEPT ![q] = 0]
        /\ recurso'[r].instancias = recurso[r].instancias + 1
        /\ recurso'[r].procesos_en_espera = recurso[r].procesos_en_espera
    BY DEF Senalado
  <1>3. QED
    BY <1>1, <1>2 DEF Libres, Tiene

\* Between the push to EXIT and the release, the process is already in EXIT.
SueltaEnExit == corto.pc = "exit_recursos" => estado[corto.pcb] = "EXIT"

\* The process the scheduler runs, or is releasing, waits for nothing.
LEMMA EnCursoNoEspera ==
  ASSUME IndInv, EstadosInv, SueltaEnExit, corto.pc \in PcsEjecuta \cup {"exit_recursos"}
  PROVE  /\ corto.pcb \in Procesos
         /\ corto.pc \in PcsEjecuta => estado[corto.pcb] = "EXECUTE"
         /\ \A r \in Recursos : corto.pcb \notin EnEsperaDe(r)
  <1>1. corto.pcb \in Procesos
    BY DEF PcsEjecuta, IndInv, TypeOK, TipoCorto
  <1>2. /\ estado[corto.pcb] # "BLOCKED"
        /\ corto.pc \in PcsEjecuta => estado[corto.pcb] = "EXECUTE"
    BY <1>1 DEF EstadosInv, EjecutaInv, Ejecuta, SueltaEnExit
  <1>3. \A r \in Recursos : corto.pcb \notin Esperan(r)
    BY <1>1, <1>2 DEF EstadosInv, BloqueadosInv, Esperas
  <1>4. \A r \in Recursos : Fila(r) = recurso[r].procesos_en_espera
    BY ConstantesOK DEF Fila
  <1>5. QED
    BY <1>1, <1>2, <1>3, <1>4 DEF Esperan, EnEsperaDe

\* A step of the short-term scheduler on the instances of its process.
LEMMA TurnosQuedan ==
  ASSUME IndInv, EstadosInv, SueltaEnExit, TurnoInv, SinTurnoInv,
         corto.pc \in PcsEjecuta \cup {"exit_recursos"}, UNCHANGED hilo_recurso,
         \A r \in Recursos :
           /\ recurso'[r].procesos_en_espera = recurso[r].procesos_en_espera
           /\ \A p \in Procesos \ {corto.pcb} : Tiene(r, p)' = Tiene(r, p)
  PROVE  TurnoInv' /\ SinTurnoInv'
  <1>1. TurnoInv'
    BY DEF TurnoInv
  <1>2. \A r \in Recursos : EnEsperaDe(r)' = EnEsperaDe(r)
    BY DEF EnEsperaDe
  <1>3. \A r \in Recursos : EnEsperaDe(r) \subseteq Procesos
    BY EnColaTipo DEF EnEsperaDe, IndInv, TypeOK, TipoRecurso, UnRecurso
  <1>4. \A r \in Recursos : \A p \in EnEsperaDe(r) :
          Tiene(r, p)' = Tiene(r, p) /\ (Servido(r, p)' <=> Servido(r, p))
    BY <1>3, EnCursoNoEspera DEF Servido
  <1>5. SinTurnoInv'
    BY <1>2, <1>4 DEF SinTurnoInv
  <1>6. QED
    BY <1>1, <1>5

\* planificador_corto.c: the steps that leave the resources alone,
LEMMA InstCortoQuieto ==
  ASSUME Disciplinados, IndInv, EstadosInv, InstInv, Corto \/ CortoSeCuelga,
         UNCHANGED recurso
  PROVE  InstInv'
  <1>1. UNCHANGED hilo_recurso
    BY DEF Corto, CortoEsperaListo, CortoEsperaCpu, CortoPasaPuerta, CortoElige,
       CortoSacaDeReady, CortoSacaDePrioridad, CortoSacaDe, CortoDespacha, CortoRecibe,
       CortoPasaPuertaRespuesta, CortoAtiendeFin, CortoAtiendeQuantum, CortoAtiendeIO,
       CortoValidaIO, CortoAtiendeSolicita, CortoAtiendeLibera, CortoTomaRecurso,
       CortoDevuelveAReady, CortoEncolaEnIO, CortoEncolaEnRecurso, CortoFinaliza,
       CortoLiberaRecursos, CortoLiberaGrado, CortoReduceGrado, CortoLiberaCpu,
       CortoSeCuelga, menosCorto
  <1>2. CuentaInv' /\ TurnoInv' /\ SinTurnoInv'
    BY <1>1 DEF InstInv, CuentaInv, TurnoInv, SinTurnoInv, Libres, Tiene, Duenos, EnEsperaDe,
       Servido
  <1>3. \A r, p : Tiene(r, p)' = Tiene(r, p)
    BY DEF Tiene
  <1>4. PedidoInv'
    <2> USE DEF IndInv, TypeOK, TipoCorto
    <2>1. CASE CortoRecibe
      <3>1. PICK s \in Respuestas :
              corto' = [corto EXCEPT !.pc = "puerta_respuesta", !.op = s.op, !.arg = s.arg]
        BY <2>1 DEF CortoRecibe
      <3>2. /\ corto'.pc = "puerta_respuesta" /\ corto'.op = s.op /\ corto'.arg = s.arg
            /\ corto'.pcb = corto.pcb /\ corto.pcb \in Procesos
        BY <2>1, <3>1 DEF CortoRecibe, EnCorto
      <3>3. s.arg \in Recursos /\ s.op \in {"PROCESO_SOLICITA_RECURSO", "PROCESO_LIBERA_RECURSO"}
              => PideRecurso(s.op, s.arg)
        BY ConstantesOK DEF Respuestas, OpsFinales
      <3>4. s.arg \in Recursos =>
              /\ s.op = "PROCESO_SOLICITA_RECURSO" => Tiene(s.arg, corto.pcb) = 0
              /\ s.op = "PROCESO_LIBERA_RECURSO" => Tiene(s.arg, corto.pcb) > 0
        BY <3>3, ConstantesOK DEF PideRecurso, Tiene
      <3>5. s.arg \in Recursos => Tiene(s.arg, corto.pcb) \in {0, 1}
        BY <3>2 DEF InstInv, CuentaInv
      <3>6. QED
        BY <1>3, <3>2, <3>4, <3>5 DEF PedidoInv
    <2>2. CASE CortoPasaPuertaRespuesta
      <3>1. /\ corto.pc = "puerta_respuesta" /\ corto'.pc = "atender" /\ corto'.op = corto.op
            /\ corto'.arg = corto.arg /\ corto'.pcb = corto.pcb
        BY <2>2 DEF CortoPasaPuertaRespuesta, EnCorto, CortoVa
      <3>2. QED
        BY <1>3, <3>1 DEF InstInv, PedidoInv
    <2>3. CASE CortoAtiendeSolicita
      <3>1. /\ corto.pc = "atender" /\ corto.op = "PROCESO_SOLICITA_RECURSO"
            /\ corto.arg \in Recursos /\ corto'.pc \in {"wait_recurso", "a_espera"}
            /\ corto'.arg = corto.arg /\ corto'.pcb = corto.pcb
        BY <2>3 DEF CortoAtiendeSolicita, EnCorto, CortoVa
      <3>2. QED
        BY <1>3, <3>1 DEF InstInv, PedidoInv
    <2>4. CASE \/ CortoEsperaListo \/ CortoEsperaCpu \/ CortoPasaPuerta \/ CortoElige
               \/ CortoSacaDeReady \/ CortoSacaDePrioridad \/ CortoDespacha
               \/ CortoAtiendeFin \/ CortoAtiendeQuantum \/ CortoAtiendeIO \/ CortoValidaIO
               \/ CortoAtiendeLibera \/ CortoTomaRecurso \/ CortoDevuelveAReady
               \/ CortoEncolaEnIO \/ CortoEncolaEnRecurso \/ CortoFinaliza
               \/ CortoLiberaRecursos \/ CortoLiberaGrado \/ CortoReduceGrado
               \/ CortoLiberaCpu \/ CortoSeCuelga
      <3>1. \/ corto' = corto
            \/ corto'.pc \notin {"puerta_respuesta", "atender", "wait_recurso", "a_espera"}
        BY <2>4 DEF CortoEsperaListo, CortoEsperaCpu, CortoPasaPuerta, CortoElige,
           CortoSacaDeReady, CortoSacaDePrioridad, CortoSacaDe, CortoDespacha,
           CortoAtiendeFin, CortoAtiendeQuantum, CortoAtiendeIO, CortoValidaIO,
           CortoAtiendeLibera, CortoTomaRecurso, CortoDevuelveAReady, CortoEncolaEnIO,
           CortoEncolaEnRecurso, CortoFinaliza, CortoLiberaRecursos, CortoLiberaGrado,
           CortoReduceGrado, CortoLiberaCpu, CortoSeCuelga, CortoVa
      <3>2. QED
        BY <1>3, <3>1 DEF InstInv, PedidoInv
    <2>5. QED
      BY <2>1, <2>2, <2>3, <2>4 DEF Corto
  <1>5. QED
    BY <1>2, <1>4 DEF InstInv

\* and those that give or take an instance, or queue the process.
LEMMA InstCortoMueve ==
  ASSUME Disciplinados, IndInv, EstadosInv, SueltaEnExit, InstInv,
         CortoAtiendeLibera \/ CortoTomaRecurso \/ CortoLiberaRecursos
  PROVE  InstInv'
  <1> USE DEF IndInv, TypeOK
  <1>1. /\ UNCHANGED hilo_recurso /\ corto.pc \in PcsEjecuta \cup {"exit_recursos"}
        /\ corto'.pc \notin {"puerta_respuesta", "atender", "wait_recurso", "a_espera"}
    BY DEF CortoAtiendeLibera, CortoTomaRecurso, CortoLiberaRecursos, EnCorto, CortoVa,
       menosCorto, PcsEjecuta, TipoCorto
  <1>2. corto.pcb \in Procesos
    BY <1>1, EnCursoNoEspera
  <1>3. ASSUME NEW r \in Recursos
        PROVE  \/ recurso'[r] = recurso[r]
               \/ recurso'[r] = Tomado(recurso[r], corto.pcb) /\ Tiene(r, corto.pcb) = 0
               \/ recurso'[r] = Senalado(recurso[r], corto.pcb) /\ Tiene(r, corto.pcb) = 1
    <2>1. CASE CortoAtiendeLibera
      <3>1. corto.arg \in Recursos /\ Tiene(corto.arg, corto.pcb) = 1
        BY <2>1 DEF CortoAtiendeLibera, EnCorto, TipoCorto, InstInv, PedidoInv
      <3>2. QED
        BY <2>1, <3>1 DEF CortoAtiendeLibera, TipoRecurso
    <2>2. CASE CortoTomaRecurso
      <3>1. corto.arg \in Recursos /\ Tiene(corto.arg, corto.pcb) = 0
        BY <2>2 DEF CortoTomaRecurso, EnCorto, TipoCorto, InstInv, PedidoInv
      <3>2. QED
        BY <2>2, <3>1 DEF CortoTomaRecurso, TipoRecurso
    <2>3. CASE CortoLiberaRecursos
      <3>1. recurso'[r] = IF Tiene(r, corto.pcb) > 0 THEN Senalado(recurso[r], corto.pcb)
                                                     ELSE recurso[r]
        BY <2>3 DEF CortoLiberaRecursos, liberar_recurso_del_proceso, Tiene
      <3>2. Tiene(r, corto.pcb) \in {0, 1}
        BY <1>2 DEF InstInv, CuentaInv
      <3>3. QED
        BY <3>1, <3>2
    <2>4. QED
      BY <2>1, <2>2, <2>3
  <1>4. ASSUME NEW r \in Recursos
        PROVE  /\ recurso'[r].procesos_en_espera = recurso[r].procesos_en_espera
               /\ \A p \in Procesos \ {corto.pcb} : Tiene(r, p)' = Tiene(r, p)
               /\ \A p \in Procesos : Tiene(r, p)' \in {0, 1}
               /\ Libres(r)' + Cardinality(Duenos(r)') = InstanciasIniciales[r]
    <2>a. PICK q \in Procesos : q = corto.pcb
      BY <1>2
    <2>1. CASE recurso'[r] = recurso[r]
      <3>1. Libres(r)' = Libres(r) /\ \A p \in Procesos : Tiene(r, p)' = Tiene(r, p)
        BY <2>1 DEF Libres, Tiene
      <3>2. QED
        BY <2>a, <2>1, <3>1, CuentaQuieta DEF InstInv
    <2>2. CASE recurso'[r] = Tomado(recurso[r], q) /\ Tiene(r, q) = 0
      <3>1. Tiene(r, q)' = Tiene(r, q) + 1
        BY <2>2, TomadoDa
      <3>2. Tiene(r, q)' = 1
        BY <2>2, <3>1
      <3>3. QED
        BY <2>a, <2>2, <3>2, TomadoDa, CuentaToma DEF InstInv
    <2>3. CASE recurso'[r] = Senalado(recurso[r], q) /\ Tiene(r, q) = 1
      BY <2>a, <2>3, SenaladoDa, CuentaSuelta DEF InstInv
    <2>4. QED
      BY <1>3, <2>a, <2>1, <2>2, <2>3
  <1>5. CuentaInv'
    BY <1>4 DEF CuentaInv
  <1>6. TurnoInv' /\ SinTurnoInv'
    BY <1>1, <1>4, TurnosQuedan DEF InstInv
  <1>7. PedidoInv'
    BY <1>1 DEF PedidoInv
  <1>8. QED
    BY <1>5, <1>6, <1>7 DEF InstInv

LEMMA InstCortoEncola ==
  ASSUME IndInv, EstadosInv, SueltaEnExit, InstInv, CortoEncolaEnRecurso
  PROVE  InstInv'
  <1> USE DEF IndInv, TypeOK
  <1>1. PICK s \in Recursos : s = corto.arg
    BY DEF CortoEncolaEnRecurso, EnCorto, TipoCorto
  <1>2. /\ corto.pc = "a_espera" /\ corto'.pc = "post_cpu" /\ UNCHANGED hilo_recurso
        /\ corto.pcb \in Procesos
        /\ recurso' = [recurso EXCEPT ![s] = EnEspera(@, corto.pcb)]
    BY <1>1 DEF CortoEncolaEnRecurso, EnCorto, CortoVa, menosCorto, TipoCorto
  <1>3. /\ \A r \in Recursos : Libres(r)' = Libres(r) /\ \A p : Tiene(r, p)' = Tiene(r, p)
        /\ \A r \in Recursos \ {s} : recurso'[r] = recurso[r]
        /\ recurso'[s].procesos_en_espera = Append(recurso[s].procesos_en_espera, corto.pcb)
        /\ recurso[s].procesos_en_espera \in Seq(Procesos)
    BY <1>2 DEF EnEspera, TipoRecurso, UnRecurso, Libres, Tiene
  <1>4. CuentaInv'
    BY <1>3, CuentaQuieta DEF CuentaInv, InstInv
  <1>5. PedidoInv'
    BY <1>2 DEF PedidoInv
  <1>6. TurnoInv'
    <2> SUFFICES ASSUME hilo_recurso[s].pc \in {"wait_instancia", "pop_espera"}
                 PROVE  /\ recurso'[s].procesos_en_espera # <<>>
                        /\ hilo_recurso[s].pcb = Head(recurso'[s].procesos_en_espera)
      BY <1>2, <1>3 DEF TurnoInv, InstInv
    <2>1. /\ recurso[s].procesos_en_espera # <<>>
          /\ hilo_recurso[s].pcb = Head(recurso[s].procesos_en_espera)
      BY DEF TurnoInv, InstInv
    <2>2. QED
      BY <1>2, <1>3, <2>1, AppendProperties, HeadTailProperties, LenProperties, EmptySeq
  <1>7. SinTurnoInv'
    <2>1. Tiene(s, corto.pcb) = 0
      BY <1>1, <1>2 DEF InstInv, PedidoInv
    <2>2. \A r \in Recursos : corto.pcb \notin EnEsperaDe(r)
      BY <1>2, EnCursoNoEspera DEF PcsEjecuta
    <2>3. ~Servido(s, corto.pcb)
      <3>1. SUFFICES ASSUME Servido(s, corto.pcb)
                     PROVE  FALSE
        OBVIOUS
      <3>2. /\ recurso[s].procesos_en_espera # <<>>
            /\ corto.pcb = Head(recurso[s].procesos_en_espera)
        BY <3>1 DEF InstInv, TurnoInv, Servido
      <3>3. corto.pcb \in EnEsperaDe(s)
        BY <1>3, <3>2, HeadTailProperties, LenProperties, EmptySeq DEF EnEsperaDe, EnCola, ToSet
      <3>4. QED
        BY <2>2, <3>3
    <2>4. /\ EnEsperaDe(s)' = EnEsperaDe(s) \cup {corto.pcb}
          /\ \A r \in Recursos \ {s} : EnEsperaDe(r)' = EnEsperaDe(r)
      BY <1>2, <1>3, Encolar DEF EnEsperaDe
    <2>5. \A r, p : Servido(r, p)' <=> Servido(r, p)
      BY <1>2 DEF Servido
    <2>6. QED
      BY <1>3, <2>1, <2>3, <2>4, <2>5 DEF SinTurnoInv, InstInv
  <1>8. QED
    BY <1>4, <1>5, <1>6, <1>7 DEF InstInv

LEMMA InstCorto ==
  ASSUME Disciplinados, IndInv, EstadosInv, SueltaEnExit, InstInv, Corto \/ CortoSeCuelga
  PROVE  InstInv'
  <1>1. \/ UNCHANGED recurso
        \/ CortoAtiendeLibera \/ CortoTomaRecurso \/ CortoLiberaRecursos
        \/ CortoEncolaEnRecurso
    BY DEF Corto, CortoEsperaListo, CortoEsperaCpu, CortoPasaPuerta, CortoElige,
       CortoSacaDeReady, CortoSacaDePrioridad, CortoSacaDe, CortoDespacha, CortoRecibe,
       CortoPasaPuertaRespuesta, CortoAtiendeFin, CortoAtiendeQuantum, CortoAtiendeIO,
       CortoValidaIO, CortoAtiendeSolicita, CortoDevuelveAReady, CortoEncolaEnIO,
       CortoFinaliza, CortoLiberaGrado, CortoReduceGrado, CortoLiberaCpu, CortoSeCuelga
  <1>2. QED
    BY <1>1, InstCortoQuieto, InstCortoMueve, InstCortoEncola

\* recurso.c: the thread of a resource.
LEMMA InstRecurso ==
  ASSUME IndInv, EstadosInv, SueltaEnExit, InstInv, NEW s \in Recursos, HiloRecurso(s)
  PROVE  InstInv'
  <1> USE DEF IndInv, TypeOK
  <1>1. /\ UNCHANGED corto
        /\ \A r \in Recursos \ {s} : recurso'[r] = recurso[r] /\ hilo_recurso'[r] = hilo_recurso[r]
    BY RecursoAjeno
  <1>2. PedidoInv'
    <2> SUFFICES ASSUME corto.pc \in PcsEjecuta, corto.arg \in Recursos
                 PROVE  Tiene(corto.arg, corto.pcb)' = Tiene(corto.arg, corto.pcb)
      BY <1>1 DEF PedidoInv, InstInv, PcsEjecuta, TipoCorto
    <2>1. corto.pcb \in Procesos /\ estado[corto.pcb] = "EXECUTE"
      BY EnCursoNoEspera
    <2>2. QED
      BY <1>1, <2>1, TomaRecurso DEF Tiene
  <1>3. recurso[s].procesos_en_espera \in Seq(Procesos) /\ EnEsperaDe(s) \subseteq Procesos
    BY EnColaTipo DEF TipoRecurso, UnRecurso, EnEsperaDe
  <1>4. SUFFICES /\ \A p \in Procesos : Tiene(s, p)' \in {0, 1}
                 /\ Libres(s)' + Cardinality(Duenos(s)') = InstanciasIniciales[s]
                 /\ hilo_recurso'[s].pc \in {"wait_instancia", "pop_espera"} =>
                      /\ recurso'[s].procesos_en_espera # <<>>
                      /\ hilo_recurso'[s].pcb = Head(recurso'[s].procesos_en_espera)
                 /\ \A p \in EnEsperaDe(s)' : Tiene(s, p)' = 1 <=> Servido(s, p)'
    <2>1. /\ \A r \in Recursos \ {s} :
               /\ Libres(r)' = Libres(r) /\ \A p : Tiene(r, p)' = Tiene(r, p)
               /\ EnEsperaDe(r)' = EnEsperaDe(r) /\ \A p : Servido(r, p)' <=> Servido(r, p)
      BY <1>1 DEF Libres, Tiene, EnEsperaDe, Servido
    <2>2. CuentaInv'
      BY <1>4, <2>1, CuentaQuieta DEF CuentaInv, InstInv
    <2>3. TurnoInv'
      BY <1>1, <1>4 DEF TurnoInv, InstInv
    <2>4. SinTurnoInv'
      BY <1>4, <2>1 DEF SinTurnoInv, InstInv
    <2>5. QED
      BY <1>2, <2>2, <2>3, <2>4 DEF InstInv
  <1>5. CASE \/ RecursoEsperaCola(s) \/ RecursoPasaPuerta(s) \/ RecursoMiraEspera(s)
             \/ RecursoDesbloquea(s)
    <2>1. /\ Libres(s)' = Libres(s) /\ \A p : Tiene(s, p)' = Tiene(s, p)
          /\ recurso'[s].procesos_en_espera = recurso[s].procesos_en_espera
      BY <1>5 DEF RecursoEsperaCola, RecursoPasaPuerta, RecursoMiraEspera, RecursoDesbloquea,
         TipoRecurso, UnRecurso, Libres, Tiene
    <2>2. EnEsperaDe(s)' = EnEsperaDe(s)
      BY <2>1 DEF EnEsperaDe
    <2>3. /\ hilo_recurso[s].pc # "pop_espera" /\ hilo_recurso'[s].pc # "pop_espera"
          /\ hilo_recurso'[s].pc = "wait_instancia" =>
               /\ recurso[s].procesos_en_espera # <<>>
               /\ hilo_recurso'[s].pcb = Head(recurso[s].procesos_en_espera)
      BY <1>5 DEF RecursoEsperaCola, RecursoPasaPuerta, RecursoMiraEspera, RecursoDesbloquea,
         EnRecurso, RecursoVa, TipoHiloRecurso
    <2>4. \A p \in EnEsperaDe(s) : Tiene(s, p) = 1 <=> Servido(s, p)
      BY DEF InstInv, SinTurnoInv
    <2>5. QED
      BY <2>1, <2>2, <2>3, <2>4, CuentaQuieta DEF InstInv, Servido
  <1>6. CASE RecursoTomaInstancia(s)
    <2>a. PICK q \in Procesos : q = hilo_recurso[s].pcb
      BY <1>6 DEF RecursoTomaInstancia, EnRecurso, TipoHiloRecurso
    <2>1. /\ hilo_recurso[s].pc = "wait_instancia" /\ hilo_recurso[s].pcb = q
          /\ recurso[s].procesos_en_espera # <<>>
          /\ q = Head(recurso[s].procesos_en_espera)
      BY <1>6, <2>a DEF RecursoTomaInstancia, EnRecurso, TipoHiloRecurso, InstInv, TurnoInv
    <2>2. q \in EnEsperaDe(s)
      BY <1>3, <2>1, HeadTailProperties, LenProperties, EmptySeq DEF EnEsperaDe, EnCola, ToSet
    <2>3. Contains(recurso[s].procesos_en_espera, q)
      BY <1>3, <2>2, LenProperties DEF Contains, EnEsperaDe, EnCola, ToSet
    <2>4. /\ recurso' = [recurso EXCEPT ![s] = Tomado(@, q)]
          /\ RecursoVa(s, "pop_espera", q)
      BY <1>6, <2>a, <2>3 DEF RecursoTomaInstancia
    <2>5. /\ recurso'[s] = Tomado(recurso[s], q)
          /\ hilo_recurso'[s] = [pc |-> "pop_espera", pcb |-> q]
      BY <2>4 DEF TipoRecurso, TipoHiloRecurso, RecursoVa
    <2>6. Tiene(s, q) = 0
      <3>1. ~Servido(s, q)
        BY <2>1 DEF Servido
      <3>2. QED
        BY <2>1, <2>2, <3>1 DEF InstInv, SinTurnoInv, CuentaInv
    <2>7. /\ Libres(s) \in Nat /\ Libres(s)' = Libres(s) - 1 /\ Tiene(s, q)' = 1
          /\ \A p \in Procesos \ {q} : Tiene(s, p)' = Tiene(s, p)
          /\ recurso'[s].procesos_en_espera = recurso[s].procesos_en_espera
      <3>1. Tiene(s, q)' = Tiene(s, q) + 1
        BY <2>5, TomadoDa
      <3>2. Tiene(s, q)' = 1
        BY <2>6, <3>1
      <3>3. QED
        BY <2>5, <3>2, TomadoDa
    <2>8. /\ \A p \in Procesos : Tiene(s, p)' \in {0, 1}
          /\ Libres(s)' + Cardinality(Duenos(s)') = InstanciasIniciales[s]
      BY <2>6, <2>7, CuentaToma DEF InstInv
    <2>9. EnEsperaDe(s)' = EnEsperaDe(s)
      BY <2>7 DEF EnEsperaDe
    <2>10. \A p \in EnEsperaDe(s) : Tiene(s, p)' = 1 <=> p = q
      <3>1. \A p \in EnEsperaDe(s) : ~(Tiene(s, p) = 1)
        BY <2>1 DEF InstInv, SinTurnoInv, Servido
      <3>2. \A p \in EnEsperaDe(s) : p # q => Tiene(s, p)' = Tiene(s, p)
        BY <1>3, <2>7
      <3>3. QED
        BY <2>7, <3>1, <3>2
    <2>11. QED
      BY <2>1, <2>5, <2>7, <2>8, <2>9, <2>10 DEF Servido
  <1>7. CASE RecursoSacaDeEspera(s)
    <2>1. /\ hilo_recurso[s].pc = "pop_espera"
          /\ recurso[s].procesos_en_espera # <<>>
          /\ hilo_recurso[s].pcb = Head(recurso[s].procesos_en_espera)
      BY <1>7 DEF RecursoSacaDeEspera, EnRecurso, InstInv, TurnoInv
    <2>2. /\ recurso' = [recurso EXCEPT ![s].procesos_en_espera = Tail(@)]
          /\ RecursoVa(s, "push_ready", Head(recurso[s].procesos_en_espera))
      BY <1>7, <2>1 DEF RecursoSacaDeEspera
    <2>3. /\ Libres(s)' = Libres(s) /\ \A p : Tiene(s, p)' = Tiene(s, p)
          /\ recurso'[s].procesos_en_espera = Tail(recurso[s].procesos_en_espera)
          /\ hilo_recurso'[s].pc = "push_ready"
      BY <2>2 DEF TipoRecurso, UnRecurso, TipoHiloRecurso, RecursoVa, Libres, Tiene
    <2>4. SinRepetir(recurso[s].procesos_en_espera)
      BY ConstantesOK DEF EstadosInv, FilasInv, Fila, Esperas
    <2>5. EnEsperaDe(s)' = EnEsperaDe(s) \ {Head(recurso[s].procesos_en_espera)}
      BY <1>3, <2>1, <2>3, <2>4, Desencolar DEF EnEsperaDe
    <2>6. \A p \in EnEsperaDe(s)' : ~(Tiene(s, p) = 1)
      BY <2>1, <2>5 DEF InstInv, SinTurnoInv, Servido
    <2>7. QED
      BY <2>3, <2>5, <2>6, CuentaQuieta DEF InstInv, Servido
  <1>8. QED
    BY <1>5, <1>6, <1>7 DEF HiloRecurso

LEMMA InstPaso ==
  ASSUME "FINALIZAR_PROCESO" \notin Eventos, Disciplinados,
         IndInv, JustoInv, EstadosInv, SueltaEnExit, InstInv, [Next]_vars,
         Carreras => CortoSeCuelga \/ ConsolaSeCuelga
  PROVE  InstInv'
  <1>1. CASE UNCHANGED <<recurso, hilo_recurso, corto>>
    BY <1>1 DEF InstInv, CuentaInv, PedidoInv, TurnoInv, SinTurnoInv, Libres, Tiene, Duenos,
       EnEsperaDe, Servido
  <1>2. CASE Corto \/ CortoSeCuelga
    BY <1>2, InstCorto
  <1>3. CASE \E s \in Recursos : HiloRecurso(s)
    BY <1>3, InstRecurso
  <1>4. QED
    BY <1>1, <1>2, <1>3, ConsolaSinFinalizar DEF JustoInv, Next, vars, Largo,
       LargoEsperaGrado, LargoEsperaNuevo, LargoPasaPuerta, LargoSacaDeNew, LargoAdmite,
       IniciarProceso, DetenerPlanificacion, DetenerEnPausa, ReanudarPlanificacion,
       Multiprogramacion, ConectarIO, HiloIO, IOEsperaCliente, IOEnviaInstruccion,
       IORecibeFin, IOSeDesconecta, IOPasaPuerta, IOSacaDeEspera, IODesbloquea,
       ConsolaSeCuelga, menosLargo, menosConsola, menosIO, hilos

LEMMA SueltaPaso ==
  ASSUME "FINALIZAR_PROCESO" \notin Eventos, IndInv, JustoInv, EstadosInv, SueltaEnExit,
         [Next]_vars
  PROVE  SueltaEnExit'
  <1> SUFFICES ASSUME corto'.pc = "exit_recursos"
               PROVE  estado'[corto'.pcb] = "EXIT"
    BY DEF SueltaEnExit
  <1>1. CASE Corto
    <2>1. CortoFinaliza
      BY <1>1 DEF IndInv, TypeOK, TipoCorto, Corto, EnCorto, CortoVa, CortoEsperaListo,
         CortoEsperaCpu, CortoPasaPuerta, CortoElige, CortoSacaDeReady, CortoSacaDePrioridad,
         CortoSacaDe, CortoDespacha, CortoRecibe, CortoPasaPuertaRespuesta, CortoAtiendeFin,
         CortoAtiendeQuantum, CortoAtiendeIO, CortoValidaIO, CortoAtiendeSolicita,
         CortoAtiendeLibera, CortoTomaRecurso, CortoDevuelveAReady, CortoEncolaEnIO,
         CortoEncolaEnRecurso, CortoLiberaRecursos, CortoLiberaGrado, CortoReduceGrado,
         CortoLiberaCpu
    <2>2. corto'.pcb = corto.pcb /\ corto.pcb \in Procesos /\ estado'[corto.pcb] = "EXIT"
      BY <2>1 DEF CortoFinaliza, EnCorto, CortoVa, push_cola_exit, IndInv, TypeOK, TipoCorto,
         TipoEstado
    <2>3. QED
      BY <2>2
  <1>2. CASE UNCHANGED corto
    <2>1. corto.pcb \in Procesos /\ estado[corto.pcb] = "EXIT"
      BY <1>2 DEF SueltaEnExit, IndInv, TypeOK, TipoCorto
    <2>2. [Diagrama!Next]_estado
      BY DiagramaPaso
    <2>3. estado'[corto.pcb] = "EXIT"
      BY <2>1, <2>2 DEF Diagrama!Next, Diagrama!Crear, Diagrama!Admitir, Diagrama!Despachar,
         Diagrama!Desalojar, Diagrama!Bloquear, Diagrama!Desbloquear, Diagrama!Terminar,
         Diagrama!Pasa, IndInv, TypeOK, TipoEstado
    <2>4. QED
      BY <1>2, <2>3
  <1>3. CASE CortoSeCuelga
    BY <1>3 DEF CortoSeCuelga, CortoVa, IndInv, TypeOK, TipoCorto
  <1>4. QED
    BY <1>1, <1>2, <1>3, ConsolaSinFinalizar DEF JustoInv, Next, vars, Largo,
       LargoEsperaGrado, LargoEsperaNuevo, LargoPasaPuerta, LargoSacaDeNew, LargoAdmite,
       IniciarProceso, DetenerPlanificacion, DetenerEnPausa, ReanudarPlanificacion,
       Multiprogramacion, ConectarIO, HiloIO, IOEsperaCliente, IOEnviaInstruccion,
       IORecibeFin, IOSeDesconecta, IOPasaPuerta, IOSacaDeEspera, IODesbloquea,
       HiloRecurso, RecursoEsperaCola, RecursoPasaPuerta, RecursoMiraEspera,
       RecursoTomaInstancia, RecursoSacaDeEspera, RecursoDesbloquea, Carreras, Choque,
       PierdeDeCola, PierdeDeIO, PierdeDeRecurso, PierdePID, MuerePorCarrera, LecturaRota,
       ConsolaSeCuelga, hilos, menosLargo, menosIO, menosRecurso, menosConsola

LEMMA InstAlEmpezar ==
  ASSUME Init
  PROVE  InstInv
  <1>1. \A r \in Recursos : /\ Libres(r) = InstanciasIniciales[r]
                            /\ \A p \in Procesos : Tiene(r, p) = 0
                            /\ EnEsperaDe(r) = {}
    BY ColaVacia DEF Init, Libres, Tiene, EnEsperaDe
  <1>2. \A r \in Recursos : Duenos(r) = {}
    BY <1>1 DEF Duenos
  <1>3. \A r \in Recursos : InstanciasIniciales[r] \in Nat
    BY ConstantesOK
  <1>4. CuentaInv
    BY <1>1, <1>2, <1>3, FS_EmptySet DEF CuentaInv
  <1>5. PedidoInv /\ TurnoInv /\ SinTurnoInv
    BY <1>1 DEF Init, PedidoInv, TurnoInv, SinTurnoInv
  <1>6. QED
    BY <1>4, <1>5 DEF InstInv

LEMMA DuenosSonTomadas ==
  ASSUME NEW r \in Recursos, \A p \in Procesos : Tiene(r, p) \in {0, 1}
  PROVE  Cardinality(Tomadas(r)) = Cardinality(Duenos(r))
  <1>1. Tomadas(r) = Duenos(r) \X {1}
    <2>1. \A p \in Procesos : 1 .. recurso[r].PIDs[p] = IF p \in Duenos(r) THEN {1} ELSE {}
      <3>1. \A p \in Procesos : recurso[r].PIDs[p] \in {0, 1}
        BY DEF Tiene
      <3>2. 1 .. 0 = {} /\ 1 .. 1 = {1}
        OBVIOUS
      <3>3. QED
        BY <3>1, <3>2 DEF Duenos, Tiene
    <2>2. \A u : u \in Tomadas(r) <=> \E p \in Procesos : u \in {p} \X (1 .. recurso[r].PIDs[p])
      BY DEF Tomadas
    <2>3. ASSUME NEW u \in Tomadas(r)
          PROVE  u \in Duenos(r) \X {1}
      <3>1. PICK p \in Procesos : u \in {p} \X (1 .. recurso[r].PIDs[p])
        BY <2>2
      <3>2. p \in Duenos(r) /\ 1 .. recurso[r].PIDs[p] = {1}
        BY <2>1, <3>1
      <3>3. QED
        BY <3>1, <3>2
    <2>4. ASSUME NEW u \in Duenos(r) \X {1}
          PROVE  u \in Tomadas(r)
      <3>1. PICK p \in Duenos(r) : u \in {p} \X {1}
        OBVIOUS
      <3>2. p \in Procesos /\ 1 .. recurso[r].PIDs[p] = {1}
        BY <2>1 DEF Duenos
      <3>3. u \in {p} \X (1 .. recurso[r].PIDs[p])
        BY <3>1, <3>2
      <3>4. QED
        BY <2>2, <3>2, <3>3
    <2>5. QED
      BY <2>3, <2>4
  <1>2. Cardinality(Duenos(r) \X {1}) = Cardinality(Duenos(r)) * 1
    <2>1. IsFiniteSet({1}) /\ Cardinality({1}) = 1
      BY FS_Singleton
    <2>2. Cardinality(Duenos(r) \X {1}) = Cardinality(Duenos(r)) * Cardinality({1})
      BY <2>1, DuenosFinitos, FS_Product
    <2>3. QED
      BY <2>1, <2>2
  <1>3. QED
    BY <1>1, <1>2, DuenosFinitos

InstSana == SinCarreras => InstInv /\ SueltaEnExit

\* With programs that WAIT and SIGNAL in pairs, no FINALIZAR_PROCESO, and until two
\* threads meet in a list, every instance is free or has one owner, for any
\* number of processes, resources and instances: neither the hand-over to a
\* waiting process nor an exit loses or doubles one.
THEOREM InstanciasSeConservan ==
  ASSUME "FINALIZAR_PROCESO" \notin Eventos, Disciplinados
  PROVE  Spec => []InstanciasConservadas
  <1>1. IndInv /\ JustoInv /\ EstadosSanos /\ InstSana /\ [Next]_vars => InstSana'
    BY SanaAntes, InstPaso, SueltaPaso DEF EstadosSanos, InstSana
  <1>2. Init => InstSana
    <2>1. Init => SueltaEnExit
      BY DEF Init, SueltaEnExit
    <2>2. QED
      BY <2>1, InstAlEmpezar DEF InstSana
  <1>3. InstSana => InstanciasConservadas
    BY DuenosSonTomadas DEF InstSana, InstInv, CuentaInv, InstanciasConservadas, Libres
  <1>4. QED
    BY <1>1, <1>2, <1>3, Invariante, JustoInvariante, EstadosInvariante, PTL DEF Spec

-----------------------------------------------------------------------------
(***************************************************************************)
(* What is left with FINALIZAR_PROCESO.  The console takes a process out   *)
(* of a queue while a thread has it in hand, and estado says no longer     *)
(* where it is.  But a process still lives in one place: what the console  *)
(* takes out of a queue only goes to EXIT, and nobody takes it from there. *)
(***************************************************************************)
Colas == {"new", "ready", "readyVRR"}

\* The thread of an interface or a resource, which keeps the process it looked
\* at from the peek on.
HiloDe(x) == IF x \in Interfaces THEN hilo_io[x] ELSE hilo_recurso[x]

\* The short-term scheduler, until it gives the process to a queue.
CortoLleva(p) == corto.pcb = p /\ corto.pc \notin {"grado", "diferencia", "post_cpu"}

\* Process p may still run from place s (that of x, for those that wait).
Vive(p, s, x) ==
  \/ s \in Colas /\ x = Ninguno /\ p \in EnCola(cola[s])
  \/ s = "largo" /\ x = Ninguno /\ largo.pcb = p
  \/ s = "corto" /\ x = Ninguno /\ CortoLleva(p)
  \/ s = "espera" /\ x \in Esperas /\ (p \in EnCola(Fila(x)) \/ HiloDe(x).pcb = p)

UnaVida ==
  \A p \in Procesos : \A s, t, x, y : Vive(p, s, x) /\ Vive(p, t, y) => s = t /\ x = y

Nacidos == \A p \in Procesos : \A s, x : Vive(p, s, x) => p < pcb_counter

\* No queue repeats a process, and the one its thread works for is at the head,
\* unless the console took it out.
EnOrden ==
  /\ \A c \in Colas : SinRepetir(cola[c])
  /\ \A x \in Esperas : SinRepetir(Fila(x))
  /\ \A x \in Esperas :
       HiloDe(x).pcb \in EnCola(Fila(x))
         => HiloDe(x).pc # "push_ready" /\ HiloDe(x).pcb = Head(Fila(x))

VidaInv == UnaVida /\ Nacidos /\ EnOrden

LEMMA Enteros == \A p \in Procesos : p \in Int
  BY DEF Procesos

\* A step that puts no process anywhere.
LEMMA NadieEntra ==
  ASSUME UnaVida, Nacidos, TipoMando, pcb_counter' \in {pcb_counter, pcb_counter + 1},
         \A p \in Procesos :
           /\ \A c \in Colas : p \in EnCola(cola'[c]) => p \in EnCola(cola[c])
           /\ largo'.pcb = p => largo.pcb = p
           /\ CortoLleva(p)' => CortoLleva(p)
           /\ \A x \in Esperas :
                p \in EnCola(Fila(x)') \/ HiloDe(x)'.pcb = p
                  => p \in EnCola(Fila(x)) \/ HiloDe(x).pcb = p
  PROVE  UnaVida' /\ Nacidos'
  <1>1. \A p \in Procesos : \A s, x : Vive(p, s, x)' => Vive(p, s, x)
    BY DEF Vive
  <1>2. UnaVida'
    BY <1>1 DEF UnaVida
  <1>3. \A p \in Procesos : p < pcb_counter => p < pcb_counter'
    BY Enteros DEF TipoMando
  <1>4. Nacidos'
    BY <1>1, <1>3 DEF Nacidos
  <1>5. QED
    BY <1>2, <1>4

\* Process p goes from place s to place t.
Muda(p, s, x, t, y) ==
  \A q \in Procesos : \A u, z :
    Vive(q, u, z)' => \/ q = p /\ u = t /\ z = y
                      \/ Vive(q, u, z) /\ ~(q = p /\ u = s /\ z = x)

LEMMA Mudado ==
  ASSUME UnaVida, Nacidos, UNCHANGED pcb_counter,
         NEW p \in Procesos, NEW s, NEW x, NEW t, NEW y,
         Vive(p, s, x), Muda(p, s, x, t, y)
  PROVE  UnaVida' /\ Nacidos'
  <1>1. \A u, z : Vive(p, u, z)' => u = t /\ z = y
    BY DEF UnaVida, Muda
  <1>2. \A q \in Procesos : q # p => \A u, z : Vive(q, u, z)' => Vive(q, u, z)
    BY DEF Muda
  <1>3. UnaVida'
    BY <1>1, <1>2 DEF UnaVida
  <1>4. Nacidos'
    BY <1>2 DEF Nacidos
  <1>5. QED
    BY <1>3, <1>4

LEMMA OrdenDeColas ==
  ASSUME EnOrden, \A c \in Colas : SinRepetir(cola'[c]),
         \A x \in Esperas : Fila(x)' = Fila(x) /\ HiloDe(x)' = HiloDe(x)
  PROVE  EnOrden'
  BY DEF EnOrden

LEMMA HiloIgual ==
  ASSUME NEW x \in Esperas, x \in Interfaces => hilo_io'[x] = hilo_io[x],
         x \in Recursos => hilo_recurso'[x] = hilo_recurso[x]
  PROVE  HiloDe(x)' = HiloDe(x)
  BY DEF HiloDe, Esperas

\* planificador_largo.c
LEMMA VidaLargo ==
  ASSUME IndInv, VidaInv, Largo
  PROVE  VidaInv'
  <1> USE DEF IndInv, TypeOK, VidaInv
  <1>1. UNCHANGED <<corto, conexion, recurso, hilo_io, hilo_recurso, pcb_counter>>
    BY DEF Largo, LargoEsperaGrado, LargoEsperaNuevo, LargoPasaPuerta, LargoSacaDeNew,
       LargoAdmite, menosLargo, mando
  <1>2. /\ \A p : CortoLleva(p)' <=> CortoLleva(p)
        /\ \A x \in Esperas : Fila(x)' = Fila(x) /\ HiloDe(x)' = HiloDe(x)
    BY <1>1, FilaIgual, HiloIgual DEF CortoLleva
  <1>3. CASE \/ LargoEsperaGrado \/ LargoEsperaNuevo \/ LargoPasaPuerta
             \/ LargoSacaDeNew /\ cola.new = <<>>
    <2>1. UNCHANGED cola /\ largo'.pcb \in {largo.pcb, Ninguno}
      BY <1>3 DEF LargoEsperaGrado, LargoEsperaNuevo, LargoPasaPuerta, LargoSacaDeNew, LargoVa
    <2>2. EnOrden'
      BY <1>2, <2>1, OrdenDeColas DEF EnOrden
    <2>3. QED
      BY <1>1, <1>2, <2>1, <2>2, NadieEntra, ConstantesOK
  <1>4. CASE LargoSacaDeNew /\ cola.new # <<>>
    <2>1. PICK p : p = Head(cola.new)
      OBVIOUS
    <2>2. /\ cola.new \in Seq(Procesos) /\ largo'.pcb = p
          /\ cola'.new = Tail(cola.new) /\ cola'.ready = cola.ready
          /\ cola'.readyVRR = cola.readyVRR
      BY <1>4, <2>1 DEF LargoSacaDeNew, TipoCola, LargoVa
    <2>3. /\ p \in EnCola(cola.new) /\ p \in Procesos
          /\ EnCola(cola'.new) = EnCola(cola.new) \ {p} /\ SinRepetir(cola'.new)
      BY <1>4, <2>1, <2>2, Desencolar DEF EnOrden, Colas
    <2>4. Vive(p, "new", Ninguno) /\ Muda(p, "new", Ninguno, "largo", Ninguno)
      BY <1>2, <2>2, <2>3 DEF Vive, Muda, Colas
    <2>5. EnOrden'
      BY <1>2, <2>2, <2>3, OrdenDeColas DEF EnOrden, Colas
    <2>6. QED
      BY <1>1, <2>3, <2>4, <2>5, Mudado
  <1>5. CASE LargoAdmite
    <2>1. PICK p \in Procesos : p = largo.pcb
      BY <1>5 DEF LargoAdmite, EnLargo, TipoLargo
    <2>2. /\ largo'.pcb = Ninguno /\ cola'.new = cola.new /\ cola'.readyVRR = cola.readyVRR
          /\ cola.ready \in Seq(Procesos) /\ cola'.ready = Append(cola.ready, p)
      BY <1>5, <2>1 DEF LargoAdmite, LargoVa, push_cola_ready, TipoCola
    <2>3. /\ Vive(p, "largo", Ninguno) /\ ~Vive(p, "ready", Ninguno)
      BY <2>1 DEF Vive, UnaVida, Colas
    <2>4. /\ EnCola(cola'.ready) = EnCola(cola.ready) \cup {p} /\ SinRepetir(cola'.ready)
      BY <2>1, <2>2, <2>3, Encolar DEF Vive, Colas, EnOrden
    <2>5. ASSUME NEW q \in Procesos, NEW u, NEW z, Vive(q, u, z)'
          PROVE  \/ q = p /\ u = "ready" /\ z = Ninguno
                 \/ Vive(q, u, z) /\ ~(q = p /\ u = "largo" /\ z = Ninguno)
      <3>1. CASE u \in Colas
        <4>1. u # "largo" /\ z = Ninguno /\ q \in EnCola(cola'[u])
          BY <2>5, <3>1 DEF Vive, Colas
        <4>2. QED
          BY <2>2, <2>4, <3>1, <4>1 DEF Vive, Colas
      <3>2. CASE u \notin Colas
        <4>1. u # "largo"
          BY <2>2, <2>5, <3>2, ConstantesOK DEF Vive, Colas
        <4>2. Vive(q, u, z)
          BY <1>2, <2>5, <3>2, <4>1 DEF Vive
        <4>3. QED
          BY <4>1, <4>2
      <3>3. QED
        BY <3>1, <3>2
    <2>6. Muda(p, "largo", Ninguno, "ready", Ninguno)
      BY <2>5 DEF Muda
    <2>7. EnOrden'
      BY <1>2, <2>2, <2>4, OrdenDeColas DEF EnOrden, Colas
    <2>8. QED
      BY <1>1, <2>1, <2>3, <2>6, <2>7, Mudado
  <1>6. QED
    BY <1>3, <1>4, <1>5 DEF Largo

\* A step that leaves every queue of waiting processes, and its thread, alone.
LEMMA EsperasIgualesVida ==
  ASSUME UNCHANGED <<hilo_io, hilo_recurso>>,
         \A i \in Interfaces : conexion'[i].cola_espera = conexion[i].cola_espera,
         \A r \in Recursos : recurso'[r].procesos_en_espera = recurso[r].procesos_en_espera
  PROVE  \A x \in Esperas : Fila(x)' = Fila(x) /\ HiloDe(x)' = HiloDe(x)
  BY FilaIgual, HiloIgual

\* planificador_corto.c: the steps that put the process nowhere new.
LEMMA VidaCortoQuieto ==
  ASSUME IndInv, VidaInv,
         \/ CortoEsperaListo \/ CortoEsperaCpu \/ CortoPasaPuerta \/ CortoElige
         \/ CortoDespacha \/ CortoRecibe \/ CortoPasaPuertaRespuesta
         \/ CortoAtiendeFin \/ CortoAtiendeQuantum \/ CortoAtiendeIO \/ CortoValidaIO
         \/ CortoAtiendeSolicita \/ CortoAtiendeLibera \/ CortoTomaRecurso
         \/ CortoFinaliza \/ CortoLiberaRecursos \/ CortoLiberaGrado
         \/ CortoReduceGrado \/ CortoLiberaCpu \/ CortoSeCuelga
  PROVE  VidaInv'
  <1> USE DEF IndInv, TypeOK, VidaInv
  <1>1. UNCHANGED <<pcb_counter, largo, conexion, hilo_io, hilo_recurso>>
    BY DEF CortoEsperaListo, CortoEsperaCpu, CortoPasaPuerta, CortoElige, CortoDespacha,
       CortoRecibe, CortoPasaPuertaRespuesta, CortoAtiendeFin, CortoAtiendeQuantum,
       CortoAtiendeIO, CortoValidaIO, CortoAtiendeSolicita, CortoAtiendeLibera,
       CortoTomaRecurso, CortoFinaliza, CortoLiberaRecursos, CortoLiberaGrado,
       CortoReduceGrado, CortoLiberaCpu, CortoSeCuelga, menosCorto, mando
  <1>2. /\ cola'.new = cola.new /\ cola'.ready = cola.ready
        /\ cola'.readyVRR = cola.readyVRR
    BY DEF CortoEsperaListo, CortoEsperaCpu, CortoPasaPuerta, CortoElige, CortoDespacha,
       CortoRecibe, CortoPasaPuertaRespuesta, CortoAtiendeFin, CortoAtiendeQuantum,
       CortoAtiendeIO, CortoValidaIO, CortoAtiendeSolicita, CortoAtiendeLibera,
       CortoTomaRecurso, CortoFinaliza, CortoLiberaRecursos, CortoLiberaGrado,
       CortoReduceGrado, CortoLiberaCpu, CortoSeCuelga, pop_and_destroy_execute,
       push_cola_execute, push_cola_exit, TipoCola
  <1>3. \A p \in Procesos : CortoLleva(p)' => CortoLleva(p)
    <2>1. \/ corto'.pcb = Ninguno
          \/ /\ corto'.pcb = corto.pcb
             /\ corto.pc \in {"grado", "diferencia", "post_cpu"}
                  => corto'.pc \in {"grado", "diferencia", "post_cpu"}
      BY DEF CortoEsperaListo, CortoEsperaCpu, CortoPasaPuerta, CortoElige,
         CortoDespacha, CortoRecibe, CortoPasaPuertaRespuesta, CortoAtiendeFin,
         CortoAtiendeQuantum, CortoAtiendeIO, CortoValidaIO, CortoAtiendeSolicita,
         CortoAtiendeLibera, CortoTomaRecurso, CortoFinaliza, CortoLiberaRecursos,
         CortoLiberaGrado, CortoReduceGrado, CortoLiberaCpu, CortoSeCuelga, EnCorto,
         CortoVa, TipoCorto
    <2>2. QED
      BY <2>1, ConstantesOK DEF CortoLleva
  <1>4. \A r \in Recursos : recurso'[r].procesos_en_espera = recurso[r].procesos_en_espera
    <2>1. CASE UNCHANGED recurso
      BY <2>1
    <2>2. CASE CortoAtiendeLibera
      BY <2>2 DEF CortoAtiendeLibera, Senalado, TipoRecurso
    <2>3. CASE CortoTomaRecurso
      BY <2>3 DEF CortoTomaRecurso, Tomado, TipoRecurso
    <2>4. CASE CortoLiberaRecursos
      BY <2>4, LiberarEsperas DEF CortoLiberaRecursos
    <2>5. QED
      BY <2>1, <2>2, <2>3, <2>4 DEF CortoEsperaListo, CortoEsperaCpu, CortoPasaPuerta,
         CortoElige, CortoDespacha, CortoRecibe, CortoPasaPuertaRespuesta,
         CortoAtiendeFin, CortoAtiendeQuantum, CortoAtiendeIO, CortoValidaIO,
         CortoAtiendeSolicita, CortoFinaliza, CortoLiberaGrado, CortoReduceGrado,
         CortoLiberaCpu, CortoSeCuelga
  <1>5. \A x \in Esperas : Fila(x)' = Fila(x) /\ HiloDe(x)' = HiloDe(x)
    BY <1>1, <1>4, EsperasIgualesVida
  <1>6. EnOrden'
    BY <1>2, <1>5, OrdenDeColas DEF EnOrden, Colas
  <1>7. UnaVida' /\ Nacidos'
    BY <1>1, <1>2, <1>3, <1>5, NadieEntra DEF Colas
  <1>8. QED
    BY <1>6, <1>7

\* The pops of READY and of the priority queue,
LEMMA VidaSacaDeReady ==
  ASSUME IndInv, VidaInv, NEW l, NEW c \in {"ready", "readyVRR"}, CortoSacaDe(l, c)
  PROVE  VidaInv'
  <1> USE DEF IndInv, TypeOK, VidaInv
  <1>1. /\ UNCHANGED <<pcb_counter, largo, conexion, recurso, hilo_io, hilo_recurso>>
        /\ cola.ready \in Seq(Procesos) /\ cola.readyVRR \in Seq(Procesos)
    BY DEF CortoSacaDe, menosCorto, mando, TipoCola
  <1>2. \A x \in Esperas : Fila(x)' = Fila(x) /\ HiloDe(x)' = HiloDe(x)
    BY <1>1, EsperasIgualesVida
  <1>3. CASE UNCHANGED <<cola, corto>>
    <2>1. EnOrden'
      BY <1>2, <1>3, OrdenDeColas DEF EnOrden
    <2>2. UnaVida' /\ Nacidos'
      BY <1>1, <1>2, <1>3, NadieEntra DEF CortoLleva
    <2>3. QED
      BY <2>1, <2>2
  <1>4. CASE /\ cola[c] # <<>>
             /\ corto' = [corto EXCEPT !.pc = "despachar", !.pcb = Head(cola[c])]
             /\ cola' = [cola EXCEPT ![c] = Tail(@)]
    <2>a. /\ cola'[c] = Tail(cola[c])
          /\ \A d \in Colas \ {c} : cola'[d] = cola[d]
      BY <1>4 DEF TipoCola, Colas
    <2>1. PICK p : p = Head(cola[c])
      OBVIOUS
    <2>2. corto'.pcb = p
      BY <1>4, <2>1 DEF TipoCorto
    <2>3. /\ c \in Colas /\ p \in EnCola(cola[c]) /\ p \in Procesos
          /\ EnCola(cola'[c]) = EnCola(cola[c]) \ {p} /\ SinRepetir(cola'[c])
      BY <1>1, <1>4, <2>a, <2>1, Desencolar DEF EnOrden, Colas
    <2>4. Vive(p, c, Ninguno) /\ Muda(p, c, Ninguno, "corto", Ninguno)
      BY <1>1, <1>2, <1>4, <2>a, <2>2, <2>3 DEF Vive, Muda, CortoLleva
    <2>5. EnOrden'
      BY <1>2, <2>a, <2>3, OrdenDeColas DEF EnOrden
    <2>6. QED
      BY <1>1, <2>3, <2>4, <2>5, Mudado
  <1>5. QED
    BY <1>3, <1>4 DEF CortoSacaDe

\* A process enters one of the READY queues, from wherever it was.
LEMMA VidaEntraEnCola ==
  ASSUME IndInv, VidaInv, NEW p \in Procesos, NEW s, NEW x, NEW c \in {"ready", "readyVRR"},
         Vive(p, s, x), s \notin Colas, cola'[c] = Append(cola[c], p),
         \A d \in Colas \ {c} : cola'[d] = cola[d], UNCHANGED pcb_counter,
         \A q \in Procesos : \A u, z : u \notin Colas /\ Vive(q, u, z)'
            => Vive(q, u, z) /\ ~(q = p /\ u = s /\ z = x)
  PROVE  UnaVida' /\ Nacidos' /\ \A d \in Colas : SinRepetir(cola'[d])
  <1> USE DEF IndInv, TypeOK, VidaInv
  <1>1. cola[c] \in Seq(Procesos) /\ c \in Colas
    BY DEF TipoCola, Colas
  <1>2. ~Vive(p, c, Ninguno)
    BY <1>1 DEF UnaVida
  <1>3. p \notin EnCola(cola[c])
    BY <1>1, <1>2 DEF Vive
  <1>4. /\ EnCola(cola'[c]) = EnCola(cola[c]) \cup {p}
        /\ SinRepetir(cola'[c])
    BY <1>1, <1>3, Encolar DEF EnOrden
  <1>5. \A q \in Procesos : \A u, z : u \in Colas /\ Vive(q, u, z)'
            => \/ q = p /\ u = c /\ z = Ninguno
               \/ Vive(q, u, z)
    <2>1. ASSUME NEW q \in Procesos, NEW u \in Colas, NEW z, Vive(q, u, z)'
          PROVE  z = Ninguno /\ q \in EnCola(cola'[u])
      BY <2>1 DEF Vive, Colas
    <2>2. ASSUME NEW q \in Procesos, NEW u \in Colas, q \in EnCola(cola[u])
          PROVE  Vive(q, u, Ninguno)
      BY <2>2 DEF Vive
    <2>3. ASSUME NEW q \in Procesos, NEW u \in Colas, q \in EnCola(cola'[u]), ~(q = p /\ u = c)
          PROVE  q \in EnCola(cola[u])
      BY <1>4, <2>3
    <2>4. QED
      BY <2>1, <2>2, <2>3
  <1>6. Muda(p, s, x, c, Ninguno)
    BY <1>5 DEF Muda
  <1>7. UnaVida' /\ Nacidos'
    BY <1>6, Mudado
  <1>8. QED
    BY <1>4, <1>7 DEF EnOrden

\* which the short-term scheduler does when the quantum ends.
LEMMA VidaDevuelve ==
  ASSUME IndInv, VidaInv, CortoDevuelveAReady
  PROVE  VidaInv'
  <1> USE DEF IndInv, TypeOK, VidaInv
  <1>1. PICK p \in Procesos : p = corto.pcb
    BY DEF CortoDevuelveAReady, EnCorto, TipoCorto
  <1>2. /\ UNCHANGED <<pcb_counter, largo, conexion, recurso, hilo_io, hilo_recurso>>
        /\ corto.pc = "a_ready" /\ corto'.pc = "post_cpu" /\ push_cola_ready(p)
    BY <1>1 DEF CortoDevuelveAReady, menosCorto, mando, EnCorto, CortoVa, TipoCorto
  <1>3. \A x \in Esperas : Fila(x)' = Fila(x) /\ HiloDe(x)' = HiloDe(x)
    BY <1>2, EsperasIgualesVida
  <1>4. /\ cola'.ready = Append(cola.ready, p)
        /\ \A d \in Colas \ {"ready"} : cola'[d] = cola[d]
    BY <1>2 DEF push_cola_ready, TipoCola, Colas
  <1>5. Vive(p, "corto", Ninguno) /\ "corto" \notin Colas
    BY <1>1, <1>2 DEF Vive, CortoLleva, Colas
  <1>6. \A q \in Procesos : \A u, z : u \notin Colas /\ Vive(q, u, z)'
            => Vive(q, u, z) /\ ~(q = p /\ u = "corto" /\ z = Ninguno)
    BY <1>2, <1>3 DEF Vive, CortoLleva
  <1>7. UnaVida' /\ Nacidos' /\ \A d \in Colas : SinRepetir(cola'[d])
    BY <1>2, <1>4, <1>5, <1>6, VidaEntraEnCola
  <1>8. EnOrden'
    BY <1>3, <1>7, OrdenDeColas
  <1>9. QED
    BY <1>7, <1>8

\* A process enters the queue of an interface or a resource.
LEMMA VidaEncola ==
  ASSUME IndInv, VidaInv, NEW p \in Procesos, NEW x \in Esperas,
         CortoLleva(p), \A q \in Procesos : ~CortoLleva(q)',
         Fila(x) \in Seq(Procesos), Fila(x)' = Append(Fila(x), p),
         \A y \in Esperas \ {x} : Fila(y)' = Fila(y),
         \A y \in Esperas : HiloDe(y)' = HiloDe(y),
         UNCHANGED <<cola, largo, pcb_counter>>
  PROVE  VidaInv'
  <1> USE DEF IndInv, TypeOK, VidaInv
  <1>1. Vive(p, "corto", Ninguno)
    BY DEF Vive
  <1>2. ~Vive(p, "espera", x)
    BY <1>1 DEF UnaVida
  <1>3. p \notin EnCola(Fila(x)) /\ HiloDe(x).pcb # p
    BY <1>2 DEF Vive
  <1>4. EnCola(Fila(x)') = EnCola(Fila(x)) \cup {p} /\ SinRepetir(Fila(x)')
    BY <1>3, Encolar DEF EnOrden
  <1>5. Muda(p, "corto", Ninguno, "espera", x)
    <2>1. \A q \in Procesos : \A u, z : u # "espera" /\ Vive(q, u, z)'
             => Vive(q, u, z) /\ u # "corto"
      BY DEF Vive, Colas
    <2>2. \A q \in Procesos : \A y \in Esperas \ {x} :
            Vive(q, "espera", y)' => Vive(q, "espera", y)
      BY DEF Vive, Colas
    <2>3. \A q \in Procesos : Vive(q, "espera", x)' => q = p \/ Vive(q, "espera", x)
      BY <1>4 DEF Vive, Colas
    <2>4. \A q \in Procesos : \A z : Vive(q, "espera", z)' => z \in Esperas
      BY DEF Vive, Colas, Esperas
    <2>5. ASSUME NEW q \in Procesos, NEW u, NEW z, Vive(q, u, z)'
          PROVE  \/ q = p /\ u = "espera" /\ z = x
                 \/ Vive(q, u, z) /\ ~(q = p /\ u = "corto" /\ z = Ninguno)
      <3>1. CASE u # "espera"
        BY <2>1, <2>5, <3>1
      <3>2. CASE u = "espera"
        BY <2>2, <2>3, <2>4, <2>5, <3>2
      <3>3. QED
        BY <3>1, <3>2
    <2>6. QED
      BY <2>5 DEF Muda
  <1>6. UnaVida' /\ Nacidos'
    BY <1>1, <1>5, Mudado
  <1>7. ASSUME HiloDe(x).pcb \in EnCola(Fila(x)')
        PROVE  HiloDe(x).pc # "push_ready" /\ HiloDe(x).pcb = Head(Fila(x)')
    <2>1. HiloDe(x).pcb \in EnCola(Fila(x))
      BY <1>3, <1>4, <1>7
    <2>2. HiloDe(x).pc # "push_ready" /\ HiloDe(x).pcb = Head(Fila(x))
      BY <2>1 DEF EnOrden
    <2>3. Fila(x) # <<>>
      BY <2>1, ColaVacia
    <2>4. Head(Append(Fila(x), p)) = Head(Fila(x))
      BY <2>3, AppendProperties, HeadTailProperties, LenProperties, EmptySeq
    <2>5. QED
      BY <2>2, <2>4
  <1>8. EnOrden'
    BY <1>4, <1>7 DEF EnOrden
  <1>9. QED
    BY <1>6, <1>8

LEMMA VidaEncolaEnIO ==
  ASSUME IndInv, VidaInv, CortoEncolaEnIO
  PROVE  VidaInv'
  <1> USE DEF IndInv, TypeOK
  <1>1. UNCHANGED <<cola, largo, pcb_counter, recurso, hilo_io, hilo_recurso>>
    BY DEF CortoEncolaEnIO, menosCorto, mando
  <1>2. CASE UNCHANGED <<conexion, corto>>
    <2>1. \A x \in Esperas : Fila(x)' = Fila(x) /\ HiloDe(x)' = HiloDe(x)
      BY <1>1, <1>2, EsperasIgualesVida
    <2>2. EnOrden'
      BY <1>1, <2>1, OrdenDeColas DEF EnOrden, VidaInv
    <2>3. UnaVida' /\ Nacidos'
      BY <1>1, <1>2, <2>1, NadieEntra DEF CortoLleva, VidaInv
    <2>4. QED
      BY <2>2, <2>3 DEF VidaInv
  <1>3. CASE /\ conexion' = [conexion EXCEPT ![corto.arg] = EnEsperaIO(@, corto.pcb)]
             /\ CortoVa("post_cpu")
    <2>1. PICK i \in Interfaces : i = corto.arg
      BY DEF CortoEncolaEnIO, EnCorto, TipoCorto
    <2>2. PICK p \in Procesos : p = corto.pcb
      BY DEF CortoEncolaEnIO, EnCorto, TipoCorto
    <2>3. /\ conexion[i].cola_espera \in Seq(Procesos)
          /\ conexion'[i].cola_espera = Append(conexion[i].cola_espera, p)
          /\ \A j \in Interfaces \ {i} : conexion'[j] = conexion[j]
      BY <1>3, <2>1, <2>2 DEF EnEsperaIO, TipoConexion, UnaConexion
    <2>4. /\ i \in Esperas /\ Fila(i) \in Seq(Procesos) /\ Fila(i)' = Append(Fila(i), p)
          /\ \A y \in Esperas \ {i} : Fila(y)' = Fila(y)
      BY <1>1, <2>3 DEF Fila, Esperas
    <2>5. CortoLleva(p) /\ \A q \in Procesos : ~CortoLleva(q)'
      BY <1>3, <2>2 DEF CortoEncolaEnIO, EnCorto, CortoVa, CortoLleva, TipoCorto
    <2>6. \A y \in Esperas : HiloDe(y)' = HiloDe(y)
      BY <1>1, HiloIgual
    <2>7. QED
      BY <1>1, <2>4, <2>5, <2>6, VidaEncola
  <1>4. QED
    BY <1>2, <1>3 DEF CortoEncolaEnIO

LEMMA VidaEncolaEnRecurso ==
  ASSUME IndInv, VidaInv, CortoEncolaEnRecurso
  PROVE  VidaInv'
  <1> USE DEF IndInv, TypeOK
  <1>1. UNCHANGED <<cola, largo, pcb_counter, conexion, hilo_io, hilo_recurso>>
    BY DEF CortoEncolaEnRecurso, menosCorto, mando
  <1>2. PICK r \in Recursos : r = corto.arg
    BY DEF CortoEncolaEnRecurso, EnCorto, TipoCorto
  <1>3. PICK p \in Procesos : p = corto.pcb
    BY DEF CortoEncolaEnRecurso, EnCorto, TipoCorto
  <1>4. /\ recurso[r].procesos_en_espera \in Seq(Procesos)
        /\ recurso'[r].procesos_en_espera = Append(recurso[r].procesos_en_espera, p)
        /\ \A s \in Recursos \ {r} : recurso'[s] = recurso[s]
    BY <1>2, <1>3 DEF CortoEncolaEnRecurso, EnEspera, TipoRecurso, UnRecurso
  <1>5. /\ r \in Esperas /\ Fila(r) \in Seq(Procesos) /\ Fila(r)' = Append(Fila(r), p)
        /\ \A y \in Esperas \ {r} : Fila(y)' = Fila(y)
    BY <1>1, <1>4, ConstantesOK DEF Fila, Esperas
  <1>6. CortoLleva(p) /\ \A q \in Procesos : ~CortoLleva(q)'
    BY <1>3 DEF CortoEncolaEnRecurso, EnCorto, CortoVa, CortoLleva, TipoCorto
  <1>7. \A y \in Esperas : HiloDe(y)' = HiloDe(y)
    BY <1>1, HiloIgual
  <1>8. QED
    BY <1>1, <1>5, <1>6, <1>7, VidaEncola

LEMMA VidaCorto ==
  ASSUME IndInv, VidaInv, Corto
  PROVE  VidaInv'
  BY VidaCortoQuieto, VidaSacaDeReady, VidaDevuelve, VidaEncolaEnIO, VidaEncolaEnRecurso
     DEF Corto, CortoSacaDeReady, CortoSacaDePrioridad

\* gestor_io.c
LEMMA VidaIO ==
  ASSUME IndInv, VidaInv, NEW i \in Interfaces, ConectarIO(i) \/ HiloIO(i)
  PROVE  VidaInv'
  <1> USE DEF IndInv, TypeOK, VidaInv
  <1>1. /\ UNCHANGED <<largo, corto, recurso, hilo_recurso, pcb_counter>>
        /\ \A j \in Interfaces \ {i} : conexion'[j] = conexion[j] /\ hilo_io'[j] = hilo_io[j]
    BY DEF TipoConexion, TipoHiloIO, ConectarIO, HiloIO, IOEsperaCliente,
       IOEnviaInstruccion, IORecibeFin, IOSeDesconecta, IOPasaPuerta, IOSacaDeEspera,
       IODesbloquea, IOVa, menosIO, mando
  <1>2. /\ i \in Esperas /\ Fila(i) = conexion[i].cola_espera /\ HiloDe(i) = hilo_io[i]
        /\ Fila(i)' = conexion'[i].cola_espera /\ HiloDe(i)' = hilo_io'[i]
        /\ Fila(i) \in Seq(Procesos)
        /\ \A p : CortoLleva(p)' <=> CortoLleva(p)
    BY <1>1 DEF Fila, HiloDe, Esperas, CortoLleva, TipoConexion, UnaConexion
  <1>3. \A x \in Esperas \ {i} : Fila(x)' = Fila(x) /\ HiloDe(x)' = HiloDe(x)
    BY <1>1, FilaIgual, HiloIgual DEF Esperas
  <1>4. CASE \/ ConectarIO(i) \/ IOEsperaCliente(i) \/ IOEnviaInstruccion(i)
             \/ IORecibeFin(i) \/ IOSeDesconecta(i) \/ IOPasaPuerta(i)
    <2>1. UNCHANGED cola
      BY <1>4 DEF ConectarIO, IOEsperaCliente, IOEnviaInstruccion, IORecibeFin,
         IOSeDesconecta, IOPasaPuerta
    <2>2. Fila(i)' = Fila(i)
      BY <1>2, <1>4 DEF ConectarIO, IOEsperaCliente, IOEnviaInstruccion, IORecibeFin,
         IOSeDesconecta, IOPasaPuerta, TipoConexion, UnaConexion
    <2>3. /\ \/ HiloDe(i)' = HiloDe(i)
             \/ HiloDe(i)'.pc # "push_ready" /\ HiloDe(i)'.pcb = Ninguno
             \/ /\ HiloDe(i)'.pc # "push_ready" /\ HiloDe(i)'.pcb = HiloDe(i).pcb
             \/ /\ HiloDe(i)'.pc # "push_ready" /\ Fila(i) # <<>>
                /\ HiloDe(i)'.pcb = Head(Fila(i))
      BY <1>2, <1>4 DEF ConectarIO, IOEsperaCliente, IOEnviaInstruccion, IORecibeFin,
         IOSeDesconecta, IOPasaPuerta, IOVa, TipoHiloIO
    <2>4. /\ EnCola(Fila(i)) \subseteq Procesos
          /\ Fila(i) # <<>> => Head(Fila(i)) \in EnCola(Fila(i))
      BY <1>2, EnColaTipo, Desencolar DEF EnOrden
    <2>5. \A p \in Procesos : p \in EnCola(Fila(i)') \/ HiloDe(i)'.pcb = p
            => p \in EnCola(Fila(i)) \/ HiloDe(i).pcb = p
      BY <2>2, <2>3, <2>4, ConstantesOK
    <2>6. UnaVida' /\ Nacidos'
      BY <1>1, <1>2, <1>3, <2>1, <2>5, NadieEntra
    <2>7. HiloDe(i)'.pcb \in EnCola(Fila(i)) =>
            HiloDe(i)'.pc # "push_ready" /\ HiloDe(i)'.pcb = Head(Fila(i))
      BY <1>2, <2>3, <2>4, ConstantesOK DEF EnOrden
    <2>8. EnOrden'
      BY <1>3, <2>1, <2>2, <2>7 DEF EnOrden
    <2>9. QED
      BY <2>6, <2>8
  <1>5. CASE IOSacaDeEspera(i)
    <2>1. /\ UNCHANGED cola
          /\ Fila(i)' = IF Fila(i) = <<>> THEN Fila(i) ELSE Tail(Fila(i))
          /\ HiloDe(i)'.pc = "push_ready" /\ HiloDe(i)'.pcb = HiloDe(i).pcb
      BY <1>2, <1>5 DEF IOSacaDeEspera, IOVa, TipoConexion, UnaConexion, TipoHiloIO
    <2>2. /\ EnCola(Fila(i)') \subseteq EnCola(Fila(i)) /\ SinRepetir(Fila(i)')
          /\ HiloDe(i).pcb \notin EnCola(Fila(i)')
      <3>1. CASE Fila(i) = <<>>
        BY <2>1, <3>1, ColaVacia
      <3>2. CASE Fila(i) # <<>>
        <4>1. /\ EnCola(Fila(i)') = EnCola(Fila(i)) \ {Head(Fila(i))}
              /\ SinRepetir(Fila(i)')
          BY <1>2, <2>1, <3>2, Desencolar DEF EnOrden
        <4>2. QED
          BY <1>2, <4>1 DEF EnOrden
      <3>3. QED
        BY <3>1, <3>2
    <2>3. EnOrden'
      BY <1>3, <2>1, <2>2 DEF EnOrden
    <2>4. \A x \in Esperas : \A p \in Procesos :
            p \in EnCola(Fila(x)') \/ HiloDe(x)'.pcb = p
              => p \in EnCola(Fila(x)) \/ HiloDe(x).pcb = p
      BY <1>3, <2>1, <2>2
    <2>5. UnaVida' /\ Nacidos'
      BY <1>1, <1>2, <2>1, <2>4, NadieEntra
    <2>6. QED
      BY <2>3, <2>5
  <1>6. CASE IODesbloquea(i)
    <2>1. PICK p \in Procesos : p = hilo_io[i].pcb
      BY <1>6 DEF IODesbloquea, EnIO, TipoHiloIO
    <2>2. /\ HiloDe(i).pc = "push_ready" /\ HiloDe(i).pcb = p
          /\ HiloDe(i)'.pcb = Ninguno /\ Fila(i)' = Fila(i)
          /\ push_cola_ready(p) \/ push_cola_ready_priority(p)
      BY <1>2, <1>6, <2>1 DEF IODesbloquea, EnIO, IOVa, TipoHiloIO
    <2>3. p \notin EnCola(Fila(i)) /\ Ninguno \notin EnCola(Fila(i))
      <3>1. p \notin EnCola(Fila(i))
        BY <1>2, <2>2 DEF EnOrden
      <3>2. EnCola(Fila(i)) \subseteq Procesos
        BY <1>2, EnColaTipo
      <3>3. QED
        BY <3>1, <3>2, ConstantesOK
    <2>4. PICK c \in {"ready", "readyVRR"} :
            cola'[c] = Append(cola[c], p) /\ \A d \in Colas \ {c} : cola'[d] = cola[d]
      BY <2>2 DEF push_cola_ready, push_cola_ready_priority, TipoCola, Colas
    <2>5. Vive(p, "espera", i) /\ "espera" \notin Colas
      BY <1>2, <2>2 DEF Vive, Colas
    <2>6. \A q \in Procesos : \A u, z : u \notin Colas /\ Vive(q, u, z)'
            => Vive(q, u, z) /\ ~(q = p /\ u = "espera" /\ z = i)
      BY <1>1, <1>2, <1>3, <2>2, <2>3, ConstantesOK DEF Vive
    <2>7. UnaVida' /\ Nacidos' /\ \A d \in Colas : SinRepetir(cola'[d])
      BY <1>1, <2>4, <2>5, <2>6, VidaEntraEnCola
    <2>8. EnOrden'
      BY <1>3, <2>2, <2>3, <2>7 DEF EnOrden
    <2>9. QED
      BY <2>7, <2>8
  <1>7. QED
    BY <1>4, <1>5, <1>6 DEF HiloIO

\* recurso.c
LEMMA VidaRecurso ==
  ASSUME IndInv, VidaInv, NEW r \in Recursos, HiloRecurso(r)
  PROVE  VidaInv'
  <1> USE DEF IndInv, TypeOK, VidaInv
  <1>1. /\ UNCHANGED <<largo, corto, conexion, hilo_io, pcb_counter>>
        /\ \A s \in Recursos \ {r} : /\ recurso'[s] = recurso[s]
                                     /\ hilo_recurso'[s] = hilo_recurso[s]
    BY DEF TipoRecurso, TipoHiloRecurso, HiloRecurso, RecursoEsperaCola,
       RecursoPasaPuerta, RecursoMiraEspera, RecursoTomaInstancia, RecursoSacaDeEspera,
       RecursoDesbloquea, RecursoVa, menosRecurso, mando
  <1>2. /\ r \in Esperas /\ Fila(r) = recurso[r].procesos_en_espera
        /\ HiloDe(r) = hilo_recurso[r] /\ HiloDe(r)' = hilo_recurso'[r]
        /\ Fila(r)' = recurso'[r].procesos_en_espera /\ Fila(r) \in Seq(Procesos)
        /\ \A p : CortoLleva(p)' <=> CortoLleva(p)
    BY <1>1, ConstantesOK DEF Fila, HiloDe, Esperas, CortoLleva, TipoRecurso, UnRecurso
  <1>3. \A x \in Esperas \ {r} : Fila(x)' = Fila(x) /\ HiloDe(x)' = HiloDe(x)
    BY <1>1, FilaIgual, HiloIgual DEF Esperas
  <1>4. /\ EnCola(Fila(r)) \subseteq Procesos
        /\ Fila(r) # <<>> =>
             /\ Head(Fila(r)) \in EnCola(Fila(r))
             /\ EnCola(Tail(Fila(r))) = EnCola(Fila(r)) \ {Head(Fila(r))}
             /\ SinRepetir(Tail(Fila(r)))
    BY <1>2, EnColaTipo, Desencolar DEF EnOrden
  <1>5. CASE \/ RecursoEsperaCola(r) \/ RecursoPasaPuerta(r) \/ RecursoMiraEspera(r)
             \/ RecursoTomaInstancia(r)
             \/ RecursoSacaDeEspera(r) /\ recurso[r].procesos_en_espera = <<>>
    <2>1. UNCHANGED cola
      BY <1>5 DEF RecursoEsperaCola, RecursoPasaPuerta, RecursoMiraEspera,
         RecursoTomaInstancia, RecursoSacaDeEspera
    <2>2. Fila(r)' = Fila(r)
      BY <1>2, <1>5 DEF RecursoEsperaCola, RecursoPasaPuerta, RecursoMiraEspera,
         RecursoTomaInstancia, RecursoSacaDeEspera, Tomado, TipoRecurso, UnRecurso
    <2>3. /\ \/ HiloDe(r)' = HiloDe(r)
             \/ HiloDe(r)'.pc # "push_ready" /\ HiloDe(r)'.pcb = Ninguno
             \/ /\ HiloDe(r)'.pc # "push_ready" /\ HiloDe(r)'.pcb = HiloDe(r).pcb
             \/ /\ HiloDe(r)'.pc # "push_ready" /\ Fila(r) # <<>>
                /\ HiloDe(r)'.pcb = Head(Fila(r))
      BY <1>2, <1>5 DEF RecursoEsperaCola, RecursoPasaPuerta, RecursoMiraEspera,
         RecursoTomaInstancia, RecursoSacaDeEspera, RecursoVa, TipoHiloRecurso
    <2>4. \A p \in Procesos : p \in EnCola(Fila(r)') \/ HiloDe(r)'.pcb = p
            => p \in EnCola(Fila(r)) \/ HiloDe(r).pcb = p
      BY <1>4, <2>2, <2>3, ConstantesOK
    <2>5. UnaVida' /\ Nacidos'
      BY <1>1, <1>2, <1>3, <2>1, <2>4, NadieEntra
    <2>6. HiloDe(r)'.pcb \in EnCola(Fila(r)) =>
            HiloDe(r)'.pc # "push_ready" /\ HiloDe(r)'.pcb = Head(Fila(r))
      BY <1>2, <1>4, <2>3, ConstantesOK DEF EnOrden
    <2>7. EnOrden'
      BY <1>3, <2>1, <2>2, <2>6 DEF EnOrden
    <2>8. QED
      BY <2>5, <2>7
  <1>6. CASE RecursoSacaDeEspera(r) /\ recurso[r].procesos_en_espera # <<>>
    <2>1. /\ UNCHANGED cola /\ RecursoVa(r, "push_ready", Head(Fila(r)))
          /\ recurso' = [recurso EXCEPT ![r].procesos_en_espera = Tail(@)]
      BY <1>2, <1>6 DEF RecursoSacaDeEspera
    <2>2. /\ Fila(r) # <<>> /\ Fila(r)' = Tail(Fila(r))
          /\ HiloDe(r)'.pc = "push_ready" /\ HiloDe(r)'.pcb = Head(Fila(r))
      BY <1>2, <1>6, <2>1 DEF RecursoVa, TipoHiloRecurso, TipoRecurso, UnRecurso
    <2>3. /\ EnCola(Fila(r)') \subseteq EnCola(Fila(r)) /\ SinRepetir(Fila(r)')
          /\ HiloDe(r)'.pcb \notin EnCola(Fila(r)')
          /\ HiloDe(r)'.pcb \in EnCola(Fila(r))
      BY <1>4, <2>2
    <2>4. EnOrden'
      BY <1>3, <2>1, <2>3 DEF EnOrden
    <2>5. \A x \in Esperas : \A p \in Procesos :
            p \in EnCola(Fila(x)') \/ HiloDe(x)'.pcb = p
              => p \in EnCola(Fila(x)) \/ HiloDe(x).pcb = p
      BY <1>3, <2>3
    <2>6. UnaVida' /\ Nacidos'
      BY <1>1, <1>2, <2>1, <2>5, NadieEntra
    <2>7. QED
      BY <2>4, <2>6
  <1>7. CASE RecursoDesbloquea(r)
    <2>1. PICK p \in Procesos : p = hilo_recurso[r].pcb
      BY <1>7 DEF RecursoDesbloquea, EnRecurso, TipoHiloRecurso
    <2>2. /\ HiloDe(r).pc = "push_ready" /\ HiloDe(r).pcb = p
          /\ HiloDe(r)'.pcb = Ninguno /\ Fila(r)' = Fila(r) /\ push_cola_ready(p)
      BY <1>2, <1>7, <2>1 DEF RecursoDesbloquea, EnRecurso, RecursoVa, TipoHiloRecurso
    <2>3. p \notin EnCola(Fila(r)) /\ Ninguno \notin EnCola(Fila(r))
      BY <1>2, <1>4, <2>2, ConstantesOK DEF EnOrden
    <2>4. /\ cola'.ready = Append(cola.ready, p)
          /\ \A d \in Colas \ {"ready"} : cola'[d] = cola[d]
      BY <2>2 DEF push_cola_ready, TipoCola, Colas
    <2>5. Vive(p, "espera", r) /\ "espera" \notin Colas
      BY <1>2, <2>2 DEF Vive, Colas
    <2>6. \A q \in Procesos : \A u, z : u \notin Colas /\ Vive(q, u, z)'
            => Vive(q, u, z) /\ ~(q = p /\ u = "espera" /\ z = r)
      BY <1>1, <1>2, <1>3, <2>2, <2>3, ConstantesOK DEF Vive
    <2>7. UnaVida' /\ Nacidos' /\ \A d \in Colas : SinRepetir(cola'[d])
      BY <1>1, <2>4, <2>5, <2>6, VidaEntraEnCola
    <2>8. EnOrden'
      BY <1>3, <2>2, <2>3, <2>7 DEF EnOrden
    <2>9. QED
      BY <2>7, <2>8
  <1>8. QED
    BY <1>5, <1>6, <1>7 DEF HiloRecurso

\* pop_proceso: what is left of the queue.
LEMMA SacarUnoDeCola ==
  ASSUME NEW q \in Seq(Procesos), NEW p, NEW k \in PrimeraPosicion(q, p), SinRepetir(q)
  PROVE  /\ EnCola(RemoveAt(q, k)) \subseteq EnCola(q)
         /\ SinRepetir(RemoveAt(q, k))
         /\ \A h \in EnCola(RemoveAt(q, k)) : h = Head(q) => h = Head(RemoveAt(q, k))
  <1>1. k \in 1 .. Len(q) /\ Len(q) \in Nat /\ DOMAIN q = 1 .. Len(q)
    BY LenProperties DEF PrimeraPosicion
  <1>2. PICK a : a = SubSeq(q, 1, k - 1)
    OBVIOUS
  <1>3. PICK b : b = SubSeq(q, k + 1, Len(q))
    OBVIOUS
  <1>4. /\ a \in Seq(Procesos) /\ Len(a) = k - 1
        /\ \A j \in 1 .. k - 1 : a[j] = q[j]
    BY <1>1, <1>2, SubSeqProperties, ElementOfSeq
  <1>5. /\ b \in Seq(Procesos) /\ Len(b) = Len(q) - k
        /\ \A j \in 1 .. Len(q) - k : b[j] = q[k + j]
    <2>1. PICK m \in Int : m = k + 1
      BY <1>1
    <2>2. \A i \in m .. Len(q) : q[i] \in Procesos
      BY <1>1, <2>1, ElementOfSeq
    <2>3. /\ b \in Seq(Procesos) /\ Len(b) = IF m <= Len(q) THEN Len(q) - m + 1 ELSE 0
          /\ \A j \in 1 .. Len(q) - m + 1 : b[j] = q[m + j - 1]
      BY <1>1, <1>3, <2>1, <2>2, SubSeqProperties
    <2>4. Len(b) = Len(q) - k /\ Len(q) - m + 1 = Len(q) - k
      <3>1. \A n, i \in Int : i <= n =>
               /\ n - (i + 1) + 1 = n - i
               /\ i + 1 <= n \/ n - i = 0
        OBVIOUS
      <3>2. k \in Int /\ Len(q) \in Int /\ k <= Len(q)
        BY <1>1
      <3>3. /\ Len(q) - m + 1 = Len(q) - k
            /\ m <= Len(q) \/ Len(q) - k = 0
        BY <2>1, <3>1, <3>2
      <3>4. CASE m <= Len(q)
        BY <2>3, <3>3, <3>4
      <3>5. CASE ~(m <= Len(q))
        BY <2>3, <3>3, <3>5
      <3>6. QED
        BY <3>4, <3>5
    <2>5. \A j \in 1 .. Len(q) - k : m + j - 1 = k + j
      BY <1>1, <2>1
    <2>6. QED
      BY <2>3, <2>4, <2>5
  <1>6. PICK c : c = RemoveAt(q, k)
    OBVIOUS
  <1>7. c = a \o b
    BY <1>2, <1>3, <1>6 DEF RemoveAt
  <1>8. /\ c \in Seq(Procesos) /\ Len(c) = Len(q) - 1
        /\ \A j \in 1 .. Len(q) - 1 : c[j] = IF j <= k - 1 THEN a[j] ELSE b[j - (k - 1)]
    <2>1. /\ c \in Seq(Procesos) /\ Len(c) = Len(a) + Len(b)
          /\ \A j \in 1 .. Len(a) + Len(b) : c[j] = IF j <= Len(a) THEN a[j] ELSE b[j - Len(a)]
      BY <1>4, <1>5, <1>7, ConcatProperties
    <2>2. Len(a) = k - 1 /\ Len(a) + Len(b) = Len(q) - 1
      BY <1>1, <1>4, <1>5
    <2>3. QED
      BY <2>1, <2>2
  <1>9. \A j \in 1 .. Len(q) - 1 : c[j] = IF j < k THEN q[j] ELSE q[j + 1]
    <2>1. ASSUME NEW j \in 1 .. Len(q) - 1
          PROVE  c[j] = IF j < k THEN q[j] ELSE q[j + 1]
      <3>1. CASE j < k
        BY <1>1, <1>4, <1>8, <3>1
      <3>2. CASE j >= k
        <4>1. j - (k - 1) \in 1 .. Len(q) - k /\ k + (j - (k - 1)) = j + 1
          BY <1>1, <3>2
        <4>2. QED
          BY <1>1, <1>5, <1>8, <3>2, <4>1
      <3>3. QED
        BY <1>1, <3>1, <3>2
    <2>2. QED
      BY <2>1
  <1>10. DOMAIN c = 1 .. Len(q) - 1
    BY <1>8, LenProperties
  <1>11. \A i, j \in 1 .. Len(q) : q[i] = q[j] => i = j
    BY <1>1 DEF SinRepetir, IsInjective
  <1>12. EnCola(c) \subseteq EnCola(q)
    BY <1>1, <1>9, <1>10 DEF EnCola, ToSet
  <1>13. SinRepetir(c)
    BY <1>1, <1>9, <1>10, <1>11 DEF SinRepetir, IsInjective
  <1>14. ASSUME NEW h \in EnCola(c), h = Head(q)
         PROVE  h = Head(c)
    <2>1. PICK j \in 1 .. Len(q) - 1 : c[j] = h
      BY <1>10 DEF EnCola, ToSet
    <2>2. h = q[1] /\ Len(q) - 1 >= 1
      BY <1>1, <1>14, <2>1, HeadTailProperties, LenProperties, EmptySeq
    <2>3. k # 1
      BY <1>1, <1>9, <1>11, <2>1, <2>2
    <2>4. c[1] = q[1]
      BY <1>1, <1>9, <2>2, <2>3
    <2>5. c # <<>>
      BY <1>8, <2>2, EmptySeq
    <2>6. QED
      BY <1>8, <2>2, <2>4, <2>5, HeadTailProperties
  <1>15. QED
    BY <1>6, <1>12, <1>13, <1>14

\* consola.c: a process is created,
LEMMA VidaInicia ==
  ASSUME IndInv, VidaInv, IniciarProceso, push_cola_new(pcb_counter)
  PROVE  VidaInv'
  <1> USE DEF IndInv, TypeOK, VidaInv
  <1>1. PICK p \in Procesos : p = pcb_counter
    BY DEF IniciarProceso
  <1>2. /\ UNCHANGED <<largo, corto, conexion, recurso, hilo_io, hilo_recurso>>
        /\ pcb_counter \in Nat /\ pcb_counter' = pcb_counter + 1
    BY DEF IniciarProceso, hilos, TipoMando
  <1>3. /\ cola'.new = Append(cola.new, p) /\ cola.new \in Seq(Procesos)
        /\ \A d \in Colas \ {"new"} : cola'[d] = cola[d]
    BY <1>1 DEF push_cola_new, TipoCola, Colas
  <1>4. \A x \in Esperas : Fila(x)' = Fila(x) /\ HiloDe(x)' = HiloDe(x)
    BY <1>2, EsperasIgualesVida
  <1>5. \A u, z : ~Vive(p, u, z)
    BY <1>1, <1>2 DEF Nacidos
  <1>6. p \notin EnCola(cola.new)
    BY <1>5 DEF Vive, Colas
  <1>7. EnCola(cola'.new) = EnCola(cola.new) \cup {p} /\ SinRepetir(cola'.new)
    BY <1>3, <1>6, Encolar DEF EnOrden, Colas
  <1>8. \A q \in Procesos : \A u, z :
          Vive(q, u, z)' => (q = p /\ u = "new" /\ z = Ninguno) \/ Vive(q, u, z)
    <2>1. ASSUME NEW q \in Procesos, NEW u, NEW z, Vive(q, u, z)'
          PROVE  (q = p /\ u = "new" /\ z = Ninguno) \/ Vive(q, u, z)
      <3>1. CASE u \in Colas
        <4>1. z = Ninguno /\ q \in EnCola(cola'[u])
          BY <2>1, <3>1 DEF Vive, Colas
        <4>2. QED
          BY <1>3, <1>7, <3>1, <4>1 DEF Vive, Colas
      <3>2. CASE u \notin Colas
        BY <1>2, <1>4, <2>1, <3>2 DEF Vive, CortoLleva
      <3>3. QED
        BY <3>1, <3>2
    <2>2. QED
      BY <2>1
  <1>9. UnaVida'
    BY <1>5, <1>8 DEF UnaVida
  <1>10. Nacidos'
    <2>1. \A q \in Procesos : q < pcb_counter \/ q = p => q < pcb_counter'
      BY <1>1, <1>2, Enteros
    <2>2. QED
      BY <1>8, <2>1 DEF Nacidos
  <1>11. EnOrden'
    BY <1>3, <1>4, <1>7, OrdenDeColas DEF EnOrden, Colas
  <1>12. QED
    BY <1>9, <1>10, <1>11

\* nobody is put anywhere,
LEMMA VidaConsolaQuieta ==
  ASSUME IndInv, VidaInv,
         UNCHANGED <<largo, corto, hilo_io, hilo_recurso>>,
         pcb_counter' \in {pcb_counter, pcb_counter + 1},
         \A c \in Colas : EnCola(cola'[c]) \subseteq EnCola(cola[c]) /\ SinRepetir(cola'[c]),
         \A x \in Esperas :
           \/ Fila(x)' = Fila(x)
           \/ /\ EnCola(Fila(x)') \subseteq EnCola(Fila(x)) /\ SinRepetir(Fila(x)')
              /\ \A h \in EnCola(Fila(x)') : h = Head(Fila(x)) => h = Head(Fila(x)')
  PROVE  VidaInv'
  <1>1. \A x \in Esperas : /\ HiloDe(x)' = HiloDe(x)
                          /\ EnCola(Fila(x)') \subseteq EnCola(Fila(x))
    BY HiloIgual
  <1>2. UnaVida' /\ Nacidos'
    BY <1>1, NadieEntra DEF CortoLleva, VidaInv, IndInv, TypeOK
  <1>3. EnOrden'
    BY <1>1 DEF EnOrden, VidaInv
  <1>4. QED
    BY <1>2, <1>3 DEF VidaInv

\* or FINALIZAR_PROCESO takes a process out of a queue.
LEMMA VidaSacaDeCola ==
  ASSUME IndInv, VidaInv, NEW l, NEW c \in {"new", "ready"}, SacarDeCola(l, c)
  PROVE  VidaInv'
  <1> USE DEF IndInv, TypeOK
  <1>1. /\ UNCHANGED <<largo, corto, hilo_io, hilo_recurso, pcb_counter>>
        /\ \A x \in Esperas : Fila(x)' = Fila(x)
    BY FilaIgual DEF SacarDeCola, menosConsola, mando
  <1>2. \A d \in Colas : SinRepetir(cola[d])
    BY DEF VidaInv, EnOrden
  <1>3. CASE UNCHANGED cola
    BY <1>1, <1>2, <1>3, VidaConsolaQuieta
  <1>4. CASE \E k \in PrimeraPosicion(cola[c], consola.pid) :
               cola' = [cola EXCEPT ![c] = RemoveAt(@, k)]
    <2>1. PICK k \in PrimeraPosicion(cola[c], consola.pid) :
            cola' = [cola EXCEPT ![c] = RemoveAt(@, k)]
      BY <1>4
    <2>2. /\ cola'[c] = RemoveAt(cola[c], k) /\ cola[c] \in Seq(Procesos) /\ c \in Colas
          /\ \A d \in Colas \ {c} : cola'[d] = cola[d]
      BY <2>1 DEF TipoCola, Colas
    <2>3. EnCola(cola'[c]) \subseteq EnCola(cola[c]) /\ SinRepetir(cola'[c])
      BY <1>2, <2>2, SacarUnoDeCola
    <2>4. QED
      BY <1>1, <1>2, <2>2, <2>3, VidaConsolaQuieta
  <1>5. QED
    BY <1>3, <1>4 DEF SacarDeCola

LEMMA VidaSacaDeIO ==
  ASSUME IndInv, VidaInv, SacarDeIO
  PROVE  VidaInv'
  <1> USE DEF IndInv, TypeOK
  <1>1. UNCHANGED <<cola, largo, corto, recurso, hilo_io, hilo_recurso, pcb_counter>>
    BY DEF SacarDeIO, menosConsola, mando
  <1>2. \A d \in Colas : SinRepetir(cola[d])
    BY DEF VidaInv, EnOrden
  <1>3. CASE UNCHANGED conexion
    <2>1. \A x \in Esperas : Fila(x)' = Fila(x)
      BY <1>1, <1>3, FilaIgual
    <2>2. QED
      BY <1>1, <1>2, <2>1, VidaConsolaQuieta
  <1>4. CASE \E i \in EsperaIO(consola.pid) :
               \E k \in PrimeraPosicion(conexion[i].cola_espera, consola.pid) :
                 conexion' = [conexion EXCEPT ![i].cola_espera = RemoveAt(@, k)]
    <2>1. PICK i \in Interfaces :
               \E k \in PrimeraPosicion(conexion[i].cola_espera, consola.pid) :
                 conexion' = [conexion EXCEPT ![i].cola_espera = RemoveAt(@, k)]
      BY <1>4 DEF EsperaIO
    <2>2. PICK k \in PrimeraPosicion(conexion[i].cola_espera, consola.pid) :
                 conexion' = [conexion EXCEPT ![i].cola_espera = RemoveAt(@, k)]
      BY <2>1
    <2>3. /\ conexion'[i].cola_espera = RemoveAt(conexion[i].cola_espera, k)
          /\ conexion[i].cola_espera \in Seq(Procesos)
          /\ \A j \in Interfaces \ {i} : conexion'[j] = conexion[j]
      BY <2>2 DEF TipoConexion, UnaConexion
    <2>4. /\ i \in Esperas /\ Fila(i) = conexion[i].cola_espera
          /\ Fila(i)' = conexion'[i].cola_espera
      BY DEF Esperas, Fila
    <2>5. \A x \in Esperas \ {i} : Fila(x)' = Fila(x)
      BY <1>1, <2>3, FilaIgual DEF Esperas
    <2>6. SinRepetir(conexion[i].cola_espera)
      BY <2>4 DEF VidaInv, EnOrden
    <2>7. /\ EnCola(Fila(i)') \subseteq EnCola(Fila(i)) /\ SinRepetir(Fila(i)')
          /\ \A h \in EnCola(Fila(i)') : h = Head(Fila(i)) => h = Head(Fila(i)')
      BY <2>3, <2>4, <2>6, SacarUnoDeCola
    <2>8. QED
      BY <1>1, <1>2, <2>5, <2>7, VidaConsolaQuieta
  <1>5. QED
    BY <1>3, <1>4 DEF SacarDeIO

LEMMA VidaSacaDeRecurso ==
  ASSUME IndInv, VidaInv, SacarDeRecurso
  PROVE  VidaInv'
  <1> USE DEF IndInv, TypeOK
  <1>1. UNCHANGED <<cola, largo, corto, conexion, hilo_io, hilo_recurso, pcb_counter>>
    BY DEF SacarDeRecurso, menosConsola, mando
  <1>2. \A d \in Colas : SinRepetir(cola[d])
    BY DEF VidaInv, EnOrden
  <1>3. CASE UNCHANGED recurso
    <2>1. \A x \in Esperas : Fila(x)' = Fila(x)
      BY <1>1, <1>3, FilaIgual
    <2>2. QED
      BY <1>1, <1>2, <2>1, VidaConsolaQuieta
  <1>4. CASE \E r \in EsperaRecurso(consola.pid) :
               \E k \in PrimeraPosicion(recurso[r].procesos_en_espera, consola.pid) :
                 recurso' = [recurso EXCEPT ![r].procesos_en_espera = RemoveAt(@, k)]
    <2>1. PICK r \in Recursos :
               \E k \in PrimeraPosicion(recurso[r].procesos_en_espera, consola.pid) :
                 recurso' = [recurso EXCEPT ![r].procesos_en_espera = RemoveAt(@, k)]
      BY <1>4 DEF EsperaRecurso
    <2>2. PICK k \in PrimeraPosicion(recurso[r].procesos_en_espera, consola.pid) :
                 recurso' = [recurso EXCEPT ![r].procesos_en_espera = RemoveAt(@, k)]
      BY <2>1
    <2>3. /\ recurso'[r].procesos_en_espera = RemoveAt(recurso[r].procesos_en_espera, k)
          /\ recurso[r].procesos_en_espera \in Seq(Procesos)
          /\ \A s \in Recursos \ {r} : recurso'[s] = recurso[s]
      BY <2>2 DEF TipoRecurso, UnRecurso
    <2>4. /\ r \in Esperas /\ Fila(r) = recurso[r].procesos_en_espera
          /\ Fila(r)' = recurso'[r].procesos_en_espera
      BY ConstantesOK DEF Esperas, Fila
    <2>5. \A x \in Esperas \ {r} : Fila(x)' = Fila(x)
      BY <1>1, <2>3, FilaIgual DEF Esperas
    <2>6. SinRepetir(recurso[r].procesos_en_espera)
      BY <2>4 DEF VidaInv, EnOrden
    <2>7. /\ EnCola(Fila(r)') \subseteq EnCola(Fila(r)) /\ SinRepetir(Fila(r)')
          /\ \A h \in EnCola(Fila(r)') : h = Head(Fila(r)) => h = Head(Fila(r)')
      BY <2>3, <2>4, <2>6, SacarUnoDeCola
    <2>8. QED
      BY <1>1, <1>2, <2>5, <2>7, VidaConsolaQuieta
  <1>5. QED
    BY <1>3, <1>4 DEF SacarDeRecurso

LEMMA VidaConsola ==
  ASSUME IndInv, VidaInv, Consola
  PROVE  VidaInv'
  <1> USE DEF IndInv, TypeOK
  <1>1. CASE IniciarProceso /\ push_cola_new(pcb_counter)
    BY <1>1, VidaInicia
  <1>2. CASE SacarDeCola("sacar_new", "new") \/ SacarDeCola("sacar_ready", "ready")
    BY <1>2, VidaSacaDeCola
  <1>3. CASE SacarDeIO \/ SacarDeRecurso
    BY <1>3, VidaSacaDeIO, VidaSacaDeRecurso
  <1>4. CASE \/ IniciarProceso /\ UNCHANGED cola
             \/ DetenerPlanificacion \/ DetenerEnPausa \/ ReanudarPlanificacion
             \/ Multiprogramacion \/ FinalizarProceso \/ BuscarProceso
             \/ InterrumpirProceso \/ EnviarInterrupcion \/ ConsolaFinaliza
             \/ ConsolaLiberaGrado \/ ConsolaReduceGrado \/ ConsolaReanuda
             \/ ConsolaLiberaRecursos("exit_recursos", "grado")
             \/ ConsolaLiberaRecursos("liberar", "reanudar")
    <2>1. /\ UNCHANGED <<largo, corto, conexion, hilo_io, hilo_recurso>>
          /\ pcb_counter' \in {pcb_counter, pcb_counter + 1}
      BY <1>4 DEF IniciarProceso, DetenerPlanificacion, DetenerEnPausa,
         ReanudarPlanificacion, Multiprogramacion, FinalizarProceso, BuscarProceso,
         InterrumpirProceso, EnviarInterrupcion, ConsolaFinaliza, ConsolaLiberaGrado,
         ConsolaReduceGrado, ConsolaLiberaRecursos, ConsolaReanuda, hilos, menosConsola, mando
    <2>2. \A d \in Colas : cola'[d] = cola[d]
      BY <1>4 DEF DetenerPlanificacion, DetenerEnPausa,
         ReanudarPlanificacion, Multiprogramacion, FinalizarProceso, BuscarProceso,
         InterrumpirProceso, EnviarInterrupcion, ConsolaFinaliza, ConsolaLiberaGrado,
         ConsolaReduceGrado, ConsolaLiberaRecursos, ConsolaReanuda, push_cola_exit,
         Colas, TipoCola
    <2>3. \A r \in Recursos : recurso'[r].procesos_en_espera = recurso[r].procesos_en_espera
      BY <1>4, LiberarEsperas DEF IniciarProceso, DetenerPlanificacion, DetenerEnPausa,
         ReanudarPlanificacion, Multiprogramacion, FinalizarProceso, BuscarProceso,
         InterrumpirProceso, EnviarInterrupcion, ConsolaFinaliza, ConsolaLiberaGrado,
         ConsolaReduceGrado, ConsolaLiberaRecursos, ConsolaReanuda, push_cola_exit
    <2>4. \A x \in Esperas : Fila(x)' = Fila(x)
      BY <2>1, <2>3, FilaIgual
    <2>5. \A d \in Colas : EnCola(cola'[d]) \subseteq EnCola(cola[d]) /\ SinRepetir(cola'[d])
      BY <2>2 DEF VidaInv, EnOrden
    <2>6. QED
      BY <2>1, <2>4, <2>5, VidaConsolaQuieta
  <1>5. QED
    BY <1>1, <1>2, <1>3, <1>4 DEF Consola, Finalizacion, IniciarProceso

\* A spoilt list only loses elements.
LEMMA PerderUno ==
  ASSUME NEW q \in Seq(Procesos), NEW k \in DOMAIN q, SinRepetir(q)
  PROVE  /\ EnCola(RemoveAt(q, k)) \subseteq EnCola(q)
         /\ SinRepetir(RemoveAt(q, k))
         /\ \A h \in EnCola(RemoveAt(q, k)) : h = Head(q) => h = Head(RemoveAt(q, k))
  <1>1. DOMAIN q = 1 .. Len(q) /\ Len(q) \in Nat
    BY LenProperties
  <1>2. k \in PrimeraPosicion(q, q[k])
    BY <1>1 DEF PrimeraPosicion, SinRepetir, IsInjective
  <1>3. QED
    BY <1>2, SacarUnoDeCola

LEMMA VidaCarreras ==
  ASSUME IndInv, VidaInv, Carreras
  PROVE  VidaInv'
  <1> USE DEF IndInv, TypeOK
  <1>1. \A d \in Colas : SinRepetir(cola[d])
    BY DEF VidaInv, EnOrden
  <1>2. CASE \/ Choque \/ MuerePorCarrera \/ LecturaRota \/ PierdePID \/ ConsolaSeCuelga
    <2>1. /\ UNCHANGED <<cola, largo, corto, conexion, hilo_io, hilo_recurso, pcb_counter>>
          /\ \A r \in Recursos :
               recurso'[r].procesos_en_espera = recurso[r].procesos_en_espera
      BY <1>2 DEF Choque, MuerePorCarrera, LecturaRota, PierdePID, ConsolaSeCuelga, hilos,
         menosConsola, mando, TipoRecurso, UnRecurso
    <2>2. \A x \in Esperas : Fila(x)' = Fila(x)
      BY <2>1, FilaIgual
    <2>3. QED
      BY <1>1, <2>1, <2>2, VidaConsolaQuieta
  <1>3. CASE PierdeDeCola
    <2>1. PICK c \in DOMAIN cola : \E k \in DOMAIN cola[c] :
                 cola' = [cola EXCEPT ![c] = RemoveAt(@, k)]
      BY <1>3 DEF PierdeDeCola
    <2>2. PICK k \in DOMAIN cola[c] : cola' = [cola EXCEPT ![c] = RemoveAt(@, k)]
      BY <2>1
    <2>3. /\ cola'[c] = RemoveAt(cola[c], k) /\ cola[c] \in Seq(Procesos)
          /\ \A d \in Colas \ {c} : cola'[d] = cola[d]
      BY <2>2 DEF TipoCola, Colas
    <2>4. \A d \in Colas : EnCola(cola'[d]) \subseteq EnCola(cola[d]) /\ SinRepetir(cola'[d])
      BY <1>1, <2>3, PerderUno
    <2>5. /\ UNCHANGED <<largo, corto, conexion, recurso, hilo_io, hilo_recurso, pcb_counter>>
          /\ \A x \in Esperas : Fila(x)' = Fila(x)
      BY <1>3, FilaIgual DEF PierdeDeCola, hilos, mando
    <2>6. QED
      BY <2>4, <2>5, VidaConsolaQuieta
  <1>4. CASE PierdeDeIO
    <2>1. PICK i \in Interfaces : \E k \in DOMAIN conexion[i].cola_espera :
                 conexion' = [conexion EXCEPT ![i].cola_espera = RemoveAt(@, k)]
      BY <1>4 DEF PierdeDeIO
    <2>2. PICK k \in DOMAIN conexion[i].cola_espera :
                 conexion' = [conexion EXCEPT ![i].cola_espera = RemoveAt(@, k)]
      BY <2>1
    <2>3. /\ conexion'[i].cola_espera = RemoveAt(conexion[i].cola_espera, k)
          /\ conexion[i].cola_espera \in Seq(Procesos)
          /\ \A j \in Interfaces \ {i} : conexion'[j] = conexion[j]
      BY <2>2 DEF TipoConexion, UnaConexion
    <2>4. /\ i \in Esperas /\ Fila(i) = conexion[i].cola_espera
          /\ Fila(i)' = conexion'[i].cola_espera
      BY DEF Esperas, Fila
    <2>5. UNCHANGED <<cola, largo, corto, recurso, hilo_io, hilo_recurso, pcb_counter>>
      BY <1>4 DEF PierdeDeIO, hilos, mando
    <2>6. \A x \in Esperas \ {i} : Fila(x)' = Fila(x)
      BY <2>3, <2>5, FilaIgual DEF Esperas
    <2>7. SinRepetir(conexion[i].cola_espera)
      BY <2>4 DEF VidaInv, EnOrden
    <2>8. /\ EnCola(Fila(i)') \subseteq EnCola(Fila(i)) /\ SinRepetir(Fila(i)')
          /\ \A h \in EnCola(Fila(i)') : h = Head(Fila(i)) => h = Head(Fila(i)')
      BY <2>3, <2>4, <2>7, PerderUno
    <2>9. QED
      BY <1>1, <2>5, <2>6, <2>8, VidaConsolaQuieta
  <1>5. CASE PierdeDeRecurso
    <2>1. PICK r \in Recursos : \E k \in DOMAIN recurso[r].procesos_en_espera :
                 recurso' = [recurso EXCEPT ![r].procesos_en_espera = RemoveAt(@, k)]
      BY <1>5 DEF PierdeDeRecurso
    <2>2. PICK k \in DOMAIN recurso[r].procesos_en_espera :
                 recurso' = [recurso EXCEPT ![r].procesos_en_espera = RemoveAt(@, k)]
      BY <2>1
    <2>3. /\ recurso'[r].procesos_en_espera = RemoveAt(recurso[r].procesos_en_espera, k)
          /\ recurso[r].procesos_en_espera \in Seq(Procesos)
          /\ \A s \in Recursos \ {r} : recurso'[s] = recurso[s]
      BY <2>2 DEF TipoRecurso, UnRecurso
    <2>4. /\ r \in Esperas /\ Fila(r) = recurso[r].procesos_en_espera
          /\ Fila(r)' = recurso'[r].procesos_en_espera
      BY ConstantesOK DEF Esperas, Fila
    <2>5. UNCHANGED <<cola, largo, corto, conexion, hilo_io, hilo_recurso, pcb_counter>>
      BY <1>5 DEF PierdeDeRecurso, hilos, mando
    <2>6. \A x \in Esperas \ {r} : Fila(x)' = Fila(x)
      BY <2>3, <2>5, FilaIgual DEF Esperas
    <2>7. SinRepetir(recurso[r].procesos_en_espera)
      BY <2>4 DEF VidaInv, EnOrden
    <2>8. /\ EnCola(Fila(r)') \subseteq EnCola(Fila(r)) /\ SinRepetir(Fila(r)')
          /\ \A h \in EnCola(Fila(r)') : h = Head(Fila(r)) => h = Head(Fila(r)')
      BY <2>3, <2>4, <2>7, PerderUno
    <2>9. QED
      BY <1>1, <2>5, <2>6, <2>8, VidaConsolaQuieta
  <1>6. QED
    BY <1>2, <1>3, <1>4, <1>5, VidaCortoQuieto DEF Carreras

LEMMA VidaPaso ==
  ASSUME IndInv, VidaInv, [Next]_vars
  PROVE  VidaInv'
  <1>1. CASE UNCHANGED vars
    <2>1. \A x \in Esperas : Fila(x)' = Fila(x)
      BY <1>1, FilaIgual DEF vars
    <2>2. \A d \in Colas : EnCola(cola'[d]) \subseteq EnCola(cola[d]) /\ SinRepetir(cola'[d])
      BY <1>1 DEF vars, VidaInv, EnOrden
    <2>3. QED
      BY <1>1, <2>1, <2>2, VidaConsolaQuieta DEF vars
  <1>2. QED
    BY <1>1, VidaLargo, VidaCorto, VidaConsola, VidaCarreras, VidaIO, VidaRecurso DEF Next

LEMMA VidaInicial ==
  ASSUME Init
  PROVE  VidaInv
  <1>1. /\ \A x \in Esperas : Fila(x) = <<>> /\ HiloDe(x).pcb = Ninguno
        /\ \A d \in Colas : cola[d] = <<>>
        /\ largo.pcb = Ninguno /\ corto.pcb = Ninguno
    BY DEF Init, Fila, HiloDe, Esperas, Colas
  <1>2. \A p \in Procesos : \A s, x : ~Vive(p, s, x)
    BY <1>1, ColaVacia, ConstantesOK DEF Vive, CortoLleva
  <1>3. UnaVida /\ Nacidos
    BY <1>2 DEF UnaVida, Nacidos
  <1>4. EnOrden
    BY <1>1, ColaVacia DEF EnOrden
  <1>5. QED
    BY <1>3, <1>4 DEF VidaInv

\* Whatever the operator does, and even in a list two threads have spoilt, no
\* process is in two places it could run from.
THEOREM VidaInvariante == Spec => []VidaInv
  <1>1. IndInv /\ VidaInv /\ [Next]_vars => VidaInv'
    BY VidaPaso
  <1>2. Init => VidaInv
    BY VidaInicial
  <1>3. QED
    BY <1>1, <1>2, Invariante, PTL DEF Spec

-----------------------------------------------------------------------------
(***************************************************************************)
(* The instances of the resources, with FINALIZAR_PROCESO.                 *)
(***************************************************************************)
\* FINALIZAR_PROCESO gives an instance back that the process may then release
\* again: the instances may grow, not shrink.
Prestado(r) ==
  /\ \A p \in Procesos : Tiene(r, p) \in {0, 1}
  /\ Libres(r) + Cardinality(Duenos(r)) >= InstanciasIniciales[r]

\* Of what the program asked for, only the requests are still as they were;
SolicitudInv ==
  /\ corto.pc \in {"puerta_respuesta", "atender"} /\ corto.arg \in Recursos
       /\ corto.op = "PROCESO_SOLICITA_RECURSO" => Tiene(corto.arg, corto.pcb) = 0
  /\ corto.pc \in {"wait_recurso", "a_espera"} => Tiene(corto.arg, corto.pcb) = 0

\* and nobody waits for an instance it has, unless it has just been served.
TurnoUnico ==
  \A r \in Recursos : \A p \in EnEsperaDe(r) : Tiene(r, p) = 1 => Servido(r, p)

PrestamoInv == (\A r \in Recursos : Prestado(r)) /\ SolicitudInv /\ TurnoUnico

LEMMA PrestadoSigue ==
  ASSUME TipoRecurso, NEW r \in Recursos, Prestado(r),
         \/ Libres(r)' = Libres(r) /\ \A p \in Procesos : Tiene(r, p)' = Tiene(r, p)
         \/ \E q \in Procesos : recurso'[r] = Tomado(recurso[r], q) /\ Tiene(r, q) = 0
         \/ \E q \in Procesos : recurso'[r] = Senalado(recurso[r], q)
  PROVE  Prestado(r)'
  <1>1. CASE Libres(r)' = Libres(r) /\ \A p \in Procesos : Tiene(r, p)' = Tiene(r, p)
    BY <1>1 DEF Prestado, Duenos
  <1>2. /\ Cardinality(Duenos(r)) \in Nat /\ Libres(r) \in Nat
        /\ InstanciasIniciales[r] \in Nat
    BY DuenosFinitos, ConstantesOK DEF TipoRecurso, UnRecurso, Libres
  <1>3. ASSUME NEW q \in Procesos, recurso'[r] = Tomado(recurso[r], q), Tiene(r, q) = 0
        PROVE  Prestado(r)'
    <2>1. Tiene(r, q)' = Tiene(r, q) + 1
      BY <1>3, TomadoDa
    <2>2. /\ Libres(r)' = Libres(r) - 1 /\ Tiene(r, q)' = 1
          /\ \A p \in Procesos \ {q} : Tiene(r, p)' = Tiene(r, p)
      BY <1>3, <2>1, TomadoDa
    <2>3. Duenos(r)' = Duenos(r) \cup {q} /\ q \notin Duenos(r)
      BY <1>3, <2>2 DEF Duenos
    <2>4. Cardinality(Duenos(r)') = Cardinality(Duenos(r)) + 1
      BY <2>3, DuenosFinitos, FS_AddElement
    <2>5. Libres(r)' + Cardinality(Duenos(r)') >= InstanciasIniciales[r]
      BY <1>2, <2>2, <2>4 DEF Prestado
    <2>6. QED
      BY <2>2, <2>5 DEF Prestado
  <1>4. ASSUME NEW q \in Procesos, recurso'[r] = Senalado(recurso[r], q)
        PROVE  Prestado(r)'
    <2>1. /\ Libres(r)' = Libres(r) + 1 /\ Tiene(r, q)' = 0
          /\ \A p \in Procesos \ {q} : Tiene(r, p)' = Tiene(r, p)
      BY <1>4, SenaladoDa
    <2>2. Duenos(r)' = Duenos(r) \ {q}
      BY <2>1 DEF Duenos
    <2>3. Cardinality(Duenos(r)') \in {Cardinality(Duenos(r)), Cardinality(Duenos(r)) - 1}
      BY <2>2, DuenosFinitos, FS_RemoveElement
    <2>4. Libres(r)' + Cardinality(Duenos(r)') >= InstanciasIniciales[r]
      BY <1>2, <2>1, <2>3 DEF Prestado
    <2>5. QED
      BY <2>1, <2>4 DEF Prestado
  <1>5. QED
    BY <1>1, <1>3, <1>4

\* A release: of a process by the console or at its end, of a resource by SIGNAL.
Suelta(p) ==
  \A r \in Recursos : recurso'[r] = recurso[r] \/ recurso'[r] = Senalado(recurso[r], p)

LEMMA PrestamoSuelta ==
  ASSUME IndInv, PrestamoInv, NEW q \in Procesos, Suelta(q), UNCHANGED hilo_recurso,
         \/ UNCHANGED corto
         \/ corto'.pc \notin {"puerta_respuesta", "atender", "wait_recurso", "a_espera"}
  PROVE  PrestamoInv'
  <1> USE DEF IndInv, TypeOK, PrestamoInv
  <1>1. ASSUME NEW r \in Recursos
        PROVE  /\ Prestado(r)' /\ EnEsperaDe(r)' = EnEsperaDe(r)
               /\ \A p \in Procesos : Tiene(r, p)' = Tiene(r, p) \/ Tiene(r, p)' = 0
    <2>1. CASE recurso'[r] = recurso[r]
      <3>1. /\ Libres(r)' = Libres(r) /\ \A p \in Procesos : Tiene(r, p)' = Tiene(r, p)
            /\ EnEsperaDe(r)' = EnEsperaDe(r)
        BY <2>1 DEF Libres, Tiene, EnEsperaDe
      <3>2. QED
        BY <3>1, PrestadoSigue
    <2>2. CASE recurso'[r] = Senalado(recurso[r], q)
      <3>1. /\ Tiene(r, q)' = 0 /\ \A p \in Procesos \ {q} : Tiene(r, p)' = Tiene(r, p)
            /\ recurso'[r].procesos_en_espera = recurso[r].procesos_en_espera
        BY <2>2, SenaladoDa
      <3>2. Prestado(r)'
        BY <2>2, PrestadoSigue
      <3>3. QED
        BY <3>1, <3>2 DEF EnEsperaDe
    <2>3. QED
      BY <2>1, <2>2 DEF Suelta
  <1>2. \A r \in Recursos : EnEsperaDe(r) \subseteq Procesos
    BY EnColaTipo DEF EnEsperaDe, TipoRecurso, UnRecurso
  <1>3. TurnoUnico'
    BY <1>1, <1>2 DEF TurnoUnico, Servido
  <1>4. SolicitudInv'
    <2>1. corto.pc \in {"puerta_respuesta", "atender", "wait_recurso", "a_espera"}
            => corto.pcb \in Procesos
      BY DEF TipoCorto
    <2>2. corto.pc \in {"wait_recurso", "a_espera"} => corto.arg \in Recursos
      BY DEF TipoCorto
    <2>3. QED
      BY <1>1, <2>1, <2>2 DEF SolicitudInv
  <1>5. QED
    BY <1>1, <1>3, <1>4

\* The process the scheduler has waits for no resource.
LEMMA CortoNoEspera ==
  ASSUME IndInv, VidaInv, corto.pc \in PcsEjecuta
  PROVE  /\ corto.pcb \in Procesos
         /\ \A r \in Recursos : corto.pcb \notin EnEsperaDe(r)
  <1>1. corto.pcb \in Procesos
    BY DEF PcsEjecuta, IndInv, TypeOK, TipoCorto
  <1>2. Vive(corto.pcb, "corto", Ninguno)
    BY DEF PcsEjecuta, Vive, CortoLleva
  <1>3. \A r \in Recursos : ~Vive(corto.pcb, "espera", r)
    BY <1>1, <1>2 DEF VidaInv, UnaVida
  <1>4. \A r \in Recursos : r \in Esperas /\ Fila(r) = recurso[r].procesos_en_espera
    BY ConstantesOK DEF Fila, Esperas
  <1>5. QED
    BY <1>1, <1>3, <1>4 DEF Vive, EnEsperaDe

\* planificador_corto.c: the steps that leave the resources alone,
LEMMA PrestamoCortoQuieto ==
  ASSUME Disciplinados, IndInv, PrestamoInv, Corto \/ CortoSeCuelga, UNCHANGED recurso
  PROVE  PrestamoInv'
  <1>1. UNCHANGED hilo_recurso
    BY DEF Corto, CortoEsperaListo, CortoEsperaCpu, CortoPasaPuerta, CortoElige,
       CortoSacaDeReady, CortoSacaDePrioridad, CortoSacaDe, CortoDespacha, CortoRecibe,
       CortoPasaPuertaRespuesta, CortoAtiendeFin, CortoAtiendeQuantum, CortoAtiendeIO,
       CortoValidaIO, CortoAtiendeSolicita, CortoAtiendeLibera, CortoTomaRecurso,
       CortoDevuelveAReady, CortoEncolaEnIO, CortoEncolaEnRecurso, CortoFinaliza,
       CortoLiberaRecursos, CortoLiberaGrado, CortoReduceGrado, CortoLiberaCpu,
       CortoSeCuelga, menosCorto
  <1>2. /\ \A r \in Recursos : Libres(r)' = Libres(r) /\ EnEsperaDe(r)' = EnEsperaDe(r)
        /\ \A r, p : Tiene(r, p)' = Tiene(r, p) /\ (Servido(r, p)' <=> Servido(r, p))
    BY <1>1 DEF Libres, EnEsperaDe, Tiene, Servido
  <1>3. (\A r \in Recursos : Prestado(r)') /\ TurnoUnico'
    BY <1>2, PrestadoSigue DEF PrestamoInv, TurnoUnico, IndInv, TypeOK
  <1>4. SolicitudInv'
    <2> USE DEF IndInv, TypeOK, TipoCorto
    <2>1. CASE CortoRecibe
      <3>1. PICK s \in Respuestas :
              corto' = [corto EXCEPT !.pc = "puerta_respuesta", !.op = s.op, !.arg = s.arg]
        BY <2>1 DEF CortoRecibe
      <3>2. /\ corto'.pc = "puerta_respuesta" /\ corto'.op = s.op /\ corto'.arg = s.arg
            /\ corto'.pcb = corto.pcb
        BY <2>1, <3>1 DEF CortoRecibe, EnCorto
      <3>3. s.arg \in Recursos /\ s.op = "PROCESO_SOLICITA_RECURSO"
              => PideRecurso(s.op, s.arg)
        BY ConstantesOK DEF Respuestas, OpsFinales
      <3>4. s.arg \in Recursos /\ s.op = "PROCESO_SOLICITA_RECURSO"
              => Tiene(s.arg, corto.pcb) = 0
        BY <3>3, ConstantesOK DEF PideRecurso, Tiene
      <3>5. QED
        BY <1>2, <3>2, <3>4 DEF SolicitudInv
    <2>2. CASE CortoPasaPuertaRespuesta
      <3>1. /\ corto.pc = "puerta_respuesta" /\ corto'.pc = "atender" /\ corto'.op = corto.op
            /\ corto'.arg = corto.arg /\ corto'.pcb = corto.pcb
        BY <2>2 DEF CortoPasaPuertaRespuesta, EnCorto, CortoVa
      <3>2. QED
        BY <1>2, <3>1 DEF PrestamoInv, SolicitudInv
    <2>3. CASE CortoAtiendeSolicita
      <3>1. /\ corto.pc = "atender" /\ corto.op = "PROCESO_SOLICITA_RECURSO"
            /\ corto.arg \in Recursos /\ corto'.pc \in {"wait_recurso", "a_espera"}
            /\ corto'.arg = corto.arg /\ corto'.pcb = corto.pcb
        BY <2>3 DEF CortoAtiendeSolicita, EnCorto, CortoVa
      <3>2. QED
        BY <1>2, <3>1 DEF PrestamoInv, SolicitudInv
    <2>4. CASE \/ CortoEsperaListo \/ CortoEsperaCpu \/ CortoPasaPuerta \/ CortoElige
               \/ CortoSacaDeReady \/ CortoSacaDePrioridad \/ CortoDespacha
               \/ CortoAtiendeFin \/ CortoAtiendeQuantum \/ CortoAtiendeIO \/ CortoValidaIO
               \/ CortoAtiendeLibera \/ CortoTomaRecurso \/ CortoDevuelveAReady
               \/ CortoEncolaEnIO \/ CortoEncolaEnRecurso \/ CortoFinaliza
               \/ CortoLiberaRecursos \/ CortoLiberaGrado \/ CortoReduceGrado
               \/ CortoLiberaCpu \/ CortoSeCuelga
      <3>1. \/ corto' = corto
            \/ corto'.pc \notin {"puerta_respuesta", "atender", "wait_recurso", "a_espera"}
        BY <2>4 DEF CortoEsperaListo, CortoEsperaCpu, CortoPasaPuerta, CortoElige,
           CortoSacaDeReady, CortoSacaDePrioridad, CortoSacaDe, CortoDespacha,
           CortoAtiendeFin, CortoAtiendeQuantum, CortoAtiendeIO, CortoValidaIO,
           CortoAtiendeLibera, CortoTomaRecurso, CortoDevuelveAReady, CortoEncolaEnIO,
           CortoEncolaEnRecurso, CortoFinaliza, CortoLiberaRecursos, CortoLiberaGrado,
           CortoReduceGrado, CortoLiberaCpu, CortoSeCuelga, CortoVa
      <3>2. QED
        BY <1>2, <3>1 DEF PrestamoInv, SolicitudInv
    <2>5. QED
      BY <2>1, <2>2, <2>3, <2>4 DEF Corto
  <1>5. QED
    BY <1>3, <1>4 DEF PrestamoInv

\* those that release,
LEMMA PrestamoCortoSuelta ==
  ASSUME IndInv, PrestamoInv, CortoAtiendeLibera \/ CortoLiberaRecursos
  PROVE  PrestamoInv'
  <1> USE DEF IndInv, TypeOK
  <1>1. PICK p \in Procesos : p = corto.pcb
    BY DEF CortoAtiendeLibera, CortoLiberaRecursos, EnCorto, TipoCorto
  <1>2. /\ UNCHANGED hilo_recurso
        /\ corto'.pc \notin {"puerta_respuesta", "atender", "wait_recurso", "a_espera"}
    BY DEF CortoAtiendeLibera, CortoLiberaRecursos, CortoVa, menosCorto, TipoCorto
  <1>3. CASE CortoAtiendeLibera
    <2>1. Suelta(p)
      BY <1>1, <1>3 DEF CortoAtiendeLibera, Suelta, TipoRecurso
    <2>2. QED
      BY <1>2, <2>1, PrestamoSuelta
  <1>4. CASE CortoLiberaRecursos
    <2>1. Suelta(p)
      BY <1>1, <1>4 DEF CortoLiberaRecursos, liberar_recurso_del_proceso, Suelta
    <2>2. QED
      BY <1>2, <2>1, PrestamoSuelta
  <1>5. QED
    BY <1>3, <1>4

\* the one that takes an instance,
LEMMA PrestamoCortoToma ==
  ASSUME IndInv, VidaInv, PrestamoInv, CortoTomaRecurso
  PROVE  PrestamoInv'
  <1> USE DEF IndInv, TypeOK, PrestamoInv
  <1>1. /\ UNCHANGED hilo_recurso /\ corto.pc = "wait_recurso" /\ corto'.pc = "respuesta"
        /\ corto.arg \in Recursos /\ corto.pcb \in Procesos
    BY DEF CortoTomaRecurso, EnCorto, CortoVa, menosCorto, TipoCorto
  <1>2. PICK s \in Recursos : s = corto.arg
    BY <1>1
  <1>3. PICK q \in Procesos : q = corto.pcb
    BY <1>1
  <1>4. /\ recurso'[s] = Tomado(recurso[s], q)
        /\ \A r \in Recursos \ {s} : recurso'[r] = recurso[r]
    BY <1>2, <1>3 DEF CortoTomaRecurso, TipoRecurso
  <1>5. Tiene(s, q) = 0
    BY <1>1, <1>2, <1>3 DEF SolicitudInv
  <1>6. /\ \A p \in Procesos \ {q} : Tiene(s, p)' = Tiene(s, p)
        /\ EnEsperaDe(s)' = EnEsperaDe(s) /\ Prestado(s)'
    BY <1>4, <1>5, TomadoDa, PrestadoSigue DEF EnEsperaDe
  <1>7. /\ \A r \in Recursos \ {s} :
             /\ Libres(r)' = Libres(r) /\ EnEsperaDe(r)' = EnEsperaDe(r)
             /\ \A p : Tiene(r, p)' = Tiene(r, p)
        /\ \A r, p : Servido(r, p)' <=> Servido(r, p)
    BY <1>1, <1>4 DEF Libres, EnEsperaDe, Tiene, Servido
  <1>8. \A r \in Recursos : Prestado(r)'
    BY <1>6, <1>7, PrestadoSigue
  <1>9. SolicitudInv'
    BY <1>1 DEF SolicitudInv
  <1>10. TurnoUnico'
    <2>1. q \notin EnEsperaDe(s)
      BY <1>1, <1>2, <1>3, CortoNoEspera DEF PcsEjecuta
    <2>2. EnEsperaDe(s) \subseteq Procesos
      BY EnColaTipo DEF EnEsperaDe, TipoRecurso, UnRecurso
    <2>3. QED
      BY <1>6, <1>7, <2>1, <2>2 DEF TurnoUnico
  <1>11. QED
    BY <1>8, <1>9, <1>10

\* and the one that queues the process.
LEMMA PrestamoCortoEncola ==
  ASSUME IndInv, PrestamoInv, CortoEncolaEnRecurso
  PROVE  PrestamoInv'
  <1> USE DEF IndInv, TypeOK, PrestamoInv
  <1>1. /\ UNCHANGED hilo_recurso /\ corto.pc = "a_espera" /\ corto'.pc = "post_cpu"
        /\ corto.arg \in Recursos /\ corto.pcb \in Procesos
    BY DEF CortoEncolaEnRecurso, EnCorto, CortoVa, menosCorto, TipoCorto
  <1>2. PICK s \in Recursos : s = corto.arg
    BY <1>1
  <1>3. PICK q \in Procesos : q = corto.pcb
    BY <1>1
  <1>4. /\ recurso'[s] = EnEspera(recurso[s], q) /\ recurso[s].procesos_en_espera \in Seq(Procesos)
        /\ \A r \in Recursos \ {s} : recurso'[r] = recurso[r]
    BY <1>2, <1>3 DEF CortoEncolaEnRecurso, TipoRecurso, UnRecurso
  <1>5. /\ Libres(s)' = Libres(s) /\ \A p : Tiene(s, p)' = Tiene(s, p)
        /\ EnEsperaDe(s)' = EnEsperaDe(s) \cup {q}
    BY <1>4, Encolar DEF EnEspera, Libres, Tiene, EnEsperaDe
  <1>6. /\ \A r \in Recursos \ {s} :
             /\ Libres(r)' = Libres(r) /\ EnEsperaDe(r)' = EnEsperaDe(r)
             /\ \A p : Tiene(r, p)' = Tiene(r, p)
        /\ \A r, p : Servido(r, p)' <=> Servido(r, p)
    BY <1>1, <1>4 DEF Libres, EnEsperaDe, Tiene, Servido
  <1>7. \A r \in Recursos : Prestado(r)'
    BY <1>5, <1>6, PrestadoSigue
  <1>8. SolicitudInv'
    BY <1>1 DEF SolicitudInv
  <1>9. Tiene(s, q) = 0
    BY <1>1, <1>2, <1>3 DEF SolicitudInv
  <1>10. TurnoUnico'
    BY <1>5, <1>6, <1>9 DEF TurnoUnico
  <1>11. QED
    BY <1>7, <1>8, <1>10

LEMMA PrestamoCorto ==
  ASSUME Disciplinados, IndInv, VidaInv, PrestamoInv, Corto \/ CortoSeCuelga
  PROVE  PrestamoInv'
  <1>1. \/ UNCHANGED recurso
        \/ CortoAtiendeLibera \/ CortoTomaRecurso \/ CortoLiberaRecursos
        \/ CortoEncolaEnRecurso
    BY DEF Corto, CortoEsperaListo, CortoEsperaCpu, CortoPasaPuerta, CortoElige,
       CortoSacaDeReady, CortoSacaDePrioridad, CortoSacaDe, CortoDespacha, CortoRecibe,
       CortoPasaPuertaRespuesta, CortoAtiendeFin, CortoAtiendeQuantum, CortoAtiendeIO,
       CortoValidaIO, CortoAtiendeSolicita, CortoDevuelveAReady, CortoEncolaEnIO,
       CortoFinaliza, CortoLiberaGrado, CortoReduceGrado, CortoLiberaCpu, CortoSeCuelga
  <1>2. QED
    BY <1>1, PrestamoCortoQuieto, PrestamoCortoSuelta, PrestamoCortoToma, PrestamoCortoEncola

\* recurso.c: the thread of a resource.
LEMMA PrestamoRecurso ==
  ASSUME IndInv, VidaInv, PrestamoInv, NEW s \in Recursos, HiloRecurso(s)
  PROVE  PrestamoInv'
  <1> USE DEF IndInv, TypeOK, PrestamoInv
  <1>1. /\ UNCHANGED corto
        /\ \A r \in Recursos \ {s} : recurso'[r] = recurso[r] /\ hilo_recurso'[r] = hilo_recurso[r]
    BY RecursoAjeno
  <1>2. recurso[s].procesos_en_espera \in Seq(Procesos) /\ EnEsperaDe(s) \subseteq Procesos
    BY EnColaTipo DEF TipoRecurso, UnRecurso, EnEsperaDe
  <1>3. SUFFICES /\ Prestado(s)'
                 /\ \A p \in EnEsperaDe(s)' : Tiene(s, p)' = 1 => Servido(s, p)'
                 /\ \A p \in Procesos \ EnEsperaDe(s) : Tiene(s, p)' = Tiene(s, p)
    <2>1. \A r \in Recursos \ {s} :
            /\ Libres(r)' = Libres(r) /\ \A p : Tiene(r, p)' = Tiene(r, p)
            /\ EnEsperaDe(r)' = EnEsperaDe(r) /\ \A p : Servido(r, p)' <=> Servido(r, p)
      BY <1>1 DEF Libres, Tiene, EnEsperaDe, Servido
    <2>2. \A r \in Recursos : Prestado(r)'
      BY <1>3, <2>1, PrestadoSigue
    <2>3. TurnoUnico'
      BY <1>3, <2>1 DEF TurnoUnico
    <2>4. corto.pc \in {"puerta_respuesta", "atender", "wait_recurso", "a_espera"}
            => corto.pcb \in Procesos /\ corto.pcb \notin EnEsperaDe(s)
      BY CortoNoEspera DEF PcsEjecuta
    <2>5. corto.pc \in {"wait_recurso", "a_espera"} => corto.arg \in Recursos
      BY DEF TipoCorto
    <2>6. SolicitudInv'
      BY <1>1, <1>3, <2>1, <2>4, <2>5 DEF SolicitudInv
    <2>7. QED
      BY <2>2, <2>3, <2>6
  <1>4. CASE \/ RecursoEsperaCola(s) \/ RecursoPasaPuerta(s) \/ RecursoMiraEspera(s)
             \/ RecursoDesbloquea(s)
             \/ RecursoTomaInstancia(s) /\ UNCHANGED recurso
             \/ RecursoSacaDeEspera(s) /\ UNCHANGED <<recurso, hilo_recurso>>
    <2>1. /\ Libres(s)' = Libres(s) /\ \A p : Tiene(s, p)' = Tiene(s, p)
          /\ recurso'[s].procesos_en_espera = recurso[s].procesos_en_espera
      BY <1>4 DEF RecursoEsperaCola, RecursoPasaPuerta, RecursoMiraEspera, RecursoDesbloquea,
         TipoRecurso, UnRecurso, Libres, Tiene
    <2>2. EnEsperaDe(s)' = EnEsperaDe(s)
      BY <2>1 DEF EnEsperaDe
    <2>3. hilo_recurso'[s] = hilo_recurso[s] \/ hilo_recurso[s].pc # "pop_espera"
      BY <1>4 DEF RecursoEsperaCola, RecursoPasaPuerta, RecursoMiraEspera, RecursoDesbloquea,
         RecursoTomaInstancia, EnRecurso
    <2>4. \A p \in EnEsperaDe(s) : Tiene(s, p) = 1 => Servido(s, p)
      BY DEF TurnoUnico
    <2>5. Prestado(s)'
      BY <2>1, PrestadoSigue
    <2>6. QED
      BY <2>1, <2>2, <2>3, <2>4, <2>5 DEF Servido
  <1>5. CASE RecursoTomaInstancia(s) /\ Contains(recurso[s].procesos_en_espera, hilo_recurso[s].pcb)
    <2>1. PICK q \in Procesos : q = hilo_recurso[s].pcb
      BY <1>5 DEF RecursoTomaInstancia, EnRecurso, TipoHiloRecurso
    <2>2. /\ hilo_recurso[s].pc = "wait_instancia" /\ Contains(recurso[s].procesos_en_espera, q)
          /\ recurso' = [recurso EXCEPT ![s] = Tomado(@, q)]
          /\ RecursoVa(s, "pop_espera", q)
      BY <1>5, <2>1 DEF RecursoTomaInstancia, EnRecurso
    <2>3. /\ recurso'[s] = Tomado(recurso[s], q)
          /\ hilo_recurso'[s] = [pc |-> "pop_espera", pcb |-> q]
      BY <2>2 DEF TipoRecurso, TipoHiloRecurso, RecursoVa
    <2>4. q \in EnEsperaDe(s)
      BY <1>2, <2>2, LenProperties DEF Contains, EnEsperaDe, EnCola, ToSet
    <2>5. \A p \in EnEsperaDe(s) : Tiene(s, p) = 0
      BY <1>2, <2>2 DEF TurnoUnico, Servido, Prestado
    <2>6. /\ \A p \in Procesos \ {q} : Tiene(s, p)' = Tiene(s, p)
          /\ EnEsperaDe(s)' = EnEsperaDe(s)
      BY <2>3, TomadoDa DEF EnEsperaDe
    <2>7. Prestado(s)'
      BY <2>3, <2>4, <2>5, PrestadoSigue
    <2>8. \A p \in EnEsperaDe(s)' : Tiene(s, p)' = 1 => Servido(s, p)'
      <3>1. \A p \in EnEsperaDe(s) : p # q => Tiene(s, p)' = 0
        BY <1>2, <2>5, <2>6
      <3>2. Servido(s, q)'
        BY <2>3 DEF Servido
      <3>3. QED
        BY <2>6, <3>1, <3>2
    <2>9. QED
      BY <2>4, <2>6, <2>7, <2>8
  <1>6. CASE RecursoSacaDeEspera(s) /\ recurso[s].procesos_en_espera # <<>>
    <2>1. /\ hilo_recurso[s].pc = "pop_espera"
          /\ recurso' = [recurso EXCEPT ![s].procesos_en_espera = Tail(@)]
      BY <1>6 DEF RecursoSacaDeEspera, EnRecurso
    <2>2. /\ Libres(s)' = Libres(s) /\ \A p : Tiene(s, p)' = Tiene(s, p)
          /\ recurso'[s].procesos_en_espera = Tail(recurso[s].procesos_en_espera)
      BY <2>1 DEF TipoRecurso, UnRecurso, Libres, Tiene
    <2>3. /\ s \in Esperas /\ Fila(s) = recurso[s].procesos_en_espera
          /\ HiloDe(s) = hilo_recurso[s]
      BY ConstantesOK DEF Fila, HiloDe, Esperas
    <2>4. /\ SinRepetir(recurso[s].procesos_en_espera)
          /\ hilo_recurso[s].pcb \in EnEsperaDe(s)
               => hilo_recurso[s].pcb = Head(recurso[s].procesos_en_espera)
      BY <2>3 DEF VidaInv, EnOrden, EnEsperaDe
    <2>5. EnEsperaDe(s)' = EnEsperaDe(s) \ {Head(recurso[s].procesos_en_espera)}
      BY <1>2, <1>6, <2>2, <2>4, Desencolar DEF EnEsperaDe
    <2>6. \A p \in EnEsperaDe(s)' : ~(Tiene(s, p) = 1)
      BY <2>4, <2>5 DEF TurnoUnico, Servido
    <2>7. Prestado(s)'
      BY <2>2, PrestadoSigue
    <2>8. QED
      BY <2>2, <2>6, <2>7
  <1>7. QED
    BY <1>4, <1>5, <1>6 DEF HiloRecurso, RecursoTomaInstancia, RecursoSacaDeEspera

\* consola.c: FINALIZAR_PROCESO gives back, twice, what the process has, or
\* takes it out of the queue of a resource.
ConsolaSuelta ==
  \/ ConsolaLiberaRecursos("exit_recursos", "grado")
  \/ ConsolaLiberaRecursos("liberar", "reanudar")

LEMMA PrestamoConsola ==
  ASSUME IndInv, VidaInv, PrestamoInv,
         ConsolaSuelta \/ SacarDeRecurso
  PROVE  PrestamoInv'
  <1> USE DEF IndInv, TypeOK, PrestamoInv
  <1>1. UNCHANGED <<corto, hilo_recurso>>
    BY DEF ConsolaSuelta, ConsolaLiberaRecursos, SacarDeRecurso, menosConsola
  <1>2. CASE ConsolaSuelta
    <2>1. PICK p \in Procesos : p = consola.pid
      BY <1>2 DEF ConsolaSuelta, ConsolaLiberaRecursos, EnConsola, TipoConsola
    <2>2. Suelta(p)
      BY <1>2, <2>1 DEF ConsolaSuelta, ConsolaLiberaRecursos, liberar_recurso_del_proceso,
         Suelta
    <2>3. QED
      BY <1>1, <2>1, <2>2, PrestamoSuelta
  <1>3. CASE SacarDeRecurso
    <2>1. /\ \A r \in Recursos : Libres(r)' = Libres(r) /\ \A p : Tiene(r, p)' = Tiene(r, p)
          /\ \A r \in Recursos : \/ EnEsperaDe(r)' = EnEsperaDe(r)
                                 \/ \E k \in PrimeraPosicion(recurso[r].procesos_en_espera, consola.pid) :
                                      recurso'[r].procesos_en_espera
                                        = RemoveAt(recurso[r].procesos_en_espera, k)
      <3>1. CASE EsperaRecurso(consola.pid) = {}
        <4>1. recurso' = recurso
          BY <1>3, <3>1 DEF SacarDeRecurso
        <4>2. QED
          BY <4>1 DEF Libres, Tiene, EnEsperaDe
      <3>2. CASE EsperaRecurso(consola.pid) # {}
        <4>1. PICK x \in EsperaRecurso(consola.pid) :
                \E k \in PrimeraPosicion(recurso[x].procesos_en_espera, consola.pid) :
                  recurso' = [recurso EXCEPT ![x].procesos_en_espera = RemoveAt(@, k)]
          BY <1>3, <3>2 DEF SacarDeRecurso
        <4>2. PICK k \in PrimeraPosicion(recurso[x].procesos_en_espera, consola.pid) :
                recurso' = [recurso EXCEPT ![x].procesos_en_espera = RemoveAt(@, k)]
          BY <4>1
        <4>3. x \in Recursos
          BY DEF EsperaRecurso
        <4>4. PICK u : u = RemoveAt(recurso[x].procesos_en_espera, k)
          OBVIOUS
        <4>5. recurso' = [recurso EXCEPT ![x].procesos_en_espera = u]
          BY <4>2, <4>4
        <4>6. /\ recurso'[x].procesos_en_espera = u
              /\ recurso'[x].instancias = recurso[x].instancias
              /\ recurso'[x].PIDs = recurso[x].PIDs
              /\ \A r \in Recursos : r # x => recurso'[r] = recurso[r]
          BY <4>3, <4>5 DEF TipoRecurso, UnRecurso
        <4>7. ASSUME NEW r \in Recursos
              PROVE  /\ Libres(r)' = Libres(r)
                     /\ \A p : Tiene(r, p)' = Tiene(r, p)
          BY <4>6 DEF Libres, Tiene
        <4>8. ASSUME NEW r \in Recursos, r # x
              PROVE  EnEsperaDe(r)' = EnEsperaDe(r)
          BY <4>6, <4>8 DEF EnEsperaDe
        <4>9. recurso'[x].procesos_en_espera = RemoveAt(recurso[x].procesos_en_espera, k)
          BY <4>4, <4>6
        <4>10. QED
          BY <4>7, <4>8, <4>9
      <3>3. QED
        BY <3>1, <3>2
    <2>2. ASSUME NEW r \in Recursos
          PROVE  EnEsperaDe(r)' \subseteq EnEsperaDe(r)
      <3>1. recurso[r].procesos_en_espera \in Seq(Procesos)
        BY DEF TipoRecurso, UnRecurso
      <3>2. r \in Esperas /\ Fila(r) = recurso[r].procesos_en_espera
        BY ConstantesOK DEF Fila, Esperas
      <3>3. SinRepetir(recurso[r].procesos_en_espera)
        BY <3>2 DEF VidaInv, EnOrden
      <3>4. QED
        BY <2>1, <3>1, <3>3, SacarUnoDeCola DEF EnEsperaDe
    <2>3. \A r, p : Servido(r, p)' <=> Servido(r, p)
      BY <1>1 DEF Servido
    <2>4. \A r \in Recursos : Prestado(r)'
      BY <2>1, PrestadoSigue
    <2>5. TurnoUnico'
      BY <2>1, <2>2, <2>3 DEF TurnoUnico
    <2>6. corto.pc \in {"wait_recurso", "a_espera"} => corto.arg \in Recursos
      BY DEF TipoCorto
    <2>7. SolicitudInv'
      BY <1>1, <2>1, <2>6 DEF SolicitudInv
    <2>8. QED
      BY <2>4, <2>5, <2>7
  <1>4. QED
    BY <1>2, <1>3

LEMMA PrestamoPaso ==
  ASSUME Disciplinados, IndInv, VidaInv, PrestamoInv, [Next]_vars,
         Carreras => CortoSeCuelga \/ ConsolaSeCuelga
  PROVE  PrestamoInv'
  <1>1. CASE UNCHANGED <<recurso, hilo_recurso, corto>>
    <2>1. /\ \A r \in Recursos : Libres(r)' = Libres(r) /\ EnEsperaDe(r)' = EnEsperaDe(r)
          /\ \A r, p : Tiene(r, p)' = Tiene(r, p) /\ (Servido(r, p)' <=> Servido(r, p))
      BY <1>1 DEF Libres, EnEsperaDe, Tiene, Servido
    <2>2. \A r \in Recursos : Prestado(r)'
      BY <2>1, PrestadoSigue DEF PrestamoInv, IndInv, TypeOK
    <2>3. TurnoUnico' /\ SolicitudInv'
      BY <1>1, <2>1 DEF PrestamoInv, TurnoUnico, SolicitudInv
    <2>4. QED
      BY <2>2, <2>3 DEF PrestamoInv
  <1>2. CASE Corto \/ CortoSeCuelga
    BY <1>2, PrestamoCorto
  <1>3. CASE \E s \in Recursos : HiloRecurso(s)
    BY <1>3, PrestamoRecurso
  <1>4. CASE ConsolaSuelta \/ SacarDeRecurso
    BY <1>4, PrestamoConsola
  <1>5. ASSUME Largo \/ \E i \in Interfaces : ConectarIO(i) \/ HiloIO(i)
        PROVE  UNCHANGED <<recurso, hilo_recurso, corto>>
    BY <1>5 DEF Largo, LargoEsperaGrado, LargoEsperaNuevo, LargoPasaPuerta, LargoSacaDeNew,
       LargoAdmite, ConectarIO, HiloIO, IOEsperaCliente, IOEnviaInstruccion, IORecibeFin,
       IOSeDesconecta, IOPasaPuerta, IOSacaDeEspera, IODesbloquea, menosLargo, menosIO
  <1>6. ASSUME Consola \/ ConsolaSeCuelga, ~(ConsolaSuelta \/ SacarDeRecurso)
        PROVE  UNCHANGED <<recurso, hilo_recurso, corto>>
    BY <1>6 DEF ConsolaSuelta, ConsolaSeCuelga, ConsolaFinaliza, Consola,
       Finalizacion, IniciarProceso, DetenerPlanificacion, DetenerEnPausa,
       ReanudarPlanificacion, Multiprogramacion, FinalizarProceso, BuscarProceso,
       InterrumpirProceso, EnviarInterrupcion, SacarDeCola, SacarDeIO, ConsolaLiberaGrado,
       ConsolaReduceGrado, ConsolaReanuda, hilos, menosConsola
  <1>7. QED
    BY <1>1, <1>2, <1>3, <1>4, <1>5, <1>6 DEF Next, vars

LEMMA PrestamoInicial ==
  ASSUME Init
  PROVE  PrestamoInv
  <1>1. \A r \in Recursos : /\ Libres(r) = InstanciasIniciales[r]
                            /\ \A p \in Procesos : Tiene(r, p) = 0
                            /\ EnEsperaDe(r) = {}
    BY ColaVacia DEF Init, Libres, Tiene, EnEsperaDe
  <1>2. \A r \in Recursos : Duenos(r) = {} /\ InstanciasIniciales[r] \in Nat
    BY <1>1, ConstantesOK DEF Duenos
  <1>3. \A r \in Recursos : Prestado(r)
    BY <1>1, <1>2, FS_EmptySet DEF Prestado
  <1>4. SolicitudInv /\ TurnoUnico
    BY <1>1 DEF Init, SolicitudInv, TurnoUnico
  <1>5. QED
    BY <1>3, <1>4 DEF PrestamoInv

PrestamoSano == SinCarreras => PrestamoInv

\* With programs that WAIT and SIGNAL in pairs, and until two threads meet in a
\* list, no instance of a resource is lost, whatever the operator finalises, and
\* when: what FINALIZAR_PROCESO releases of a process that runs or waits can only
\* be too much.
THEOREM NingunaInstanciaSePierde ==
  ASSUME Disciplinados
  PROVE  Spec => []InstanciasNoSePierden
  <1>1. IndInv /\ VidaInv /\ PrestamoSano /\ [Next]_vars => PrestamoSano'
    BY SanaAntes, PrestamoPaso DEF PrestamoSano
  <1>2. Init => PrestamoSano
    BY PrestamoInicial DEF PrestamoSano
  <1>3. PrestamoSano => InstanciasNoSePierden
    BY DuenosSonTomadas DEF PrestamoSano, PrestamoInv, Prestado, InstanciasNoSePierden,
       Libres
  <1>4. QED
    BY <1>1, <1>2, <1>3, Invariante, VidaInvariante, PTL DEF Spec
=============================================================================
