---------------------------- MODULE KernelProofs ----------------------------
(***************************************************************************)
(* Proofs about Kernel, for any number of processes, interfaces and        *)
(* resources, any algorithm and any set of events: the types, that the     *)
(* queue EXECUTE and sem_cpu_libre keep to one process, and the posts:     *)
(* every queue with the semaphore that announces it.                       *)
(*                                                                         *)
(* The types alone are not inductive: pop_and_destroy_execute takes the    *)
(* tail of EXECUTE, which needs a process to be there.                     *)
(***************************************************************************)
EXTENDS Kernel, TLAPS, SequenceTheorems

IndInv == TypeOK /\ UnSoloProcesoEnCpu

-----------------------------------------------------------------------------
(***************************************************************************)
(* The operations on the shared structures.                                *)
(***************************************************************************)
\* A thread that touches neither EXECUTE nor sem_cpu_libre nor the short-term
\* scheduler cannot disturb the CPU.
LEMMA CpuAjena ==
  ASSUME UnSoloProcesoEnCpu, UNCHANGED corto,
         cola'.execute = cola.execute, sem'.cpu_libre = sem.cpu_libre
  PROVE  UnSoloProcesoEnCpu'
  BY DEF UnSoloProcesoEnCpu, EjecutaEnCpu, Uno

\* pop_and_destroy_execute leaves EXECUTE empty.
LEMMA SacarDeExecute ==
  ASSUME TipoCola, UnSoloProcesoEnCpu, EjecutaEnCpu, pop_and_destroy_execute
  PROVE  TipoCola' /\ cola'.execute = <<>>
  <1>1. cola.execute = <<corto.pcb>>
    BY DEF UnSoloProcesoEnCpu
  <1>2. Tail(cola.execute) = <<>>
    BY <1>1
  <1>3. cola' = [cola EXCEPT !.execute = <<>>]
    BY <1>2 DEF pop_and_destroy_execute
  <1>4. QED
    BY <1>3, EmptySeq DEF TipoCola

LEMMA EncolarNew ==
  ASSUME TipoCola, TipoEstado, TipoSem, NEW p \in Procesos, push_cola_new(p)
  PROVE  /\ TipoCola' /\ TipoEstado' /\ TipoSem'
         /\ cola'.execute = cola.execute /\ sem'.cpu_libre = sem.cpu_libre
  <1>1. TipoCola' /\ cola'.execute = cola.execute
    BY AppendProperties DEF push_cola_new, TipoCola
  <1>2. TipoEstado'
    BY DEF push_cola_new, TipoEstado, Estados
  <1>3. TipoSem' /\ sem'.cpu_libre = sem.cpu_libre
    BY DEF push_cola_new, TipoSem
  <1>4. QED
    BY <1>1, <1>2, <1>3

LEMMA EncolarReady ==
  ASSUME TipoCola, TipoEstado, TipoSem, NEW p \in Procesos, push_cola_ready(p)
  PROVE  /\ TipoCola' /\ TipoEstado' /\ TipoSem'
         /\ cola'.execute = cola.execute /\ sem'.cpu_libre = sem.cpu_libre
  <1>1. TipoCola' /\ cola'.execute = cola.execute
    BY AppendProperties DEF push_cola_ready, TipoCola
  <1>2. TipoEstado'
    BY DEF push_cola_ready, TipoEstado, Estados
  <1>3. TipoSem' /\ sem'.cpu_libre = sem.cpu_libre
    BY DEF push_cola_ready, TipoSem
  <1>4. QED
    BY <1>1, <1>2, <1>3

LEMMA EncolarPrioridad ==
  ASSUME TipoCola, TipoEstado, TipoSem, NEW p \in Procesos, push_cola_ready_priority(p)
  PROVE  /\ TipoCola' /\ TipoEstado' /\ TipoSem'
         /\ cola'.execute = cola.execute /\ sem'.cpu_libre = sem.cpu_libre
  <1>1. TipoCola' /\ cola'.execute = cola.execute
    BY AppendProperties DEF push_cola_ready_priority, TipoCola
  <1>2. TipoEstado'
    BY DEF push_cola_ready_priority, TipoEstado, Estados
  <1>3. TipoSem' /\ sem'.cpu_libre = sem.cpu_libre
    BY DEF push_cola_ready_priority, TipoSem
  <1>4. QED
    BY <1>1, <1>2, <1>3

LEMMA SenaladoTipo ==
  ASSUME NEW rec \in UnRecurso, NEW p \in Procesos
  PROVE  Senalado(rec, p) \in UnRecurso
  BY DEF Senalado, UnRecurso

LEMMA TomadoTipo ==
  ASSUME NEW rec \in UnRecurso, NEW p \in Procesos, rec.instancias > 0
  PROVE  Tomado(rec, p) \in UnRecurso
  BY DEF Tomado, UnRecurso

LEMMA EnEsperaTipo ==
  ASSUME NEW rec \in UnRecurso, NEW p \in Procesos
  PROVE  EnEspera(rec, p) \in UnRecurso
  BY AppendProperties DEF EnEspera, UnRecurso

LEMMA EnEsperaIOTipo ==
  ASSUME NEW con \in UnaConexion, NEW p \in Procesos
  PROVE  EnEsperaIO(con, p) \in UnaConexion
  BY AppendProperties DEF EnEsperaIO, UnaConexion

\* A consumer takes a post of the queue of an interface or of a resource.
LEMMA AvisoTomadoIO ==
  ASSUME NEW con \in UnaConexion, con.sem_cliente > 0
  PROVE  [con EXCEPT !.sem_cliente = @ - 1] \in UnaConexion
  BY DEF UnaConexion

LEMMA AvisoTomado ==
  ASSUME NEW rec \in UnRecurso, rec.procesos_en_cola > 0
  PROVE  [rec EXCEPT !.procesos_en_cola = @ - 1] \in UnRecurso
  BY DEF UnRecurso

\* The value read of the difference is dropped once the debt is paid.
LEMMA DeudaCorto ==
  ASSUME TipoCorto, corto.pc = "diferencia", NEW d \in Int,
         corto' = [corto EXCEPT !.pc = "post_cpu", !.leido = d]
  PROVE  TipoCorto'
  BY DEF TipoCorto, PcsCorto

LEMMA DeudaConsola ==
  ASSUME TipoConsola, consola.pc = "diferencia", NEW d \in Int,
         consola' = [consola EXCEPT !.pc = "liberar", !.leido = d]
  PROVE  TipoConsola'
  BY DEF TipoConsola, PcsConsola

\* The console goes on with the process it is finishing.
LEMMA ConsolaSigue ==
  ASSUME TipoConsola, consola.pid \in Procesos, NEW l \in PcsConsola, ConsolaVa(l)
  PROVE  TipoConsola'
  BY DEF TipoConsola, ConsolaVa

\* The thread of an interface, or of a resource, goes on with a process in its
\* hands.
LEMMA HiloIOVa ==
  ASSUME TipoHiloIO, NEW i \in Interfaces, NEW l \in PcsIO,
         NEW p \in Procesos, IOVa(i, l, p)
  PROVE  TipoHiloIO'
  BY DEF TipoHiloIO, IOVa, Pcb

LEMMA HiloRecursoVa ==
  ASSUME TipoHiloRecurso, NEW r \in Recursos, NEW l \in PcsRecurso,
         NEW p \in Procesos, RecursoVa(r, l, p)
  PROVE  TipoHiloRecurso'
  BY DEF TipoHiloRecurso, RecursoVa, Pcb

LEMMA Liberar ==
  ASSUME TipoRecurso, NEW p \in Procesos, liberar_recurso_del_proceso(p)
  PROVE  TipoRecurso'
  BY SenaladoTipo DEF TipoRecurso, liberar_recurso_del_proceso

LEMMA EncolarExit ==
  ASSUME TipoCola, TipoEstado, NEW p \in Procesos, push_cola_exit(p)
  PROVE  TipoCola' /\ TipoEstado' /\ cola'.execute = cola.execute
  BY AppendProperties DEF push_cola_exit, TipoCola, TipoEstado, Estados

\* Taking any element out leaves a queue of processes.
LEMMA SacarUno ==
  ASSUME NEW q \in Seq(Procesos), NEW k \in DOMAIN q
  PROVE  RemoveAt(q, k) \in Seq(Procesos)
  <1>1. k \in 1 .. Len(q) /\ Len(q) \in Nat
    BY LenProperties
  <1>2. SubSeq(q, 1, k - 1) \in Seq(Procesos)
    BY <1>1, SubSeqProperties, ElementOfSeq
  <1>3. SubSeq(q, k + 1, Len(q)) \in Seq(Procesos)
    BY <1>1, SubSeqProperties, ElementOfSeq
  <1>4. QED
    BY <1>2, <1>3, ConcatProperties DEF RemoveAt

\* pop_proceso leaves a queue of processes.
LEMMA SacarDelMedio ==
  ASSUME NEW q \in Seq(Procesos), NEW p, NEW k \in PrimeraPosicion(q, p)
  PROVE  RemoveAt(q, k) \in Seq(Procesos)
  <1>1. k \in DOMAIN q
    BY LenProperties DEF PrimeraPosicion
  <1>2. QED
    BY <1>1, SacarUno

LEMMA InvInicial == Init => IndInv
  <1> SUFFICES ASSUME Init PROVE IndInv
    OBVIOUS
  <1> USE ConstantesOK DEF Init
  <1>1. TipoCola /\ UnSoloProcesoEnCpu
    BY DEF TipoCola, UnSoloProcesoEnCpu, Uno, EjecutaEnCpu
  <1>2. TipoEstado /\ TipoSem /\ TipoSenales
    BY DEF TipoEstado, TipoSem, TipoSenales, Estados
  <1>3. TipoMando
    BY DEF TipoMando
  <1>4. TipoConexion /\ TipoRecurso
    BY DEF TipoConexion, TipoRecurso, UnaConexion, UnRecurso
  <1>5. TipoLargo /\ TipoCorto /\ TipoConsola
    BY DEF TipoLargo, TipoCorto, TipoConsola, PcsLargo, PcsCorto, PcsConsola,
       Ops, Pcb
  <1>6. TipoHiloIO /\ TipoHiloRecurso
    BY DEF TipoHiloIO, TipoHiloRecurso, PcsIO, PcsRecurso, Pcb
  <1>7. QED
    BY <1>1, <1>2, <1>3, <1>4, <1>5, <1>6 DEF IndInv, TypeOK

-----------------------------------------------------------------------------
(***************************************************************************)
(* One lemma per thread, one step per action: what the action leaves       *)
(* alone, what it changes, and the CPU.                                    *)
(***************************************************************************)
\* planificador_largo.c
LEMMA PasoLargo ==
  ASSUME IndInv, Largo
  PROVE  IndInv'
  <1> USE ConstantesOK DEF IndInv
  <1>1. CASE LargoEsperaGrado
    <2>1. UNCHANGED <<cola, estado, mando, conexion, recurso,
                      interrupcion, caido, carreras, corto,
                      consola, hilo_io, hilo_recurso>>
      BY <1>1 DEF LargoEsperaGrado, mando, menosLargo
    <2>2. /\ TipoCola' /\ TipoEstado' /\ TipoMando' /\ TipoConexion'
          /\ TipoRecurso' /\ TipoSenales' /\ TipoCorto' /\ TipoConsola'
          /\ TipoHiloIO' /\ TipoHiloRecurso'
      BY <2>1 DEF TypeOK, mando, TipoCola, TipoEstado, TipoMando, TipoConexion,
         TipoRecurso, TipoSenales, TipoCorto, TipoConsola, TipoHiloIO,
         TipoHiloRecurso
    <2>3. TipoLargo'
      BY <1>1 DEF TypeOK, TipoLargo, LargoEsperaGrado, EnLargo, LargoVa,
         PcsLargo, Pcb
    <2>4. TipoSem'
      BY <1>1 DEF TypeOK, LargoEsperaGrado, TipoSem
    <2>5. UnSoloProcesoEnCpu'
      BY <1>1, CpuAjena DEF LargoEsperaGrado, menosLargo, TypeOK, TipoSem
    <2>6. QED
      BY <2>2, <2>3, <2>4, <2>5 DEF TypeOK
  <1>2. CASE LargoEsperaNuevo
    <2>1. UNCHANGED <<cola, estado, mando, conexion, recurso,
                      interrupcion, caido, carreras, corto,
                      consola, hilo_io, hilo_recurso>>
      BY <1>2 DEF LargoEsperaNuevo, mando, menosLargo
    <2>2. /\ TipoCola' /\ TipoEstado' /\ TipoMando' /\ TipoConexion'
          /\ TipoRecurso' /\ TipoSenales' /\ TipoCorto' /\ TipoConsola'
          /\ TipoHiloIO' /\ TipoHiloRecurso'
      BY <2>1 DEF TypeOK, mando, TipoCola, TipoEstado, TipoMando, TipoConexion,
         TipoRecurso, TipoSenales, TipoCorto, TipoConsola, TipoHiloIO,
         TipoHiloRecurso
    <2>3. TipoLargo'
      BY <1>2 DEF TypeOK, TipoLargo, LargoEsperaNuevo, EnLargo, LargoVa,
         PcsLargo, Pcb
    <2>4. TipoSem'
      BY <1>2 DEF TypeOK, LargoEsperaNuevo, TipoSem
    <2>5. UnSoloProcesoEnCpu'
      BY <1>2, CpuAjena DEF LargoEsperaNuevo, menosLargo, TypeOK, TipoSem
    <2>6. QED
      BY <2>2, <2>3, <2>4, <2>5 DEF TypeOK
  <1>3. CASE LargoPasaPuerta
    <2>1. /\ TipoCola' /\ TipoEstado' /\ TipoSem' /\ TipoMando' /\ TipoConexion'
          /\ TipoRecurso' /\ TipoSenales' /\ TipoCorto' /\ TipoConsola'
          /\ TipoHiloIO' /\ TipoHiloRecurso'
      BY <1>3 DEF LargoPasaPuerta, TypeOK, mando, menosLargo, TipoCola,
         TipoEstado, TipoSem, TipoMando, TipoConexion, TipoRecurso, TipoSenales,
         TipoCorto, TipoConsola, TipoHiloIO, TipoHiloRecurso
    <2>2. TipoLargo'
      BY <1>3 DEF TypeOK, TipoLargo, LargoPasaPuerta, EnLargo, LargoVa,
         PcsLargo, Pcb
    <2>3. UnSoloProcesoEnCpu'
      BY <1>3, CpuAjena DEF LargoPasaPuerta, menosLargo
    <2>4. QED
      BY <2>1, <2>2, <2>3 DEF TypeOK
  <1>4. CASE LargoSacaDeNew
    <2>1. cola.new # <<>> =>
            Head(cola.new) \in Procesos /\ Tail(cola.new) \in Seq(Procesos)
      BY HeadTailProperties DEF TypeOK, TipoCola
    <2>2. UNCHANGED <<estado, sem, mando, conexion, recurso, corto,
                      consola, hilo_io, hilo_recurso>>
      BY <1>4 DEF LargoSacaDeNew, mando, menosLargo
    <2>3. /\ TipoEstado' /\ TipoSem' /\ TipoMando' /\ TipoConexion'
          /\ TipoRecurso' /\ TipoCorto' /\ TipoConsola' /\ TipoHiloIO'
          /\ TipoHiloRecurso'
      BY <2>2 DEF TypeOK, mando, TipoEstado, TipoSem, TipoMando, TipoConexion,
         TipoRecurso, TipoCorto, TipoConsola, TipoHiloIO, TipoHiloRecurso
    <2>4. TipoLargo'
      BY <1>4, <2>1 DEF TypeOK, TipoLargo, LargoSacaDeNew, EnLargo, LargoVa,
         PcsLargo, Pcb, Cae
    <2>5. TipoCola'
      BY <1>4, <2>1 DEF TypeOK, LargoSacaDeNew, TipoCola
    <2>6. TipoSenales'
      BY <1>4 DEF TypeOK, LargoSacaDeNew, TipoSenales, menosLargo, Cae
    <2>7. UnSoloProcesoEnCpu'
      BY <1>4, CpuAjena DEF LargoSacaDeNew, menosLargo, TypeOK, TipoCola
    <2>8. QED
      BY <2>3, <2>4, <2>5, <2>6, <2>7 DEF TypeOK
  <1>5. CASE LargoAdmite
    <2>1. /\ TipoMando' /\ TipoConexion' /\ TipoRecurso' /\ TipoSenales'
          /\ TipoCorto' /\ TipoConsola' /\ TipoHiloIO' /\ TipoHiloRecurso'
      BY <1>5 DEF LargoAdmite, TypeOK, mando, menosLargo, TipoMando,
         TipoConexion, TipoRecurso, TipoSenales, TipoCorto, TipoConsola,
         TipoHiloIO, TipoHiloRecurso
    <2>2. TipoLargo'
      BY <1>5 DEF TypeOK, TipoLargo, LargoAdmite, EnLargo, LargoVa, PcsLargo,
         Pcb
    <2>3. TipoCola' /\ TipoEstado' /\ TipoSem'
      BY <1>5, EncolarReady DEF TypeOK, LargoAdmite, TipoLargo, EnLargo
    <2>4. UnSoloProcesoEnCpu'
      BY <1>5, EncolarReady, CpuAjena DEF LargoAdmite, menosLargo, TypeOK,
         TipoLargo, EnLargo
    <2>5. QED
      BY <2>1, <2>2, <2>3, <2>4 DEF TypeOK
  <1>6. QED
    BY <1>1, <1>2, <1>3, <1>4, <1>5 DEF Largo

\* The two pops of planificador_corto.c.
LEMMA PasoSaca ==
  ASSUME IndInv, CortoSacaDe("pop_ready", "ready") \/ CortoSacaDe("pop_vrr", "readyVRR")
  PROVE  IndInv'
  <1> USE DEF IndInv
  <1>0. /\ corto.pc \in {"pop_ready", "pop_vrr"}
        /\ UNCHANGED <<estado, sem, mando, conexion, recurso, interrupcion, menosCorto>>
    BY DEF CortoSacaDe, EnCorto
  <1>1. TipoEstado' /\ TipoSem' /\ TipoMando' /\ TipoConexion' /\ TipoRecurso'
        /\ TipoLargo' /\ TipoConsola' /\ TipoHiloIO' /\ TipoHiloRecurso'
    BY <1>0 DEF TypeOK, mando, menosCorto, TipoEstado, TipoSem, TipoMando,
       TipoConexion, TipoRecurso, TipoLargo, TipoConsola, TipoHiloIO, TipoHiloRecurso
  <1> USE DEF menosCorto
  <1>2. CASE CortoSacaDe("pop_ready", "ready")
    <2>1. CASE cola.ready = <<>>
      <3>1. Cae /\ UNCHANGED <<cola, corto>>
        BY <1>2, <2>1 DEF CortoSacaDe
      <3>2. TipoCola' /\ TipoSenales' /\ TipoCorto'
        BY <1>0, <3>1 DEF TypeOK, TipoCola, TipoSenales, TipoCorto, Cae
      <3>3. UnSoloProcesoEnCpu'
        BY <1>0, <3>1, CpuAjena
      <3>4. QED
        BY <1>1, <3>2, <3>3 DEF TypeOK
    <2>2. CASE cola.ready # <<>>
      <3>1. /\ corto' = [corto EXCEPT !.pc = "despachar", !.pcb = Head(cola.ready)]
            /\ cola' = [cola EXCEPT !.ready = Tail(@)]
            /\ UNCHANGED caido
        BY <1>2, <2>2 DEF CortoSacaDe
      <3>2. Head(cola.ready) \in Procesos /\ Tail(cola.ready) \in Seq(Procesos)
        BY <2>2, HeadTailProperties DEF TypeOK, TipoCola
      <3>3. TipoCola' /\ TipoSenales' /\ cola'.execute = cola.execute
        BY <1>0, <3>1, <3>2 DEF TypeOK, TipoCola, TipoSenales
      <3>4. TipoCorto'
        BY <3>1, <3>2 DEF TypeOK, TipoCorto, PcsCorto, Ops, Pcb
      <3>5. UnSoloProcesoEnCpu'
        BY <1>0, <3>1, <3>3 DEF UnSoloProcesoEnCpu, EjecutaEnCpu, Uno, TypeOK, TipoCorto
      <3>6. QED
        BY <1>1, <3>3, <3>4, <3>5 DEF TypeOK
    <2>3. QED
      BY <2>1, <2>2
  <1>3. CASE CortoSacaDe("pop_vrr", "readyVRR")
    <2>1. CASE cola.readyVRR = <<>>
      <3>1. Cae /\ UNCHANGED <<cola, corto>>
        BY <1>3, <2>1 DEF CortoSacaDe
      <3>2. TipoCola' /\ TipoSenales' /\ TipoCorto'
        BY <1>0, <3>1 DEF TypeOK, TipoCola, TipoSenales, TipoCorto, Cae
      <3>3. UnSoloProcesoEnCpu'
        BY <1>0, <3>1, CpuAjena
      <3>4. QED
        BY <1>1, <3>2, <3>3 DEF TypeOK
    <2>2. CASE cola.readyVRR # <<>>
      <3>1. /\ corto' = [corto EXCEPT !.pc = "despachar", !.pcb = Head(cola.readyVRR)]
            /\ cola' = [cola EXCEPT !.readyVRR = Tail(@)]
            /\ UNCHANGED caido
        BY <1>3, <2>2 DEF CortoSacaDe
      <3>2. Head(cola.readyVRR) \in Procesos /\ Tail(cola.readyVRR) \in Seq(Procesos)
        BY <2>2, HeadTailProperties DEF TypeOK, TipoCola
      <3>3. TipoCola' /\ TipoSenales' /\ cola'.execute = cola.execute
        BY <1>0, <3>1, <3>2 DEF TypeOK, TipoCola, TipoSenales
      <3>4. TipoCorto'
        BY <3>1, <3>2 DEF TypeOK, TipoCorto, PcsCorto, Ops, Pcb
      <3>5. UnSoloProcesoEnCpu'
        BY <1>0, <3>1, <3>3 DEF UnSoloProcesoEnCpu, EjecutaEnCpu, Uno, TypeOK, TipoCorto
      <3>6. QED
        BY <1>1, <3>3, <3>4, <3>5 DEF TypeOK
    <2>3. QED
      BY <2>1, <2>2
  <1>4. QED
    BY <1>2, <1>3

\* planificador_corto.c
LEMMA PasoCorto ==
  ASSUME IndInv, Corto
  PROVE  IndInv'
  <1> USE ConstantesOK DEF IndInv
  <1>1. CASE CortoEsperaListo
    <2>1. /\ TipoCola' /\ TipoEstado' /\ TipoMando' /\ TipoConexion'
          /\ TipoRecurso' /\ TipoSenales' /\ TipoLargo' /\ TipoConsola'
          /\ TipoHiloIO' /\ TipoHiloRecurso'
      BY <1>1 DEF CortoEsperaListo, TypeOK, mando, menosCorto, TipoCola,
         TipoEstado, TipoMando, TipoConexion, TipoRecurso, TipoSenales,
         TipoLargo, TipoConsola, TipoHiloIO, TipoHiloRecurso
    <2>2. TipoCorto'
      BY <1>1 DEF TypeOK, TipoCorto, CortoEsperaListo, EnCorto, CortoVa,
         PcsCorto, Ops, Pcb
    <2>3. TipoSem'
      BY <1>1 DEF TypeOK, CortoEsperaListo, TipoSem
    <2>4. UnSoloProcesoEnCpu'
      BY <1>1 DEF CortoEsperaListo, UnSoloProcesoEnCpu, EjecutaEnCpu, Uno,
         EnCorto, CortoVa, TypeOK, TipoCorto, TipoSem
    <2>5. QED
      BY <2>1, <2>2, <2>3, <2>4 DEF TypeOK
  <1>2. CASE CortoEsperaCpu
    <2>1. /\ TipoCola' /\ TipoEstado' /\ TipoMando' /\ TipoConexion'
          /\ TipoRecurso' /\ TipoSenales' /\ TipoLargo' /\ TipoConsola'
          /\ TipoHiloIO' /\ TipoHiloRecurso'
      BY <1>2 DEF CortoEsperaCpu, TypeOK, mando, menosCorto, TipoCola,
         TipoEstado, TipoMando, TipoConexion, TipoRecurso, TipoSenales,
         TipoLargo, TipoConsola, TipoHiloIO, TipoHiloRecurso
    <2>2. TipoCorto'
      BY <1>2 DEF TypeOK, TipoCorto, CortoEsperaCpu, EnCorto, CortoVa, PcsCorto,
         Ops, Pcb
    <2>3. TipoSem'
      BY <1>2 DEF TypeOK, CortoEsperaCpu, TipoSem
    <2>4. UnSoloProcesoEnCpu'
      BY <1>2 DEF CortoEsperaCpu, UnSoloProcesoEnCpu, EjecutaEnCpu, Uno,
         EnCorto, CortoVa, TypeOK, TipoCorto, TipoSem
    <2>5. QED
      BY <2>1, <2>2, <2>3, <2>4 DEF TypeOK
  <1>3. CASE CortoPasaPuerta
    <2>1. /\ TipoCola' /\ TipoEstado' /\ TipoSem' /\ TipoMando' /\ TipoConexion'
          /\ TipoRecurso' /\ TipoSenales' /\ TipoLargo' /\ TipoConsola'
          /\ TipoHiloIO' /\ TipoHiloRecurso'
      BY <1>3 DEF CortoPasaPuerta, TypeOK, mando, menosCorto, TipoCola,
         TipoEstado, TipoSem, TipoMando, TipoConexion, TipoRecurso, TipoSenales,
         TipoLargo, TipoConsola, TipoHiloIO, TipoHiloRecurso
    <2>2. TipoCorto'
      BY <1>3 DEF TypeOK, TipoCorto, CortoPasaPuerta, EnCorto, CortoVa,
         PcsCorto, Ops, Pcb
    <2>3. UnSoloProcesoEnCpu'
      BY <1>3 DEF CortoPasaPuerta, UnSoloProcesoEnCpu, EjecutaEnCpu, Uno,
         EnCorto, CortoVa, TypeOK, TipoCorto
    <2>4. QED
      BY <2>1, <2>2, <2>3 DEF TypeOK
  <1>4. CASE CortoSacaDeReady
    BY <1>4, PasoSaca DEF CortoSacaDeReady
  <1>5. CASE CortoDespacha
    <2>1. cola.execute = <<>>
      BY <1>5 DEF CortoDespacha, EnCorto, UnSoloProcesoEnCpu, EjecutaEnCpu, Uno
    <2>2. cola'.execute = Append(cola.execute, corto.pcb)
      BY <1>5 DEF CortoDespacha, push_cola_execute, TypeOK, TipoCola
    <2>3. cola'.execute = <<corto.pcb>>
      BY <2>1, <2>2
    <2>4. /\ TipoSem' /\ TipoMando' /\ TipoConexion' /\ TipoRecurso'
          /\ TipoSenales' /\ TipoLargo' /\ TipoConsola' /\ TipoHiloIO'
          /\ TipoHiloRecurso'
      BY <1>5 DEF CortoDespacha, TypeOK, mando, menosCorto, TipoSem, TipoMando,
         TipoConexion, TipoRecurso, TipoSenales, TipoLargo, TipoConsola,
         TipoHiloIO, TipoHiloRecurso
    <2>5. TipoCorto'
      BY <1>5 DEF TypeOK, TipoCorto, CortoDespacha, EnCorto, CortoVa, PcsCorto,
         Ops, Pcb
    <2>6. TipoCola'
      BY <1>5, AppendProperties DEF TypeOK, CortoDespacha, push_cola_execute,
         TipoCola, EnCorto, TipoCorto
    <2>7. TipoEstado'
      BY <1>5 DEF TypeOK, CortoDespacha, TipoEstado, push_cola_execute, Estados,
         EnCorto, TipoCorto
    <2>8. UnSoloProcesoEnCpu'
      BY <1>5, <2>3 DEF CortoDespacha, UnSoloProcesoEnCpu, EjecutaEnCpu, Uno,
         EnCorto, CortoVa, TypeOK, TipoCorto
    <2>9. QED
      BY <2>4, <2>5, <2>6, <2>7, <2>8 DEF TypeOK
  <1>6. CASE CortoRecibe
    <2>1. TipoCola' /\ TipoEstado' /\ TipoSem' /\ TipoMando' /\ TipoConexion'
          /\ TipoRecurso' /\ TipoSenales' /\ TipoLargo' /\ TipoConsola'
          /\ TipoHiloIO' /\ TipoHiloRecurso'
      BY <1>6 DEF CortoRecibe, TypeOK, mando, menosCorto, TipoCola, TipoEstado,
         TipoSem, TipoMando, TipoConexion, TipoRecurso, TipoSenales, TipoLargo,
         TipoConsola, TipoHiloIO, TipoHiloRecurso
    <2>2. PICK s \in Respuestas :
            corto' = [corto EXCEPT !.pc = "puerta_respuesta", !.op = s.op, !.arg = s.arg]
      BY <1>6 DEF CortoRecibe
    <2>3. s.op \in Ops /\ s.arg \in Interfaces \cup Recursos \cup {Ninguno}
      BY DEF Respuestas, Ops, OpsFinales
    <2>4. /\ s.op = "PROCESO_BLOQUEADO_IO" => s.arg \in Interfaces
          /\ s.op \in {"PROCESO_SOLICITA_RECURSO", "PROCESO_LIBERA_RECURSO"}
               => s.arg \in Recursos \cup {Ninguno}
      BY DEF Respuestas, OpsFinales
    <2>5. TipoCorto'
      BY <1>6, <2>2, <2>3, <2>4 DEF CortoRecibe, TypeOK, TipoCorto, EnCorto, PcsCorto
    <2>6. UnSoloProcesoEnCpu'
      BY <1>6, <2>2 DEF CortoRecibe, UnSoloProcesoEnCpu, EjecutaEnCpu, Uno, EnCorto,
         TypeOK, TipoCorto
    <2>7. QED
      BY <2>1, <2>5, <2>6 DEF TypeOK
  <1>7. CASE CortoPasaPuertaRespuesta
    <2>1. /\ TipoCola' /\ TipoEstado' /\ TipoSem' /\ TipoMando' /\ TipoConexion'
          /\ TipoRecurso' /\ TipoSenales' /\ TipoLargo' /\ TipoConsola'
          /\ TipoHiloIO' /\ TipoHiloRecurso'
      BY <1>7 DEF CortoPasaPuertaRespuesta, TypeOK, mando, menosCorto, TipoCola,
         TipoEstado, TipoSem, TipoMando, TipoConexion, TipoRecurso, TipoSenales,
         TipoLargo, TipoConsola, TipoHiloIO, TipoHiloRecurso
    <2>2. TipoCorto'
      BY <1>7 DEF TypeOK, TipoCorto, CortoPasaPuertaRespuesta, EnCorto, CortoVa,
         PcsCorto, Ops, Pcb
    <2>3. UnSoloProcesoEnCpu'
      BY <1>7 DEF CortoPasaPuertaRespuesta, UnSoloProcesoEnCpu, EjecutaEnCpu,
         Uno, EnCorto, CortoVa, TypeOK, TipoCorto
    <2>4. QED
      BY <2>1, <2>2, <2>3 DEF TypeOK
  <1>8. CASE CortoAtiendeFin
    <2>1. /\ TipoEstado' /\ TipoSem' /\ TipoMando' /\ TipoConexion'
          /\ TipoRecurso' /\ TipoSenales' /\ TipoLargo' /\ TipoConsola'
          /\ TipoHiloIO' /\ TipoHiloRecurso'
      BY <1>8 DEF CortoAtiendeFin, TypeOK, mando, menosCorto, TipoEstado,
         TipoSem, TipoMando, TipoConexion, TipoRecurso, TipoSenales, TipoLargo,
         TipoConsola, TipoHiloIO, TipoHiloRecurso
    <2>2. TipoCorto'
      BY <1>8 DEF TypeOK, TipoCorto, CortoAtiendeFin, EnCorto, CortoVa,
         PcsCorto, Ops, Pcb
    <2>3. TipoCola'
      BY <1>8, SacarDeExecute DEF TypeOK, CortoAtiendeFin, EjecutaEnCpu, EnCorto
    <2>4. UnSoloProcesoEnCpu'
      BY <1>8, SacarDeExecute DEF CortoAtiendeFin, UnSoloProcesoEnCpu,
         EjecutaEnCpu, Uno, EnCorto, CortoVa, TypeOK, TipoCorto, PcsCorto
    <2>5. QED
      BY <2>1, <2>2, <2>3, <2>4 DEF TypeOK
  <1>9. CASE CortoAtiendeQuantum
    <2>1. /\ TipoEstado' /\ TipoSem' /\ TipoMando' /\ TipoConexion'
          /\ TipoRecurso' /\ TipoSenales' /\ TipoLargo' /\ TipoConsola'
          /\ TipoHiloIO' /\ TipoHiloRecurso'
      BY <1>9 DEF CortoAtiendeQuantum, TypeOK, mando, menosCorto, TipoEstado,
         TipoSem, TipoMando, TipoConexion, TipoRecurso, TipoSenales, TipoLargo,
         TipoConsola, TipoHiloIO, TipoHiloRecurso
    <2>2. TipoCorto'
      BY <1>9 DEF TypeOK, TipoCorto, CortoAtiendeQuantum, EnCorto, CortoVa,
         PcsCorto, Ops, Pcb
    <2>3. TipoCola'
      BY <1>9, SacarDeExecute DEF TypeOK, CortoAtiendeQuantum, EjecutaEnCpu,
         EnCorto
    <2>4. UnSoloProcesoEnCpu'
      BY <1>9, SacarDeExecute DEF CortoAtiendeQuantum, UnSoloProcesoEnCpu,
         EjecutaEnCpu, Uno, EnCorto, CortoVa, TypeOK, TipoCorto, PcsCorto
    <2>5. QED
      BY <2>1, <2>2, <2>3, <2>4 DEF TypeOK
  <1>10. CASE CortoAtiendeIO
    <2>1. /\ TipoEstado' /\ TipoSem' /\ TipoMando' /\ TipoConexion'
          /\ TipoRecurso' /\ TipoSenales' /\ TipoLargo' /\ TipoConsola'
          /\ TipoHiloIO' /\ TipoHiloRecurso'
      BY <1>10 DEF CortoAtiendeIO, TypeOK, mando, menosCorto, TipoEstado,
         TipoSem, TipoMando, TipoConexion, TipoRecurso, TipoSenales, TipoLargo,
         TipoConsola, TipoHiloIO, TipoHiloRecurso
    <2>2. TipoCorto'
      BY <1>10 DEF TypeOK, TipoCorto, CortoAtiendeIO, EnCorto, CortoVa,
         PcsCorto, Ops, Pcb
    <2>3. TipoCola'
      BY <1>10, SacarDeExecute DEF TypeOK, CortoAtiendeIO, EjecutaEnCpu, EnCorto
    <2>4. UnSoloProcesoEnCpu'
      BY <1>10, SacarDeExecute DEF CortoAtiendeIO, UnSoloProcesoEnCpu,
         EjecutaEnCpu, Uno, EnCorto, CortoVa, TypeOK, TipoCorto, PcsCorto
    <2>5. QED
      BY <2>1, <2>2, <2>3, <2>4 DEF TypeOK
  <1>11. CASE CortoAtiendeSolicita
    <2>1. /\ TipoEstado' /\ TipoSem' /\ TipoMando' /\ TipoConexion'
          /\ TipoRecurso' /\ TipoSenales' /\ TipoLargo' /\ TipoConsola'
          /\ TipoHiloIO' /\ TipoHiloRecurso'
      BY <1>11 DEF CortoAtiendeSolicita, TypeOK, mando, menosCorto, TipoEstado,
         TipoSem, TipoMando, TipoConexion, TipoRecurso, TipoSenales, TipoLargo,
         TipoConsola, TipoHiloIO, TipoHiloRecurso
    <2>2. TipoCorto'
      BY <1>11 DEF TypeOK, TipoCorto, CortoAtiendeSolicita, EnCorto, CortoVa,
         PcsCorto, Ops, Pcb
    <2>3. TipoCola'
      BY <1>11, SacarDeExecute DEF TypeOK, CortoAtiendeSolicita, EjecutaEnCpu,
         EnCorto, TipoCola
    <2>4. UnSoloProcesoEnCpu'
      BY <1>11, SacarDeExecute DEF CortoAtiendeSolicita, UnSoloProcesoEnCpu,
         EjecutaEnCpu, Uno, EnCorto, CortoVa, TypeOK, TipoCorto, PcsCorto
    <2>5. QED
      BY <2>1, <2>2, <2>3, <2>4 DEF TypeOK
  <1>12. CASE CortoAtiendeLibera
    <2>1. /\ TipoCola' /\ TipoEstado' /\ TipoSem' /\ TipoMando' /\ TipoConexion'
          /\ TipoSenales' /\ TipoLargo' /\ TipoConsola' /\ TipoHiloIO'
          /\ TipoHiloRecurso'
      BY <1>12 DEF CortoAtiendeLibera, TypeOK, mando, menosCorto, TipoCola,
         TipoEstado, TipoSem, TipoMando, TipoConexion, TipoSenales, TipoLargo,
         TipoConsola, TipoHiloIO, TipoHiloRecurso
    <2>2. TipoCorto'
      BY <1>12 DEF TypeOK, TipoCorto, CortoAtiendeLibera, EnCorto, CortoVa,
         PcsCorto, Ops, Pcb
    <2>3. TipoRecurso'
      BY <1>12, SenaladoTipo DEF TypeOK, CortoAtiendeLibera, TipoRecurso,
         TipoCorto, EnCorto
    <2>4. UnSoloProcesoEnCpu'
      BY <1>12 DEF CortoAtiendeLibera, UnSoloProcesoEnCpu, EjecutaEnCpu, Uno,
         EnCorto, CortoVa, TypeOK, TipoCorto
    <2>5. QED
      BY <2>1, <2>2, <2>3, <2>4 DEF TypeOK
  <1>13. CASE CortoTomaRecurso
    <2>1. /\ TipoCola' /\ TipoEstado' /\ TipoSem' /\ TipoMando' /\ TipoConexion'
          /\ TipoSenales' /\ TipoLargo' /\ TipoConsola' /\ TipoHiloIO'
          /\ TipoHiloRecurso'
      BY <1>13 DEF CortoTomaRecurso, TypeOK, mando, menosCorto, TipoCola,
         TipoEstado, TipoSem, TipoMando, TipoConexion, TipoSenales, TipoLargo,
         TipoConsola, TipoHiloIO, TipoHiloRecurso
    <2>2. TipoCorto'
      BY <1>13 DEF TypeOK, TipoCorto, CortoTomaRecurso, EnCorto, CortoVa,
         PcsCorto, Ops, Pcb
    <2>3. TipoRecurso'
      BY <1>13, TomadoTipo DEF TypeOK, CortoTomaRecurso, TipoRecurso, TipoCorto,
         EnCorto
    <2>4. UnSoloProcesoEnCpu'
      BY <1>13 DEF CortoTomaRecurso, UnSoloProcesoEnCpu, EjecutaEnCpu, Uno,
         EnCorto, CortoVa, TypeOK, TipoCorto
    <2>5. QED
      BY <2>1, <2>2, <2>3, <2>4 DEF TypeOK
  <1>14. CASE CortoDevuelveAReady
    <2>1. /\ TipoMando' /\ TipoConexion' /\ TipoRecurso' /\ TipoSenales'
          /\ TipoLargo' /\ TipoConsola' /\ TipoHiloIO' /\ TipoHiloRecurso'
      BY <1>14 DEF CortoDevuelveAReady, TypeOK, mando, menosCorto, TipoMando,
         TipoConexion, TipoRecurso, TipoSenales, TipoLargo, TipoConsola,
         TipoHiloIO, TipoHiloRecurso
    <2>2. TipoCorto'
      BY <1>14 DEF TypeOK, TipoCorto, CortoDevuelveAReady, EnCorto, CortoVa,
         PcsCorto, Ops, Pcb
    <2>3. TipoCola' /\ TipoEstado' /\ TipoSem'
      BY <1>14, EncolarReady DEF TypeOK, CortoDevuelveAReady, TipoCorto, EnCorto
    <2>4. UnSoloProcesoEnCpu'
      BY <1>14, EncolarReady DEF CortoDevuelveAReady, UnSoloProcesoEnCpu,
         EjecutaEnCpu, Uno, EnCorto, CortoVa, TypeOK, TipoCorto
    <2>5. QED
      BY <2>1, <2>2, <2>3, <2>4 DEF TypeOK
  <1>15. CASE CortoEncolaEnIO
    <2>1. /\ TipoCola' /\ TipoSem' /\ TipoMando' /\ TipoRecurso' /\ TipoLargo'
          /\ TipoConsola' /\ TipoHiloIO' /\ TipoHiloRecurso'
      BY <1>15 DEF CortoEncolaEnIO, TypeOK, mando, menosCorto, TipoCola,
         TipoSem, TipoMando, TipoRecurso, TipoLargo, TipoConsola, TipoHiloIO,
         TipoHiloRecurso
    <2>2. TipoCorto'
      BY <1>15 DEF TypeOK, TipoCorto, CortoEncolaEnIO, EnCorto, CortoVa,
         PcsCorto, Ops, Pcb
    <2>3. TipoConexion'
      BY <1>15, EnEsperaIOTipo DEF TypeOK, CortoEncolaEnIO, TipoConexion,
         TipoCorto, EnCorto
    <2>4. TipoEstado'
      BY <1>15 DEF TypeOK, CortoEncolaEnIO, TipoEstado, Estados, TipoCorto,
         EnCorto
    <2>5. TipoSenales'
      BY <1>15 DEF TypeOK, CortoEncolaEnIO, TipoSenales, menosCorto, Cae
    <2>6. UnSoloProcesoEnCpu'
      BY <1>15 DEF CortoEncolaEnIO, UnSoloProcesoEnCpu, EjecutaEnCpu, Uno,
         EnCorto, CortoVa, TypeOK, TipoCorto
    <2>7. QED
      BY <2>1, <2>2, <2>3, <2>4, <2>5, <2>6 DEF TypeOK
  <1>16. CASE CortoEncolaEnRecurso
    <2>1. /\ TipoCola' /\ TipoSem' /\ TipoMando' /\ TipoConexion'
          /\ TipoSenales' /\ TipoLargo' /\ TipoConsola' /\ TipoHiloIO'
          /\ TipoHiloRecurso'
      BY <1>16 DEF CortoEncolaEnRecurso, TypeOK, mando, menosCorto, TipoCola,
         TipoSem, TipoMando, TipoConexion, TipoSenales, TipoLargo, TipoConsola,
         TipoHiloIO, TipoHiloRecurso
    <2>2. TipoCorto'
      BY <1>16 DEF TypeOK, TipoCorto, CortoEncolaEnRecurso, EnCorto, CortoVa,
         PcsCorto, Ops, Pcb
    <2>3. TipoRecurso'
      BY <1>16, EnEsperaTipo DEF TypeOK, CortoEncolaEnRecurso, TipoRecurso,
         TipoCorto, EnCorto
    <2>4. TipoEstado'
      BY <1>16 DEF TypeOK, CortoEncolaEnRecurso, TipoEstado, Estados, TipoCorto,
         EnCorto
    <2>5. UnSoloProcesoEnCpu'
      BY <1>16 DEF CortoEncolaEnRecurso, UnSoloProcesoEnCpu, EjecutaEnCpu, Uno,
         EnCorto, CortoVa, TypeOK, TipoCorto
    <2>6. QED
      BY <2>1, <2>2, <2>3, <2>4, <2>5 DEF TypeOK
  <1>17. CASE CortoFinaliza
    <2>1. /\ TipoSem' /\ TipoMando' /\ TipoConexion' /\ TipoRecurso'
          /\ TipoSenales' /\ TipoLargo' /\ TipoConsola' /\ TipoHiloIO'
          /\ TipoHiloRecurso'
      BY <1>17 DEF CortoFinaliza, TypeOK, mando, menosCorto, TipoSem, TipoMando,
         TipoConexion, TipoRecurso, TipoSenales, TipoLargo, TipoConsola, TipoHiloIO,
         TipoHiloRecurso
    <2>2. TipoCorto'
      BY <1>17 DEF TypeOK, TipoCorto, CortoFinaliza, EnCorto, CortoVa, PcsCorto,
         Ops, Pcb
    <2>3. TipoCola' /\ TipoEstado'
      BY <1>17, EncolarExit DEF TypeOK, CortoFinaliza, TipoCorto, EnCorto
    <2>4. UnSoloProcesoEnCpu'
      BY <1>17, EncolarExit DEF CortoFinaliza, UnSoloProcesoEnCpu, EjecutaEnCpu,
         Uno, EnCorto, CortoVa, TypeOK, TipoCorto
    <2>5. QED
      BY <2>1, <2>2, <2>3, <2>4 DEF TypeOK
  <1>18. CASE CortoLiberaGrado
    <2>1. /\ TipoCola' /\ TipoEstado' /\ TipoMando' /\ TipoConexion'
          /\ TipoRecurso' /\ TipoSenales' /\ TipoLargo' /\ TipoConsola'
          /\ TipoHiloIO' /\ TipoHiloRecurso'
      BY <1>18 DEF CortoLiberaGrado, TypeOK, mando, menosCorto, TipoCola,
         TipoEstado, TipoMando, TipoConexion, TipoRecurso, TipoSenales,
         TipoLargo, TipoConsola, TipoHiloIO, TipoHiloRecurso
    <2>2. TipoCorto'
      <3>1. grado.diferencia \in Int
        BY DEF TypeOK, TipoMando
      <3>2. CASE corto' = [corto EXCEPT !.pc = "diferencia", !.leido = grado.diferencia]
        BY <1>18, <3>1, <3>2 DEF CortoLiberaGrado, EnCorto, TypeOK, TipoCorto, PcsCorto
      <3>3. CASE CortoVa("post_cpu")
        BY <1>18, <3>3 DEF CortoLiberaGrado, EnCorto, CortoVa, TypeOK, TipoCorto, PcsCorto
      <3>4. QED
        BY <1>18, <3>2, <3>3 DEF CortoLiberaGrado
    <2>3. TipoSem'
      BY <1>18 DEF TypeOK, CortoLiberaGrado, TipoSem, PostGrado
    <2>4. UnSoloProcesoEnCpu'
      BY <1>18 DEF CortoLiberaGrado, UnSoloProcesoEnCpu, EjecutaEnCpu, Uno,
         EnCorto, CortoVa, TypeOK, TipoCorto, TipoSem, PostGrado
    <2>5. QED
      BY <2>1, <2>2, <2>3, <2>4 DEF TypeOK
  <1>19. CASE CortoReduceGrado
    <2>1. corto.pc = "diferencia"
          /\ corto' = [corto EXCEPT !.pc = "post_cpu", !.leido = 0]
      BY <1>19 DEF CortoReduceGrado, EnCorto
    <2>2. /\ TipoCola' /\ TipoEstado' /\ TipoSem' /\ TipoConexion'
          /\ TipoRecurso' /\ TipoSenales' /\ TipoLargo' /\ TipoConsola'
          /\ TipoHiloIO' /\ TipoHiloRecurso'
      BY <1>19 DEF CortoReduceGrado, TypeOK, mando, menosCorto, TipoCola,
         TipoEstado, TipoSem, TipoConexion, TipoRecurso, TipoSenales, TipoLargo,
         TipoConsola, TipoHiloIO, TipoHiloRecurso
    <2>3. TipoCorto'
      <3>1. 0 \in Int
        OBVIOUS
      <3>2. QED
        BY <2>1, <3>1, DeudaCorto, Zenon DEF TypeOK
    <2>4. TipoMando'
      BY <1>19 DEF TypeOK, CortoReduceGrado, TipoMando, IncrementarDiferencia,
         TipoCorto
    <2>5. UnSoloProcesoEnCpu'
      BY <1>19 DEF CortoReduceGrado, UnSoloProcesoEnCpu, EjecutaEnCpu, Uno,
         EnCorto, CortoVa, TypeOK, TipoCorto
    <2>6. QED
      BY <2>2, <2>3, <2>4, <2>5 DEF TypeOK
  <1>20. CASE CortoLiberaCpu
    <2>1. /\ TipoCola' /\ TipoEstado' /\ TipoMando' /\ TipoConexion'
          /\ TipoRecurso' /\ TipoSenales' /\ TipoLargo' /\ TipoConsola'
          /\ TipoHiloIO' /\ TipoHiloRecurso'
      BY <1>20 DEF CortoLiberaCpu, TypeOK, mando, menosCorto, TipoCola,
         TipoEstado, TipoMando, TipoConexion, TipoRecurso, TipoSenales,
         TipoLargo, TipoConsola, TipoHiloIO, TipoHiloRecurso
    <2>2. TipoCorto'
      BY <1>20 DEF TypeOK, TipoCorto, CortoLiberaCpu, EnCorto, CortoVa,
         PcsCorto, Ops, Pcb
    <2>3. TipoSem'
      BY <1>20 DEF TypeOK, CortoLiberaCpu, TipoSem
    <2>4. UnSoloProcesoEnCpu'
      BY <1>20 DEF CortoLiberaCpu, UnSoloProcesoEnCpu, EjecutaEnCpu, Uno,
         EnCorto, CortoVa, TypeOK, TipoCorto, TipoSem
    <2>5. QED
      BY <2>1, <2>2, <2>3, <2>4 DEF TypeOK
  <1>21. CASE CortoElige
    <2>1. /\ TipoCola' /\ TipoEstado' /\ TipoSem' /\ TipoMando' /\ TipoConexion'
          /\ TipoRecurso' /\ TipoSenales' /\ TipoLargo' /\ TipoConsola'
          /\ TipoHiloIO' /\ TipoHiloRecurso'
      BY <1>21 DEF CortoElige, TypeOK, mando, menosCorto, TipoCola, TipoEstado, TipoSem,
         TipoMando, TipoConexion, TipoRecurso, TipoSenales, TipoLargo, TipoConsola,
         TipoHiloIO, TipoHiloRecurso
    <2>2. TipoCorto'
      BY <1>21 DEF TypeOK, TipoCorto, CortoElige, EnCorto, CortoVa, PcsCorto, Ops, Pcb
    <2>3. UnSoloProcesoEnCpu'
      BY <1>21 DEF CortoElige, UnSoloProcesoEnCpu, EjecutaEnCpu, Uno, EnCorto, CortoVa,
         TypeOK, TipoCorto
    <2>4. QED
      BY <2>1, <2>2, <2>3 DEF TypeOK
  <1>22. CASE CortoSacaDePrioridad
    BY <1>22, PasoSaca DEF CortoSacaDePrioridad
  <1>23. CASE CortoValidaIO
    <2>1. /\ TipoCola' /\ TipoEstado' /\ TipoSem' /\ TipoMando' /\ TipoConexion'
          /\ TipoRecurso' /\ TipoLargo' /\ TipoConsola' /\ TipoHiloIO'
          /\ TipoHiloRecurso'
      BY <1>23 DEF CortoValidaIO, TypeOK, mando, menosCorto, TipoCola, TipoEstado,
         TipoSem, TipoMando, TipoConexion, TipoRecurso, TipoLargo, TipoConsola,
         TipoHiloIO, TipoHiloRecurso
    <2>2. TipoSenales'
      BY <1>23 DEF TypeOK, CortoValidaIO, TipoSenales, menosCorto, Cae
    <2>3. \/ UNCHANGED corto
          \/ CortoVa("a_io")
          \/ CortoVa("exit")
      BY <1>23 DEF CortoValidaIO
    <2>4. TipoCorto'
      BY <1>23, <2>3 DEF TypeOK, TipoCorto, CortoValidaIO, EnCorto, CortoVa, PcsCorto,
         Ops, Pcb
    <2>5. UnSoloProcesoEnCpu'
      BY <1>23, <2>3 DEF CortoValidaIO, UnSoloProcesoEnCpu, EjecutaEnCpu, Uno, EnCorto,
         CortoVa, TypeOK, TipoCorto
    <2>6. QED
      BY <2>1, <2>2, <2>4, <2>5 DEF TypeOK
  <1>24. CASE CortoLiberaRecursos
    <2>1. /\ TipoCola' /\ TipoEstado' /\ TipoSem' /\ TipoMando' /\ TipoConexion'
          /\ TipoSenales' /\ TipoLargo' /\ TipoConsola' /\ TipoHiloIO'
          /\ TipoHiloRecurso'
      BY <1>24 DEF CortoLiberaRecursos, TypeOK, mando, menosCorto, TipoCola, TipoEstado,
         TipoSem, TipoMando, TipoConexion, TipoSenales, TipoLargo, TipoConsola,
         TipoHiloIO, TipoHiloRecurso
    <2>2. TipoCorto'
      BY <1>24 DEF TypeOK, TipoCorto, CortoLiberaRecursos, EnCorto, CortoVa, PcsCorto,
         Ops, Pcb
    <2>3. TipoRecurso'
      BY <1>24, Liberar DEF TypeOK, CortoLiberaRecursos, TipoCorto, EnCorto
    <2>4. UnSoloProcesoEnCpu'
      BY <1>24 DEF CortoLiberaRecursos, UnSoloProcesoEnCpu, EjecutaEnCpu, Uno, EnCorto,
         CortoVa, TypeOK, TipoCorto
    <2>5. QED
      BY <2>1, <2>2, <2>3, <2>4 DEF TypeOK
  <1>25. QED
    BY <1>1, <1>2, <1>3, <1>4, <1>5, <1>6, <1>7, <1>8, <1>9, <1>10, <1>11,
       <1>12, <1>13, <1>14, <1>15, <1>16, <1>17, <1>18, <1>19, <1>20, <1>21,
       <1>22, <1>23, <1>24 DEF Corto

\* gestor_io.c
LEMMA PasoIO ==
  ASSUME IndInv, NEW i \in Interfaces, ConectarIO(i) \/ HiloIO(i)
  PROVE  IndInv'
  <1> USE ConstantesOK DEF IndInv
  <1>1. CASE ConectarIO(i)
    <2>1. /\ TipoCola' /\ TipoEstado' /\ TipoSem' /\ TipoMando' /\ TipoConexion'
          /\ TipoRecurso' /\ TipoSenales' /\ TipoLargo' /\ TipoCorto'
          /\ TipoConsola' /\ TipoHiloRecurso'
      BY <1>1 DEF ConectarIO, TypeOK, mando, menosIO, TipoCola, TipoEstado,
         TipoSem, TipoMando, TipoConexion, TipoRecurso, TipoSenales, TipoLargo,
         TipoCorto, TipoConsola, TipoHiloRecurso
    <2>2. TipoHiloIO'
      BY <1>1 DEF TypeOK, TipoHiloIO, ConectarIO, EnIO, IOVa, PcsIO, Pcb
    <2>3. UnSoloProcesoEnCpu'
      BY <1>1, CpuAjena DEF ConectarIO, menosIO
    <2>4. QED
      BY <2>1, <2>2, <2>3 DEF TypeOK
  <1>2. CASE IOEsperaCliente(i)
    <2>1. conexion[i].sem_cliente > 0
      BY <1>2 DEF IOEsperaCliente
    <2>2. [conexion[i] EXCEPT !.sem_cliente = @ - 1] \in UnaConexion
      BY <2>1, AvisoTomadoIO DEF TypeOK, TipoConexion
    <2>3. UNCHANGED <<cola, estado, sem, mando, recurso, interrupcion,
                      caido, carreras, largo, corto, consola,
                      hilo_recurso>>
      BY <1>2 DEF IOEsperaCliente, mando, menosIO
    <2>4. /\ TipoCola' /\ TipoEstado' /\ TipoSem' /\ TipoMando' /\ TipoRecurso'
          /\ TipoSenales' /\ TipoLargo' /\ TipoCorto' /\ TipoConsola'
          /\ TipoHiloRecurso'
      BY <2>3 DEF TypeOK, mando, TipoCola, TipoEstado, TipoSem, TipoMando,
         TipoRecurso, TipoSenales, TipoLargo, TipoCorto, TipoConsola,
         TipoHiloRecurso
    <2>5. TipoHiloIO'
      BY <1>2 DEF TypeOK, TipoHiloIO, IOEsperaCliente, EnIO, IOVa, PcsIO, Pcb
    <2>6. TipoConexion'
      BY <1>2, <2>2 DEF TypeOK, IOEsperaCliente, TipoConexion
    <2>7. UnSoloProcesoEnCpu'
      BY <1>2, CpuAjena DEF IOEsperaCliente, menosIO
    <2>8. QED
      BY <2>4, <2>5, <2>6, <2>7 DEF TypeOK
  <1>3. CASE IOEnviaInstruccion(i)
    <2>1. conexion[i].cola_espera # <<>> => Head(conexion[i].cola_espera) \in Procesos
      BY HeadTailProperties DEF TypeOK, TipoConexion, UnaConexion
    <2>2. \/ UNCHANGED hilo_io
          \/ /\ conexion[i].cola_espera # <<>>
             /\ IOVa(i, "respuesta", Head(conexion[i].cola_espera))
      BY <1>3 DEF IOEnviaInstruccion
    <2>3. UNCHANGED <<cola, estado, sem, mando, conexion, recurso, largo,
                      corto, consola, hilo_recurso>>
      BY <1>3 DEF IOEnviaInstruccion, mando, menosIO
    <2>4. /\ TipoCola' /\ TipoEstado' /\ TipoSem' /\ TipoMando' /\ TipoConexion'
          /\ TipoRecurso' /\ TipoLargo' /\ TipoCorto' /\ TipoConsola'
          /\ TipoHiloRecurso'
      BY <2>3 DEF TypeOK, mando, TipoCola, TipoEstado, TipoSem, TipoMando,
         TipoConexion, TipoRecurso, TipoLargo, TipoCorto, TipoConsola,
         TipoHiloRecurso
    <2>5. TipoHiloIO'
      BY <2>1, <2>2, HiloIOVa DEF TypeOK, TipoHiloIO, PcsIO
    <2>6. TipoSenales'
      BY <1>3 DEF TypeOK, IOEnviaInstruccion, TipoSenales, menosIO, Cae
    <2>7. UnSoloProcesoEnCpu'
      BY <1>3, CpuAjena DEF IOEnviaInstruccion, menosIO
    <2>8. QED
      BY <2>4, <2>5, <2>6, <2>7 DEF TypeOK
  <1>4. CASE IORecibeFin(i)
    <2>1. /\ TipoCola' /\ TipoEstado' /\ TipoSem' /\ TipoMando' /\ TipoConexion'
          /\ TipoRecurso' /\ TipoSenales' /\ TipoLargo' /\ TipoCorto'
          /\ TipoConsola' /\ TipoHiloRecurso'
      BY <1>4 DEF IORecibeFin, TypeOK, mando, menosIO, TipoCola, TipoEstado,
         TipoSem, TipoMando, TipoConexion, TipoRecurso, TipoSenales, TipoLargo,
         TipoCorto, TipoConsola, TipoHiloRecurso
    <2>2. TipoHiloIO'
      BY <1>4 DEF TypeOK, TipoHiloIO, IORecibeFin, EnIO, IOVa, PcsIO, Pcb
    <2>3. UnSoloProcesoEnCpu'
      BY <1>4, CpuAjena DEF IORecibeFin, menosIO
    <2>4. QED
      BY <2>1, <2>2, <2>3 DEF TypeOK
  <1>5. CASE IOSeDesconecta(i)
    <2>1. /\ TipoCola' /\ TipoEstado' /\ TipoSem' /\ TipoMando' /\ TipoConexion'
          /\ TipoRecurso' /\ TipoSenales' /\ TipoLargo' /\ TipoCorto'
          /\ TipoConsola' /\ TipoHiloRecurso'
      BY <1>5 DEF IOSeDesconecta, TypeOK, mando, menosIO, TipoCola, TipoEstado,
         TipoSem, TipoMando, TipoConexion, TipoRecurso, TipoSenales, TipoLargo,
         TipoCorto, TipoConsola, TipoHiloRecurso
    <2>2. TipoHiloIO'
      BY <1>5 DEF TypeOK, TipoHiloIO, IOSeDesconecta, EnIO, IOVa, PcsIO, Pcb
    <2>3. UnSoloProcesoEnCpu'
      BY <1>5, CpuAjena DEF IOSeDesconecta, menosIO
    <2>4. QED
      BY <2>1, <2>2, <2>3 DEF TypeOK
  <1>6. CASE IOPasaPuerta(i)
    <2>1. /\ TipoCola' /\ TipoEstado' /\ TipoSem' /\ TipoMando' /\ TipoConexion'
          /\ TipoRecurso' /\ TipoSenales' /\ TipoLargo' /\ TipoCorto'
          /\ TipoConsola' /\ TipoHiloRecurso'
      BY <1>6 DEF IOPasaPuerta, TypeOK, mando, menosIO, TipoCola, TipoEstado,
         TipoSem, TipoMando, TipoConexion, TipoRecurso, TipoSenales, TipoLargo,
         TipoCorto, TipoConsola, TipoHiloRecurso
    <2>2. TipoHiloIO'
      BY <1>6 DEF TypeOK, TipoHiloIO, IOPasaPuerta, EnIO, IOVa, PcsIO, Pcb
    <2>3. UnSoloProcesoEnCpu'
      BY <1>6, CpuAjena DEF IOPasaPuerta, menosIO
    <2>4. QED
      BY <2>1, <2>2, <2>3 DEF TypeOK
  <1>7. CASE IOSacaDeEspera(i)
    <2>1. conexion[i].cola_espera # <<>> => Tail(conexion[i].cola_espera) \in Seq(Procesos)
      BY HeadTailProperties DEF TypeOK, TipoConexion, UnaConexion
    <2>2. [conexion[i] EXCEPT !.cola_espera = IF @ = <<>> THEN @ ELSE Tail(@)]
            \in UnaConexion
      BY <2>1 DEF TypeOK, TipoConexion, UnaConexion
    <2>3. UNCHANGED <<cola, estado, sem, mando, recurso, interrupcion,
                      caido, carreras, largo, corto, consola,
                      hilo_recurso>>
      BY <1>7 DEF IOSacaDeEspera, mando, menosIO
    <2>4. /\ TipoCola' /\ TipoEstado' /\ TipoSem' /\ TipoMando' /\ TipoRecurso'
          /\ TipoSenales' /\ TipoLargo' /\ TipoCorto' /\ TipoConsola'
          /\ TipoHiloRecurso'
      BY <2>3 DEF TypeOK, mando, TipoCola, TipoEstado, TipoSem, TipoMando,
         TipoRecurso, TipoSenales, TipoLargo, TipoCorto, TipoConsola,
         TipoHiloRecurso
    <2>5. TipoHiloIO'
      BY <1>7 DEF TypeOK, TipoHiloIO, IOSacaDeEspera, EnIO, IOVa, PcsIO, Pcb
    <2>6. TipoConexion'
      BY <1>7, <2>2 DEF TypeOK, IOSacaDeEspera, TipoConexion
    <2>7. UnSoloProcesoEnCpu'
      BY <1>7, CpuAjena DEF IOSacaDeEspera, menosIO
    <2>8. QED
      BY <2>4, <2>5, <2>6, <2>7 DEF TypeOK
  <1>8. CASE IODesbloquea(i)
    <2>1. /\ TipoMando' /\ TipoConexion' /\ TipoRecurso' /\ TipoSenales'
          /\ TipoLargo' /\ TipoCorto' /\ TipoConsola' /\ TipoHiloRecurso'
      BY <1>8 DEF IODesbloquea, TypeOK, mando, menosIO, TipoMando, TipoConexion,
         TipoRecurso, TipoSenales, TipoLargo, TipoCorto, TipoConsola,
         TipoHiloRecurso
    <2>2. TipoHiloIO'
      BY <1>8 DEF TypeOK, TipoHiloIO, IODesbloquea, EnIO, IOVa, PcsIO, Pcb
    <2>3. TipoCola' /\ TipoEstado' /\ TipoSem'
      BY <1>8, EncolarReady, EncolarPrioridad DEF TypeOK, IODesbloquea,
         TipoHiloIO, EnIO
    <2>4. UnSoloProcesoEnCpu'
      BY <1>8, EncolarReady, EncolarPrioridad, CpuAjena DEF IODesbloquea,
         menosIO, TypeOK, TipoHiloIO, EnIO
    <2>5. QED
      BY <2>1, <2>2, <2>3, <2>4 DEF TypeOK
  <1>9. QED
    BY <1>1, <1>2, <1>3, <1>4, <1>5, <1>6, <1>7, <1>8 DEF HiloIO

\* recurso.c
LEMMA PasoRecurso ==
  ASSUME IndInv, NEW r \in Recursos, HiloRecurso(r)
  PROVE  IndInv'
  <1> USE ConstantesOK DEF IndInv
  <1>1. CASE RecursoEsperaCola(r)
    <2>1. recurso[r].procesos_en_cola > 0
      BY <1>1 DEF RecursoEsperaCola
    <2>2. [recurso[r] EXCEPT !.procesos_en_cola = @ - 1] \in UnRecurso
      BY <2>1, AvisoTomado DEF TypeOK, TipoRecurso
    <2>3. UNCHANGED <<cola, estado, sem, mando, conexion, interrupcion,
                      caido, carreras, largo, corto, consola,
                      hilo_io>>
      BY <1>1 DEF RecursoEsperaCola, mando, menosRecurso
    <2>4. /\ TipoCola' /\ TipoEstado' /\ TipoSem' /\ TipoMando' /\ TipoConexion'
          /\ TipoSenales' /\ TipoLargo' /\ TipoCorto' /\ TipoConsola'
          /\ TipoHiloIO'
      BY SMTT(20), <2>3 DEF TypeOK, mando, TipoCola, TipoEstado, TipoSem, TipoMando,
         TipoConexion, TipoSenales, TipoLargo, TipoCorto, TipoConsola,
         TipoHiloIO
    <2>5. TipoHiloRecurso'
      BY <1>1 DEF TypeOK, TipoHiloRecurso, RecursoEsperaCola, EnRecurso,
         RecursoVa, PcsRecurso, Pcb
    <2>6. TipoRecurso'
      <3>1. recurso' = [recurso EXCEPT ![r].procesos_en_cola = @ - 1]
        BY <1>1 DEF RecursoEsperaCola
      <3>2. recurso \in [Recursos -> UnRecurso]
        BY DEF TypeOK, TipoRecurso
      <3>3. QED
        BY <2>2, <3>1, <3>2 DEF TipoRecurso
    <2>7. UnSoloProcesoEnCpu'
      BY <1>1, CpuAjena DEF RecursoEsperaCola, menosRecurso
    <2>8. QED
      BY <2>4, <2>5, <2>6, <2>7 DEF TypeOK
  <1>2. CASE RecursoPasaPuerta(r)
    <2>1. /\ TipoCola' /\ TipoEstado' /\ TipoSem' /\ TipoMando' /\ TipoConexion'
          /\ TipoRecurso' /\ TipoSenales' /\ TipoLargo' /\ TipoCorto'
          /\ TipoConsola' /\ TipoHiloIO'
      <3>1. UNCHANGED <<cola, estado, sem, mando, conexion, recurso, interrupcion,
                        caido, carreras, largo, corto, consola, hilo_io>>
        BY <1>2 DEF RecursoPasaPuerta, menosRecurso
      <3>2. QED
        BY SMTT(20), <3>1 DEF TypeOK, mando, TipoCola, TipoEstado, TipoSem, TipoMando,
           TipoConexion, TipoRecurso, TipoSenales, TipoLargo, TipoCorto, TipoConsola,
           TipoHiloIO
    <2>2. TipoHiloRecurso'
      BY <1>2 DEF TypeOK, TipoHiloRecurso, RecursoPasaPuerta, EnRecurso,
         RecursoVa, PcsRecurso, Pcb
    <2>3. UnSoloProcesoEnCpu'
      BY <1>2, CpuAjena DEF RecursoPasaPuerta, menosRecurso
    <2>4. QED
      BY <2>1, <2>2, <2>3 DEF TypeOK
  <1>3. CASE RecursoMiraEspera(r)
    <2>1. recurso[r].procesos_en_espera # <<>> =>
            Head(recurso[r].procesos_en_espera) \in Procesos
      BY HeadTailProperties DEF TypeOK, TipoRecurso, UnRecurso
    <2>2. \/ UNCHANGED hilo_recurso
          \/ /\ recurso[r].procesos_en_espera # <<>>
             /\ RecursoVa(r, "wait_instancia", Head(recurso[r].procesos_en_espera))
      BY <1>3 DEF RecursoMiraEspera
    <2>3. UNCHANGED <<cola, estado, sem, mando, conexion, recurso, largo,
                      corto, consola, hilo_io>>
      BY <1>3 DEF RecursoMiraEspera, mando, menosRecurso
    <2>4. /\ TipoCola' /\ TipoEstado' /\ TipoSem' /\ TipoMando' /\ TipoConexion'
          /\ TipoRecurso' /\ TipoLargo' /\ TipoCorto' /\ TipoConsola'
          /\ TipoHiloIO'
      BY SMTT(20), <2>3 DEF TypeOK, mando, TipoCola, TipoEstado, TipoSem, TipoMando,
         TipoConexion, TipoRecurso, TipoLargo, TipoCorto, TipoConsola,
         TipoHiloIO
    <2>5. TipoHiloRecurso'
      BY <2>1, <2>2, HiloRecursoVa DEF TypeOK, TipoHiloRecurso, PcsRecurso
    <2>6. TipoSenales'
      BY <1>3 DEF TypeOK, RecursoMiraEspera, TipoSenales, menosRecurso, Cae
    <2>7. UnSoloProcesoEnCpu'
      BY <1>3, CpuAjena DEF RecursoMiraEspera, menosRecurso
    <2>8. QED
      BY <2>4, <2>5, <2>6, <2>7 DEF TypeOK
  <1>4. CASE RecursoTomaInstancia(r)
    <2>1. UNCHANGED <<cola, estado, sem, mando, conexion, interrupcion,
                      caido, carreras, largo, corto, consola,
                      hilo_io>>
      BY <1>4 DEF RecursoTomaInstancia, mando, menosRecurso
    <2>2. /\ TipoCola' /\ TipoEstado' /\ TipoSem' /\ TipoMando' /\ TipoConexion'
          /\ TipoSenales' /\ TipoLargo' /\ TipoCorto' /\ TipoConsola'
          /\ TipoHiloIO'
      BY SMTT(20), <2>1 DEF TypeOK, mando, TipoCola, TipoEstado, TipoSem, TipoMando,
         TipoConexion, TipoSenales, TipoLargo, TipoCorto, TipoConsola,
         TipoHiloIO
    <2>3. TipoHiloRecurso'
      BY <1>4 DEF TypeOK, TipoHiloRecurso, RecursoTomaInstancia, EnRecurso,
         RecursoVa, PcsRecurso, Pcb
    <2>4. TipoRecurso'
      BY <1>4, TomadoTipo DEF TypeOK, RecursoTomaInstancia, TipoRecurso,
         TipoHiloRecurso, EnRecurso
    <2>5. UnSoloProcesoEnCpu'
      BY <1>4, CpuAjena DEF RecursoTomaInstancia, menosRecurso
    <2>6. QED
      BY <2>2, <2>3, <2>4, <2>5 DEF TypeOK
  <1>5. CASE RecursoSacaDeEspera(r)
    <2>1. recurso[r].procesos_en_espera # <<>> =>
            /\ Head(recurso[r].procesos_en_espera) \in Procesos
            /\ Tail(recurso[r].procesos_en_espera) \in Seq(Procesos)
      BY HeadTailProperties DEF TypeOK, TipoRecurso, UnRecurso
    <2>2. recurso[r].procesos_en_espera # <<>> =>
            [recurso[r] EXCEPT !.procesos_en_espera = Tail(@)] \in UnRecurso
      BY <2>1 DEF TypeOK, TipoRecurso, UnRecurso
    <2>3. \/ UNCHANGED hilo_recurso
          \/ /\ recurso[r].procesos_en_espera # <<>>
             /\ RecursoVa(r, "push_ready", Head(recurso[r].procesos_en_espera))
      BY <1>5 DEF RecursoSacaDeEspera
    <2>4. UNCHANGED <<cola, estado, sem, mando, conexion, largo, corto,
                      consola, hilo_io>>
      BY <1>5 DEF RecursoSacaDeEspera, mando, menosRecurso
    <2>5. /\ TipoCola' /\ TipoEstado' /\ TipoSem' /\ TipoMando' /\ TipoConexion'
          /\ TipoLargo' /\ TipoCorto' /\ TipoConsola' /\ TipoHiloIO'
      BY SMTT(20), <2>4 DEF TypeOK, mando, TipoCola, TipoEstado, TipoSem, TipoMando,
         TipoConexion, TipoLargo, TipoCorto, TipoConsola, TipoHiloIO
    <2>6. TipoHiloRecurso'
      BY <2>1, <2>3, HiloRecursoVa DEF TypeOK, TipoHiloRecurso, PcsRecurso
    <2>7. TipoRecurso'
      BY <1>5, <2>2 DEF TypeOK, RecursoSacaDeEspera, TipoRecurso
    <2>8. TipoSenales'
      BY <1>5 DEF TypeOK, RecursoSacaDeEspera, TipoSenales, menosRecurso, Cae
    <2>9. UnSoloProcesoEnCpu'
      BY <1>5, CpuAjena DEF RecursoSacaDeEspera, menosRecurso
    <2>10. QED
      BY <2>5, <2>6, <2>7, <2>8, <2>9 DEF TypeOK
  <1>6. CASE RecursoDesbloquea(r)
    <2>1. /\ TipoMando' /\ TipoConexion' /\ TipoRecurso' /\ TipoSenales'
          /\ TipoLargo' /\ TipoCorto' /\ TipoConsola' /\ TipoHiloIO'
      BY <1>6 DEF RecursoDesbloquea, TypeOK, mando, menosRecurso, TipoMando,
         TipoConexion, TipoRecurso, TipoSenales, TipoLargo, TipoCorto,
         TipoConsola, TipoHiloIO
    <2>2. TipoHiloRecurso'
      BY <1>6 DEF TypeOK, TipoHiloRecurso, RecursoDesbloquea, EnRecurso,
         RecursoVa, PcsRecurso, Pcb
    <2>3. TipoCola' /\ TipoEstado' /\ TipoSem'
      BY <1>6, EncolarReady DEF TypeOK, RecursoDesbloquea, TipoHiloRecurso,
         EnRecurso
    <2>4. UnSoloProcesoEnCpu'
      BY <1>6, EncolarReady, CpuAjena DEF RecursoDesbloquea, menosRecurso,
         TypeOK, TipoHiloRecurso, EnRecurso
    <2>5. QED
      BY <2>1, <2>2, <2>3, <2>4 DEF TypeOK
  <1>7. QED
    BY <1>1, <1>2, <1>3, <1>4, <1>5, <1>6 DEF HiloRecurso

\* consola.c and colas_planificador.c: finalizar_proceso
LEMMA PasoFinalizacion ==
  ASSUME IndInv, Finalizacion
  PROVE  IndInv'
  <1> USE ConstantesOK DEF IndInv
  <1>1. CASE BuscarProceso
    <2>1. /\ TipoCola' /\ TipoEstado' /\ TipoSem' /\ TipoMando' /\ TipoConexion'
          /\ TipoRecurso' /\ TipoSenales' /\ TipoLargo' /\ TipoCorto'
          /\ TipoHiloIO' /\ TipoHiloRecurso'
      BY <1>1 DEF BuscarProceso, TypeOK, mando, menosConsola, TipoCola,
         TipoEstado, TipoSem, TipoMando, TipoConexion, TipoRecurso, TipoSenales,
         TipoLargo, TipoCorto, TipoHiloIO, TipoHiloRecurso
    <2>2. TipoConsola'
      <3>1. PICK l \in DOMAIN Busqueda(consola.pid) :
              /\ EnConsola(l)
              /\ ConsolaVa(IF Busqueda(consola.pid)[l][1] THEN Busqueda(consola.pid)[l][2]
                                                       ELSE Busqueda(consola.pid)[l][3])
        BY <1>1 DEF BuscarProceso
      <3>2. consola.pid \in Procesos
        BY <3>1 DEF Busqueda, EnConsola, TypeOK, TipoConsola
      <3>3. /\ Busqueda(consola.pid)[l][2] \in PcsConsola
            /\ Busqueda(consola.pid)[l][3] \in PcsConsola
        <4>1. l \in {"buscar_execute", "buscar_new", "buscar_ready", "buscar_exit",
                    "buscar_io", "buscar_recurso"}
          BY <3>1 DEF Busqueda
        <4>2. QED
          BY <4>1 DEF Busqueda, PcsConsola
      <3>4. QED
        BY <3>1, <3>2, <3>3, ConsolaSigue DEF TypeOK
    <2>3. UnSoloProcesoEnCpu'
      BY <1>1, CpuAjena DEF BuscarProceso, menosConsola
    <2>4. QED
      BY <2>1, <2>2, <2>3 DEF TypeOK
  <1>2. CASE InterrumpirProceso
    <2>1. /\ TipoCola' /\ TipoEstado' /\ TipoSem' /\ TipoMando' /\ TipoConexion'
          /\ TipoRecurso' /\ TipoSenales' /\ TipoLargo' /\ TipoCorto'
          /\ TipoHiloIO' /\ TipoHiloRecurso'
      BY <1>2 DEF InterrumpirProceso, TypeOK, mando, menosConsola, TipoCola,
         TipoEstado, TipoSem, TipoMando, TipoConexion, TipoRecurso, TipoSenales,
         TipoLargo, TipoCorto, TipoHiloIO, TipoHiloRecurso
    <2>2. TipoConsola'
      BY <1>2 DEF TypeOK, TipoConsola, InterrumpirProceso, EnConsola, ConsolaVa,
         PcsConsola, Pcb
    <2>3. UnSoloProcesoEnCpu'
      BY <1>2, CpuAjena DEF InterrumpirProceso, menosConsola
    <2>4. QED
      BY <2>1, <2>2, <2>3 DEF TypeOK
  <1>3. CASE EnviarInterrupcion
    <2>1. /\ TipoCola' /\ TipoEstado' /\ TipoSem' /\ TipoMando' /\ TipoConexion'
          /\ TipoRecurso' /\ TipoLargo' /\ TipoCorto' /\ TipoHiloIO'
          /\ TipoHiloRecurso'
      BY <1>3 DEF EnviarInterrupcion, TypeOK, mando, menosConsola, TipoCola,
         TipoEstado, TipoSem, TipoMando, TipoConexion, TipoRecurso, TipoLargo,
         TipoCorto, TipoHiloIO, TipoHiloRecurso
    <2>2. TipoConsola'
      BY <1>3 DEF TypeOK, TipoConsola, EnviarInterrupcion, EnConsola, ConsolaVa,
         PcsConsola, Pcb, Cae
    <2>3. TipoSenales'
      BY <1>3 DEF TypeOK, EnviarInterrupcion, TipoSenales, menosConsola, Cae
    <2>4. UnSoloProcesoEnCpu'
      BY <1>3, CpuAjena DEF EnviarInterrupcion, menosConsola
    <2>5. QED
      BY <2>1, <2>2, <2>3, <2>4 DEF TypeOK
  <1>4. CASE SacarDeCola("sacar_new", "new")
    <2>1. /\ TipoEstado' /\ TipoSem' /\ TipoMando' /\ TipoConexion'
          /\ TipoRecurso' /\ TipoLargo' /\ TipoCorto' /\ TipoHiloIO'
          /\ TipoHiloRecurso'
      BY <1>4 DEF SacarDeCola, TypeOK, mando, menosConsola, TipoEstado, TipoSem,
         TipoMando, TipoConexion, TipoRecurso, TipoLargo, TipoCorto, TipoHiloIO,
         TipoHiloRecurso
    <2>2. TipoConsola'
      BY <1>4 DEF TypeOK, TipoConsola, SacarDeCola, EnConsola, ConsolaVa,
         PcsConsola, Pcb, Cae
    <2>3. TipoCola'
      <3>1. CASE Contains(cola.new, consola.pid)
        <4>1. \/ \E k \in PrimeraPosicion(cola.new, consola.pid) :
                    cola' = [cola EXCEPT !.new = RemoveAt(@, k)]
              \/ UNCHANGED cola
          BY <1>4, <3>1 DEF SacarDeCola
        <4>2. ASSUME NEW k \in PrimeraPosicion(cola.new, consola.pid),
                     cola' = [cola EXCEPT !.new = RemoveAt(@, k)]
              PROVE  TipoCola'
          <5>1. RemoveAt(cola.new, k) \in Seq(Procesos)
            BY SacarDelMedio DEF TypeOK, TipoCola
          <5>2. QED
            BY <4>2, <5>1 DEF TypeOK, TipoCola
        <4>3. CASE UNCHANGED cola
          BY <4>3 DEF TypeOK, TipoCola
        <4>4. QED
          BY <4>1, <4>2, <4>3
      <3>2. CASE ~Contains(cola.new, consola.pid)
        BY <1>4, <3>2 DEF SacarDeCola, TypeOK, TipoCola
      <3>3. QED
        BY <3>1, <3>2
    <2>4. TipoSenales'
      BY <1>4 DEF TypeOK, SacarDeCola, TipoSenales, menosConsola, Cae
    <2>5. UnSoloProcesoEnCpu'
      BY <1>4, CpuAjena DEF SacarDeCola, menosConsola, TypeOK, TipoCola
    <2>6. QED
      BY <2>1, <2>2, <2>3, <2>4, <2>5 DEF TypeOK
  <1>5. CASE SacarDeCola("sacar_ready", "ready")
    <2>1. /\ TipoEstado' /\ TipoSem' /\ TipoMando' /\ TipoConexion'
          /\ TipoRecurso' /\ TipoLargo' /\ TipoCorto' /\ TipoHiloIO'
          /\ TipoHiloRecurso'
      BY <1>5 DEF SacarDeCola, TypeOK, mando, menosConsola, TipoEstado, TipoSem,
         TipoMando, TipoConexion, TipoRecurso, TipoLargo, TipoCorto, TipoHiloIO,
         TipoHiloRecurso
    <2>2. TipoConsola'
      BY <1>5 DEF TypeOK, TipoConsola, SacarDeCola, EnConsola, ConsolaVa,
         PcsConsola, Pcb, Cae
    <2>3. TipoCola'
      <3>1. CASE Contains(cola.ready, consola.pid)
        <4>1. \/ \E k \in PrimeraPosicion(cola.ready, consola.pid) :
                    cola' = [cola EXCEPT !.ready = RemoveAt(@, k)]
              \/ UNCHANGED cola
          BY <1>5, <3>1 DEF SacarDeCola
        <4>2. ASSUME NEW k \in PrimeraPosicion(cola.ready, consola.pid),
                     cola' = [cola EXCEPT !.ready = RemoveAt(@, k)]
              PROVE  TipoCola'
          <5>1. RemoveAt(cola.ready, k) \in Seq(Procesos)
            BY SacarDelMedio DEF TypeOK, TipoCola
          <5>2. QED
            BY <4>2, <5>1 DEF TypeOK, TipoCola
        <4>3. CASE UNCHANGED cola
          BY <4>3 DEF TypeOK, TipoCola
        <4>4. QED
          BY <4>1, <4>2, <4>3
      <3>2. CASE ~Contains(cola.ready, consola.pid)
        BY <1>5, <3>2 DEF SacarDeCola, TypeOK, TipoCola
      <3>3. QED
        BY <3>1, <3>2
    <2>4. TipoSenales'
      BY <1>5 DEF TypeOK, SacarDeCola, TipoSenales, menosConsola, Cae
    <2>5. UnSoloProcesoEnCpu'
      BY <1>5, CpuAjena DEF SacarDeCola, menosConsola, TypeOK, TipoCola
    <2>6. QED
      BY <2>1, <2>2, <2>3, <2>4, <2>5 DEF TypeOK
  <1>6. CASE SacarDeIO
    <2>1. /\ TipoCola' /\ TipoEstado' /\ TipoSem' /\ TipoMando' /\ TipoRecurso'
          /\ TipoLargo' /\ TipoCorto' /\ TipoHiloIO' /\ TipoHiloRecurso'
      BY <1>6 DEF SacarDeIO, TypeOK, mando, menosConsola, TipoCola, TipoEstado,
         TipoSem, TipoMando, TipoRecurso, TipoLargo, TipoCorto, TipoHiloIO,
         TipoHiloRecurso
    <2>2. TipoConsola'
      BY <1>6 DEF TypeOK, TipoConsola, SacarDeIO, EnConsola, ConsolaVa,
         PcsConsola, Pcb, Cae
    <2>3. TipoConexion'
      <3>1. CASE EsperaIO(consola.pid) # {}
        <4>1. PICK i \in EsperaIO(consola.pid) :
                \E k \in PrimeraPosicion(conexion[i].cola_espera, consola.pid) :
                  conexion' = [conexion EXCEPT ![i].cola_espera = RemoveAt(@, k)]
          BY <1>6, <3>1 DEF SacarDeIO
        <4>2. PICK k \in PrimeraPosicion(conexion[i].cola_espera, consola.pid) :
                conexion' = [conexion EXCEPT ![i].cola_espera = RemoveAt(@, k)]
          BY <4>1
        <4>3. conexion[i] \in UnaConexion
          BY DEF EsperaIO, TypeOK, TipoConexion
        <4>4. RemoveAt(conexion[i].cola_espera, k) \in Seq(Procesos)
          BY <4>3, SacarDelMedio DEF UnaConexion
        <4>5. [conexion[i] EXCEPT !.cola_espera = RemoveAt(@, k)] \in UnaConexion
          BY <4>3, <4>4 DEF UnaConexion
        <4>6. QED
          BY <4>2, <4>5 DEF TypeOK, TipoConexion
      <3>2. CASE EsperaIO(consola.pid) = {}
        BY <1>6, <3>2 DEF SacarDeIO, TypeOK, TipoConexion
      <3>3. QED
        BY <3>1, <3>2
    <2>4. TipoSenales'
      BY <1>6 DEF TypeOK, SacarDeIO, TipoSenales, menosConsola, Cae
    <2>5. UnSoloProcesoEnCpu'
      BY <1>6, CpuAjena DEF SacarDeIO, menosConsola
    <2>6. QED
      BY <2>1, <2>2, <2>3, <2>4, <2>5 DEF TypeOK
  <1>7. CASE SacarDeRecurso
    <2>1. /\ TipoCola' /\ TipoEstado' /\ TipoSem' /\ TipoMando' /\ TipoConexion'
          /\ TipoLargo' /\ TipoCorto' /\ TipoHiloIO' /\ TipoHiloRecurso'
      BY <1>7 DEF SacarDeRecurso, TypeOK, mando, menosConsola, TipoCola,
         TipoEstado, TipoSem, TipoMando, TipoConexion, TipoLargo, TipoCorto,
         TipoHiloIO, TipoHiloRecurso
    <2>2. TipoConsola'
      BY <1>7 DEF TypeOK, TipoConsola, SacarDeRecurso, EnConsola, ConsolaVa,
         PcsConsola, Pcb, Cae
    <2>3. TipoRecurso'
      <3>1. CASE EsperaRecurso(consola.pid) # {}
        <4>1. PICK r \in EsperaRecurso(consola.pid) :
                \E k \in PrimeraPosicion(recurso[r].procesos_en_espera, consola.pid) :
                  recurso' = [recurso EXCEPT ![r].procesos_en_espera = RemoveAt(@, k)]
          BY <1>7, <3>1 DEF SacarDeRecurso
        <4>2. PICK k \in PrimeraPosicion(recurso[r].procesos_en_espera, consola.pid) :
                recurso' = [recurso EXCEPT ![r].procesos_en_espera = RemoveAt(@, k)]
          BY <4>1
        <4>3. recurso[r] \in UnRecurso
          BY DEF EsperaRecurso, TypeOK, TipoRecurso
        <4>4. RemoveAt(recurso[r].procesos_en_espera, k) \in Seq(Procesos)
          BY <4>3, SacarDelMedio DEF UnRecurso
        <4>5. [recurso[r] EXCEPT !.procesos_en_espera = RemoveAt(@, k)] \in UnRecurso
          BY <4>3, <4>4 DEF UnRecurso
        <4>6. QED
          BY <4>2, <4>5 DEF TypeOK, TipoRecurso
      <3>2. CASE EsperaRecurso(consola.pid) = {}
        BY <1>7, <3>2 DEF SacarDeRecurso, TypeOK, TipoRecurso
      <3>3. QED
        BY <3>1, <3>2
    <2>4. TipoSenales'
      BY <1>7 DEF TypeOK, SacarDeRecurso, TipoSenales, menosConsola, Cae
    <2>5. UnSoloProcesoEnCpu'
      BY <1>7, CpuAjena DEF SacarDeRecurso, menosConsola
    <2>6. QED
      BY <2>1, <2>2, <2>3, <2>4, <2>5 DEF TypeOK
  <1>8. CASE ConsolaFinaliza
    <2>1. /\ TipoSem' /\ TipoMando' /\ TipoConexion' /\ TipoRecurso'
          /\ TipoSenales' /\ TipoLargo' /\ TipoCorto' /\ TipoHiloIO'
          /\ TipoHiloRecurso'
      BY <1>8 DEF ConsolaFinaliza, TypeOK, mando, menosConsola, TipoSem,
         TipoMando, TipoConexion, TipoRecurso, TipoSenales, TipoLargo, TipoCorto, TipoHiloIO,
         TipoHiloRecurso
    <2>2. TipoConsola'
      BY <1>8 DEF TypeOK, TipoConsola, ConsolaFinaliza, EnConsola, ConsolaVa,
         PcsConsola, Pcb
    <2>3. TipoCola' /\ TipoEstado'
      BY <1>8, EncolarExit DEF TypeOK, ConsolaFinaliza, TipoConsola, EnConsola
    <2>4. UnSoloProcesoEnCpu'
      BY <1>8, EncolarExit, CpuAjena DEF ConsolaFinaliza, menosConsola, TypeOK,
         TipoConsola, EnConsola
    <2>5. QED
      BY <2>1, <2>2, <2>3, <2>4 DEF TypeOK
  <1>9. CASE ConsolaLiberaGrado
    <2>1. UNCHANGED <<cola, estado, mando, conexion, recurso,
                      interrupcion, caido, carreras, largo,
                      corto, hilo_io, hilo_recurso>>
      BY <1>9 DEF ConsolaLiberaGrado, mando, menosConsola
    <2>2. /\ TipoCola' /\ TipoEstado' /\ TipoMando' /\ TipoConexion'
          /\ TipoRecurso' /\ TipoSenales' /\ TipoLargo' /\ TipoCorto'
          /\ TipoHiloIO' /\ TipoHiloRecurso'
      BY <2>1 DEF TypeOK, mando, TipoCola, TipoEstado, TipoMando, TipoConexion,
         TipoRecurso, TipoSenales, TipoLargo, TipoCorto, TipoHiloIO,
         TipoHiloRecurso
    <2>3. TipoConsola'
      <3>1. grado.diferencia \in Int /\ consola.pid \in Procesos
        BY <1>9 DEF ConsolaLiberaGrado, EnConsola, TypeOK, TipoMando, TipoConsola
      <3>2. CASE consola' = [consola EXCEPT !.pc = "diferencia", !.leido = grado.diferencia]
        BY <3>1, <3>2 DEF TypeOK, TipoConsola, PcsConsola
      <3>3. CASE ConsolaVa("liberar")
        BY <3>1, <3>3, ConsolaSigue DEF TypeOK, PcsConsola
      <3>4. QED
        BY <1>9, <3>2, <3>3 DEF ConsolaLiberaGrado
    <2>4. TipoSem'
      BY <1>9 DEF TypeOK, ConsolaLiberaGrado, TipoSem, PostGrado
    <2>5. UnSoloProcesoEnCpu'
      BY <1>9, CpuAjena DEF ConsolaLiberaGrado, menosConsola, TypeOK, TipoSem,
         PostGrado
    <2>6. QED
      BY <2>2, <2>3, <2>4, <2>5 DEF TypeOK
  <1>10. CASE ConsolaReduceGrado
    <2>1. consola.pc = "diferencia"
          /\ consola' = [consola EXCEPT !.pc = "liberar", !.leido = 0]
      BY <1>10 DEF ConsolaReduceGrado, EnConsola
    <2>2. /\ TipoCola' /\ TipoEstado' /\ TipoSem' /\ TipoConexion'
          /\ TipoRecurso' /\ TipoSenales' /\ TipoLargo' /\ TipoCorto'
          /\ TipoHiloIO' /\ TipoHiloRecurso'
      BY SMTT(20), <1>10 DEF ConsolaReduceGrado, TypeOK, mando, menosConsola, TipoCola,
         TipoEstado, TipoSem, TipoConexion, TipoRecurso, TipoSenales, TipoLargo,
         TipoCorto, TipoHiloIO, TipoHiloRecurso
    <2>3. TipoConsola'
      <3>1. 0 \in Int
        OBVIOUS
      <3>2. QED
        BY <2>1, <3>1, DeudaConsola, Zenon DEF TypeOK
    <2>4. TipoMando'
      BY <1>10 DEF TypeOK, ConsolaReduceGrado, TipoMando, IncrementarDiferencia,
         TipoConsola
    <2>5. UnSoloProcesoEnCpu'
      BY <1>10, CpuAjena DEF ConsolaReduceGrado, menosConsola
    <2>6. QED
      BY <2>2, <2>3, <2>4, <2>5 DEF TypeOK
  <1>11. ASSUME NEW l \in {"exit_recursos", "liberar"}, NEW d \in {"grado", "reanudar"},
                ConsolaLiberaRecursos(l, d)
         PROVE  IndInv'
    <2>1. /\ TipoCola' /\ TipoEstado' /\ TipoSem' /\ TipoMando' /\ TipoConexion'
          /\ TipoSenales' /\ TipoLargo' /\ TipoCorto' /\ TipoHiloIO'
          /\ TipoHiloRecurso'
      BY <1>11 DEF ConsolaLiberaRecursos, TypeOK, mando, menosConsola, TipoCola,
         TipoEstado, TipoSem, TipoMando, TipoConexion, TipoSenales, TipoLargo,
         TipoCorto, TipoHiloIO, TipoHiloRecurso
    <2>2. TipoConsola'
      BY <1>11 DEF TypeOK, TipoConsola, ConsolaLiberaRecursos, EnConsola,
         ConsolaVa, PcsConsola, Pcb
    <2>3. TipoRecurso'
      BY <1>11, Liberar DEF TypeOK, ConsolaLiberaRecursos, TipoConsola,
         EnConsola
    <2>4. UnSoloProcesoEnCpu'
      BY <1>11, CpuAjena DEF ConsolaLiberaRecursos, menosConsola
    <2>5. QED
      BY <2>1, <2>2, <2>3, <2>4 DEF TypeOK
  <1>12. CASE ConsolaReanuda
    <2>1. /\ TipoCola' /\ TipoEstado' /\ TipoSem' /\ TipoConexion'
          /\ TipoRecurso' /\ TipoSenales' /\ TipoLargo' /\ TipoCorto'
          /\ TipoHiloIO' /\ TipoHiloRecurso'
      BY SMTT(20), <1>12 DEF ConsolaReanuda, TypeOK, mando, menosConsola, TipoCola,
         TipoEstado, TipoSem, TipoConexion, TipoRecurso, TipoSenales, TipoLargo,
         TipoCorto, TipoHiloIO, TipoHiloRecurso
    <2>2. TipoConsola'
      BY <1>12 DEF TypeOK, TipoConsola, ConsolaReanuda, EnConsola, ConsolaVa,
         PcsConsola, Pcb
    <2>3. TipoMando'
      BY <1>12 DEF TypeOK, ConsolaReanuda, TipoMando, TipoConsola
    <2>4. UnSoloProcesoEnCpu'
      BY <1>12, CpuAjena DEF ConsolaReanuda, menosConsola
    <2>5. QED
      BY <2>1, <2>2, <2>3, <2>4 DEF TypeOK
  <1>13. QED
    BY <1>1, <1>2, <1>3, <1>4, <1>5, <1>6, <1>7, <1>8, <1>9, <1>10, <1>11, <1>12
       DEF Finalizacion

\* consola.c: the other commands
LEMMA PasoConsola ==
  ASSUME IndInv, Consola
  PROVE  IndInv'
  <1> USE ConstantesOK DEF IndInv
  <1>1. CASE IniciarProceso
    <2>1. /\ TipoConexion' /\ TipoRecurso' /\ TipoSenales' /\ TipoLargo'
          /\ TipoCorto' /\ TipoConsola' /\ TipoHiloIO' /\ TipoHiloRecurso'
      BY <1>1 DEF IniciarProceso, TypeOK, mando, hilos, TipoConexion,
         TipoRecurso, TipoSenales, TipoLargo, TipoCorto, TipoConsola,
         TipoHiloIO, TipoHiloRecurso
    <2>2. TipoCola' /\ TipoEstado' /\ TipoSem'
      <3>1. CASE push_cola_new(pcb_counter)
        BY <1>1, <3>1, EncolarNew DEF IniciarProceso, TypeOK
      <3>2. CASE UNCHANGED <<cola, estado, sem>>
        BY <3>2 DEF TypeOK, TipoCola, TipoEstado, TipoSem
      <3>3. QED
        BY <1>1, <3>1, <3>2 DEF IniciarProceso
    <2>3. TipoMando'
      BY <1>1 DEF TypeOK, IniciarProceso, TipoMando, Procesos
    <2>4. UnSoloProcesoEnCpu'
      BY <1>1, EncolarNew, CpuAjena DEF IniciarProceso, TypeOK, hilos
    <2>5. QED
      BY <2>1, <2>2, <2>3, <2>4 DEF TypeOK
  <1>2. CASE DetenerPlanificacion
    <2>1. /\ TipoCola' /\ TipoEstado' /\ TipoSem' /\ TipoConexion'
          /\ TipoRecurso' /\ TipoSenales' /\ TipoLargo' /\ TipoCorto'
          /\ TipoConsola' /\ TipoHiloIO' /\ TipoHiloRecurso'
      BY <1>2 DEF DetenerPlanificacion, TypeOK, mando, hilos, TipoCola,
         TipoEstado, TipoSem, TipoConexion, TipoRecurso, TipoSenales, TipoLargo,
         TipoCorto, TipoConsola, TipoHiloIO, TipoHiloRecurso
    <2>2. TipoMando'
      BY <1>2 DEF TypeOK, DetenerPlanificacion, TipoMando
    <2>3. UnSoloProcesoEnCpu'
      BY <1>2, CpuAjena DEF DetenerPlanificacion, hilos
    <2>4. QED
      BY <2>1, <2>2, <2>3 DEF TypeOK
  <1>3. CASE DetenerEnPausa
    <2>1. /\ TipoCola' /\ TipoEstado' /\ TipoSem' /\ TipoMando' /\ TipoConexion'
          /\ TipoRecurso' /\ TipoSenales' /\ TipoLargo' /\ TipoCorto'
          /\ TipoHiloIO' /\ TipoHiloRecurso'
      BY <1>3 DEF DetenerEnPausa, TypeOK, mando, menosConsola, TipoCola,
         TipoEstado, TipoSem, TipoMando, TipoConexion, TipoRecurso, TipoSenales,
         TipoLargo, TipoCorto, TipoHiloIO, TipoHiloRecurso
    <2>2. TipoConsola'
      BY <1>3 DEF TypeOK, TipoConsola, DetenerEnPausa, EnConsola, ConsolaVa,
         PcsConsola, Pcb
    <2>3. UnSoloProcesoEnCpu'
      BY <1>3, CpuAjena DEF DetenerEnPausa, menosConsola
    <2>4. QED
      BY <2>1, <2>2, <2>3 DEF TypeOK
  <1>4. CASE ReanudarPlanificacion
    <2>1. /\ TipoCola' /\ TipoEstado' /\ TipoSem' /\ TipoConexion'
          /\ TipoRecurso' /\ TipoSenales' /\ TipoLargo' /\ TipoCorto'
          /\ TipoConsola' /\ TipoHiloIO' /\ TipoHiloRecurso'
      BY <1>4 DEF ReanudarPlanificacion, TypeOK, mando, hilos, TipoCola,
         TipoEstado, TipoSem, TipoConexion, TipoRecurso, TipoSenales, TipoLargo,
         TipoCorto, TipoConsola, TipoHiloIO, TipoHiloRecurso
    <2>2. TipoMando'
      BY <1>4 DEF TypeOK, ReanudarPlanificacion, TipoMando
    <2>3. UnSoloProcesoEnCpu'
      BY <1>4, CpuAjena DEF ReanudarPlanificacion, hilos
    <2>4. QED
      BY <2>1, <2>2, <2>3 DEF TypeOK
  <1>5. CASE Multiprogramacion
    <2>1. /\ TipoCola' /\ TipoEstado' /\ TipoConexion' /\ TipoRecurso'
          /\ TipoSenales' /\ TipoLargo' /\ TipoCorto' /\ TipoConsola'
          /\ TipoHiloIO' /\ TipoHiloRecurso'
      BY <1>5 DEF Multiprogramacion, TypeOK, mando, hilos, TipoCola, TipoEstado,
         TipoConexion, TipoRecurso, TipoSenales, TipoLargo, TipoCorto,
         TipoConsola, TipoHiloIO, TipoHiloRecurso
    <2>2. TipoMando' /\ TipoSem'
      BY <1>5 DEF TypeOK, Multiprogramacion, TipoMando, TipoSem
    <2>3. UnSoloProcesoEnCpu'
      BY <1>5, CpuAjena DEF Multiprogramacion, hilos, TypeOK, TipoSem
    <2>4. QED
      BY <2>1, <2>2, <2>3 DEF TypeOK
  <1>6. CASE FinalizarProceso
    <2>1. PICK p \in Procesos :
            consola' = [consola EXCEPT !.pc = "buscar_execute", !.pid = p,
                                       !.reanudar = planificacion_activada,
                                       !.finalizaciones = @ + 1]
      BY <1>6 DEF FinalizarProceso
    <2>2. /\ TipoCola' /\ TipoEstado' /\ TipoSem' /\ TipoConexion'
          /\ TipoRecurso' /\ TipoSenales' /\ TipoLargo' /\ TipoCorto'
          /\ TipoHiloIO' /\ TipoHiloRecurso'
      BY <1>6 DEF FinalizarProceso, TypeOK, mando, menosConsola, TipoCola,
         TipoEstado, TipoSem, TipoConexion, TipoRecurso, TipoSenales, TipoLargo,
         TipoCorto, TipoHiloIO, TipoHiloRecurso
    <2>3. TipoConsola'
      <3>1. consola.finalizaciones + 1 \in Nat /\ planificacion_activada \in BOOLEAN
        BY DEF TypeOK, TipoConsola, TipoMando
      <3>2. QED
        BY <2>1, <3>1 DEF TypeOK, TipoConsola, PcsConsola, Pcb
    <2>4. TipoMando'
      BY <1>6 DEF TypeOK, FinalizarProceso, TipoMando
    <2>5. UnSoloProcesoEnCpu'
      BY <1>6, CpuAjena DEF FinalizarProceso, menosConsola
    <2>6. QED
      BY <2>2, <2>3, <2>4, <2>5 DEF TypeOK
  <1>7. QED
    BY <1>1, <1>2, <1>3, <1>4, <1>5, <1>6, PasoFinalizacion DEF Consola

-----------------------------------------------------------------------------
\* A list is spoilt only by two threads meeting in it, and each thread runs only
\* while the kernel lives.
LEMMA CarrerasQuietas ==
  ASSUME Next, ~Carreras
  PROVE  UNCHANGED carreras /\ ~caido
  <1>1. CASE Largo
    BY <1>1 DEF Largo, LargoEsperaGrado, LargoEsperaNuevo, LargoPasaPuerta,
       LargoSacaDeNew, LargoAdmite, EnLargo, menosLargo
  <1>2. CASE Corto
    BY <1>2 DEF Corto, CortoEsperaListo, CortoEsperaCpu, CortoPasaPuerta, CortoElige,
       CortoSacaDeReady, CortoSacaDePrioridad, CortoSacaDe, CortoDespacha, CortoRecibe,
       CortoPasaPuertaRespuesta, CortoAtiendeFin, CortoAtiendeQuantum, CortoAtiendeIO,
       CortoValidaIO, CortoAtiendeSolicita, CortoAtiendeLibera, CortoTomaRecurso,
       CortoDevuelveAReady, CortoEncolaEnIO, CortoEncolaEnRecurso, CortoFinaliza,
       CortoLiberaRecursos, CortoLiberaGrado, CortoReduceGrado, CortoLiberaCpu,
       EnCorto, menosCorto
  <1>3. CASE Consola
    <2>1. CASE Finalizacion
      <3>1. CASE BuscarProceso
        BY <3>1 DEF BuscarProceso, EnConsola, menosConsola
      <3>2. CASE ~BuscarProceso
        BY <2>1, <3>2 DEF Finalizacion, InterrumpirProceso, EnviarInterrupcion,
           SacarDeCola, SacarDeIO, SacarDeRecurso, ConsolaFinaliza, ConsolaLiberaGrado,
           ConsolaReduceGrado, ConsolaLiberaRecursos, ConsolaReanuda, EnConsola,
           menosConsola
      <3>3. QED
        BY <3>1, <3>2
    <2>2. CASE ~Finalizacion
      BY <1>3, <2>2 DEF Consola, IniciarProceso, DetenerPlanificacion, DetenerEnPausa,
         ReanudarPlanificacion, Multiprogramacion, FinalizarProceso, EnConsola,
         menosConsola, hilos
    <2>3. QED
      BY <2>1, <2>2
  <1>4. CASE \E i \in Interfaces : ConectarIO(i) \/ HiloIO(i)
    BY <1>4 DEF ConectarIO, HiloIO, IOEsperaCliente, IOEnviaInstruccion, IORecibeFin,
       IOSeDesconecta, IOPasaPuerta, IOSacaDeEspera, IODesbloquea, EnIO, menosIO
  <1>5. CASE \E r \in Recursos : HiloRecurso(r)
    BY <1>5 DEF HiloRecurso, RecursoEsperaCola, RecursoPasaPuerta, RecursoMiraEspera,
       RecursoTomaInstancia, RecursoSacaDeEspera, RecursoDesbloquea, EnRecurso,
       menosRecurso
  <1>6. QED
    BY <1>1, <1>2, <1>3, <1>4, <1>5 DEF Next

\* Only the short-term scheduler writes in EXECUTE: its readers may die there, and
\* it loses nothing.
ExecuteSana == <<"cola", "execute">> \in carreras => caido

LEMMA SiempreSana == Spec => []ExecuteSana
  <1>1. Init => ExecuteSana
    BY DEF Init, ExecuteSana
  <1>2. ASSUME ExecuteSana, [Next]_vars
        PROVE  ExecuteSana'
    <2>1. CASE UNCHANGED vars
      BY <1>2, <2>1 DEF vars, ExecuteSana
    <2>2. CASE Next /\ ~Carreras
      BY <1>2, <2>2, CarrerasQuietas DEF ExecuteSana
    <2>3. CASE Choque
      <3>1. <<"cola", "execute">> \notin Chocadas
        BY DEF Chocadas, SacaConCopia
      <3>2. QED
        BY <1>2, <2>3, <3>1 DEF Choque, ExecuteSana
    <2>4. CASE MuerePorCarrera \/ LecturaRota
      BY <2>4 DEF MuerePorCarrera, LecturaRota, Cae, ExecuteSana
    <2>5. CASE PierdeDeCola \/ PierdeDeIO \/ PierdeDeRecurso \/ PierdePID
      BY <1>2, <2>5 DEF PierdeDeCola, PierdeDeIO, PierdeDeRecurso, PierdePID, hilos,
         ExecuteSana
    <2>6. CASE CortoSeCuelga \/ ConsolaSeCuelga
      BY <1>2, <2>6 DEF CortoSeCuelga, ConsolaSeCuelga, menosCorto, menosConsola,
         ExecuteSana
    <2>7. QED
      BY <1>2, <2>1, <2>2, <2>3, <2>4, <2>5, <2>6 DEF Carreras
  <1>3. QED
    BY <1>1, <1>2, PTL DEF Spec

\* Two threads in a list with no lock in common.
LEMMA PasoCarreras ==
  ASSUME IndInv, ExecuteSana, Carreras
  PROVE  IndInv'
  <1> USE DEF IndInv
  <1>1. CASE Choque \/ MuerePorCarrera \/ LecturaRota
    <2>1. UNCHANGED <<cola, estado, sem, mando, conexion, recurso, interrupcion,
                      largo, corto, consola, hilo_io, hilo_recurso>>
      BY <1>1 DEF Choque, MuerePorCarrera, LecturaRota, hilos
    <2>2. /\ TipoCola' /\ TipoEstado' /\ TipoSem' /\ TipoMando' /\ TipoConexion'
          /\ TipoRecurso' /\ TipoLargo' /\ TipoCorto' /\ TipoConsola'
          /\ TipoHiloIO' /\ TipoHiloRecurso'
      BY SMTT(20), <2>1 DEF TypeOK, mando, TipoCola, TipoEstado, TipoSem, TipoMando, TipoConexion,
         TipoRecurso, TipoLargo, TipoCorto, TipoConsola, TipoHiloIO, TipoHiloRecurso
    <2>3. DOMAIN cola = {"new", "ready", "readyVRR", "execute", "exit"}
      BY DEF TypeOK, TipoCola
    <2>4. Chocadas \subseteq Listas /\ Leidas \subseteq Listas
      BY <2>3 DEF Chocadas, Leidas, Listas
    <2>5. TipoSenales'
      <3>1. interrupcion' \in BOOLEAN /\ caido' \in BOOLEAN
        BY <1>1 DEF Choque, MuerePorCarrera, LecturaRota, Cae, TypeOK, TipoSenales
      <3>2. carreras' \subseteq Listas
        BY <1>1, <2>4 DEF Choque, MuerePorCarrera, LecturaRota, hilos, TypeOK, TipoSenales
      <3>3. QED
        BY <3>1, <3>2 DEF TipoSenales
    <2>6. UnSoloProcesoEnCpu'
      BY <2>1, CpuAjena
    <2>7. QED
      BY <2>2, <2>5, <2>6 DEF TypeOK
  <1>2. CASE PierdeDeCola
    <2>1. /\ UNCHANGED <<estado, sem, mando, conexion, recurso, interrupcion, caido, hilos>>
          /\ ~caido
      BY <1>2 DEF PierdeDeCola
    <2>2. PICK c \in DOMAIN cola : \E k \in DOMAIN cola[c] :
            <<"cola", c>> \in carreras /\ cola' = [cola EXCEPT ![c] = RemoveAt(@, k)]
      BY <1>2 DEF PierdeDeCola
    <2>3. PICK k \in DOMAIN cola[c] : cola' = [cola EXCEPT ![c] = RemoveAt(@, k)]
      BY <2>2
    <2>4. c \in {"new", "ready", "readyVRR", "exit"}
      BY <2>1, <2>2 DEF TypeOK, TipoCola, ExecuteSana
    <2>5. cola[c] \in Seq(Procesos)
      BY <2>4 DEF TypeOK, TipoCola
    <2>6. RemoveAt(cola[c], k) \in Seq(Procesos)
      BY <2>5, SacarUno
    <2>7. TipoCola' /\ cola'.execute = cola.execute
      BY <2>3, <2>4, <2>6 DEF TypeOK, TipoCola
    <2>8. /\ TipoEstado' /\ TipoSem' /\ TipoMando' /\ TipoConexion' /\ TipoRecurso'
          /\ TipoSenales' /\ TipoLargo' /\ TipoCorto' /\ TipoConsola'
          /\ TipoHiloIO' /\ TipoHiloRecurso'
      BY <2>1 DEF hilos, TypeOK, mando, TipoEstado, TipoSem, TipoMando, TipoConexion,
         TipoRecurso, TipoSenales, TipoLargo, TipoCorto, TipoConsola, TipoHiloIO,
         TipoHiloRecurso
    <2>9. UnSoloProcesoEnCpu'
      BY <2>1, <2>7, CpuAjena DEF hilos
    <2>10. QED
      BY <2>7, <2>8, <2>9 DEF TypeOK
  <1>3. CASE PierdeDeIO
    <2>1. UNCHANGED <<cola, estado, sem, mando, recurso, interrupcion, caido, hilos>>
      BY <1>3 DEF PierdeDeIO
    <2>2. PICK i \in Interfaces : \E k \in DOMAIN conexion[i].cola_espera :
            conexion' = [conexion EXCEPT ![i].cola_espera = RemoveAt(@, k)]
      BY <1>3 DEF PierdeDeIO
    <2>3. PICK k \in DOMAIN conexion[i].cola_espera :
            conexion' = [conexion EXCEPT ![i].cola_espera = RemoveAt(@, k)]
      BY <2>2
    <2>4. conexion[i] \in UnaConexion
      BY DEF TypeOK, TipoConexion
    <2>5. RemoveAt(conexion[i].cola_espera, k) \in Seq(Procesos)
      BY <2>4, SacarUno DEF UnaConexion
    <2>6. [conexion[i] EXCEPT !.cola_espera = RemoveAt(@, k)] \in UnaConexion
      BY <2>4, <2>5 DEF UnaConexion
    <2>7. TipoConexion'
      BY <2>3, <2>6 DEF TypeOK, TipoConexion
    <2>8. /\ TipoCola' /\ TipoEstado' /\ TipoSem' /\ TipoMando' /\ TipoRecurso'
          /\ TipoSenales' /\ TipoLargo' /\ TipoCorto' /\ TipoConsola'
          /\ TipoHiloIO' /\ TipoHiloRecurso'
      BY SMTT(20), <2>1 DEF hilos, TypeOK, mando, TipoCola, TipoEstado, TipoSem, TipoMando,
         TipoRecurso, TipoSenales, TipoLargo, TipoCorto, TipoConsola, TipoHiloIO,
         TipoHiloRecurso
    <2>9. UnSoloProcesoEnCpu'
      BY <2>1, CpuAjena DEF hilos
    <2>10. QED
      BY <2>7, <2>8, <2>9 DEF TypeOK
  <1>4. CASE PierdeDeRecurso \/ PierdePID
    <2>1. UNCHANGED <<cola, estado, sem, mando, conexion, interrupcion, caido, hilos>>
      BY <1>4 DEF PierdeDeRecurso, PierdePID
    <2>2. TipoRecurso'
      <3>1. CASE PierdeDeRecurso
        <4>1. PICK r \in Recursos : \E k \in DOMAIN recurso[r].procesos_en_espera :
                recurso' = [recurso EXCEPT ![r].procesos_en_espera = RemoveAt(@, k)]
          BY <3>1 DEF PierdeDeRecurso
        <4>2. PICK k \in DOMAIN recurso[r].procesos_en_espera :
                recurso' = [recurso EXCEPT ![r].procesos_en_espera = RemoveAt(@, k)]
          BY <4>1
        <4>3. recurso[r] \in UnRecurso
          BY DEF TypeOK, TipoRecurso
        <4>4. RemoveAt(recurso[r].procesos_en_espera, k) \in Seq(Procesos)
          BY <4>3, SacarUno DEF UnRecurso
        <4>5. [recurso[r] EXCEPT !.procesos_en_espera = RemoveAt(@, k)] \in UnRecurso
          BY <4>3, <4>4 DEF UnRecurso
        <4>6. QED
          BY <4>2, <4>5 DEF TypeOK, TipoRecurso
      <3>2. CASE PierdePID
        <4>1. PICK r \in Recursos, p \in Procesos :
                /\ recurso[r].PIDs[p] > 0
                /\ recurso' = [recurso EXCEPT ![r].PIDs[p] = @ - 1]
          BY <3>2 DEF PierdePID
        <4>2. recurso[r] \in UnRecurso
          BY DEF TypeOK, TipoRecurso
        <4>3. recurso[r].PIDs \in [Procesos -> Nat] /\ recurso[r].PIDs[p] - 1 \in Nat
          BY <4>1, <4>2 DEF UnRecurso
        <4>4. [recurso[r].PIDs EXCEPT ![p] = @ - 1] \in [Procesos -> Nat]
          BY <4>3
        <4>5. [recurso[r] EXCEPT !.PIDs = [recurso[r].PIDs EXCEPT ![p] = @ - 1]] \in UnRecurso
          BY <4>2, <4>4 DEF UnRecurso
        <4>6. recurso' = [recurso EXCEPT ![r] =
                            [recurso[r] EXCEPT !.PIDs = [recurso[r].PIDs EXCEPT ![p] = @ - 1]]]
          BY <4>1
        <4>7. QED
          BY <4>5, <4>6 DEF TypeOK, TipoRecurso
      <3>3. QED
        BY <1>4, <3>1, <3>2
    <2>3. /\ TipoCola' /\ TipoEstado' /\ TipoSem' /\ TipoMando' /\ TipoConexion'
          /\ TipoSenales' /\ TipoLargo' /\ TipoCorto' /\ TipoConsola'
          /\ TipoHiloIO' /\ TipoHiloRecurso'
      BY SMTT(20), <2>1 DEF hilos, TypeOK, mando, TipoCola, TipoEstado, TipoSem, TipoMando,
         TipoConexion, TipoSenales, TipoLargo, TipoCorto, TipoConsola, TipoHiloIO,
         TipoHiloRecurso
    <2>4. UnSoloProcesoEnCpu'
      BY <2>1, CpuAjena DEF hilos
    <2>5. QED
      BY <2>2, <2>3, <2>4 DEF TypeOK
  <1>5. CASE CortoSeCuelga
    <2>1. /\ TipoCola' /\ TipoEstado' /\ TipoSem' /\ TipoMando' /\ TipoConexion'
          /\ TipoRecurso' /\ TipoSenales' /\ TipoLargo' /\ TipoConsola'
          /\ TipoHiloIO' /\ TipoHiloRecurso'
      BY <1>5 DEF CortoSeCuelga, TypeOK, mando, menosCorto, TipoCola, TipoEstado, TipoSem,
         TipoMando, TipoConexion, TipoRecurso, TipoSenales, TipoLargo, TipoConsola,
         TipoHiloIO, TipoHiloRecurso
    <2>2. TipoCorto'
      BY <1>5 DEF TypeOK, TipoCorto, CortoSeCuelga, EnCorto, CortoVa, PcsCorto, Ops, Pcb
    <2>3. UnSoloProcesoEnCpu'
      BY <1>5 DEF CortoSeCuelga, UnSoloProcesoEnCpu, EjecutaEnCpu, Uno, EnCorto, CortoVa,
         TypeOK, TipoCorto
    <2>4. QED
      BY <2>1, <2>2, <2>3 DEF TypeOK
  <1>6. CASE ConsolaSeCuelga
    <2>1. /\ TipoCola' /\ TipoEstado' /\ TipoSem' /\ TipoMando' /\ TipoConexion'
          /\ TipoRecurso' /\ TipoSenales' /\ TipoLargo' /\ TipoCorto'
          /\ TipoHiloIO' /\ TipoHiloRecurso'
      BY <1>6 DEF ConsolaSeCuelga, TypeOK, mando, menosConsola, TipoCola, TipoEstado,
         TipoSem, TipoMando, TipoConexion, TipoRecurso, TipoSenales, TipoLargo,
         TipoCorto, TipoHiloIO, TipoHiloRecurso
    <2>2. TipoConsola'
      BY <1>6 DEF TypeOK, TipoConsola, ConsolaSeCuelga, ConsolaVa, PcsConsola, Pcb
    <2>3. UnSoloProcesoEnCpu'
      BY <1>6, CpuAjena DEF ConsolaSeCuelga, menosConsola
    <2>4. QED
      BY <2>1, <2>2, <2>3 DEF TypeOK
  <1>7. QED
    BY <1>1, <1>2, <1>3, <1>4, <1>5, <1>6 DEF Carreras

LEMMA PasoNulo ==
  ASSUME IndInv, UNCHANGED vars
  PROVE  IndInv'
  <1>1. /\ TipoCola' /\ TipoEstado' /\ TipoSem' /\ TipoMando' /\ TipoSenales'
        /\ TipoConexion' /\ TipoRecurso'
    BY DEF IndInv, TypeOK, vars, TipoCola, TipoEstado, TipoSem, TipoMando,
       TipoConexion, TipoRecurso, TipoSenales
  <1>2. TipoLargo' /\ TipoCorto' /\ TipoConsola' /\ TipoHiloIO' /\ TipoHiloRecurso'
    BY DEF IndInv, TypeOK, vars, TipoLargo, TipoCorto, TipoConsola, TipoHiloIO,
       TipoHiloRecurso
  <1>3. UnSoloProcesoEnCpu'
    BY CpuAjena DEF IndInv, vars
  <1>4. QED
    BY <1>1, <1>2, <1>3 DEF IndInv, TypeOK

\* The types and the CPU, in every reachable state.
THEOREM Invariante == Spec => []IndInv
  <1>1. IndInv /\ ExecuteSana /\ [Next]_vars => IndInv'
    BY PasoLargo, PasoCorto, PasoConsola, PasoCarreras, PasoIO, PasoRecurso, PasoNulo
       DEF Next
  <1>2. QED
    BY InvInicial, SiempreSana, <1>1, PTL DEF Spec

\* The semaphores never go below zero and every queue, thread and resource
\* keeps to its type.
THEOREM Tipos == Spec => []TypeOK
  BY Invariante, PTL DEF IndInv

\* Whatever the operator, the programs and the interfaces do, EXECUTE holds the
\* process that the CPU was given and no other.
THEOREM UnaCpu == Spec => []UnSoloProcesoEnCpu
  BY Invariante, PTL DEF IndInv

-----------------------------------------------------------------------------
(***************************************************************************)
(* The posts.                                                              *)
(*                                                                         *)
(* The argument is a ledger.  For each queue, Sobra is what its semaphore  *)
(* counts, plus the post its consumer has taken and not yet used, minus    *)
(* the processes in the queue.  Almost every step leaves every Sobra as it *)
(* is (Reparto); a removal by FINALIZAR_PROCESO raises one, and the only   *)
(* thread that can lower one is that of a resource which finds that the    *)
(* process it waited for has gone.  So no Sobra is negative, whatever the  *)
(* operator does, and all are zero while nobody is finalised; from that,   *)
(* no consumer finds its queue empty and the kernel dereferences a NULL    *)
(* only after a disconnection.                                             *)
(***************************************************************************)
\* The processes in a queue.
Encolados(q) == Len(q)

\* The posts of each queue beyond its processes.
SobraNew ==
  sem.nuevo_proceso + Uno(largo.pc \in {"puerta", "pop_new"}) - Encolados(cola.new)

SobraReady ==
  sem.proceso_en_ready + Uno(CortoAvisado)
    - (Encolados(cola.ready) + Encolados(cola.readyVRR))

SobraIO(i) ==
  conexion[i].sem_cliente
    + Uno(hilo_io[i].pc \in {"peek", "respuesta", "puerta", "pop_espera"})
    - Encolados(conexion[i].cola_espera)

SobraRecurso(r) ==
  recurso[r].procesos_en_cola
    + Uno(hilo_recurso[r].pc \in {"puerta", "peek", "wait_instancia", "pop_espera"})
    - Encolados(recurso[r].procesos_en_espera)

\* Where the short-term scheduler stands counts for READY from here on.
USE DEF CortoAvisado

\* The queues of interfaces and resources keep what they had.  A closed
\* connection is not counted: nobody attends its queue.
EsperasIguales ==
  /\ \A i \in Interfaces : hilo_io'[i].pc # "cerrada" =>
       SobraIO(i)' = SobraIO(i) /\ hilo_io[i].pc # "cerrada"
  /\ \A r \in Recursos : SobraRecurso(r)' = SobraRecurso(r)

\* A step that moves posts and processes together.
Reparto ==
  /\ SobraNew' = SobraNew
  /\ SobraReady' = SobraReady
  /\ EsperasIguales

-----------------------------------------------------------------------------
\* A push adds one process, a pop of a queue that is not empty takes one.
LEMMA Largos ==
  ASSUME NEW q \in Seq(Procesos)
  PROVE  /\ Encolados(q) \in Nat
         /\ \A p \in Procesos : Encolados(Append(q, p)) = Encolados(q) + 1
         /\ q # <<>> => Encolados(q) > 0 /\ Encolados(Tail(q)) = Encolados(q) - 1
         /\ q = <<>> => Encolados(q) = 0
  BY AppendProperties, LenProperties, HeadTailProperties, EmptySeq DEF Encolados

\* What each operation on the queues does to the queues that have a semaphore.
LEMMA EfectoNew ==
  ASSUME TipoCola, TipoSem, NEW p \in Procesos, push_cola_new(p)
  PROVE  /\ Encolados(cola'.new) = Encolados(cola.new) + 1
         /\ sem'.nuevo_proceso = sem.nuevo_proceso + 1
         /\ cola'.ready = cola.ready /\ cola'.readyVRR = cola.readyVRR
         /\ sem'.proceso_en_ready = sem.proceso_en_ready
  <1>1. cola'.new = Append(cola.new, p) /\ cola.new \in Seq(Procesos)
    BY DEF push_cola_new, TipoCola
  <1>2. QED
    BY <1>1, Largos DEF push_cola_new, TipoCola, TipoSem

LEMMA EfectoReady ==
  ASSUME TipoCola, TipoSem, NEW p \in Procesos, push_cola_ready(p)
  PROVE  /\ cola'.new = cola.new /\ sem'.nuevo_proceso = sem.nuevo_proceso
         /\ cola'.readyVRR = cola.readyVRR
         /\ Encolados(cola'.ready) = Encolados(cola.ready) + 1
         /\ sem'.proceso_en_ready = sem.proceso_en_ready + 1
  <1>1. cola'.ready = Append(cola.ready, p) /\ cola.ready \in Seq(Procesos)
    BY DEF push_cola_ready, TipoCola
  <1>2. QED
    BY <1>1, Largos DEF push_cola_ready, TipoCola, TipoSem

LEMMA EfectoPrioridad ==
  ASSUME TipoCola, TipoSem, NEW p \in Procesos, push_cola_ready_priority(p)
  PROVE  /\ cola'.new = cola.new /\ sem'.nuevo_proceso = sem.nuevo_proceso
         /\ cola'.ready = cola.ready
         /\ Encolados(cola'.readyVRR) = Encolados(cola.readyVRR) + 1
         /\ sem'.proceso_en_ready = sem.proceso_en_ready + 1
  <1>1. cola'.readyVRR = Append(cola.readyVRR, p) /\ cola.readyVRR \in Seq(Procesos)
    BY DEF push_cola_ready_priority, TipoCola
  <1>2. QED
    BY <1>1, Largos DEF push_cola_ready_priority, TipoCola, TipoSem

\* The terms of the ledgers of NEW and READY are numbers.
LEMMA LargosCola ==
  ASSUME TipoCola, TipoSem
  PROVE  /\ Encolados(cola.new) \in Nat /\ Encolados(cola.ready) \in Nat
         /\ Encolados(cola.readyVRR) \in Nat
         /\ sem.nuevo_proceso \in Nat /\ sem.proceso_en_ready \in Nat
  BY Largos DEF TipoCola, TipoSem

\* A process that enters READY is announced to the short-term scheduler,
\* wherever that stands.
LEMMA ReadyAvisado ==
  ASSUME TipoCola, TipoCola', TipoSem, TipoSem', NEW p \in Procesos,
         push_cola_ready(p) \/ push_cola_ready_priority(p),
         CortoAvisado' <=> CortoAvisado
  PROVE  /\ SobraReady' = SobraReady
         /\ cola'.new = cola.new /\ sem'.nuevo_proceso = sem.nuevo_proceso
  <1>1. /\ cola'.new = cola.new /\ sem'.nuevo_proceso = sem.nuevo_proceso
        /\ sem'.proceso_en_ready = sem.proceso_en_ready + 1
        /\ \/ cola'.readyVRR = cola.readyVRR /\ Encolados(cola'.ready) = Encolados(cola.ready) + 1
           \/ cola'.ready = cola.ready /\ Encolados(cola'.readyVRR) = Encolados(cola.readyVRR) + 1
    BY EfectoReady, EfectoPrioridad
  <1>2. /\ Encolados(cola.ready) \in Nat /\ Encolados(cola.readyVRR) \in Nat
        /\ sem.proceso_en_ready \in Nat
    BY LargosCola
  <1>4. CASE CortoAvisado
    BY <1>1, <1>2, <1>4 DEF SobraReady, Uno
  <1>5. CASE ~CortoAvisado
    BY <1>1, <1>2, <1>5 DEF SobraReady, Uno
  <1>6. QED
    BY <1>1, <1>4, <1>5

\* An action of a thread that touches no queue of an interface or resource.
LEMMA EsperasAjenas ==
  ASSUME UNCHANGED <<conexion, hilo_io, recurso, hilo_recurso>>
  PROVE  EsperasIguales
  BY DEF EsperasIguales, SobraIO, SobraRecurso

\* Nor one that leaves the posts and the processes where they were.
LEMMA AvisosQuietos ==
  ASSUME UNCHANGED <<largo, conexion, hilo_io, recurso, hilo_recurso>>,
         sem'.nuevo_proceso = sem.nuevo_proceso,
         sem'.proceso_en_ready = sem.proceso_en_ready,
         cola'.new = cola.new, cola'.ready = cola.ready, cola'.readyVRR = cola.readyVRR,
         CortoAvisado' <=> CortoAvisado
  PROVE  Reparto
  BY EsperasAjenas DEF Reparto, SobraNew, SobraReady, Uno

\* planificador_largo.c
LEMMA RepartoLargo ==
  ASSUME IndInv, IndInv', Largo
  PROVE  Reparto
  <1> USE DEF IndInv, TypeOK
  <1>1. EsperasIguales
    BY EsperasAjenas DEF Largo, LargoEsperaGrado, LargoEsperaNuevo, LargoPasaPuerta,
       LargoSacaDeNew, LargoAdmite, menosLargo
  <1>2. CASE LargoEsperaGrado
    BY <1>1, <1>2 DEF LargoEsperaGrado, Reparto, SobraNew, SobraReady, EnLargo, LargoVa,
       menosLargo, TipoSem, Uno
  <1>3. CASE LargoEsperaNuevo
    BY <1>1, <1>3, LargosCola DEF LargoEsperaNuevo, Reparto, SobraNew, SobraReady, EnLargo,
       LargoVa,
       menosLargo, TipoSem, Uno
  <1>4. CASE LargoPasaPuerta
    BY <1>1, <1>4 DEF LargoPasaPuerta, Reparto, SobraNew, SobraReady, EnLargo, LargoVa,
       menosLargo, Uno
  <1>5. CASE LargoSacaDeNew
    <2>1. UNCHANGED <<sem, corto>>
      BY <1>5 DEF LargoSacaDeNew, menosLargo
    <2>2. CASE cola.new = <<>>
      BY <1>1, <1>5, <2>1, <2>2 DEF LargoSacaDeNew, Reparto, SobraNew, SobraReady
    <2>3. CASE cola.new # <<>>
      <3>1. /\ cola'.new = Tail(cola.new)
            /\ cola'.ready = cola.ready /\ cola'.readyVRR = cola.readyVRR
        BY <1>5, <2>3 DEF LargoSacaDeNew, TipoCola
      <3>2. Encolados(cola'.new) = Encolados(cola.new) - 1
        BY <3>1, <2>3, Largos DEF TipoCola
      <3>3. largo.pc = "pop_new" /\ largo'.pc = "push_ready"
        BY <1>5, <2>3 DEF LargoSacaDeNew, EnLargo, LargoVa
      <3>4. QED
        BY <1>1, <2>1, <3>1, <3>2, <3>3, LargosCola DEF Reparto, SobraNew, SobraReady, Uno
    <2>4. QED
      BY <2>2, <2>3
  <1>6. CASE LargoAdmite
    <2>1. largo.pc = "push_ready" /\ largo'.pc = "sem_grado" /\ UNCHANGED corto
      BY <1>6 DEF LargoAdmite, EnLargo, LargoVa, menosLargo
    <2>2. largo.pcb \in Procesos /\ push_cola_ready(largo.pcb)
      BY <1>6, <2>1 DEF LargoAdmite, TipoLargo
    <2>3. SobraReady' = SobraReady /\ SobraNew' = SobraNew
      BY <2>1, <2>2, ReadyAvisado DEF SobraNew, Uno
    <2>4. QED
      BY <1>1, <2>3 DEF Reparto
  <1>7. QED
    BY <1>2, <1>3, <1>4, <1>5, <1>6 DEF Largo

\* planificador_corto.c, away from the queues of interfaces and resources.
LEMMA RepartoCortoColas ==
  ASSUME IndInv, IndInv',
         \/ CortoDespacha
         \/ CortoRecibe
         \/ CortoPasaPuertaRespuesta
         \/ CortoAtiendeFin
         \/ CortoAtiendeQuantum
         \/ CortoAtiendeIO
         \/ CortoAtiendeSolicita
         \/ CortoLiberaGrado
         \/ CortoReduceGrado
         \/ CortoLiberaCpu
         \/ CortoEsperaListo
         \/ CortoEsperaCpu
         \/ CortoPasaPuerta
         \/ CortoElige
         \/ CortoSacaDeReady
         \/ CortoSacaDePrioridad
         \/ CortoDevuelveAReady
         \/ CortoValidaIO
         \/ CortoFinaliza
  PROVE  Reparto
  <1> USE DEF IndInv, TypeOK
  <1>1. CASE CortoDespacha
    BY <1>1, EsperasAjenas, LargosCola DEF CortoDespacha, Reparto, SobraNew, SobraReady,
       EnCorto,
       CortoVa, menosCorto, mando, TipoSem, TipoCola, TipoCorto, Uno, push_cola_execute
  <1>2. CASE CortoRecibe
    BY <1>2, EsperasAjenas, LargosCola DEF CortoRecibe, Reparto, SobraNew, SobraReady,
       EnCorto,
       CortoVa, menosCorto, mando, TipoSem, TipoCola, TipoCorto, Uno
  <1>3. CASE CortoPasaPuertaRespuesta
    BY <1>3, EsperasAjenas, LargosCola DEF CortoPasaPuertaRespuesta, Reparto, SobraNew,
       SobraReady, EnCorto,
       CortoVa, menosCorto, mando, TipoSem, TipoCola, TipoCorto, Uno
  <1>4. CASE CortoAtiendeFin
    BY <1>4, EsperasAjenas, LargosCola DEF CortoAtiendeFin, Reparto, SobraNew, SobraReady,
       EnCorto,
       CortoVa, menosCorto, mando, TipoSem, TipoCola, TipoCorto, Uno,
       pop_and_destroy_execute
  <1>5. CASE CortoAtiendeQuantum
    BY <1>5, EsperasAjenas, LargosCola DEF CortoAtiendeQuantum, Reparto, SobraNew,
       SobraReady, EnCorto,
       CortoVa, menosCorto, mando, TipoSem, TipoCola, TipoCorto, Uno,
       pop_and_destroy_execute
  <1>6. CASE CortoAtiendeIO
    BY <1>6, AvisosQuietos DEF CortoAtiendeIO, EnCorto, CortoVa, menosCorto, TipoCola,
       TipoCorto, pop_and_destroy_execute
  <1>7. CASE CortoAtiendeSolicita
    BY <1>7, AvisosQuietos DEF CortoAtiendeSolicita, EnCorto, CortoVa, menosCorto,
       TipoCola, TipoCorto, pop_and_destroy_execute
  <1>8. CASE CortoLiberaGrado
    BY <1>8, AvisosQuietos DEF CortoLiberaGrado, EnCorto, CortoVa, menosCorto, TipoSem,
       TipoCorto, PostGrado
  <1>9. CASE CortoReduceGrado
    BY <1>9, EsperasAjenas, LargosCola DEF CortoReduceGrado, Reparto, SobraNew, SobraReady,
       EnCorto,
       CortoVa, menosCorto, mando, TipoSem, TipoCola, TipoCorto, Uno
  <1>10. CASE CortoLiberaCpu
    BY <1>10, EsperasAjenas, LargosCola DEF CortoLiberaCpu, Reparto, SobraNew, SobraReady,
       EnCorto,
       CortoVa, menosCorto, mando, TipoSem, TipoCola, TipoCorto, Uno
  <1>11. CASE CortoEsperaListo
    <2>1. /\ EsperasIguales /\ UNCHANGED <<largo, cola>>
          /\ corto.pc = "sem_ready" /\ corto'.pc = "sem_cpu"
          /\ sem'.nuevo_proceso = sem.nuevo_proceso
          /\ sem'.proceso_en_ready = sem.proceso_en_ready - 1
      BY <1>11, EsperasAjenas DEF CortoEsperaListo, EnCorto, CortoVa, menosCorto, TipoSem,
         TipoCorto
    <2>2. /\ Uno(CortoAvisado) = 0
          /\ Uno(CortoAvisado') = 1
      BY <2>1 DEF Uno
    <2>3. QED
      BY <2>1, <2>2, LargosCola DEF Reparto, SobraNew, SobraReady
  <1>12. CASE CortoEsperaCpu
    BY <1>12, EsperasAjenas, LargosCola DEF CortoEsperaCpu, Reparto, SobraNew, SobraReady,
       EnCorto,
       CortoVa, menosCorto, mando, TipoSem, TipoCola, TipoCorto, Uno
  <1>13. CASE CortoPasaPuerta
    BY <1>13, EsperasAjenas, LargosCola DEF CortoPasaPuerta, Reparto, SobraNew, SobraReady,
       EnCorto,
       CortoVa, menosCorto, mando, TipoSem, TipoCola, TipoCorto, Uno
  <1>14. CASE CortoSacaDeReady
    <2>1. EsperasIguales /\ UNCHANGED <<largo, sem>> /\ corto.pc = "pop_ready"
      BY <1>14, EsperasAjenas DEF CortoSacaDeReady, CortoSacaDe, menosCorto, EnCorto
    <2>2. CASE cola.ready = <<>>
      BY <1>14, <2>1, <2>2 DEF CortoSacaDeReady, CortoSacaDe, Reparto, SobraNew, SobraReady
    <2>3. CASE cola.ready # <<>>
      <3>1. /\ corto'.pc = "despachar" /\ cola'.new = cola.new
            /\ cola'.readyVRR = cola.readyVRR /\ cola'.ready = Tail(cola.ready)
        BY <1>14, <2>3 DEF CortoSacaDeReady, CortoSacaDe, TipoCola, TipoCorto
      <3>2. Encolados(cola'.ready) = Encolados(cola.ready) - 1
        BY <2>3, <3>1, Largos DEF TipoCola
      <3>3. Uno(CortoAvisado) = 1 /\ Uno(CortoAvisado') = 0
        BY <2>1, <3>1 DEF Uno
      <3>4. QED
        BY <2>1, <3>1, <3>2, <3>3, LargosCola DEF Reparto, SobraNew, SobraReady
    <2>4. QED
      BY <2>2, <2>3
  <1>16. CASE CortoSacaDePrioridad
    <2>1. EsperasIguales /\ UNCHANGED <<largo, sem>> /\ corto.pc = "pop_vrr"
      BY <1>16, EsperasAjenas DEF CortoSacaDePrioridad, CortoSacaDe, menosCorto, EnCorto
    <2>2. CASE cola.readyVRR = <<>>
      BY <1>16, <2>1, <2>2 DEF CortoSacaDePrioridad, CortoSacaDe, Reparto, SobraNew, SobraReady
    <2>3. CASE cola.readyVRR # <<>>
      <3>1. /\ corto'.pc = "despachar" /\ cola'.new = cola.new
            /\ cola'.ready = cola.ready /\ cola'.readyVRR = Tail(cola.readyVRR)
        BY <1>16, <2>3 DEF CortoSacaDePrioridad, CortoSacaDe, TipoCola, TipoCorto
      <3>2. Encolados(cola'.readyVRR) = Encolados(cola.readyVRR) - 1
        BY <2>3, <3>1, Largos DEF TipoCola
      <3>3. Uno(CortoAvisado) = 1 /\ Uno(CortoAvisado') = 0
        BY <2>1, <3>1 DEF Uno
      <3>4. QED
        BY <2>1, <3>1, <3>2, <3>3, LargosCola DEF Reparto, SobraNew, SobraReady
    <2>4. QED
      BY <2>2, <2>3
  <1>15. CASE CortoDevuelveAReady
    <2>1. /\ corto.pc = "a_ready" /\ corto'.pc = "post_cpu" /\ UNCHANGED largo
          /\ EsperasIguales
      BY <1>15, EsperasAjenas DEF CortoDevuelveAReady, EnCorto, CortoVa, menosCorto,
         TipoCorto
    <2>2. corto.pcb \in Procesos /\ push_cola_ready(corto.pcb)
      BY <1>15, <2>1 DEF CortoDevuelveAReady, TipoCorto
    <2>3. SobraReady' = SobraReady /\ SobraNew' = SobraNew
      BY <2>1, <2>2, ReadyAvisado DEF SobraNew, Uno
    <2>4. QED
      BY <2>1, <2>3 DEF Reparto
  <1>17. CASE CortoElige
    BY <1>17, EsperasAjenas, LargosCola DEF CortoElige, Reparto, SobraNew, SobraReady,
       EnCorto, CortoVa, menosCorto, mando, TipoSem, TipoCola, TipoCorto, Uno
  <1>18. CASE CortoValidaIO
    BY <1>18, EsperasAjenas, LargosCola DEF CortoValidaIO, Reparto, SobraNew, SobraReady,
       EnCorto, CortoVa, menosCorto, mando, TipoSem, TipoCola, TipoCorto, Uno
  <1>19. CASE CortoFinaliza
    BY <1>19, EsperasAjenas, LargosCola DEF CortoFinaliza, Reparto, SobraNew, SobraReady,
       EnCorto, CortoVa, menosCorto, mando, TipoSem, TipoCola, TipoCorto, Uno,
       push_cola_exit
  <1>20. QED
    BY <1>1, <1>2, <1>3, <1>4, <1>5, <1>6, <1>7, <1>8, <1>9, <1>10, <1>11, <1>12, <1>13,
       <1>14, <1>15, <1>16, <1>17, <1>18, <1>19

\* The same process in another place of the same resource: no queue changes.
LEMMA EsperasQuietas ==
  ASSUME UNCHANGED <<conexion, hilo_io, hilo_recurso>>,
         \A r \in Recursos :
           /\ recurso'[r].procesos_en_espera = recurso[r].procesos_en_espera
           /\ recurso'[r].procesos_en_cola = recurso[r].procesos_en_cola
  PROVE  EsperasIguales
  BY DEF EsperasIguales, SobraIO, SobraRecurso

\* Releasing what a process holds moves nobody in the queues of the resources.
LEMMA LiberarEsperas ==
  ASSUME NEW p, liberar_recurso_del_proceso(p), NEW r \in Recursos
  PROVE  /\ recurso'[r].procesos_en_espera = recurso[r].procesos_en_espera
         /\ recurso'[r].procesos_en_cola = recurso[r].procesos_en_cola
  BY DEF liberar_recurso_del_proceso, Senalado

\* Only one interface, or one resource, has something to tell.
LEMMA UnaInterfaz ==
  ASSUME NEW i \in Interfaces, UNCHANGED <<recurso, hilo_recurso>>,
         \A j \in Interfaces \ {i} : conexion'[j] = conexion[j] /\ hilo_io'[j] = hilo_io[j],
         hilo_io'[i].pc # "cerrada" => SobraIO(i)' = SobraIO(i) /\ hilo_io[i].pc # "cerrada"
  PROVE  EsperasIguales
  BY DEF EsperasIguales, SobraIO, SobraRecurso

LEMMA UnRecursoSolo ==
  ASSUME NEW r \in Recursos, UNCHANGED <<conexion, hilo_io>>,
         \A s \in Recursos \ {r} : recurso'[s] = recurso[s] /\ hilo_recurso'[s] = hilo_recurso[s],
         SobraRecurso(r)' = SobraRecurso(r)
  PROVE  EsperasIguales
  BY DEF EsperasIguales, SobraIO, SobraRecurso

\* planificador_corto.c: the actions that touch those queues.
LEMMA RepartoCortoEsperas ==
  ASSUME IndInv, IndInv',
         \/ CortoAtiendeLibera \/ CortoTomaRecurso \/ CortoEncolaEnIO
         \/ CortoEncolaEnRecurso \/ CortoLiberaRecursos
  PROVE  Reparto
  <1> USE DEF IndInv, TypeOK
  <1>1. SobraNew' = SobraNew /\ SobraReady' = SobraReady
    BY DEF CortoAtiendeLibera, CortoTomaRecurso, CortoEncolaEnIO, CortoEncolaEnRecurso,
       CortoLiberaRecursos, menosCorto, EnCorto, CortoVa, TipoCola, TipoCorto,
       SobraNew, SobraReady, Uno
  <1>2. CASE CortoAtiendeLibera \/ CortoTomaRecurso \/ CortoLiberaRecursos
    <2>1. CASE CortoAtiendeLibera
      <3>1. \A r \in Recursos :
              /\ recurso'[r].procesos_en_espera = recurso[r].procesos_en_espera
              /\ recurso'[r].procesos_en_cola = recurso[r].procesos_en_cola
        BY <2>1 DEF CortoAtiendeLibera, Senalado, TipoRecurso
      <3>2. QED
        BY <1>1, <2>1, <3>1, EsperasQuietas DEF CortoAtiendeLibera, menosCorto, Reparto
    <2>2. CASE CortoTomaRecurso
      <3>1. \A r \in Recursos :
              /\ recurso'[r].procesos_en_espera = recurso[r].procesos_en_espera
              /\ recurso'[r].procesos_en_cola = recurso[r].procesos_en_cola
        BY <2>2 DEF CortoTomaRecurso, Tomado, TipoRecurso
      <3>2. QED
        BY <1>1, <2>2, <3>1, EsperasQuietas DEF CortoTomaRecurso, menosCorto, Reparto
    <2>3. CASE CortoLiberaRecursos
      <3>1. /\ UNCHANGED <<conexion, hilo_io, hilo_recurso>>
            /\ liberar_recurso_del_proceso(corto.pcb)
        BY <2>3 DEF CortoLiberaRecursos, menosCorto
      <3>2. QED
        BY <1>1, <3>1, EsperasQuietas, LiberarEsperas DEF Reparto
    <2>4. QED
      BY <1>2, <2>1, <2>2, <2>3
  <1>3. CASE CortoEncolaEnIO
    <2>1. CASE UNCHANGED conexion
      BY <1>1, <1>3, <2>1, EsperasAjenas DEF CortoEncolaEnIO, menosCorto, Reparto
    <2>2. CASE conexion' = [conexion EXCEPT ![corto.arg] = EnEsperaIO(@, corto.pcb)]
      <3>0. PICK i \in Interfaces : i = corto.arg
        BY <1>3 DEF CortoEncolaEnIO, EnCorto, TipoCorto
      <3>1. /\ corto.pcb \in Procesos
            /\ conexion[i] \in UnaConexion /\ conexion'[i] \in UnaConexion
            /\ UNCHANGED <<recurso, hilo_recurso, hilo_io>>
        BY <1>3 DEF CortoEncolaEnIO, EnCorto, TipoCorto, TipoConexion, menosCorto
      <3>2. /\ conexion'[i].sem_cliente = conexion[i].sem_cliente + 1
            /\ conexion'[i].cola_espera = Append(conexion[i].cola_espera, corto.pcb)
            /\ \A j \in Interfaces \ {i} : conexion'[j] = conexion[j]
        BY <2>2, <3>0, <3>1 DEF EnEsperaIO, TipoConexion
      <3>3. /\ Encolados(conexion'[i].cola_espera) = Encolados(conexion[i].cola_espera) + 1
            /\ Encolados(conexion[i].cola_espera) \in Nat /\ conexion[i].sem_cliente \in Nat
            /\ conexion'[i].sem_cliente = conexion[i].sem_cliente + 1
            /\ hilo_io'[i] = hilo_io[i]
        BY <3>1, <3>2, Largos DEF UnaConexion
      <3>4. SobraIO(i)' = SobraIO(i)
        <4>1. CASE hilo_io[i].pc \in {"peek", "respuesta", "puerta", "pop_espera"}
          BY <3>3, <4>1 DEF SobraIO, Uno
        <4>2. CASE hilo_io[i].pc \notin {"peek", "respuesta", "puerta", "pop_espera"}
          BY <3>3, <4>2 DEF SobraIO, Uno
        <4>3. QED
          BY <4>1, <4>2
      <3>5. QED
        BY <1>1, <3>1, <3>2, <3>4, UnaInterfaz DEF Reparto
    <2>3. QED
      BY <1>3, <2>1, <2>2 DEF CortoEncolaEnIO
  <1>4. CASE CortoEncolaEnRecurso
    <2>0. PICK r \in Recursos : r = corto.arg
      BY <1>4 DEF CortoEncolaEnRecurso, EnCorto, TipoCorto
    <2>1. /\ corto.pcb \in Procesos
          /\ recurso[r] \in UnRecurso /\ recurso'[r] \in UnRecurso
          /\ UNCHANGED <<conexion, hilo_recurso, hilo_io>>
      BY <1>4 DEF CortoEncolaEnRecurso, EnCorto, TipoCorto, TipoRecurso, menosCorto
    <2>2. /\ recurso'[r].procesos_en_cola = recurso[r].procesos_en_cola + 1
          /\ recurso'[r].procesos_en_espera = Append(recurso[r].procesos_en_espera, corto.pcb)
          /\ \A s \in Recursos \ {r} : recurso'[s] = recurso[s]
      BY <1>4, <2>0, <2>1 DEF CortoEncolaEnRecurso, EnEspera, TipoRecurso
    <2>3. /\ Encolados(recurso'[r].procesos_en_espera) = Encolados(recurso[r].procesos_en_espera) + 1
          /\ Encolados(recurso[r].procesos_en_espera) \in Nat /\ recurso[r].procesos_en_cola \in Nat
          /\ recurso'[r].procesos_en_cola = recurso[r].procesos_en_cola + 1
          /\ hilo_recurso'[r] = hilo_recurso[r]
      BY <2>1, <2>2, Largos DEF UnRecurso
    <2>4. SobraRecurso(r)' = SobraRecurso(r)
      <3>1. CASE hilo_recurso[r].pc \in {"puerta", "peek", "wait_instancia", "pop_espera"}
        BY <2>3, <3>1 DEF SobraRecurso, Uno
      <3>2. CASE hilo_recurso[r].pc \notin {"puerta", "peek", "wait_instancia", "pop_espera"}
        BY <2>3, <3>2 DEF SobraRecurso, Uno
      <3>3. QED
        BY <3>1, <3>2
    <2>5. QED
      BY <1>1, <2>1, <2>2, <2>4, UnRecursoSolo DEF Reparto
  <1>5. QED
    BY <1>2, <1>3, <1>4

-----------------------------------------------------------------------------
(***************************************************************************)
(* gestor_io.c and recurso.c.                                              *)
(***************************************************************************)
\* What the thread of an interface does to the queue of its own interface; the
\* pop of an empty queue, which uses up a post for nothing, is apart.
LEMMA CuentaIO ==
  ASSUME IndInv, IndInv', NEW i \in Interfaces, ConectarIO(i) \/ HiloIO(i),
         ~(IOSacaDeEspera(i) /\ conexion[i].cola_espera = <<>>),
         hilo_io'[i].pc # "cerrada"
  PROVE  SobraIO(i)' = SobraIO(i) /\ hilo_io[i].pc # "cerrada"
  <1>1. /\ conexion[i] \in UnaConexion /\ conexion \in [Interfaces -> UnaConexion]
        /\ hilo_io \in [Interfaces -> [pc : PcsIO, pcb : Pcb]]
    BY DEF IndInv, TypeOK, TipoConexion, TipoHiloIO
  <1>2. /\ conexion[i].cola_espera \in Seq(Procesos) /\ conexion[i].sem_cliente \in Nat
        /\ Encolados(conexion[i].cola_espera) \in Nat
    BY <1>1, Largos DEF UnaConexion
  <1>3. CASE ConectarIO(i)
    BY <1>1, <1>3 DEF ConectarIO, EnIO, IOVa, SobraIO, Uno
  <1>4. CASE IOEsperaCliente(i)
    <2>1. /\ conexion'[i].sem_cliente = conexion[i].sem_cliente - 1
          /\ conexion'[i].cola_espera = conexion[i].cola_espera
          /\ hilo_io[i].pc = "sem_cliente" /\ hilo_io'[i].pc = "peek"
      BY <1>1, <1>4 DEF IOEsperaCliente, EnIO, IOVa, UnaConexion
    <2>2. QED
      BY <1>2, <2>1 DEF SobraIO, Uno
  <1>5. CASE IOEnviaInstruccion(i)
    BY <1>1, <1>5 DEF IOEnviaInstruccion, EnIO, IOVa, SobraIO, Uno
  <1>6. CASE IORecibeFin(i)
    BY <1>1, <1>6 DEF IORecibeFin, EnIO, IOVa, SobraIO, Uno
  <1>7. CASE IOSeDesconecta(i)
    BY <1>1, <1>7 DEF IOSeDesconecta, EnIO, IOVa
  <1>8. CASE IOPasaPuerta(i)
    BY <1>1, <1>8 DEF IOPasaPuerta, EnIO, IOVa, SobraIO, Uno
  <1>9. CASE IOSacaDeEspera(i)
    <2>1. /\ conexion'[i].sem_cliente = conexion[i].sem_cliente
          /\ conexion'[i].cola_espera = Tail(conexion[i].cola_espera)
          /\ hilo_io[i].pc = "pop_espera" /\ hilo_io'[i].pc = "push_ready"
      BY <1>1, <1>9 DEF IOSacaDeEspera, EnIO, IOVa, UnaConexion
    <2>2. /\ Encolados(conexion'[i].cola_espera) = Encolados(conexion[i].cola_espera) - 1
          /\ conexion'[i].sem_cliente = conexion[i].sem_cliente
      BY <1>2, <1>9, <2>1, Largos
    <2>3. QED
      BY <1>2, <2>1, <2>2 DEF SobraIO, Uno
  <1>10. CASE IODesbloquea(i)
    BY <1>1, <1>10 DEF IODesbloquea, EnIO, IOVa, SobraIO, Uno
  <1>11. QED
    BY <1>3, <1>4, <1>5, <1>6, <1>7, <1>8, <1>9, <1>10 DEF HiloIO

\* The thread of an interface: its own queue, and READY when it unblocks.
LEMMA RepartoIO ==
  ASSUME IndInv, IndInv', NEW i \in Interfaces, ConectarIO(i) \/ HiloIO(i),
         ~(IOSacaDeEspera(i) /\ conexion[i].cola_espera = <<>>)
  PROVE  Reparto
  <1>1. /\ UNCHANGED <<recurso, hilo_recurso, largo, corto>>
        /\ \A j \in Interfaces \ {i} : conexion'[j] = conexion[j] /\ hilo_io'[j] = hilo_io[j]
    BY DEF IndInv, TypeOK, TipoConexion, TipoHiloIO, ConectarIO, HiloIO, IOEsperaCliente,
       IOEnviaInstruccion, IORecibeFin, IOSeDesconecta, IOPasaPuerta, IOSacaDeEspera,
       IODesbloquea, IOVa, menosIO
  <1>2. EsperasIguales
    BY <1>1, CuentaIO, UnaInterfaz
  <1>3. SobraNew' = SobraNew /\ SobraReady' = SobraReady
    <2>1. CASE IODesbloquea(i)
      <3>1. /\ hilo_io[i].pcb \in Procesos
            /\ push_cola_ready(hilo_io[i].pcb) \/ push_cola_ready_priority(hilo_io[i].pcb)
        BY <2>1 DEF IODesbloquea, EnIO, IndInv, TypeOK, TipoHiloIO
      <3>2. QED
        BY <1>1, <3>1, ReadyAvisado DEF IndInv, TypeOK, SobraNew, Uno
    <2>2. CASE UNCHANGED <<cola, sem>>
      BY <1>1, <2>2 DEF SobraNew, SobraReady
    <2>3. QED
      BY <2>1, <2>2 DEF ConectarIO, HiloIO, IOEsperaCliente, IOEnviaInstruccion,
         IORecibeFin,
         IOSeDesconecta, IOPasaPuerta, IOSacaDeEspera
  <1>4. QED
    BY <1>2, <1>3 DEF Reparto

\* The same for a resource; apart, the instance that goes back because the
\* process it was for is no longer waiting.
LEMMA CuentaRecurso ==
  ASSUME IndInv, IndInv', NEW r \in Recursos, HiloRecurso(r),
         ~(RecursoTomaInstancia(r) /\ hilo_recurso'[r].pc = "en_cola")
  PROVE  SobraRecurso(r)' = SobraRecurso(r)
  <1>1. /\ recurso[r] \in UnRecurso /\ recurso \in [Recursos -> UnRecurso]
        /\ hilo_recurso \in [Recursos -> [pc : PcsRecurso, pcb : Pcb]]
    BY DEF IndInv, TypeOK, TipoRecurso, TipoHiloRecurso
  <1>2. /\ recurso[r].procesos_en_espera \in Seq(Procesos) /\ recurso[r].procesos_en_cola \in Nat
        /\ Encolados(recurso[r].procesos_en_espera) \in Nat
    BY <1>1, Largos DEF UnRecurso
  <1>3. CASE RecursoEsperaCola(r)
    <2>1. /\ recurso'[r].procesos_en_cola = recurso[r].procesos_en_cola - 1
          /\ recurso'[r].procesos_en_espera = recurso[r].procesos_en_espera
          /\ hilo_recurso[r].pc = "en_cola" /\ hilo_recurso'[r].pc = "puerta"
      BY <1>1, <1>3 DEF RecursoEsperaCola, EnRecurso, RecursoVa, UnRecurso
    <2>2. QED
      BY SMTT(20), <1>2, <2>1 DEF SobraRecurso, Uno
  <1>4. CASE RecursoPasaPuerta(r)
    BY <1>1, <1>4 DEF RecursoPasaPuerta, EnRecurso, RecursoVa, SobraRecurso, Uno
  <1>5. CASE RecursoMiraEspera(r)
    BY <1>1, <1>5 DEF RecursoMiraEspera, EnRecurso, RecursoVa, SobraRecurso, Uno
  <1>6. CASE RecursoTomaInstancia(r)
    <2>1. /\ recurso' = [recurso EXCEPT ![r] = Tomado(@, hilo_recurso[r].pcb)]
          /\ hilo_recurso'[r].pc = "pop_espera" /\ hilo_recurso[r].pc = "wait_instancia"
      BY <1>1, <1>6 DEF RecursoTomaInstancia, EnRecurso, RecursoVa
    <2>2. /\ recurso'[r].procesos_en_cola = recurso[r].procesos_en_cola
          /\ recurso'[r].procesos_en_espera = recurso[r].procesos_en_espera
      BY <1>1, <2>1 DEF Tomado
    <2>3. QED
      BY <2>1, <2>2 DEF SobraRecurso, Uno
  <1>7. CASE RecursoSacaDeEspera(r)
    <2>1. CASE recurso[r].procesos_en_espera = <<>>
      BY <1>7, <2>1 DEF RecursoSacaDeEspera, SobraRecurso
    <2>2. CASE recurso[r].procesos_en_espera # <<>>
      <3>1. /\ recurso'[r].procesos_en_cola = recurso[r].procesos_en_cola
            /\ recurso'[r].procesos_en_espera = Tail(recurso[r].procesos_en_espera)
            /\ hilo_recurso[r].pc = "pop_espera" /\ hilo_recurso'[r].pc = "push_ready"
        BY <1>1, <1>7, <2>2 DEF RecursoSacaDeEspera, EnRecurso, RecursoVa, UnRecurso
      <3>2. /\ Encolados(recurso'[r].procesos_en_espera)
                 = Encolados(recurso[r].procesos_en_espera) - 1
            /\ recurso'[r].procesos_en_cola = recurso[r].procesos_en_cola
        BY <1>2, <2>2, <3>1, Largos
      <3>3. QED
        BY <1>2, <3>1, <3>2 DEF SobraRecurso, Uno
    <2>3. QED
      BY <2>1, <2>2
  <1>8. CASE RecursoDesbloquea(r)
    BY <1>1, <1>8 DEF RecursoDesbloquea, EnRecurso, RecursoVa, SobraRecurso, Uno
  <1>9. QED
    BY <1>3, <1>4, <1>5, <1>6, <1>7, <1>8 DEF HiloRecurso

\* The thread of a resource: what it leaves alone, READY, and its own queue.
LEMMA RecursoAjeno ==
  ASSUME IndInv, NEW r \in Recursos, HiloRecurso(r)
  PROVE  /\ UNCHANGED <<conexion, hilo_io, largo, corto>>
         /\ \A s \in Recursos \ {r} : recurso'[s] = recurso[s] /\ hilo_recurso'[s] = hilo_recurso[s]
  BY DEF IndInv, TypeOK, TipoRecurso, TipoHiloRecurso, HiloRecurso, RecursoEsperaCola,
     RecursoPasaPuerta, RecursoMiraEspera, RecursoTomaInstancia, RecursoSacaDeEspera,
     RecursoDesbloquea, RecursoVa, menosRecurso

LEMMA RecursoColas ==
  ASSUME IndInv, IndInv', NEW r \in Recursos, HiloRecurso(r)
  PROVE  SobraNew' = SobraNew /\ SobraReady' = SobraReady
  <1>1. UNCHANGED <<largo, corto>>
    BY RecursoAjeno
  <1>2. CASE RecursoDesbloquea(r)
    <2>1. hilo_recurso[r].pcb \in Procesos /\ push_cola_ready(hilo_recurso[r].pcb)
      BY <1>2 DEF RecursoDesbloquea, EnRecurso, IndInv, TypeOK, TipoHiloRecurso
    <2>2. QED
      BY <1>1, <2>1, ReadyAvisado DEF IndInv, TypeOK, SobraNew, Uno
  <1>3. CASE UNCHANGED <<cola, sem>>
    BY <1>1, <1>3 DEF SobraNew, SobraReady
  <1>4. QED
    BY <1>2, <1>3 DEF HiloRecurso, RecursoEsperaCola, RecursoPasaPuerta, RecursoMiraEspera,
       RecursoTomaInstancia, RecursoSacaDeEspera

LEMMA RepartoRecurso ==
  ASSUME IndInv, IndInv', NEW r \in Recursos, HiloRecurso(r),
         ~(RecursoTomaInstancia(r) /\ hilo_recurso'[r].pc = "en_cola")
  PROVE  Reparto
  BY RecursoAjeno, RecursoColas, CuentaRecurso, UnRecursoSolo DEF Reparto

-----------------------------------------------------------------------------
(***************************************************************************)
(* consola.c: no command announces a process without queueing it; the      *)
(* removals of FINALIZAR_PROCESO leave a post too many.                    *)
(***************************************************************************)
LEMMA RepartoConsola ==
  ASSUME IndInv, IndInv',
         \/ IniciarProceso \/ DetenerPlanificacion \/ DetenerEnPausa
         \/ ReanudarPlanificacion \/ Multiprogramacion \/ FinalizarProceso
         \/ BuscarProceso \/ InterrumpirProceso \/ EnviarInterrupcion \/ ConsolaFinaliza
         \/ ConsolaLiberaGrado \/ ConsolaReduceGrado
         \/ ConsolaLiberaRecursos("exit_recursos", "grado")
         \/ ConsolaLiberaRecursos("liberar", "reanudar") \/ ConsolaReanuda
  PROVE  Reparto
  <1> USE DEF IndInv, TypeOK
  <1>1. UNCHANGED <<largo, corto, conexion, hilo_io, hilo_recurso>>
    BY DEF IniciarProceso, DetenerPlanificacion, DetenerEnPausa, ReanudarPlanificacion,
       Multiprogramacion, FinalizarProceso, BuscarProceso, InterrumpirProceso,
       EnviarInterrupcion, ConsolaFinaliza, ConsolaLiberaGrado, ConsolaReduceGrado,
       ConsolaLiberaRecursos, ConsolaReanuda, hilos, menosConsola
  <1>2. EsperasIguales
    <2>1. CASE UNCHANGED recurso
      BY <1>1, <2>1, EsperasAjenas
    <2>2. CASE liberar_recurso_del_proceso(consola.pid)
      BY <1>1, <2>2, EsperasQuietas, LiberarEsperas
    <2>3. QED
      BY <2>1, <2>2 DEF IniciarProceso, DetenerPlanificacion, DetenerEnPausa,
         ReanudarPlanificacion, Multiprogramacion, FinalizarProceso, BuscarProceso,
         InterrumpirProceso, EnviarInterrupcion, ConsolaFinaliza, push_cola_exit,
         ConsolaLiberaGrado, ConsolaReduceGrado, ConsolaLiberaRecursos, ConsolaReanuda
  <1>3. SobraNew' = SobraNew /\ SobraReady' = SobraReady
    <2>1. CASE IniciarProceso
      <3>1. CASE push_cola_new(pcb_counter)
        <4>1. /\ Encolados(cola'.new) = Encolados(cola.new) + 1
              /\ sem'.nuevo_proceso = sem.nuevo_proceso + 1
              /\ cola'.ready = cola.ready /\ cola'.readyVRR = cola.readyVRR
              /\ sem'.proceso_en_ready = sem.proceso_en_ready
          BY <2>1, <3>1, EfectoNew DEF IniciarProceso
        <4>2. Encolados(cola.new) \in Nat /\ sem.nuevo_proceso \in Nat
          BY LargosCola
        <4>3. CASE largo.pc \in {"puerta", "pop_new"}
          BY <1>1, <4>1, <4>2, <4>3 DEF SobraNew, SobraReady, Uno
        <4>4. CASE largo.pc \notin {"puerta", "pop_new"}
          BY <1>1, <4>1, <4>2, <4>4 DEF SobraNew, SobraReady, Uno
        <4>5. QED
          BY <4>3, <4>4
      <3>2. CASE UNCHANGED <<cola, sem>>
        BY <1>1, <3>2 DEF SobraNew, SobraReady
      <3>3. QED
        BY <2>1, <3>1, <3>2 DEF IniciarProceso
    <2>2. CASE /\ cola'.new = cola.new /\ cola'.ready = cola.ready
               /\ cola'.readyVRR = cola.readyVRR
               /\ sem'.nuevo_proceso = sem.nuevo_proceso
               /\ sem'.proceso_en_ready = sem.proceso_en_ready
      BY <1>1, <2>2 DEF SobraNew, SobraReady
    <2>3. CASE Multiprogramacion \/ ConsolaFinaliza \/ ConsolaLiberaGrado
      BY <2>2, <2>3 DEF Multiprogramacion, ConsolaFinaliza, push_cola_exit,
         ConsolaLiberaGrado,
         PostGrado, TipoCola, TipoSem
    <2>4. CASE UNCHANGED <<cola, sem>>
      BY <2>2, <2>4
    <2>5. QED
      BY <2>1, <2>3, <2>4 DEF DetenerPlanificacion, DetenerEnPausa,
         ReanudarPlanificacion, FinalizarProceso, BuscarProceso,
         InterrumpirProceso, EnviarInterrupcion, ConsolaReduceGrado,
         ConsolaLiberaRecursos, ConsolaReanuda
  <1>4. QED
    BY <1>2, <1>3 DEF Reparto

\* An element less.
LEMMA LargoSinUno ==
  ASSUME NEW q \in Seq(Procesos), NEW k \in DOMAIN q
  PROVE  Encolados(RemoveAt(q, k)) = Encolados(q) - 1
  <1>1. k \in 1 .. Len(q) /\ Len(q) \in Nat
    BY LenProperties
  <1>2. /\ SubSeq(q, 1, k - 1) \in Seq(Procesos)
        /\ Len(SubSeq(q, 1, k - 1)) = k - 1
    BY <1>1, SubSeqProperties, ElementOfSeq
  <1>3. /\ SubSeq(q, k + 1, Len(q)) \in Seq(Procesos)
        /\ Len(SubSeq(q, k + 1, Len(q))) = Len(q) - k
    BY <1>1, SubSeqProperties, ElementOfSeq
  <1>4. Len(SubSeq(q, 1, k - 1) \o SubSeq(q, k + 1, Len(q)))
          = Len(SubSeq(q, 1, k - 1)) + Len(SubSeq(q, k + 1, Len(q)))
    BY <1>2, <1>3, ConcatProperties
  <1>5. Len(RemoveAt(q, k)) = (k - 1) + (Len(q) - k)
    BY <1>2, <1>3, <1>4 DEF RemoveAt
  <1>6. (k - 1) + (Len(q) - k) = Len(q) - 1
    BY <1>1
  <1>7. QED
    BY <1>5, <1>6 DEF Encolados

\* pop_proceso takes one entry out.
LEMMA LargoDelMedio ==
  ASSUME NEW q \in Seq(Procesos), NEW p, NEW k \in PrimeraPosicion(q, p)
  PROVE  Encolados(RemoveAt(q, k)) = Encolados(q) - 1
  <1>1. k \in DOMAIN q
    BY LenProperties DEF PrimeraPosicion
  <1>2. QED
    BY <1>1, LargoSinUno

\* The four removals of FINALIZAR_PROCESO: at most one queue has a post more.
LEMMA SacarNewAvisos ==
  ASSUME IndInv, IndInv', SacarDeCola("sacar_new", "new")
  PROVE  /\ SobraNew' \in {SobraNew, SobraNew + 1}
         /\ SobraReady' = SobraReady
         /\ UNCHANGED <<conexion, recurso, hilo_io, hilo_recurso>>
  <1> USE DEF IndInv, TypeOK
  <1>1. UNCHANGED <<largo, corto, sem, conexion, recurso, hilo_io, hilo_recurso>>
    BY DEF SacarDeCola, menosConsola
  <1>2. CASE UNCHANGED cola
    BY <1>1, <1>2 DEF SobraNew, SobraReady
  <1>3. CASE \E k \in PrimeraPosicion(cola.new, consola.pid) :
               cola' = [cola EXCEPT !.new = RemoveAt(@, k)]
    <2>1. PICK k \in PrimeraPosicion(cola.new, consola.pid) :
            cola' = [cola EXCEPT !.new = RemoveAt(@, k)]
      BY <1>3
    <2>2. /\ cola'.new = RemoveAt(cola.new, k) /\ cola.new \in Seq(Procesos)
          /\ cola'.ready = cola.ready /\ cola'.readyVRR = cola.readyVRR
      BY <2>1 DEF TipoCola
    <2>3. Encolados(cola'.new) = Encolados(cola.new) - 1
      BY <2>2, LargoDelMedio
    <2>4. Encolados(cola.new) \in Nat /\ sem.nuevo_proceso \in Nat
      BY LargosCola
    <2>5. SobraReady' = SobraReady
      BY <1>1, <2>2 DEF SobraReady
    <2>6. CASE largo.pc \in {"puerta", "pop_new"}
      BY <1>1, <2>3, <2>4, <2>5, <2>6 DEF SobraNew, Uno
    <2>7. CASE largo.pc \notin {"puerta", "pop_new"}
      BY <1>1, <2>3, <2>4, <2>5, <2>7 DEF SobraNew, Uno
    <2>8. QED
      BY <2>6, <2>7
  <1>4. QED
    BY <1>2, <1>3 DEF SacarDeCola

LEMMA SacarReadyAvisos ==
  ASSUME IndInv, IndInv', SacarDeCola("sacar_ready", "ready")
  PROVE  /\ SobraNew' = SobraNew
         /\ SobraReady' \in {SobraReady, SobraReady + 1}
         /\ UNCHANGED <<conexion, recurso, hilo_io, hilo_recurso>>
  <1> USE DEF IndInv, TypeOK
  <1>1. UNCHANGED <<largo, corto, sem, conexion, recurso, hilo_io, hilo_recurso>>
    BY DEF SacarDeCola, menosConsola
  <1>2. CASE UNCHANGED cola
    BY <1>1, <1>2 DEF SobraNew, SobraReady
  <1>3. CASE \E k \in PrimeraPosicion(cola.ready, consola.pid) :
               cola' = [cola EXCEPT !.ready = RemoveAt(@, k)]
    <2>1. PICK k \in PrimeraPosicion(cola.ready, consola.pid) :
            cola' = [cola EXCEPT !.ready = RemoveAt(@, k)]
      BY <1>3
    <2>2. /\ cola'.ready = RemoveAt(cola.ready, k) /\ cola.ready \in Seq(Procesos)
          /\ cola'.new = cola.new /\ cola'.readyVRR = cola.readyVRR
      BY <2>1 DEF TipoCola
    <2>3. Encolados(cola'.ready) = Encolados(cola.ready) - 1
      BY <2>2, LargoDelMedio
    <2>4. /\ Encolados(cola.ready) \in Nat /\ Encolados(cola.readyVRR) \in Nat
          /\ sem.proceso_en_ready \in Nat
      BY LargosCola
    <2>5. SobraNew' = SobraNew
      BY <1>1, <2>2 DEF SobraNew
    <2>6. CASE CortoAvisado
      BY <1>1, <2>2, <2>3, <2>4, <2>5, <2>6 DEF SobraReady, Uno
    <2>7. CASE ~CortoAvisado
      BY <1>1, <2>2, <2>3, <2>4, <2>5, <2>7 DEF SobraReady, Uno
    <2>8. QED
      BY <2>6, <2>7
  <1>4. QED
    BY <1>2, <1>3 DEF SacarDeCola

LEMMA SacarIOAvisos ==
  ASSUME IndInv, IndInv', SacarDeIO
  PROVE  /\ SobraNew' = SobraNew /\ SobraReady' = SobraReady
         /\ UNCHANGED <<recurso, hilo_io, hilo_recurso>>
         /\ \A i \in Interfaces : SobraIO(i)' \in {SobraIO(i), SobraIO(i) + 1}
  <1> USE DEF IndInv, TypeOK
  <1>1. UNCHANGED <<largo, corto, cola, sem, recurso, hilo_io, hilo_recurso>>
    BY DEF SacarDeIO, menosConsola
  <1>2. SobraNew' = SobraNew /\ SobraReady' = SobraReady
    BY <1>1 DEF SobraNew, SobraReady
  <1>3. CASE UNCHANGED conexion
    BY <1>1, <1>2, <1>3 DEF SobraIO
  <1>4. CASE \E i \in EsperaIO(consola.pid) :
               \E k \in PrimeraPosicion(conexion[i].cola_espera, consola.pid) :
                 conexion' = [conexion EXCEPT ![i].cola_espera = RemoveAt(@, k)]
    <2>1. PICK i \in Interfaces :
               \E k \in PrimeraPosicion(conexion[i].cola_espera, consola.pid) :
                 conexion' = [conexion EXCEPT ![i].cola_espera = RemoveAt(@, k)]
      BY <1>4 DEF EsperaIO
    <2>2. PICK k \in PrimeraPosicion(conexion[i].cola_espera, consola.pid) :
                 conexion' = [conexion EXCEPT ![i].cola_espera = RemoveAt(@, k)]
      BY <2>1
    <2>3. /\ conexion'[i].cola_espera = RemoveAt(conexion[i].cola_espera, k)
          /\ conexion'[i].sem_cliente = conexion[i].sem_cliente
          /\ conexion[i].cola_espera \in Seq(Procesos) /\ conexion[i].sem_cliente \in Nat
          /\ \A j \in Interfaces \ {i} : conexion'[j] = conexion[j]
      BY <2>2 DEF TipoConexion, UnaConexion
    <2>4. /\ Encolados(conexion'[i].cola_espera) = Encolados(conexion[i].cola_espera) - 1
          /\ Encolados(conexion[i].cola_espera) \in Nat
      BY <2>3, LargoDelMedio, Largos
    <2>5. SobraIO(i)' = SobraIO(i) + 1
      <3>1. CASE hilo_io[i].pc \in {"peek", "respuesta", "puerta", "pop_espera"}
        BY <1>1, <2>3, <2>4, <3>1 DEF SobraIO, Uno
      <3>2. CASE hilo_io[i].pc \notin {"peek", "respuesta", "puerta", "pop_espera"}
        BY <1>1, <2>3, <2>4, <3>2 DEF SobraIO, Uno
      <3>3. QED
        BY <3>1, <3>2
    <2>6. \A j \in Interfaces \ {i} : SobraIO(j)' = SobraIO(j)
      BY <1>1, <2>3 DEF SobraIO
    <2>7. QED
      BY <1>1, <1>2, <2>5, <2>6
  <1>5. QED
    BY <1>3, <1>4 DEF SacarDeIO

LEMMA SacarRecursoAvisos ==
  ASSUME IndInv, IndInv', SacarDeRecurso
  PROVE  /\ SobraNew' = SobraNew /\ SobraReady' = SobraReady
         /\ UNCHANGED <<conexion, hilo_io, hilo_recurso>>
         /\ \A r \in Recursos :
              \/ recurso'[r] = recurso[r]
              \/ SobraRecurso(r)' = SobraRecurso(r) + 1
  <1> USE DEF IndInv, TypeOK
  <1>1. UNCHANGED <<largo, corto, cola, sem, conexion, hilo_io, hilo_recurso>>
    BY DEF SacarDeRecurso, menosConsola
  <1>2. SobraNew' = SobraNew /\ SobraReady' = SobraReady
    BY <1>1 DEF SobraNew, SobraReady
  <1>3. CASE UNCHANGED recurso
    BY <1>1, <1>2, <1>3
  <1>4. CASE \E r \in EsperaRecurso(consola.pid) :
               \E k \in PrimeraPosicion(recurso[r].procesos_en_espera, consola.pid) :
                 recurso' = [recurso EXCEPT ![r].procesos_en_espera = RemoveAt(@, k)]
    <2>1. PICK r \in Recursos :
               \E k \in PrimeraPosicion(recurso[r].procesos_en_espera, consola.pid) :
                 recurso' = [recurso EXCEPT ![r].procesos_en_espera = RemoveAt(@, k)]
      BY <1>4 DEF EsperaRecurso
    <2>2. PICK k \in PrimeraPosicion(recurso[r].procesos_en_espera, consola.pid) :
                 recurso' = [recurso EXCEPT ![r].procesos_en_espera = RemoveAt(@, k)]
      BY <2>1
    <2>3. /\ recurso'[r].procesos_en_espera = RemoveAt(recurso[r].procesos_en_espera, k)
          /\ recurso'[r].procesos_en_cola = recurso[r].procesos_en_cola
          /\ recurso[r].procesos_en_espera \in Seq(Procesos)
          /\ recurso[r].procesos_en_cola \in Nat
          /\ \A s \in Recursos \ {r} : recurso'[s] = recurso[s]
      BY <2>2 DEF TipoRecurso, UnRecurso
    <2>4. /\ Encolados(recurso'[r].procesos_en_espera)
               = Encolados(recurso[r].procesos_en_espera) - 1
          /\ Encolados(recurso[r].procesos_en_espera) \in Nat
      BY <2>3, LargoDelMedio, Largos
    <2>5. SobraRecurso(r)' = SobraRecurso(r) + 1
      <3>1. CASE hilo_recurso[r].pc \in {"puerta", "peek", "wait_instancia", "pop_espera"}
        BY <1>1, <2>3, <2>4, <3>1 DEF SobraRecurso, Uno
      <3>2. CASE hilo_recurso[r].pc \notin {"puerta", "peek", "wait_instancia", "pop_espera"}
        BY <1>1, <2>3, <2>4, <3>2 DEF SobraRecurso, Uno
      <3>3. QED
        BY <3>1, <3>2
    <2>6. QED
      BY <1>1, <1>2, <2>3, <2>5
  <1>5. QED
    BY <1>3, <1>4 DEF SacarDeRecurso

-----------------------------------------------------------------------------
(***************************************************************************)
(* No process goes unannounced, whatever the operator does.                *)
(***************************************************************************)
\* AvisosSuficientes, said of the ledgers.
Cubierto ==
  /\ SobraNew >= 0
  /\ SobraReady >= 0
  /\ \A i \in Interfaces : hilo_io[i].pc # "cerrada" => SobraIO(i) >= 0
  /\ \A r \in Recursos : SobraRecurso(r) >= 0

\* The thread of a resource that waits for an instance on behalf of a process
\* which is no longer in the queue holds a post that no process needs: it goes
\* back to its semaphore without popping anybody.
EsperaCubierta ==
  \A r \in Recursos :
    /\ hilo_recurso[r].pc = "wait_instancia"
    /\ ~Contains(recurso[r].procesos_en_espera, hilo_recurso[r].pcb)
    => SobraRecurso(r) >= 1

AvInv == Cubierto /\ EsperaCubierta

\* The ledgers are integers.
LEMMA SobrasEnteras ==
  ASSUME TypeOK
  PROVE  /\ SobraNew \in Int /\ SobraReady \in Int
         /\ \A i \in Interfaces : SobraIO(i) \in Int
         /\ \A r \in Recursos : SobraRecurso(r) \in Int
  <1>1. /\ SobraNew \in Int /\ SobraReady \in Int
    BY LargosCola DEF TypeOK, SobraNew, SobraReady, Uno
  <1>2. ASSUME NEW i \in Interfaces PROVE SobraIO(i) \in Int
    <2>1. /\ Encolados(conexion[i].cola_espera) \in Nat /\ conexion[i].sem_cliente \in Nat
      BY Largos DEF TypeOK, TipoConexion, UnaConexion
    <2>2. QED
      BY <2>1 DEF SobraIO, Uno
  <1>3. ASSUME NEW r \in Recursos PROVE SobraRecurso(r) \in Int
    <2>1. /\ Encolados(recurso[r].procesos_en_espera) \in Nat
          /\ recurso[r].procesos_en_cola \in Nat
      BY Largos DEF TypeOK, TipoRecurso, UnRecurso
    <2>2. QED
      BY <2>1 DEF SobraRecurso, Uno
  <1>4. QED
    BY <1>1, <1>2, <1>3

\* A step that neither takes nor gives posts out of turn.
LEMMA CubiertoSeReparte ==
  ASSUME Cubierto, Reparto
  PROVE  Cubierto'
  BY DEF Cubierto, Reparto, EsperasIguales

\* EsperaCubierta survives a step of anybody else: first, one that moves nobody
\* in the queues of the resources; then each thread.
LEMMA EsperaAjena ==
  ASSUME EsperaCubierta, NEW r \in Recursos, SobraRecurso(r)' = SobraRecurso(r),
         hilo_recurso'[r] = hilo_recurso[r],
         recurso'[r].procesos_en_espera = recurso[r].procesos_en_espera,
         hilo_recurso'[r].pc = "wait_instancia",
         ~Contains(recurso'[r].procesos_en_espera, hilo_recurso'[r].pcb)
  PROVE  SobraRecurso(r)' >= 1
  BY DEF EsperaCubierta

LEMMA CubiertaQuieta ==
  ASSUME EsperaCubierta, EsperasIguales, UNCHANGED hilo_recurso,
         \A r \in Recursos :
           recurso'[r].procesos_en_espera = recurso[r].procesos_en_espera
  PROVE  EsperaCubierta'
  BY DEF EsperaCubierta, EsperasIguales

LEMMA CubiertaLargo ==
  ASSUME IndInv, EsperaCubierta, Largo, Reparto
  PROVE  EsperaCubierta'
  <1>1. UNCHANGED <<recurso, hilo_recurso>>
    BY DEF Largo, LargoEsperaGrado, LargoEsperaNuevo, LargoPasaPuerta, LargoSacaDeNew,
       LargoAdmite, menosLargo
  <1>2. QED
    BY <1>1, CubiertaQuieta DEF Reparto

LEMMA CubiertaCorto ==
  ASSUME IndInv, EsperaCubierta, Corto, Reparto
  PROVE  EsperaCubierta'
  <1> USE DEF IndInv, TypeOK
  <1>1. UNCHANGED hilo_recurso
    BY DEF Corto, CortoEsperaListo, CortoEsperaCpu, CortoPasaPuerta, CortoSacaDeReady,
       CortoDespacha, CortoRecibe, CortoPasaPuertaRespuesta, CortoAtiendeFin,
       CortoAtiendeQuantum, CortoAtiendeIO, CortoAtiendeSolicita, CortoAtiendeLibera,
       CortoTomaRecurso, CortoDevuelveAReady, CortoEncolaEnIO, CortoEncolaEnRecurso,
       CortoFinaliza, CortoLiberaRecursos, CortoLiberaGrado, CortoReduceGrado,
       CortoLiberaCpu, CortoElige, CortoSacaDePrioridad, CortoSacaDe, CortoValidaIO, menosCorto
  <1>2. CASE \A r \in Recursos :
               recurso'[r].procesos_en_espera = recurso[r].procesos_en_espera
    BY <1>1, <1>2, CubiertaQuieta DEF Reparto
  <1>3. CASE CortoAtiendeLibera
    BY <1>2, <1>3 DEF CortoAtiendeLibera, Senalado, TipoRecurso
  <1>4. CASE CortoTomaRecurso
    BY <1>2, <1>4 DEF CortoTomaRecurso, Tomado, TipoRecurso
  <1>5. CASE CortoLiberaRecursos
    <2>1. liberar_recurso_del_proceso(corto.pcb)
      BY <1>5 DEF CortoLiberaRecursos
    <2>2. QED
      BY <1>2, <2>1, LiberarEsperas
  <1>6. CASE CortoEncolaEnRecurso
    <2> SUFFICES ASSUME NEW r \in Recursos, hilo_recurso'[r].pc = "wait_instancia",
                        ~Contains(recurso'[r].procesos_en_espera, hilo_recurso'[r].pcb)
                 PROVE  SobraRecurso(r)' >= 1
      BY DEF EsperaCubierta
    <2>1. \/ recurso'[r].procesos_en_espera = recurso[r].procesos_en_espera
          \/ recurso'[r].procesos_en_espera = Append(recurso[r].procesos_en_espera, corto.pcb)
      BY <1>6 DEF CortoEncolaEnRecurso, EnEspera, TipoRecurso
    <2>2. recurso[r].procesos_en_espera \in Seq(Procesos) /\ corto.pcb \in Procesos
      BY <1>6 DEF CortoEncolaEnRecurso, EnCorto, TipoCorto, TipoRecurso, UnRecurso
    <2>3. ~Contains(recurso[r].procesos_en_espera, hilo_recurso[r].pcb)
      <3>1. CASE recurso'[r].procesos_en_espera = recurso[r].procesos_en_espera
        BY <1>1, <3>1
      <3>2. CASE recurso'[r].procesos_en_espera = Append(recurso[r].procesos_en_espera, corto.pcb)
        BY <1>1, <2>2, <3>2, AppendProperties, LenProperties DEF Contains
      <3>3. QED
        BY <2>1, <3>1, <3>2
    <2>4. QED
      BY <1>1, <2>3 DEF EsperaCubierta, Reparto, EsperasIguales
  <1>7. CASE UNCHANGED recurso
    BY <1>2, <1>7
  <1>8. QED
    BY <1>3, <1>4, <1>5, <1>6, <1>7 DEF Corto, CortoEsperaListo, CortoEsperaCpu,
       CortoPasaPuerta,
       CortoSacaDeReady, CortoDespacha, CortoRecibe, CortoPasaPuertaRespuesta,
       CortoAtiendeFin,
       CortoAtiendeQuantum, CortoAtiendeIO, CortoAtiendeSolicita, CortoDevuelveAReady,
       CortoEncolaEnIO, CortoFinaliza, CortoLiberaGrado, CortoReduceGrado, CortoLiberaCpu,
       CortoElige, CortoSacaDePrioridad, CortoSacaDe, CortoValidaIO

LEMMA CubiertaConsola ==
  ASSUME IndInv, EsperaCubierta, Reparto,
         \/ IniciarProceso \/ DetenerPlanificacion \/ DetenerEnPausa
         \/ ReanudarPlanificacion \/ Multiprogramacion \/ FinalizarProceso
         \/ BuscarProceso \/ InterrumpirProceso \/ EnviarInterrupcion \/ ConsolaFinaliza
         \/ ConsolaLiberaGrado \/ ConsolaReduceGrado
         \/ ConsolaLiberaRecursos("exit_recursos", "grado")
         \/ ConsolaLiberaRecursos("liberar", "reanudar") \/ ConsolaReanuda
  PROVE  EsperaCubierta'
  <1>1. UNCHANGED hilo_recurso
    BY DEF IniciarProceso, DetenerPlanificacion, DetenerEnPausa, ReanudarPlanificacion,
       Multiprogramacion, FinalizarProceso, BuscarProceso, InterrumpirProceso,
       EnviarInterrupcion, ConsolaFinaliza, ConsolaLiberaGrado, ConsolaReduceGrado,
       ConsolaLiberaRecursos, ConsolaReanuda, hilos, menosConsola
  <1>2. CASE UNCHANGED recurso
    BY <1>1, <1>2, CubiertaQuieta DEF Reparto
  <1>3. CASE liberar_recurso_del_proceso(consola.pid)
    BY <1>1, <1>3, LiberarEsperas, CubiertaQuieta DEF Reparto
  <1>4. QED
    BY <1>2, <1>3 DEF IniciarProceso, DetenerPlanificacion, DetenerEnPausa,
       ReanudarPlanificacion, Multiprogramacion, FinalizarProceso, BuscarProceso,
       InterrumpirProceso, EnviarInterrupcion, ConsolaFinaliza, push_cola_exit,
       ConsolaLiberaGrado, ConsolaReduceGrado, ConsolaLiberaRecursos, ConsolaReanuda

LEMMA AvisosIO ==
  ASSUME IndInv, IndInv', AvInv, NEW i \in Interfaces, ConectarIO(i) \/ HiloIO(i)
  PROVE  AvInv'
  <1>1. UNCHANGED <<recurso, hilo_recurso, largo, corto>>
    BY DEF ConectarIO, HiloIO, IOEsperaCliente, IOEnviaInstruccion, IORecibeFin,
       IOSeDesconecta, IOPasaPuerta, IOSacaDeEspera, IODesbloquea, menosIO
  <1>2. EsperaCubierta'
    BY <1>1 DEF AvInv, EsperaCubierta, SobraRecurso
  <1>3. CASE ~(IOSacaDeEspera(i) /\ conexion[i].cola_espera = <<>>)
    BY <1>2, <1>3, RepartoIO, CubiertoSeReparte DEF AvInv
  <1>4. CASE IOSacaDeEspera(i) /\ conexion[i].cola_espera = <<>>
    <2>1. UNCHANGED <<cola, sem>>
      BY <1>4 DEF IOSacaDeEspera
    <2>2. SobraNew' = SobraNew /\ SobraReady' = SobraReady
      BY <1>1, <2>1 DEF SobraNew, SobraReady
    <2>3. \A r \in Recursos : SobraRecurso(r)' = SobraRecurso(r)
      BY <1>1 DEF SobraRecurso
    <2>4. /\ conexion'[i].cola_espera = <<>> /\ conexion'[i].sem_cliente \in Nat
          /\ hilo_io'[i].pc = "push_ready"
          /\ \A j \in Interfaces \ {i} : conexion'[j] = conexion[j] /\ hilo_io'[j] = hilo_io[j]
      BY <1>4 DEF IndInv, TypeOK, IOSacaDeEspera, EnIO, IOVa, TipoConexion, TipoHiloIO,
         UnaConexion
    <2>5. Encolados(conexion'[i].cola_espera) = 0
      BY <2>4, Largos, EmptySeq
    <2>6. SobraIO(i)' >= 0
      BY <2>4, <2>5 DEF SobraIO, Uno
    <2>7. \A j \in Interfaces \ {i} : hilo_io'[j].pc # "cerrada" => SobraIO(j)' >= 0
      BY <2>4 DEF AvInv, Cubierto, SobraIO
    <2>8. QED
      BY <1>2, <2>2, <2>3, <2>6, <2>7 DEF AvInv, Cubierto
  <1>5. QED
    BY <1>3, <1>4

LEMMA AvisosRecurso ==
  ASSUME IndInv, IndInv', AvInv, NEW r \in Recursos, HiloRecurso(r)
  PROVE  AvInv'
  <1> USE DEF IndInv, TypeOK
  <1>1. /\ UNCHANGED <<conexion, hilo_io, largo, corto>>
        /\ \A s \in Recursos \ {r} : recurso'[s] = recurso[s] /\ hilo_recurso'[s] = hilo_recurso[s]
    BY RecursoAjeno
  <1>2. \A s \in Recursos \ {r} : SobraRecurso(s)' = SobraRecurso(s)
    BY <1>1 DEF SobraRecurso
  <1>3. /\ hilo_recurso'[r].pc = "wait_instancia"
        /\ ~Contains(recurso'[r].procesos_en_espera, hilo_recurso'[r].pcb)
        => SobraRecurso(r)' >= 1
    <2> SUFFICES ASSUME hilo_recurso'[r].pc = "wait_instancia"
                 PROVE  Contains(recurso'[r].procesos_en_espera, hilo_recurso'[r].pcb)
      OBVIOUS
    <2>1. /\ recurso[r].procesos_en_espera # <<>> /\ UNCHANGED recurso
          /\ hilo_recurso'[r].pcb = Head(recurso[r].procesos_en_espera)
      BY DEF HiloRecurso, RecursoEsperaCola, RecursoPasaPuerta, RecursoMiraEspera,
         RecursoTomaInstancia, RecursoSacaDeEspera, RecursoDesbloquea, RecursoVa, EnRecurso,
         TipoHiloRecurso
    <2>2. /\ recurso[r].procesos_en_espera \in Seq(Procesos)
          /\ Len(recurso[r].procesos_en_espera) \in Nat \ {0}
      BY <2>1, EmptySeq DEF TipoRecurso, UnRecurso
    <2>3. Head(recurso[r].procesos_en_espera) = recurso[r].procesos_en_espera[1]
      BY <2>1, <2>2
    <2>4. QED
      BY <2>1, <2>2, <2>3 DEF Contains
  <1>4. EsperaCubierta'
    BY <1>1, <1>2, <1>3 DEF AvInv, EsperaCubierta
  <1>5. SobraRecurso(r)' >= 0
    <2>1. CASE ~(RecursoTomaInstancia(r) /\ hilo_recurso'[r].pc = "en_cola")
      BY <2>1, CuentaRecurso DEF AvInv, Cubierto
    <2>2. CASE RecursoTomaInstancia(r) /\ hilo_recurso'[r].pc = "en_cola"
      <3>1. /\ hilo_recurso[r].pc = "wait_instancia" /\ UNCHANGED recurso
            /\ ~Contains(recurso[r].procesos_en_espera, hilo_recurso[r].pcb)
        BY <2>2 DEF RecursoTomaInstancia, RecursoVa, EnRecurso, TipoHiloRecurso
      <3>2. SobraRecurso(r) >= 1
        BY <3>1 DEF AvInv, EsperaCubierta
      <3>3. /\ Encolados(recurso[r].procesos_en_espera) \in Nat
            /\ recurso[r].procesos_en_cola \in Nat
        BY Largos DEF TipoRecurso, UnRecurso
      <3>4. QED
        BY <2>2, <3>1, <3>2, <3>3 DEF SobraRecurso, Uno
    <2>3. QED
      BY <2>1, <2>2
  <1>6. SobraNew' = SobraNew /\ SobraReady' = SobraReady
    BY RecursoColas
  <1>7. \A i \in Interfaces : hilo_io'[i].pc # "cerrada" => SobraIO(i)' >= 0
    BY <1>1 DEF AvInv, Cubierto, SobraIO
  <1>8. QED
    BY <1>2, <1>4, <1>5, <1>6, <1>7 DEF AvInv, Cubierto

LEMMA AvisosSacar ==
  ASSUME IndInv, IndInv', AvInv,
         \/ SacarDeCola("sacar_new", "new") \/ SacarDeCola("sacar_ready", "ready")
         \/ SacarDeIO \/ SacarDeRecurso
  PROVE  AvInv'
  <1>0. /\ SobraNew \in Int /\ SobraReady \in Int
        /\ \A i \in Interfaces : SobraIO(i) \in Int
        /\ \A r \in Recursos : SobraRecurso(r) \in Int
    BY SobrasEnteras DEF IndInv
  <1>1. CASE SacarDeCola("sacar_new", "new") \/ SacarDeCola("sacar_ready", "ready")
    <2>1. /\ UNCHANGED <<conexion, recurso, hilo_io, hilo_recurso>>
          /\ SobraNew' \in {SobraNew, SobraNew + 1} /\ SobraReady' \in {SobraReady, SobraReady + 1}
      BY <1>1, SacarNewAvisos, SacarReadyAvisos
    <2>2. SobraNew' >= 0 /\ SobraReady' >= 0
      BY <1>0, <2>1 DEF AvInv, Cubierto
    <2>3. QED
      BY <2>1, <2>2 DEF AvInv, Cubierto, EsperaCubierta, SobraIO, SobraRecurso
  <1>2. CASE SacarDeIO
    <2>1. /\ SobraNew' = SobraNew /\ SobraReady' = SobraReady
          /\ UNCHANGED <<recurso, hilo_io, hilo_recurso>>
          /\ \A i \in Interfaces : SobraIO(i)' \in {SobraIO(i), SobraIO(i) + 1}
      BY <1>2, SacarIOAvisos
    <2>2. ASSUME NEW i \in Interfaces, hilo_io'[i].pc # "cerrada" PROVE SobraIO(i)' >= 0
      <3>1. SobraIO(i) >= 0
        BY <2>1, <2>2 DEF AvInv, Cubierto
      <3>2. QED
        BY <1>0, <2>1, <3>1
    <2>3. EsperaCubierta' /\ \A r \in Recursos : SobraRecurso(r)' = SobraRecurso(r)
      BY <2>1 DEF AvInv, EsperaCubierta, SobraRecurso
    <2>4. QED
      BY <2>1, <2>2, <2>3 DEF AvInv, Cubierto
  <1>3. CASE SacarDeRecurso
    <2>1. /\ SobraNew' = SobraNew /\ SobraReady' = SobraReady
          /\ UNCHANGED <<conexion, hilo_io, hilo_recurso>>
          /\ \A r \in Recursos : \/ recurso'[r] = recurso[r]
                                 \/ SobraRecurso(r)' = SobraRecurso(r) + 1
      BY <1>3, SacarRecursoAvisos
    <2>2. ASSUME NEW r \in Recursos
          PROVE  /\ SobraRecurso(r)' >= 0
                 /\ \/ recurso'[r] = recurso[r] /\ SobraRecurso(r)' = SobraRecurso(r)
                    \/ SobraRecurso(r)' >= 1
      <3>1. SobraRecurso(r) >= 0
        BY DEF AvInv, Cubierto
      <3>2. CASE recurso'[r] = recurso[r]
        BY <2>1, <3>1, <3>2 DEF SobraRecurso
      <3>3. CASE SobraRecurso(r)' = SobraRecurso(r) + 1
        BY <1>0, <3>1, <3>3
      <3>4. QED
        BY <2>1, <3>2, <3>3
    <2>3. EsperaCubierta'
      BY <2>1, <2>2 DEF AvInv, EsperaCubierta
    <2>4. \A i \in Interfaces : hilo_io'[i].pc # "cerrada" => SobraIO(i)' >= 0
      BY <2>1 DEF AvInv, Cubierto, SobraIO
    <2>5. QED
      BY <2>1, <2>2, <2>3, <2>4 DEF AvInv, Cubierto
  <1>4. QED
    BY <1>1, <1>2, <1>3

LEMMA AvisosNulo ==
  ASSUME AvInv, UNCHANGED vars
  PROVE  AvInv'
  BY DEF AvInv, vars, Cubierto, EsperaCubierta, SobraNew, SobraReady, SobraIO, SobraRecurso

\* A mutex that hangs its thread moves no post and no process.
LEMMA CuelgaReparte ==
  ASSUME IndInv, CortoSeCuelga \/ ConsolaSeCuelga
  PROVE  Reparto /\ (EsperaCubierta => EsperaCubierta')
  <1>1. UNCHANGED <<cola, sem, largo, conexion, recurso, hilo_io, hilo_recurso>>
    BY DEF CortoSeCuelga, ConsolaSeCuelga, menosCorto, menosConsola
  <1>2. CortoAvisado' <=> CortoAvisado
    BY DEF CortoSeCuelga, ConsolaSeCuelga, menosConsola, EnCorto, CortoVa, IndInv, TypeOK,
       TipoCorto
  <1>3. SobraNew' = SobraNew /\ SobraReady' = SobraReady
    BY <1>1, <1>2 DEF SobraNew, SobraReady, Uno
  <1>4. EsperasIguales
    BY <1>1, EsperasAjenas
  <1>5. QED
    BY <1>1, <1>3, <1>4, CubiertaQuieta DEF Reparto

\* A spoilt list only loses processes: their posts stay.
LEMMA PierdeColaAvisos ==
  ASSUME IndInv, PierdeDeCola
  PROVE  /\ SobraNew' \in {SobraNew, SobraNew + 1}
         /\ SobraReady' \in {SobraReady, SobraReady + 1}
         /\ UNCHANGED <<conexion, recurso, hilo_io, hilo_recurso>>
  <1> USE DEF IndInv, TypeOK
  <1>1. UNCHANGED <<largo, corto, sem, conexion, recurso, hilo_io, hilo_recurso>>
    BY DEF PierdeDeCola, hilos
  <1>2. PICK c \in DOMAIN cola : \E k \in DOMAIN cola[c] :
               cola' = [cola EXCEPT ![c] = RemoveAt(@, k)]
    BY DEF PierdeDeCola
  <1>3. PICK k \in DOMAIN cola[c] : cola' = [cola EXCEPT ![c] = RemoveAt(@, k)]
    BY <1>2
  <1>4. cola[c] \in Seq(Procesos)
    BY DEF TipoCola
  <1>5. Encolados(RemoveAt(cola[c], k)) = Encolados(cola[c]) - 1
    BY <1>4, LargoSinUno
  <1>6. /\ Encolados(cola.new) \in Nat /\ Encolados(cola.ready) \in Nat
        /\ Encolados(cola.readyVRR) \in Nat
        /\ sem.nuevo_proceso \in Nat /\ sem.proceso_en_ready \in Nat
    BY LargosCola
  <1>7. /\ cola'[c] = RemoveAt(cola[c], k)
        /\ \A d \in {"new", "ready", "readyVRR"} \ {c} : cola'[d] = cola[d]
    BY <1>3 DEF TipoCola
  <1>8. /\ c = "new" => Encolados(cola'.new) = Encolados(cola.new) - 1
        /\ c # "new" => cola'.new = cola.new
    BY <1>5, <1>7
  <1>9. /\ c = "ready" => Encolados(cola'.ready) = Encolados(cola.ready) - 1
        /\ c # "ready" => cola'.ready = cola.ready
    BY <1>5, <1>7
  <1>10. /\ c = "readyVRR" => Encolados(cola'.readyVRR) = Encolados(cola.readyVRR) - 1
         /\ c # "readyVRR" => cola'.readyVRR = cola.readyVRR
    BY <1>5, <1>7
  <1>11. SobraNew' = SobraNew + (IF c = "new" THEN 1 ELSE 0)
    BY <1>1, <1>6, <1>8 DEF SobraNew, Uno
  <1>12. SobraReady' = SobraReady + (IF c \in {"ready", "readyVRR"} THEN 1 ELSE 0)
    <2>1. CASE c = "ready"
      BY <1>1, <1>6, <1>9, <1>10, <2>1 DEF SobraReady, Uno
    <2>2. CASE c = "readyVRR"
      BY <1>1, <1>6, <1>9, <1>10, <2>2 DEF SobraReady, Uno
    <2>3. CASE c \notin {"ready", "readyVRR"}
      BY <1>1, <1>6, <1>9, <1>10, <2>3 DEF SobraReady, Uno
    <2>4. QED
      BY <2>1, <2>2, <2>3
  <1>13. SobraNew \in Int /\ SobraReady \in Int
    BY SobrasEnteras
  <1>14. QED
    BY <1>1, <1>11, <1>12, <1>13

LEMMA PierdeIOAvisos ==
  ASSUME IndInv, PierdeDeIO
  PROVE  /\ SobraNew' = SobraNew /\ SobraReady' = SobraReady
         /\ UNCHANGED <<recurso, hilo_io, hilo_recurso>>
         /\ \A i \in Interfaces : SobraIO(i)' \in {SobraIO(i), SobraIO(i) + 1}
  <1> USE DEF IndInv, TypeOK
  <1>1. UNCHANGED <<largo, corto, cola, sem, recurso, hilo_io, hilo_recurso>>
    BY DEF PierdeDeIO, hilos
  <1>2. SobraNew' = SobraNew /\ SobraReady' = SobraReady
    BY <1>1 DEF SobraNew, SobraReady
  <1>3. PICK i \in Interfaces : \E k \in DOMAIN conexion[i].cola_espera :
               conexion' = [conexion EXCEPT ![i].cola_espera = RemoveAt(@, k)]
    BY DEF PierdeDeIO
  <1>4. PICK k \in DOMAIN conexion[i].cola_espera :
               conexion' = [conexion EXCEPT ![i].cola_espera = RemoveAt(@, k)]
    BY <1>3
  <1>5. /\ conexion'[i].cola_espera = RemoveAt(conexion[i].cola_espera, k)
        /\ conexion'[i].sem_cliente = conexion[i].sem_cliente
        /\ conexion[i].cola_espera \in Seq(Procesos) /\ conexion[i].sem_cliente \in Nat
        /\ \A j \in Interfaces \ {i} : conexion'[j] = conexion[j]
    BY <1>4 DEF TipoConexion, UnaConexion
  <1>6. /\ Encolados(conexion'[i].cola_espera) = Encolados(conexion[i].cola_espera) - 1
        /\ Encolados(conexion[i].cola_espera) \in Nat
    BY <1>5, LargoSinUno, Largos
  <1>7. SobraIO(i)' = SobraIO(i) + 1
    <2>1. CASE hilo_io[i].pc \in {"peek", "respuesta", "puerta", "pop_espera"}
      BY <1>1, <1>5, <1>6, <2>1 DEF SobraIO, Uno
    <2>2. CASE hilo_io[i].pc \notin {"peek", "respuesta", "puerta", "pop_espera"}
      BY <1>1, <1>5, <1>6, <2>2 DEF SobraIO, Uno
    <2>3. QED
      BY <2>1, <2>2
  <1>8. \A j \in Interfaces \ {i} : SobraIO(j)' = SobraIO(j)
    BY <1>1, <1>5 DEF SobraIO
  <1>9. QED
    BY <1>1, <1>2, <1>7, <1>8

LEMMA PierdeRecursoAvisos ==
  ASSUME IndInv, PierdeDeRecurso
  PROVE  /\ SobraNew' = SobraNew /\ SobraReady' = SobraReady
         /\ UNCHANGED <<conexion, hilo_io, hilo_recurso>>
         /\ \A r \in Recursos :
              \/ recurso'[r] = recurso[r]
              \/ SobraRecurso(r)' = SobraRecurso(r) + 1
  <1> USE DEF IndInv, TypeOK
  <1>1. UNCHANGED <<largo, corto, cola, sem, conexion, hilo_io, hilo_recurso>>
    BY DEF PierdeDeRecurso, hilos
  <1>2. SobraNew' = SobraNew /\ SobraReady' = SobraReady
    BY <1>1 DEF SobraNew, SobraReady
  <1>3. PICK r \in Recursos : \E k \in DOMAIN recurso[r].procesos_en_espera :
               recurso' = [recurso EXCEPT ![r].procesos_en_espera = RemoveAt(@, k)]
    BY DEF PierdeDeRecurso
  <1>4. PICK k \in DOMAIN recurso[r].procesos_en_espera :
               recurso' = [recurso EXCEPT ![r].procesos_en_espera = RemoveAt(@, k)]
    BY <1>3
  <1>5. /\ recurso'[r].procesos_en_espera = RemoveAt(recurso[r].procesos_en_espera, k)
        /\ recurso'[r].procesos_en_cola = recurso[r].procesos_en_cola
        /\ recurso[r].procesos_en_espera \in Seq(Procesos)
        /\ recurso[r].procesos_en_cola \in Nat
        /\ \A s \in Recursos \ {r} : recurso'[s] = recurso[s]
    BY <1>4 DEF TipoRecurso, UnRecurso
  <1>6. /\ Encolados(recurso'[r].procesos_en_espera)
             = Encolados(recurso[r].procesos_en_espera) - 1
        /\ Encolados(recurso[r].procesos_en_espera) \in Nat
    BY <1>5, LargoSinUno, Largos
  <1>7. SobraRecurso(r)' = SobraRecurso(r) + 1
    <2>1. CASE hilo_recurso[r].pc \in {"puerta", "peek", "wait_instancia", "pop_espera"}
      BY <1>1, <1>5, <1>6, <2>1 DEF SobraRecurso, Uno
    <2>2. CASE hilo_recurso[r].pc \notin {"puerta", "peek", "wait_instancia", "pop_espera"}
      BY <1>1, <1>5, <1>6, <2>2 DEF SobraRecurso, Uno
    <2>3. QED
      BY <2>1, <2>2
  <1>8. QED
    BY <1>1, <1>2, <1>5, <1>7

\* What a race does to the posts.
LEMMA AvisosCarreras ==
  ASSUME IndInv, AvInv, Carreras
  PROVE  AvInv'
  <1>0. /\ SobraNew \in Int /\ SobraReady \in Int
        /\ \A i \in Interfaces : SobraIO(i) \in Int
        /\ \A r \in Recursos : SobraRecurso(r) \in Int
    BY SobrasEnteras DEF IndInv
  <1>1. CASE Choque \/ MuerePorCarrera \/ LecturaRota
    BY <1>1 DEF Choque, MuerePorCarrera, LecturaRota, hilos, AvInv, Cubierto,
       EsperaCubierta, SobraNew, SobraReady, SobraIO, SobraRecurso
  <1>2. CASE PierdeDeCola
    <2>1. /\ UNCHANGED <<conexion, recurso, hilo_io, hilo_recurso>>
          /\ SobraNew' \in {SobraNew, SobraNew + 1}
          /\ SobraReady' \in {SobraReady, SobraReady + 1}
      BY <1>2, PierdeColaAvisos
    <2>2. SobraNew' >= 0 /\ SobraReady' >= 0
      BY <1>0, <2>1 DEF AvInv, Cubierto
    <2>3. QED
      BY <2>1, <2>2 DEF AvInv, Cubierto, EsperaCubierta, SobraIO, SobraRecurso
  <1>3. CASE PierdeDeIO
    <2>1. /\ SobraNew' = SobraNew /\ SobraReady' = SobraReady
          /\ UNCHANGED <<recurso, hilo_io, hilo_recurso>>
          /\ \A i \in Interfaces : SobraIO(i)' \in {SobraIO(i), SobraIO(i) + 1}
      BY <1>3, PierdeIOAvisos
    <2>2. ASSUME NEW i \in Interfaces, hilo_io'[i].pc # "cerrada" PROVE SobraIO(i)' >= 0
      <3>1. SobraIO(i) >= 0
        BY <2>1, <2>2 DEF AvInv, Cubierto
      <3>2. QED
        BY <1>0, <2>1, <3>1
    <2>3. EsperaCubierta' /\ \A r \in Recursos : SobraRecurso(r)' = SobraRecurso(r)
      BY <2>1 DEF AvInv, EsperaCubierta, SobraRecurso
    <2>4. QED
      BY <2>1, <2>2, <2>3 DEF AvInv, Cubierto
  <1>4. CASE PierdeDeRecurso
    <2>1. /\ SobraNew' = SobraNew /\ SobraReady' = SobraReady
          /\ UNCHANGED <<conexion, hilo_io, hilo_recurso>>
          /\ \A r \in Recursos : \/ recurso'[r] = recurso[r]
                                 \/ SobraRecurso(r)' = SobraRecurso(r) + 1
      BY <1>4, PierdeRecursoAvisos
    <2>2. ASSUME NEW r \in Recursos
          PROVE  /\ SobraRecurso(r)' >= 0
                 /\ \/ recurso'[r] = recurso[r] /\ SobraRecurso(r)' = SobraRecurso(r)
                    \/ SobraRecurso(r)' >= 1
      <3>1. SobraRecurso(r) >= 0
        BY DEF AvInv, Cubierto
      <3>2. CASE recurso'[r] = recurso[r]
        BY <2>1, <3>1, <3>2 DEF SobraRecurso
      <3>3. CASE SobraRecurso(r)' = SobraRecurso(r) + 1
        BY <1>0, <3>1, <3>3
      <3>4. QED
        BY <2>1, <3>2, <3>3
    <2>3. EsperaCubierta'
      BY <2>1, <2>2 DEF AvInv, EsperaCubierta
    <2>4. \A i \in Interfaces : hilo_io'[i].pc # "cerrada" => SobraIO(i)' >= 0
      BY <2>1 DEF AvInv, Cubierto, SobraIO
    <2>5. QED
      BY <2>1, <2>2, <2>3, <2>4 DEF AvInv, Cubierto
  <1>5. CASE PierdePID
    <2>1. /\ UNCHANGED <<cola, sem, largo, corto, conexion, hilo_io, hilo_recurso>>
          /\ \E r \in Recursos, p \in Procesos : recurso' = [recurso EXCEPT ![r].PIDs[p] = @ - 1]
      BY <1>5 DEF PierdePID, hilos
    <2>2. \A r \in Recursos :
            /\ recurso'[r].procesos_en_espera = recurso[r].procesos_en_espera
            /\ recurso'[r].procesos_en_cola = recurso[r].procesos_en_cola
      BY <2>1 DEF IndInv, TypeOK, TipoRecurso, UnRecurso
    <2>3. Reparto
      BY <2>1, <2>2 DEF Reparto, EsperasIguales, SobraNew, SobraReady, SobraIO, SobraRecurso
    <2>4. QED
      BY <2>1, <2>2, <2>3, CubiertoSeReparte, CubiertaQuieta DEF AvInv, Reparto
  <1>6. CASE CortoSeCuelga \/ ConsolaSeCuelga
    BY <1>6, CuelgaReparte, CubiertoSeReparte DEF AvInv
  <1>7. QED
    BY <1>1, <1>2, <1>3, <1>4, <1>5, <1>6 DEF Carreras

LEMMA AvisosPaso ==
  ASSUME IndInv, IndInv', AvInv, [Next]_vars
  PROVE  AvInv'
  <1>1. CASE Largo
    BY <1>1, RepartoLargo, CubiertoSeReparte, CubiertaLargo DEF AvInv
  <1>2. CASE Corto
    <2>1. Reparto
      BY <1>2, RepartoCortoColas, RepartoCortoEsperas DEF Corto
    <2>2. QED
      BY <1>2, <2>1, CubiertoSeReparte, CubiertaCorto DEF AvInv
  <1>3. CASE Consola
    BY <1>3, RepartoConsola, AvisosSacar, CubiertoSeReparte, CubiertaConsola
       DEF AvInv, Consola, Finalizacion
  <1>4. CASE \E i \in Interfaces : ConectarIO(i) \/ HiloIO(i)
    BY <1>4, AvisosIO
  <1>5. CASE \E r \in Recursos : HiloRecurso(r)
    BY <1>5, AvisosRecurso
  <1>6. QED
    BY <1>1, <1>2, <1>3, <1>4, <1>5, AvisosCarreras, AvisosNulo DEF Next

LEMMA AvisosInicial == Init => AvInv /\ SobraNew = 0 /\ SobraReady = 0
  <1> SUFFICES ASSUME Init PROVE AvInv /\ SobraNew = 0 /\ SobraReady = 0
    OBVIOUS
  <1>1. Encolados(<<>>) = 0
    BY EmptySeq DEF Encolados
  <1>2. SobraNew = 0 /\ SobraReady = 0
    BY <1>1 DEF Init, SobraNew, SobraReady, Uno
  <1>3. \A i \in Interfaces : SobraIO(i) = 0
    BY <1>1 DEF Init, SobraIO, Uno
  <1>4. \A r \in Recursos : SobraRecurso(r) = 0
    BY <1>1 DEF Init, SobraRecurso, Uno
  <1>5. EsperaCubierta
    BY DEF Init, EsperaCubierta
  <1>6. QED
    BY <1>2, <1>3, <1>4, <1>5 DEF AvInv, Cubierto

\* The excess of posts over processes is never negative.
THEOREM AvisosInvariante == Spec => []AvInv
  <1>1. IndInv /\ IndInv' /\ AvInv /\ [Next]_vars => AvInv'
    BY AvisosPaso
  <1>2. QED
    BY <1>1, Invariante, AvisosInicial, PTL DEF Spec

LEMMA CubiertoBasta ==
  ASSUME TypeOK, Cubierto
  PROVE  AvisosSuficientes
  <1>1. /\ Len(cola.new) = Encolados(cola.new) /\ Len(cola.ready) = Encolados(cola.ready)
        /\ Len(cola.readyVRR) = Encolados(cola.readyVRR)
    BY DEF Encolados
  <1>2. /\ Encolados(cola.new) \in Nat /\ Encolados(cola.ready) \in Nat
        /\ Encolados(cola.readyVRR) \in Nat
        /\ sem.nuevo_proceso \in Nat /\ sem.proceso_en_ready \in Nat
    BY LargosCola DEF TypeOK
  <1>3. Encolados(cola.new) <= sem.nuevo_proceso + Uno(largo.pc \in {"puerta", "pop_new"})
    BY <1>2 DEF Cubierto, SobraNew, Uno
  <1>4. Encolados(cola.ready) + Encolados(cola.readyVRR)
          <= sem.proceso_en_ready + Uno(CortoAvisado)
    BY <1>2 DEF Cubierto, SobraReady, Uno
  <1>5. ASSUME NEW i \in Interfaces, hilo_io[i].pc # "cerrada"
        PROVE  Encolados(conexion[i].cola_espera) <= conexion[i].sem_cliente
                 + Uno(hilo_io[i].pc \in {"peek", "respuesta", "puerta", "pop_espera"})
    <2>1. /\ Encolados(conexion[i].cola_espera) \in Nat /\ conexion[i].sem_cliente \in Nat
      BY Largos DEF TypeOK, TipoConexion, UnaConexion
    <2>2. QED
      BY <1>5, <2>1 DEF Cubierto, SobraIO, Uno
  <1>6. ASSUME NEW r \in Recursos
        PROVE  Encolados(recurso[r].procesos_en_espera) <= recurso[r].procesos_en_cola
                 + Uno(hilo_recurso[r].pc \in {"puerta", "peek", "wait_instancia", "pop_espera"})
    <2>1. /\ Encolados(recurso[r].procesos_en_espera) \in Nat
          /\ recurso[r].procesos_en_cola \in Nat
      BY Largos DEF TypeOK, TipoRecurso, UnRecurso
    <2>2. QED
      BY <2>1 DEF Cubierto, SobraRecurso, Uno
  <1>7. QED
    BY <1>3, <1>4, <1>5, <1>6 DEF AvisosSuficientes, Encolados

\* Whatever the operator, the programs and the interfaces do, every queue is
\* covered by the posts of its semaphore: nobody waits unannounced.
THEOREM NadieSinAviso == Spec => []AvisosSuficientes
  BY AvisosInvariante, Tipos, CubiertoBasta, PTL DEF AvInv

-----------------------------------------------------------------------------
(***************************************************************************)
(* Without FINALIZAR_PROCESO no post is left over, so nobody finds an      *)
(* empty queue after its semaphore.                                        *)
(***************************************************************************)
Ajustado ==
  /\ SobraNew = 0
  /\ SobraReady = 0
  /\ \A i \in Interfaces : hilo_io[i].pc # "cerrada" => SobraIO(i) = 0
  /\ \A r \in Recursos : SobraRecurso(r) = 0

SinFinalizacion == consola.pc \in {"leer", "bloqueada"}

\* What holds while nobody is finalised; the ledgers, until a list is spoilt.
JustoInv == AvInv /\ SinFinalizacion /\ (SinCarreras => Ajustado)

\* A ledger that is even stays even, and is covered.
LEMMA AjustadoSeReparte ==
  ASSUME Ajustado, Reparto
  PROVE  Ajustado'
  BY DEF Ajustado, Reparto, EsperasIguales

\* A list that was spoilt stays so, and a race that spoils none only hangs a
\* thread.
LEMMA SanaAntes ==
  ASSUME [Next]_vars, SinCarreras'
  PROVE  SinCarreras /\ (Carreras => CortoSeCuelga \/ ConsolaSeCuelga)
  <1> USE DEF SinCarreras
  <1>1. CASE UNCHANGED vars \/ (Next /\ ~Carreras)
    BY <1>1, CarrerasQuietas DEF vars, Carreras, Choque, LecturaRota, PierdeDeCola,
       PierdeDeIO, PierdeDeRecurso, PierdePID, MuerePorCarrera, hilos
  <1>2. CASE Carreras
    <2>1. ~Choque /\ ~LecturaRota
      BY DEF Choque, LecturaRota
    <2>2. ~MuerePorCarrera /\ ~PierdeDeCola /\ ~PierdeDeIO /\ ~PierdeDeRecurso /\ ~PierdePID
      BY DEF MuerePorCarrera, PierdeDeCola, PierdeDeIO, PierdeDeRecurso, PierdePID, hilos
    <2>3. CortoSeCuelga \/ ConsolaSeCuelga
      BY <1>2, <2>1, <2>2 DEF Carreras
    <2>4. QED
      BY <2>3 DEF CortoSeCuelga, ConsolaSeCuelga, menosCorto, menosConsola
  <1>3. QED
    BY <1>1, <1>2

\* The console never starts a FINALIZAR_PROCESO.
LEMMA SigueSinFinalizar ==
  ASSUME "FINALIZAR_PROCESO" \notin Eventos, IndInv, SinFinalizacion, [Next]_vars
  PROVE  SinFinalizacion'
  <1> USE DEF SinFinalizacion
  <1>1. CASE UNCHANGED consola
    BY <1>1
  <1>2. CASE Largo
    BY <1>2 DEF Largo, LargoEsperaGrado, LargoEsperaNuevo, LargoPasaPuerta, LargoSacaDeNew,
       LargoAdmite, menosLargo
  <1>3. CASE Corto
    BY <1>3 DEF Corto, CortoEsperaListo, CortoEsperaCpu, CortoPasaPuerta, CortoSacaDeReady,
       CortoDespacha, CortoRecibe, CortoPasaPuertaRespuesta, CortoAtiendeFin,
       CortoAtiendeQuantum, CortoAtiendeIO, CortoAtiendeSolicita, CortoAtiendeLibera,
       CortoTomaRecurso, CortoDevuelveAReady, CortoEncolaEnIO, CortoEncolaEnRecurso,
       CortoFinaliza, CortoLiberaRecursos, CortoLiberaGrado, CortoReduceGrado,
       CortoLiberaCpu, CortoElige, CortoSacaDePrioridad, CortoSacaDe, CortoValidaIO, menosCorto
  <1>4. CASE Consola
    BY <1>4 DEF Consola, Finalizacion, EnConsola, IniciarProceso, DetenerPlanificacion,
       DetenerEnPausa, ReanudarPlanificacion, Multiprogramacion, FinalizarProceso,
       BuscarProceso, Busqueda, InterrumpirProceso, EnviarInterrupcion, SacarDeCola,
       SacarDeIO,
       SacarDeRecurso, ConsolaFinaliza, ConsolaLiberaGrado, ConsolaReduceGrado,
       ConsolaLiberaRecursos, ConsolaReanuda, ConsolaVa, hilos, IndInv, TypeOK, TipoConsola
  <1>5. CASE \E i \in Interfaces : ConectarIO(i) \/ HiloIO(i)
    BY <1>5 DEF ConectarIO, HiloIO, IOEsperaCliente, IOEnviaInstruccion, IORecibeFin,
       IOSeDesconecta, IOPasaPuerta, IOSacaDeEspera, IODesbloquea, menosIO
  <1>6. CASE \E r \in Recursos : HiloRecurso(r)
    BY <1>6 DEF HiloRecurso, RecursoEsperaCola, RecursoPasaPuerta, RecursoMiraEspera,
       RecursoTomaInstancia, RecursoSacaDeEspera, RecursoDesbloquea, menosRecurso
  <1>7. CASE Carreras
    BY <1>7 DEF Carreras, Choque, LecturaRota, PierdeDeCola, PierdeDeIO, PierdeDeRecurso,
       PierdePID, MuerePorCarrera, CortoSeCuelga, ConsolaSeCuelga, ConsolaVa, hilos,
       menosCorto, IndInv, TypeOK, TipoConsola
  <1>8. QED
    BY <1>1, <1>2, <1>3, <1>4, <1>5, <1>6, <1>7 DEF Next, vars

\* What is left of the console without FINALIZAR_PROCESO.
LEMMA ConsolaSinFinalizar ==
  ASSUME "FINALIZAR_PROCESO" \notin Eventos, SinFinalizacion, Consola
  PROVE  \/ IniciarProceso \/ DetenerPlanificacion \/ DetenerEnPausa
         \/ ReanudarPlanificacion \/ Multiprogramacion
  BY DEF SinFinalizacion, Consola, Finalizacion, EnConsola, FinalizarProceso, BuscarProceso,
     Busqueda, InterrumpirProceso, EnviarInterrupcion, SacarDeCola, SacarDeIO,
     SacarDeRecurso,
     ConsolaFinaliza, ConsolaLiberaGrado, ConsolaReduceGrado, ConsolaLiberaRecursos,
     ConsolaReanuda

\* The thread of an interface that pops has a process to pop.
LEMMA ColaConProceso ==
  ASSUME IndInv, Ajustado, NEW i \in Interfaces,
         hilo_io[i].pc \in {"peek", "respuesta", "puerta", "pop_espera"}
  PROVE  conexion[i].cola_espera # <<>>
  <1>1. SobraIO(i) = 0
    BY DEF Ajustado
  <1>2. conexion[i].cola_espera \in Seq(Procesos) /\ conexion[i].sem_cliente \in Nat
    BY DEF IndInv, TypeOK, TipoConexion, UnaConexion
  <1>3. Encolados(conexion[i].cola_espera) \in Nat
    BY <1>2, Largos
  <1>4. Encolados(conexion[i].cola_espera) # 0
    BY <1>1, <1>2, <1>3 DEF SobraIO, Uno
  <1>5. QED
    BY <1>2, <1>4, Largos

\* So has the thread of a resource.
LEMMA EsperaConProceso ==
  ASSUME IndInv, Ajustado, NEW r \in Recursos,
         hilo_recurso[r].pc \in {"puerta", "peek", "wait_instancia", "pop_espera"}
  PROVE  recurso[r].procesos_en_espera # <<>>
  <1>1. SobraRecurso(r) = 0
    BY DEF Ajustado
  <1>2. recurso[r].procesos_en_espera \in Seq(Procesos) /\ recurso[r].procesos_en_cola \in Nat
    BY DEF IndInv, TypeOK, TipoRecurso, UnRecurso
  <1>3. Encolados(recurso[r].procesos_en_espera) \in Nat
    BY <1>2, Largos
  <1>4. Encolados(recurso[r].procesos_en_espera) # 0
    BY <1>1, <1>2, <1>3 DEF SobraRecurso, Uno
  <1>5. QED
    BY <1>2, <1>4, Largos

\* Nobody takes a waiting process away from the thread of the resource.
LEMMA SigueEnEspera ==
  ASSUME JustoInv, SinCarreras, NEW r \in Recursos, RecursoTomaInstancia(r),
         IndInv
  PROVE  hilo_recurso'[r].pc = "pop_espera"
  <1>1. hilo_recurso[r].pc = "wait_instancia"
    BY DEF RecursoTomaInstancia, EnRecurso
  <1>2. SobraRecurso(r) = 0
    BY DEF JustoInv, Ajustado
  <1>3. Contains(recurso[r].procesos_en_espera, hilo_recurso[r].pcb)
    BY <1>1, <1>2 DEF JustoInv, AvInv, EsperaCubierta
  <1>4. QED
    BY <1>3 DEF RecursoTomaInstancia, RecursoVa, IndInv, TypeOK, TipoHiloRecurso

\* Every step keeps the ledgers even.
LEMMA JustoPaso ==
  ASSUME "FINALIZAR_PROCESO" \notin Eventos, IndInv, IndInv', JustoInv, [Next]_vars
  PROVE  JustoInv'
  <1>1. SinFinalizacion' /\ AvInv'
    BY SigueSinFinalizar, AvisosPaso DEF JustoInv
  <1>2. SUFFICES ASSUME SinCarreras' PROVE Ajustado'
    BY <1>1 DEF JustoInv
  <1>a. SinCarreras /\ (Carreras => CortoSeCuelga \/ ConsolaSeCuelga)
    BY <1>2, SanaAntes
  <1>b. Ajustado /\ SinFinalizacion
    BY <1>a DEF JustoInv
  <1>3. CASE Largo
    BY <1>3, <1>b, RepartoLargo, AjustadoSeReparte
  <1>4. CASE Corto
    BY <1>4, <1>b, RepartoCortoColas, RepartoCortoEsperas, AjustadoSeReparte DEF Corto
  <1>5. CASE Consola
    BY <1>5, <1>b, ConsolaSinFinalizar, RepartoConsola, AjustadoSeReparte
  <1>6. CASE \E i \in Interfaces : ConectarIO(i) \/ HiloIO(i)
    <2>1. PICK i \in Interfaces : ConectarIO(i) \/ HiloIO(i)
      BY <1>6
    <2>2. ~(IOSacaDeEspera(i) /\ conexion[i].cola_espera = <<>>)
      BY <1>b, ColaConProceso DEF IOSacaDeEspera, EnIO
    <2>3. QED
      BY <1>b, <2>1, <2>2, RepartoIO, AjustadoSeReparte
  <1>7. CASE \E r \in Recursos : HiloRecurso(r)
    <2>1. PICK r \in Recursos : HiloRecurso(r)
      BY <1>7
    <2>2. ~(RecursoTomaInstancia(r) /\ hilo_recurso'[r].pc = "en_cola")
      BY <1>a, SigueEnEspera
    <2>3. QED
      BY <1>b, <2>1, <2>2, RepartoRecurso, AjustadoSeReparte
  <1>8. CASE UNCHANGED vars
    BY <1>b, <1>8 DEF vars, Ajustado, SobraNew, SobraReady, SobraIO, SobraRecurso
  <1>9. CASE Carreras
    BY <1>a, <1>b, <1>9, CuelgaReparte, AjustadoSeReparte
  <1>10. QED
    BY <1>3, <1>4, <1>5, <1>6, <1>7, <1>8, <1>9 DEF Next

\* There is nothing to announce at the start.
LEMMA JustoInicial ==
  ASSUME Init
  PROVE  JustoInv
  <1>1. Encolados(<<>>) = 0
    BY EmptySeq DEF Encolados
  <1>2. \A i \in Interfaces : SobraIO(i) = 0
    BY <1>1 DEF Init, SobraIO, Uno
  <1>3. \A r \in Recursos : SobraRecurso(r) = 0
    BY <1>1 DEF Init, SobraRecurso, Uno
  <1>4. SinFinalizacion
    BY DEF Init, SinFinalizacion
  <1>5. QED
    BY <1>2, <1>3, <1>4, AvisosInicial DEF JustoInv, Ajustado

\* Without FINALIZAR_PROCESO, and until a list is spoilt, every post is for a
\* process.
THEOREM JustoInvariante ==
  ASSUME "FINALIZAR_PROCESO" \notin Eventos
  PROVE  Spec => []JustoInv
  <1>1. IndInv /\ IndInv' /\ JustoInv /\ [Next]_vars => JustoInv'
    BY JustoPaso
  <1>2. Init => JustoInv
    BY JustoInicial
  <1>3. QED
    BY <1>1, <1>2, Invariante, PTL DEF Spec

\* Even ledgers are the equalities of AvisosJustos.
LEMMA AjustadoBasta ==
  ASSUME TypeOK, SinCarreras => Ajustado
  PROVE  AvisosJustos
  <1> SUFFICES ASSUME Ajustado PROVE AvisosJustos
    BY DEF AvisosJustos
  <1>1. /\ Encolados(cola.new) \in Nat /\ Encolados(cola.ready) \in Nat
        /\ Encolados(cola.readyVRR) \in Nat
        /\ sem.nuevo_proceso \in Nat /\ sem.proceso_en_ready \in Nat
    BY LargosCola DEF TypeOK
  <1>2. Encolados(cola.new) = sem.nuevo_proceso + Uno(largo.pc \in {"puerta", "pop_new"})
    BY <1>1 DEF Ajustado, SobraNew, Uno
  <1>3. Encolados(cola.ready) + Encolados(cola.readyVRR)
          = sem.proceso_en_ready + Uno(CortoAvisado)
    BY <1>1 DEF Ajustado, SobraReady, Uno
  <1>4. ASSUME NEW i \in Interfaces, hilo_io[i].pc # "cerrada"
        PROVE  Encolados(conexion[i].cola_espera) = conexion[i].sem_cliente
                 + Uno(hilo_io[i].pc \in {"peek", "respuesta", "puerta", "pop_espera"})
    <2>1. /\ Encolados(conexion[i].cola_espera) \in Nat /\ conexion[i].sem_cliente \in Nat
      BY Largos DEF TypeOK, TipoConexion, UnaConexion
    <2>2. QED
      BY <1>4, <2>1 DEF Ajustado, SobraIO, Uno
  <1>5. ASSUME NEW r \in Recursos
        PROVE  Encolados(recurso[r].procesos_en_espera) = recurso[r].procesos_en_cola
                 + Uno(hilo_recurso[r].pc \in {"puerta", "peek", "wait_instancia", "pop_espera"})
    <2>1. /\ Encolados(recurso[r].procesos_en_espera) \in Nat
          /\ recurso[r].procesos_en_cola \in Nat
      BY Largos DEF TypeOK, TipoRecurso, UnRecurso
    <2>2. QED
      BY <2>1 DEF Ajustado, SobraRecurso, Uno
  <1>6. QED
    BY <1>2, <1>3, <1>4, <1>5 DEF AvisosJustos, Encolados

\* Without FINALIZAR_PROCESO, and until two threads meet in a list with no lock
\* in common, each queue has as many processes as posts its consumer has not yet
\* used up.
THEOREM AvisosExactos ==
  ASSUME "FINALIZAR_PROCESO" \notin Eventos
  PROVE  Spec => []AvisosJustos
  BY JustoInvariante, Tipos, AjustadoBasta, PTL DEF JustoInv

-----------------------------------------------------------------------------
(***************************************************************************)
(* The NULLs that the kernel dereferences.                                 *)
(***************************************************************************)
\* The priority queue is used only under VRR, so the other algorithms never
\* leave their process in a queue they do not look at; and VRR pops from a queue
\* in which it has seen a process, or, the other being empty, from READY.
SoloVRR ==
  Algoritmo # "VRR" => cola.readyVRR = <<>> /\ corto.pc \notin {"elegir", "pop_vrr"}

Elegida ==
  /\ corto.pc = "pop_ready" => cola.ready # <<>>
  /\ corto.pc = "pop_vrr" => cola.readyVRR # <<>>

CaidaInv == CaeSoloPorDesconexion /\ SoloVRR /\ (SinCarreras => Elegida)

\* A scheduler that pops has a process to pop.
LEMMA NuevoConProceso ==
  ASSUME TypeOK, Ajustado, largo.pc = "pop_new"
  PROVE  cola.new # <<>>
  <1>1. Encolados(cola.new) \in Nat /\ sem.nuevo_proceso \in Nat /\ cola.new \in Seq(Procesos)
    BY LargosCola DEF TypeOK, TipoCola
  <1>2. Encolados(cola.new) # 0
    BY <1>1 DEF Ajustado, SobraNew, Uno
  <1>3. QED
    BY <1>1, <1>2, Largos

LEMMA ListoConProceso ==
  ASSUME TypeOK, Ajustado, CortoAvisado
  PROVE  cola.ready # <<>> \/ cola.readyVRR # <<>>
  <1>1. /\ Encolados(cola.ready) \in Nat /\ Encolados(cola.readyVRR) \in Nat
        /\ sem.proceso_en_ready \in Nat
        /\ cola.ready \in Seq(Procesos) /\ cola.readyVRR \in Seq(Procesos)
    BY LargosCola DEF TypeOK, TipoCola
  <1>2. Encolados(cola.ready) + Encolados(cola.readyVRR) # 0
    BY <1>1 DEF Ajustado, SobraReady, Uno
  <1>3. Encolados(cola.ready) # 0 \/ Encolados(cola.readyVRR) # 0
    BY <1>1, <1>2
  <1>4. QED
    BY <1>1, <1>3, Largos

\* A process that has died does nothing more.
LEMMA CaidoQuieto ==
  ASSUME caido, [Next]_vars
  PROVE  UNCHANGED vars
  <1>1. ~Carreras
    BY DEF Carreras, Choque, LecturaRota, PierdeDeCola, PierdeDeIO, PierdeDeRecurso,
       PierdePID, MuerePorCarrera, CortoSeCuelga, ConsolaSeCuelga, EnCorto, EnConsola
  <1>2. QED
    BY <1>1, CarrerasQuietas

\* Who puts a process in the priority queue, and who looks at it.
LEMMA PrioridadSoloVRR ==
  ASSUME IndInv, Algoritmo # "VRR", SoloVRR,
         "FINALIZAR_PROCESO" \notin Eventos, SinFinalizacion, Next
  PROVE  SoloVRR'
  <1> USE DEF IndInv, TypeOK, TipoCola, SoloVRR
  <1>1. CASE Largo
    BY <1>1 DEF Largo, LargoEsperaGrado, LargoEsperaNuevo, LargoPasaPuerta, LargoSacaDeNew,
       LargoAdmite, push_cola_ready, menosLargo
  <1>2. CASE Corto
    <2>1. cola'.readyVRR = <<>>
      BY <1>2 DEF Corto, CortoEsperaListo, CortoEsperaCpu, CortoPasaPuerta,
         CortoSacaDeReady,
         CortoDespacha, CortoRecibe, CortoPasaPuertaRespuesta, CortoAtiendeFin,
         CortoAtiendeQuantum, CortoAtiendeIO, CortoAtiendeSolicita, CortoAtiendeLibera,
         CortoTomaRecurso, CortoDevuelveAReady, CortoEncolaEnIO, CortoEncolaEnRecurso,
         CortoFinaliza, CortoLiberaRecursos, CortoLiberaGrado, CortoReduceGrado,
         CortoLiberaCpu, CortoElige, CortoSacaDePrioridad, CortoSacaDe, CortoValidaIO,
         EnCorto, push_cola_ready, push_cola_execute, push_cola_exit,
         pop_and_destroy_execute
    <2>2. corto'.pc \notin {"elegir", "pop_vrr"}
      BY <1>2 DEF Corto, CortoEsperaListo, CortoEsperaCpu, CortoPasaPuerta,
         CortoSacaDeReady,
         CortoDespacha, CortoRecibe, CortoPasaPuertaRespuesta, CortoAtiendeFin,
         CortoAtiendeQuantum, CortoAtiendeIO, CortoAtiendeSolicita, CortoAtiendeLibera,
         CortoTomaRecurso, CortoDevuelveAReady, CortoEncolaEnIO, CortoEncolaEnRecurso,
         CortoFinaliza, CortoLiberaRecursos, CortoLiberaGrado, CortoReduceGrado,
         CortoLiberaCpu, CortoElige, CortoSacaDePrioridad, CortoSacaDe, CortoValidaIO,
         EnCorto, CortoVa, TipoCorto
    <2>3. QED
      BY <2>1, <2>2
  <1>3. CASE Consola
    BY <1>3, ConsolaSinFinalizar DEF IniciarProceso, push_cola_new, DetenerPlanificacion,
       DetenerEnPausa, ReanudarPlanificacion, Multiprogramacion, hilos, menosConsola
  <1>4. CASE \E i \in Interfaces : ConectarIO(i) \/ HiloIO(i)
    BY <1>4 DEF ConectarIO, HiloIO, IOEsperaCliente, IOEnviaInstruccion, IORecibeFin,
       IOSeDesconecta, IOPasaPuerta, IOSacaDeEspera, IODesbloquea, push_cola_ready, menosIO
  <1>5. CASE \E r \in Recursos : HiloRecurso(r)
    BY <1>5 DEF HiloRecurso, RecursoEsperaCola, RecursoPasaPuerta, RecursoMiraEspera,
       RecursoTomaInstancia, RecursoSacaDeEspera, RecursoDesbloquea, push_cola_ready,
       menosRecurso
  <1>6. CASE Carreras
    <2>1. CASE PierdeDeCola
      <3>1. PICK c \in DOMAIN cola : \E k \in DOMAIN cola[c] :
              cola' = [cola EXCEPT ![c] = RemoveAt(@, k)]
        BY <2>1 DEF PierdeDeCola
      <3>2. c # "readyVRR"
        BY <3>1, EmptySeq
      <3>3. QED
        BY <2>1, <3>1, <3>2 DEF PierdeDeCola, hilos
    <2>2. CASE ~PierdeDeCola
      BY <1>6, <2>2 DEF Carreras, Choque, LecturaRota, PierdeDeIO, PierdeDeRecurso,
         PierdePID, MuerePorCarrera, CortoSeCuelga, ConsolaSeCuelga, CortoVa, EnCorto,
         hilos, menosCorto, menosConsola
    <2>3. QED
      BY <2>1, <2>2
  <1>7. QED
    BY <1>1, <1>2, <1>3, <1>4, <1>5, <1>6 DEF Next

\* Nobody but the short-term scheduler empties the queue it is about to pop.
LEMMA SigueElegida ==
  ASSUME "FINALIZAR_PROCESO" \notin Eventos, IndInv, JustoInv, SoloVRR, SinCarreras,
         Elegida, Next, Carreras => CortoSeCuelga \/ ConsolaSeCuelga
  PROVE  Elegida'
  <1> USE DEF IndInv, TypeOK, TipoCola, Elegida
  <1>1. \A q \in Seq(Procesos) : \A p \in Procesos : Append(q, p) # <<>>
    BY AppendProperties, EmptySeq
  <1>2. \A p \in Procesos : push_cola_ready(p) =>
          cola'.ready # <<>> /\ cola'.readyVRR = cola.readyVRR
    BY <1>1 DEF push_cola_ready
  <1>3. \A p \in Procesos : push_cola_ready_priority(p) =>
          cola'.readyVRR # <<>> /\ cola'.ready = cola.ready
    BY <1>1 DEF push_cola_ready_priority
  <1>4. CASE UNCHANGED <<cola, corto>>
    BY <1>4
  <1>5. CASE Largo
    <2>1. UNCHANGED corto
      BY <1>5 DEF Largo, LargoEsperaGrado, LargoEsperaNuevo, LargoPasaPuerta,
         LargoSacaDeNew, LargoAdmite, menosLargo
    <2>2. CASE LargoAdmite
      BY <1>2, <2>1, <2>2 DEF LargoAdmite, EnLargo, TipoLargo
    <2>3. CASE ~LargoAdmite
      BY <1>5, <2>1, <2>3 DEF Largo, LargoEsperaGrado, LargoEsperaNuevo, LargoPasaPuerta,
         LargoSacaDeNew
    <2>4. QED
      BY <2>2, <2>3
  <1>6. CASE Corto
    <2>1. CASE CortoPasaPuerta
      <3>1. corto.pc = "puerta" /\ UNCHANGED cola
        BY <2>1 DEF CortoPasaPuerta, EnCorto
      <3>2. CASE Algoritmo = "VRR"
        BY <2>1, <3>2 DEF CortoPasaPuerta, CortoVa, TipoCorto
      <3>3. CASE Algoritmo # "VRR"
        <4>1. corto'.pc = "pop_ready"
          BY <2>1, <3>3 DEF CortoPasaPuerta, CortoVa, TipoCorto
        <4>2. cola.ready # <<>>
          BY <3>1, <3>3, ListoConProceso DEF JustoInv, SoloVRR
        <4>3. QED
          BY <3>1, <4>1, <4>2
      <3>4. QED
        BY <3>2, <3>3
    <2>2. CASE CortoElige
      <3>1. corto.pc = "elegir" /\ UNCHANGED cola
        BY <2>2 DEF CortoElige, EnCorto
      <3>2. cola.ready # <<>> \/ cola.readyVRR # <<>>
        BY <3>1, ListoConProceso DEF JustoInv
      <3>3. QED
        BY <2>2, <3>1, <3>2 DEF CortoElige, CortoVa, TipoCorto
    <2>3. CASE CortoSacaDeReady \/ CortoSacaDePrioridad
      <3>1. UNCHANGED <<cola, corto>> \/ corto'.pc = "despachar"
        BY <2>3 DEF CortoSacaDeReady, CortoSacaDePrioridad, CortoSacaDe, TipoCorto
      <3>2. QED
        BY <3>1
    <2>4. CASE ~(CortoPasaPuerta \/ CortoElige \/ CortoSacaDeReady \/ CortoSacaDePrioridad)
      <3>1. UNCHANGED <<cola, corto>> \/ corto'.pc \notin {"pop_ready", "pop_vrr"}
        BY <1>6, <2>4 DEF Corto, CortoEsperaListo, CortoEsperaCpu, CortoDespacha,
           CortoRecibe, CortoPasaPuertaRespuesta, CortoAtiendeFin, CortoAtiendeQuantum,
           CortoAtiendeIO, CortoAtiendeSolicita, CortoAtiendeLibera, CortoTomaRecurso,
           CortoDevuelveAReady, CortoEncolaEnIO, CortoEncolaEnRecurso, CortoFinaliza,
           CortoLiberaRecursos, CortoLiberaGrado, CortoReduceGrado, CortoLiberaCpu,
           CortoValidaIO, EnCorto, CortoVa, TipoCorto
      <3>2. QED
        BY <3>1
    <2>5. QED
      BY <2>1, <2>2, <2>3, <2>4
  <1>7. CASE Consola
    BY <1>7, ConsolaSinFinalizar DEF JustoInv, IniciarProceso, push_cola_new,
       DetenerPlanificacion, DetenerEnPausa, ReanudarPlanificacion, Multiprogramacion,
       hilos, menosConsola
  <1>8. CASE \E i \in Interfaces : ConectarIO(i) \/ HiloIO(i)
    <2>1. PICK i \in Interfaces : ConectarIO(i) \/ HiloIO(i)
      BY <1>8
    <2>2. UNCHANGED corto
      BY <2>1 DEF ConectarIO, HiloIO, IOEsperaCliente, IOEnviaInstruccion, IORecibeFin,
         IOSeDesconecta, IOPasaPuerta, IOSacaDeEspera, IODesbloquea, menosIO
    <2>3. CASE IODesbloquea(i)
      BY <1>2, <1>3, <2>2, <2>3 DEF IODesbloquea, EnIO, TipoHiloIO
    <2>4. CASE ~IODesbloquea(i)
      BY <2>1, <2>2, <2>4 DEF ConectarIO, HiloIO, IOEsperaCliente, IOEnviaInstruccion,
         IORecibeFin, IOSeDesconecta, IOPasaPuerta, IOSacaDeEspera
    <2>5. QED
      BY <2>3, <2>4
  <1>9. CASE \E r \in Recursos : HiloRecurso(r)
    <2>1. PICK r \in Recursos : HiloRecurso(r)
      BY <1>9
    <2>2. UNCHANGED corto
      BY <2>1 DEF HiloRecurso, RecursoEsperaCola, RecursoPasaPuerta, RecursoMiraEspera,
         RecursoTomaInstancia, RecursoSacaDeEspera, RecursoDesbloquea, menosRecurso
    <2>3. CASE RecursoDesbloquea(r)
      BY <1>2, <2>2, <2>3 DEF RecursoDesbloquea, EnRecurso, TipoHiloRecurso
    <2>4. CASE ~RecursoDesbloquea(r)
      BY <2>1, <2>2, <2>4 DEF HiloRecurso, RecursoEsperaCola, RecursoPasaPuerta,
         RecursoMiraEspera, RecursoTomaInstancia, RecursoSacaDeEspera
    <2>5. QED
      BY <2>3, <2>4
  <1>10. CASE CortoSeCuelga \/ ConsolaSeCuelga
    BY <1>10 DEF CortoSeCuelga, ConsolaSeCuelga, CortoVa, TipoCorto, menosConsola
  <1>11. QED
    BY <1>5, <1>6, <1>7, <1>8, <1>9, <1>10 DEF Next

\* The only steps that kill the kernel while no list is spoilt.
LEMMA QuienCae ==
  ASSUME "FINALIZAR_PROCESO" \notin Eventos, IndInv, JustoInv, SinCarreras, Elegida, Next,
         Carreras => CortoSeCuelga \/ ConsolaSeCuelga, ~caido, caido'
  PROVE  CortoEncolaEnIO \/ CortoValidaIO
  <1> USE DEF JustoInv
  <1>1. CASE Largo
    <2>1. LargoSacaDeNew /\ largo.pc = "pop_new" /\ cola.new = <<>>
      BY <1>1 DEF Largo, LargoEsperaGrado, LargoEsperaNuevo, LargoPasaPuerta,
         LargoSacaDeNew,
         LargoAdmite, EnLargo
    <2>2. QED
      BY <2>1, NuevoConProceso DEF IndInv
  <1>2. CASE Corto
    <2>1. \/ CortoEncolaEnIO \/ CortoValidaIO
          \/ corto.pc = "pop_ready" /\ cola.ready = <<>>
          \/ corto.pc = "pop_vrr" /\ cola.readyVRR = <<>>
      BY <1>2 DEF Corto, CortoEsperaListo, CortoEsperaCpu, CortoPasaPuerta,
         CortoSacaDeReady,
         CortoDespacha, CortoRecibe, CortoPasaPuertaRespuesta, CortoAtiendeFin,
         CortoAtiendeQuantum, CortoAtiendeIO, CortoAtiendeSolicita, CortoAtiendeLibera,
         CortoTomaRecurso, CortoDevuelveAReady, CortoEncolaEnRecurso,
         CortoFinaliza, CortoLiberaRecursos, CortoLiberaGrado, CortoReduceGrado,
         CortoLiberaCpu, CortoElige, CortoSacaDePrioridad, CortoSacaDe, EnCorto
    <2>2. QED
      BY <2>1 DEF Elegida
  <1>3. CASE Consola
    BY <1>3, ConsolaSinFinalizar DEF IniciarProceso, DetenerPlanificacion,
       DetenerEnPausa, ReanudarPlanificacion, Multiprogramacion
  <1>4. CASE \E i \in Interfaces : ConectarIO(i) \/ HiloIO(i)
    <2>1. PICK i \in Interfaces : hilo_io[i].pc = "peek" /\ conexion[i].cola_espera = <<>>
      BY <1>4 DEF ConectarIO, HiloIO, IOEsperaCliente, IOEnviaInstruccion, IORecibeFin,
         IOSeDesconecta, IOPasaPuerta, IOSacaDeEspera, IODesbloquea, EnIO
    <2>2. QED
      BY <2>1, ColaConProceso
  <1>5. CASE \E r \in Recursos : HiloRecurso(r)
    <2>1. PICK r \in Recursos : /\ hilo_recurso[r].pc \in {"peek", "pop_espera"}
                                /\ recurso[r].procesos_en_espera = <<>>
      BY <1>5 DEF HiloRecurso, RecursoEsperaCola, RecursoPasaPuerta, RecursoMiraEspera,
         RecursoTomaInstancia, RecursoSacaDeEspera, RecursoDesbloquea, EnRecurso
    <2>2. QED
      BY <2>1, EsperaConProceso
  <1>6. CASE CortoSeCuelga \/ ConsolaSeCuelga
    BY <1>6 DEF CortoSeCuelga, ConsolaSeCuelga
  <1>7. QED
    BY <1>1, <1>2, <1>3, <1>4, <1>5, <1>6 DEF Next

\* Every step keeps CaidaInv.
LEMMA CaidaPaso ==
  ASSUME "FINALIZAR_PROCESO" \notin Eventos, IndInv, JustoInv, CaidaInv, [Next]_vars
  PROVE  CaidaInv'
  <1>1. CASE UNCHANGED vars
    BY <1>1 DEF CaidaInv, CaeSoloPorDesconexion, SoloVRR, Elegida, SinCarreras, vars
  <1>2. CASE Next /\ ~caido
    <2>1. SinCarreras' => SinCarreras /\ (Carreras => CortoSeCuelga \/ ConsolaSeCuelga)
      BY SanaAntes
    <2>2. CaeSoloPorDesconexion'
      <3>1. SUFFICES ASSUME caido', SinCarreras' PROVE corto'.pc \in {"validar", "a_io"}
        BY DEF CaeSoloPorDesconexion
      <3>2. CortoEncolaEnIO \/ CortoValidaIO
        BY <1>2, <2>1, <3>1, QuienCae DEF CaidaInv
      <3>3. QED
        BY <1>2, <3>1, <3>2 DEF CortoEncolaEnIO, CortoValidaIO, EnCorto
    <2>3. SoloVRR'
      <3>1. CASE Algoritmo = "VRR"
        BY <3>1 DEF SoloVRR
      <3>2. CASE Algoritmo # "VRR"
        BY <1>2, <3>2, PrioridadSoloVRR DEF CaidaInv, JustoInv
      <3>3. QED
        BY <3>1, <3>2
    <2>4. SinCarreras' => Elegida'
      BY <1>2, <2>1, SigueElegida DEF CaidaInv
    <2>5. QED
      BY <2>2, <2>3, <2>4 DEF CaidaInv
  <1>3. QED
    BY <1>1, <1>2, CaidoQuieto

\* Without FINALIZAR_PROCESO, for any interfaces, resources and degree, while no
\* list is spoilt, the only NULL the kernel dereferences is an interface that
\* disconnected after existe_io_conectada found it: in the validation or in the
\* push that follows.
THEOREM CaidaPorDesconexion ==
  ASSUME "FINALIZAR_PROCESO" \notin Eventos
  PROVE  Spec => []CaeSoloPorDesconexion
  <1>1. IndInv /\ JustoInv /\ CaidaInv /\ [Next]_vars => CaidaInv'
    BY CaidaPaso
  <1>2. Init => CaidaInv
    BY DEF Init, CaidaInv, CaeSoloPorDesconexion, SoloVRR, Elegida
  <1>3. CaidaInv => CaeSoloPorDesconexion
    BY DEF CaidaInv
  <1>4. QED
    BY <1>1, <1>2, <1>3, Invariante, JustoInvariante, PTL DEF Spec

=============================================================================
