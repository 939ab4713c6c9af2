----------------------------- MODULE Ejecucion -----------------------------
(***************************************************************************)
(* Instructions on paged memory: the CPU that translates and executes      *)
(* them (execute.c, mmu.c, tlb.c), the memory that holds frames and page   *)
(* tables, and the STDIN and STDOUT interfaces that move the bytes of a    *)
(* blocked process while others run.  The kernel lets any process that is  *)
(* not blocked run next; one instruction is one step, and so is one        *)
(* request of an interface.  The threads inside the memory are module      *)
(* Memoria's.                                                              *)
(***************************************************************************)
EXTENDS FiniteSets, Operandos, Tlb, Mensajes

CONSTANTS
  Procesos,
  Instrucciones,   \* the instructions of the programs
  Frames,          \* frames of the memory
  Configuraciones, \* [entradas, algoritmo]: CANTIDAD_ENTRADAS_TLB and ALGORITMO_TLB
  MaxPasos,        \* bound: instructions executed
  MaxPasosRota     \* the same bound once the promise of CpuLogica is broken

ASSUME EjecucionOK ==
  /\ Frames \in Nat \ {0} /\ TamPagina \in Nat \ {0}
  /\ \A c \in Configuraciones : c.entradas \in Nat /\ c.algoritmo \in {"FIFO", "LRU"}
  /\ MaxPasos \in Nat /\ MaxPasosRota \in Nat

\* The instructions have the operands execute.c reads.
ASSUME InstruccionesOK ==
  \A i \in Instrucciones :
    /\ i.op \in {"SET", "SUM", "SUB", "MOV_OUT", "MOV_IN", "IO_STDIN_READ", "IO_STDOUT_WRITE"}
         => i.a \in Registro
    /\ i.op \in {"SUM", "SUB", "MOV_OUT", "MOV_IN", "IO_STDIN_READ", "IO_STDOUT_WRITE"}
         => i.b \in Registro
    /\ i.op = "SET" => i.b \in Int
    /\ i.op \in {"RESIZE", "COPY_STRING"} => i.a \in Nat

\* NULL is neither a list nor a request.
ASSUME NullNoEsSolicitud ==
  LET Tokens == Seq({"IO_STDIN_READ", "IO_STDOUT_WRITE"})
      Accesos == Seq([direccion_fisica : Nat, tam_dato : Nat])
  IN  /\ NULL \notin Tokens /\ NULL \notin Accesos
      /\ NULL \notin [instruc_io_tokenizadas : Tokens, peticiones_memoria : Accesos]

VARIABLES
  config,       \* cpu.config
  registros,
  tlb,
  tablas,       \* the page table of each process
  MEMORIA,      \* the bytes, by physical address
  vivos,        \* processes not sent to EXIT
  io,           \* the request an interface serves for each process
  dudosas,      \* <<p, page>>: p lost the page, or reached it without having it
  promesa,      \* no access used such a page, nor one beyond the table
  pasos

vars == <<config, registros, tlb, tablas, MEMORIA, vivos, io, dudosas, promesa, pasos>>

Direccion == 0 .. Frames * TamPagina - 1
Byte == 0 .. BYTE - 1

Init ==
  /\ config \in Configuraciones
  /\ registros = [p \in Procesos |-> [r \in Registro |-> 0]]
  /\ tlb = Vacia
  /\ tablas = [p \in Procesos |-> <<>>]
  /\ MEMORIA = [d \in Direccion |-> 0]
  /\ vivos = Procesos /\ io = [p \in Procesos |-> NULL]
  /\ dudosas = {} /\ promesa = TRUE /\ pasos = 0

-----------------------------------------------------------------------------
(***************************************************************************)
(* Memory                                                                  *)
(***************************************************************************)
FramesUsados == UNION {{tablas[p][k] : k \in DOMAIN tablas[p]} : p \in Procesos}
FramesLibres == (0 .. Frames - 1) \ FramesUsados

\* How many free frames a search passes before it reaches f.
Antes(f) == {g \in FramesLibres : g < f}

\* Defect: a frame is not marked before the next search.
Libres_SinMarcar(n) ==
  [k \in 1 .. n |-> CHOOSE f \in FramesLibres : Antes(f) = {}]

\* get_available_frame, once for each page: the lowest first.
Libres(n) ==
  [k \in 1 .. n |-> CHOOSE f \in FramesLibres : Cardinality(Antes(f)) = k - 1]

\* Past the end of the table the list gives NULL, which is taken as frame 0.
get_frame_number_by_pagina(p, pagina) ==
  IF pagina < Len(tablas[p]) THEN tablas[p][pagina + 1] ELSE 0

get_memoria(peticion) ==
  [k \in 1 .. peticion.tam_dato |-> MEMORIA[peticion.direccion_fisica + k - 1]]

set_memoria(mem, peticion) ==
  LET desde == peticion.direccion_fisica
  IN  [d \in Direccion |-> IF desde <= d /\ d < desde + Len(peticion.dato)
                           THEN peticion.dato[d - desde + 1] ELSE mem[d]]

EscribirTodas(peticiones, dato) ==
  FoldLeft(set_memoria, MEMORIA, peticiones_distribuir_dato(peticiones, dato))
LeerTodas(peticiones) == FoldLeft(LAMBDA a, q : a \o get_memoria(q), <<>>, peticiones)

-----------------------------------------------------------------------------
(***************************************************************************)
(* The instructions                                                        *)
(***************************************************************************)
Traduce(t, p, dl, tam) ==
  mmu(t, p, dl, tam,
      [k \in PaginasConsultadas(dl, tam) |-> get_frame_number_by_pagina(p, k)],
      config.entradas, config.algoritmo)

\* What an access does to the history: pages beyond the table become doubtful.
Acceso(p, dl, tam) ==
  [dudosas |-> {<<p, k>> : k \in {k \in PaginasConsultadas(dl, tam) : k >= Len(tablas[p])}},
   firme |-> tam = 0 \/ \A k \in PaginasConsultadas(dl, tam) :
                           k < Len(tablas[p]) /\ <<p, k>> \notin dudosas]

Accede(accesos) ==
  /\ dudosas' = dudosas \cup UNION {a.dudosas : a \in accesos}
  /\ promesa' = (promesa /\ \A a \in accesos : a.firme)

SinAcceso == UNCHANGED <<tlb, MEMORIA, dudosas, promesa>>

Calcula(p, i) ==
  /\ registros' = [registros EXCEPT ![p] =
       CASE i.op = "SET" -> exec_set(@, i.a, i.b)
         [] i.op = "SUM" -> exec_sum(@, i.a, i.b)
         [] i.op = "SUB" -> exec_sub(@, i.a, i.b)]
  /\ SinAcceso /\ UNCHANGED <<tablas, vivos, io>>

\* EXIT, an error, OUT_OF_MEMORY or FINALIZAR_PROCESO: the frames come back; the
\* TLB and the interfaces are told nothing.
Finaliza(p) ==
  /\ vivos' = vivos \ {p}
  /\ tablas' = [tablas EXCEPT ![p] = <<>>]
  /\ SinAcceso /\ UNCHANGED <<registros, io>>

exec_resize(p, bytes) ==
  LET paginas == (bytes + TamPagina - 1) \div TamPagina
      actual == Len(tablas[p])
  IN  IF paginas > actual + Cardinality(FramesLibres) THEN Finaliza(p)
      ELSE /\ tablas' = [tablas EXCEPT ![p] = IF paginas >= actual
                                              THEN @ \o Libres(paginas - actual)
                                              ELSE SubSeq(@, 1, paginas)]
           /\ dudosas' = dudosas \cup {<<p, k>> : k \in paginas .. actual - 1}
           /\ UNCHANGED <<registros, tlb, MEMORIA, vivos, io, promesa>>

exec_mov_out(p, direccion, datos) ==
  LET dl == registros[p][direccion]
      t == Traduce(tlb, p, dl, tam_registro(datos))
  IN  /\ tlb' = t.tlb
      /\ MEMORIA' = EscribirTodas(t.peticiones, EnBytes(registros[p][datos], datos))
      /\ Accede({Acceso(p, dl, tam_registro(datos))})
      /\ UNCHANGED <<registros, tablas, vivos, io>>

exec_mov_in(p, datos, direccion) ==
  LET dl == registros[p][direccion]
      t == Traduce(tlb, p, dl, tam_registro(datos))
  IN  /\ tlb' = t.tlb
      /\ registros' = [registros EXCEPT ![p][datos] = DeBytes(LeerTodas(t.peticiones))]
      /\ Accede({Acceso(p, dl, tam_registro(datos))})
      /\ UNCHANGED <<MEMORIA, tablas, vivos, io>>

\* The whole string is read before any of it is written.
exec_cp_string(p, tam) ==
  LET lectura == Traduce(tlb, p, registros[p]["si"], tam)
      escritura == Traduce(lectura.tlb, p, registros[p]["di"], tam)
  IN  /\ tlb' = escritura.tlb
      /\ MEMORIA' = EscribirTodas(escritura.peticiones, LeerTodas(lectura.peticiones))
      /\ Accede({Acceso(p, registros[p]["si"], tam), Acceso(p, registros[p]["di"], tam)})
      /\ UNCHANGED <<registros, tablas, vivos, io>>

\* The solicitud travels in the PCB to the kernel and from there to the interface.
Viaja(p, solicitud) ==
  LET pcb == recibir_pcb(enviar_pcb(
        [pid |-> p, pc |-> 0, quantum |-> 0, estado |-> "EXECUTE", registros |-> registros[p],
         solicitud |-> solicitud], "PROCESO_BLOQUEADO_IO").campos)
  IN  recibir_instruccion_io(enviar_instruccion_io(
        pcb.solicitud.instruc_io_tokenizadas, pcb.solicitud.peticiones_memoria, pcb.pid).campos)

\* exec_io_stdin_read and exec_io_stdout_write: the addresses are fixed here.
\* "dl" and "resta" are not in the message; they say what it stands for.
exec_io(p, i) ==
  LET dl == registros[p][i.a]
      tam == registros[p][i.b]
      t == Traduce(tlb, p, dl, tam)
  IN  /\ tlb' = t.tlb
      /\ io' = [io EXCEPT ![p] =
           [solicitud |-> Viaja(p, crear_solicitud_io(<<i.op>>, t.peticiones)),
            datos |-> NULL, dl |-> dl, resta |-> tam]]
      /\ Accede({Acceso(p, dl, tam)})
      /\ UNCHANGED <<registros, MEMORIA, tablas, vivos>>

execute(p, i) ==
  \/ i.op \in {"SET", "SUM", "SUB"} /\ Calcula(p, i)
  \/ i.op = "RESIZE" /\ exec_resize(p, i.a)
  \/ i.op = "MOV_OUT" /\ exec_mov_out(p, i.a, i.b)
  \/ i.op = "MOV_IN" /\ exec_mov_in(p, i.a, i.b)
  \/ i.op = "COPY_STRING" /\ exec_cp_string(p, i.a)
  \/ i.op \in {"IO_STDIN_READ", "IO_STDOUT_WRITE"} /\ exec_io(p, i)

EjecutaInstruccion(p) ==
  /\ pasos < (IF promesa THEN MaxPasos ELSE MaxPasosRota) /\ p \in vivos /\ io[p] = NULL
  /\ \E i \in Instrucciones : execute(p, i)
  /\ pasos' = pasos + 1 /\ UNCHANGED config

\* EXIT, or FINALIZAR_PROCESO, which does not ask whether an interface is at work.
FinalizaProceso(p) ==
  p \in vivos /\ Finaliza(p) /\ UNCHANGED <<config, pasos>>

-----------------------------------------------------------------------------
(***************************************************************************)
(* The interfaces: the requests of the message, one at a time              *)
(***************************************************************************)
Atiende(p, op) == io[p] # NULL /\ io[p].solicitud.tokens[1] = op
Peticiones(p) == io[p].solicitud.peticiones_memoria
SoloIo == UNCHANGED <<config, registros, tlb, tablas, vivos, dudosas, pasos>>

\* Work for a process whose frames were given back.
IoAccede(p) == promesa' = (promesa /\ (p \in vivos \/ Head(Peticiones(p)).tam_dato = 0))

\* The console insists until the text has the exact length.
IoStdinTexto(p) ==
  /\ Atiende(p, "IO_STDIN_READ") /\ io[p].datos = NULL
  /\ \E texto \in [1 .. peticiones_tam_total(Peticiones(p)) -> Byte] :
       io' = [io EXCEPT ![p].datos = texto]
  /\ SoloIo /\ UNCHANGED <<MEMORIA, promesa>>

IoStdinEscribe(p) ==
  /\ Atiende(p, "IO_STDIN_READ") /\ io[p].datos # NULL /\ Peticiones(p) # <<>>
  /\ LET peticion == peticiones_distribuir_dato(Peticiones(p), io[p].datos)[1]
         n == Len(peticion.dato)
     IN  /\ MEMORIA' = set_memoria(MEMORIA, peticion)
         /\ io' = [io EXCEPT ![p].solicitud.peticiones_memoria = Tail(@),
                             ![p].datos = SubSeq(@, n + 1, Len(@)),
                             ![p].dl = @ + n, ![p].resta = @ - n]
  /\ IoAccede(p) /\ SoloIo

IoStdoutBuffer(p) ==
  /\ Atiende(p, "IO_STDOUT_WRITE") /\ io[p].datos = NULL
  /\ io' = [io EXCEPT ![p].datos = <<>>]
  /\ SoloIo /\ UNCHANGED <<MEMORIA, promesa>>

IoStdoutLee(p) ==
  /\ Atiende(p, "IO_STDOUT_WRITE") /\ io[p].datos # NULL /\ Peticiones(p) # <<>>
  /\ LET leido == get_memoria(Head(Peticiones(p)))
     IN  io' = [io EXCEPT ![p].solicitud.peticiones_memoria = Tail(@),
                          ![p].datos = @ \o leido,
                          ![p].dl = @ + Len(leido), ![p].resta = @ - Len(leido)]
  /\ IoAccede(p) /\ SoloIo /\ UNCHANGED MEMORIA

\* FIN_EJECUCION_IO
IoTermina(p) ==
  /\ io[p] # NULL /\ io[p].datos # NULL /\ Peticiones(p) = <<>>
  /\ io' = [io EXCEPT ![p] = NULL]
  /\ SoloIo /\ UNCHANGED <<MEMORIA, promesa>>

-----------------------------------------------------------------------------
Next ==
  \E p \in Procesos :
    \/ EjecutaInstruccion(p) \/ FinalizaProceso(p)
    \/ IoStdinTexto(p) \/ IoStdinEscribe(p) \/ IoStdoutBuffer(p) \/ IoStdoutLee(p)
    \/ IoTermina(p)

Spec == Init /\ [][Next]_vars

-----------------------------------------------------------------------------
(***************************************************************************)
(* Properties                                                              *)
(***************************************************************************)
\* Registers keep their width and memory its bytes, whatever the instructions
\* and the interfaces move between them; tables hold frames.
TypeOK ==
  /\ \A p \in Procesos, r \in Registro : registros[p][r] \in 0 .. Modulo(r) - 1
  /\ MEMORIA \in [Direccion -> Byte]
  /\ \A p \in Procesos : tablas[p] \in Seq(0 .. Frames - 1)
  /\ promesa \in BOOLEAN /\ vivos \subseteq Procesos

\* No frame is two pages, of one process or of two (get_available_frame in
\* exec_resize, and the frames that come back when a process ends).
FramesSinCompartir ==
  \A p, q \in Procesos : \A j \in DOMAIN tablas[p], k \in DOMAIN tablas[q] :
    tablas[p][j] = tablas[q][k] => p = q /\ j = k

\* The TLB has at most one entry for a page and no more entries than configured:
\* tlb_reemplazar_por_fifo and tlb_reemplazar_por_lru make the room they must, and
\* a stale entry is found, and used, before its page is asked for again.
TlbSinRepetidas ==
  /\ Len(tlb.lista) <= config.entradas
  /\ \A j, k \in DOMAIN tlb.lista :
       j # k => ~EsEntrada(tlb.lista[j].pid, tlb.lista[j].pagina, tlb.lista[k])

\* The ages (tlb.c) count insertions and not uses, and LRU errs by no more than
\* that: an entry used longer ago than the victim stays only when no insertion,
\* other than the victim's own, came between the last uses of the two.
VictimaLruCasiVieja ==
  tlb.lista # <<>> =>
    LET victima == VictimaLru(tlb.lista)
    IN  \A k \in DOMAIN tlb.lista :
          tlb.lista[k].ultimo < victima.ultimo => tlb.lista[k].previas = victima.previas

\* What the name LRU says (ALGORITMO_TLB=LRU, cpu-salvation.config): the entry
\* taken out of a full TLB is the one last used before all the others.
LruSacaLaMenosUsada ==
  config.algoritmo = "LRU" /\ config.entradas > 0 /\ Len(tlb.lista) = config.entradas =>
    \A k \in DOMAIN tlb.lista : VictimaLru(tlb.lista).ultimo <= tlb.lista[k].ultimo

\* Paging is invisible: with translation, TLB, requests and interfaces, the
\* instructions do to the bytes of each process what CpuLogica does to a flat
\* memory, until an access goes beyond the page table, uses a page number that
\* its process had lost or had reached without having it (the TLB keeps the old
\* frame), or is an interface's for a process already finished.
Logica(p) ==
  [k \in 1 .. Len(tablas[p]) * TamPagina |->
     MEMORIA[tablas[p][obtener_numero_pagina(k - 1) + 1] * TamPagina
               + obtener_offset(k - 1, obtener_numero_pagina(k - 1))]]

IoLogica(p) ==
  IF io[p] = NULL THEN NULL
  ELSE [tipo |-> io[p].solicitud.tokens[1], dl |-> io[p].dl, resta |-> io[p].resta,
        datos |-> io[p].datos]

MemoriaLogica == INSTANCE CpuLogica WITH
  logica <- [p \in Procesos |-> Logica(p)],
  io     <- [p \in Procesos |-> IoLogica(p)]

ImplementaCpuLogica == MemoriaLogica!Spec

=============================================================================
