# C-Comenta in TLA+

C-Comenta is a small distributed operating system: a **kernel**, a **CPU**, a
**memory** and any number of **I/O interfaces**, four C programs that talk over
TCP. This directory holds TLA+ modules of the four programs and of the messages
between them, the TLC runs that model-check them, and TLAPS proofs about them.
Definitions keep the names of the source where TLA+ allows it
(`push_cola_ready`, `redimensionar_memoria_proceso`, `compactar`, ...).

## 1. The system

| Component | State | Operations | Talks to |
|---|---|---|---|
| Long-term scheduler (`planificador_largo.c`) | — | admit: NEW to READY | queues, `sem_grado_multiprog`, `sem_nuevo_proceso` |
| Short-term scheduler (`planificador_corto.c`) | `q_transcurrido`, `hilo_quantum` | dispatch; attend the CPU's answer | queues, resources, interfaces, CPU dispatch socket, memory socket |
| Queues (`colas_planificador.c`) | `cola_new`, `cola_ready`, `cola_ready_VRR`, `cola_execute`, `cola_exit`, the degree of multiprogramming | push / pop, `push_cola_exit`, `finalizar_proceso` | every thread of the kernel |
| Interfaces in the kernel (`gestor_io.c`, `conexion.c`) | list of connections, each with `cola_espera` and `sem_cliente`; one thread each | connect, validate, enqueue, serve, disconnect | short-term scheduler, interface sockets |
| Resources (`recurso.c`) | per resource: `instancias`, PIDs that hold it, waiting queue, `procesos_en_cola`; one thread each | WAIT, SIGNAL, unblock, release at exit | short-term scheduler, console |
| Console (`consola.c`, `interrupcion.c`) | `pcb_counter` | INICIAR / FINALIZAR_PROCESO, DETENER / INICIAR_PLANIFICACION, MULTIPROGRAMACION, PROCESO_ESTADO, EJECUTAR_SCRIPT | all of the kernel, CPU interrupt socket |
| Pause (`detener_planificacion.c`) | flag, mutex, semaphore | `detener_`, `reanudar_`, `esperar_planificacion` | console on one side, every other thread on the other |
| CPU cycle (`ciclo.c`, `execute.c`, `checkInterrupt.c`, `conexion.c`) | `pcb_actual`, `tengo_pcb`, `INTERRUPTION_FLAG`, `MOTIVO_INTERRUPCION` | fetch, execute, check interrupt; dispatch and interrupt threads | kernel, memory |
| TLB and MMU (`tlb.c`, `mmu.c`) | TLB entries with ages | look up, insert, replace FIFO / LRU; cut an access into pages | memory |
| Memory (`memory/src`) | processes with page tables, frame bitmap, bytes | load, free, resize, translate, read, write | kernel and CPU (two threads) |
| DialFS (`io/src/filesystem.c`, `fs_*.c`) | control blocks, block bitmap, blocks, in files | create, delete, truncate, compact, read, write | kernel, memory |
| Other interfaces (`io_generica.c`, `io_stdin.c`, `io_stdout.c`) | none between requests | one request, one answer | kernel, memory |

The hardest behaviours are in the kernel: seven kinds of threads hand processes to
one another through queues and counting semaphores, where the `push`, the
`sem_post`, the `sem_wait` and the `pop` are separate steps; the console takes
processes out of those queues without taking their posts; the answer of the CPU
may meet an interface that has left, a resource another thread has taken, or a
paused scheduling. Some of those lists have no lock at all, and some threads lock a
copy of the mutex that others lock. Next come the interruptions: a quantum thread interrupts whoever
is in EXECUTE when it wakes, over a socket of its own, while the CPU may be sending
that process back for another reason. The memory serves the kernel and the CPU from
two threads that share globals; two threads of the kernel share one socket to it.
DialFS writes the bitmap, the entries and the blocks one after another and may be
killed in between. `PROJECT.json` lists every hazard with its line and the
properties that watch it.

What makes each component correct:

* **Queues and schedulers**: a process is in one place; its `estado` is that of
  its queue; it follows the state diagram; EXECUTE holds the process the CPU has;
  no queued process waits without a post; READY does not starve, but for what
  section 3 names.
* **Degree**: slots free and taken add up to the configured degree.
* **Resources**: instances are neither created nor lost, and EXIT holds none; the
  scheduler never sleeps for an instance.
* **Interfaces**: each process queued is served once and comes back.
* **Pause**: nobody passes while paused, no wake-up is lost.
* **CPU**: the PCB is in one place and arrives as it left; an interruption takes at
  most one process off the CPU; with a quantum thread alive, a loop ends.
* **TLB, MMU, memory as programs see them**: a flat memory of their own; LRU evicts
  the least recently used entry (it does not: finding 4; how far it errs is checked).
* **Memory inside**: a marked frame has exactly one owner; the lookups made for the
  CPU find their process; each request of the kernel is answered.
* **DialFS**: files do not overlap and the bitmap is their union; requests do to the
  files what a map from names to bytes would, across truncation, compaction and a
  restart, up to the cases section 2 names.

## 2. Modules

| Module | What it is |
|---|---|
| `Kernel` | console, both schedulers, interface and resource threads over the shared queues, semaphores and resources |
| `EstadosProceso` | abstract specification: the state diagram of a process and the single CPU |
| `Pausa` | `detener_planificacion.c` lock by lock |
| `Puerta` | abstract specification: the pause as a one-step gate, which is how `Kernel` uses it |
| `Mensajes` | the packets: which fields, in which order each side packs and unpacks them; requests to memory |
| `Desalojo` | dispatch and interrupt threads of the CPU, short-term scheduler, quantum threads, the three channels |
| `Memoria` | kernel thread and CPU thread of the memory; console and short-term scheduler on one socket |
| `Operandos` | registers and arithmetic of the instructions, with their widths |
| `Tlb` | TLB and MMU as operators |
| `Ejecucion` | instructions on paged memory, with the STDIN and STDOUT interfaces; extends `Operandos`, `Tlb`, `Mensajes` |
| `CpuLogica` | abstract specification: a flat memory per process |
| `DialFS` | the file system interface write by write, with falls and restarts; extends `Mensajes` |
| `Archivos` | abstract specification: named files that hold bytes |
| `MC_*` | values of the constants for TLC |
| `KernelProofs`, `EstadosProofs` | theorems about `Kernel`; the second extends the first |
| `PausaProofs`, `MemoriaProofs` | theorems about the module of that name |
| `MensajesProofs` | what the packets carry and how data are cut over requests, as lemmas |
| `DesalojoProofs`, `DialFSProofs`, `EjecucionProofs` | theorems about the module of that name; each extends `MensajesProofs` |

`Ejecucion` composes CPU, memory, messages and interfaces; `Desalojo` composes CPU
and kernel; `Memoria` composes memory and kernel. Each composition gives the other
components the steps they take in their own module: the answers `Kernel` draws
from the environment are the ones `Desalojo` produces, and the frames `Ejecucion`
gives in one step are those `Memoria` gives lock by lock.

### Kernel

Each thread has a program counter and its locals (`largo`, `corto`, `consola`,
`hilo_io[i]`, `hilo_recurso[r]`). One action is what the thread does between two
points at which another thread may be seen to act: a `sem_wait`, a push or a pop of
a queue, the pause gate, a blocking `recv`. So the pop of a queue and
the push to the next are two actions, and so are a test of shared state and its
use when the code takes no lock between them:

* `recurso_disponible` (`CortoAtiendeSolicita`) and `wait_recurso`
  (`CortoTomaRecurso`); the three lookups of an interface, `existe_io_conectada`
  (`CortoAtiendeIO`), the one whose result the validation dereferences
  (`CortoValidaIO`) and that of the push (`CortoEncolaEnIO`); the test of the priority
  queue (`CortoElige`) and the pop of the queue chosen (`CortoSacaDePrioridad`,
  `CortoSacaDeReady`); `queue_peek` before the
  device works (`IOEnviaInstruccion`) and `queue_pop` after it
  (`IOSacaDeEspera`); `queue_is_empty` and `queue_peek` in
  `interrumpir_proceso_ejecutando`; `proceso_esta_en_cola` and `pop_proceso` in
  `finalizar_proceso`.
* `push_cola_exit` queues the process (`CortoFinaliza`, `ConsolaFinaliza`), and with
  the mutex unlocked releases its resources (`CortoLiberaRecursos`,
  `ConsolaLiberaRecursos`), then settles the degree (`..LiberaGrado`, `..ReduceGrado`).
* `diferencia_grado_multiprog++` is read by one action and stored by another, and
  the value incremented is either the one first read or the current one.

A push and the `sem_post` that follows it in the same function are one action:
posting later only makes the consumer wait longer, and no code looks at the
semaphore in between. `push_cola_ready_priority` includes the post of its only
caller for the same reason.

A NULL that the code goes on to dereference ends the kernel process: `caido`
becomes true and nothing runs any more.

**Races in a list.** The waiting queues of interfaces and resources have no lock (the
one of `push_cola_blocked` is commented out, `escuchar_io` and the threads of the
resources take none), neither have the lists `PIDs` outside
`liberar_recurso_del_proceso`, and nothing that prints a queue takes one. And
`pop_cola_blocked`, `pop_and_destroy`, `proceso_esta_en_cola` and `pop_proceso` get the
mutex **by value**: they lock a copy, which excludes nobody if it was made while the
mutex was free and is never unlocked if it was made while it was taken. So a push or a
pop is one action, but:

* `Choque`: when two threads stand at writes of one list that no common mutex keeps
  apart (`ChocanEnEspera`, `ChocanEnPIDs`, `SacaConCopia` with `MutexTomado`), the list
  may enter `carreras`. From then on any of its elements may vanish (`PierdeDeCola`,
  `PierdeDeIO`, `PierdeDeRecurso`, `PierdePID`) or the kernel may die
  (`MuerePorCarrera`), at any moment; two takers may also get the same process
  (`SacarDeCola`). That is more than one lost update does, so what is shown of a spoilt
  list holds whatever the interleaving of the two writes was.
* `LecturaRota`: a reader with no lock (PROCESO_ESTADO, the searches of the console, a
  quantum thread at `queue_peek` of EXECUTE) meets the pop, and the element it reads
  was freed.
* `CortoSeCuelga` and `ConsolaSeCuelga`: the copy was of a taken mutex.

`MaxCarreras` bounds the lists spoilt; `SinCarreras` says there is none yet.

The CPU, the programs and the devices are the environment. `CortoRecibe` takes
any answer a program can produce: exit, error, out of memory, quantum, user
interruption (only when one was sent), an I/O request to any interface, WAIT or
SIGNAL of any resource, configured or not. With `Disciplinados` programs WAIT for
what they do not have and SIGNAL what they have. A validation of an instruction
against the type of the interface may go either way; the memory may accept or
refuse a new process.

### Pausa

`esperar_planificacion` locks `mutex_planificacion_activa`, tests the flag,
sleeps in `sem_wait` **with the mutex locked** and tests again;
`detener_planificacion` needs that mutex, `reanudar_planificacion` does not take
it. Every lock, test, wait and unlock is an action.

### Mensajes

A packet is its code and the sequence of its fields; packing and unpacking are
separate operators, so a field out of order shows. The string of an instruction is
its tokens. `peticiones_distribuir_dato` gives each request its piece of a datum.

### Desalojo

The PCB travels from the scheduler (`CortoDespacha`) through `dispatch` to the CPU
(`CpuRecibe`), through the cycle (`fetch`, `check`), and back through `respuesta`
to `CortoRecibe` and `CortoAtiende`. `interrumpir_proceso_ejecutando`, by a quantum
thread or by the console, reads EXECUTE at that moment and writes to `interrupt`.
The interrupt thread of the CPU compares the PID and raises `INTERRUPTION_FLAG` in
one action and stores `MOTIVO_INTERRUPCION` in the next (conexion.c sets them one after the
other with no lock); the dispatch thread reads the flag, then sends with whatever
cause is stored. `liberado` says the PCB was freed while the global pointer still
holds it: the comparison then may go either way. `aceptadas` is history: interruptions
accepted minus evictions. Fetch failing (`CpuFetchFalla`) leaves the cycle without an
answer, as the code does. Semaphores, pause and resources are `Kernel`'s; here BLOCKED
is a set a process leaves at any moment.

### Memoria

Each thread of the memory advances from one lock, lookup, search or mark to the
next. `LiberarRegistra` is the log line of `LIBERAR_PROCESO_EN_MEMORIA`, which looks
up the pages of `PID_solicitado` (the last process the CPU fetched for, not the one
to free) and aborts when it is gone. A RESIZE looks its process up again before each
loop (`BuscaTabla`). Growing a process counts the free frames, then
searches and marks page by page in separate actions (`agregar_paginas`,
`AgregarMarca`), and shrinking takes the page and clears the mark in two
(`quitar_paginas`, `QuitarMarca`), while the kernel thread frees. The kernel's side is
the protocol only: whichever thread waits takes the next answer of the shared socket, so the
console may take the status of the scheduler's request (`cruzados`).

The console takes a process off its queue (`finalizar_proceso`) before it sends
LIBERAR (`push_cola_exit`), and the `escuchar_io` that was serving it may put it back in
READY before or after that (finding 2), from where it is dispatched. Those are
`resucitados`: their LIBERAR may arrive while they run, so the lookups of their RESIZE
may abort, or their table be freed under the loop that uses it (`LiberarEnUso`). What a
loop does with a freed list is undefined, and there the model stops: `aborto = "tabla"`.

### Ejecucion, CpuLogica, Operandos, Tlb

One instruction is one step, for no other process runs meanwhile; an interface moves
one request per step, between instructions of others, with the physical addresses
fixed when the instruction ran. `mmu` is the loop of `mmu.c`: the pages of an access,
TLB or table for each, requests of `BytesDelPaso` bytes. The TLB keeps its list and
ages, which grow on insertion only; the fields `ultimo` and `previas` of an entry are
history: how many uses of the TLB came before its last use, and how many insertions.
RESIZE and EXIT do not touch the TLB, so it may keep a frame the process lost. That
is why the abstraction holds up to a point, which the model names instead of hiding:
`dudosas` are the pages a process lost, or reached without having them, and
`promesa` falls when an access uses one, goes beyond the table, or is an interface's
for a finished process. `CpuLogica!Next` then allows anything (`promesa' = FALSE`), and
nothing else lets it. Bytes have `BYTE` values and the wide registers `ANCHO` bytes. The
process runs any instruction of the program next, so the program counter is not a
register here, though `get_registro` takes PC as an operand (`registro.c:14`).

### DialFS, Archivos

One action per write to the bitmap, an entry or the blocks; `Cae` may come between
any two, and `inicializar_filesystem` rebuilds the list of FCBs from the directory in
any order. `config_create` on a file that exists, `fs_open` that creates one without
keys, the byte that IO_FS_WRITE and IO_FS_READ move in excess, the bits past the
device that the mapping has, are in the model. A restart may keep no more bits than
`bitmap.dat` has (`bits_del_archivo`: `block_count / 8` bytes, an integer division). When
the number of blocks is not a multiple of 8 the last bits are lost and nothing below
holds; `BitmapEntero` assumes that it is, as it is in every configuration of the
repository (32 and 1024 blocks), with `BITS` for 8. `Archivos` promises of a write
exactly the bytes asked for. `promesa` falls when a file is created
twice, a truncate ends past the device, a write runs into another file's blocks or its
extra zero changes the byte of the file that follows (`PisaUnoMas`), or a
fall cuts a delete, a truncate or a compaction. `perdidos` are the blocks that a fall
in the middle of a create leaves marked; a compaction recovers them.

## 3. Runs

| Run | Instance | Question |
|---|---|---|
| `kernel` | VRR, 2 processes, 1 interface that may disconnect, 1 resource with 1 instance, degree 2 changed once to 1 or 3, pause, 1 list spoilt; 746 604 states | Do the hand-overs lose, duplicate or misplace a process, a post, a slot or an instance? Is it the state diagram? |
| `kernel_finalizar` | VRR, 2 processes, one FINALIZAR_PROCESO, degree 2 changed once to 1, copied mutexes; 789 935 states | What survives when the console takes processes out of the queues? |
| `kernel_vivacidad` | VRR, 2 processes, 1 interface, 1 resource, pause, fair threads; 21 922 states | Does READY starve? Does an interface forget a process? |
| `kernel_instancias` | FIFO, 2 processes, 1 resource | finding 1 |
| `kernel_resucita` | FIFO, 1 interface, one FINALIZAR_PROCESO | finding 2 |
| `pausa` | 3 threads, any sequence of commands | Is the lock protocol the gate of `Kernel`? How can it hang? |
| `desalojo` | FIFO, RR and VRR, 2 processes, 2 dispatches, 1 interruption of the user; 544 353 states | Where is the PCB? What may an interruption stop? Does a quantum end a loop? |
| `desalojo_quantum` | RR, 2 processes | finding 3 |
| `memoria` | 2 processes, 4 usable frames of 2 bytes, RESIZE up to 6 bytes; 552 610 states | Who owns each frame? Which lookups abort? Is every request answered? |
| `ejecucion` | 2 processes, 3 frames of 2 bytes, TLB off, FIFO and LRU with 2 entries, 12 instructions; 619 354 states | Is paging invisible to the programs? How far is LRU from LRU? |
| `ejecucion_lru` | 1 process, LRU with 2 entries, 4 instructions | finding 4 |
| `dialfs` | 2 names, 3 blocks of 2 bytes, falls and restarts; 1 105 260 states | Are the files files? |

**What they show.** `kernel`, without FINALIZAR_PROCESO. Until a list is spoilt:
`AvisosJustos` (posts match queued processes exactly), `CadaProcesoEnUnLugar`,
`InstanciasConservadas`, and `CaeSoloPorDesconexion`: a NULL these threads dereference is
an interface that disconnected before the second lookup of its validation or before that
of the push. With a spoilt list too: `EstadoSegunCola`, `GradoConservado`,
`ExitSinRecursos` (a process in EXIT has an instance only while `push_cola_exit` is still
to release it), and `ImplementaDiagrama`: the kernel implements `EstadosProceso` with the
variable `estado` itself as the mapping.

`kernel_finalizar`: with FINALIZAR_PROCESO the posts may exceed the
processes but never fall short (`AvisosSuficientes`), and the CPU and EXECUTE still agree
(`UnSoloProcesoEnCpu`), which the theorems say of any number of spoilt lists too; until
one is, no instance is lost although some may be created (`InstanciasNoSePierden`). The other properties of the first run, its type
invariant aside, do fail there, because the console leaves posts behind, releases the
resources of a process that still runs, and races with the threads that hold a process
between two queues.

`kernel_vivacidad`, while no list is spoilt and once the operator leaves the scheduling
active. `BloqueadoVuelve`: a process queued on an interface comes back unless the
interface disconnects. `ListoLlegaACpu`: a process in READY gets the CPU, provided that
the CPU does not keep a process for ever (`CpuDevuelve`: a failed fetch does, and so may a
program alone under FIFO) and, under VRR, that the priority queue leaves room
(`PrioridadCesa`: processes that keep coming back from an interface starve READY, and the
code prevents it nowhere), unless the scheduler falls asleep in `wait_recurso`
(finding 1) or in the copy of a taken mutex, or the kernel dies. Each of these was found
by TLC when it was not a hypothesis.

`desalojo`: the PCB in
EXECUTE is in one place (`UnSoloDueno`) and arrives as it left (`PcbFiel`), so the
answer the scheduler reads is of the process it dispatched; whichever process the
flag hits, an interruption evicts at most one (`UnDesalojoPorInterrupcion`);
`RafagaAcotada`.

`memoria`: `MarcosConservados` although counting, searching and
marking take no lock in common with the thread that frees; `AbortoSoloAlLiberar`, the
lookups for the CPU abort, and a table is freed in use, for a process put back in READY
after it was finalised and for no other; `AdmitidosCargados`, up to those and to the
processes whose creation the other thread's answer decided; `PedidoRespondido`.

`ejecucion`: `ImplementaCpuLogica`; `VictimaLruCasiVieja`: an entry used longer ago than
the victim stays only when no insertion but the victim's own came between the two uses, which is how
wrong ages that count insertions make LRU; `TlbSinRepetidas` and `FramesSinCompartir`,
which hold although the TLB may name a frame its process lost and after the promise falls
too.

`dialfs`: `BitmapExacto` between requests, `MuereSoloSinArchivo`, and
`ImplementaArchivos`, which covers compaction and recovery.

**Bounds.** `MaxProcesos` bounds the PIDs: two are enough for every race
between two processes over a queue, a CPU, an instance or a slot, and with the degree
reduced to 1 one of them waits in NEW while the other runs. `MaxCarreras` = 1 lets one
list be spoilt, whichever; 0 in `kernel_vivacidad`, whose properties claim nothing after
that, in the two runs of the findings, which do not need it, and in `kernel_finalizar`,
where it would multiply the states by seven: the proofs cover it (`NadieSinAviso`, `UnaCpu`,
`VidaInvariante`). `kernel_finalizar` has
no DETENER_PLANIFICACION, for FINALIZAR_PROCESO pauses the scheduling itself, and no
disconnection.
`MaxCambios` = 1: a second change of the degree overwrites the debt of the first
(a hazard of the list), which `GradoConservado` excludes. `MaxFinalizaciones` = 1:
one is enough for each race of the console with a thread. `MaxInstancias` only
matters to programs that SIGNAL without WAIT. `MaxAvisos` = 2 in `Pausa` lets
posts accumulate, as resumptions that wake nobody do.
In `Desalojo` two dispatches and one interruption of the user are what a stale
interruption needs: the thread of the first survives into the second. In `Memoria`
`frames_totales` = 5 with `BITS` = 2 leaves a partial byte unused, four frames and
RESIZE to three pages make two processes compete, and two PIDs let answers cross and
one process run again after its end.
In `Ejecucion` three frames against two pages per process make RESIZE fail, two TLB
entries make it replace, accesses of two and three bytes cross pages, and five
instructions reach a page lost and found again; after the promise falls only two
steps in all are run, for the invariants. In `DialFS` three blocks and sizes 1 and 3
make files of one and two blocks, so that a truncate extends in place, compacts, or
finds no room; `MaxRotas` = 1 serves one more request after the promise falls. The two
names are symmetric. `CHECK_DEADLOCK` is off
because the system may stop for good: the operator stops typing with every
process in EXIT, the kernel dies, or the second DETENER hangs it;
`SoloTrabaLaSegundaParada` says that in `Pausa` this last is the only way. It is off
in `Desalojo` and `Ejecucion` because the bounds end the behaviours (and the CPU may
die), in `Memoria` because the module may abort; `DialFS` never stops and is checked.

**Fairness.** `SpecJusta` in `Kernel` has weak fairness of each thread: the
kernel's threads are runnable whenever they are not blocked, and a device always ends its
work or disconnects. The CPU is not fair: the answer to a dispatch may never come, which
is a hypothesis of `ListoLlegaACpu` instead. Since the threads wait
on POSIX semaphores with one consumer each, weak fairness is enough. The operator
is not fair; the liveness properties assume that scheduling ends up active,
and a started FINALIZAR_PROCESO runs to its end. In `Pausa` the threads inside the
gate and a command under way are fair, coming back to the gate is not. In
`Desalojo` the two threads of the CPU and each quantum thread are fair: they only
compute, sleep a given time or read a socket; the scheduler is not needed by
`RafagaAcotada`. In `Memoria` both threads are fair, and so is a kernel thread that
has an answer to read.
`DormidoPasa` is about the one thread asleep with the mutex: nothing is claimed of
a thread that competes for the mutex, which POSIX does not make fair.

**Findings**

1. `PlanificadorNoEsperaInstancias` (`planificador_corto.c:198-199`): between
   `recurso_disponible` and `wait_recurso` the thread of the resource may take the
   last instance; the short-term scheduler sleeps with the CPU reserved.
2. `FinalizadoNoVuelve` (`gestor_io.c:92`, `colas_planificador.c:300`): a process
   blocked on an interface and sent to EXIT by the console goes back to READY when
   the device ends.
3. `QuantumConsumido` (`planificador_corto.c:149`, `:350`): a process that comes back
   with INTERRUPCION_QUANTUM need not have used its quantum: the thread of a process
   that left for an error, out of memory or a resource is not cancelled, and
   interrupts whoever it finds in EXECUTE.
4. `LruSacaLaMenosUsada` (`tlb.c:106`, with `:38`, `:55`, `:87`): the ages grow on
   insertion only. Miss page 0, hit page 0, miss page 1: both get age 1, the tie goes to
   the last of the list, and page 1, used last, is the one evicted under
   `ALGORITMO_TLB=LRU`.

Two more disagreements are too plain for a run. The scheduling starts active
(`detener_planificacion.c:3`, and so do `Pausa` and `Kernel`), while `src/README.md:35` says
it starts stopped. IO_FS_WRITE writes a byte more than the size it is given, a zero
(`io_dialfs.c:93`), while the comment at `execute.c:425-427` says the bytes of Registro
Tamaño: in the middle of a file it destroys the byte that follows, and there
`ImplementaArchivos` claims nothing further (`PisaUnoMas`).

## 4. Proofs

TLC checks small instances; these hold for **every** value of the constants that
satisfies the named assumptions, which every run of the module evaluates:

| Assumption | What it says |
|---|---|
| `ConstantesOK`, `PausaOK`, `MemoriaOK`, `DesalojoOK`, `DialFSOK`, `EjecucionOK`, `OperandosOK` | natural bounds, positive sizes and widths, known algorithms, finite sets of processes and names, NULL not a number |
| `BitmapEntero` (`DialFS`) | the bitmap file has a bit for every block: `block_count` is a multiple of `BITS` |
| `InstruccionesOK` (`DialFS`, `Ejecucion`), `AccesosOK` (`DialFS`) | the instructions of the programs have the operands `execute.c` reads; the requests the MMU attaches are natural numbers and move at least a byte |
| `NullNoEsEntrada`, `NullNoEsLista`, `NullNoEsPcb`, `NullNoEsContenido`, `NullNoEsPedido`, `NullNoEsSolicitud` | the model value NULL is none of the records and sequences it stands in for |

Four hypotheses appear in theorems instead, because the property is false without
them and the code does not exclude what they exclude:

* *no* FINALIZAR_PROCESO, `"FINALIZAR_PROCESO" \notin Eventos`: it is the one operation
  that moves a process while another thread has it in hand. The run
  `kernel_finalizar` says what is left with it, and its properties are theorems
  without this hypothesis (`UnaCpu`, `NadieSinAviso`, `NingunaInstanciaSePierde`).
* *no race*, `SinCarreras`: no two threads have met in a list without a lock in common.
  It is in the statement of `AvisosJustos`, `CadaProcesoEnUnLugar`,
  `InstanciasConservadas`, `InstanciasNoSePierden` and `CaeSoloPorDesconexion`, which are
  false without it, and in the theorems on `EstadoSegunCola`, `ImplementaDiagrama`,
  `ExitSinRecursos` and `GradoConservado`, whose proofs go through the exact places. TLC
  checks these four in the run `kernel` without it, with one list spoilt; for more lists
  they are not claimed. `Tipos`, `UnaCpu`, `NadieSinAviso` and `VidaInvariante` need
  neither.
* *one change*, `MaxCambios <= 1`: a second MULTIPROGRAMACION overwrites the debt of the
  first.
* *pairs*, `Disciplinados`: a program that SIGNALs what it did not WAIT for creates an
  instance.

`KernelProofs`:

* `Tipos`: `Spec => []TypeOK`. `UnaCpu`: `Spec => []UnSoloProcesoEnCpu`.
* `TypeOK` is not inductive: `pop_and_destroy_execute` takes `Tail` of EXECUTE,
  which is a sequence of processes only if EXECUTE is not empty. That is what
  `UnSoloProcesoEnCpu` gives: while the short-term scheduler attends an answer,
  EXECUTE is exactly the process it dispatched. The inductive invariant `IndInv`
  is their conjunction. That FINALIZAR_PROCESO does not break it is the content of
  the theorem: the console looks at EXECUTE but takes nothing from it. Nor do the races:
  EXECUTE has one writer, and a reader that meets its pop ends the kernel (`ExecuteSana`).
* Lemmas on the operations come first (`EncolarReady`, `EncolarExit`,
  `SacarDelMedio` for removing a PID from the middle of a queue, `CpuAjena` for
  the actions that leave the CPU alone), then one lemma per thread with one step
  per action, under it what the action leaves alone, what it changes, and the CPU.

In its second half, a ledger of posts. `SobraNew`, `SobraReady`, `SobraIO(i)` and
`SobraRecurso(r)` are, for each queue, what its semaphore counts plus the post its
consumer has taken and not used, minus the processes queued.

* `NadieSinAviso`: `Spec => []AvisosSuficientes`, for every set of events. The inductive
  invariant `AvInv` says that no `Sobra` is negative. Nearly every step changes none
  (`Reparto`); a removal by FINALIZAR_PROCESO raises one; the only thread that lowers one is
  that of a resource which finds its queue empty, and there the excess was positive.
  A spoilt list only loses processes, which raises it too.
* `AvisosExactos`: `[]AvisosJustos` without FINALIZAR_PROCESO, where every `Sobra` is zero
  (`JustoInv`) until a list is spoilt.
* `CaidaPorDesconexion`: `[]CaeSoloPorDesconexion` without FINALIZAR_PROCESO. With exact
  posts no pop meets an empty queue (`CaidaInv`), nor does the pop of the priority queue,
  which only the scheduler empties; that leaves the two lookups of an interface after the
  first as the only NULLs.

`EstadosProofs`, where each process is. The first theorems are without FINALIZAR_PROCESO,
and until a list is spoilt (`EstadosSanos` is `SinCarreras => EstadosInv`, and so on):

* `EstadosInv` says, for each value of `estado`, which queue or which thread between two
  queues has the process, and that it is there once: the hands of a thread must be part
  of it, since half of the hand-overs go through them. It needs the exactness of the
  posts, for a thread that wakes must find a process to take.
* `EstadosConCola` (`EstadoSegunCola`), `UnLugarCadaUno` (`CadaProcesoEnUnLugar`) and
  `RefinaDiagrama` (`ImplementaDiagrama`: every step is an arrow of the diagram of one
  process or a stutter) follow from it, the last thread by thread.
* `ExitLibera` (`ExitSinRecursos`): who goes to EXIT is emptied by the thread that put it
  there (`SinRetener`), and meanwhile and afterwards nobody gives an instance to a process
  that is not waiting for it.
* `GradoSeConserva` (`GradoConservado`; one change): slots free, taken by processes between
  admission and EXIT (`Cuantos`, a cardinality) and owed by a reduction add up (`Balance`);
  an exit pays a unit of the debt instead of posting, reading it and storing it in two
  steps, and between them nobody else may change it (`DeudaInv`).
* `InstanciasSeConservan` (`InstanciasConservadas`; pairs): free instances, the one a
  thread has taken and not assigned, and the owners add up to the configured number, for
  each resource (`InstInv`).

and the last part is with it:

* `EstadosInv` is false there: the console takes a process out of a queue while a thread
  has it in hand, and `estado` no longer says where it is. `VidaInvariante`, for every set
  of events, says what remains: a process is in at most one of the places it may still
  run from (`UnaVida`), no queue repeats a process, and a thread that works for the process
  it peeked finds it at the head still or not at all (`EnOrden`). It holds because what the
  console takes goes only to EXIT, from which nobody takes, and because a thread lets
  go of a process in the same step in which a queue gets it.
* `NingunaInstanciaSePierde` (`InstanciasNoSePierden`; pairs). FINALIZAR_PROCESO releases
  what a process holds, once for each queue it passes, though it may still run; so the sum
  of `InstInv` becomes an inequality (`Prestado`). To keep it, nobody may be given an
  instance it already has: a process that asked has none (`SolicitudInv`: a release by the
  console can only help) and one that waits has one only while its thread has served it and
  not yet taken it out of the queue (`TurnoUnico`). That a process waits for one resource
  at a time, and is not served while it runs, is `VidaInv`.

`PausaProofs`:

* `ExclusionMutua`, `SalidaActiva`, `NingunAvisoPerdido`: the three invariants of
  `Pausa`, inductive together with its `TypeOK`. Whoever is between the lock and the unlock, asleep or
  not, excludes the one action that clears the flag; so the flag it saw still
  holds when it leaves, and a thread asleep under a set flag has a post to take.
* `Tipos`: `Spec => []TypeOK`, from the same invariant.
* `Refinamiento`: `Spec => ImplementaPuerta`, for any set of threads, which is
  what justifies the one-step gate of `Kernel`. Only the unlock maps to `Pasa`,
  and `SaleConLaPlanificacionActiva` is what makes that step legal.

`DesalojoProofs`, for any number of processes, dispatches, interruptions and quantum
threads. The inductive invariant `DesalojoInv` has three parts.

* `TipoInv`, the types, gives `Tipos`. `DuenoInv` says where the PCB is and that EXECUTE is
  of that process, and gives `UnDueno` (`UnSoloDueno`).
* `ViajeInv` says what is in the packets on their way: the PCB one side sent. It gives
  `PcbSinCambios` (`PcbFiel`), through the lemma `PcbViaja` (from those of `MensajesProofs`):
  for every PCB, whatever request it carries, the fields that `recibir_pcb` takes one
  after another are those that `enviar_pcb` put. OUT_OF_MEMORY is the exception the invariant names: the CPU
  packs the PCB before it advances the program counter.
* `UnDesalojo` (`UnDesalojoPorInterrupcion`): a raised flag, and a CPU about to send an
  interrupted PCB, are each an interruption accepted and not yet paid with an eviction;
  the two may hold at once, and then they are two (`CuentaInv`).

`MemoriaProofs`:

* `Tipos`: `Spec => []TypeOK`, whose content is that no page table ever holds the -1
  of a search that finds no frame. It needs a long inductive invariant, `IndInv`: a
  frame counted as free when a RESIZE is accepted is still free when it is taken
  (`Alcanza`), for the other thread only frees; and the table that a loop of the CPU's
  thread uses is there until the loop ends or the model stops (`LiberarEnUso`).
* `AbortoAcotado`: `Spec => []AbortoSoloAlLiberar`, one of the conjuncts. A process that no
  gestor_io has put back is freed only once it is out of the queues of the kernel and off
  the CPU, and one not yet created is in nobody's hands, for a PID is given once; so the
  CPU's thread works for a loaded process, unless it is one of `resucitados`.
* `Marcos`: `Spec => []MarcosConservados`. On top of `IndInv`, `Repartidos` says in
  terms of the tables who has each frame: pages are marked (`Marcadas`), no two are
  the same frame (`Ajenas`), marked frames are somebody's (`Conocidas`), and the frame
  between its entry in a table and its mark is the running process's (`EnManos`). It is
  inductive relative to `IndInv`; the one delicate step is that the process whose
  frames go to the thread that frees is not the one that grows.
* `Admision`: `Spec => []AdmitidosCargados`. `AdmisionInv` adds that a SUCCESS in the socket
  with the PID the console is creating is of a process that is loaded, and stays so until
  the console reads it; where another thread's answer was taken for it, `cruzados` has
  the process, and where it was put back after its end, `resucitados`: nothing is claimed.
* Lemmas on frames and tables (`Disponible`: the search succeeds while frames are
  left; `Marcar`, `Desmarcar`; `FrenteYFondo`) come first, then one lemma per thread.

`DialFSProofs`, for any names, any device with `BitmapEntero`, any programs, and any number of falls. The
inductive invariant is `Tipo /\ Guarda /\ Antes`.

* `Tipo` gives `Tipos` (`TypeOK`), also after the promise is broken: a request is always one
  that `io_dialfs` can take out of a packet (`Pedidos`), and each step of a request has a
  legible FCB when the code dereferences one.
* `Guarda`, while the promise lasts: the list of FCBs mirrors the directory (`Espejo`), so a
  restart finds the same files in any order; and `Reparto` says who has each block at each
  step of a request. `Propios` are the blocks the request has in hand (the one a create
  marked, those a truncate is about to mark), `Salvo` the FCB whose entry is not to be
  believed meanwhile. Between requests both are empty, and `Reparto` is `BitmapFiel`
  (`BitmapExacto`).
* Compaction breaks `Reparto` for as long as it lasts, for the bitmap is cleared first.
  `Compacto` takes its place: the files already moved fill the blocks below `alto`, those
  that wait are still disjoint, and all of them fit above it (`PorMover`, a cardinality).
  So `buscar_bloque_libre` always finds `alto` itself, the blocks that follow are free, and
  the device does not run out: the content of `MuerteJustificada`
  (`MuereSoloSinArchivo`), with `Antes` (what the process may die of).

And last `RefinaArchivos`, that is `Spec => ImplementaArchivos`, with the same
generality. The mapping shows the abstraction the contents at the last answer
(`previo`) while a request runs and those on the device between requests (`Contenido`).

* `Fiel`, inductive relative to that invariant, says what the device holds
  at each step of a request. Until the last write, `previo` can still be read from it
  (`Archivados`: the bytes of each file as its entry delimits them). While a compaction
  runs the moved files are read from the copy `espacio` and the others from the blocks
  (`Movidos`); when a truncate has saved its new size, `previo` is what the old size
  would read (`marcar`); `Suyo` ties each step to its operation.
* The last write of each request is then a step of `Archivos`, one lemma for each
  (`EsCrear`, `EsEliminar`, `EsTruncar`, `EsEscribir`, `EsLeer`); every other step is a
  stutter, a refusal or a fall (`Permitido`).
* What the bytes need: bytes of different blocks are different (`Division`, `Octetos`), so a
  write within a file's blocks leaves every other file as it was (`Aparte`, `Intactos`), and
  a file moved to free blocks reads the same there (`Mudanza`), because `Reparto` and
  `Compacto` keep the blocks apart.
* IO_FS_WRITE and IO_FS_READ cut the text into one piece for each request to memory and put
  the pieces together, with recursive functions and folds. `HaySuma`, `Acumula` (of
  `MensajesProofs`), `Aplana`, `Unidos` and `Distribuye` say what these compute, by least
  counterexample: the set of the lengths for which the claim fails is a subset of Nat and
  has no least element (`Minimo`).

`EjecucionProofs`, for any programs, number of processes and frames, page size, width of
the registers, and configuration of the TLB. Nothing in it needs the promise.

* `EjecucionInvariante`: the inductive invariant, `EjecucionInv`. `TypeOK` is not inductive:
  a MOV_IN gives a register the bytes it reads only if what `mmu` asks for is as long as
  the register (`Reparte`), and STDIN writes a page only if the text still held is as long
  as the requests left (`Servicio`). `EjecucionTipada` (`TypeOK`) and `FramesPropios`
  (`FramesSinCompartir`) follow.
* `TlbSinDuplicados` (`TlbSinRepetidas`) and `LruEligeCasiLaVieja` (`VictimaLruCasiVieja`):
  `TlbBien` holds of the TLB before and after each page of an access, by a hit (`Acierto`)
  or an insertion (`Agrega`, after `HaceLugar`). Its parts `Edades` and `Orden` bound what
  LRU may get wrong: the age the code keeps is the number of insertions since the last
  use, and no fewer insertions came before a later use.
* What a recursive function or a fold computes comes first, by least counterexample: the
  loop of `mmu` (`Traduccion`: it keeps `TlbBien`, and its requests are for frames of the
  memory and add up to the bytes of the access), the maximum by a fold (`Victima`), the
  writes and reads of several requests (`EscribeVarias`, `LeeVarias`), a register in bytes
  and back (`BytesDeUno`, `ValorDeBytes`). The folds of the community modules iterate over
  a CHOOSE of which element goes next; `HayIteracion` says that the iteration exists for
  any such choice.
* `get_available_frame` gives the free frames in order: a RESIZE of n pages takes those
  with 0, 1, .., n - 1 free frames below (`HayRango`, a cardinality), so they are different.
* `SolicitudViaja`: the interface receives the requests and the operation the CPU put in the
  PCB, through the kernel, from the lemmas on both packets.

**Only model-checked**

* Liveness: `ListoLlegaACpu`, `BloqueadoVuelve`, `RafagaAcotada`, `PedidoRespondido`,
  `DormidoPasa`; and `SoloTrabaLaSegundaParada`, which is about ENABLED.
* `ImplementaCpuLogica`: besides what `EjecucionProofs` has, it needs that each byte of an
  access goes to its own address, request by request, and what a stale TLB entry may
  still name while the promise lasts.

## 5. Not modelled, and why

* The lines of TCP: byte layouts, partial sends, buffer sizes. A packet arrives whole.
* `Kernel` lets a quantum end at any answer under RR and VRR; the threads that end it
  are `Desalojo`'s. That a quantum thread peeks EXECUTE while it is emptied is in
  `Kernel` (`LecturaRota`) as a race: `CaeSoloPorDesconexion` claims nothing after it.
* The contents of a connection that is freed while a validation still reads it (only
  that it may not be noticed: `CortoValidaIO`), and the order of the list of connections.
* More than `MaxCarreras` lists spoilt at once, in TLC's runs; what a spoilt list can do
  besides losing elements, giving one to two takers or killing the kernel.
* The program counter as the operand of SET, SUM and SUB (a jump).
* Two processes that each hold the instance the other waits for (`recurso.c:95`): the
  kernel does not detect it and says so nowhere; the operator ends it with
  FINALIZAR_PROCESO. A second MULTIPROGRAMACION, which overwrites the debt of the first
  (`consola.c:137`).
* Inside the memory an instruction's read or write of bytes is one step in `Ejecucion`;
  the thread that frees does not touch bytes, so no property could tell.
* DialFS: a number of five digits overflows `valor_char` (`fs_fcb.c:85`), which no
  small device reaches; `fs_fcb.c:32` opens entries by bare name, so recovery is
  modelled as it works with PATH_BASE the working directory; reads of the mapping past
  the device give zeros. A copy of bytes is one step: a fall leaves it whole or not
  begun.
* The generic interface sleeps and answers: it is the device of `Kernel`.
* EJECUTAR_SCRIPT is a sequence of the commands modelled; PROCESO_ESTADO prints.
* The parsing of commands and instructions from text, configuration, logs.

## 6. Plan

Done: the modules of section 2, their runs, and the proofs of section 4. What would
come next is `ImplementaCpuLogica`, from `EjecucionInv` and the addresses of each request.
