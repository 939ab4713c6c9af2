------------------------------- MODULE DialFS -------------------------------
(***************************************************************************)
(* The file system interface (io_dialfs.c, filesystem.c, fs_blocks.c,      *)
(* fs_fcb.c): contiguous files on a device of blocks, a bitmap, one        *)
(* directory entry per file and the list of FCBs that mirrors them.  The   *)
(* interface serves one request at a time; the process may be killed       *)
(* between any two of its writes and started again on what it left: the    *)
(* blocks and the bitmap are mapped files, the entries are saved whole.    *)
(***************************************************************************)
EXTENDS Integers, Mensajes, FiniteSets, SequencesExt

CONSTANTS
  Nombres,         \* file names
  Instrucciones,   \* instructions of the programs on this interface, tokenised
  Accesos,         \* lists of requests the MMU may attach to IO_FS_WRITE and IO_FS_READ
  Letras,          \* the bytes a program writes; 0 is what the device starts with
  block_count,
  block_size,
  BITS,            \* bits per byte of the bitmap: 8
  MaxRotas         \* bound: requests served once the promise of Archivos is broken

ASSUME DialFSOK ==
  /\ block_count \in Nat \ {0} /\ block_size \in Nat \ {0} /\ MaxRotas \in Nat
  /\ IsFiniteSet(Nombres) /\ Letras \subseteq Nat \ {0}
  /\ BITS \in Nat \ {0} /\ NULL \notin Nat

\* bitmap.dat has block_count / BITS whole bytes (32 and 1024 bits in the configs
\* of the repository): of no bytes there is no mapping, and the bits of the blocks
\* past the last whole byte would not outlive the process.
bits_del_archivo == (block_count \div BITS) * BITS
ASSUME BitmapEntero == bits_del_archivo = block_count

\* The programs are well formed: every instruction comes with its operands.
ASSUME InstruccionesOK ==
  \A t \in Instrucciones :
    /\ Len(t) \in Nat \ {0, 1, 2} /\ t = [k \in 1 .. Len(t) |-> t[k]]
    /\ t[3] \in Nombres
    /\ \/ t[1] \in {"IO_FS_CREATE", "IO_FS_DELETE"}
       \/ t[1] = "IO_FS_TRUNCATE" /\ Len(t) = 4 /\ t[4] \in Nat
       \/ t[1] \in {"IO_FS_WRITE", "IO_FS_READ"} /\ Len(t) = 6 /\ t[6] \in Nat

ASSUME AccesosOK ==
  \A a \in Accesos :
    /\ a \in Seq([direccion_fisica : Nat, tam_dato : Nat])
    /\ peticiones_tam_total(a) \in Nat \ {0}

VARIABLES
  disco,        \* the directory: NULL, or what the file of each name holds
  fcb_list,     \* [nombre, config]
  BLOQ_BITMAP,  \* with the bits past the device that the mapping also has
  BLOQUES,
  op,           \* the request being served and how far it is
  leidos,       \* what the last IO_FS_READ sent to memory
  previo,       \* contents of the files when the request arrived
  perdidos,     \* blocks a fall left marked and in no file
  promesa,      \* nothing has broken the promise of Archivos
  rotas         \* requests received since

vars == <<disco, fcb_list, BLOQ_BITMAP, BLOQUES, op, leidos, previo, perdidos, promesa, rotas>>

tam_filesystem == block_count * block_size
Bloques == 0 .. block_count - 1
Bytes == 0 .. tam_filesystem - 1

\* An entry with no keys: opened with O_CREAT or O_TRUNC and never written.
SinClaves == [bloque |-> NULL, tam |-> NULL]

ASSUME NullNoEsEntrada == NULL \notin [bloque : Bloques, tam : Nat] \cup {SinClaves}
ASSUME NullNoEsContenido == NULL \notin Seq(Letras \cup {0})

Reposo == [paso |-> "recibir", pedido |-> NULL, inicial |-> 0, i |-> 0, espacio |-> <<>>]
Caido(pedido, firme) == [paso |-> "caido", pedido |-> pedido, firme |-> firme]

Init ==
  /\ disco = [n \in Nombres |-> NULL] /\ fcb_list = <<>>
  /\ BLOQ_BITMAP = {} /\ BLOQUES = [b \in Bytes |-> 0]
  /\ op = Reposo /\ leidos = NULL /\ previo = NULL
  /\ perdidos = {} /\ promesa = TRUE /\ rotas = 0

-----------------------------------------------------------------------------
(***************************************************************************)
(* Blocks and FCBs.  BLOQ_BITMAP is the set of the marked blocks.          *)
(***************************************************************************)
calcular_bloques_necesarios(size) ==
  IF size = 0 THEN 1 ELSE (size + block_size - 1) \div block_size
calcular_byte_inicial_de_bloque(bloque) == bloque * block_size

\* Defect: looks one block past the device.
buscar_bloque_libre_UnoMas(bitmap) ==
  LET libres == 0 .. block_count \ bitmap
  IN  IF libres = {} THEN -1 ELSE CHOOSE b \in libres : \A c \in libres : b <= c

\* The lowest, or -1.
buscar_bloque_libre(bitmap) ==
  LET libres == Bloques \ bitmap
  IN  IF libres = {} THEN -1 ELSE CHOOSE b \in libres : \A c \in libres : b <= c

\* Defect: leaves out the last one.
liberar_bloques_bitmap_por_rango_Corto(bitmap, desde, hasta) == bitmap \ (desde .. hasta - 1)

asignar_bloques_bitmap_por_rango(bitmap, desde, hasta) == bitmap \cup (desde .. hasta - 1)
liberar_bloques_bitmap_por_rango(bitmap, desde, hasta) == bitmap \ (desde .. hasta)

\* Defect: nothing is cleared.
liberar_bitmap_de_bloques_Nada(bitmap) == bitmap

\* One bit past the device is cleared too.
liberar_bitmap_de_bloques(bitmap) == bitmap \ (0 .. block_count)

\* Defect: looks at one block less than it needs.
hay_bloques_contiguos_para_extender_UnoMenos(bloque, actuales, necesarios) ==
  \A b \in bloque + actuales .. bloque + actuales + necesarios - 2 : b \notin BLOQ_BITMAP

\* Bits past the device read as free.
hay_bloques_contiguos_para_extender(bloque, actuales, necesarios) ==
  \A b \in bloque + actuales .. bloque + actuales + necesarios - 1 : b \notin BLOQ_BITMAP

hay_bloques_libres_suficientes(necesarios) ==
  Cardinality(Bloques \ BLOQ_BITMAP) >= necesarios

\* Position in fcb_list of the first FCB with the name, or 0.
obtener_fcb_por_nombre(nombre) == SelectInSeq(fcb_list, LAMBDA f : f.nombre = nombre)

Legible(k) == k # 0 /\ fcb_list[k].config # SinClaves
Ocupa(config) == config.bloque .. config.bloque + calcular_bloques_necesarios(config.tam) - 1

\* Past the device the last page of the mapping reads as zeros.
Byte(b) == IF b \in Bytes THEN BLOQUES[b] ELSE 0
LeeBloques(posicion, tam) == [k \in 1 .. tam |-> Byte(posicion + k - 1)]
Pisa(destino, posicion, datos) ==
  [b \in Bytes |-> IF posicion <= b /\ b < posicion + Len(datos)
                   THEN datos[b - posicion + 1] ELSE destino[b]]

\* set_campo_de_archivo ends in config_save: both fields go to the directory.
set_campo_de_archivo(k, config) ==
  /\ fcb_list' = [fcb_list EXCEPT ![k].config = config]
  /\ disco' = [disco EXCEPT ![fcb_list[k].nombre] = config]

\* The contents of the files, seen through the FCBs.
Contenido ==
  [n \in Nombres |->
     LET k == obtener_fcb_por_nombre(n)
     IN  IF ~Legible(k) THEN NULL
         ELSE LeeBloques(calcular_byte_inicial_de_bloque(fcb_list[k].config.bloque),
                         fcb_list[k].config.tam)]

-----------------------------------------------------------------------------
(***************************************************************************)
(* The request, from the kernel to the loop of io_dialfs                   *)
(***************************************************************************)
enviar_instruccion_io_segun_op(tokens, peticiones) ==
  CASE tokens[1] = "IO_FS_CREATE" ->
         enviar_solicitud_accion_archivo_fs("CREAR_ARCHIVO_FS", list_get(tokens, 2), NULL)
    [] tokens[1] = "IO_FS_DELETE" ->
         enviar_solicitud_accion_archivo_fs("ELIMINAR_ARCHIVO_FS", list_get(tokens, 2), NULL)
    [] tokens[1] = "IO_FS_TRUNCATE" ->
         enviar_solicitud_truncar_archivo_fs(list_get(tokens, 2), list_get(tokens, 3), NULL)
    [] OTHER -> enviar_instruccion_io(tokens, peticiones, NULL)

\* "datos" is what memory answers to the requests of a write.
io_dialfs(paquete, datos) ==
  LET accion == recibir_solicitud_accion_archivo_fs(paquete.campos)
      truncar == recibir_solicitud_truncar_archivo_fs(paquete.campos)
      instr == recibir_instruccion_io(paquete.campos)
      comun == [op |-> instr.tokens[1], nombre |-> list_get(instr.tokens, 2),
                puntero |-> list_get(instr.tokens, 5),
                tam |-> peticiones_tam_total(instr.peticiones_memoria),
                peticiones |-> instr.peticiones_memoria,
                datos |-> IF instr.tokens[1] = "IO_FS_WRITE" THEN datos ELSE <<>>]
  IN  CASE paquete.codigo = "CREAR_ARCHIVO_FS" ->
             [op |-> "IO_FS_CREATE", nombre |-> accion.nombre_archivo]
        [] paquete.codigo = "ELIMINAR_ARCHIVO_FS" ->
             [op |-> "IO_FS_DELETE", nombre |-> accion.nombre_archivo]
        [] paquete.codigo = "TRUNCAR_ARCHIVO_FS" ->
             [op |-> "IO_FS_TRUNCATE", nombre |-> truncar.nombre_archivo,
              tam |-> truncar.tamanio_archivo]
        [] paquete.codigo = "EJECUTAR_INSTRUCCION_IO" -> comun

ASSUME NullNoEsPedido ==
  \A t \in Instrucciones, a \in Accesos :
    \A datos \in [1 .. peticiones_tam_total(a) -> Letras] :
      io_dialfs(enviar_instruccion_io_segun_op(t, a), datos) # NULL

Rompe(si) == promesa' = (promesa /\ ~si)
SinDisco == UNCHANGED <<disco, fcb_list, BLOQ_BITMAP, BLOQUES, perdidos>>

Recibe ==
  /\ op = Reposo /\ (promesa \/ rotas < MaxRotas)
  /\ \E tokens \in Instrucciones, acceso \in Accesos :
       \E datos \in [1 .. peticiones_tam_total(acceso) -> Letras] :
         op' = [Reposo EXCEPT !.paso = "atender", !.pedido =
                  io_dialfs(enviar_instruccion_io_segun_op(tokens, acceso), datos)]
  /\ leidos' = NULL /\ previo' = Contenido
  /\ rotas' = IF promesa THEN rotas ELSE rotas + 1
  /\ UNCHANGED promesa /\ SinDisco

Atiende(operacion) == op.paso = "atender" /\ op.pedido.op = operacion
Avanza(paso) == op' = [op EXCEPT !.paso = paso] /\ UNCHANGED <<leidos, previo, rotas>>

\* FIN_EJECUCION_IO, whether it went well or not.
Responde == op' = Reposo /\ previo' = NULL /\ UNCHANGED <<leidos, rotas>>

\* A NULL FCB, or an entry without keys, is dereferenced.
Muere == op' = Caido(op.pedido, promesa) /\ UNCHANGED <<leidos, previo, rotas>>

-----------------------------------------------------------------------------
(***************************************************************************)
(* IO_FS_CREATE and IO_FS_DELETE                                           *)
(***************************************************************************)
\* The entry is emptied before a block is looked for; creating a file that
\* exists leaves its FCB in front of the new one.
CrearAbre ==
  /\ Atiende("IO_FS_CREATE")
  /\ disco' = [disco EXCEPT ![op.pedido.nombre] = SinClaves]
  /\ Avanza("asignar") /\ Rompe(obtener_fcb_por_nombre(op.pedido.nombre) # 0)
  /\ UNCHANGED <<fcb_list, BLOQ_BITMAP, BLOQUES, perdidos>>

CrearSinLugar ==
  /\ op.paso = "asignar" /\ buscar_bloque_libre(BLOQ_BITMAP) = -1
  /\ Responde /\ SinDisco /\ UNCHANGED promesa

CrearAsigna ==
  /\ op.paso = "asignar" /\ buscar_bloque_libre(BLOQ_BITMAP) # -1
  /\ LET bloque == buscar_bloque_libre(BLOQ_BITMAP)
     IN  /\ BLOQ_BITMAP' = BLOQ_BITMAP \cup {bloque}
         /\ op' = [op EXCEPT !.paso = "escribir", !.inicial = bloque]
  /\ UNCHANGED <<disco, fcb_list, BLOQUES, leidos, previo, perdidos, promesa, rotas>>

CrearEscribe ==
  /\ op.paso = "escribir"
  /\ LET config == [bloque |-> op.inicial, tam |-> 0]
     IN  /\ disco' = [disco EXCEPT ![op.pedido.nombre] = config]
         /\ fcb_list' = Append(fcb_list, [nombre |-> op.pedido.nombre, config |-> config])
  /\ Responde /\ UNCHANGED <<BLOQ_BITMAP, BLOQUES, perdidos, promesa>>

EliminarMuere ==
  /\ Atiende("IO_FS_DELETE") /\ ~Legible(obtener_fcb_por_nombre(op.pedido.nombre))
  /\ Muere /\ SinDisco /\ UNCHANGED promesa

eliminar_bloques_ocupados_por_archivo ==
  /\ Atiende("IO_FS_DELETE") /\ Legible(obtener_fcb_por_nombre(op.pedido.nombre))
  /\ LET config == fcb_list[obtener_fcb_por_nombre(op.pedido.nombre)].config
         bloques == calcular_bloques_necesarios(config.tam)
     IN  BLOQ_BITMAP' = liberar_bloques_bitmap_por_rango(BLOQ_BITMAP, config.bloque,
                                                         config.bloque + bloques - 1)
  /\ Avanza("remover") /\ UNCHANGED <<disco, fcb_list, BLOQUES, perdidos, promesa>>

\* Without a file to remove the FCB stays, its blocks free.
EliminarRemueve ==
  /\ op.paso = "remover"
  /\ IF disco[op.pedido.nombre] = NULL THEN UNCHANGED <<disco, fcb_list>>
     ELSE /\ disco' = [disco EXCEPT ![op.pedido.nombre] = NULL]
          /\ fcb_list' = RemoveAt(fcb_list, obtener_fcb_por_nombre(op.pedido.nombre))
  /\ Responde /\ UNCHANGED <<BLOQ_BITMAP, BLOQUES, perdidos, promesa>>

-----------------------------------------------------------------------------
(***************************************************************************)
(* IO_FS_TRUNCATE                                                          *)
(***************************************************************************)
\* fs_open creates the entry of a file that does not exist.
TruncarAbre ==
  /\ Atiende("IO_FS_TRUNCATE")
  /\ disco' = [disco EXCEPT ![op.pedido.nombre] = IF @ = NULL THEN SinClaves ELSE @]
  /\ IF Legible(obtener_fcb_por_nombre(op.pedido.nombre)) THEN Avanza("truncar") ELSE Muere
  /\ UNCHANGED <<fcb_list, BLOQ_BITMAP, BLOQUES, perdidos, promesa>>

ATruncar == obtener_fcb_por_nombre(op.pedido.nombre)
Config == fcb_list[ATruncar].config
bloques_a_ocupar == calcular_bloques_necesarios(op.pedido.tam)
bloques_actuales_ocupados == calcular_bloques_necesarios(Config.tam)
bloques_necesarios == bloques_a_ocupar - bloques_actuales_ocupados
Crece == op.pedido.tam > Config.tam
HayContiguos ==
  hay_bloques_contiguos_para_extender(Config.bloque, bloques_actuales_ocupados,
                                      bloques_necesarios)

\* What follows is done at the block where the file is.
TruncarEnSuLugar ==
  /\ op.paso = "truncar" /\ (Crece => HayContiguos)
  /\ BLOQ_BITMAP' = IF Crece THEN BLOQ_BITMAP
                    ELSE liberar_bloques_bitmap_por_rango(
                           BLOQ_BITMAP, Config.bloque + bloques_a_ocupar,
                           Config.bloque + bloques_actuales_ocupados - 1)
  /\ op' = [op EXCEPT !.paso = "guardar", !.inicial = Config.bloque]
  /\ UNCHANGED <<disco, fcb_list, BLOQUES, leidos, previo, perdidos, promesa, rotas>>

TruncarSinLugar ==
  /\ op.paso = "truncar" /\ Crece /\ ~HayContiguos
  /\ ~hay_bloques_libres_suficientes(bloques_necesarios)
  /\ Responde /\ SinDisco /\ UNCHANGED promesa

\* The file goes to the end of the list; compactar starts by clearing the bitmap.
TruncarCompacta ==
  /\ op.paso = "truncar" /\ Crece /\ ~HayContiguos
  /\ hay_bloques_libres_suficientes(bloques_necesarios)
  /\ fcb_list' = Append(RemoveAt(fcb_list, ATruncar), fcb_list[ATruncar])
  /\ BLOQ_BITMAP' = liberar_bitmap_de_bloques(BLOQ_BITMAP) /\ perdidos' = {}
  /\ op' = [op EXCEPT !.paso = "compactar", !.i = 1, !.espacio = [b \in Bytes |-> 0]]
  /\ UNCHANGED <<disco, BLOQUES, leidos, previo, promesa, rotas>>

\* One FCB: its first block is looked for, the others are the ones that follow.
compactar ==
  /\ op.paso = "compactar" /\ op.i <= Len(fcb_list) /\ Legible(op.i)
  /\ buscar_bloque_libre(BLOQ_BITMAP) # -1
  /\ LET config == fcb_list[op.i].config
         nuevo == buscar_bloque_libre(BLOQ_BITMAP)
         datos == LeeBloques(calcular_byte_inicial_de_bloque(config.bloque), config.tam)
     IN  /\ BLOQ_BITMAP' = asignar_bloques_bitmap_por_rango(
                             BLOQ_BITMAP, nuevo, nuevo + calcular_bloques_necesarios(config.tam))
         /\ set_campo_de_archivo(op.i, [config EXCEPT !.bloque = nuevo])
         /\ op' = [op EXCEPT !.i = @ + 1,
                             !.espacio = Pisa(@, calcular_byte_inicial_de_bloque(nuevo), datos)]
  /\ UNCHANGED <<BLOQUES, leidos, previo, perdidos, promesa, rotas>>

\* An FCB without keys, or no block left for one.
CompactarMuere ==
  /\ op.paso = "compactar" /\ op.i <= Len(fcb_list)
  /\ ~Legible(op.i) \/ buscar_bloque_libre(BLOQ_BITMAP) = -1
  /\ Muere /\ Rompe(TRUE) /\ SinDisco

CompactarTermina ==
  /\ op.paso = "compactar" /\ op.i > Len(fcb_list)
  /\ BLOQUES' = op.espacio
  /\ op' = [op EXCEPT !.paso = "guardar", !.inicial = Config.bloque, !.i = 0, !.espacio = <<>>]
  /\ UNCHANGED <<disco, fcb_list, BLOQ_BITMAP, leidos, previo, perdidos, promesa, rotas>>

\* BLOQUE_INICIAL is saved next, with the value it already has.
TruncarGuarda ==
  /\ op.paso = "guardar"
  /\ set_campo_de_archivo(ATruncar, [bloque |-> op.inicial, tam |-> op.pedido.tam])
  /\ Avanza("marcar") /\ UNCHANGED <<BLOQ_BITMAP, BLOQUES, perdidos, promesa>>

\* The file may now end past the device.
TruncarMarca ==
  /\ op.paso = "marcar"
  /\ BLOQ_BITMAP' = asignar_bloques_bitmap_por_rango(BLOQ_BITMAP, op.inicial,
                                                     op.inicial + bloques_a_ocupar)
  /\ Rompe(op.inicial + bloques_a_ocupar > block_count)
  /\ Responde /\ UNCHANGED <<disco, fcb_list, BLOQUES, perdidos>>

-----------------------------------------------------------------------------
(***************************************************************************)
(* IO_FS_WRITE and IO_FS_READ: a byte more than the requests ask for, and  *)
(* the size of the file is not looked at                                   *)
(***************************************************************************)
Posicion(pedido) ==
  LET k == obtener_fcb_por_nombre(pedido.nombre)
  IN  calcular_byte_inicial_de_bloque(fcb_list[k].config.bloque) + pedido.puntero
Cabe(pedido) == Posicion(pedido) + pedido.tam + 1 <= tam_filesystem

\* The zero that follows the text falls on a byte of the file, and changes it.
PisaUnoMas(k, pedido) ==
  /\ pedido.puntero + pedido.tam < fcb_list[k].config.tam
  /\ BLOQUES[Posicion(pedido) + pedido.tam] # 0

AccesoMuere ==
  /\ Atiende("IO_FS_WRITE") \/ Atiende("IO_FS_READ")
  /\ ~Legible(obtener_fcb_por_nombre(op.pedido.nombre))
  /\ Muere /\ SinDisco /\ UNCHANGED promesa

\* A write runs past the blocks of its file into another's.
Invade(k, posicion, tam) ==
  \E b \in posicion .. posicion + tam - 1, j \in DOMAIN fcb_list :
    /\ Legible(j) /\ b \div block_size \in Ocupa(fcb_list[j].config)
    /\ b \div block_size \notin Ocupa(fcb_list[k].config)

escribir_archivo ==
  LET pedido == op.pedido
      k == obtener_fcb_por_nombre(pedido.nombre)
  IN  /\ Atiende("IO_FS_WRITE") /\ Legible(k)
      /\ IF Cabe(pedido)
         THEN /\ BLOQUES' = Pisa(BLOQUES, Posicion(pedido), Append(pedido.datos, 0))
              /\ Rompe(Invade(k, Posicion(pedido), pedido.tam + 1) \/ PisaUnoMas(k, pedido))
         ELSE UNCHANGED <<BLOQUES, promesa>>
      /\ Responde /\ UNCHANGED <<disco, fcb_list, BLOQ_BITMAP, perdidos>>

\* What goes to memory when the device has no such bytes is the zeroed buffer.
leer_archivo ==
  LET pedido == op.pedido
      datos == IF Cabe(pedido) THEN LeeBloques(Posicion(pedido), pedido.tam + 1)
               ELSE [k \in 1 .. pedido.tam + 1 |-> 0]
      peticiones == peticiones_distribuir_dato(pedido.peticiones, datos)
  IN  /\ Atiende("IO_FS_READ") /\ Legible(obtener_fcb_por_nombre(pedido.nombre))
      /\ leidos' = FlattenSeq([k \in DOMAIN peticiones |-> peticiones[k].dato])
      /\ op' = Reposo /\ previo' = NULL /\ UNCHANGED <<rotas, promesa>> /\ SinDisco

-----------------------------------------------------------------------------
(***************************************************************************)
(* The fall of the process, and its start on what it left                  *)
(***************************************************************************)
\* Between two writes of a delete or of a truncate the bitmap and the
\* directory disagree.
Cae ==
  /\ op.paso # "caido"
  /\ op' = Caido(NULL, promesa)
  /\ Rompe(op.paso \in {"remover", "guardar", "marcar", "compactar"})
  /\ perdidos' = IF op.paso = "escribir" THEN perdidos \cup {op.inicial} ELSE perdidos
  /\ previo' = IF op = Reposo THEN Contenido ELSE previo
  /\ UNCHANGED <<disco, fcb_list, BLOQ_BITMAP, BLOQUES, leidos, rotas>>

\* recuperar_archivos_existentes, in the order readdir gives; the bits that the
\* last page of the mapping has past the end of the file may be lost.
inicializar_filesystem ==
  /\ op.paso = "caido"
  /\ \E orden \in SetToSeqs({n \in Nombres : disco[n] # NULL}) :
       fcb_list' = [k \in DOMAIN orden |-> [nombre |-> orden[k], config |-> disco[orden[k]]]]
  /\ BLOQ_BITMAP' \in {BLOQ_BITMAP, BLOQ_BITMAP \cap (0 .. bits_del_archivo - 1)}
  /\ op' = Reposo /\ previo' = NULL
  /\ UNCHANGED <<disco, BLOQUES, leidos, perdidos, promesa, rotas>>

Next ==
  \/ Recibe \/ CrearAbre \/ CrearSinLugar \/ CrearAsigna \/ CrearEscribe
  \/ EliminarMuere \/ eliminar_bloques_ocupados_por_archivo \/ EliminarRemueve
  \/ TruncarAbre \/ TruncarEnSuLugar \/ TruncarSinLugar \/ TruncarCompacta
  \/ compactar \/ CompactarMuere \/ CompactarTermina \/ TruncarGuarda \/ TruncarMarca
  \/ AccesoMuere \/ escribir_archivo \/ leer_archivo
  \/ Cae \/ inicializar_filesystem

Spec == Init /\ [][Next]_vars

-----------------------------------------------------------------------------
(***************************************************************************)
(* Properties                                                              *)
(***************************************************************************)
\* The FCBs and the directory name blocks of the device.
EntradaOK(c) == c = SinClaves \/ (c.bloque \in Bloques /\ c.tam \in Nat)
TypeOK ==
  /\ \A n \in Nombres : disco[n] = NULL \/ EntradaOK(disco[n])
  /\ \A k \in DOMAIN fcb_list : fcb_list[k].nombre \in Nombres /\ EntradaOK(fcb_list[k].config)
  /\ BLOQ_BITMAP \subseteq Nat /\ BLOQUES \in [Bytes -> Letras \cup {0}]
  /\ perdidos \subseteq Bloques /\ promesa \in BOOLEAN /\ rotas \in 0 .. MaxRotas

\* Between requests no block belongs to two files, and a block is marked exactly
\* when a file has it, but for the ones a fall in the middle of a create left.
BitmapExacto ==
  LET legibles == {k \in DOMAIN fcb_list : Legible(k)}
      de(k) == Ocupa(fcb_list[k].config)
  IN  op = Reposo /\ promesa =>
        /\ \A j, k \in legibles : j # k => de(j) \cap de(k) = {}
        /\ perdidos \cap UNION {de(k) : k \in legibles} = {}
        /\ BLOQ_BITMAP = perdidos \cup UNION {de(k) : k \in legibles}

\* The process dies on a request only when its file does not exist, or when a
\* create that found no block, or was cut by a fall, left an entry without keys.
MuereSoloSinArchivo ==
  op.paso = "caido" /\ op.pedido # NULL /\ op.firme =>
    \/ previo[op.pedido.nombre] = NULL
    \/ \E n \in Nombres : disco[n] = SinClaves

\* With blocks, bitmap, compaction, falls and restarts, the requests do to the
\* files what Archivos says, until a file is created twice, a truncate ends past
\* the device, a write runs into another file or changes the byte of its own that
\* follows the text, or a fall cuts a delete or a truncate.
LosArchivos == INSTANCE Archivos WITH
  archivos <- IF op = Reposo THEN Contenido ELSE previo,
  pedido   <- IF op.paso = "caido" THEN NULL ELSE op.pedido

ImplementaArchivos == LosArchivos!Spec

=============================================================================
