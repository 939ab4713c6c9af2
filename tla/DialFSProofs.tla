---------------------------- MODULE DialFSProofs ----------------------------
(***************************************************************************)
(* Proofs about DialFS, for any set of names, any device and any programs: *)
(* between requests the bitmap says exactly which blocks are a file's, and *)
(* a request kills the process only when its file does not exist or has no *)
(* keys, whatever the requests, the compactions, the falls and restarts;   *)
(* and the files hold the bytes the programs wrote (Archivos).             *)
(***************************************************************************)
EXTENDS DialFS, MensajesProofs

-----------------------------------------------------------------------------
(***************************************************************************)
(* The types                                                               *)
(***************************************************************************)
Valores == Letras \cup {0}
Entrada == [bloque : Bloques, tam : Nat] \cup {SinClaves}
Fcb == [nombre : Nombres, config : Entrada]

PedidosDe(t, a) == {io_dialfs(enviar_instruccion_io_segun_op(t, a), datos) :
                      datos \in [1 .. peticiones_tam_total(a) -> Letras]}
Pedidos == UNION {PedidosDe(t, a) : t \in Instrucciones, a \in Accesos}

DeTruncar == {"truncar", "compactar", "guardar", "marcar"}
EnCurso == {"atender", "asignar", "escribir", "remover"} \cup DeTruncar
Servicio ==
  [paso : EnCurso, pedido : Pedidos, inicial : Nat, i : Nat,
   espacio : {<<>>} \cup [Bytes -> Valores]]

Discos ==
  /\ disco \in [Nombres -> Entrada \cup {NULL}]
  /\ fcb_list \in Seq(Fcb)
  /\ BLOQ_BITMAP \subseteq Nat /\ BLOQUES \in [Bytes -> Valores]
  /\ perdidos \subseteq Bloques /\ promesa \in BOOLEAN /\ rotas \in 0 .. MaxRotas

Atendido ==
  /\ op.paso \in EnCurso \cup {"recibir", "caido"}
  /\ op.paso = "recibir" => op = Reposo
  /\ op.paso \in EnCurso => op \in Servicio
  /\ op.paso \in {"escribir", "guardar", "marcar"} => op.inicial \in Bloques
  /\ op.paso \in DeTruncar => op.pedido.op = "IO_FS_TRUNCATE" /\ ATruncar # 0
  /\ op.paso \in {"truncar", "guardar", "marcar"} => Legible(ATruncar)
  /\ op.paso = "remover" => obtener_fcb_por_nombre(op.pedido.nombre) # 0
  /\ op.paso = "compactar" =>
       /\ op.i \in 1 .. Len(fcb_list) + 1 /\ op.espacio \in [Bytes -> Valores]
       /\ \A j \in 1 .. op.i - 1 : Legible(j)

Tipo == Discos /\ Atendido

-----------------------------------------------------------------------------
(***************************************************************************)
(* While the promise lasts.  These say it of a list of FCBs s, a directory *)
(* d, a bitmap bm and lost blocks perd, so that the state before a step    *)
(* and the one after it are instances of the same definitions.             *)
(***************************************************************************)
\* The list mirrors the directory.
Espejo(s, d) ==
  /\ \A j, k \in DOMAIN s : s[j].nombre = s[k].nombre => j = k
  /\ \A k \in DOMAIN s : d[s[k].nombre] = s[k].config
  /\ \A n \in Nombres : (\A k \in DOMAIN s : s[k].nombre # n) => d[n] \in {NULL, SinClaves}

\* The FCBs with keys, but for the one the request set apart.
Vivos(s, salvo) == {k \in DOMAIN s : s[k].config # SinClaves /\ k # salvo}
De(s, k) == Ocupa(s[k].config)
Usados(s, salvo) == UNION {De(s, k) : k \in Vivos(s, salvo)}

\* No two files share a block, and the marked blocks are the files', the lost
\* ones and, marked or about to be, those of the request.
Reparto(s, bm, perd, propios, salvo) ==
  /\ \A k \in Vivos(s, salvo) :
       De(s, k) \subseteq Bloques /\ De(s, k) \cap perd = {} /\ De(s, k) \cap propios = {}
  /\ \A j, k \in Vivos(s, salvo) : j # k => De(s, j) \cap De(s, k) = {}
  /\ propios \cap perd = {}
  /\ bm \cup propios = perd \cup propios \cup Usados(s, salvo)

Rango == op.inicial .. op.inicial + bloques_a_ocupar - 1
Propios == IF op.paso = "escribir" THEN {op.inicial}
           ELSE IF op.paso \in {"guardar", "marcar"} THEN Rango ELSE {}
Salvo == IF op.paso \in {"remover", "guardar", "marcar"} THEN ATruncar ELSE 0

\* Compaction: the files already moved fill the device up to a block, and those
\* that wait fit in what is left.
PorMover(s, i) == UNION {De(s, k) : k \in {k \in Vivos(s, 0) : i <= k}}
Compacto(s, i, alto) ==
  /\ \A k \in 1 .. i - 1 : De(s, k) \subseteq 0 .. alto - 1
  /\ \A b \in 0 .. alto - 1 : \E k \in 1 .. i - 1 : b \in De(s, k)
  /\ \A j, k \in 1 .. i - 1 : j # k => De(s, j) \cap De(s, k) = {}
  /\ \A j, k \in Vivos(s, 0) : i <= j /\ i <= k /\ j # k => De(s, j) \cap De(s, k) = {}
  /\ \A k \in Vivos(s, 0) : i <= k => De(s, k) \subseteq Bloques
  /\ Cardinality(PorMover(s, i)) + alto <= block_count
  /\ i > 1 => s[i - 1].config.bloque + calcular_bloques_necesarios(s[i - 1].config.tam) = alto

Guarda ==
  promesa =>
    /\ Espejo(fcb_list, disco)
    /\ op.paso # "compactar" => Reparto(fcb_list, BLOQ_BITMAP, perdidos, Propios, Salvo)
    /\ op.paso \in {"asignar", "escribir"} => obtener_fcb_por_nombre(op.pedido.nombre) = 0
    /\ op.paso = "escribir" => op.inicial \in BLOQ_BITMAP
    /\ op.paso = "marcar" => Config = [bloque |-> op.inicial, tam |-> op.pedido.tam]
    /\ op.paso = "compactar" =>
         /\ \E alto \in 0 .. block_count :
              BLOQ_BITMAP = 0 .. alto - 1 /\ Compacto(fcb_list, op.i, alto)
         /\ perdidos = {} /\ ATruncar = Len(fcb_list) /\ Config.tam <= op.pedido.tam

\* What the process may die of.
Antes ==
  /\ op.paso = "atender" => previo = Contenido
  /\ MuereSoloSinArchivo

-----------------------------------------------------------------------------
(***************************************************************************)
(* The device and the sequences                                            *)
(***************************************************************************)
LEMMA Constantes ==
  /\ block_count \in Nat \ {0} /\ Bloques \subseteq Nat /\ IsFiniteSet(Bloques)
  /\ \A b \in Int : b \in Bloques <=> 0 <= b /\ b < block_count
  /\ Cardinality(Bloques) = block_count /\ -1 \notin Bloques
  <1>1. block_count \in Nat \ {0} /\ block_count - 1 \in Int
    BY DialFSOK
  <1>2. IsFiniteSet(Bloques) /\ Cardinality(Bloques) = block_count
    BY <1>1, FS_Interval DEF Bloques
  <1>3. QED
    BY <1>1, <1>2 DEF Bloques

\* A file takes one block at least, and the more bytes the more blocks.
LEMMA Necesarios ==
  /\ \A t \in Nat : calcular_bloques_necesarios(t) \in Nat \ {0}
  /\ \A t, u \in Nat : t <= u =>
       calcular_bloques_necesarios(t) <= calcular_bloques_necesarios(u)
  <1>1. ASSUME NEW t \in Nat
        PROVE  calcular_bloques_necesarios(t) \in Int /\ calcular_bloques_necesarios(t) >= 1
    <2>1. calcular_bloques_necesarios(t) \in Int
      BY DialFSOK DEF calcular_bloques_necesarios
    <2>2. calcular_bloques_necesarios(t) >= 1
      BY DialFSOK DEF calcular_bloques_necesarios
    <2>3. QED
      BY <2>1, <2>2
  <1>2. ASSUME NEW t \in Nat, NEW u \in Nat, t <= u
        PROVE  calcular_bloques_necesarios(t) <= calcular_bloques_necesarios(u)
    BY <1>2, DialFSOK DEF calcular_bloques_necesarios
  <1>3. QED
    BY <1>1, <1>2

\* An entry with keys names a block and a size; one without them is no NULL.
LEMMA ConClaves ==
  /\ \A c \in Entrada : c # SinClaves => c.bloque \in Bloques /\ c.tam \in Nat
  /\ \A c \in [bloque : Bloques, tam : Nat] : c \in Entrada /\ c # SinClaves
  /\ SinClaves \in Entrada /\ NULL \notin Entrada
  <1>1. \A c \in [bloque : Bloques, tam : Nat] : c # SinClaves
    BY DialFSOK DEF SinClaves
  <1>2. QED
    BY <1>1, NullNoEsEntrada DEF Entrada

\* The lowest free block, or none.
LEMMA BloqueLibre ==
  ASSUME NEW bitmap
  PROVE  /\ buscar_bloque_libre(bitmap) = -1 => Bloques \subseteq bitmap
         /\ buscar_bloque_libre(bitmap) # -1 =>
              /\ buscar_bloque_libre(bitmap) \in Bloques \ bitmap
              /\ \A c \in Bloques \ bitmap : buscar_bloque_libre(bitmap) <= c
  <1> DEFINE libres == Bloques \ bitmap
  <1>1. CASE libres = {}
    BY <1>1 DEF buscar_bloque_libre
  <1>2. CASE libres # {}
    <2>1. \E m \in libres : \A c \in libres : m <= c
      BY <1>2, Minimo, Constantes
    <2>2. buscar_bloque_libre(bitmap) = CHOOSE m \in libres : \A c \in libres : m <= c
      BY <1>2 DEF buscar_bloque_libre
    <2>3. buscar_bloque_libre(bitmap) \in libres
          /\ \A c \in libres : buscar_bloque_libre(bitmap) <= c
      BY <2>1, <2>2
    <2>4. QED
      BY <2>3, Constantes
  <1>3. QED
    BY <1>1, <1>2

\* The first FCB with a name.
Primero(s, n) == SelectInSeq(s, LAMBDA f : f.nombre = n)

LEMMA PrimerFcb ==
  ASSUME NEW s \in Seq(Fcb), NEW n
  PROVE  /\ Primero(s, n) \in 0 .. Len(s) /\ Len(s) \in Nat
         /\ Primero(s, n) = 0 => \A k \in 1 .. Len(s) : s[k].nombre # n
         /\ Primero(s, n) # 0 => Primero(s, n) \in 1 .. Len(s) /\ s[Primero(s, n)].nombre = n
  <1> DEFINE I == {i \in 1 .. Len(s) : s[i].nombre = n}
  <1>0. Len(s) \in Nat /\ I \subseteq Nat
    BY LenProperties
  <1>1. CASE I = {}
    <2>1. Primero(s, n) = 0
      BY <1>1 DEF Primero, SelectInSeq
    <2>2. QED
      BY <1>0, <1>1, <2>1
  <1>2. CASE I # {}
    <2>1. \E m \in I : \A k \in I : m <= k
      BY <1>0, <1>2, Minimo
    <2>2. Primero(s, n) = CHOOSE m \in I : \A k \in I : m <= k
      BY <1>2 DEF Primero, SelectInSeq, Min
    <2>3. Primero(s, n) \in I
      BY <2>1, <2>2
    <2>4. QED
      BY <1>0, <2>3
  <1>3. QED
    BY <1>1, <1>2

\* A sequence without its element k, and with that element at its end.
LEMMA SinElK ==
  ASSUME NEW S, NEW s \in Seq(S), NEW k \in 1 .. Len(s)
  PROVE  /\ RemoveAt(s, k) \in Seq(S) /\ Len(RemoveAt(s, k)) = Len(s) - 1
         /\ \A j \in 1 .. k - 1 : RemoveAt(s, k)[j] = s[j]
         /\ \A j \in k .. Len(s) - 1 : RemoveAt(s, k)[j] = s[j + 1]
  <1> DEFINE a == SubSeq(s, 1, k - 1)
             b == SubSeq(s, k + 1, Len(s))
  <1>0. Len(s) \in Nat /\ k \in Nat /\ 1 <= k /\ k <= Len(s)
    BY LenProperties
  <1>1. a \in Seq(S) /\ Len(a) = k - 1 /\ \A j \in 1 .. k - 1 : a[j] = s[j]
    <2>1. \A j \in 1 .. k - 1 : s[j] \in S
      BY <1>0, ElementOfSeq
    <2>2. k - 1 \in Nat
      BY <1>0
    <2>3. a = [j \in 1 .. k - 1 |-> s[j]]
      BY <1>0
    <2>4. QED
      BY <2>1, <2>2, <2>3
  <1>2. b \in Seq(S) /\ Len(b) = Len(s) - k /\ \A j \in 1 .. Len(s) - k : b[j] = s[k + j]
    <2>1. \A j \in 1 .. Len(s) - k : s[k + j] \in S
      BY <1>0, ElementOfSeq
    <2>2. Len(s) - k \in Nat
      BY <1>0
    <2>3. b = [j \in 1 .. Len(s) - k |-> s[k + j]]
      BY <1>0
    <2>4. QED
      BY <2>1, <2>2, <2>3
  <1>3. RemoveAt(s, k) = a \o b
    BY DEF RemoveAt
  <1> HIDE DEF a, b
  <1>4. a \o b \in Seq(S) /\ Len(a \o b) = Len(s) - 1
    BY <1>0, <1>1, <1>2, ConcatProperties
  <1>5. \A j \in 1 .. k - 1 : (a \o b)[j] = a[j]
    BY <1>0, <1>1, <1>2, <1>4, ConcatProperties
  <1>6. \A j \in k .. Len(s) - 1 : (a \o b)[j] = b[j - (k - 1)]
    BY <1>0, <1>1, <1>2, <1>4, ConcatProperties
  <1>7. \A j \in k .. Len(s) - 1 : b[j - (k - 1)] = s[j + 1]
    <2> SUFFICES ASSUME NEW j \in k .. Len(s) - 1 PROVE b[j - (k - 1)] = s[j + 1]
      OBVIOUS
    <2>1. j - (k - 1) \in 1 .. Len(s) - k /\ k + (j - (k - 1)) = j + 1
      BY <1>0
    <2>2. QED
      BY <1>2, <2>1
  <1>8. QED
    BY <1>1, <1>3, <1>4, <1>5, <1>6, <1>7

-----------------------------------------------------------------------------
(***************************************************************************)
(* The requests, as io_dialfs takes them out of the packet                 *)
(***************************************************************************)
\* The request of an IO_FS_WRITE or an IO_FS_READ.
LEMMA PedidoViaja ==
  ASSUME NEW t \in Instrucciones, NEW a \in Accesos
  PROVE  /\ recibir_instruccion_io(enviar_instruccion_io(t, a, NULL).campos).tokens = t
         /\ recibir_instruccion_io(enviar_instruccion_io(t, a, NULL).campos).peticiones_memoria
              = a
  <1>1. PICK n \in Nat : n = Len(t) /\ t = [k \in 1 .. n |-> t[k]]
    BY InstruccionesOK
  <1>2. PICK Ficha : Ficha = {t[k] : k \in 1 .. n}
    OBVIOUS
  <1>3. t \in Seq(Ficha)
    <2>1. \A k \in 1 .. n : t[k] \in Ficha
      BY <1>2
    <2>2. [k \in 1 .. n |-> t[k]] \in Seq(Ficha)
      BY <2>1
    <2>3. QED
      BY <1>1, <2>2
  <1>4. a \in Seq(PeticionMemoria)
    BY AccesosOK DEF PeticionMemoria
  <1>5. QED
    BY <1>3, <1>4, InstruccionViaja

\* Every request names a file and carries what its operation needs.
LEMMA PedidoEntero ==
  ASSUME NEW p \in Pedidos
  PROVE  /\ p.nombre \in Nombres
         /\ p.op = "IO_FS_TRUNCATE" => p.tam \in Nat
         /\ p.op \in {"IO_FS_WRITE", "IO_FS_READ"} =>
              /\ p.peticiones \in Accesos /\ p.tam = peticiones_tam_total(p.peticiones)
              /\ p.puntero \in Nat
         /\ p.op = "IO_FS_WRITE" => p.datos \in Seq(Letras) /\ Len(p.datos) = p.tam
  <1>1. PICK t \in Instrucciones, a \in Accesos :
          \E datos \in [1 .. peticiones_tam_total(a) -> Letras] :
            p = io_dialfs(enviar_instruccion_io_segun_op(t, a), datos)
    BY DEF Pedidos, PedidosDe
  <1>2. PICK datos \in [1 .. peticiones_tam_total(a) -> Letras] :
          p = io_dialfs(enviar_instruccion_io_segun_op(t, a), datos)
    BY <1>1
  <1>3. datos \in Seq(Letras) /\ Len(datos) = peticiones_tam_total(a)
    <2>1. PICK m \in Nat : m = peticiones_tam_total(a)
      BY AccesosOK
    <2>2. datos \in [1 .. m -> Letras]
      BY <2>1
    <2>3. QED
      BY <2>1, <2>2
  <1>4. list_get(t, 2) \in Nombres
    <2>1. Len(t) \in Nat \ {0, 1, 2} /\ t[3] \in Nombres
      BY InstruccionesOK
    <2>2. Largo(t) \in Nat \ {0, 1, 2}
      BY <2>1 DEF Largo
    <2>3. 2 < Largo(t)
      BY <2>2
    <2>4. QED
      BY <2>1, <2>3 DEF list_get, Largo
  <1>5. CASE t[1] \in {"IO_FS_CREATE", "IO_FS_DELETE"}
    <2> DEFINE paquete == enviar_instruccion_io_segun_op(t, a)
    <2>1. PICK x, accion : /\ paquete = [codigo |-> accion, campos |-> <<x, NULL>>]
                           /\ accion \in {"CREAR_ARCHIVO_FS", "ELIMINAR_ARCHIVO_FS"}
                           /\ x = list_get(t, 2)
      BY <1>5 DEF enviar_instruccion_io_segun_op, enviar_solicitud_accion_archivo_fs, Paquete
    <2>2. paquete.codigo = accion /\ list_get(paquete.campos, 0) = x
      BY <2>1 DEF list_get
    <2> HIDE DEF paquete
    <2>3. p.nombre = x /\ p.op \in {"IO_FS_CREATE", "IO_FS_DELETE"}
      BY <1>2, <2>1, <2>2 DEF io_dialfs, recibir_solicitud_accion_archivo_fs, paquete
    <2>4. QED
      BY <1>4, <2>1, <2>3
  <1>7. CASE t[1] = "IO_FS_TRUNCATE"
    <2> DEFINE paquete == enviar_instruccion_io_segun_op(t, a)
    <2>0. list_get(t, 3) \in Nat
      BY <1>7, InstruccionesOK DEF list_get
    <2>1. PICK x, y : /\ paquete = [codigo |-> "TRUNCAR_ARCHIVO_FS", campos |-> <<x, y, NULL>>]
                      /\ x = list_get(t, 2) /\ y = list_get(t, 3)
      BY <1>7 DEF enviar_instruccion_io_segun_op, enviar_solicitud_truncar_archivo_fs, Paquete
    <2>2. /\ paquete.codigo = "TRUNCAR_ARCHIVO_FS"
          /\ list_get(paquete.campos, 0) = x /\ list_get(paquete.campos, 1) = y
      BY <2>1 DEF list_get
    <2> HIDE DEF paquete
    <2>3. p.nombre = x /\ p.tam = y /\ p.op = "IO_FS_TRUNCATE"
      BY <1>2, <2>2 DEF io_dialfs, recibir_solicitud_truncar_archivo_fs, paquete
    <2>4. QED
      BY <1>4, <2>0, <2>1, <2>3
  <1>8. CASE t[1] \in {"IO_FS_WRITE", "IO_FS_READ"}
    <2>1. list_get(t, 5) \in Nat
      BY <1>8, InstruccionesOK DEF list_get
    <2>2. enviar_instruccion_io_segun_op(t, a) = enviar_instruccion_io(t, a, NULL)
      BY <1>8 DEF enviar_instruccion_io_segun_op
    <2>3. enviar_instruccion_io(t, a, NULL).codigo = "EJECUTAR_INSTRUCCION_IO"
      BY DEF enviar_instruccion_io, Paquete
    <2>4. /\ p.op = t[1] /\ p.nombre = list_get(t, 2) /\ p.puntero = list_get(t, 5)
          /\ p.tam = peticiones_tam_total(a) /\ p.peticiones = a
          /\ p.datos = IF t[1] = "IO_FS_WRITE" THEN datos ELSE <<>>
      BY <1>2, <2>2, <2>3, PedidoViaja DEF io_dialfs
    <2>5. QED
      BY <1>3, <1>4, <1>8, <2>1, <2>4
  <1>9. QED
    BY <1>5, <1>7, <1>8, InstruccionesOK

-----------------------------------------------------------------------------
(***************************************************************************)
(* The list of FCBs                                                        *)
(***************************************************************************)
LEMMA Elementos ==
  ASSUME NEW s \in Seq(Fcb)
  PROVE  /\ Len(s) \in Nat /\ DOMAIN s = 1 .. Len(s)
         /\ \A k \in 1 .. Len(s) : s[k].nombre \in Nombres /\ s[k].config \in Entrada
  <1>1. Len(s) \in Nat /\ DOMAIN s = 1 .. Len(s) /\ \A k \in 1 .. Len(s) : s[k] \in Fcb
    BY LenProperties, ElementOfSeq
  <1>2. \A f \in Fcb : f.nombre \in Nombres /\ f.config \in Entrada
    BY DEF Fcb
  <1>3. QED
    BY <1>1, <1>2

LEMMA MismosNombres ==
  ASSUME NEW s \in Seq(Fcb), NEW t \in Seq(Fcb), Len(s) = Len(t),
         \A k \in 1 .. Len(s) : s[k].nombre = t[k].nombre, NEW n
  PROVE  Primero(s, n) = Primero(t, n)
  <1>1. {i \in 1 .. Len(s) : s[i].nombre = n} = {i \in 1 .. Len(t) : t[i].nombre = n}
    OBVIOUS
  <1>2. QED
    BY <1>1 DEF Primero, SelectInSeq

\* Both ways to say which FCB is the first.
LEMMA Obtiene ==
  /\ \A n : obtener_fcb_por_nombre(n) = Primero(fcb_list, n)
  /\ \A n : obtener_fcb_por_nombre(n)' = Primero(fcb_list', n)
  <1>1. \A n : obtener_fcb_por_nombre(n) = Primero(fcb_list, n)
    BY DEF obtener_fcb_por_nombre, Primero, SelectInSeq
  <1>2. \A n : obtener_fcb_por_nombre(n)' = Primero(fcb_list', n)
    BY DEF obtener_fcb_por_nombre, Primero, SelectInSeq
  <1>3. QED
    BY <1>1, <1>2

LEMMA MismaLista ==
  ASSUME fcb_list' = fcb_list
  PROVE  /\ \A n : obtener_fcb_por_nombre(n)' = obtener_fcb_por_nombre(n)
         /\ \A k : Legible(k)' = Legible(k)
  BY Obtiene DEF Legible

\* An FCB with keys, found by its name.
LEMMA Hallado ==
  ASSUME fcb_list \in Seq(Fcb), NEW n, obtener_fcb_por_nombre(n) # 0
  PROVE  /\ obtener_fcb_por_nombre(n) \in 1 .. Len(fcb_list)
         /\ fcb_list[obtener_fcb_por_nombre(n)].nombre = n
  BY PrimerFcb, Obtiene

LEMMA Legibles ==
  ASSUME fcb_list \in Seq(Fcb), NEW k \in 1 .. Len(fcb_list), Legible(k)
  PROVE  fcb_list[k].config.bloque \in Bloques /\ fcb_list[k].config.tam \in Nat
  BY Elementos, ConClaves DEF Legible

\* What set_campo_de_archivo does to the list and to the directory.
LEMMA Guardado ==
  ASSUME Discos, NEW k \in 1 .. Len(fcb_list), NEW c \in [bloque : Bloques, tam : Nat],
         set_campo_de_archivo(k, c)
  PROVE  /\ fcb_list' \in Seq(Fcb) /\ Len(fcb_list') = Len(fcb_list)
         /\ disco' \in [Nombres -> Entrada \cup {NULL}]
         /\ \A j \in 1 .. Len(fcb_list) :
              /\ fcb_list'[j].nombre = fcb_list[j].nombre
              /\ fcb_list'[j].config = IF j = k THEN c ELSE fcb_list[j].config
         /\ \A n \in Nombres : disco'[n] = IF n = fcb_list[k].nombre THEN c ELSE disco[n]
         /\ \A n : obtener_fcb_por_nombre(n)' = obtener_fcb_por_nombre(n)
         /\ \A j \in 1 .. Len(fcb_list) : Legible(j) => Legible(j)'
  <1> DEFINE L == Len(fcb_list)
  <1>1. fcb_list \in Seq(Fcb) /\ fcb_list[k].nombre \in Nombres /\ c \in Entrada
    BY Elementos, ConClaves DEF Discos
  <1>2. PICK f : f = [fcb_list[k] EXCEPT !.config = c]
    OBVIOUS
  <1>3. fcb_list[k] \in Fcb
    BY <1>1, ElementOfSeq
  <1>4. f \in Fcb /\ f.nombre = fcb_list[k].nombre /\ f.config = c
    BY <1>1, <1>2, <1>3 DEF Fcb
  <1>5. fcb_list' = [fcb_list EXCEPT ![k] = f]
    BY <1>2 DEF set_campo_de_archivo
  <1>6. fcb_list' \in Seq(Fcb) /\ Len(fcb_list') = L
        /\ \A j \in 1 .. L : fcb_list'[j] = IF j = k THEN f ELSE fcb_list[j]
    BY <1>1, <1>4, <1>5, ExceptSeq
  <1>7. /\ disco' \in [Nombres -> Entrada \cup {NULL}]
        /\ \A n \in Nombres : disco'[n] = IF n = fcb_list[k].nombre THEN c ELSE disco[n]
    BY <1>1 DEF set_campo_de_archivo, Discos
  <1>8. \A j \in 1 .. L : /\ fcb_list'[j].nombre = fcb_list[j].nombre
                          /\ fcb_list'[j].config = IF j = k THEN c ELSE fcb_list[j].config
    BY <1>4, <1>6
  <1>9. \A n : Primero(fcb_list', n) = Primero(fcb_list, n)
    BY <1>1, <1>6, <1>8, MismosNombres
  <1>10. \A j \in 1 .. L : Legible(j) => Legible(j)'
    BY <1>8, ConClaves DEF Legible
  <1>11. QED
    BY <1>6, <1>7, <1>8, <1>9, <1>10, Obtiene

\* The request goes on to another step.
LEMMA SigueServicio ==
  ASSUME op \in Servicio, NEW x \in EnCurso, op' = [op EXCEPT !.paso = x]
  PROVE  /\ op' \in Servicio /\ op'.paso = x /\ op'.pedido = op.pedido
         /\ op'.inicial = op.inicial /\ op'.i = op.i /\ op'.espacio = op.espacio
  BY DEF Servicio

LEMMA AlReposo ==
  ASSUME op' = Reposo
  PROVE  Atendido' /\ op'.paso = "recibir"
  BY DEF Reposo, Atendido, EnCurso, DeTruncar

LEMMA AlCaer ==
  ASSUME NEW p, NEW f, op' = Caido(p, f)
  PROVE  Atendido' /\ op'.paso = "caido" /\ op'.pedido = p /\ op'.firme = f
  BY DEF Caido, Atendido, EnCurso, DeTruncar
LEMMA LeeBien ==
  ASSUME BLOQUES \in [Bytes -> Valores], NEW posicion \in Int, NEW tam \in Nat
  PROVE  LeeBloques(posicion, tam) \in Seq(Valores)
  <1>1. \A b : Byte(b) \in Valores
    BY DEF Byte, Valores
  <1>2. QED
    BY <1>1 DEF LeeBloques

LEMMA PisaBien ==
  ASSUME NEW destino \in [Bytes -> Valores], NEW posicion \in Int, NEW datos \in Seq(Valores)
  PROVE  Pisa(destino, posicion, datos) \in [Bytes -> Valores]
  <1>1. PICK L \in Nat : L = Len(datos)
    BY LenProperties
  <1>2. \A k \in 1 .. L : datos[k] \in Valores
    BY <1>1, ElementOfSeq
  <1>3. \A b \in Bytes : b \in Int
    BY DEF Bytes
  <1>4. Pisa(destino, posicion, datos) =
          [b \in Bytes |-> IF posicion <= b /\ b < posicion + L
                           THEN datos[b - posicion + 1] ELSE destino[b]]
    BY <1>1 DEF Pisa
  <1>5. \A b \in Bytes : posicion <= b /\ b < posicion + L => datos[b - posicion + 1] \in Valores
    <2> SUFFICES ASSUME NEW b \in Bytes, posicion <= b, b < posicion + L
                 PROVE  datos[b - posicion + 1] \in Valores
      OBVIOUS
    <2>1. b - posicion + 1 \in 1 .. L
      BY <1>3
    <2>2. QED
      BY <1>2, <2>1
  <1>6. QED
    BY <1>4, <1>5

LEMMA ByteInicial ==
  ASSUME NEW b \in Nat
  PROVE  calcular_byte_inicial_de_bloque(b) \in Nat
  BY DialFSOK DEF calcular_byte_inicial_de_bloque

\* A request on its way through the first steps, or with a block in its hands.
LEMMA EnCamino ==
  ASSUME op' \in Servicio, op'.paso \in {"atender", "asignar"}
         \/ (op'.paso = "escribir" /\ op'.inicial \in Bloques)
  PROVE  Atendido'
  BY DEF Atendido, EnCurso, DeTruncar, Servicio

LEMMA EnTruncar ==
  ASSUME op' \in Servicio, op'.paso \in {"truncar", "guardar", "marcar"},
         op'.pedido.op = "IO_FS_TRUNCATE", Legible(ATruncar)',
         op'.paso # "truncar" => op'.inicial \in Bloques
  PROVE  Atendido'
  BY DEF Atendido, EnCurso, DeTruncar, Servicio, Legible

LEMMA TipoCrear ==
  ASSUME Tipo, Recibe \/ CrearAbre \/ CrearSinLugar \/ CrearAsigna \/ CrearEscribe
  PROVE  Tipo'
  <1>1. CASE Recibe
    <2>1. PICK t \in Instrucciones, a \in Accesos :
            \E datos \in [1 .. peticiones_tam_total(a) -> Letras] :
              op' = [Reposo EXCEPT !.paso = "atender",
                       !.pedido = io_dialfs(enviar_instruccion_io_segun_op(t, a), datos)]
      BY <1>1 DEF Recibe
    <2>2. PICK p \in Pedidos : op' = [Reposo EXCEPT !.paso = "atender", !.pedido = p]
      <3>1. PICK datos \in [1 .. peticiones_tam_total(a) -> Letras] :
              op' = [Reposo EXCEPT !.paso = "atender",
                       !.pedido = io_dialfs(enviar_instruccion_io_segun_op(t, a), datos)]
        BY <2>1
      <3>2. io_dialfs(enviar_instruccion_io_segun_op(t, a), datos) \in Pedidos
        <4>1. io_dialfs(enviar_instruccion_io_segun_op(t, a), datos) \in PedidosDe(t, a)
          BY DEF PedidosDe
        <4>2. QED
          BY <4>1 DEF Pedidos
      <3>3. QED
        BY <3>1, <3>2
    <2>3. op' \in Servicio /\ op'.paso = "atender"
      BY <2>2 DEF Reposo, Servicio, EnCurso, DeTruncar
    <2>4. Atendido'
      BY <2>3, EnCamino
    <2>5. /\ promesa \/ rotas < MaxRotas
          /\ rotas' = IF promesa THEN rotas ELSE rotas + 1
          /\ UNCHANGED <<disco, fcb_list, BLOQ_BITMAP, BLOQUES, perdidos, promesa>>
      BY <1>1 DEF Recibe, SinDisco
    <2>6. rotas' \in 0 .. MaxRotas
      BY <2>5, DialFSOK DEF Tipo, Discos
    <2>7. Discos'
      BY <2>5, <2>6 DEF Tipo, Discos
    <2>8. QED
      BY <2>4, <2>7 DEF Tipo
  <1>2. CASE CrearAbre
    <2>1. /\ op.paso = "atender" /\ op' = [op EXCEPT !.paso = "asignar"]
          /\ disco' = [disco EXCEPT ![op.pedido.nombre] = SinClaves]
          /\ promesa' \in BOOLEAN
          /\ UNCHANGED <<fcb_list, BLOQ_BITMAP, BLOQUES, perdidos, rotas>>
      BY <1>2 DEF CrearAbre, Atiende, Avanza, Rompe
    <2>2. op \in Servicio
      BY <2>1 DEF Tipo, Atendido, EnCurso
    <2>3. op' \in Servicio /\ op'.paso = "asignar"
      BY <2>1, <2>2, SigueServicio DEF EnCurso
    <2>4. disco' \in [Nombres -> Entrada \cup {NULL}]
      BY <2>1, ConClaves DEF Tipo, Discos
    <2>5. Discos'
      BY <2>1, <2>4 DEF Tipo, Discos
    <2>6. QED
      BY <2>3, <2>5, EnCamino DEF Tipo
  <1>3. CASE CrearSinLugar
    <2>1. /\ op' = Reposo
          /\ UNCHANGED <<disco, fcb_list, BLOQ_BITMAP, BLOQUES, perdidos, promesa, rotas>>
      BY <1>3 DEF CrearSinLugar, Responde, SinDisco
    <2>2. QED
      BY <2>1, AlReposo DEF Tipo, Discos
  <1>4. CASE CrearAsigna
    <2>1. PICK b : /\ b = buscar_bloque_libre(BLOQ_BITMAP) /\ b # -1
                   /\ BLOQ_BITMAP' = BLOQ_BITMAP \cup {b}
                   /\ op' = [op EXCEPT !.paso = "escribir", !.inicial = b]
                   /\ op.paso = "asignar"
                   /\ UNCHANGED <<disco, fcb_list, BLOQUES, perdidos, promesa, rotas>>
      BY <1>4 DEF CrearAsigna
    <2>2. b \in Bloques /\ b \in Nat
      BY <2>1, BloqueLibre, Constantes
    <2>3. op' \in Servicio /\ op'.paso = "escribir" /\ op'.inicial = b
      BY <2>1, <2>2 DEF Tipo, Atendido, EnCurso, DeTruncar, Servicio
    <2>4. Discos'
      BY <2>1, <2>2 DEF Tipo, Discos
    <2>5. QED
      BY <2>2, <2>3, <2>4, EnCamino DEF Tipo
  <1>5. CASE CrearEscribe
    <2> DEFINE n == op.pedido.nombre
               c == [bloque |-> op.inicial, tam |-> 0]
               f == [nombre |-> n, config |-> c]
    <2>1. /\ op.paso = "escribir" /\ op' = Reposo
          /\ disco' = [disco EXCEPT ![n] = c] /\ fcb_list' = Append(fcb_list, f)
          /\ UNCHANGED <<BLOQ_BITMAP, BLOQUES, perdidos, promesa, rotas>>
      BY <1>5 DEF CrearEscribe, Responde
    <2>2. n \in Nombres /\ op.inicial \in Bloques
      BY <2>1, PedidoEntero DEF Tipo, Atendido, EnCurso, Servicio
    <2>3. c \in Entrada /\ f \in Fcb
      BY <2>2, ConClaves DEF Fcb
    <2>4. fcb_list' \in Seq(Fcb) /\ disco' \in [Nombres -> Entrada \cup {NULL}]
      BY <2>1, <2>3, AppendProperties DEF Tipo, Discos
    <2>5. QED
      BY <2>1, <2>4, AlReposo DEF Tipo, Discos
  <1>6. QED
    BY <1>1, <1>2, <1>3, <1>4, <1>5

LEMMA TipoEliminar ==
  ASSUME Tipo, EliminarMuere \/ eliminar_bloques_ocupados_por_archivo \/ EliminarRemueve
  PROVE  Tipo'
  <1>1. CASE EliminarMuere
    <2>1. /\ op' = Caido(op.pedido, promesa)
          /\ UNCHANGED <<disco, fcb_list, BLOQ_BITMAP, BLOQUES, perdidos, promesa, rotas>>
      BY <1>1 DEF EliminarMuere, Muere, SinDisco
    <2>2. QED
      BY <2>1, AlCaer DEF Tipo, Discos
  <1>2. CASE eliminar_bloques_ocupados_por_archivo
    <2>1. /\ op.paso = "atender" /\ op' = [op EXCEPT !.paso = "remover"]
          /\ Legible(obtener_fcb_por_nombre(op.pedido.nombre))
          /\ BLOQ_BITMAP' \subseteq BLOQ_BITMAP
          /\ UNCHANGED <<disco, fcb_list, BLOQUES, perdidos, promesa, rotas>>
      BY <1>2 DEF eliminar_bloques_ocupados_por_archivo, Atiende, Avanza,
                  liberar_bloques_bitmap_por_rango
    <2>2. op' \in Servicio /\ op'.paso = "remover" /\ op'.pedido = op.pedido
      BY <2>1, SigueServicio DEF Tipo, Atendido, EnCurso
    <2>3. obtener_fcb_por_nombre(op.pedido.nombre)' # 0
      BY <2>1, <2>2, MismaLista DEF Legible
    <2>4. Atendido'
      BY <2>2, <2>3 DEF Atendido, EnCurso, DeTruncar
    <2>5. QED
      BY <2>1, <2>4 DEF Tipo, Discos
  <1>3. CASE EliminarRemueve
    <2> DEFINE n == op.pedido.nombre
               k == obtener_fcb_por_nombre(n)
    <2>1. /\ op.paso = "remover" /\ op' = Reposo
          /\ \/ UNCHANGED <<disco, fcb_list>>
             \/ disco' = [disco EXCEPT ![n] = NULL] /\ fcb_list' = RemoveAt(fcb_list, k)
          /\ UNCHANGED <<BLOQ_BITMAP, BLOQUES, perdidos, promesa, rotas>>
      BY <1>3 DEF EliminarRemueve, Responde
    <2>2. k # 0 /\ fcb_list \in Seq(Fcb)
      BY <2>1 DEF Tipo, Atendido, Discos
    <2>3. RemoveAt(fcb_list, k) \in Seq(Fcb)
      BY <2>2, Hallado, SinElK
    <2>4. fcb_list' \in Seq(Fcb) /\ disco' \in [Nombres -> Entrada \cup {NULL}]
      BY <2>1, <2>2, <2>3 DEF Tipo, Discos
    <2>5. QED
      BY <2>1, <2>4, AlReposo DEF Tipo, Discos
  <1>4. QED
    BY <1>1, <1>2, <1>3

LEMMA TipoTruncar ==
  ASSUME Tipo, TruncarAbre \/ TruncarEnSuLugar \/ TruncarSinLugar \/ TruncarCompacta
  PROVE  Tipo'
  <1>1. CASE TruncarAbre
    <2> DEFINE n == op.pedido.nombre
    <2>1. /\ op.paso = "atender" /\ op.pedido.op = "IO_FS_TRUNCATE"
          /\ disco' = [disco EXCEPT ![n] = IF @ = NULL THEN SinClaves ELSE @]
          /\ UNCHANGED <<fcb_list, BLOQ_BITMAP, BLOQUES, perdidos, promesa, rotas>>
      BY <1>1 DEF TruncarAbre, Atiende, Avanza, Muere
    <2>2. disco' \in [Nombres -> Entrada \cup {NULL}]
      BY <2>1, ConClaves DEF Tipo, Discos
    <2>3. Discos'
      BY <2>1, <2>2 DEF Tipo, Discos
    <2>4. CASE Legible(ATruncar)
      <3>1. op' = [op EXCEPT !.paso = "truncar"]
        BY <1>1, <2>4 DEF TruncarAbre, Avanza, ATruncar
      <3>2. op' \in Servicio /\ op'.paso = "truncar" /\ op'.pedido = op.pedido
        BY <2>1, <3>1, SigueServicio DEF Tipo, Atendido, EnCurso, DeTruncar
      <3>3. Legible(ATruncar)'
        BY <2>1, <2>4, <3>2, MismaLista DEF ATruncar
      <3>4. QED
        BY <2>1, <2>3, <3>2, <3>3, EnTruncar DEF Tipo
    <2>5. CASE ~Legible(ATruncar)
      BY <1>1, <2>3, <2>5, AlCaer DEF TruncarAbre, Muere, ATruncar, Tipo
    <2>6. QED
      BY <2>4, <2>5
  <1>2. CASE TruncarEnSuLugar
    <2>1. /\ op.paso = "truncar"
          /\ op' = [op EXCEPT !.paso = "guardar", !.inicial = Config.bloque]
          /\ BLOQ_BITMAP' \subseteq BLOQ_BITMAP
          /\ UNCHANGED <<disco, fcb_list, BLOQUES, perdidos, promesa, rotas>>
      BY <1>2 DEF TruncarEnSuLugar, liberar_bloques_bitmap_por_rango
    <2>2. /\ op \in Servicio /\ op.pedido.op = "IO_FS_TRUNCATE"
          /\ Legible(ATruncar) /\ ATruncar # 0
      BY <2>1 DEF Tipo, Atendido, EnCurso, DeTruncar
    <2>3. Config.bloque \in Bloques
      BY <2>2, Hallado, Legibles DEF Tipo, Discos, Config, ATruncar
    <2>4. /\ op' \in Servicio /\ op'.paso = "guardar" /\ op'.pedido = op.pedido
          /\ op'.inicial \in Bloques
      BY <2>1, <2>2, <2>3, Constantes DEF Servicio, EnCurso, DeTruncar
    <2>5. Legible(ATruncar)'
      BY <2>1, <2>2, <2>4, MismaLista DEF ATruncar
    <2>6. Atendido'
      BY <2>2, <2>4, <2>5, EnTruncar
    <2>7. QED
      BY <2>1, <2>6 DEF Tipo, Discos
  <1>3. CASE TruncarSinLugar
    <2>1. /\ op' = Reposo
          /\ UNCHANGED <<disco, fcb_list, BLOQ_BITMAP, BLOQUES, perdidos, promesa, rotas>>
      BY <1>3 DEF TruncarSinLugar, Responde, SinDisco
    <2>2. QED
      BY <2>1, AlReposo DEF Tipo, Discos
  <1>4. CASE TruncarCompacta
    <2> DEFINE n == op.pedido.nombre
               k == obtener_fcb_por_nombre(n)
    <2>1. /\ op.paso = "truncar"
          /\ fcb_list' = Append(RemoveAt(fcb_list, k), fcb_list[k])
          /\ BLOQ_BITMAP' \subseteq BLOQ_BITMAP /\ perdidos' = {}
          /\ op' = [op EXCEPT !.paso = "compactar", !.i = 1, !.espacio = [b \in Bytes |-> 0]]
          /\ UNCHANGED <<disco, BLOQUES, promesa, rotas>>
      BY <1>4 DEF TruncarCompacta, liberar_bitmap_de_bloques, ATruncar
    <2>2. /\ op \in Servicio /\ op.pedido.op = "IO_FS_TRUNCATE" /\ k # 0
          /\ fcb_list \in Seq(Fcb)
      BY <2>1 DEF Tipo, Atendido, EnCurso, DeTruncar, ATruncar, Discos
    <2>3. k \in 1 .. Len(fcb_list) /\ fcb_list[k].nombre = n /\ fcb_list[k] \in Fcb
      BY <2>2, Hallado, ElementOfSeq
    <2>4. RemoveAt(fcb_list, k) \in Seq(Fcb)
      BY <2>2, <2>3, SinElK
    <2>5. /\ fcb_list' \in Seq(Fcb)
          /\ Len(fcb_list') \in 1 .. Len(fcb_list') /\ fcb_list'[Len(fcb_list')] = fcb_list[k]
      <3>1. PICK r \in Seq(Fcb) : r = RemoveAt(fcb_list, k)
        BY <2>4
      <3>2. PICK L \in Nat : L = Len(r)
        BY LenProperties
      <3>3. PICK f \in Fcb : f = fcb_list[k]
        BY <2>3
      <3>4. /\ Append(r, f) \in Seq(Fcb) /\ Len(Append(r, f)) = L + 1
            /\ Append(r, f)[L + 1] = f
        BY <3>2, AppendProperties
      <3>5. QED
        BY <2>1, <3>1, <3>3, <3>4
    <2>6. [b \in Bytes |-> 0] \in [Bytes -> Valores]
      BY DEF Valores
    <2>7. /\ op' \in Servicio /\ op'.paso = "compactar" /\ op'.pedido = op.pedido
          /\ op'.i = 1 /\ op'.espacio \in [Bytes -> Valores]
      BY <2>1, <2>2, <2>6 DEF Servicio, EnCurso, DeTruncar
    <2>8. ATruncar' # 0
      <3>1. \E j \in 1 .. Len(fcb_list') : fcb_list'[j].nombre = n
        BY <2>3, <2>5
      <3>2. Primero(fcb_list', n) # 0
        BY <2>5, <3>1, PrimerFcb
      <3>3. QED
        BY <2>7, <3>2, Obtiene DEF ATruncar
    <2>9. Atendido'
      <3>1. 1 \in 1 .. Len(fcb_list') + 1
        BY <2>5, LenProperties
      <3>2. QED
        BY <2>2, <2>7, <2>8, <3>1 DEF Atendido, EnCurso, DeTruncar
    <2>10. Discos'
      BY <2>1, <2>5 DEF Tipo, Discos
    <2>11. QED
      BY <2>9, <2>10 DEF Tipo
  <1>5. QED
    BY <1>1, <1>2, <1>3, <1>4

LEMMA TipoCompactar ==
  ASSUME Tipo, compactar \/ CompactarMuere \/ CompactarTermina \/ TruncarGuarda \/ TruncarMarca
  PROVE  Tipo'
  <1>1. CASE compactar
    <2> DEFINE i == op.i
               c == fcb_list[i].config
               nuevo == buscar_bloque_libre(BLOQ_BITMAP)
               n == calcular_bloques_necesarios(c.tam)
               e == Pisa(op.espacio, calcular_byte_inicial_de_bloque(nuevo),
                         LeeBloques(calcular_byte_inicial_de_bloque(c.bloque), c.tam))
    <2>1. /\ op.paso = "compactar" /\ i <= Len(fcb_list) /\ Legible(i) /\ nuevo # -1
          /\ BLOQ_BITMAP' = BLOQ_BITMAP \cup (nuevo .. (nuevo + n) - 1)
          /\ set_campo_de_archivo(i, [c EXCEPT !.bloque = nuevo])
          /\ op' = [op EXCEPT !.i = i + 1, !.espacio = e]
          /\ UNCHANGED <<BLOQUES, perdidos, promesa, rotas>>
      <3>1. op.paso = "compactar" /\ i <= Len(fcb_list) /\ Legible(i) /\ nuevo # -1
        BY <1>1 DEF compactar
      <3>2. BLOQ_BITMAP' = BLOQ_BITMAP \cup (nuevo .. (nuevo + n) - 1)
        BY <1>1, Zenon DEF compactar, asignar_bloques_bitmap_por_rango
      <3>3. set_campo_de_archivo(i, [c EXCEPT !.bloque = nuevo])
        BY <1>1 DEF compactar
      <3>4. op' = [op EXCEPT !.i = i + 1, !.espacio = e]
        BY <1>1 DEF compactar
      <3>5. UNCHANGED <<BLOQUES, perdidos, promesa, rotas>>
        BY <1>1 DEF compactar
      <3>6. QED
        BY <3>1, <3>2, <3>3, <3>4, <3>5
    <2>2. /\ op \in Servicio /\ op.pedido.op = "IO_FS_TRUNCATE" /\ ATruncar # 0 /\ Discos
          /\ i \in Nat \ {0} /\ op.espacio \in [Bytes -> Valores] /\ fcb_list \in Seq(Fcb)
          /\ \A j \in 1 .. i - 1 : Legible(j)
      BY <2>1, LenProperties DEF Tipo, Atendido, EnCurso, DeTruncar, Discos, Servicio
    <2>3. PICK L \in Nat : L = Len(fcb_list)
      BY <2>2, LenProperties
    <2>4. i \in 1 .. L
      BY <2>1, <2>2, <2>3
    <2>5. c \in [bloque : Bloques, tam : Nat] /\ nuevo \in Bloques
      <3>1. c \in Entrada /\ c # SinClaves
        BY <2>1, <2>2, <2>3, <2>4, Elementos DEF Legible
      <3> HIDE DEF c
      <3>2. QED
        BY <2>1, <3>1, BloqueLibre DEF Entrada
    <2> HIDE DEF c, nuevo
    <2>6. [c EXCEPT !.bloque = nuevo] \in [bloque : Bloques, tam : Nat]
      BY <2>5
    <2>7. n \in Nat /\ nuevo \in Nat /\ c.bloque \in Nat /\ c.tam \in Nat
      BY <2>1, <2>5, Necesarios, Constantes
    <2> HIDE DEF n, i
    <2>8. /\ fcb_list' \in Seq(Fcb) /\ Len(fcb_list') = L
          /\ disco' \in [Nombres -> Entrada \cup {NULL}]
          /\ \A m : obtener_fcb_por_nombre(m)' = obtener_fcb_por_nombre(m)
          /\ \A j \in 1 .. L : Legible(j) => Legible(j)'
      BY <2>1, <2>2, <2>3, <2>4, <2>6, Guardado
    <2>9. e \in [Bytes -> Valores]
      <3>1. calcular_byte_inicial_de_bloque(nuevo) \in Int
            /\ calcular_byte_inicial_de_bloque(c.bloque) \in Int
        BY <2>7, ByteInicial
      <3>2. QED
        BY <2>2, <2>7, <3>1, LeeBien, PisaBien DEF Discos
    <2> HIDE DEF e
    <2>10. /\ op' \in Servicio /\ op'.paso = "compactar" /\ op'.pedido = op.pedido
           /\ op'.i = i + 1 /\ op'.espacio = e
      <3>1. i + 1 \in Nat
        BY <2>2
      <3>2. PICK i1 \in Nat : i1 = i + 1
        BY <3>1
      <3>3. op' = [op EXCEPT !.i = i1, !.espacio = e]
        BY <2>1, <3>2
      <3>4. QED
        BY <2>1, <2>2, <2>9, <3>2, <3>3 DEF Servicio
    <2>11. \A j \in 1 .. op'.i - 1 : Legible(j)'
      BY <2>1, <2>2, <2>4, <2>8, <2>10
    <2>12. op'.i \in 1 .. Len(fcb_list') + 1
      BY <2>3, <2>4, <2>8, <2>10
    <2>13. ATruncar' # 0
      BY <2>2, <2>8, <2>10 DEF ATruncar
    <2>14. Atendido'
      BY <2>2, <2>9, <2>10, <2>11, <2>12, <2>13 DEF Atendido, EnCurso, DeTruncar
    <2>15. Discos'
      BY <2>1, <2>2, <2>7, <2>8 DEF Discos
    <2>16. QED
      BY <2>14, <2>15 DEF Tipo
  <1>2. CASE CompactarMuere
    <2>1. /\ op' = Caido(op.pedido, promesa) /\ promesa' \in BOOLEAN
          /\ UNCHANGED <<disco, fcb_list, BLOQ_BITMAP, BLOQUES, perdidos, rotas>>
      BY <1>2 DEF CompactarMuere, Muere, SinDisco, Rompe
    <2>2. QED
      BY <2>1, AlCaer DEF Tipo, Discos
  <1>3. CASE CompactarTermina
    <2>1. /\ op.paso = "compactar" /\ op.i > Len(fcb_list) /\ BLOQUES' = op.espacio
          /\ op' = [op EXCEPT !.paso = "guardar", !.inicial = Config.bloque, !.i = 0,
                              !.espacio = <<>>]
          /\ UNCHANGED <<disco, fcb_list, BLOQ_BITMAP, perdidos, promesa, rotas>>
      BY <1>3 DEF CompactarTermina
    <2>2. /\ op \in Servicio /\ op.pedido.op = "IO_FS_TRUNCATE" /\ ATruncar # 0
          /\ op.espacio \in [Bytes -> Valores] /\ fcb_list \in Seq(Fcb) /\ op.i \in Nat
          /\ \A j \in 1 .. op.i - 1 : Legible(j)
      BY <2>1, LenProperties DEF Tipo, Atendido, EnCurso, DeTruncar, Discos, Servicio
    <2>3. ATruncar \in 1 .. Len(fcb_list) /\ Len(fcb_list) \in Nat
      BY <2>2, Hallado, LenProperties DEF ATruncar
    <2>4. Legible(ATruncar)
      <3>1. PICK L \in Nat : L = Len(fcb_list)
        BY <2>3
      <3>2. ATruncar \in 1 .. op.i - 1
        BY <2>1, <2>2, <2>3, <3>1
      <3>3. QED
        BY <2>2, <3>2
    <2>5. Config.bloque \in Bloques
      BY <2>2, <2>3, <2>4, Legibles DEF Config
    <2>6. /\ op' \in Servicio /\ op'.paso = "guardar" /\ op'.pedido = op.pedido
          /\ op'.inicial \in Bloques
      BY <2>1, <2>2, <2>5, Constantes DEF Servicio, EnCurso, DeTruncar
    <2>7. Legible(ATruncar)'
      BY <2>1, <2>4, <2>6, MismaLista DEF ATruncar
    <2>8. Atendido'
      BY <2>2, <2>6, <2>7, EnTruncar
    <2>9. QED
      BY <2>1, <2>2, <2>8 DEF Tipo, Discos
  <1>4. CASE TruncarGuarda
    <2> DEFINE c == [bloque |-> op.inicial, tam |-> op.pedido.tam]
    <2>1. /\ op.paso = "guardar" /\ op' = [op EXCEPT !.paso = "marcar"]
          /\ set_campo_de_archivo(ATruncar, c)
          /\ UNCHANGED <<BLOQ_BITMAP, BLOQUES, perdidos, promesa, rotas>>
      BY <1>4 DEF TruncarGuarda, Avanza
    <2>2. /\ op \in Servicio /\ op.pedido.op = "IO_FS_TRUNCATE" /\ ATruncar # 0
          /\ op.inicial \in Bloques /\ Legible(ATruncar) /\ Discos /\ fcb_list \in Seq(Fcb)
      BY <2>1 DEF Tipo, Atendido, EnCurso, DeTruncar, Discos
    <2>3. ATruncar \in 1 .. Len(fcb_list)
      BY <2>2, Hallado DEF ATruncar
    <2>4. c \in [bloque : Bloques, tam : Nat]
      BY <2>2, PedidoEntero DEF Servicio
    <2>5. /\ fcb_list' \in Seq(Fcb) /\ disco' \in [Nombres -> Entrada \cup {NULL}]
          /\ \A m : obtener_fcb_por_nombre(m)' = obtener_fcb_por_nombre(m)
          /\ \A j \in 1 .. Len(fcb_list) : Legible(j) => Legible(j)'
      BY <2>1, <2>2, <2>3, <2>4, Guardado
    <2>6. /\ op' \in Servicio /\ op'.paso = "marcar" /\ op'.pedido = op.pedido
          /\ op'.inicial = op.inicial
      BY <2>1, <2>2, SigueServicio DEF EnCurso, DeTruncar
    <2>7. Legible(ATruncar)'
      <3>1. ATruncar' = ATruncar
        BY <2>5, <2>6 DEF ATruncar
      <3>2. \A j \in 1 .. Len(fcb_list) : j = ATruncar => Legible(j)'
        BY <2>2, <2>5
      <3>3. QED
        BY <2>3, <3>1, <3>2 DEF Legible
    <2>8. Atendido'
      BY <2>2, <2>6, <2>7, EnTruncar
    <2>9. QED
      BY <2>1, <2>5, <2>8 DEF Tipo, Discos
  <1>5. CASE TruncarMarca
    <2> DEFINE a == op.inicial
               n == bloques_a_ocupar
    <2>1. /\ op.paso = "marcar" /\ op' = Reposo
          /\ BLOQ_BITMAP' = BLOQ_BITMAP \cup (a .. (a + n) - 1)
          /\ UNCHANGED <<disco, fcb_list, BLOQUES, perdidos, rotas>>
      <3>1. op.paso = "marcar" /\ op' = Reposo
            /\ UNCHANGED <<disco, fcb_list, BLOQUES, perdidos, rotas>>
        BY <1>5 DEF TruncarMarca, Responde
      <3>2. BLOQ_BITMAP' = BLOQ_BITMAP \cup (a .. (a + n) - 1)
        BY <1>5, Zenon DEF TruncarMarca, asignar_bloques_bitmap_por_rango
      <3>3. QED
        BY <3>1, <3>2
    <2>a. promesa' \in BOOLEAN
      BY <1>5, Zenon DEF TruncarMarca, Rompe
    <2>2. a \in Nat /\ n \in Nat
      BY <2>1, PedidoEntero, Necesarios DEF Tipo, Atendido, EnCurso, DeTruncar, Servicio,
                                            bloques_a_ocupar
    <2> HIDE DEF a, n
    <2>3. BLOQ_BITMAP' \subseteq Nat
      BY <2>1, <2>2 DEF Tipo, Discos
    <2>4. QED
      BY <2>1, <2>a, <2>3, AlReposo DEF Tipo, Discos
  <1>6. QED
    BY <1>1, <1>2, <1>3, <1>4, <1>5

LEMMA TipoAcceso ==
  ASSUME Tipo, AccesoMuere \/ escribir_archivo \/ leer_archivo
  PROVE  Tipo'
  <1>1. CASE AccesoMuere
    <2>1. /\ op' = Caido(op.pedido, promesa)
          /\ UNCHANGED <<disco, fcb_list, BLOQ_BITMAP, BLOQUES, perdidos, promesa, rotas>>
      BY <1>1 DEF AccesoMuere, Muere, SinDisco
    <2>2. QED
      BY <2>1, AlCaer DEF Tipo, Discos
  <1>2. CASE escribir_archivo
    <2> DEFINE p == op.pedido
               k == obtener_fcb_por_nombre(p.nombre)
    <2>1. /\ op.paso = "atender" /\ p.op = "IO_FS_WRITE" /\ Legible(k) /\ op' = Reposo
          /\ \/ BLOQUES' = Pisa(BLOQUES, Posicion(p), Append(p.datos, 0))
             \/ UNCHANGED BLOQUES
          /\ UNCHANGED <<disco, fcb_list, BLOQ_BITMAP, perdidos, rotas>>
      BY <1>2 DEF escribir_archivo, Atiende, Responde
    <2>2. promesa' \in BOOLEAN
      <3>1. \/ promesa' = promesa
            \/ promesa' = (promesa /\ ~(Invade(k, Posicion(p), p.tam + 1) \/ PisaUnoMas(k, p)))
        BY <1>2 DEF escribir_archivo, Rompe
      <3>2. promesa \in BOOLEAN
        BY DEF Tipo, Discos
      <3>3. QED
        BY <3>1, <3>2, Zenon
    <2>3. p.datos \in Seq(Letras) /\ p.puntero \in Nat
      BY <2>1, PedidoEntero DEF Tipo, Atendido, EnCurso, Servicio
    <2>4. fcb_list[k].config.bloque \in Nat
      BY <2>1, Hallado, Legibles, Constantes DEF Tipo, Discos, Legible
    <2>5. Posicion(p) \in Int
      <3>1. Posicion(p) = calcular_byte_inicial_de_bloque(fcb_list[k].config.bloque) + p.puntero
        BY DEF Posicion
      <3>2. QED
        <4>1. calcular_byte_inicial_de_bloque(fcb_list[k].config.bloque) \in Nat
          BY <2>4, ByteInicial
        <4>2. QED
          BY <2>3, <3>1, <4>1
    <2>6. Append(p.datos, 0) \in Seq(Valores)
      <3>1. p.datos \in Seq(Valores) /\ 0 \in Valores
        BY <2>3 DEF Valores
      <3>2. QED
        BY <3>1, AppendProperties
    <2>7. BLOQUES' \in [Bytes -> Valores]
      <3>1. BLOQUES \in [Bytes -> Valores]
        BY DEF Tipo, Discos
      <3>2. Pisa(BLOQUES, Posicion(p), Append(p.datos, 0)) \in [Bytes -> Valores]
        BY <2>5, <2>6, <3>1, PisaBien
      <3>3. QED
        BY <2>1, <3>1, <3>2
    <2>8. QED
      BY <2>1, <2>2, <2>7, AlReposo DEF Tipo, Discos
  <1>3. CASE leer_archivo
    <2>1. /\ op' = Reposo
          /\ UNCHANGED <<disco, fcb_list, BLOQ_BITMAP, BLOQUES, perdidos, promesa, rotas>>
      BY <1>3 DEF leer_archivo, SinDisco
    <2>2. QED
      BY <2>1, AlReposo DEF Tipo, Discos
  <1>4. QED
    BY <1>1, <1>2, <1>3

\* The names of the directory, each once, whatever the order.
LEMMA Ordenados ==
  ASSUME NEW S, IsFiniteSet(S), NEW orden \in SetToSeqs(S)
  PROVE  /\ orden \in Seq(S)
         /\ \A j, k \in DOMAIN orden : orden[j] = orden[k] => j = k
         /\ \A x \in S : \E k \in DOMAIN orden : orden[k] = x
  <1>1. PICK n \in Nat : n = Cardinality(S)
    BY FS_CardinalityType
  <1>2. /\ orden \in [1 .. n -> S]
        /\ \A j, k \in 1 .. n : j # k => orden[j] # orden[k]
    BY <1>1 DEF SetToSeqs
  <1>3. orden \in Seq(S)
    BY <1>2
  <1>4. IsFiniteSet(1 .. n) /\ Cardinality(1 .. n) = n
    BY FS_Interval
  <1> DEFINE T == {orden[k] : k \in 1 .. n}
  <1>5. ASSUME NEW x \in S, \A k \in 1 .. n : orden[k] # x
        PROVE  FALSE
    <2>1. orden \in [1 .. n -> S \ {x}]
      BY <1>2, <1>5
    <2>2. IsFiniteSet(S \ {x}) /\ Cardinality(S \ {x}) = n - 1
      BY <1>1, FS_RemoveElement
    <2>3. Cardinality(1 .. n) > Cardinality(S \ {x})
      BY <1>4, <2>2
    <2>4. \E j, k \in 1 .. n : j # k /\ orden[j] = orden[k]
      BY <1>4, <2>1, <2>2, <2>3, FS_PigeonHole
    <2>5. QED
      BY <1>2, <2>4
  <1>6. QED
    BY <1>2, <1>3, <1>5

LEMMA TipoCaida ==
  ASSUME Tipo, Cae \/ inicializar_filesystem
  PROVE  Tipo'
  <1>1. CASE Cae
    <2>1. /\ op' = Caido(NULL, promesa)
          /\ perdidos' = IF op.paso = "escribir" THEN perdidos \cup {op.inicial} ELSE perdidos
          /\ UNCHANGED <<disco, fcb_list, BLOQ_BITMAP, BLOQUES, rotas>>
      BY <1>1 DEF Cae
    <2>2. promesa' \in BOOLEAN
      BY <1>1 DEF Cae, Rompe
    <2>3. op.paso = "escribir" => op.inicial \in Bloques
      BY DEF Tipo, Atendido
    <2>4. QED
      BY <2>1, <2>2, <2>3, AlCaer DEF Tipo, Discos
  <1>2. CASE inicializar_filesystem
    <2> DEFINE S == {n \in Nombres : disco[n] # NULL}
    <2>1. PICK orden \in SetToSeqs(S) :
            fcb_list' = [k \in DOMAIN orden |-> [nombre |-> orden[k], config |-> disco[orden[k]]]]
      BY <1>2 DEF inicializar_filesystem
    <2>2. /\ op' = Reposo /\ BLOQ_BITMAP' \subseteq BLOQ_BITMAP
          /\ UNCHANGED <<disco, BLOQUES, perdidos, promesa, rotas>>
      BY <1>2 DEF inicializar_filesystem
    <2>3. IsFiniteSet(S)
      BY DialFSOK, FS_Subset
    <2>4. orden \in Seq(S)
      BY <2>1, <2>3, Ordenados
    <2>5. PICK L \in Nat : DOMAIN orden = 1 .. L
      BY <2>4
    <2>6. ASSUME NEW k \in 1 .. L
          PROVE  [nombre |-> orden[k], config |-> disco[orden[k]]] \in Fcb
      <3>1. orden[k] \in S
        BY <2>4, <2>5
      <3>2. QED
        BY <3>1 DEF Fcb, Tipo, Discos
    <2>7. fcb_list' \in Seq(Fcb)
      BY <2>1, <2>5, <2>6
    <2>8. QED
      BY <2>2, <2>7, AlReposo DEF Tipo, Discos
  <1>3. QED
    BY <1>1, <1>2

LEMMA TipoInicial == Init => Tipo
  <1> SUFFICES ASSUME Init PROVE Tipo
    OBVIOUS
  <1>1. op.paso = "recibir" /\ op = Reposo
    BY DEF Init, Reposo
  <1>2. Atendido
    BY <1>1 DEF Atendido, EnCurso, DeTruncar
  <1>3. BLOQUES \in [Bytes -> Valores]
    BY DEF Init, Valores
  <1>4. Discos
    BY <1>3, DialFSOK, EmptySeq DEF Init, Discos
  <1>5. QED
    BY <1>2, <1>4 DEF Tipo

LEMMA TipoPaso ==
  ASSUME Tipo, [Next]_vars
  PROVE  Tipo'
  <1>1. CASE UNCHANGED vars
    <2>1. UNCHANGED <<disco, fcb_list, BLOQ_BITMAP, BLOQUES, perdidos, promesa, rotas>>
          /\ op' = op
      BY <1>1 DEF vars
    <2>2. ATruncar' = ATruncar
          /\ obtener_fcb_por_nombre(op.pedido.nombre)' = obtener_fcb_por_nombre(op.pedido.nombre)
      BY <2>1, MismaLista DEF ATruncar
    <2>3. Atendido'
      BY <2>1, <2>2, MismaLista DEF Tipo, Atendido
    <2>4. QED
      BY <2>1, <2>3 DEF Tipo, Discos
  <1>2. QED
    BY <1>1, TipoCrear, TipoEliminar, TipoTruncar, TipoCompactar, TipoAcceso, TipoCaida DEF Next

\* The directory and the list name blocks of the device, also after a fall and
\* once the promise is broken: no -1 of a search without success is ever kept
\* (fs_blocks.c's buscar_bloque_libre).
THEOREM Tipos == Spec => []TypeOK
  <1>1. Tipo => TypeOK
    <2> SUFFICES ASSUME Tipo PROVE TypeOK
      OBVIOUS
    <2>1. \A n \in Nombres : disco[n] = NULL \/ EntradaOK(disco[n])
      BY ConClaves DEF Tipo, Discos, EntradaOK
    <2>2. \A k \in DOMAIN fcb_list :
            fcb_list[k].nombre \in Nombres /\ EntradaOK(fcb_list[k].config)
      BY Elementos, ConClaves DEF Tipo, Discos, EntradaOK
    <2>3. QED
      BY <2>1, <2>2 DEF Tipo, Discos, TypeOK, Valores
  <1>2. QED
    BY TipoInicial, TipoPaso, <1>1, PTL DEF Spec

-----------------------------------------------------------------------------
(***************************************************************************)
(* What the steps do to the blocks                                         *)
(***************************************************************************)
\* The blocks of a file are an interval that starts at a block of the device.
LEMMA BloquesDe ==
  ASSUME NEW s \in Seq(Fcb), NEW k \in DOMAIN s, s[k].config # SinClaves
  PROVE  \E a \in Bloques, n \in Nat \ {0} :
           /\ a = s[k].config.bloque /\ n = calcular_bloques_necesarios(s[k].config.tam)
           /\ De(s, k) = a .. a + n - 1
  <1> DEFINE c == s[k].config
             a == c.bloque
             n == calcular_bloques_necesarios(c.tam)
  <1>1. a \in Bloques /\ c.tam \in Nat
    BY Elementos, ConClaves
  <1>2. n \in Nat \ {0} /\ a \in Nat
    BY <1>1, Necesarios, Constantes
  <1>3. De(s, k) = a .. a + n - 1
    BY Zenon DEF De, Ocupa
  <1>4. QED
    BY <1>1, <1>2, <1>3

LEMMA EnUso ==
  ASSUME NEW s, NEW salvo
  PROVE  \A b : b \in Usados(s, salvo) <=> \E k \in Vivos(s, salvo) : b \in De(s, k)
  BY DEF Usados

\* The same files at other positions of the list.
LEMMA Renumerados ==
  ASSUME NEW s, NEW t, NEW y, NEW z, NEW pi,
         \A k \in Vivos(t, z) : pi[k] \in Vivos(s, y) /\ s[pi[k]].config = t[k].config,
         \A j, k \in Vivos(t, z) : pi[j] = pi[k] => j = k,
         \A m \in Vivos(s, y) : \E k \in Vivos(t, z) : pi[k] = m,
         NEW bm, NEW perd, NEW propios, Reparto(s, bm, perd, propios, y)
  PROVE  Reparto(t, bm, perd, propios, z)
  <1>1. \A k \in Vivos(t, z) : De(t, k) = De(s, pi[k])
    BY DEF De
  <1>2. Usados(t, z) = Usados(s, y)
    <2>1. \A b : b \in Usados(t, z) => b \in Usados(s, y)
      BY <1>1, EnUso
    <2>2. ASSUME NEW b \in Usados(s, y)
          PROVE  b \in Usados(t, z)
      <3>1. PICK m \in Vivos(s, y) : b \in De(s, m)
        BY EnUso
      <3>2. PICK k \in Vivos(t, z) : pi[k] = m
        OBVIOUS
      <3>3. QED
        BY <1>1, <3>1, <3>2, EnUso
    <2>3. QED
      BY <2>1, <2>2
  <1>3. QED
    BY <1>1, <1>2 DEF Reparto

\* IO_FS_CREATE takes a free block...
LEMMA RepartoAsigna ==
  ASSUME NEW s, NEW bm, NEW perd, Reparto(s, bm, perd, {}, 0), NEW b, b \notin bm
  PROVE  Reparto(s, bm \cup {b}, perd, {b}, 0)
  <1>1. bm = perd \cup Usados(s, 0)
    BY DEF Reparto
  <1>2. \A k \in Vivos(s, 0) : De(s, k) \subseteq Usados(s, 0)
    BY EnUso
  <1>3. QED
    BY <1>1, <1>2 DEF Reparto

\* ...which is the new file's,
LEMMA RepartoEscribe ==
  ASSUME NEW s \in Seq(Fcb), NEW bm, NEW perd, NEW b \in Bloques, b \in bm,
         Reparto(s, bm, perd, {b}, 0), NEW f \in Fcb, f.config = [bloque |-> b, tam |-> 0]
  PROVE  Reparto(Append(s, f), bm, perd, {}, 0)
  <1> DEFINE t == Append(s, f)
  <1>1. PICK L \in Nat : L = Len(s) /\ DOMAIN s = 1 .. L
    BY Elementos
  <1>2. /\ t \in Seq(Fcb) /\ DOMAIN t = 1 .. L + 1
        /\ t[L + 1] = f /\ \A k \in 1 .. L : t[k] = s[k]
    BY <1>1, AppendProperties
  <1> HIDE DEF t
  <1>3. f.config # SinClaves
    BY ConClaves
  <1>4. De(t, L + 1) = {b}
    <2>1. t[L + 1].config = [bloque |-> b, tam |-> 0]
      BY <1>2
    <2>2. calcular_bloques_necesarios(0) = 1
      BY DEF calcular_bloques_necesarios
    <2>3. De(t, L + 1) = b .. b + 1 - 1
      BY <2>1, <2>2 DEF De, Ocupa
    <2>4. QED
      BY <2>3, Constantes
  <1>5. \A k : k \in Vivos(t, 0) <=> k \in Vivos(s, 0) \/ k = L + 1
    BY <1>1, <1>2, <1>3 DEF Vivos
  <1>6. \A k \in Vivos(s, 0) : De(t, k) = De(s, k) /\ k # L + 1
    BY <1>1, <1>2 DEF Vivos, De
  <1>7. Usados(t, 0) = Usados(s, 0) \cup {b}
    BY <1>4, <1>5, <1>6, EnUso
  <1>8. QED
    BY <1>4, <1>5, <1>6, <1>7 DEF Reparto, t

\* ...or a lost one when a fall comes first.
LEMMA RepartoPierde ==
  ASSUME NEW s, NEW bm, NEW perd, NEW b, b \in bm, Reparto(s, bm, perd, {b}, 0)
  PROVE  Reparto(s, bm, perd \cup {b}, {}, 0)
  BY DEF Reparto

\* IO_FS_DELETE frees the blocks of its file...
LEMMA RepartoElimina ==
  ASSUME NEW s \in Seq(Fcb), NEW bm, NEW perd, NEW k \in Vivos(s, 0),
         Reparto(s, bm, perd, {}, 0)
  PROVE  Reparto(s, bm \ De(s, k), perd, {}, k)
  <1>0. PICK L \in Nat : DOMAIN s = 1 .. L
    BY Elementos
  <1>1. \A j : j \in Vivos(s, k) <=> j \in Vivos(s, 0) /\ j # k
    BY <1>0 DEF Vivos
  <1>2. bm = perd \cup Usados(s, 0)
    BY DEF Reparto
  <1>3. bm \ De(s, k) = perd \cup Usados(s, k)
    <2>1. \A b : b \in Usados(s, 0) <=> b \in Usados(s, k) \/ b \in De(s, k)
      BY <1>1, EnUso
    <2>2. \A b : b \in De(s, k) => b \notin perd /\ b \notin Usados(s, k)
      BY <1>1, EnUso DEF Reparto
    <2>3. QED
      BY <1>2, <2>1, <2>2
  <1>4. QED
    BY <1>1, <1>3 DEF Reparto

\* ...and takes its FCB away.
LEMMA RepartoQuita ==
  ASSUME NEW s \in Seq(Fcb), NEW bm, NEW perd, NEW k \in 1 .. Len(s),
         Reparto(s, bm, perd, {}, k)
  PROVE  Reparto(RemoveAt(s, k), bm, perd, {}, 0)
  <1> DEFINE t == RemoveAt(s, k)
  <1>1. PICK L \in Nat : L = Len(s) /\ DOMAIN s = 1 .. L /\ k \in 1 .. L
    BY Elementos
  <1>2. /\ DOMAIN t = 1 .. L - 1
        /\ \A j \in 1 .. k - 1 : t[j] = s[j]
        /\ \A j \in k .. L - 1 : t[j] = s[j + 1]
    BY <1>1, SinElK, Elementos
  <1> HIDE DEF t
  <1> DEFINE pi == [j \in 1 .. L - 1 |-> IF j < k THEN j ELSE j + 1]
  <1>3. \A j \in Vivos(t, 0) :
          j \in 1 .. L - 1 /\ pi[j] \in Vivos(s, k) /\ s[pi[j]].config = t[j].config
    BY <1>1, <1>2 DEF Vivos
  <1>4. \A i, j \in 1 .. L - 1 : pi[i] = pi[j] => i = j
    BY <1>1
  <1>5. ASSUME NEW m \in Vivos(s, k)
        PROVE  \E j \in Vivos(t, 0) : pi[j] = m
    <2>1. m \in 1 .. L /\ m # k /\ s[m].config # SinClaves
      BY <1>1 DEF Vivos
    <2>2. CASE m < k
      BY <1>1, <1>2, <2>1, <2>2 DEF Vivos
    <2>3. CASE m > k
      <3>1. m - 1 \in k .. L - 1 /\ m - 1 \in 1 .. L - 1 /\ (m - 1) + 1 = m /\ ~(m - 1 < k)
        BY <1>1, <2>1, <2>3
      <3>2. t[m - 1] = s[m] /\ pi[m - 1] = m /\ m - 1 # 0
        BY <1>2, <3>1
      <3>3. m - 1 \in Vivos(t, 0)
        <4>1. m - 1 \in DOMAIN t /\ t[m - 1].config # SinClaves
          BY <1>2, <2>1, <3>1, <3>2
        <4>2. QED
          BY <3>2, <4>1 DEF Vivos
      <3>4. QED
        BY <3>2, <3>3
    <2>4. m < k \/ m > k
      BY <1>1, <2>1
    <2>5. QED
      BY <2>2, <2>3, <2>4
  <1> HIDE DEF pi
  <1>6. QED
    BY <1>3, <1>4, <1>5, Renumerados, SMTT(30) DEF t

\* A truncate sets apart the blocks its file is going to have.
LEMMA RepartoReserva ==
  ASSUME NEW s, NEW bm, NEW perd, NEW k, Reparto(s, bm, perd, {}, k),
         NEW r, r \cap bm = {}, NEW bm2, bm2 \cup r = bm \cup r
  PROVE  Reparto(s, bm2, perd, r, k)
  <1>1. bm = perd \cup Usados(s, k)
    BY DEF Reparto
  <1>2. \A j \in Vivos(s, k) : De(s, j) \subseteq Usados(s, k)
    BY EnUso
  <1>3. QED
    BY <1>1, <1>2 DEF Reparto

\* A file that shrinks where it is keeps its first blocks.
LEMMA RepartoAchica ==
  ASSUME NEW s \in Seq(Fcb), NEW bm, NEW perd, NEW k \in Vivos(s, 0),
         Reparto(s, bm, perd, {}, 0),
         NEW a \in Nat, NEW m \in Nat, NEW n \in Nat, n <= m, De(s, k) = a .. a + m - 1
  PROVE  Reparto(s, bm \ (a + n .. a + m - 1), perd, a .. a + n - 1, k)
  <1>1. Reparto(s, bm \ De(s, k), perd, {}, k)
    BY RepartoElimina
  <1>2. \A b : b \in a .. a + n - 1 <=> b \in De(s, k) /\ b \notin a + n .. a + m - 1
    OBVIOUS
  <1>3. De(s, k) \subseteq bm
    BY EnUso DEF Reparto
  <1>4. (a .. a + n - 1) \cap (bm \ De(s, k)) = {}
    BY <1>2
  <1>5. (bm \ (a + n .. a + m - 1)) \cup (a .. a + n - 1)
          = (bm \ De(s, k)) \cup (a .. a + n - 1)
    <2>1. \A b : b \in a + n .. a + m - 1 => b \in De(s, k)
      OBVIOUS
    <2>2. QED
      BY <1>2, <2>1
  <1>6. QED
    BY <1>1, <1>4, <1>5, RepartoReserva

\* A file that grows where it is takes the free blocks that follow.
LEMMA RepartoCrece ==
  ASSUME NEW s \in Seq(Fcb), NEW bm, NEW perd, NEW k \in Vivos(s, 0),
         Reparto(s, bm, perd, {}, 0),
         NEW a \in Nat, NEW m \in Nat, NEW n \in Nat, m <= n, De(s, k) = a .. a + m - 1,
         \A b \in a + m .. a + n - 1 : b \notin bm
  PROVE  Reparto(s, bm, perd, a .. a + n - 1, k)
  <1>1. Reparto(s, bm \ De(s, k), perd, {}, k)
    BY RepartoElimina
  <1>2. \A b : b \in a .. a + n - 1 <=> b \in De(s, k) \/ b \in a + m .. a + n - 1
    OBVIOUS
  <1>3. (a .. a + n - 1) \cap (bm \ De(s, k)) = {}
    BY <1>2
  <1>4. bm \cup (a .. a + n - 1) = (bm \ De(s, k)) \cup (a .. a + n - 1)
    BY <1>2
  <1>5. QED
    BY <1>1, <1>3, <1>4, RepartoReserva

\* Its entry changes while its blocks are set apart.
LEMMA RepartoGuarda ==
  ASSUME NEW s \in Seq(Fcb), NEW t \in Seq(Fcb), Len(s) = Len(t), NEW k,
         \A j \in 1 .. Len(s) : j # k => t[j].config = s[j].config,
         NEW bm, NEW perd, NEW r, Reparto(s, bm, perd, r, k)
  PROVE  Reparto(t, bm, perd, r, k)
  <1>1. PICK L \in Nat : DOMAIN s = 1 .. L /\ DOMAIN t = 1 .. L
                         /\ \A j \in 1 .. L : j # k => t[j].config = s[j].config
    BY Elementos
  <1> DEFINE pi == [j \in 1 .. L |-> j]
  <1>2. \A j \in Vivos(t, k) : j \in 1 .. L /\ pi[j] \in Vivos(s, k)
                               /\ s[pi[j]].config = t[j].config
    BY <1>1 DEF Vivos
  <1>3. \A j \in Vivos(s, k) : j \in Vivos(t, k) /\ pi[j] = j
    BY <1>1 DEF Vivos
  <1>4. \A i, j \in Vivos(t, k) : pi[i] = pi[j] => i = j
    BY <1>2
  <1> HIDE DEF pi
  <1>5. \A m \in Vivos(s, k) : \E j \in Vivos(t, k) : pi[j] = m
    BY <1>3
  <1>6. \A j \in Vivos(t, k) : pi[j] \in Vivos(s, k) /\ s[pi[j]].config = t[j].config
    BY <1>2
  <1>7. QED
    BY <1>4, <1>5, <1>6, Renumerados

\* The blocks set apart are marked: they are the file's.
LEMMA RepartoMarca ==
  ASSUME NEW s \in Seq(Fcb), NEW k \in Vivos(s, 0), NEW bm, NEW perd,
         Reparto(s, bm, perd, De(s, k), k), De(s, k) \subseteq Bloques
  PROVE  Reparto(s, bm \cup De(s, k), perd, {}, 0)
  <1>0. PICK L \in Nat : DOMAIN s = 1 .. L
    BY Elementos
  <1>1. \A j : j \in Vivos(s, 0) <=> j \in Vivos(s, k) \/ j = k
    BY <1>0 DEF Vivos
  <1>2. \A b : b \in Usados(s, 0) <=> b \in Usados(s, k) \/ b \in De(s, k)
    BY <1>1, EnUso
  <1>3. bm \cup De(s, k) = perd \cup Usados(s, 0)
    BY <1>2 DEF Reparto
  <1>4. QED
    BY <1>1, <1>3 DEF Reparto

\* The restart reads the same files back, in another order.
LEMMA RepartoLee ==
  ASSUME NEW s \in Seq(Fcb), NEW d \in [Nombres -> Entrada \cup {NULL}], Espejo(s, d),
         NEW t \in Seq(Fcb), Espejo(t, d), NEW bm, NEW perd, Reparto(s, bm, perd, {}, 0)
  PROVE  Reparto(t, bm, perd, {}, 0)
  <1>1. PICK L \in Nat, M \in Nat : DOMAIN s = 1 .. L /\ DOMAIN t = 1 .. M
    BY Elementos
  <1>2. ASSUME NEW x \in Seq(Fcb), NEW y \in Seq(Fcb), Espejo(x, d), Espejo(y, d),
               NEW k \in Vivos(x, 0)
        PROVE  \E j \in Vivos(y, 0) : y[j].nombre = x[k].nombre /\ y[j].config = x[k].config
    <2>1. PICK N \in Nat, P \in Nat : DOMAIN x = 1 .. N /\ DOMAIN y = 1 .. P
      BY Elementos
    <2>2. /\ k \in 1 .. N /\ x[k].config # SinClaves /\ x[k].nombre \in Nombres
          /\ x[k].config \in Entrada
      BY <2>1, Elementos DEF Vivos
    <2>3. d[x[k].nombre] = x[k].config /\ d[x[k].nombre] \notin {NULL, SinClaves}
      <3>1. d[x[k].nombre] = x[k].config
        BY <1>2, <2>1, <2>2 DEF Espejo
      <3>2. x[k].config # NULL
        BY <2>2, ConClaves
      <3>3. QED
        BY <2>2, <3>1, <3>2
    <2>4. PICK j \in 1 .. P : y[j].nombre = x[k].nombre
      <3>1. (\A j \in 1 .. P : y[j].nombre # x[k].nombre)
              => d[x[k].nombre] \in {NULL, SinClaves}
        BY <1>2, <2>1, <2>2 DEF Espejo
      <3>2. QED
        BY <2>3, <3>1
    <2>5. y[j].config = d[x[k].nombre]
      BY <1>2, <2>1, <2>4 DEF Espejo
    <2>6. j \in Vivos(y, 0)
      BY <2>1, <2>2, <2>3, <2>4, <2>5 DEF Vivos
    <2>7. QED
      BY <2>3, <2>4, <2>5, <2>6
  <1> DEFINE pi == [k \in 1 .. M |->
                      CHOOSE j \in Vivos(s, 0) : s[j].nombre = t[k].nombre
                                                 /\ s[j].config = t[k].config]
  <1>3. \A k \in Vivos(t, 0) :
          k \in 1 .. M /\ pi[k] \in Vivos(s, 0) /\ s[pi[k]].nombre = t[k].nombre
          /\ s[pi[k]].config = t[k].config
    <2> TAKE k \in Vivos(t, 0)
    <2>1. k \in 1 .. M
      BY <1>1 DEF Vivos
    <2>2. \E j \in Vivos(s, 0) : s[j].nombre = t[k].nombre /\ s[j].config = t[k].config
      BY <1>2
    <2>3. QED
      BY <2>1, <2>2
  <1> HIDE DEF pi
  <1>4. \A j, k \in Vivos(t, 0) : pi[j] = pi[k] => j = k
    BY <1>1, <1>3 DEF Espejo, Vivos
  <1>5. ASSUME NEW m \in Vivos(s, 0)
        PROVE  \E k \in Vivos(t, 0) : pi[k] = m
    <2>1. PICK k \in Vivos(t, 0) : t[k].nombre = s[m].nombre
      BY <1>2
    <2>2. m \in DOMAIN s /\ pi[k] \in DOMAIN s /\ s[pi[k]].nombre = s[m].nombre
      BY <1>3, <2>1 DEF Vivos
    <2>3. pi[k] = m
      BY <2>2 DEF Espejo
    <2>4. QED
      BY <2>3
  <1>6. \A k \in Vivos(t, 0) : pi[k] \in Vivos(s, 0) /\ s[pi[k]].config = t[k].config
    BY <1>3
  <1>7. QED
    BY <1>4, <1>5, <1>6, Renumerados

\* Every marked block is of the device.
LEMMA Marcados ==
  ASSUME NEW s, NEW bm, NEW perd, perd \subseteq Bloques, Reparto(s, bm, perd, {}, 0)
  PROVE  bm \subseteq Bloques
  BY EnUso DEF Reparto

-----------------------------------------------------------------------------
(***************************************************************************)
(* The compaction                                                          *)
(***************************************************************************)
\* The file to truncate goes to the end of the list.
LEMMA AlFinal ==
  ASSUME NEW s \in Seq(Fcb), NEW k \in 1 .. Len(s)
  PROVE  LET t == Append(RemoveAt(s, k), s[k])
         IN  /\ t \in Seq(Fcb) /\ Len(t) = Len(s) /\ t[Len(s)] = s[k]
             /\ \A j \in 1 .. k - 1 : t[j] = s[j]
             /\ \A j \in k .. Len(s) - 1 : t[j] = s[j + 1]
  <1>1. PICK L \in Nat : L = Len(s) /\ k \in 1 .. L
    BY Elementos
  <1>2. PICK r \in Seq(Fcb) : r = RemoveAt(s, k) /\ Len(r) = L - 1
                              /\ (\A j \in 1 .. k - 1 : r[j] = s[j])
                              /\ (\A j \in k .. L - 1 : r[j] = s[j + 1])
    <2>1. /\ RemoveAt(s, k) \in Seq(Fcb) /\ Len(RemoveAt(s, k)) = L - 1
          /\ \A j \in 1 .. k - 1 : RemoveAt(s, k)[j] = s[j]
          /\ \A j \in k .. L - 1 : RemoveAt(s, k)[j] = s[j + 1]
      BY <1>1, SinElK
    <2>2. QED
      BY <2>1, Zenon
  <1>3. PICK f \in Fcb : f = s[k]
    BY ElementOfSeq
  <1>4. /\ Append(r, f) \in Seq(Fcb) /\ Len(Append(r, f)) = L
        /\ Append(r, f)[L] = f /\ \A j \in 1 .. L - 1 : Append(r, f)[j] = r[j]
    BY <1>1, <1>2, AppendProperties
  <1>5. \A j \in 1 .. k - 1 : j \in 1 .. L - 1
    BY <1>1
  <1>6. \A j \in k .. L - 1 : j \in 1 .. L - 1
    BY <1>1
  <1>7. QED
    BY <1>1, <1>2, <1>3, <1>4, <1>5, <1>6

\* The elements of t are those of s in another order.
Permuta(pi, L, s, t) ==
  /\ \A j \in 1 .. L : pi[j] \in 1 .. L /\ t[j] = s[pi[j]]
  /\ \A i, j \in 1 .. L : pi[i] = pi[j] => i = j
  /\ \A m \in 1 .. L : \E j \in 1 .. L : pi[j] = m

LEMMA OtroOrden ==
  ASSUME NEW s \in Seq(Fcb), NEW t \in Seq(Fcb), NEW L \in Nat,
         DOMAIN s = 1 .. L, DOMAIN t = 1 .. L, NEW k \in 1 .. L,
         t[L] = s[k], \A j \in 1 .. k - 1 : t[j] = s[j],
         \A j \in k .. L - 1 : t[j] = s[j + 1]
  PROVE  \E pi : Permuta(pi, L, s, t)
  <1>1. k \in Int /\ 1 <= k /\ k <= L
    OBVIOUS
  <1> DEFINE pi == [j \in 1 .. L |-> IF j < k THEN j ELSE IF j = L THEN k ELSE j + 1]
  <1>a. \A j \in 1 .. L :
          /\ j < k => pi[j] = j
          /\ ~(j < k) /\ j = L => pi[j] = k
          /\ ~(j < k) /\ j # L => pi[j] = j + 1
    OBVIOUS
  <1> HIDE DEF pi
  <1>2. \A j \in 1 .. L : pi[j] \in 1 .. L /\ t[j] = s[pi[j]]
    <2> TAKE j \in 1 .. L
    <2>1. CASE j < k
      <3>1. j \in 1 .. k - 1 /\ pi[j] = j
        BY <1>1, <1>a, <2>1
      <3>2. QED
        BY <3>1
    <2>2. CASE ~(j < k) /\ j = L
      BY <1>1, <1>a, <2>2
    <2>3. CASE ~(j < k) /\ j # L
      <3>1. j \in k .. L - 1 /\ j + 1 \in 1 .. L
        BY <1>1, <2>3
      <3>2. pi[j] = j + 1
        BY <1>a, <2>3
      <3>3. QED
        BY <1>1, <3>1, <3>2
    <2>4. QED
      BY <2>1, <2>2, <2>3
  <1>3. \A i, j \in 1 .. L : pi[i] = pi[j] => i = j
    <2> TAKE i, j \in 1 .. L
    <2>1. i \in Int /\ j \in Int /\ k \in Int /\ i <= L /\ j <= L
      BY <1>1
    <2>2. QED
      BY <1>a, <2>1
  <1>4. \A m \in 1 .. L : \E j \in 1 .. L : pi[j] = m
    <2> TAKE m \in 1 .. L
    <2>1. CASE m < k
      BY <1>a, <2>1
    <2>2. CASE m = k
      <3>1. L \in 1 .. L /\ ~(L < k)
        BY <1>1
      <3>2. QED
        BY <1>a, <2>2, <3>1
    <2>3. CASE m > k
      <3>1. m - 1 \in 1 .. L /\ ~(m - 1 < k) /\ m - 1 # L /\ (m - 1) + 1 = m
        BY <1>1, <2>3
      <3>2. pi[m - 1] = m
        BY <1>a, <3>1
      <3>3. QED
        BY <3>1, <3>2
    <2>4. m < k \/ m = k \/ m > k
      BY <1>1
    <2>5. QED
      BY <2>1, <2>2, <2>3, <2>4
  <1>5. Permuta(pi, L, s, t)
    BY <1>2, <1>3, <1>4 DEF Permuta
  <1>6. QED
    BY <1>5

LEMMA RepartoPermuta ==
  ASSUME NEW s \in Seq(Fcb), NEW t \in Seq(Fcb), NEW L \in Nat,
         DOMAIN s = 1 .. L, DOMAIN t = 1 .. L, NEW pi, Permuta(pi, L, s, t),
         NEW bm, NEW perd, Reparto(s, bm, perd, {}, 0)
  PROVE  Reparto(t, bm, perd, {}, 0)
  <1>2. \A j \in 1 .. L : pi[j] \in 1 .. L /\ t[j] = s[pi[j]]
    BY DEF Permuta
  <1>3. \A i, j \in 1 .. L : pi[i] = pi[j] => i = j
    BY DEF Permuta
  <1>4. \A m \in 1 .. L : \E j \in 1 .. L : pi[j] = m
    BY DEF Permuta
  <1>5. \A j \in Vivos(t, 0) : pi[j] \in Vivos(s, 0) /\ s[pi[j]].config = t[j].config
    <2> TAKE j \in Vivos(t, 0)
    <2>1. j \in 1 .. L /\ t[j].config # SinClaves
      BY DEF Vivos
    <2>2. pi[j] \in 1 .. L /\ t[j] = s[pi[j]] /\ pi[j] # 0
      BY <1>2, <2>1
    <2>3. QED
      BY <2>1, <2>2 DEF Vivos
  <1>6. \A i, j \in Vivos(t, 0) : pi[i] = pi[j] => i = j
    BY <1>3 DEF Vivos
  <1>7. \A m \in Vivos(s, 0) : \E j \in Vivos(t, 0) : pi[j] = m
    <2> TAKE m \in Vivos(s, 0)
    <2>1. m \in 1 .. L /\ s[m].config # SinClaves
      BY DEF Vivos
    <2>2. PICK j \in 1 .. L : pi[j] = m
      BY <1>4, <2>1
    <2>3. j \in Vivos(t, 0)
      BY <1>2, <2>1, <2>2 DEF Vivos
    <2>4. QED
      BY <2>2, <2>3
  <1>8. QED
    BY <1>5, <1>6, <1>7, Renumerados

LEMMA EnPorMover ==
  ASSUME NEW s, NEW i
  PROVE  \A b : b \in PorMover(s, i) <=> \E k \in Vivos(s, 0) : i <= k /\ b \in De(s, k)
  BY DEF PorMover

\* It begins with every file to be moved, and they fit in the device.
LEMMA CompactoEmpieza ==
  ASSUME NEW s \in Seq(Fcb), NEW bm, NEW perd, Reparto(s, bm, perd, {}, 0)
  PROVE  Compacto(s, 1, 0)
  <1>1. PorMover(s, 1) \subseteq Bloques
    BY EnPorMover DEF Reparto
  <1>2. Cardinality(PorMover(s, 1)) <= block_count /\ Cardinality(PorMover(s, 1)) \in Nat
    BY <1>1, Constantes, FS_Subset, FS_CardinalityType
  <1>3. 1 .. 1 - 1 = {} /\ 0 .. 0 - 1 = {}
    OBVIOUS
  <1>4. Cardinality(PorMover(s, 1)) + 0 <= block_count
    BY <1>2, DialFSOK
  <1>5. QED
    BY <1>3, <1>4 DEF Compacto, Reparto

\* While a file waits there is a free block, the first one after the files
\* already moved.
LEMMA HayLugar ==
  ASSUME NEW s \in Seq(Fcb), NEW i \in 1 .. Len(s), s[i].config # SinClaves,
         NEW alto \in 0 .. block_count, Compacto(s, i, alto)
  PROVE  /\ i \in Vivos(s, 0) /\ De(s, i) \subseteq PorMover(s, i)
         /\ IsFiniteSet(PorMover(s, i)) /\ PorMover(s, i) \subseteq Bloques
         /\ Cardinality(De(s, i)) = calcular_bloques_necesarios(s[i].config.tam)
         /\ alto + calcular_bloques_necesarios(s[i].config.tam) <= block_count
         /\ buscar_bloque_libre(0 .. alto - 1) = alto /\ alto \in Bloques
  <1>0. PICK L \in Nat : DOMAIN s = 1 .. L /\ i \in 1 .. L
    BY Elementos
  <1>1. i \in Vivos(s, 0)
    BY <1>0 DEF Vivos
  <1>2. De(s, i) \subseteq PorMover(s, i)
    BY <1>0, <1>1, EnPorMover
  <1>3. PorMover(s, i) \subseteq Bloques
    BY EnPorMover DEF Compacto
  <1>4. IsFiniteSet(PorMover(s, i))
    BY <1>3, Constantes, FS_Subset
  <1>5. PICK a \in Bloques, n \in Nat \ {0} :
          n = calcular_bloques_necesarios(s[i].config.tam) /\ De(s, i) = a .. a + n - 1
    BY <1>0, BloquesDe
  <1>6. Cardinality(De(s, i)) = n
    <2>1. a \in Int /\ a + n - 1 \in Int /\ ~(a > a + n - 1) /\ (a + n - 1) - a + 1 = n
      BY <1>5, Constantes
    <2>2. Cardinality(a .. a + n - 1) = (a + n - 1) - a + 1
      BY <2>1, FS_Interval
    <2>3. QED
      BY <1>5, <2>1, <2>2
  <1>7. PICK c \in Nat : c = Cardinality(PorMover(s, i)) /\ n <= c
    BY <1>2, <1>4, <1>6, FS_Subset, FS_CardinalityType
  <1>8. alto + n <= block_count /\ alto < block_count /\ alto \in Nat
    <2>1. c + alto <= block_count
      BY <1>7 DEF Compacto
    <2>2. QED
      BY <1>5, <1>7, <2>1, DialFSOK
  <1>9. alto \in Bloques
    BY <1>8, Constantes
  <1>10. buscar_bloque_libre(0 .. alto - 1) = alto
    <2>1. PICK b : b = buscar_bloque_libre(0 .. alto - 1)
      OBVIOUS
    <2>2. alto \in Bloques \ (0 .. alto - 1)
      BY <1>8, <1>9
    <2>3. b # -1
      BY <2>1, <2>2, BloqueLibre
    <2>4. b \in Bloques \ (0 .. alto - 1) /\ b <= alto
      BY <2>1, <2>2, <2>3, BloqueLibre
    <2>5. b \in Nat /\ ~(b \in 0 .. alto - 1)
      BY <2>4, Constantes
    <2>6. b = alto
      BY <1>8, <2>4, <2>5
    <2>7. QED
      BY <2>1, <2>6
  <1>11. QED
    BY <1>1, <1>2, <1>3, <1>4, <1>5, <1>6, <1>8, <1>9, <1>10

\* One file is moved next to the ones that were.
LEMMA CompactoSigue ==
  ASSUME NEW s \in Seq(Fcb), NEW t \in Seq(Fcb), Len(t) = Len(s),
         NEW i \in 1 .. Len(s), s[i].config # SinClaves,
         NEW alto \in 0 .. block_count, Compacto(s, i, alto),
         NEW n, n = calcular_bloques_necesarios(s[i].config.tam),
         t[i].config = [bloque |-> alto, tam |-> s[i].config.tam],
         \A j \in 1 .. Len(s) : j # i => t[j].config = s[j].config
  PROVE  /\ alto + n \in 0 .. block_count
         /\ (0 .. alto - 1) \cup (alto .. (alto + n) - 1) = 0 .. (alto + n) - 1
         /\ Compacto(t, i + 1, alto + n)
  <1>1. PICK L \in Nat : DOMAIN s = 1 .. L /\ DOMAIN t = 1 .. L /\ i \in 1 .. L
                         /\ \A j \in 1 .. L : j # i => t[j].config = s[j].config
    BY Elementos
  <1>2. /\ i \in Vivos(s, 0) /\ De(s, i) \subseteq PorMover(s, i)
        /\ IsFiniteSet(PorMover(s, i)) /\ Cardinality(De(s, i)) = n
        /\ alto + n <= block_count /\ alto \in Bloques
    BY HayLugar
  <1>3. s[i].config.tam \in Nat /\ n \in Nat \ {0} /\ alto \in Nat
    <2>1. s[i].config.tam \in Nat
      BY Elementos, ConClaves
    <2>2. QED
      BY <1>2, <2>1, Necesarios, Constantes
  <1>4. PICK h \in Nat : h = alto + n /\ h <= block_count /\ alto < h
    BY <1>2, <1>3
  <1>5. De(t, i) = alto .. h - 1
    <2>1. PICK c : /\ c = t[i].config /\ c.bloque = alto
                   /\ calcular_bloques_necesarios(c.tam) = n
      OBVIOUS
    <2>2. De(t, i) = c.bloque .. c.bloque + calcular_bloques_necesarios(c.tam) - 1
      BY <2>1, Zenon DEF De, Ocupa
    <2>3. QED
      BY <1>3, <1>4, <2>1, <2>2
  <1>6. \A j \in 1 .. L : j # i => De(t, j) = De(s, j)
    BY <1>1 DEF De
  <1>7. \A j : j \in Vivos(t, 0) <=> j \in Vivos(s, 0)
    <2>1. t[i].config # SinClaves
      BY <1>2, <1>3, ConClaves
    <2>2. \A j \in 1 .. L : t[j].config # SinClaves <=> s[j].config # SinClaves
      BY <1>1, <2>1
    <2>3. QED
      BY <1>1, <2>2 DEF Vivos
  <1>8. \A k \in 1 .. i : De(t, k) \subseteq 0 .. h - 1
    <2> TAKE k \in 1 .. i
    <2>1. CASE k = i
      BY <1>3, <1>5, <2>1
    <2>2. CASE k # i
      <3>1. k \in 1 .. i - 1 /\ k \in 1 .. L
        BY <1>1, <2>2
      <3>2. De(t, k) \subseteq 0 .. alto - 1
        BY <1>6, <2>2, <3>1 DEF Compacto
      <3>3. QED
        BY <1>3, <1>4, <3>2
    <2>3. QED
      BY <2>1, <2>2
  <1>9. \A b \in 0 .. h - 1 : \E k \in 1 .. i : b \in De(t, k)
    <2> TAKE b \in 0 .. h - 1
    <2>1. CASE b < alto
      <3>1. b \in 0 .. alto - 1
        BY <1>3, <2>1
      <3>2. PICK k \in 1 .. i - 1 : b \in De(s, k)
        BY <3>1 DEF Compacto
      <3>3. k \in 1 .. i /\ k \in 1 .. L /\ k # i
        BY <1>1
      <3>4. QED
        BY <1>6, <3>2, <3>3
    <2>2. CASE ~(b < alto)
      <3>1. b \in alto .. h - 1 /\ i \in 1 .. i
        BY <1>1, <1>3, <2>2
      <3>2. QED
        BY <1>5, <3>1
    <2>3. QED
      BY <2>1, <2>2
  <1>10. \A j, k \in 1 .. i : j # k => De(t, j) \cap De(t, k) = {}
    <2>1. \A k \in 1 .. i - 1 : De(t, k) \cap (alto .. h - 1) = {}
      <3> TAKE k \in 1 .. i - 1
      <3>1. k \in 1 .. L /\ k # i
        BY <1>1
      <3>2. De(t, k) \subseteq 0 .. alto - 1
        BY <1>6, <3>1 DEF Compacto
      <3>3. QED
        BY <1>3, <3>2
    <2>2. \A j, k \in 1 .. i - 1 : j # k => De(t, j) \cap De(t, k) = {}
      <3> TAKE j, k \in 1 .. i - 1
      <3>1. j \in 1 .. L /\ j # i /\ k \in 1 .. L /\ k # i
        BY <1>1
      <3>2. QED
        BY <1>6, <3>1 DEF Compacto
    <2>3. \A j \in 1 .. i : j = i \/ j \in 1 .. i - 1
      BY <1>1
    <2>4. QED
      BY <1>5, <2>1, <2>2, <2>3
  <1>11. \A k \in Vivos(t, 0) : i + 1 <= k =>
           k \in Vivos(s, 0) /\ i <= k /\ k # i /\ De(t, k) = De(s, k)
    <2> TAKE k \in Vivos(t, 0)
    <2>1. k \in 1 .. L
      BY <1>1 DEF Vivos
    <2>2. i + 1 <= k => i <= k /\ k # i
      BY <1>1, <2>1
    <2>3. QED
      BY <1>6, <1>7, <2>1, <2>2
  <1>12. Cardinality(PorMover(t, i + 1)) + h <= block_count
    <2>1. PorMover(t, i + 1) \subseteq PorMover(s, i) \ De(s, i)
      <3>1. ASSUME NEW b \in PorMover(t, i + 1)
            PROVE  b \in PorMover(s, i) \ De(s, i)
        <4>1. PICK k \in Vivos(t, 0) : i + 1 <= k /\ b \in De(t, k)
          BY EnPorMover
        <4>2. k \in Vivos(s, 0) /\ i <= k /\ k # i /\ b \in De(s, k)
          BY <1>11, <4>1
        <4>3. i <= i
          BY <1>1
        <4>4. De(s, i) \cap De(s, k) = {}
          BY <1>2, <4>2, <4>3 DEF Compacto
        <4>5. QED
          BY <4>2, <4>4, EnPorMover
      <3>2. QED
        BY <3>1
    <2>2. PICK c \in Nat : c = Cardinality(PorMover(s, i))
      BY <1>2, FS_CardinalityType
    <2>3. /\ IsFiniteSet(PorMover(s, i) \ De(s, i))
          /\ Cardinality(PorMover(s, i) \ De(s, i)) = c - n
      <3>1. PorMover(s, i) \cap De(s, i) = De(s, i)
        BY <1>2
      <3>2. /\ IsFiniteSet(PorMover(s, i) \ De(s, i))
            /\ Cardinality(PorMover(s, i) \ De(s, i))
                 = Cardinality(PorMover(s, i)) - Cardinality(PorMover(s, i) \cap De(s, i))
        BY <1>2, FS_Difference
      <3>3. QED
        BY <1>2, <2>2, <3>1, <3>2
    <2>4. PICK e \in Nat : e = Cardinality(PorMover(t, i + 1)) /\ e <= c - n
      <3>1. /\ IsFiniteSet(PorMover(t, i + 1))
            /\ Cardinality(PorMover(t, i + 1)) <= Cardinality(PorMover(s, i) \ De(s, i))
        BY <2>1, <2>3, FS_Subset
      <3>2. Cardinality(PorMover(t, i + 1)) \in Nat
        BY <3>1, FS_CardinalityType
      <3>3. QED
        BY <2>3, <3>1, <3>2
    <2>5. c + alto <= block_count
      BY <2>2 DEF Compacto
    <2>6. e + h <= block_count
      BY <1>3, <1>4, <2>4, <2>5, DialFSOK, SMTT(30)
    <2>7. QED
      BY <2>4, <2>6
  <1>13. t[i].config.bloque + calcular_bloques_necesarios(t[i].config.tam) = h
    BY <1>4
  <1>14. Compacto(t, i + 1, h)
    <2>1. (i + 1) - 1 = i
      BY <1>1
    <2>2. \A j, k \in Vivos(t, 0) :
            i + 1 <= j /\ i + 1 <= k /\ j # k => De(t, j) \cap De(t, k) = {}
      BY <1>11 DEF Compacto
    <2>3. \A k \in Vivos(t, 0) : i + 1 <= k => De(t, k) \subseteq Bloques
      BY <1>11 DEF Compacto
    <2>4. QED
      BY <1>8, <1>9, <1>10, <1>12, <1>13, <2>1, <2>2, <2>3 DEF Compacto
  <1>15. alto + n \in 0 .. block_count
         /\ (0 .. alto - 1) \cup (alto .. (alto + n) - 1) = 0 .. (alto + n) - 1
    BY <1>2, <1>3, DialFSOK
  <1>16. QED
    BY <1>4, <1>14, <1>15

\* At the end the files fill the device from its first block, and the last one
\* is the one to truncate, free to grow behind it.
LEMMA CompactoTermina ==
  ASSUME NEW s \in Seq(Fcb), NEW L \in Nat \ {0}, Len(s) = L,
         NEW alto \in 0 .. block_count, Compacto(s, L + 1, alto),
         \A k \in 1 .. L : s[k].config # SinClaves,
         NEW a, a = s[L].config.bloque,
         NEW n \in Nat, calcular_bloques_necesarios(s[L].config.tam) <= n
  PROVE  Reparto(s, 0 .. alto - 1, {}, a .. a + n - 1, L)
  <1>1. DOMAIN s = 1 .. L /\ L \in 1 .. L /\ (L + 1) - 1 = L /\ L + 1 > 1
    BY Elementos
  <1>2. PICK m \in Nat \ {0} : m = calcular_bloques_necesarios(s[L].config.tam)
                               /\ De(s, L) = a .. a + m - 1 /\ a \in Bloques
    BY <1>1, BloquesDe
  <1>3. a \in Nat /\ alto \in Nat /\ alto <= block_count /\ m <= n
    BY <1>2, Constantes, DialFSOK
  <1>4. a + m = alto
    BY <1>1, <1>2 DEF Compacto
  <1>5. \A k \in 1 .. L : De(s, k) \subseteq 0 .. alto - 1
    BY <1>1 DEF Compacto
  <1>6. \A j, k \in 1 .. L : j # k => De(s, j) \cap De(s, k) = {}
    BY <1>1 DEF Compacto
  <1>7. \A b \in 0 .. alto - 1 : \E k \in 1 .. L : b \in De(s, k)
    BY <1>1 DEF Compacto
  <1>8. \A k : k \in Vivos(s, L) <=> k \in 1 .. L /\ k # L
    BY <1>1 DEF Vivos
  <1>9. De(s, L) \subseteq a .. a + n - 1
    BY <1>2, <1>3
  <1>10. \A b \in a .. a + n - 1 : b \in 0 .. alto - 1 => b \in De(s, L)
    <2> TAKE b \in a .. a + n - 1
    <2>1. b \in 0 .. alto - 1 => b \in a .. a + m - 1
      BY <1>3, <1>4
    <2>2. QED
      BY <1>2, <2>1
  <1>11. 0 .. alto - 1 \subseteq Bloques
    BY <1>3, Constantes
  <1>12. \A k \in Vivos(s, L) :
           De(s, k) \subseteq Bloques /\ De(s, k) \cap (a .. a + n - 1) = {}
    <2> TAKE k \in Vivos(s, L)
    <2>1. k \in 1 .. L /\ k # L
      BY <1>8
    <2>2. De(s, k) \cap De(s, L) = {}
      BY <1>1, <1>6, <2>1
    <2>3. QED
      BY <1>5, <1>10, <1>11, <2>1, <2>2
  <1>13. (0 .. alto - 1) \cup (a .. a + n - 1) = (a .. a + n - 1) \cup Usados(s, L)
    <2>1. \A b \in Usados(s, L) : b \in 0 .. alto - 1
      BY <1>5, <1>8, EnUso
    <2>2. ASSUME NEW b \in 0 .. alto - 1
          PROVE  b \in a .. a + n - 1 \/ b \in Usados(s, L)
      <3>1. PICK k \in 1 .. L : b \in De(s, k)
        BY <1>7
      <3>2. CASE k = L
        BY <1>9, <3>1, <3>2
      <3>3. CASE k # L
        BY <1>8, <3>1, <3>3, EnUso
      <3>4. QED
        BY <3>2, <3>3
    <2>3. QED
      BY <2>1, <2>2
  <1>14. QED
    BY <1>6, <1>8, <1>12, <1>13 DEF Reparto

-----------------------------------------------------------------------------
(***************************************************************************)
(* What the steps do to the list and to the directory                      *)
(***************************************************************************)
\* An entry of no FCB is emptied.
LEMMA EspejoVacia ==
  ASSUME NEW s \in Seq(Fcb), NEW d \in [Nombres -> Entrada \cup {NULL}], Espejo(s, d),
         NEW x \in Nombres, \A k \in DOMAIN s : s[k].nombre # x
  PROVE  Espejo(s, [d EXCEPT ![x] = SinClaves])
  <1>1. \A k \in DOMAIN s : s[k].nombre \in Nombres
    BY Elementos
  <1>2. QED
    BY <1>1 DEF Espejo

\* A new file gets its FCB and its keys.
LEMMA EspejoAgrega ==
  ASSUME NEW s \in Seq(Fcb), NEW d \in [Nombres -> Entrada \cup {NULL}], Espejo(s, d),
         NEW f \in Fcb, \A k \in DOMAIN s : s[k].nombre # f.nombre
  PROVE  Espejo(Append(s, f), [d EXCEPT ![f.nombre] = f.config])
  <1> DEFINE t == Append(s, f)
  <1>1. PICK L \in Nat : L = Len(s) /\ DOMAIN s = 1 .. L
    BY Elementos
  <1>2. /\ t \in Seq(Fcb) /\ DOMAIN t = 1 .. L + 1
        /\ t[L + 1] = f /\ \A k \in 1 .. L : t[k] = s[k]
    BY <1>1, AppendProperties
  <1> HIDE DEF t
  <1>3. f.nombre \in Nombres /\ \A k \in 1 .. L : s[k].nombre \in Nombres
    BY <1>1, Elementos DEF Fcb
  <1>4. PICK e : e = [d EXCEPT ![f.nombre] = f.config]
    OBVIOUS
  <1>5. e[f.nombre] = f.config /\ \A x \in Nombres : x # f.nombre => e[x] = d[x]
    BY <1>3, <1>4
  <1>6. \A k \in 1 .. L + 1 : (k \in 1 .. L /\ t[k] = s[k]) \/ (k = L + 1 /\ t[k] = f)
    BY <1>2
  <1>7. L + 1 \in 1 .. L + 1 /\ \A k \in 1 .. L : k \in 1 .. L + 1
    OBVIOUS
  <1>8. \A j, k \in 1 .. L + 1 : t[j].nombre = t[k].nombre => j = k
    BY <1>1, <1>6 DEF Espejo
  <1>9. \A k \in 1 .. L + 1 : e[t[k].nombre] = t[k].config
    BY <1>1, <1>3, <1>5, <1>6 DEF Espejo
  <1>10. ASSUME NEW x \in Nombres, \A k \in 1 .. L + 1 : t[k].nombre # x
         PROVE  e[x] \in {NULL, SinClaves}
    <2>1. x # f.nombre /\ \A k \in 1 .. L : s[k].nombre # x
      BY <1>2, <1>7, <1>10
    <2>2. QED
      BY <1>1, <1>5, <2>1 DEF Espejo
  <1>11. Espejo(t, e)
    BY <1>2, <1>8, <1>9, <1>10 DEF Espejo
  <1>12. QED
    BY <1>4, <1>11 DEF t

\* A file loses its FCB and its entry.
LEMMA EspejoQuita ==
  ASSUME NEW s \in Seq(Fcb), NEW d \in [Nombres -> Entrada \cup {NULL}], Espejo(s, d),
         NEW k \in 1 .. Len(s)
  PROVE  Espejo(RemoveAt(s, k), [d EXCEPT ![s[k].nombre] = NULL])
  <1> DEFINE t == RemoveAt(s, k)
  <1>1. PICK L \in Nat : L = Len(s) /\ DOMAIN s = 1 .. L /\ k \in 1 .. L
    BY Elementos
  <1>2. /\ DOMAIN t = 1 .. L - 1
        /\ \A j \in 1 .. k - 1 : t[j] = s[j]
        /\ \A j \in k .. L - 1 : t[j] = s[j + 1]
    BY <1>1, SinElK, Elementos
  <1> HIDE DEF t
  <1>3. \A j \in 1 .. L : s[j].nombre \in Nombres
    BY <1>1, Elementos
  <1>4. PICK e : e = [d EXCEPT ![s[k].nombre] = NULL]
    OBVIOUS
  <1>5. e[s[k].nombre] = NULL /\ \A x \in Nombres : x # s[k].nombre => e[x] = d[x]
    BY <1>1, <1>3, <1>4
  <1>6. \A i, j \in 1 .. L : s[i].nombre = s[j].nombre => i = j
    BY <1>1 DEF Espejo
  <1>7. \A j \in 1 .. L : d[s[j].nombre] = s[j].config
    BY <1>1 DEF Espejo
  <1>8. PICK pi : pi = [j \in 1 .. L - 1 |-> IF j < k THEN j ELSE j + 1]
    OBVIOUS
  <1>9. \A j \in 1 .. L - 1 : pi[j] \in 1 .. L /\ pi[j] # k /\ t[j] = s[pi[j]]
    <2> TAKE j \in 1 .. L - 1
    <2>1. CASE j < k
      <3>1. j \in 1 .. k - 1 /\ pi[j] = j /\ j \in 1 .. L /\ j # k
        BY <1>1, <1>8, <2>1
      <3>2. QED
        BY <1>2, <3>1
    <2>2. CASE ~(j < k)
      <3>1. j \in k .. L - 1 /\ pi[j] = j + 1 /\ j + 1 \in 1 .. L /\ j + 1 # k
        BY <1>1, <1>8, <2>2
      <3>2. QED
        BY <1>2, <3>1
    <2>3. QED
      BY <2>1, <2>2
  <1>10. \A i, j \in 1 .. L - 1 : pi[i] = pi[j] => i = j
    BY <1>1, <1>8
  <1>11. ASSUME NEW m \in 1 .. L, m # k
         PROVE  \E j \in 1 .. L - 1 : pi[j] = m
    <2>1. CASE m < k
      <3>1. m \in 1 .. L - 1 /\ pi[m] = m
        BY <1>1, <1>8, <2>1
      <3>2. QED
        BY <3>1
    <2>2. CASE m > k
      <3>1. m - 1 \in 1 .. L - 1 /\ ~(m - 1 < k) /\ (m - 1) + 1 = m
        BY <1>1, <2>2
      <3>2. pi[m - 1] = m
        BY <1>8, <3>1
      <3>3. QED
        BY <3>1, <3>2
    <2>3. m < k \/ m > k
      BY <1>1, <1>11
    <2>4. QED
      BY <2>1, <2>2, <2>3
  <1>12. \A i, j \in 1 .. L - 1 : t[i].nombre = t[j].nombre => i = j
    <2> TAKE i, j \in 1 .. L - 1
    <2>1. /\ pi[i] \in 1 .. L /\ t[i] = s[pi[i]]
          /\ pi[j] \in 1 .. L /\ t[j] = s[pi[j]]
      BY <1>9
    <2>2. s[pi[i]].nombre = s[pi[j]].nombre => pi[i] = pi[j]
      BY <1>6, <2>1
    <2>3. pi[i] = pi[j] => i = j
      BY <1>10
    <2>4. QED
      BY <2>1, <2>2, <2>3
  <1>13. \A j \in 1 .. L - 1 : e[t[j].nombre] = t[j].config
    <2> TAKE j \in 1 .. L - 1
    <2>1. pi[j] \in 1 .. L /\ pi[j] # k /\ t[j] = s[pi[j]]
      BY <1>9
    <2>2. s[pi[j]].nombre # s[k].nombre /\ s[pi[j]].nombre \in Nombres
      BY <1>1, <1>3, <1>6, <2>1
    <2>3. QED
      BY <1>5, <1>7, <2>1, <2>2
  <1>14. ASSUME NEW x \in Nombres, \A j \in 1 .. L - 1 : t[j].nombre # x
         PROVE  e[x] \in {NULL, SinClaves}
    <2>1. CASE x = s[k].nombre
      BY <1>5, <2>1
    <2>2. CASE x # s[k].nombre
      <3>1. ASSUME NEW m \in 1 .. L
            PROVE  s[m].nombre # x
        <4>1. CASE m = k
          BY <2>2, <4>1
        <4>2. CASE m # k
          <5>1. PICK j \in 1 .. L - 1 : pi[j] = m
            BY <1>11, <4>2
          <5>2. QED
            BY <1>9, <1>14, <5>1
        <4>3. QED
          BY <4>1, <4>2
      <3>2. QED
        BY <1>1, <1>5, <2>2, <3>1 DEF Espejo
    <2>3. QED
      BY <2>1, <2>2
  <1>15. Espejo(t, e)
    BY <1>2, <1>12, <1>13, <1>14 DEF Espejo
  <1>16. QED
    BY <1>4, <1>15 DEF t

\* The list in another order mirrors the same directory.
LEMMA EspejoPermuta ==
  ASSUME NEW s, NEW t, NEW L \in Nat,
         DOMAIN s = 1 .. L, DOMAIN t = 1 .. L, NEW pi, Permuta(pi, L, s, t),
         NEW d, Espejo(s, d)
  PROVE  Espejo(t, d)
  <1>1. \A j \in 1 .. L : pi[j] \in 1 .. L /\ t[j] = s[pi[j]]
    BY DEF Permuta
  <1>2. \A j, k \in 1 .. L : t[j].nombre = t[k].nombre => j = k
    <2> TAKE j, k \in 1 .. L
    <2>1. t[j].nombre = t[k].nombre => pi[j] = pi[k]
      BY <1>1 DEF Espejo
    <2>2. QED
      BY <2>1 DEF Permuta
  <1>3. \A k \in 1 .. L : d[t[k].nombre] = t[k].config
    BY <1>1 DEF Espejo
  <1>4. ASSUME NEW x \in Nombres, \A k \in 1 .. L : t[k].nombre # x
        PROVE  d[x] \in {NULL, SinClaves}
    <2>1. ASSUME NEW m \in 1 .. L
          PROVE  s[m].nombre # x
      <3>1. PICK j \in 1 .. L : pi[j] = m
        BY DEF Permuta
      <3>2. QED
        BY <1>1, <1>4, <3>1
    <2>2. QED
      BY <2>1 DEF Espejo
  <1>5. QED
    BY <1>2, <1>3, <1>4 DEF Espejo

\* set_campo_de_archivo saves what the FCB has.
Salvado(s, t, k, c, d, e) ==
  /\ \A j \in 1 .. Len(s) : /\ t[j].nombre = s[j].nombre
                            /\ t[j].config = IF j = k THEN c ELSE s[j].config
  /\ \A x \in Nombres : e[x] = IF x = s[k].nombre THEN c ELSE d[x]

LEMMA EspejoGuarda ==
  ASSUME NEW s \in Seq(Fcb), NEW t \in Seq(Fcb), Len(t) = Len(s), NEW k \in 1 .. Len(s),
         NEW d, NEW e, NEW c, Espejo(s, d), Salvado(s, t, k, c, d, e)
  PROVE  Espejo(t, e)
  <1>1. PICK L \in Nat :
          /\ L = Len(s) /\ DOMAIN s = 1 .. L /\ DOMAIN t = 1 .. L /\ k \in 1 .. L
          /\ \A j \in 1 .. L : s[j].nombre \in Nombres
    BY Elementos
  <1>2. \A j \in 1 .. L : /\ t[j].nombre = s[j].nombre
                          /\ t[j].config = IF j = k THEN c ELSE s[j].config
    BY <1>1 DEF Salvado
  <1>a. \A x \in Nombres : e[x] = IF x = s[k].nombre THEN c ELSE d[x]
    BY DEF Salvado
  <1>3. \A i, j \in 1 .. L : s[i].nombre = s[j].nombre => i = j
    BY <1>1 DEF Espejo
  <1>4. \A i, j \in 1 .. L : t[i].nombre = t[j].nombre => i = j
    BY <1>2, <1>3
  <1>5. \A j \in 1 .. L : e[t[j].nombre] = t[j].config
    <2> TAKE j \in 1 .. L
    <2>1. CASE j = k
      BY <1>1, <1>2, <1>a, <2>1
    <2>2. CASE j # k
      <3>1. s[j].nombre # s[k].nombre /\ s[j].nombre \in Nombres
        BY <1>1, <1>3, <2>2
      <3>2. d[s[j].nombre] = s[j].config
        BY <1>1 DEF Espejo
      <3>3. QED
        BY <1>2, <1>a, <2>2, <3>1, <3>2
    <2>3. QED
      BY <2>1, <2>2
  <1>6. ASSUME NEW x \in Nombres, \A j \in 1 .. L : t[j].nombre # x
        PROVE  e[x] \in {NULL, SinClaves}
    <2>1. \A j \in 1 .. L : s[j].nombre # x
      BY <1>2, <1>6
    <2>2. e[x] = d[x] /\ d[x] \in {NULL, SinClaves}
      BY <1>1, <1>a, <2>1 DEF Espejo
    <2>3. QED
      BY <2>2
  <1>7. QED
    BY <1>1, <1>4, <1>5, <1>6 DEF Espejo

\* The restart reads the directory back.
LEMMA EspejoLee ==
  ASSUME NEW d \in [Nombres -> Entrada \cup {NULL}],
         NEW orden \in SetToSeqs({n \in Nombres : d[n] # NULL}),
         NEW t, t = [k \in DOMAIN orden |-> [nombre |-> orden[k], config |-> d[orden[k]]]]
  PROVE  t \in Seq(Fcb) /\ Espejo(t, d)
  <1> DEFINE S == {n \in Nombres : d[n] # NULL}
  <1>1. IsFiniteSet(S)
    BY DialFSOK, FS_Subset
  <1>2. /\ orden \in Seq(S)
        /\ \A j, k \in DOMAIN orden : orden[j] = orden[k] => j = k
        /\ \A x \in S : \E k \in DOMAIN orden : orden[k] = x
    BY <1>1, Ordenados
  <1>3. PICK L \in Nat : DOMAIN orden = 1 .. L /\ \A k \in 1 .. L : orden[k] \in S
    <2>1. \A k \in 1 .. Len(orden) : orden[k] \in S
      BY <1>2, ElementOfSeq
    <2>2. QED
      BY <1>2, <2>1, LenProperties
  <1>4. \A k \in 1 .. L : t[k].nombre = orden[k] /\ t[k].config = d[orden[k]] /\ t[k] \in Fcb
    <2> TAKE k \in 1 .. L
    <2>1. t[k] = [nombre |-> orden[k], config |-> d[orden[k]]]
      BY <1>3
    <2>2. orden[k] \in Nombres /\ d[orden[k]] \in Entrada
      BY <1>3
    <2>3. QED
      BY <2>1, <2>2 DEF Fcb
  <1>5. t \in Seq(Fcb) /\ DOMAIN t = 1 .. L
    <2>1. t = [k \in 1 .. L |-> t[k]]
      BY <1>3
    <2>2. QED
      BY <1>4, <2>1
  <1>6. \A j, k \in 1 .. L : t[j].nombre = t[k].nombre => j = k
    BY <1>2, <1>3, <1>4
  <1>7. \A k \in 1 .. L : d[t[k].nombre] = t[k].config
    BY <1>4
  <1>8. ASSUME NEW x \in Nombres, \A k \in 1 .. L : t[k].nombre # x
        PROVE  d[x] \in {NULL, SinClaves}
    <2>1. x \notin S
      BY <1>2, <1>3, <1>4, <1>8
    <2>2. QED
      BY <2>1
  <1>9. QED
    BY <1>5, <1>6, <1>7, <1>8 DEF Espejo

-----------------------------------------------------------------------------
(***************************************************************************)
(* The invariant, step by step                                             *)
(***************************************************************************)
\* The steps at which the blocks in use are those of the files and no other.
Sueltos == {"recibir", "caido", "atender", "asignar", "truncar"}

Invariante == Tipo /\ Guarda /\ Antes

LEMMA Sabido ==
  ASSUME Invariante, promesa
  PROVE  /\ Espejo(fcb_list, disco)
         /\ op.paso \in Sueltos => Reparto(fcb_list, BLOQ_BITMAP, perdidos, {}, 0)
  BY DEF Invariante, Guarda, Propios, Salvo, Sueltos

LEMMA AlSoltar ==
  ASSUME op'.paso \in Sueltos, op'.paso # "asignar",
         promesa' => /\ Espejo(fcb_list', disco')
                     /\ Reparto(fcb_list', BLOQ_BITMAP', perdidos', {}, 0)
  PROVE  Guarda'
  <1>1. op'.paso \notin {"asignar", "escribir", "remover", "guardar", "marcar", "compactar"}
    BY DEF Sueltos
  <1>2. Propios' = {} /\ Salvo' = 0
    BY <1>1 DEF Propios, Salvo
  <1>3. QED
    BY <1>1, <1>2 DEF Guarda

\* Nothing the step did is about to kill the process.
LEMMA AntesSigue ==
  ASSUME op'.paso \notin {"atender", "caido"}
  PROVE  Antes'
  BY DEF Antes, MuereSoloSinArchivo

LEMMA MismoContenido ==
  ASSUME fcb_list' = fcb_list, BLOQUES' = BLOQUES
  PROVE  Contenido' = Contenido
  <1>1. \A posicion, tam : LeeBloques(posicion, tam)' = LeeBloques(posicion, tam)
    BY DEF LeeBloques, Byte
  <1>2. QED
    BY <1>1, MismaLista DEF Contenido

\* The request dies for want of its file.
LEMMA MuereSinArchivo ==
  ASSUME Invariante, op.paso = "atender", ~Legible(obtener_fcb_por_nombre(op.pedido.nombre)),
         Muere
  PROVE  Antes' /\ op'.paso = "caido"
  <1>1. op.pedido.nombre \in Nombres /\ previo = Contenido
    BY PedidoEntero DEF Invariante, Tipo, Atendido, EnCurso, Servicio, Antes
  <1>2. previo[op.pedido.nombre] = NULL
    BY <1>1 DEF Contenido
  <1>3. /\ op'.paso = "caido" /\ op'.pedido = op.pedido /\ previo' = previo
    BY AlCaer DEF Muere
  <1>4. QED
    BY <1>2, <1>3 DEF Antes, MuereSoloSinArchivo

LEMMA GuardaRecibe ==
  ASSUME Invariante, Recibe
  PROVE  Guarda' /\ Antes'
  <1>1. /\ op.paso = "recibir" /\ op'.paso = "atender" /\ previo' = Contenido
        /\ UNCHANGED <<disco, fcb_list, BLOQ_BITMAP, BLOQUES, perdidos, promesa>>
    BY DEF Recibe, Reposo, SinDisco
  <1>2. Guarda'
    BY <1>1, Sabido, AlSoltar DEF Sueltos
  <1>3. Antes'
    BY <1>1, MismoContenido DEF Antes, MuereSoloSinArchivo
  <1>4. QED
    BY <1>2, <1>3

LEMMA GuardaCrear ==
  ASSUME Invariante, CrearAbre \/ CrearSinLugar \/ CrearAsigna \/ CrearEscribe
  PROVE  Guarda' /\ Antes'
  <1> DEFINE n == op.pedido.nombre
  <1>0. /\ Discos /\ fcb_list \in Seq(Fcb) /\ disco \in [Nombres -> Entrada \cup {NULL}]
        /\ op.paso \in EnCurso => op \in Servicio
    BY DEF Invariante, Tipo, Discos, Atendido
  <1>1. CASE CrearAbre
    <2>1. /\ op.paso = "atender" /\ op' = [op EXCEPT !.paso = "asignar"]
          /\ disco' = [disco EXCEPT ![n] = SinClaves]
          /\ promesa' => promesa /\ obtener_fcb_por_nombre(n) = 0
          /\ UNCHANGED <<fcb_list, BLOQ_BITMAP, BLOQUES, perdidos>>
      BY <1>1 DEF CrearAbre, Atiende, Avanza, Rompe
    <2>2. op \in Servicio /\ n \in Nombres
      BY <1>0, <2>1, PedidoEntero DEF EnCurso, Servicio
    <2>3. op'.paso = "asignar" /\ op'.pedido = op.pedido
      BY <2>1, <2>2, SigueServicio DEF EnCurso
    <2>4. ASSUME promesa'
          PROVE  /\ Espejo(fcb_list', disco')
                 /\ Reparto(fcb_list', BLOQ_BITMAP', perdidos', {}, 0)
                 /\ obtener_fcb_por_nombre(op.pedido.nombre)' = 0
      <3>1. promesa /\ obtener_fcb_por_nombre(n) = 0
        BY <2>1, <2>4
      <3>2. Espejo(fcb_list, disco) /\ Reparto(fcb_list, BLOQ_BITMAP, perdidos, {}, 0)
        BY <2>1, <3>1, Sabido DEF Sueltos
      <3>3. \A k \in DOMAIN fcb_list : fcb_list[k].nombre # n
        BY <1>0, <3>1, Obtiene, PrimerFcb, Elementos
      <3>4. Espejo(fcb_list, disco')
        BY <1>0, <2>1, <2>2, <3>2, <3>3, EspejoVacia
      <3>5. obtener_fcb_por_nombre(op.pedido.nombre)' = 0
        BY <2>1, <2>3, <3>1, MismaLista
      <3>6. QED
        BY <2>1, <3>2, <3>4, <3>5
    <2>5. Propios' = {} /\ Salvo' = 0
      BY <2>3 DEF Propios, Salvo
    <2>6. Guarda'
      BY <2>3, <2>4, <2>5 DEF Guarda
    <2>7. QED
      BY <2>3, <2>6, AntesSigue
  <1>2. CASE CrearSinLugar
    <2>1. /\ op.paso = "asignar" /\ op' = Reposo
          /\ UNCHANGED <<disco, fcb_list, BLOQ_BITMAP, perdidos, promesa>>
      BY <1>2 DEF CrearSinLugar, Responde, SinDisco
    <2>2. QED
      BY <2>1, Sabido, AlReposo, AlSoltar, AntesSigue DEF Sueltos
  <1>3. CASE CrearAsigna
    <2>1. PICK b : /\ b = buscar_bloque_libre(BLOQ_BITMAP) /\ b # -1
                   /\ BLOQ_BITMAP' = BLOQ_BITMAP \cup {b}
                   /\ op' = [op EXCEPT !.paso = "escribir", !.inicial = b]
                   /\ op.paso = "asignar"
                   /\ UNCHANGED <<disco, fcb_list, perdidos, promesa>>
      BY <1>3 DEF CrearAsigna
    <2>2. b \notin BLOQ_BITMAP
      BY <2>1, BloqueLibre
    <2>3. op'.paso = "escribir" /\ op'.inicial = b /\ op'.pedido = op.pedido
      BY <1>0, <2>1 DEF EnCurso, Servicio
    <2>4. Propios' = {b} /\ Salvo' = 0
      BY <2>3 DEF Propios, Salvo
    <2>5. ASSUME promesa'
          PROVE  /\ Espejo(fcb_list', disco')
                 /\ Reparto(fcb_list', BLOQ_BITMAP', perdidos', {b}, 0)
                 /\ obtener_fcb_por_nombre(op.pedido.nombre)' = 0
      <3>1. /\ Espejo(fcb_list, disco) /\ Reparto(fcb_list, BLOQ_BITMAP, perdidos, {}, 0)
            /\ obtener_fcb_por_nombre(n) = 0
        BY <2>1, <2>5, Sabido DEF Sueltos, Invariante, Guarda
      <3>2. Reparto(fcb_list, BLOQ_BITMAP \cup {b}, perdidos, {b}, 0)
        BY <2>2, <3>1, RepartoAsigna
      <3>3. obtener_fcb_por_nombre(op.pedido.nombre)' = 0
        BY <2>1, <2>3, <3>1, MismaLista
      <3>4. QED
        BY <2>1, <3>1, <3>2, <3>3
    <2>6. Guarda'
      BY <2>1, <2>3, <2>4, <2>5 DEF Guarda
    <2>7. QED
      BY <2>3, <2>6, AntesSigue
  <1>4. CASE CrearEscribe
    <2>1. PICK b, c, f : /\ b = op.inicial /\ c = [bloque |-> b, tam |-> 0]
                         /\ f = [nombre |-> n, config |-> c]
      OBVIOUS
    <2>2. /\ op.paso = "escribir" /\ op' = Reposo
          /\ disco' = [disco EXCEPT ![n] = c] /\ fcb_list' = Append(fcb_list, f)
          /\ UNCHANGED <<BLOQ_BITMAP, perdidos, promesa>>
      BY <1>4, <2>1 DEF CrearEscribe, Responde
    <2>3. n \in Nombres /\ b \in Bloques
      BY <1>0, <2>1, <2>2, PedidoEntero DEF Invariante, Tipo, Atendido, EnCurso, Servicio
    <2>4. f \in Fcb /\ f.nombre = n /\ f.config = c /\ c = [bloque |-> b, tam |-> 0]
      BY <2>1, <2>3, ConClaves DEF Fcb
    <2>5. ASSUME promesa'
          PROVE  /\ Espejo(fcb_list', disco')
                 /\ Reparto(fcb_list', BLOQ_BITMAP', perdidos', {}, 0)
      <3>1. promesa /\ Propios = {b} /\ Salvo = 0
        BY <2>1, <2>2, <2>5 DEF Propios, Salvo
      <3>2. /\ Espejo(fcb_list, disco) /\ Reparto(fcb_list, BLOQ_BITMAP, perdidos, {b}, 0)
            /\ obtener_fcb_por_nombre(n) = 0 /\ b \in BLOQ_BITMAP
        BY <2>1, <2>2, <3>1 DEF Invariante, Guarda
      <3>3. \A k \in DOMAIN fcb_list : fcb_list[k].nombre # f.nombre
        <4>1. \A k \in 1 .. Len(fcb_list) : fcb_list[k].nombre # n
          BY <1>0, <3>2, Obtiene, PrimerFcb
        <4>2. DOMAIN fcb_list = 1 .. Len(fcb_list)
          BY <1>0, Elementos
        <4>3. QED
          BY <2>4, <4>1, <4>2
      <3>4. Espejo(Append(fcb_list, f), [disco EXCEPT ![f.nombre] = f.config])
        BY <1>0, <2>4, <3>2, <3>3, EspejoAgrega
      <3>5. Reparto(Append(fcb_list, f), BLOQ_BITMAP, perdidos, {}, 0)
        BY <1>0, <2>3, <2>4, <3>2, RepartoEscribe
      <3>6. QED
        BY <2>2, <2>4, <3>4, <3>5
    <2>6. QED
      BY <2>2, <2>5, AlReposo, AlSoltar, AntesSigue DEF Sueltos
  <1>5. QED
    BY <1>1, <1>2, <1>3, <1>4

LEMMA GuardaEliminar ==
  ASSUME Invariante, EliminarMuere \/ eliminar_bloques_ocupados_por_archivo \/ EliminarRemueve
  PROVE  Guarda' /\ Antes'
  <1> DEFINE n == op.pedido.nombre
             k == obtener_fcb_por_nombre(n)
  <1>0. /\ Discos /\ fcb_list \in Seq(Fcb) /\ disco \in [Nombres -> Entrada \cup {NULL}]
        /\ op.paso \in EnCurso => op \in Servicio
    BY DEF Invariante, Tipo, Discos, Atendido
  <1>1. CASE EliminarMuere
    <2>1. /\ op.paso = "atender" /\ ~Legible(k) /\ Muere
          /\ UNCHANGED <<disco, fcb_list, BLOQ_BITMAP, perdidos, promesa>>
      BY <1>1 DEF EliminarMuere, Atiende, SinDisco
    <2>2. Antes' /\ op'.paso = "caido"
      BY <2>1, MuereSinArchivo
    <2>3. QED
      BY <2>1, <2>2, Sabido, AlSoltar DEF Sueltos
  <1>2. CASE eliminar_bloques_ocupados_por_archivo
    <2>1. /\ op.paso = "atender" /\ op' = [op EXCEPT !.paso = "remover"] /\ Legible(k)
          /\ BLOQ_BITMAP' = BLOQ_BITMAP \ De(fcb_list, k)
          /\ UNCHANGED <<disco, fcb_list, perdidos, promesa>>
      BY <1>2, Zenon DEF eliminar_bloques_ocupados_por_archivo, Atiende, Avanza,
                  liberar_bloques_bitmap_por_rango, De, Ocupa
    <2>2. op'.paso = "remover" /\ op'.pedido = op.pedido
      BY <1>0, <2>1, SigueServicio DEF EnCurso
    <2>3. k \in Vivos(fcb_list, 0)
      BY <1>0, <2>1, Hallado, Elementos DEF Vivos, Legible
    <2>4. Propios' = {} /\ Salvo' = k
      <3>1. ATruncar' = k
        BY <2>1, <2>2, MismaLista DEF ATruncar
      <3>2. QED
        BY <2>2, <3>1 DEF Propios, Salvo
    <2>5. ASSUME promesa'
          PROVE  /\ Espejo(fcb_list', disco')
                 /\ Reparto(fcb_list', BLOQ_BITMAP', perdidos', {}, k)
      <3>1. Espejo(fcb_list, disco) /\ Reparto(fcb_list, BLOQ_BITMAP, perdidos, {}, 0)
        BY <2>1, <2>5, Sabido DEF Sueltos
      <3>2. Reparto(fcb_list, BLOQ_BITMAP \ De(fcb_list, k), perdidos, {}, k)
        BY <1>0, <2>3, <3>1, RepartoElimina
      <3>3. QED
        BY <2>1, <3>1, <3>2
    <2>6. Guarda'
      BY <2>2, <2>4, <2>5 DEF Guarda
    <2>7. QED
      BY <2>2, <2>6, AntesSigue
  <1>3. CASE EliminarRemueve
    <2>1. /\ op.paso = "remover" /\ op' = Reposo
          /\ disco[n] # NULL =>
               disco' = [disco EXCEPT ![n] = NULL] /\ fcb_list' = RemoveAt(fcb_list, k)
          /\ UNCHANGED <<BLOQ_BITMAP, perdidos, promesa>>
      BY <1>3 DEF EliminarRemueve, Responde
    <2>2. k \in 1 .. Len(fcb_list) /\ fcb_list[k].nombre = n
      BY <1>0, <2>1, Hallado DEF Invariante, Tipo, Atendido
    <2>3. ASSUME promesa'
          PROVE  /\ Espejo(fcb_list', disco')
                 /\ Reparto(fcb_list', BLOQ_BITMAP', perdidos', {}, 0)
      <3>1. promesa /\ Propios = {} /\ Salvo = k
        BY <2>1, <2>3 DEF Propios, Salvo, ATruncar
      <3>2. Espejo(fcb_list, disco) /\ Reparto(fcb_list, BLOQ_BITMAP, perdidos, {}, k)
        BY <2>1, <3>1 DEF Invariante, Guarda
      <3>3. disco[n] # NULL
        <4>1. disco[n] = fcb_list[k].config
          BY <1>0, <2>2, <3>2, Elementos DEF Espejo
        <4>2. QED
          BY <1>0, <2>2, <4>1, Elementos, ConClaves
      <3>4. Espejo(RemoveAt(fcb_list, k), [disco EXCEPT ![n] = NULL])
        BY <1>0, <2>2, <3>2, EspejoQuita
      <3>5. Reparto(RemoveAt(fcb_list, k), BLOQ_BITMAP, perdidos, {}, 0)
        BY <1>0, <2>2, <3>2, RepartoQuita
      <3>6. QED
        BY <2>1, <3>3, <3>4, <3>5
    <2>4. QED
      BY <2>1, <2>3, AlReposo, AlSoltar, AntesSigue DEF Sueltos
  <1>4. QED
    BY <1>1, <1>2, <1>3

\* The file of a truncate, while it is where it was.
LEMMA AlTruncar ==
  ASSUME Invariante, op.paso = "truncar"
  PROVE  /\ op \in Servicio /\ fcb_list \in Seq(Fcb) /\ op.pedido.tam \in Nat
         /\ ATruncar \in Vivos(fcb_list, 0) /\ ATruncar \in 1 .. Len(fcb_list)
         /\ Config = fcb_list[ATruncar].config /\ Config.tam \in Nat
         /\ Config.bloque \in Nat
         /\ De(fcb_list, ATruncar)
              = Config.bloque .. Config.bloque + bloques_actuales_ocupados - 1
         /\ bloques_actuales_ocupados \in Nat /\ bloques_a_ocupar \in Nat
         /\ Crece => bloques_actuales_ocupados <= bloques_a_ocupar
         /\ ~Crece => bloques_a_ocupar <= bloques_actuales_ocupados
  <1>1. /\ op \in Servicio /\ fcb_list \in Seq(Fcb) /\ op.pedido.op = "IO_FS_TRUNCATE"
        /\ ATruncar # 0 /\ Legible(ATruncar)
    BY DEF Invariante, Tipo, Atendido, EnCurso, DeTruncar, Discos
  <1>2. op.pedido.tam \in Nat
    BY <1>1, PedidoEntero DEF Servicio
  <1>3. ATruncar \in 1 .. Len(fcb_list)
    BY <1>1, Hallado DEF ATruncar
  <1>4. ATruncar \in Vivos(fcb_list, 0)
    BY <1>1, <1>3, Elementos DEF Vivos, Legible
  <1>5. Config = fcb_list[ATruncar].config /\ Config.tam \in Nat /\ Config.bloque \in Nat
    BY <1>1, <1>3, Legibles, Constantes DEF Config
  <1>6. De(fcb_list, ATruncar) = Config.bloque .. Config.bloque + bloques_actuales_ocupados - 1
    BY Zenon DEF De, Ocupa, Config, bloques_actuales_ocupados
  <1>7. bloques_actuales_ocupados \in Nat /\ bloques_a_ocupar \in Nat
    BY <1>2, <1>5, Necesarios DEF bloques_actuales_ocupados, bloques_a_ocupar
  <1>8. Crece => Config.tam <= op.pedido.tam
    BY <1>2, <1>5 DEF Crece
  <1>9. ~Crece => op.pedido.tam <= Config.tam
    BY <1>2, <1>5 DEF Crece
  <1>10. /\ Crece => bloques_actuales_ocupados <= bloques_a_ocupar
         /\ ~Crece => bloques_a_ocupar <= bloques_actuales_ocupados
    BY <1>2, <1>5, <1>8, <1>9, Necesarios DEF bloques_actuales_ocupados, bloques_a_ocupar
  <1>11. QED
    BY <1>1, <1>2, <1>3, <1>4, <1>5, <1>6, <1>7, <1>10

LEMMA GuardaTruncar ==
  ASSUME Invariante, TruncarAbre \/ TruncarEnSuLugar \/ TruncarSinLugar
  PROVE  Guarda' /\ Antes'
  <1>0. /\ Discos /\ fcb_list \in Seq(Fcb) /\ disco \in [Nombres -> Entrada \cup {NULL}]
        /\ op.paso \in EnCurso => op \in Servicio
    BY DEF Invariante, Tipo, Discos, Atendido
  <1>1. CASE TruncarAbre
    <2> DEFINE n == op.pedido.nombre
    <2>1. /\ op.paso = "atender"
          /\ disco' = [disco EXCEPT ![n] = IF @ = NULL THEN SinClaves ELSE @]
          /\ UNCHANGED <<fcb_list, BLOQ_BITMAP, perdidos, promesa>>
          /\ \/ op' = [op EXCEPT !.paso = "truncar"]
             \/ ~Legible(obtener_fcb_por_nombre(n)) /\ Muere
      BY <1>1 DEF TruncarAbre, Atiende, Avanza
    <2>2. op \in Servicio /\ n \in Nombres
      BY <1>0, <2>1, PedidoEntero DEF EnCurso, Servicio
    <2>3. op'.paso = "truncar" \/ (Antes' /\ op'.paso = "caido")
      BY <2>1, <2>2, SigueServicio, MuereSinArchivo DEF EnCurso, DeTruncar
    <2>4. ASSUME promesa'
          PROVE  /\ Espejo(fcb_list', disco')
                 /\ Reparto(fcb_list', BLOQ_BITMAP', perdidos', {}, 0)
      <3>1. Espejo(fcb_list, disco) /\ Reparto(fcb_list, BLOQ_BITMAP, perdidos, {}, 0)
        BY <2>1, <2>4, Sabido DEF Sueltos
      <3>2. CASE disco[n] = NULL
        <4>1. \A k \in DOMAIN fcb_list : fcb_list[k].nombre # n
          BY <1>0, <3>1, <3>2, Elementos, ConClaves DEF Espejo
        <4>2. disco' = [disco EXCEPT ![n] = SinClaves]
          BY <2>1, <3>2
        <4>3. Espejo(fcb_list, [disco EXCEPT ![n] = SinClaves])
          BY <1>0, <2>2, <3>1, <4>1, EspejoVacia
        <4>4. QED
          BY <2>1, <3>1, <4>2, <4>3
      <3>3. CASE disco[n] # NULL
        <4>1. disco' = disco
          BY <1>0, <2>1, <2>2, <3>3
        <4>2. QED
          BY <2>1, <3>1, <4>1
      <3>4. QED
        BY <3>2, <3>3
    <2>5. Guarda'
      BY <2>3, <2>4, AlSoltar DEF Sueltos
    <2>6. QED
      BY <2>3, <2>5, AntesSigue
  <1>2. CASE TruncarEnSuLugar
    <2> DEFINE k == ATruncar
               a == Config.bloque
               m == bloques_actuales_ocupados
               n == bloques_a_ocupar
    <2>1. /\ op.paso = "truncar" /\ (Crece => HayContiguos)
          /\ BLOQ_BITMAP' = IF Crece THEN BLOQ_BITMAP ELSE BLOQ_BITMAP \ (a + n .. a + m - 1)
          /\ op' = [op EXCEPT !.paso = "guardar", !.inicial = a]
          /\ UNCHANGED <<disco, fcb_list, perdidos, promesa>>
      <3>1. /\ op.paso = "truncar" /\ (Crece => HayContiguos)
            /\ op' = [op EXCEPT !.paso = "guardar", !.inicial = a]
            /\ UNCHANGED <<disco, fcb_list, perdidos, promesa>>
        BY <1>2 DEF TruncarEnSuLugar
      <3>2. BLOQ_BITMAP' = IF Crece THEN BLOQ_BITMAP ELSE BLOQ_BITMAP \ (a + n .. a + m - 1)
        BY <1>2, Zenon DEF TruncarEnSuLugar, liberar_bloques_bitmap_por_rango
      <3>3. QED
        BY <3>1, <3>2
    <2>2. /\ op \in Servicio /\ k \in Vivos(fcb_list, 0) /\ a \in Nat /\ m \in Nat /\ n \in Nat
          /\ De(fcb_list, k) = a .. a + m - 1
          /\ (Crece => m <= n) /\ (~Crece => n <= m)
      BY <2>1, AlTruncar
    <2>3. op'.paso = "guardar" /\ op'.inicial = a /\ op'.pedido = op.pedido
      BY <2>1, <2>2 DEF Servicio
    <2>4. Propios' = a .. a + n - 1 /\ Salvo' = k
      <3>1. ATruncar' = k
        BY <2>1, <2>3, MismaLista DEF ATruncar
      <3>2. bloques_a_ocupar' = n
        BY <2>3 DEF bloques_a_ocupar
      <3>3. Rango' = a .. a + n - 1
        BY <2>3, <3>2 DEF Rango
      <3>4. QED
        BY <2>3, <3>1, <3>3 DEF Propios, Salvo
    <2>5. Crece => \A b \in a + m .. a + n - 1 : b \notin BLOQ_BITMAP
      <3>1. Crece => \A b \in a + m .. a + m + (n - m) - 1 : b \notin BLOQ_BITMAP
        BY <2>1, Zenon DEF HayContiguos, hay_bloques_contiguos_para_extender,
                           bloques_necesarios
      <3> HIDE DEF a, m, n
      <3>2. a + m + (n - m) - 1 = a + n - 1
        BY <2>2
      <3>3. QED
        BY <3>1, <3>2
    <2> HIDE DEF a, m, n, k
    <2>6. ASSUME promesa'
          PROVE  /\ Espejo(fcb_list', disco')
                 /\ Reparto(fcb_list', BLOQ_BITMAP', perdidos', a .. a + n - 1, k)
      <3>1. Espejo(fcb_list, disco) /\ Reparto(fcb_list, BLOQ_BITMAP, perdidos, {}, 0)
        BY <2>1, <2>6, Sabido DEF Sueltos
      <3>2. CASE Crece
        <4>1. Reparto(fcb_list, BLOQ_BITMAP, perdidos, a .. a + n - 1, k)
          BY <1>0, <2>2, <2>5, <3>1, <3>2, RepartoCrece
        <4>2. QED
          BY <2>1, <3>1, <3>2, <4>1
      <3>3. CASE ~Crece
        <4>1. Reparto(fcb_list, BLOQ_BITMAP \ (a + n .. a + m - 1), perdidos,
                      a .. a + n - 1, k)
          BY <1>0, <2>2, <3>1, <3>3, RepartoAchica
        <4>2. QED
          BY <2>1, <3>1, <3>3, <4>1
      <3>4. QED
        BY <3>2, <3>3
    <2>7. Guarda'
      BY <2>3, <2>4, <2>6 DEF Guarda
    <2>8. QED
      BY <2>3, <2>7, AntesSigue
  <1>3. CASE TruncarSinLugar
    <2>1. /\ op.paso = "truncar" /\ op' = Reposo
          /\ UNCHANGED <<disco, fcb_list, BLOQ_BITMAP, perdidos, promesa>>
      BY <1>3 DEF TruncarSinLugar, Responde, SinDisco
    <2>2. QED
      BY <2>1, Sabido, AlReposo, AlSoltar, AntesSigue DEF Sueltos
  <1>4. QED
    BY <1>1, <1>2, <1>3

LEMMA GuardaCompacta ==
  ASSUME Invariante, TruncarCompacta
  PROVE  Guarda' /\ Antes'
  <1> DEFINE k == ATruncar
  <1>1. /\ op.paso = "truncar" /\ Crece
        /\ fcb_list' = Append(RemoveAt(fcb_list, k), fcb_list[k])
        /\ BLOQ_BITMAP' = BLOQ_BITMAP \ (0 .. block_count) /\ perdidos' = {}
        /\ op' = [op EXCEPT !.paso = "compactar", !.i = 1, !.espacio = [b \in Bytes |-> 0]]
        /\ UNCHANGED <<disco, promesa>>
    BY DEF TruncarCompacta, liberar_bitmap_de_bloques
  <1>2. /\ op \in Servicio /\ fcb_list \in Seq(Fcb) /\ k \in 1 .. Len(fcb_list)
        /\ Config = fcb_list[k].config /\ Config.tam \in Nat /\ op.pedido.tam \in Nat
        /\ k # 0 /\ perdidos \subseteq Bloques
    BY <1>1, AlTruncar DEF Invariante, Tipo, Atendido, DeTruncar, Discos
  <1>3. op'.paso = "compactar" /\ op'.i = 1 /\ op'.pedido = op.pedido
    BY <1>1, <1>2 DEF Servicio
  <1>4. PICK L \in Nat : L = Len(fcb_list) /\ DOMAIN fcb_list = 1 .. L /\ k \in 1 .. L
    BY <1>2, Elementos
  <1>5. /\ fcb_list' \in Seq(Fcb) /\ Len(fcb_list') = L /\ DOMAIN fcb_list' = 1 .. L
        /\ fcb_list'[L] = fcb_list[k]
        /\ \A j \in 1 .. k - 1 : fcb_list'[j] = fcb_list[j]
        /\ \A j \in k .. L - 1 : fcb_list'[j] = fcb_list[j + 1]
    BY <1>1, <1>2, <1>4, AlFinal, Elementos
  <1>6. \E pi : Permuta(pi, L, fcb_list, fcb_list')
    BY <1>2, <1>4, <1>5, OtroOrden
  <1>7. ASSUME promesa'
        PROVE  /\ Espejo(fcb_list', disco')
               /\ BLOQ_BITMAP' = {} /\ Compacto(fcb_list', 1, 0)
               /\ ATruncar' = L /\ Config'.tam <= op.pedido.tam
    <2>1. Espejo(fcb_list, disco) /\ Reparto(fcb_list, BLOQ_BITMAP, perdidos, {}, 0)
      BY <1>1, <1>7, Sabido DEF Sueltos
    <2>2. Espejo(fcb_list', disco) /\ Reparto(fcb_list', BLOQ_BITMAP, perdidos, {}, 0)
      BY <1>2, <1>4, <1>5, <1>6, <2>1, EspejoPermuta, RepartoPermuta
    <2>3. Compacto(fcb_list', 1, 0)
      BY <1>5, <2>2, CompactoEmpieza
    <2>4. BLOQ_BITMAP' = {}
      <3>1. BLOQ_BITMAP \subseteq Bloques
        BY <1>2, <2>1, Marcados
      <3>2. Bloques \subseteq 0 .. block_count
        BY Constantes
      <3>3. QED
        BY <1>1, <3>1, <3>2
    <2>5. ATruncar' = L
      <3>1. fcb_list[k].nombre = op.pedido.nombre
        BY <1>2, Hallado DEF ATruncar
      <3>2. ATruncar' = Primero(fcb_list', op.pedido.nombre)
        BY <1>3, Obtiene DEF ATruncar
      <3>3. L \in 1 .. L /\ fcb_list'[L].nombre = op.pedido.nombre
        BY <1>4, <1>5, <3>1
      <3>4. Primero(fcb_list', op.pedido.nombre) # 0
        BY <1>5, <3>3, PrimerFcb
      <3>5. /\ Primero(fcb_list', op.pedido.nombre) \in 1 .. L
            /\ fcb_list'[Primero(fcb_list', op.pedido.nombre)].nombre = op.pedido.nombre
        BY <1>5, <3>4, PrimerFcb
      <3>6. QED
        BY <1>5, <2>2, <3>2, <3>3, <3>5 DEF Espejo
    <2>6. Config'.tam <= op.pedido.tam
      <3>1. Config' = Config
        BY <1>2, <1>5, <2>5 DEF Config
      <3>2. QED
        BY <1>1, <1>2, <3>1 DEF Crece
    <2>7. QED
      BY <1>1, <2>2, <2>3, <2>4, <2>5, <2>6
  <1>8. Guarda'
    <2>1. 0 \in 0 .. block_count /\ 0 .. 0 - 1 = {}
      BY DialFSOK
    <2>2. promesa' => \E alto \in 0 .. block_count :
                        BLOQ_BITMAP' = 0 .. alto - 1 /\ Compacto(fcb_list', op'.i, alto)
      BY <1>3, <1>7, <2>1
    <2>3. QED
      BY <1>1, <1>3, <1>5, <1>7, <2>2 DEF Guarda
  <1>9. QED
    BY <1>3, <1>8, AntesSigue

\* One FCB of the compaction.
LEMMA GuardaMueve ==
  ASSUME Invariante, compactar
  PROVE  Guarda' /\ Antes'
  <1> DEFINE i == op.i
             c == fcb_list[i].config
             nuevo == buscar_bloque_libre(BLOQ_BITMAP)
             n == calcular_bloques_necesarios(c.tam)
             d == [c EXCEPT !.bloque = nuevo]
  <1>1. /\ op.paso = "compactar" /\ i <= Len(fcb_list) /\ Legible(i) /\ nuevo # -1
        /\ BLOQ_BITMAP' = BLOQ_BITMAP \cup (nuevo .. (nuevo + n) - 1)
        /\ set_campo_de_archivo(i, d)
        /\ op' = [op EXCEPT !.i = i + 1, !.espacio =
                    Pisa(@, calcular_byte_inicial_de_bloque(nuevo),
                         LeeBloques(calcular_byte_inicial_de_bloque(c.bloque), c.tam))]
        /\ UNCHANGED <<perdidos, promesa>>
    <2>1. /\ op.paso = "compactar" /\ i <= Len(fcb_list) /\ Legible(i) /\ nuevo # -1
          /\ set_campo_de_archivo(i, d) /\ UNCHANGED <<perdidos, promesa>>
      BY DEF compactar
    <2>2. BLOQ_BITMAP' = BLOQ_BITMAP \cup (nuevo .. (nuevo + n) - 1)
      BY Zenon DEF compactar, asignar_bloques_bitmap_por_rango
    <2>3. op' = [op EXCEPT !.i = i + 1, !.espacio =
                   Pisa(@, calcular_byte_inicial_de_bloque(nuevo),
                        LeeBloques(calcular_byte_inicial_de_bloque(c.bloque), c.tam))]
      BY DEF compactar
    <2>4. QED
      BY <2>1, <2>2, <2>3
  <1>2. /\ op \in Servicio /\ Discos /\ fcb_list \in Seq(Fcb) /\ i \in 1 .. Len(fcb_list) + 1
    BY <1>1 DEF Invariante, Tipo, Atendido, EnCurso, DeTruncar, Discos
  <1>3. op'.paso = "compactar" /\ op'.i = i + 1 /\ op'.pedido = op.pedido
    BY <1>1, <1>2 DEF Servicio
  <1>4. PICK L \in Nat : L = Len(fcb_list) /\ DOMAIN fcb_list = 1 .. L /\ i \in 1 .. L
    <2>1. PICK L \in Nat : L = Len(fcb_list) /\ DOMAIN fcb_list = 1 .. L
      BY <1>2, Elementos
    <2>2. i \in 1 .. L
      BY <1>1, <1>2, <2>1
    <2>3. QED
      BY <2>1, <2>2
  <1>5. c \in [bloque : Bloques, tam : Nat] /\ c # SinClaves /\ nuevo \in Bloques
    <2>1. c \in Entrada /\ c # SinClaves
      BY <1>1, <1>2, <1>4, Elementos DEF Legible
    <2> HIDE DEF c
    <2>2. nuevo \in Bloques
      BY <1>1, BloqueLibre
    <2>3. QED
      BY <2>1, <2>2 DEF Entrada
  <1> HIDE DEF c, nuevo, i
  <1>6. d \in [bloque : Bloques, tam : Nat] /\ d = [bloque |-> nuevo, tam |-> c.tam]
    BY <1>5
  <1> HIDE DEF d, n
  <1>7. /\ fcb_list' \in Seq(Fcb) /\ Len(fcb_list') = L
        /\ \A j \in 1 .. L : /\ fcb_list'[j].nombre = fcb_list[j].nombre
                             /\ fcb_list'[j].config = IF j = i THEN d ELSE fcb_list[j].config
        /\ \A x \in Nombres : disco'[x] = IF x = fcb_list[i].nombre THEN d ELSE disco[x]
        /\ \A x : obtener_fcb_por_nombre(x)' = obtener_fcb_por_nombre(x)
    BY <1>1, <1>2, <1>4, <1>6, Guardado
  <1>8. ASSUME promesa'
        PROVE  /\ Espejo(fcb_list', disco')
               /\ \E alto \in 0 .. block_count :
                    BLOQ_BITMAP' = 0 .. alto - 1 /\ Compacto(fcb_list', i + 1, alto)
               /\ perdidos' = {} /\ ATruncar' = Len(fcb_list') /\ Config'.tam <= op.pedido.tam
    <2>1. /\ promesa /\ Espejo(fcb_list, disco) /\ perdidos = {}
          /\ ATruncar = Len(fcb_list) /\ Config.tam <= op.pedido.tam
      BY <1>1, <1>8 DEF Invariante, Guarda
    <2>2. PICK alto \in 0 .. block_count :
            BLOQ_BITMAP = 0 .. alto - 1 /\ Compacto(fcb_list, i, alto)
      BY <1>1, <1>8 DEF Invariante, Guarda, i
    <2>3. nuevo = alto
      <3>1. fcb_list[i].config # SinClaves
        BY <1>4, <1>5 DEF c
      <3>2. buscar_bloque_libre(0 .. alto - 1) = alto
        BY <1>2, <1>4, <2>2, <3>1, HayLugar
      <3>3. QED
        BY <2>2, <3>2 DEF nuevo
    <2>4. /\ fcb_list[i].config # SinClaves
          /\ n = calcular_bloques_necesarios(fcb_list[i].config.tam)
          /\ fcb_list'[i].config = [bloque |-> alto, tam |-> fcb_list[i].config.tam]
          /\ \A j \in 1 .. Len(fcb_list) : j # i => fcb_list'[j].config = fcb_list[j].config
      BY <1>4, <1>5, <1>6, <1>7, <2>3 DEF c, n
    <2>5. /\ alto + n \in 0 .. block_count
          /\ (0 .. alto - 1) \cup (alto .. (alto + n) - 1) = 0 .. (alto + n) - 1
          /\ Compacto(fcb_list', i + 1, alto + n)
      BY <1>2, <1>4, <1>7, <2>2, <2>4, CompactoSigue, SMTT(30)
    <2>6. BLOQ_BITMAP' = 0 .. (alto + n) - 1
      BY <1>1, <2>2, <2>3, <2>5
    <2>7. Espejo(fcb_list', disco')
      <3>1. /\ i \in 1 .. Len(fcb_list) /\ Len(fcb_list') = Len(fcb_list)
            /\ Salvado(fcb_list, fcb_list', i, d, disco, disco')
        BY <1>4, <1>7 DEF Salvado
      <3>2. QED
        BY <1>2, <1>7, <2>1, <3>1, EspejoGuarda
    <2>8. ATruncar' = L
      BY <1>3, <1>4, <1>7, <2>1 DEF ATruncar
    <2>9. Config'.tam = Config.tam
      <3>1. Config = fcb_list[L].config /\ Config' = fcb_list'[L].config /\ L \in 1 .. L
        BY <1>4, <2>1, <2>8 DEF Config
      <3>2. d.tam = c.tam
        BY <1>6
      <3>3. QED
        BY <1>7, <3>1, <3>2 DEF c
    <2>10. QED
      BY <1>1, <1>7, <2>1, <2>5, <2>6, <2>7, <2>8, <2>9
  <1>9. Guarda'
    BY <1>3, <1>8 DEF Guarda
  <1>10. QED
    BY <1>3, <1>9, AntesSigue

\* With a block for every file, the compaction only dies of an FCB without keys.
LEMMA GuardaCompactarMuere ==
  ASSUME Invariante, CompactarMuere
  PROVE  Guarda' /\ Antes'
  <1> DEFINE i == op.i
  <1>1. /\ op.paso = "compactar" /\ i <= Len(fcb_list)
        /\ ~Legible(i) \/ buscar_bloque_libre(BLOQ_BITMAP) = -1
        /\ op' = Caido(op.pedido, promesa) /\ ~promesa' /\ disco' = disco
    BY DEF CompactarMuere, Muere, Rompe, SinDisco
  <1>2. fcb_list \in Seq(Fcb) /\ i \in 1 .. Len(fcb_list) + 1
    BY <1>1 DEF Invariante, Tipo, Atendido, Discos
  <1>3. PICK L \in Nat : L = Len(fcb_list) /\ DOMAIN fcb_list = 1 .. L /\ i \in 1 .. L
    <2>1. PICK L \in Nat : L = Len(fcb_list) /\ DOMAIN fcb_list = 1 .. L
      BY <1>2, Elementos
    <2>2. i \in 1 .. L
      BY <1>1, <1>2, <2>1
    <2>3. QED
      BY <2>1, <2>2
  <1>4. fcb_list[i].nombre \in Nombres /\ i # 0
    BY <1>2, <1>3, Elementos
  <1>5. ASSUME promesa
        PROVE  disco[fcb_list[i].nombre] = SinClaves
    <2>1. Espejo(fcb_list, disco)
      BY <1>5, Sabido
    <2>2. PICK alto \in 0 .. block_count :
            BLOQ_BITMAP = 0 .. alto - 1 /\ Compacto(fcb_list, i, alto)
      BY <1>1, <1>5 DEF Invariante, Guarda
    <2>3. fcb_list[i].config = SinClaves
      <3>1. SUFFICES ASSUME fcb_list[i].config # SinClaves
                     PROVE  FALSE
        OBVIOUS
      <3>2. Legible(i)
        BY <1>4, <3>1 DEF Legible
      <3>3. buscar_bloque_libre(BLOQ_BITMAP) = alto /\ alto \in Bloques
        BY <1>2, <1>3, <2>2, <3>1, HayLugar
      <3>4. QED
        BY <1>1, <3>2, <3>3, Constantes
    <2>4. QED
      BY <1>3, <2>1, <2>3 DEF Espejo
  <1>6. op'.paso = "caido" /\ op'.firme = promesa
    BY <1>1, AlCaer
  <1>7. Guarda'
    BY <1>1 DEF Guarda
  <1>8. Antes'
    BY <1>1, <1>4, <1>5, <1>6 DEF Antes, MuereSoloSinArchivo
  <1>9. QED
    BY <1>7, <1>8

LEMMA GuardaTermina ==
  ASSUME Invariante, CompactarTermina
  PROVE  Guarda' /\ Antes'
  <1>1. /\ op.paso = "compactar" /\ op.i > Len(fcb_list)
        /\ op' = [op EXCEPT !.paso = "guardar", !.inicial = Config.bloque, !.i = 0,
                            !.espacio = <<>>]
        /\ UNCHANGED <<disco, fcb_list, BLOQ_BITMAP, perdidos, promesa>>
    BY DEF CompactarTermina
  <1>2. /\ op \in Servicio /\ fcb_list \in Seq(Fcb) /\ op.i \in 1 .. Len(fcb_list) + 1
        /\ op.pedido.op = "IO_FS_TRUNCATE" /\ ATruncar # 0
        /\ \A j \in 1 .. op.i - 1 : Legible(j)
    BY <1>1 DEF Invariante, Tipo, Atendido, EnCurso, DeTruncar, Discos
  <1>3. op'.paso = "guardar" /\ op'.inicial = Config.bloque /\ op'.pedido = op.pedido
    BY <1>1, <1>2 DEF Servicio
  <1>4. PICK L \in Nat \ {0} :
          L = Len(fcb_list) /\ op.i = L + 1 /\ \A j \in 1 .. L : Legible(j)
    <2>1. PICK L \in Nat : L = Len(fcb_list)
      BY <1>2, Elementos
    <2>2. op.i = L + 1
      BY <1>1, <1>2, <2>1
    <2>3. ATruncar \in 1 .. L
      BY <1>2, <2>1, Hallado DEF ATruncar
    <2>4. L # 0 /\ (L + 1) - 1 = L
      BY <2>3
    <2>5. \A j \in 1 .. L : Legible(j)
      BY <1>2, <2>2, <2>4
    <2>6. QED
      BY <2>1, <2>2, <2>4, <2>5
  <1>5. op.pedido.tam \in Nat /\ Config.tam \in Nat
    <2>1. ATruncar \in 1 .. L
      BY <1>2, <1>4, Hallado DEF ATruncar
    <2>2. QED
      BY <1>2, <1>4, <2>1, PedidoEntero, Legibles DEF Servicio, Config
  <1>6. bloques_a_ocupar \in Nat
    BY <1>5, Necesarios DEF bloques_a_ocupar
  <1>7. Propios' = Config.bloque .. Config.bloque + bloques_a_ocupar - 1 /\ Salvo' = ATruncar
    <2>1. ATruncar' = ATruncar
      BY <1>1, <1>3, MismaLista DEF ATruncar
    <2>2. bloques_a_ocupar' = bloques_a_ocupar
      BY <1>3 DEF bloques_a_ocupar
    <2>3. Rango' = Config.bloque .. Config.bloque + bloques_a_ocupar - 1
      BY <1>3, <2>2 DEF Rango
    <2>4. QED
      BY <1>3, <2>1, <2>3 DEF Propios, Salvo
  <1>8. ASSUME promesa'
        PROVE  /\ Espejo(fcb_list', disco')
               /\ Reparto(fcb_list', BLOQ_BITMAP', perdidos', Propios', Salvo')
    <2>1. /\ promesa /\ Espejo(fcb_list, disco) /\ perdidos = {}
          /\ ATruncar = L /\ Config.tam <= op.pedido.tam
      BY <1>1, <1>4, <1>8 DEF Invariante, Guarda
    <2>2. PICK alto \in 0 .. block_count :
            BLOQ_BITMAP = 0 .. alto - 1 /\ Compacto(fcb_list, L + 1, alto)
      BY <1>1, <1>4, <1>8 DEF Invariante, Guarda
    <2>3. PICK a, n : a = Config.bloque /\ n = bloques_a_ocupar
      OBVIOUS
    <2>4. Config = fcb_list[L].config
      BY <2>1 DEF Config
    <2>5. calcular_bloques_necesarios(fcb_list[L].config.tam) <= n
      BY <1>5, <2>1, <2>3, <2>4, Necesarios DEF bloques_a_ocupar
    <2>6. \A k \in 1 .. L : fcb_list[k].config # SinClaves
      BY <1>4 DEF Legible
    <2>7. Reparto(fcb_list, 0 .. alto - 1, {}, a .. a + n - 1, L)
      BY <1>2, <1>4, <1>6, <2>2, <2>3, <2>4, <2>5, <2>6, CompactoTermina
    <2>8. Propios' = a .. a + n - 1 /\ Salvo' = L
      BY <1>7, <2>1, <2>3
    <2>9. QED
      BY <1>1, <2>1, <2>2, <2>7, <2>8
  <1>9. Guarda'
    BY <1>3, <1>8 DEF Guarda
  <1>10. QED
    BY <1>3, <1>9, AntesSigue

LEMMA GuardaGuardar ==
  ASSUME Invariante, TruncarGuarda \/ TruncarMarca
  PROVE  Guarda' /\ Antes'
  <1> DEFINE k == ATruncar
             a == op.inicial
             n == bloques_a_ocupar
             c == [bloque |-> a, tam |-> op.pedido.tam]
  <1>0. op.paso \in {"guardar", "marcar"}
    BY DEF TruncarGuarda, TruncarMarca
  <1>1. /\ op \in Servicio /\ Discos /\ fcb_list \in Seq(Fcb) /\ a \in Bloques
        /\ op.pedido.op = "IO_FS_TRUNCATE" /\ k # 0 /\ Legible(k)
    BY <1>0 DEF Invariante, Tipo, Atendido, EnCurso, DeTruncar, Discos
  <1>2. op.pedido.tam \in Nat
    BY <1>1, PedidoEntero DEF Servicio
  <1>3. n \in Nat /\ a \in Nat
    BY <1>1, <1>2, Necesarios, Constantes DEF bloques_a_ocupar
  <1>4. k \in 1 .. Len(fcb_list)
    BY <1>1, Hallado DEF ATruncar
  <1>5. Propios = a .. a + n - 1 /\ Salvo = k
    BY <1>0, Zenon DEF Propios, Salvo, Rango
  <1>6. CASE TruncarGuarda
    <2>1. /\ op.paso = "guardar" /\ op' = [op EXCEPT !.paso = "marcar"]
          /\ set_campo_de_archivo(k, c)
          /\ UNCHANGED <<BLOQ_BITMAP, perdidos, promesa>>
      BY <1>6 DEF TruncarGuarda, Avanza
    <2>2. op'.paso = "marcar" /\ op'.pedido = op.pedido /\ op'.inicial = a
      BY <1>1, <2>1, SigueServicio DEF EnCurso, DeTruncar
    <2>3. PICK e \in [bloque : Bloques, tam : Nat] : e = c
      BY <1>1, <1>2
    <2>4. /\ fcb_list' \in Seq(Fcb) /\ Len(fcb_list') = Len(fcb_list)
          /\ \A j \in 1 .. Len(fcb_list) :
               /\ fcb_list'[j].nombre = fcb_list[j].nombre
               /\ fcb_list'[j].config = IF j = k THEN e ELSE fcb_list[j].config
          /\ \A x \in Nombres : disco'[x] = IF x = fcb_list[k].nombre THEN e ELSE disco[x]
          /\ \A x : obtener_fcb_por_nombre(x)' = obtener_fcb_por_nombre(x)
      <3>1. set_campo_de_archivo(k, e)
        BY <2>1, <2>3
      <3>2. QED
        BY <1>1, <1>4, <3>1, Guardado
    <2>5. ATruncar' = k
      BY <2>2, <2>4 DEF ATruncar
    <2>6. Propios' = a .. a + n - 1 /\ Salvo' = k
      <3>1. bloques_a_ocupar' = n
        BY <2>2 DEF bloques_a_ocupar
      <3>2. Rango' = a .. a + n - 1
        BY <2>2, <3>1 DEF Rango
      <3>3. QED
        BY <2>2, <2>5, <3>2 DEF Propios, Salvo
    <2>7. Config' = [bloque |-> op'.inicial, tam |-> op'.pedido.tam]
      <3>1. Config' = fcb_list'[k].config
        BY <2>5 DEF Config
      <3>2. fcb_list'[k].config = e
        BY <1>4, <2>4
      <3>3. QED
        BY <2>2, <2>3, <3>1, <3>2
    <2> HIDE DEF k, a, n, c
    <2>8. ASSUME promesa'
          PROVE  /\ Espejo(fcb_list', disco')
                 /\ Reparto(fcb_list', BLOQ_BITMAP', perdidos', a .. a + n - 1, k)
      <3>1. promesa /\ op.paso # "compactar"
        BY <2>1, <2>8
      <3>2. Espejo(fcb_list, disco) /\ Reparto(fcb_list, BLOQ_BITMAP, perdidos, Propios, Salvo)
        BY <3>1 DEF Invariante, Guarda
      <3>3. Reparto(fcb_list, BLOQ_BITMAP, perdidos, a .. a + n - 1, k)
        BY <1>5, <3>2
      <3>4. Espejo(fcb_list', disco')
        <4>1. Salvado(fcb_list, fcb_list', k, e, disco, disco')
          BY <2>4 DEF Salvado
        <4>2. QED
          BY <1>1, <1>4, <2>4, <3>2, <4>1, EspejoGuarda
      <3>5. \A j \in 1 .. Len(fcb_list) : j # k => fcb_list'[j].config = fcb_list[j].config
        BY <2>4
      <3>6. Reparto(fcb_list', BLOQ_BITMAP, perdidos, a .. a + n - 1, k)
        BY <1>1, <2>4, <3>3, <3>5, RepartoGuarda
      <3>7. QED
        BY <2>1, <3>4, <3>6
    <2>9. Guarda'
      BY <2>2, <2>6, <2>7, <2>8 DEF Guarda
    <2>10. QED
      BY <2>2, <2>9, AntesSigue
  <1>7. CASE TruncarMarca
    <2>1. /\ op.paso = "marcar" /\ op' = Reposo
          /\ BLOQ_BITMAP' = BLOQ_BITMAP \cup (a .. (a + n) - 1)
          /\ UNCHANGED <<disco, fcb_list, perdidos>>
      <3>1. op.paso = "marcar" /\ op' = Reposo /\ UNCHANGED <<disco, fcb_list, perdidos>>
        BY <1>7 DEF TruncarMarca, Responde
      <3>2. BLOQ_BITMAP' = BLOQ_BITMAP \cup (a .. (a + n) - 1)
        BY <1>7, Zenon DEF TruncarMarca, asignar_bloques_bitmap_por_rango
      <3>3. QED
        BY <3>1, <3>2
    <2>2. promesa' => promesa /\ ~(a + n > block_count)
      BY <1>7, Zenon DEF TruncarMarca, Rompe
    <2>3. k \in Vivos(fcb_list, 0)
      BY <1>1, <1>4, Elementos DEF Vivos, Legible
    <2>4. ASSUME promesa'
          PROVE  /\ Espejo(fcb_list', disco')
                 /\ Reparto(fcb_list', BLOQ_BITMAP', perdidos', {}, 0)
      <3>1. /\ promesa /\ Espejo(fcb_list, disco)
            /\ Reparto(fcb_list, BLOQ_BITMAP, perdidos, Propios, Salvo) /\ Config = c
        BY <2>1, <2>2, <2>4 DEF Invariante, Guarda
      <3>2. De(fcb_list, k) = a .. a + n - 1
        <4>1. PICK e : e = Config /\ e.bloque = a /\ e.tam = op.pedido.tam
          BY <3>1
        <4>2. De(fcb_list, k) = e.bloque .. e.bloque + calcular_bloques_necesarios(e.tam) - 1
          BY <4>1, Zenon DEF De, Ocupa, Config
        <4>3. QED
          BY <4>1, <4>2 DEF bloques_a_ocupar
      <3> HIDE DEF k, a, n, c
      <3>3. Reparto(fcb_list, BLOQ_BITMAP, perdidos, De(fcb_list, k), k)
        BY <1>5, <3>1, <3>2
      <3>4. De(fcb_list, k) \subseteq Bloques
        <4>1. ~(a + n > block_count)
          BY <2>2, <2>4
        <4>2. ASSUME NEW b \in a .. a + n - 1
              PROVE  b \in Bloques
          BY <1>3, <4>1, Constantes
        <4>3. QED
          BY <3>2, <4>2
      <3>5. Reparto(fcb_list, BLOQ_BITMAP \cup De(fcb_list, k), perdidos, {}, 0)
        BY <1>1, <2>3, <3>3, <3>4, RepartoMarca
      <3>6. BLOQ_BITMAP' = BLOQ_BITMAP \cup De(fcb_list, k)
        <4>1. (a + n) - 1 = a + n - 1
          BY <1>3
        <4>2. QED
          BY <2>1, <3>2, <4>1
      <3>7. QED
        BY <2>1, <3>1, <3>5, <3>6
    <2>5. QED
      BY <2>1, <2>4, AlReposo, AlSoltar, AntesSigue DEF Sueltos
  <1>8. QED
    BY <1>6, <1>7

LEMMA GuardaAcceso ==
  ASSUME Invariante, AccesoMuere \/ escribir_archivo \/ leer_archivo
  PROVE  Guarda' /\ Antes'
  <1>1. CASE AccesoMuere
    <2>1. /\ op.paso = "atender" /\ ~Legible(obtener_fcb_por_nombre(op.pedido.nombre)) /\ Muere
          /\ UNCHANGED <<disco, fcb_list, BLOQ_BITMAP, perdidos, promesa>>
      BY <1>1 DEF AccesoMuere, Atiende, SinDisco
    <2>2. Antes' /\ op'.paso = "caido"
      BY <2>1, MuereSinArchivo
    <2>3. QED
      BY <2>1, <2>2, Sabido, AlSoltar DEF Sueltos
  <1>2. CASE escribir_archivo \/ leer_archivo
    <2>1. /\ op.paso = "atender" /\ op' = Reposo
          /\ promesa' => promesa
          /\ UNCHANGED <<disco, fcb_list, BLOQ_BITMAP, perdidos>>
      <3>1. CASE escribir_archivo
        BY <3>1 DEF escribir_archivo, Atiende, Responde, Rompe
      <3>2. CASE leer_archivo
        BY <3>2 DEF leer_archivo, Atiende, SinDisco
      <3>3. QED
        BY <1>2, <3>1, <3>2
    <2>2. QED
      BY <2>1, Sabido, AlReposo, AlSoltar, AntesSigue DEF Sueltos
  <1>3. QED
    BY <1>1, <1>2

LEMMA GuardaCaida ==
  ASSUME Invariante, Cae \/ inicializar_filesystem
  PROVE  Guarda' /\ Antes'
  <1>0. /\ fcb_list \in Seq(Fcb) /\ disco \in [Nombres -> Entrada \cup {NULL}]
        /\ perdidos \subseteq Bloques /\ op.paso \in EnCurso \cup {"recibir", "caido"}
    BY DEF Invariante, Tipo, Discos, Atendido
  <1>1. CASE Cae
    <2>1. /\ op.paso # "caido" /\ op' = Caido(NULL, promesa)
          /\ promesa' => promesa /\ op.paso \notin {"remover", "guardar", "marcar", "compactar"}
          /\ perdidos' = IF op.paso = "escribir" THEN perdidos \cup {op.inicial} ELSE perdidos
          /\ UNCHANGED <<disco, fcb_list, BLOQ_BITMAP>>
      BY <1>1 DEF Cae, Rompe
    <2>2. op'.paso = "caido" /\ op'.pedido = NULL
      BY <2>1, AlCaer
    <2>3. ASSUME promesa'
          PROVE  /\ Espejo(fcb_list', disco')
                 /\ Reparto(fcb_list', BLOQ_BITMAP', perdidos', {}, 0)
      <3>1. promesa /\ Espejo(fcb_list, disco)
        BY <2>1, <2>3, Sabido
      <3>2. CASE op.paso = "escribir"
        <4>1. Propios = {op.inicial} /\ Salvo = 0
          BY <3>2 DEF Propios, Salvo
        <4>2. /\ Reparto(fcb_list, BLOQ_BITMAP, perdidos, {op.inicial}, 0)
              /\ op.inicial \in BLOQ_BITMAP
          BY <3>1, <3>2, <4>1 DEF Invariante, Guarda
        <4>3. PICK b : b = op.inicial
          OBVIOUS
        <4>4. Reparto(fcb_list, BLOQ_BITMAP, perdidos \cup {b}, {}, 0)
          BY <4>2, <4>3, RepartoPierde
        <4>5. QED
          BY <2>1, <3>1, <3>2, <4>3, <4>4
      <3>3. CASE op.paso # "escribir"
        <4>1. op.paso \in Sueltos
          BY <1>0, <2>1, <2>3, <3>3 DEF Sueltos, EnCurso, DeTruncar
        <4>2. QED
          BY <2>1, <3>1, <3>3, <4>1, Sabido
      <3>4. QED
        BY <3>2, <3>3
    <2>4. Guarda'
      BY <2>2, <2>3, AlSoltar DEF Sueltos
    <2>5. Antes'
      BY <2>2 DEF Antes, MuereSoloSinArchivo
    <2>6. QED
      BY <2>4, <2>5
  <1>2. CASE inicializar_filesystem
    <2>1. PICK orden \in SetToSeqs({n \in Nombres : disco[n] # NULL}) :
            fcb_list' = [k \in DOMAIN orden |-> [nombre |-> orden[k], config |-> disco[orden[k]]]]
      BY <1>2 DEF inicializar_filesystem
    <2>2. /\ op.paso = "caido" /\ op' = Reposo
          /\ BLOQ_BITMAP' \in {BLOQ_BITMAP, BLOQ_BITMAP \cap Bloques}
          /\ UNCHANGED <<disco, perdidos, promesa>>
      <3>1. 0 .. bits_del_archivo - 1 = Bloques
        BY BitmapEntero DEF Bloques
      <3>2. QED
        BY <1>2, <3>1 DEF inicializar_filesystem
    <2>3. fcb_list' \in Seq(Fcb) /\ Espejo(fcb_list', disco)
      BY <1>0, <2>1, EspejoLee
    <2>4. ASSUME promesa'
          PROVE  /\ Espejo(fcb_list', disco')
                 /\ Reparto(fcb_list', BLOQ_BITMAP', perdidos', {}, 0)
      <3>1. Espejo(fcb_list, disco) /\ Reparto(fcb_list, BLOQ_BITMAP, perdidos, {}, 0)
        BY <2>2, <2>4, Sabido DEF Sueltos
      <3>2. Reparto(fcb_list', BLOQ_BITMAP, perdidos, {}, 0)
        BY <1>0, <2>3, <3>1, RepartoLee
      <3>3. BLOQ_BITMAP' = BLOQ_BITMAP
        BY <1>0, <2>2, <3>1, Marcados
      <3>4. QED
        BY <2>2, <2>3, <3>2, <3>3
    <2>5. QED
      BY <2>2, <2>4, AlReposo, AlSoltar, AntesSigue DEF Sueltos
  <1>3. QED
    BY <1>1, <1>2

LEMMA GuardaInicial == Init => Invariante
  <1> SUFFICES ASSUME Init PROVE Invariante
    OBVIOUS
  <1>1. /\ op.paso = "recibir" /\ fcb_list = <<>> /\ BLOQ_BITMAP = {} /\ perdidos = {}
        /\ disco = [n \in Nombres |-> NULL]
    BY DEF Init, Reposo
  <1>2. DOMAIN fcb_list = {} /\ Vivos(fcb_list, 0) = {}
    BY <1>1 DEF Vivos
  <1>3. Espejo(fcb_list, disco)
    BY <1>1, <1>2 DEF Espejo
  <1>4. Reparto(fcb_list, BLOQ_BITMAP, perdidos, {}, 0)
    BY <1>1, <1>2, EnUso DEF Reparto
  <1>5. Propios = {} /\ Salvo = 0
    BY <1>1 DEF Propios, Salvo
  <1>6. Guarda
    BY <1>1, <1>3, <1>4, <1>5 DEF Guarda
  <1>7. Antes
    BY <1>1 DEF Antes, MuereSoloSinArchivo
  <1>8. QED
    BY <1>6, <1>7, TipoInicial DEF Invariante

LEMMA GuardaPaso ==
  ASSUME Invariante, [Next]_vars
  PROVE  Invariante'
  <1>1. Tipo'
    BY TipoPaso DEF Invariante
  <1>2. CASE UNCHANGED vars
    <2>1. /\ UNCHANGED <<disco, fcb_list, BLOQ_BITMAP, BLOQUES, perdidos, promesa, previo>>
          /\ op' = op
      BY <1>2 DEF vars
    <2>2. ATruncar' = ATruncar /\ Config' = Config
          /\ obtener_fcb_por_nombre(op.pedido.nombre)' = obtener_fcb_por_nombre(op.pedido.nombre)
      BY <2>1, MismaLista DEF ATruncar, Config
    <2>3. Propios' = Propios /\ Salvo' = Salvo
      BY <2>1, <2>2 DEF Propios, Salvo, Rango, bloques_a_ocupar
    <2>4. Guarda'
      BY <2>1, <2>2, <2>3 DEF Invariante, Guarda
    <2>5. Antes'
      BY <2>1, MismoContenido DEF Invariante, Antes, MuereSoloSinArchivo
    <2>6. QED
      BY <1>1, <2>4, <2>5 DEF Invariante
  <1>3. CASE Next
    <2>1. Guarda' /\ Antes'
      BY <1>3, GuardaRecibe, GuardaCrear, GuardaEliminar, GuardaTruncar, GuardaCompacta,
         GuardaMueve, GuardaCompactarMuere, GuardaTermina, GuardaGuardar, GuardaAcceso,
         GuardaCaida DEF Next
    <2>2. QED
      BY <1>1, <2>1 DEF Invariante
  <1>4. QED
    BY <1>2, <1>3

LEMMA Invariancia == Spec => []Invariante
  BY GuardaInicial, GuardaPaso, PTL DEF Spec

\* Between requests no block belongs to two files, and a block is marked exactly
\* when a file has it or a fall in the middle of a create lost it: for any names,
\* device and programs, while the promise of Archivos lasts (fs_blocks.c).
THEOREM BitmapFiel == Spec => []BitmapExacto
  <1>1. Invariante => BitmapExacto
    <2> SUFFICES ASSUME Invariante, op = Reposo, promesa
                 PROVE  LET legibles == {k \in DOMAIN fcb_list : Legible(k)}
                            de(k) == Ocupa(fcb_list[k].config)
                        IN  /\ \A j, k \in legibles : j # k => de(j) \cap de(k) = {}
                            /\ perdidos \cap UNION {de(k) : k \in legibles} = {}
                            /\ BLOQ_BITMAP = perdidos \cup UNION {de(k) : k \in legibles}
      BY DEF BitmapExacto
    <2>1. Reparto(fcb_list, BLOQ_BITMAP, perdidos, {}, 0)
      BY Sabido DEF Sueltos, Reposo
    <2>2. 0 \notin DOMAIN fcb_list
      BY Elementos DEF Invariante, Tipo, Discos
    <2>3. {k \in DOMAIN fcb_list : Legible(k)} = Vivos(fcb_list, 0)
      BY <2>2 DEF Legible, Vivos
    <2>4. \A k : De(fcb_list, k) = Ocupa(fcb_list[k].config)
      BY DEF De
    <2>5. Usados(fcb_list, 0) = UNION {Ocupa(fcb_list[k].config) : k \in Vivos(fcb_list, 0)}
      BY <2>4 DEF Usados
    <2>6. \A j, k \in Vivos(fcb_list, 0) : j # k =>
            Ocupa(fcb_list[j].config) \cap Ocupa(fcb_list[k].config) = {}
      BY <2>1, <2>4 DEF Reparto
    <2>7. perdidos \cap Usados(fcb_list, 0) = {}
      BY <2>1, EnUso DEF Reparto
    <2>8. BLOQ_BITMAP = perdidos \cup Usados(fcb_list, 0)
      BY <2>1 DEF Reparto
    <2>9. QED
      BY <2>3, <2>5, <2>6, <2>7, <2>8
  <1>2. QED
    BY <1>1, Invariancia, PTL

\* A request kills the process only when its file does not exist or an entry was
\* left without keys: the compaction, which dereferences what it does not check,
\* never runs out of blocks (filesystem.c's compactar).
THEOREM MuerteJustificada == Spec => []MuereSoloSinArchivo
  <1>1. Invariante => MuereSoloSinArchivo
    BY DEF Invariante, Antes
  <1>2. QED
    BY <1>1, Invariancia, PTL

-----------------------------------------------------------------------------
(***************************************************************************)
(* DialFS implements Archivos: the blocks, the bitmap, the directory and   *)
(* the compaction give the programs named files that hold the bytes        *)
(* written to them, while nothing has broken the promise.                  *)
(*                                                                         *)
(* First, the data over the requests of an access.                         *)
(***************************************************************************)
LEMMA Principio ==
  ASSUME NEW V, NEW dato \in Seq(V), NEW D \in Nat, Largo(dato) = D,
         NEW y \in Nat, y <= D
  PROVE  /\ Corte(dato, 0, y) \in Seq(V) /\ Largo(Corte(dato, 0, y)) = y
         /\ \A j \in 1 .. y : Corte(dato, 0, y)[j] = dato[j]
  <1>1. ASSUME NEW x \in Nat, x <= y
        PROVE  /\ Corte(dato, x, y) \in Seq(V) /\ Largo(Corte(dato, x, y)) = y - x
               /\ \A j \in 1 .. y - x : Corte(dato, x, y)[j] = dato[x + j]
    BY <1>1, CorteBien
  <1>2. /\ Corte(dato, 0, y) \in Seq(V) /\ Largo(Corte(dato, 0, y)) = y - 0
        /\ \A j \in 1 .. y - 0 : Corte(dato, 0, y)[j] = dato[0 + j]
    BY <1>1
  <1>3. QED
    BY <1>2

LEMMA Trozos ==
  ASSUME NEW V, NEW dato \in Seq(V), NEW D \in Nat, Largo(dato) = D,
         NEW x \in Nat, NEW y \in Nat, x <= y, y <= D
  PROVE  Corte(dato, 0, x) \o Corte(dato, x, y) = Corte(dato, 0, y)
  <1>0. 0 \in Nat /\ 0 <= x /\ 0 <= y /\ x <= D /\ y - x \in Nat
        /\ x - 0 = x /\ y - 0 = y
    OBVIOUS
  <1>a. ASSUME NEW m \in Nat, NEW n \in Nat, m <= n, n <= D
        PROVE  \E q \in Seq(V) : /\ q = Corte(dato, m, n) /\ Largo(q) = n - m
                                /\ \A j \in 1 .. n - m : q[j] = dato[m + j]
    BY <1>a, CorteBien
  <1>1. PICK s \in Seq(V) : /\ s = Corte(dato, 0, x) /\ Largo(s) = x - 0
                            /\ \A j \in 1 .. x - 0 : s[j] = dato[0 + j]
    BY <1>0, <1>a
  <1>2. PICK t \in Seq(V) : /\ t = Corte(dato, x, y) /\ Largo(t) = y - x
                            /\ \A j \in 1 .. y - x : t[j] = dato[x + j]
    BY <1>a
  <1>3. PICK u \in Seq(V) : /\ u = Corte(dato, 0, y) /\ Largo(u) = y - 0
                            /\ \A j \in 1 .. y - 0 : u[j] = dato[0 + j]
    BY <1>0, <1>a
  <1>4. Largo(s) = x /\ \A j \in 1 .. x : s[j] = dato[j]
    BY <1>0, <1>1
  <1>5. Largo(u) = y /\ \A j \in 1 .. y : u[j] = dato[j]
    BY <1>0, <1>3
  <1>6. /\ Junta(s, t) \in Seq(V) /\ Largo(Junta(s, t)) = y
        /\ \A j \in 1 .. x : Junta(s, t)[j] = s[j]
        /\ \A j \in 1 .. y - x : Junta(s, t)[x + j] = t[j]
    <2>1. Largo(s) = x /\ x + (y - x) = y
      BY <1>0, <1>1
    <2>2. ASSUME NEW n \in Nat, Largo(t) = n
          PROVE  /\ Junta(s, t) \in Seq(V) /\ Largo(Junta(s, t)) = x + n
                 /\ \A j \in 1 .. x : Junta(s, t)[j] = s[j]
                 /\ \A j \in 1 .. n : Junta(s, t)[x + j] = t[j]
      BY <2>1, <2>2, DosPartes
    <2>3. QED
      BY <1>0, <1>2, <2>1, <2>2
  <1>7. ASSUME NEW j \in 1 .. y
        PROVE  Junta(s, t)[j] = u[j]
    <2>1. CASE j <= x
      BY <1>4, <1>5, <1>6, <2>1
    <2>2. CASE ~(j <= x)
      <3>1. j - x \in 1 .. y - x /\ x + (j - x) = j
        BY <2>2
      <3>2. Junta(s, t)[x + (j - x)] = dato[x + (j - x)]
        BY <1>2, <1>6, <3>1
      <3>3. QED
        BY <1>5, <3>1, <3>2
    <2>3. QED
      BY <2>1, <2>2
  <1>8. Junta(s, t) = u
    BY <1>0, <1>3, <1>6, <1>7, SeqEqual DEF Largo
  <1>9. QED
    BY <1>1, <1>2, <1>3, <1>8 DEF Junta

\* FlattenSeq of pieces that follow one another, by its recursion.
Encadena(g, p, L) ==
  /\ Largo(p) = L /\ g[1] = p[1] /\ \E G : g \in [1 .. L -> G]
  /\ \A k \in 2 .. L : Junta(g[k - 1], p[k]) = g[k]

LEMMA Aplana ==
  ASSUME NEW p, NEW L \in Nat \ {0}, NEW g, Encadena(g, p, L)
  PROVE  FlattenSeq(p) = g[L]
  <1> DEFINE Ecuacion(f) == f = [k \in 1 .. L |-> IF k = 1 THEN p[k] ELSE f[k - 1] \o p[k]]
  <1>0. /\ Largo(p) = L /\ g[1] = p[1] /\ \E G : g \in [1 .. L -> G]
        /\ \A k \in 2 .. L : g[k - 1] \o p[k] = g[k]
    BY DEF Encadena, Junta
  <1>1. Ecuacion(g)
    <2>1. \A k \in 1 .. L : g[k] = IF k = 1 THEN p[k] ELSE g[k - 1] \o p[k]
      <3>1. \A k \in 1 .. L : k = 1 \/ k \in 2 .. L
        OBVIOUS
      <3>2. QED
        BY <1>0, <3>1
    <2>2. QED
      BY <1>0, <2>1
  <1>2. FlattenSeq(p) = (CHOOSE f : Ecuacion(f))[L]
    BY <1>0 DEF FlattenSeq, Largo
  <1> HIDE DEF Ecuacion
  <1>3. PICK f : f = CHOOSE q : Ecuacion(q)
    OBVIOUS
  <1>4. Ecuacion(f)
    BY <1>1, <1>3
  <1> USE DEF Ecuacion
  <1>5. \A k \in 1 .. L : f[k] = IF k = 1 THEN p[k] ELSE f[k - 1] \o p[k]
    BY <1>4
  <1> DEFINE N == {k \in 1 .. L : f[k] # g[k]}
  <1>6. ASSUME N # {}
        PROVE  FALSE
    <2>1. N \subseteq Nat
      OBVIOUS
    <2>2. PICK m \in N : \A n \in N : m <= n
      BY <1>6, <2>1, Minimo
    <2>3. 1 \in 1 .. L /\ f[1] = g[1]
      BY <1>0, <1>5
    <2>4. m \in 2 .. L /\ m - 1 \in 1 .. L /\ m - 1 \notin N
      BY <2>2, <2>3
    <2>5. f[m - 1] = g[m - 1]
      BY <2>4
    <2>6. f[m] = f[m - 1] \o p[m]
      <3>1. m \in 1 .. L /\ m # 1
        BY <2>4
      <3>2. QED
        BY <1>5, <3>1, Zenon
    <2>7. g[m] = g[m - 1] \o p[m]
      BY <1>0, <2>4
    <2>8. QED
      BY <2>2, <2>5, <2>6, <2>7
  <1>7. L \in 1 .. L /\ L \notin N
    BY <1>6
  <1>8. QED
    BY <1>2, <1>3, <1>7

LEMMA Unidos ==
  ASSUME NEW V, NEW dato \in Seq(V), NEW D \in Nat, Largo(dato) = D,
         NEW L \in Nat \ {0}, NEW h, h[0] = 0, \A k \in 1 .. L : h[k - 1] <= h[k],
         \A k \in 0 .. L : h[k] \in Nat /\ h[k] <= D
  PROVE  FlattenSeq([k \in 1 .. L |-> Corte(dato, h[k - 1], h[k])]) = Corte(dato, 0, h[L])
  <1>0. PICK p : p = [k \in 1 .. L |-> Corte(dato, h[k - 1], h[k])]
    OBVIOUS
  <1>1. ASSUME NEW x \in Nat, NEW y \in Nat, x <= y, y <= D
        PROVE  Corte(dato, 0, x) \o Corte(dato, x, y) = Corte(dato, 0, y)
    BY <1>1, Trozos
  <1>2. ASSUME NEW y \in Nat, y <= D
        PROVE  Corte(dato, 0, y) \in Seq(V)
    BY <1>2, Principio
  <1>3. PICK g : g = [k \in 1 .. L |-> Corte(dato, 0, h[k])]
    OBVIOUS
  <1>4. g \in [1 .. L -> Seq(V)]
    <2>1. ASSUME NEW k \in 1 .. L
          PROVE  Corte(dato, 0, h[k]) \in Seq(V)
      <3>1. k \in 0 .. L
        OBVIOUS
      <3>2. h[k] \in Nat /\ h[k] <= D
        BY <3>1
      <3>3. QED
        BY <1>2, <3>2
    <2>2. QED
      BY <1>3, <2>1
  <1>5. g[1] = p[1]
    <2>1. 1 \in 1 .. L /\ 1 - 1 = 0
      OBVIOUS
    <2>2. QED
      BY <1>0, <1>3, <2>1
  <1>6. ASSUME NEW k \in 2 .. L
        PROVE  Junta(g[k - 1], p[k]) = g[k]
    <2>1. k \in 1 .. L /\ k - 1 \in 1 .. L /\ k - 1 \in 0 .. L /\ k \in 0 .. L
      OBVIOUS
    <2>2. PICK x \in Nat : x = h[k - 1]
      BY <2>1
    <2>3. PICK y \in Nat : y = h[k] /\ y <= D
      BY <2>1
    <2>4. x <= y
      BY <2>1, <2>2, <2>3
    <2>5. Corte(dato, 0, x) \o Corte(dato, x, y) = Corte(dato, 0, y)
      BY <1>1, <2>3, <2>4
    <2>6. g[k - 1] = Corte(dato, 0, x) /\ p[k] = Corte(dato, x, y) /\ g[k] = Corte(dato, 0, y)
      BY <1>0, <1>3, <2>1, <2>2, <2>3
    <2>7. QED
      BY <2>5, <2>6 DEF Junta
  <1>7. Largo(p) = L
    BY <1>0 DEF Largo
  <1>8. FlattenSeq(p) = g[L]
    <2>1. Encadena(g, p, L)
      BY <1>4, <1>5, <1>6, <1>7 DEF Encadena
    <2>2. QED
      BY <2>1, Aplana
  <1>9. QED
    BY <1>0, <1>3, <1>8

LEMMA Distribuye ==
  ASSUME NEW a \in Accesos, NEW V, NEW dato \in Seq(V), NEW D \in Nat, Largo(dato) = D,
         NEW T \in Nat \ {0}, T = peticiones_tam_total(a), T <= D,
         NEW r, r = peticiones_distribuir_dato(a, dato)
  PROVE  FlattenSeq([k \in DOMAIN r |-> r[k].dato]) = Corte(dato, 0, T)
  <1>1. PICK L \in Nat : /\ a \in Seq(PeticionMemoria) /\ Len(a) = L
                         /\ DOMAIN a = 1 .. L
    BY AccesosOK, LenProperties DEF PeticionMemoria
  <1>2. PICK h : h = Acumulado(a)
    OBVIOUS
  <1>3. SumaHasta(h, a, L) /\ \A k \in 1 .. L : a[k].tam_dato \in Nat
    <2>1. \A k \in 1 .. L : a[k] \in PeticionMemoria
      BY <1>1, ElementOfSeq
    <2>2. \A k \in 1 .. L : a[k].tam_dato \in Nat
      BY <2>1 DEF PeticionMemoria
    <2>3. QED
      BY <1>1, <1>2, <2>2, Acumula
  <1>4. h[0] = 0 /\ h[L] = T /\ L \in Nat \ {0}
    <2>1. h[0] = 0
      BY <1>3 DEF SumaHasta
    <2>2. h[L] = T
      BY <1>1, <1>2 DEF peticiones_tam_total
    <2>3. QED
      BY <2>1, <2>2
  <1>5. \A k \in 1 .. L : h[k - 1] <= h[k]
    BY <1>3, SumaCrece
  <1>6. \A k \in 0 .. L : h[k] \in Nat /\ h[k] <= D
    <2>1. \A k \in 0 .. L : h[k] \in Nat /\ h[k] <= h[L]
      BY <1>3, SumaCrece
    <2>2. QED
      BY <1>4, <2>1
  <1>7. PICK p : p = [k \in 1 .. L |-> Corte(dato, h[k - 1], h[k])]
    OBVIOUS
  <1>8. [k \in DOMAIN r |-> r[k].dato] = p
    <2>1. r = [k \in 1 .. L |-> [direccion_fisica |-> a[k].direccion_fisica,
                                 dato |-> SubSeq(dato, h[k - 1] + 1, h[k])]]
      BY <1>1, <1>2, Zenon DEF peticiones_distribuir_dato
    <2>2. DOMAIN r = 1 .. L /\ \A k \in 1 .. L : r[k].dato = SubSeq(dato, h[k - 1] + 1, h[k])
      BY <2>1
    <2>3. \A k \in 1 .. L : r[k].dato = Corte(dato, h[k - 1], h[k])
      BY <2>2, Zenon DEF Corte
    <2>4. QED
      BY <1>7, <2>2, <2>3
  <1>9. FlattenSeq(p) = Corte(dato, 0, h[L])
    BY <1>4, <1>5, <1>6, <1>7, Unidos
  <1>10. QED
    BY <1>4, <1>8, <1>9

-----------------------------------------------------------------------------
(***************************************************************************)
(* The bytes of a file, and the blocks where they are                      *)
(***************************************************************************)
Inicio(c) == calcular_byte_inicial_de_bloque(c.bloque)
ByteDe(B, b) == IF b \in Bytes THEN B[b] ELSE 0
Trecho(B, posicion, tam) == [k \in 1 .. tam |-> ByteDe(B, posicion + k - 1)]

\* What an entry of the directory holds on the device B.
Leido(c, B) == IF c \in {NULL, SinClaves} THEN NULL ELSE Trecho(B, Inicio(c), c.tam)
Archivados(d, B) == [n \in Nombres |-> Leido(d[n], B)]

ConKeys == [bloque : Bloques, tam : Nat]
Directorios == [Nombres -> Entrada \cup {NULL}]

LEMMA ConLlaves ==
  /\ \A c \in ConKeys : /\ c \in Entrada /\ c # SinClaves /\ c # NULL
                        /\ c.bloque \in Bloques /\ c.bloque \in Nat /\ c.tam \in Nat
                        /\ Inicio(c) \in Nat
  /\ \A c \in Entrada \cup {NULL} : c \notin {NULL, SinClaves} => c \in ConKeys
  <1>1. \A c \in ConKeys : c \in Entrada /\ c # SinClaves /\ c # NULL
    BY ConClaves DEF ConKeys
  <1>2. \A c \in ConKeys : /\ c.bloque \in Bloques /\ c.bloque \in Nat /\ c.tam \in Nat
                           /\ Inicio(c) \in Nat
    BY Constantes, ByteInicial DEF ConKeys, Inicio
  <1>3. \A c \in Entrada \cup {NULL} : c \notin {NULL, SinClaves} => c \in ConKeys
    BY DEF Entrada, ConKeys
  <1>4. QED
    BY <1>1, <1>2, <1>3

LEMMA EsTrecho ==
  ASSUME NEW B \in [Bytes -> Valores], NEW posicion \in Int, NEW tam \in Nat
  PROVE  /\ Trecho(B, posicion, tam) \in Seq(Valores) /\ Len(Trecho(B, posicion, tam)) = tam
         /\ DOMAIN Trecho(B, posicion, tam) = 1 .. tam
         /\ \A k \in 1 .. tam : Trecho(B, posicion, tam)[k] = ByteDe(B, posicion + k - 1)
         /\ Trecho(B, posicion, tam) # NULL
  <1>1. \A b : ByteDe(B, b) \in Valores
    BY DEF ByteDe, Valores
  <1>2. Trecho(B, posicion, tam) \in Seq(Valores) /\ Len(Trecho(B, posicion, tam)) = tam
    BY <1>1 DEF Trecho
  <1>3. NULL \notin Seq(Valores)
    BY NullNoEsContenido DEF Valores
  <1>4. QED
    BY <1>2, <1>3 DEF Trecho

\* A file with keys holds bytes, one without them does not exist.
LEMMA EsLeido ==
  ASSUME NEW B \in [Bytes -> Valores], NEW c \in ConKeys
  PROVE  Leido(c, B) = Trecho(B, Inicio(c), c.tam) /\ Leido(c, B) # NULL
  <1>1. Leido(c, B) = Trecho(B, Inicio(c), c.tam)
    BY ConLlaves DEF Leido
  <1>2. QED
    BY <1>1, ConLlaves, EsTrecho

\* The list of FCBs and the directory show the same contents.
LEMMA ContenidoLeido ==
  Discos /\ Espejo(fcb_list, disco) => Contenido = Archivados(disco, BLOQUES)
  <1> SUFFICES ASSUME Discos, Espejo(fcb_list, disco)
               PROVE  Contenido = Archivados(disco, BLOQUES)
    OBVIOUS
  <1>1. \A posicion, tam : LeeBloques(posicion, tam) = Trecho(BLOQUES, posicion, tam)
    BY DEF LeeBloques, Byte, Trecho, ByteDe
  <1>2. ASSUME NEW n \in Nombres
        PROVE  Contenido[n] = Leido(disco[n], BLOQUES)
    <2>1. PICK k : k = obtener_fcb_por_nombre(n)
      OBVIOUS
    <2>2. Contenido[n] = IF ~Legible(k) THEN NULL
                         ELSE Trecho(BLOQUES, Inicio(fcb_list[k].config), fcb_list[k].config.tam)
      BY <1>1, <2>1 DEF Contenido, Inicio
    <2>3. CASE k = 0
      <3>1. \A j \in 1 .. Len(fcb_list) : fcb_list[j].nombre # n
        BY <2>1, <2>3, Obtiene, PrimerFcb DEF Discos
      <3>2. disco[n] \in {NULL, SinClaves}
        BY <3>1, Elementos DEF Discos, Espejo
      <3>3. QED
        BY <2>2, <2>3, <3>2 DEF Legible, Leido
    <2>4. CASE k # 0
      <3>1. k \in 1 .. Len(fcb_list) /\ fcb_list[k].nombre = n
        BY <2>1, <2>4, Hallado DEF Discos
      <3>2. fcb_list[k].config \in Entrada /\ disco[n] = fcb_list[k].config
        BY <3>1, Elementos DEF Discos, Espejo
      <3>3. disco[n] # NULL
        BY <3>2, ConClaves
      <3>4. QED
        BY <2>2, <2>4, <3>2, <3>3 DEF Legible, Leido
    <2>5. QED
      BY <2>3, <2>4
  <1>3. QED
    BY <1>2 DEF Contenido, Archivados

LEMMA ContenidoLeidoDespues ==
  Discos' /\ Espejo(fcb_list', disco') => Contenido' = Archivados(disco', BLOQUES')
  <1>1. Discos' /\ Espejo(fcb_list, disco)' => (Contenido = Archivados(disco, BLOQUES))'
    BY ContenidoLeido, PTL
  <1>2. QED
    BY <1>1, Zenon DEF Espejo, Archivados, Leido, Trecho, ByteDe, Inicio,
                       calcular_byte_inicial_de_bloque

\* An entry without keys is the same as none.
LEMMA SinArchivo ==
  ASSUME NEW d \in Directorios, NEW n \in Nombres, d[n] \in {NULL, SinClaves},
         NEW c \in {NULL, SinClaves}, NEW B
  PROVE  Archivados([d EXCEPT ![n] = c], B) = Archivados(d, B) /\ Archivados(d, B)[n] = NULL
  <1>1. Leido(c, B) = NULL /\ Leido(d[n], B) = NULL
    BY DEF Leido
  <1>2. QED
    BY <1>1 DEF Archivados, Directorios

\* No FCB has the name of a file without entry, or with one without keys.
LEMMA SinFcb ==
  ASSUME Discos, Espejo(fcb_list, disco), NEW n \in Nombres, obtener_fcb_por_nombre(n) = 0
  PROVE  disco[n] \in {NULL, SinClaves}
  <1>1. \A j \in 1 .. Len(fcb_list) : fcb_list[j].nombre # n
    BY Obtiene, PrimerFcb DEF Discos
  <1>2. QED
    BY <1>1, Elementos DEF Discos, Espejo

LEMMA ConFcb ==
  ASSUME Discos, Espejo(fcb_list, disco), NEW n, Legible(obtener_fcb_por_nombre(n))
  PROVE  /\ disco[n] = fcb_list[obtener_fcb_por_nombre(n)].config /\ disco[n] \in ConKeys
         /\ n \in Nombres
  <1>1. PICK k : k = obtener_fcb_por_nombre(n)
    OBVIOUS
  <1>2. k \in 1 .. Len(fcb_list) /\ fcb_list[k].nombre = n /\ fcb_list[k].config # SinClaves
    BY <1>1, Hallado DEF Discos, Legible
  <1>3. fcb_list[k].config \in Entrada /\ n \in Nombres /\ disco[n] = fcb_list[k].config
    BY <1>2, Elementos DEF Discos, Espejo
  <1>4. disco[n] \in ConKeys
    BY <1>2, <1>3, ConClaves, ConLlaves
  <1>5. QED
    BY <1>1, <1>3, <1>4

-----------------------------------------------------------------------------
(***************************************************************************)
(* What is on the device at each step of a request                         *)
(***************************************************************************)
\* The compaction copies each file before the device is written: the files of
\* the first i FCBs are read from the copy e.
Movidos(s, i, d, e, B) ==
  [n \in Nombres |-> Leido(d[n], IF \E k \in 1 .. i : s[k].nombre = n THEN e ELSE B)]

Quietos == {"atender", "asignar", "escribir", "truncar", "remover", "guardar", "caido"}

\* The steps of a request are of its operation, and nothing is delivered before
\* the answer.
Suyo ==
  /\ op.paso \in EnCurso => leidos = NULL
  /\ op.paso \in {"asignar", "escribir"} => op.pedido.op = "IO_FS_CREATE"
  /\ op.paso = "remover" => op.pedido.op = "IO_FS_DELETE"

Fiel ==
  /\ Suyo
  /\ promesa =>
       /\ op.paso \in Quietos => previo = Archivados(disco, BLOQUES)
       /\ op.paso = "remover" => Legible(obtener_fcb_por_nombre(op.pedido.nombre))
       /\ op.paso = "guardar" => Config.bloque = op.inicial
       /\ op.paso = "compactar" =>
            previo = Movidos(fcb_list, op.i - 1, disco, op.espacio, BLOQUES)
       /\ op.paso = "marcar" =>
            \E t \in Nat : previo = Archivados([disco EXCEPT ![op.pedido.nombre] =
                                                  [bloque |-> op.inicial, tam |-> t]], BLOQUES)

\* What the abstract specification sees.
Vistos == IF op = Reposo THEN Contenido ELSE previo
PedidoVisto == IF op.paso = "caido" THEN NULL ELSE op.pedido
Permitido == LosArchivos!Next \/ UNCHANGED <<Vistos, PedidoVisto, leidos, promesa>>

LEMMA Visto ==
  /\ op = Reposo => Vistos = Contenido /\ PedidoVisto = NULL
  /\ op.paso \in EnCurso => Vistos = previo /\ PedidoVisto = op.pedido
  /\ op.paso = "caido" => Vistos = previo /\ PedidoVisto = NULL
  /\ op' = Reposo => Vistos' = Contenido' /\ PedidoVisto' = NULL
  /\ op'.paso \in EnCurso => Vistos' = previo' /\ PedidoVisto' = op'.pedido
  /\ op'.paso = "caido" => Vistos' = previo' /\ PedidoVisto' = NULL
  <1>1. Reposo.paso = "recibir" /\ Reposo.pedido = NULL /\ "recibir" \notin EnCurso
        /\ "caido" \notin EnCurso
    BY DEF Reposo, EnCurso, DeTruncar
  <1>2. QED
    BY <1>1 DEF Vistos, PedidoVisto

LEMMA PedidoNoNulo ==
  ASSUME NEW p \in Pedidos
  PROVE  p # NULL /\ p.nombre \in Nombres
  <1>1. p # NULL
    BY NullNoEsPedido DEF Pedidos, PedidosDe
  <1>2. QED
    BY <1>1, PedidoEntero

\* Once the promise is broken every step is allowed.
LEMMA Rota ==
  ASSUME promesa' = FALSE
  PROVE  LosArchivos!Next
  BY DEF LosArchivos!Next

LEMMA EsPide ==
  ASSUME PedidoVisto = NULL, PedidoVisto' # NULL, PedidoVisto'.nombre \in Nombres,
         leidos' = NULL, UNCHANGED <<Vistos, promesa>>
  PROVE  LosArchivos!Next
  BY DEF LosArchivos!Next, LosArchivos!Pide, Vistos, PedidoVisto

LEMMA EsAbandono ==
  ASSUME PedidoVisto # NULL, PedidoVisto' = NULL, leidos' = NULL,
         UNCHANGED <<Vistos, promesa>>
  PROVE  LosArchivos!Next
  BY DEF LosArchivos!Next, LosArchivos!Abandona, Vistos, PedidoVisto

LEMMA EsCrear ==
  ASSUME PedidoVisto # NULL, PedidoVisto' = NULL, leidos' = NULL, UNCHANGED promesa,
         PedidoVisto.op = "IO_FS_CREATE", NEW n, n = PedidoVisto.nombre,
         Vistos[n] = NULL, Vistos' = [Vistos EXCEPT ![n] = <<>>]
  PROVE  LosArchivos!Next
  <1>1. LosArchivos!Crear(n)
    BY DEF LosArchivos!Crear, LosArchivos!Existe, LosArchivos!Queda, Vistos
  <1>2. LosArchivos!Responde
    BY <1>1 DEF LosArchivos!Responde, PedidoVisto
  <1>3. QED
    BY <1>2 DEF LosArchivos!Next

LEMMA EsEliminar ==
  ASSUME PedidoVisto # NULL, PedidoVisto' = NULL, leidos' = NULL, UNCHANGED promesa,
         PedidoVisto.op = "IO_FS_DELETE", NEW n, n = PedidoVisto.nombre,
         Vistos[n] # NULL, Vistos' = [Vistos EXCEPT ![n] = NULL]
  PROVE  LosArchivos!Next
  <1>1. LosArchivos!Eliminar(n)
    BY DEF LosArchivos!Eliminar, LosArchivos!Existe, LosArchivos!Queda, Vistos
  <1>2. LosArchivos!Responde
    BY <1>1 DEF LosArchivos!Responde, PedidoVisto
  <1>3. QED
    BY <1>2 DEF LosArchivos!Next

LEMMA EsTruncar ==
  ASSUME PedidoVisto # NULL, PedidoVisto' = NULL, leidos' = NULL, UNCHANGED promesa,
         PedidoVisto.op = "IO_FS_TRUNCATE", NEW n, n = PedidoVisto.nombre,
         Vistos[n] # NULL, NEW s, s # NULL, Len(s) = PedidoVisto.tam,
         IsPrefix(s, Vistos[n]) \/ IsPrefix(Vistos[n], s),
         Vistos'[n] = s, Vistos' = [Vistos EXCEPT ![n] = s]
  PROVE  LosArchivos!Next
  <1>1. LosArchivos!Truncar(n, PedidoVisto.tam)
    <2>1. LosArchivos!Existe(n) /\ LosArchivos!Queda(n, s)
      BY DEF LosArchivos!Existe, LosArchivos!Queda, Vistos
    <2>2. s \in {Vistos'[n]} /\ (IsPrefix(s, Vistos[n]) \/ IsPrefix(Vistos[n], s))
      OBVIOUS
    <2>3. \A x, y : LosArchivos!IsPrefix(x, y) <=> IsPrefix(x, y)
      BY DEF LosArchivos!IsPrefix, IsPrefix
    <2>4. QED
      BY <2>1, <2>2, <2>3, Zenon DEF LosArchivos!Truncar, Vistos
  <1>2. LosArchivos!Responde
    BY <1>1 DEF LosArchivos!Responde, PedidoVisto
  <1>3. QED
    BY <1>2 DEF LosArchivos!Next

Sobrescribe(v, w, n, p, datos) ==
  w = [v EXCEPT ![n] = [k \in DOMAIN v[n] |->
                          IF p < k /\ k <= p + Len(datos) THEN datos[k - p] ELSE v[n][k]]]

LEMMA EsEscribir ==
  ASSUME PedidoVisto # NULL, PedidoVisto' = NULL, leidos' = NULL, UNCHANGED promesa,
         PedidoVisto.op = "IO_FS_WRITE", NEW n, n = PedidoVisto.nombre,
         Vistos[n] # NULL, NEW texto, texto = PedidoVisto.datos,
         NEW p, p = PedidoVisto.puntero,
         Sobrescribe(Vistos, Vistos', n, p, texto)
  PROVE  LosArchivos!Next
  <1>1. LosArchivos!Escribir(n, p, PedidoVisto.datos)
    <2>1. LosArchivos!Existe(n)
      BY DEF LosArchivos!Existe, Vistos
    <2>2. Sobrescribe(Vistos, Vistos', n, p, texto) /\ leidos' = NULL
      OBVIOUS
    <2>3. LosArchivos!Escribir(n, p, texto)
      BY ONLY <2>1, <2>2, Zenon
         DEF LosArchivos!Escribir, LosArchivos!Queda, Vistos, Sobrescribe
    <2>4. QED
      BY <2>3
  <1>2. LosArchivos!Responde
    BY <1>1 DEF LosArchivos!Responde, PedidoVisto
  <1>3. QED
    BY <1>2 DEF LosArchivos!Next

Entregado(w, v, p, t) ==
  /\ Len(w) = t
  /\ \/ \A k \in 1 .. t : p + k <= Len(v) => w[k] = v[p + k]
     \/ \A k \in 1 .. t : w[k] = 0

LEMMA EsLeer ==
  ASSUME PedidoVisto # NULL, PedidoVisto' = NULL, UNCHANGED <<Vistos, promesa>>,
         PedidoVisto.op = "IO_FS_READ", NEW n, n = PedidoVisto.nombre,
         Vistos[n] # NULL, NEW p, p = PedidoVisto.puntero, NEW t, t = PedidoVisto.tam,
         leidos' # NULL, Entregado(leidos', Vistos[n], p, t)
  PROVE  LosArchivos!Next
  <1>1. LosArchivos!Leer(n, p, t)
    BY DEF LosArchivos!Leer, LosArchivos!Existe, Vistos, Entregado
  <1>2. LosArchivos!Responde
    BY <1>1 DEF LosArchivos!Responde, PedidoVisto
  <1>3. QED
    BY <1>2 DEF LosArchivos!Next

\* The contents between the steps, while the promise lasts.
LEMMA Antiguos ==
  ASSUME Invariante, promesa
  PROVE  Contenido = Archivados(disco, BLOQUES)
  BY ContenidoLeido, Sabido DEF Invariante, Tipo

LEMMA Nuevos ==
  ASSUME Invariante', promesa'
  PROVE  Contenido' = Archivados(disco', BLOQUES')
  <1>1. Discos' /\ Espejo(fcb_list', disco')
    BY DEF Invariante, Tipo, Guarda
  <1>2. QED
    BY <1>1, ContenidoLeidoDespues

LEMMA FielQuieto ==
  ASSUME op'.paso \in {"recibir"} \cup (Quietos \ {"remover", "guardar"}), Suyo',
         op'.paso # "recibir" /\ promesa' => previo' = Archivados(disco', BLOQUES')
  PROVE  Fiel'
  BY DEF Fiel, Quietos

LEMMA FielReposo ==
  ASSUME op' = Reposo
  PROVE  Fiel'
  <1>1. op'.paso = "recibir"
    BY DEF Reposo
  <1>2. Suyo'
    BY <1>1 DEF Suyo, EnCurso, DeTruncar
  <1>3. QED
    BY <1>1, <1>2, FielQuieto

LEMMA FielCaido ==
  ASSUME NEW p, NEW f, op' = Caido(p, f),
         promesa' => previo' = Archivados(disco', BLOQUES')
  PROVE  Fiel'
  <1>1. op'.paso = "caido"
    BY DEF Caido
  <1>2. Suyo'
    BY <1>1 DEF Suyo, EnCurso, DeTruncar
  <1>3. QED
    BY <1>1, <1>2, FielQuieto DEF Quietos

\* A request on its way.
LEMMA EnServicio ==
  ASSUME Invariante, op.paso \in EnCurso
  PROVE  /\ op \in Servicio /\ op.pedido \in Pedidos /\ op.pedido # NULL
         /\ op.pedido.nombre \in Nombres /\ Discos /\ disco \in Directorios
         /\ fcb_list \in Seq(Fcb) /\ BLOQUES \in [Bytes -> Valores] /\ promesa \in BOOLEAN
  <1>1. op \in Servicio /\ Discos
    BY DEF Invariante, Tipo, Atendido
  <1>2. op.pedido \in Pedidos
    BY <1>1 DEF Servicio
  <1>3. QED
    BY <1>1, <1>2, PedidoNoNulo DEF Discos, Directorios

\* The abstract specification does not see a step in the middle of a request.
LEMMA Sigue ==
  ASSUME op.paso \in EnCurso, op'.paso \in EnCurso, op'.pedido = op.pedido,
         UNCHANGED <<previo, leidos>>, promesa' \in {promesa, FALSE}
  PROVE  Permitido
  <1>1. CASE promesa' = FALSE
    BY <1>1, Rota DEF Permitido
  <1>2. CASE promesa' = promesa
    BY <1>2, Visto DEF Permitido
  <1>3. QED
    BY <1>1, <1>2

\* Nothing was done to the files: a refusal.
LEMMA Rechazo ==
  ASSUME Invariante, Invariante', Fiel, op.paso \in Quietos \cap EnCurso, op' = Reposo,
         UNCHANGED <<disco, BLOQUES, leidos, promesa>>
  PROVE  Fiel' /\ Permitido
  <1>1. op.pedido # NULL /\ promesa \in BOOLEAN /\ leidos' = NULL
    BY EnServicio DEF Fiel, Suyo
  <1>2. CASE promesa = FALSE
    BY <1>2, FielReposo, Rota DEF Permitido
  <1>3. CASE promesa = TRUE
    <2>1. Vistos' = Archivados(disco', BLOQUES')
      BY <1>3, Nuevos, Visto
    <2>2. Vistos = Archivados(disco, BLOQUES)
      BY <1>3, Visto DEF Fiel
    <2>3. PedidoVisto # NULL /\ PedidoVisto' = NULL
      BY <1>1, Visto
    <2>4. Vistos' = Vistos
      BY <2>1, <2>2
    <2>5. QED
      BY <1>1, <2>3, <2>4, FielReposo, EsAbandono DEF Permitido
  <1>4. QED
    BY <1>1, <1>2, <1>3

\* The process dies in the middle of a request, or is killed.
LEMMA Corta ==
  ASSUME Invariante, Fiel, op.paso \in EnCurso, NEW p, NEW f, op' = Caido(p, f),
         UNCHANGED <<previo, leidos>>, promesa' \in {promesa, FALSE},
         promesa' => previo' = Archivados(disco', BLOQUES')
  PROVE  Fiel' /\ Permitido
  <1>1. op.pedido # NULL /\ promesa \in BOOLEAN /\ leidos' = NULL /\ op'.paso = "caido"
    BY EnServicio DEF Fiel, Suyo, Caido
  <1>2. Fiel'
    BY FielCaido
  <1>3. CASE promesa' = FALSE
    BY <1>2, <1>3, Rota DEF Permitido
  <1>4. CASE promesa' = promesa
    <2>1. Vistos' = Vistos /\ PedidoVisto # NULL /\ PedidoVisto' = NULL
      BY <1>1, Visto
    <2>2. QED
      BY <1>1, <1>2, <1>4, <2>1, EsAbandono DEF Permitido
  <1>5. QED
    BY <1>3, <1>4

-----------------------------------------------------------------------------
(***************************************************************************)
(* The steps, one by one                                                   *)
(***************************************************************************)
LEMMA FielRecibe ==
  ASSUME Invariante, Invariante', Recibe
  PROVE  Fiel' /\ Permitido
  <1>1. op'.paso = "atender"
    BY DEF Recibe, Reposo
  <1>2. /\ op = Reposo /\ leidos' = NULL /\ previo' = Contenido
        /\ UNCHANGED <<disco, fcb_list, BLOQUES, promesa>>
    BY DEF Recibe, SinDisco
  <1>3. op'.paso = "atender" /\ op'.pedido \in Pedidos
    BY <1>1 DEF Invariante, Tipo, Atendido, EnCurso, Servicio
  <1>4. Suyo'
    BY <1>2, <1>3 DEF Suyo
  <1>5. Fiel'
    <2>1. promesa' => previo' = Archivados(disco', BLOQUES')
      BY <1>2, Antiguos
    <2>2. QED
      BY <1>3, <1>4, <2>1, FielQuieto DEF Quietos
  <1>6. /\ PedidoVisto = NULL /\ PedidoVisto' # NULL /\ PedidoVisto'.nombre \in Nombres
        /\ Vistos' = Vistos
    BY <1>2, <1>3, Visto, PedidoNoNulo DEF EnCurso
  <1>7. QED
    BY <1>2, <1>5, <1>6, EsPide DEF Permitido

LEMMA FielCrearAbre ==
  ASSUME Invariante, Fiel, CrearAbre
  PROVE  Fiel' /\ Permitido
  <1>1. /\ op.paso = "atender" /\ op.pedido.op = "IO_FS_CREATE"
        /\ op' = [op EXCEPT !.paso = "asignar"]
        /\ disco' = [disco EXCEPT ![op.pedido.nombre] = SinClaves]
        /\ promesa' = (promesa /\ obtener_fcb_por_nombre(op.pedido.nombre) = 0)
        /\ UNCHANGED <<BLOQUES, leidos, previo>>
    BY DEF CrearAbre, Atiende, Avanza, Rompe
  <1>2. op \in Servicio /\ op.paso \in EnCurso
    BY <1>1, EnServicio DEF EnCurso
  <1>3. op'.paso = "asignar" /\ op'.pedido = op.pedido
    BY <1>1, <1>2, SigueServicio DEF EnCurso
  <1>4. Suyo'
    BY <1>1, <1>2, <1>3 DEF Fiel, Suyo
  <1>5. ASSUME promesa'
        PROVE  previo' = Archivados(disco', BLOQUES')
    <2>1. promesa /\ obtener_fcb_por_nombre(op.pedido.nombre) = 0
      BY <1>1, <1>5
    <2>2. previo = Archivados(disco, BLOQUES)
      BY <1>1, <2>1 DEF Fiel, Quietos
    <2>3. disco[op.pedido.nombre] \in {NULL, SinClaves}
      BY <1>2, <2>1, EnServicio, Sabido, SinFcb
    <2>4. Archivados(disco', BLOQUES) = Archivados(disco, BLOQUES)
      BY <1>1, <1>2, <2>3, EnServicio, SinArchivo
    <2>5. QED
      BY <1>1, <2>2, <2>4
  <1>6. Fiel'
    BY <1>3, <1>4, <1>5, FielQuieto DEF Quietos
  <1>7. Permitido
    <2>1. op'.paso \in EnCurso /\ promesa' \in {promesa, FALSE}
      BY <1>1, <1>2, <1>3, EnServicio DEF EnCurso
    <2>2. QED
      BY <1>1, <1>2, <1>3, <2>1, Sigue
  <1>8. QED
    BY <1>6, <1>7

LEMMA FielCrearAsigna ==
  ASSUME Invariante, Fiel, CrearAsigna
  PROVE  Fiel' /\ Permitido
  <1>1. /\ op.paso = "asignar"
        /\ op' = [op EXCEPT !.paso = "escribir", !.inicial = buscar_bloque_libre(BLOQ_BITMAP)]
        /\ UNCHANGED <<disco, BLOQUES, leidos, previo, promesa>>
    BY DEF CrearAsigna
  <1>2. op \in Servicio /\ op.paso \in EnCurso
    BY <1>1, EnServicio DEF EnCurso
  <1>3. op'.paso = "escribir" /\ op'.pedido = op.pedido
    BY <1>1, <1>2 DEF Servicio
  <1>4. Suyo'
    BY <1>1, <1>2, <1>3 DEF Fiel, Suyo
  <1>5. promesa' => previo' = Archivados(disco', BLOQUES')
    BY <1>1 DEF Fiel, Quietos
  <1>6. Fiel'
    BY <1>3, <1>4, <1>5, FielQuieto DEF Quietos
  <1>7. Permitido
    BY <1>1, <1>2, <1>3, Sigue DEF EnCurso
  <1>8. QED
    BY <1>6, <1>7

\* A new file is empty.
LEMMA Vacio ==
  ASSUME NEW b \in Bloques, NEW B \in [Bytes -> Valores]
  PROVE  Leido([bloque |-> b, tam |-> 0], B) = <<>>
  <1>1. PICK c \in ConKeys : c = [bloque |-> b, tam |-> 0]
    BY DEF ConKeys
  <1>2. Leido(c, B) = Trecho(B, Inicio(c), 0)
    BY <1>1, EsLeido
  <1>3. Inicio(c) \in Int
    BY ConLlaves
  <1>4. Trecho(B, Inicio(c), 0) \in Seq(Valores) /\ Len(Trecho(B, Inicio(c), 0)) = 0
    BY <1>3, EsTrecho
  <1>5. QED
    BY <1>1, <1>2, <1>4, EmptySeq

LEMMA FielCrearEscribe ==
  ASSUME Invariante, Invariante', Fiel, CrearEscribe
  PROVE  Fiel' /\ Permitido
  <1> DEFINE n == op.pedido.nombre
  <1>1. /\ op.paso = "escribir" /\ op' = Reposo
        /\ disco' = [disco EXCEPT ![n] = [bloque |-> op.inicial, tam |-> 0]]
        /\ UNCHANGED <<BLOQUES, leidos, promesa>>
    BY DEF CrearEscribe, Responde
  <1>2. op.paso \in EnCurso /\ op.inicial \in Bloques
    BY <1>1 DEF EnCurso, Invariante, Tipo, Atendido
  <1>3. op.pedido # NULL /\ n \in Nombres /\ disco \in Directorios /\ promesa \in BOOLEAN
        /\ Discos /\ BLOQUES \in [Bytes -> Valores]
    BY <1>2, EnServicio
  <1>4. leidos' = NULL /\ op.pedido.op = "IO_FS_CREATE"
    BY <1>1, <1>2 DEF Fiel, Suyo
  <1>5. CASE promesa = FALSE
    BY <1>1, <1>5, FielReposo, Rota DEF Permitido
  <1>6. CASE promesa = TRUE
    <2>1. Vistos = Archivados(disco, BLOQUES)
      BY <1>1, <1>2, <1>6, Visto DEF Fiel, Quietos
    <2>2. Vistos' = Archivados(disco', BLOQUES)
      BY <1>1, <1>6, Nuevos, Visto
    <2>3. obtener_fcb_por_nombre(n) = 0 /\ Espejo(fcb_list, disco)
      BY <1>1, <1>6 DEF Invariante, Guarda
    <2>4. disco[n] \in {NULL, SinClaves}
      BY <1>3, <2>3, SinFcb
    <2>5. Archivados(disco, BLOQUES)[n] = NULL
      BY <1>3, <2>4 DEF Archivados, Leido
    <2>6. Vistos' = [Vistos EXCEPT ![n] = <<>>]
      <3>1. PICK c : c = [bloque |-> op.inicial, tam |-> 0] /\ Leido(c, BLOQUES) = <<>>
        BY <1>2, <1>3, Vacio
      <3>2. disco' = [disco EXCEPT ![n] = c]
        BY <1>1, <3>1
      <3>3. n \in Nombres /\ disco \in Directorios /\ Leido(c, BLOQUES) = <<>>
        BY <1>3, <3>1
      <3>4. Archivados(disco', BLOQUES) = [Archivados(disco, BLOQUES) EXCEPT ![n] = <<>>]
        BY <3>2, <3>3 DEF Archivados, Directorios
      <3>5. QED
        BY <2>1, <2>2, <3>4, Zenon
    <2>7. PedidoVisto = op.pedido /\ PedidoVisto' = NULL
      BY <1>1, <1>2, Visto
    <2>8. Vistos[n] = NULL
      BY <2>1, <2>5
    <2>9. LosArchivos!Next
      BY <1>1, <1>3, <1>4, <2>6, <2>7, <2>8, EsCrear
    <2>10. QED
      BY <1>1, <2>9, FielReposo DEF Permitido
  <1>7. QED
    BY <1>3, <1>5, <1>6

LEMMA FielEliminar ==
  ASSUME Invariante, Invariante', Fiel,
         eliminar_bloques_ocupados_por_archivo \/ EliminarRemueve
  PROVE  Fiel' /\ Permitido
  <1> DEFINE n == op.pedido.nombre
  <1>1. CASE eliminar_bloques_ocupados_por_archivo
    <2>1. /\ op.paso = "atender" /\ op.pedido.op = "IO_FS_DELETE"
          /\ op' = [op EXCEPT !.paso = "remover"] /\ Legible(obtener_fcb_por_nombre(n))
          /\ UNCHANGED <<disco, fcb_list, BLOQUES, leidos, previo, promesa>>
      BY <1>1 DEF eliminar_bloques_ocupados_por_archivo, Atiende, Avanza
    <2>2. op \in Servicio /\ op.paso \in EnCurso
      BY <2>1, EnServicio DEF EnCurso
    <2>3. op'.paso = "remover" /\ op'.pedido = op.pedido
      BY <2>1, <2>2, SigueServicio DEF EnCurso
    <2>4. Suyo'
      BY <2>1, <2>2, <2>3 DEF Fiel, Suyo
    <2>5. promesa' => previo' = Archivados(disco', BLOQUES')
      BY <2>1 DEF Fiel, Quietos
    <2>6. Legible(obtener_fcb_por_nombre(op.pedido.nombre))'
      BY <2>1, <2>3, MismaLista DEF Legible
    <2>7. Fiel'
      BY <2>3, <2>4, <2>5, <2>6 DEF Fiel
    <2>8. Permitido
      BY <2>1, <2>2, <2>3, Sigue DEF EnCurso
    <2>9. QED
      BY <2>7, <2>8
  <1>2. CASE EliminarRemueve
    <2>1. /\ op.paso = "remover" /\ op' = Reposo /\ UNCHANGED <<BLOQUES, leidos, promesa>>
          /\ disco[n] # NULL => disco' = [disco EXCEPT ![n] = NULL]
      BY <1>2 DEF EliminarRemueve, Responde
    <2>2. op.paso \in EnCurso
      BY <2>1 DEF EnCurso
    <2>3. op.pedido # NULL /\ n \in Nombres /\ disco \in Directorios /\ promesa \in BOOLEAN
          /\ Discos /\ BLOQUES \in [Bytes -> Valores]
      BY <2>2, EnServicio
    <2>4. leidos' = NULL /\ op.pedido.op = "IO_FS_DELETE"
      BY <2>1, <2>2 DEF Fiel, Suyo
    <2>5. CASE promesa = FALSE
      BY <2>1, <2>5, FielReposo, Rota DEF Permitido
    <2>6. CASE promesa = TRUE
      <3>1. Vistos = Archivados(disco, BLOQUES) /\ Legible(obtener_fcb_por_nombre(n))
        BY <2>1, <2>2, <2>6, Visto DEF Fiel, Quietos
      <3>2. Vistos' = Archivados(disco', BLOQUES)
        BY <2>1, <2>6, Nuevos, Visto
      <3>3. disco[n] \in ConKeys
        BY <2>3, <2>6, <3>1, Sabido, ConFcb
      <3>4. disco[n] # NULL /\ Leido(disco[n], BLOQUES) # NULL
        BY <2>3, <3>3, ConLlaves, EsLeido
      <3>5. Leido(NULL, BLOQUES) = NULL
        BY DEF Leido
      <3>6. Vistos[n] # NULL /\ Vistos' = [Vistos EXCEPT ![n] = NULL]
        <4>0. Archivados(disco, BLOQUES)[n] = Leido(disco[n], BLOQUES)
          BY <2>3 DEF Archivados
        <4>1. PICK c : c = NULL /\ Leido(c, BLOQUES) = NULL
          BY <3>5
        <4>2. disco' = [disco EXCEPT ![n] = c]
          BY <2>1, <3>4, <4>1
        <4>3. n \in Nombres /\ disco \in Directorios /\ Leido(c, BLOQUES) = NULL
          BY <2>3, <4>1
        <4>4. Archivados(disco', BLOQUES) = [Archivados(disco, BLOQUES) EXCEPT ![n] = NULL]
          BY <4>2, <4>3 DEF Archivados, Directorios
        <4>5. QED
          BY <3>1, <3>2, <3>4, <4>0, <4>4, Zenon
      <3>7. PedidoVisto = op.pedido /\ PedidoVisto' = NULL
        BY <2>1, <2>2, Visto
      <3>8. LosArchivos!Next
        BY <2>1, <2>3, <2>4, <3>6, <3>7, EsEliminar
      <3>9. QED
        BY <2>1, <3>8, FielReposo DEF Permitido
    <2>7. QED
      BY <2>3, <2>5, <2>6
  <1>3. QED
    BY <1>1, <1>2

\* The refusals, and the requests that kill the process.
LEMMA FielRechazo ==
  ASSUME Invariante, Invariante', Fiel,
         CrearSinLugar \/ TruncarSinLugar \/ EliminarMuere \/ AccesoMuere
  PROVE  Fiel' /\ Permitido
  <1>1. CASE CrearSinLugar \/ TruncarSinLugar
    <2>1. /\ op.paso \in {"asignar", "truncar"} /\ op' = Reposo
          /\ UNCHANGED <<disco, BLOQUES, leidos, promesa>>
      BY <1>1 DEF CrearSinLugar, TruncarSinLugar, Responde, SinDisco
    <2>2. QED
      BY <2>1, Rechazo DEF Quietos, EnCurso, DeTruncar
  <1>2. CASE EliminarMuere \/ AccesoMuere
    <2>1. /\ op.paso = "atender" /\ op' = Caido(op.pedido, promesa)
          /\ UNCHANGED <<disco, BLOQUES, leidos, previo, promesa>>
      BY <1>2 DEF EliminarMuere, AccesoMuere, Atiende, Muere, SinDisco
    <2>2. promesa' => previo' = Archivados(disco', BLOQUES')
      BY <2>1 DEF Fiel, Quietos
    <2>3. QED
      BY <2>1, <2>2, Corta DEF EnCurso
  <1>3. QED
    BY <1>1, <1>2

LEMMA FielCompactarMuere ==
  ASSUME Invariante, Fiel, CompactarMuere
  PROVE  Fiel' /\ Permitido
  <1>1. /\ op.paso = "compactar" /\ op' = Caido(op.pedido, promesa) /\ promesa' = FALSE
        /\ UNCHANGED <<leidos, previo>>
    BY DEF CompactarMuere, Muere, Rompe
  <1>2. QED
    BY <1>1, Corta DEF EnCurso, DeTruncar

\* A fall at any step, and the start on what it left.
LEMMA FielCae ==
  ASSUME Invariante, Fiel, Cae
  PROVE  Fiel' /\ Permitido
  <1>1. /\ op' = Caido(NULL, promesa) /\ UNCHANGED <<disco, BLOQUES, leidos>>
        /\ op.paso # "caido" /\ previo' = IF op = Reposo THEN Contenido ELSE previo
        /\ promesa' = (promesa /\ op.paso \notin {"remover", "guardar", "marcar", "compactar"})
    BY DEF Cae, Rompe
  <1>2. CASE op = Reposo
    <2>1. previo' = Contenido /\ promesa' = promesa /\ op'.paso = "caido"
      <3>1. promesa \in BOOLEAN /\ op.paso = "recibir"
        BY <1>2 DEF Invariante, Tipo, Discos, Reposo
      <3>2. previo' = Contenido /\ op'.paso = "caido"
        BY <1>1, <1>2 DEF Caido
      <3>3. QED
        BY <1>1, <3>1, <3>2
    <2>2. promesa' => previo' = Archivados(disco', BLOQUES')
      BY <1>1, <2>1, Antiguos
    <2>3. Fiel'
      BY <1>1, <2>2, FielCaido
    <2>4. UNCHANGED <<Vistos, PedidoVisto, leidos, promesa>>
      BY <1>1, <1>2, <2>1, Visto
    <2>5. QED
      BY <2>3, <2>4 DEF Permitido
  <1>3. CASE op # Reposo
    <2>1. op.paso \in EnCurso
      BY <1>1, <1>3 DEF Invariante, Tipo, Atendido
    <2>2. previo' = previo /\ promesa' \in {promesa, FALSE}
      BY <1>1, <1>3, <2>1, EnServicio
    <2>3. promesa' => previo' = Archivados(disco', BLOQUES')
      <3>1. promesa' => promesa /\ op.paso \in Quietos
        BY <1>1, <2>1 DEF Quietos, EnCurso, DeTruncar
      <3>2. QED
        BY <1>1, <2>2, <3>1 DEF Fiel
    <2>4. QED
      BY <1>1, <2>1, <2>2, <2>3, Corta
  <1>4. QED
    BY <1>2, <1>3

LEMMA FielInicializa ==
  ASSUME Invariante, Invariante', Fiel, inicializar_filesystem
  PROVE  Fiel' /\ Permitido
  <1>1. /\ op.paso = "caido" /\ op' = Reposo
        /\ UNCHANGED <<disco, BLOQUES, leidos, promesa>>
    BY DEF inicializar_filesystem
  <1>2. promesa \in BOOLEAN /\ Fiel'
    BY <1>1, FielReposo DEF Invariante, Tipo, Discos
  <1>3. CASE promesa = FALSE
    BY <1>1, <1>2, <1>3, Rota DEF Permitido
  <1>4. CASE promesa = TRUE
    <2>1. Vistos = Archivados(disco, BLOQUES) /\ Vistos' = Archivados(disco', BLOQUES')
      BY <1>1, <1>4, Nuevos, Visto DEF Fiel, Quietos
    <2>2. UNCHANGED <<Vistos, PedidoVisto, leidos, promesa>>
      BY <1>1, <2>1, Visto
    <2>3. QED
      BY <1>2, <2>2 DEF Permitido
  <1>5. QED
    BY <1>2, <1>3, <1>4

\* fs_open adds an entry at most, and without keys.
LEMMA FielTruncarAbre ==
  ASSUME Invariante, Fiel, TruncarAbre
  PROVE  Fiel' /\ Permitido
  <1> DEFINE n == op.pedido.nombre
  <1>1. /\ op.paso = "atender" /\ UNCHANGED <<fcb_list, BLOQUES, leidos, previo, promesa>>
        /\ disco' = [disco EXCEPT ![n] = IF @ = NULL THEN SinClaves ELSE @]
        /\ \/ op' = Caido(op.pedido, promesa)
           \/ op' = [op EXCEPT !.paso = "truncar"]
    BY DEF TruncarAbre, Atiende, Avanza, Muere
  <1>2. op.paso \in EnCurso /\ op \in Servicio /\ n \in Nombres /\ disco \in Directorios
    BY <1>1, EnServicio DEF EnCurso
  <1>3. Archivados(disco', BLOQUES) = Archivados(disco, BLOQUES)
    <2>1. CASE disco[n] = NULL
      <3>1. disco' = [disco EXCEPT ![n] = SinClaves]
        BY <1>1, <1>2, <2>1 DEF Directorios
      <3>2. QED
        BY <1>2, <2>1, <3>1, SinArchivo
    <2>2. CASE disco[n] # NULL
      <3>1. disco' = disco
        BY <1>1, <1>2, <2>2 DEF Directorios
      <3>2. QED
        BY <3>1
    <2>3. QED
      BY <2>1, <2>2
  <1>4. promesa' => previo' = Archivados(disco', BLOQUES')
    BY <1>1, <1>3 DEF Fiel, Quietos
  <1>5. CASE op' = Caido(op.pedido, promesa)
    BY <1>1, <1>2, <1>4, <1>5, Corta
  <1>6. CASE op' = [op EXCEPT !.paso = "truncar"]
    <2>1. op'.paso = "truncar" /\ op'.pedido = op.pedido
      BY <1>2, <1>6, SigueServicio DEF EnCurso, DeTruncar
    <2>2. Suyo'
      BY <1>1, <1>2, <2>1 DEF Fiel, Suyo
    <2>3. Fiel'
      BY <1>4, <2>1, <2>2, FielQuieto DEF Quietos
    <2>4. Permitido
      BY <1>1, <1>2, <2>1, Sigue DEF EnCurso, DeTruncar
    <2>5. QED
      BY <2>3, <2>4
  <1>7. QED
    BY <1>1, <1>5, <1>6

LEMMA FielEnSuLugar ==
  ASSUME Invariante, Fiel, TruncarEnSuLugar
  PROVE  Fiel' /\ Permitido
  <1>1. /\ op.paso = "truncar" /\ op' = [op EXCEPT !.paso = "guardar", !.inicial = Config.bloque]
        /\ UNCHANGED <<disco, fcb_list, BLOQUES, leidos, previo, promesa>>
    BY DEF TruncarEnSuLugar
  <1>2. op.paso \in EnCurso /\ op \in Servicio
    BY <1>1, EnServicio DEF EnCurso, DeTruncar
  <1>3. op'.paso = "guardar" /\ op'.pedido = op.pedido /\ op'.inicial = Config.bloque
    BY <1>1, <1>2 DEF Servicio
  <1>4. Suyo'
    BY <1>1, <1>2, <1>3 DEF Fiel, Suyo
  <1>5. ATruncar' = ATruncar
    BY <1>1, <1>3, MismaLista DEF ATruncar
  <1>6. Config' = Config
    BY <1>1, <1>5 DEF Config
  <1>7. promesa' => previo' = Archivados(disco', BLOQUES')
    BY <1>1 DEF Fiel, Quietos
  <1>8. Fiel'
    BY <1>3, <1>4, <1>6, <1>7 DEF Fiel
  <1>9. Permitido
    BY <1>1, <1>2, <1>3, Sigue DEF EnCurso, DeTruncar
  <1>10. QED
    BY <1>8, <1>9

LEMMA FielCompacta ==
  ASSUME Invariante, Fiel, TruncarCompacta
  PROVE  Fiel' /\ Permitido
  <1>1. /\ op.paso = "truncar"
        /\ op' = [op EXCEPT !.paso = "compactar", !.i = 1, !.espacio = [b \in Bytes |-> 0]]
        /\ UNCHANGED <<disco, BLOQUES, leidos, previo, promesa>>
    BY DEF TruncarCompacta
  <1>2. op.paso \in EnCurso /\ op \in Servicio
    BY <1>1, EnServicio DEF EnCurso, DeTruncar
  <1>3. op'.paso = "compactar" /\ op'.pedido = op.pedido /\ op'.i - 1 = 0
    BY <1>1, <1>2 DEF Servicio
  <1>4. Suyo'
    BY <1>1, <1>2, <1>3 DEF Fiel, Suyo
  <1>5. Movidos(fcb_list', 0, disco', op'.espacio, BLOQUES') = Archivados(disco', BLOQUES')
    BY DEF Movidos, Archivados
  <1>6. promesa' => previo' = Archivados(disco', BLOQUES')
    BY <1>1 DEF Fiel, Quietos
  <1>7. Fiel'
    BY <1>3, <1>4, <1>5, <1>6 DEF Fiel, Quietos
  <1>8. Permitido
    BY <1>1, <1>2, <1>3, Sigue DEF EnCurso, DeTruncar
  <1>9. QED
    BY <1>7, <1>8

-----------------------------------------------------------------------------
(***************************************************************************)
(* The end of a truncate                                                   *)
(***************************************************************************)
LEMMA ATruncarEsta ==
  ASSUME Invariante, promesa, op.paso \in {"truncar", "guardar", "marcar"}
  PROVE  /\ disco[op.pedido.nombre] = Config /\ Config \in ConKeys
         /\ ATruncar \in 1 .. Len(fcb_list)
         /\ fcb_list[ATruncar].nombre = op.pedido.nombre
  <1>1. Discos /\ Espejo(fcb_list, disco) /\ ATruncar # 0 /\ Legible(ATruncar)
    BY Sabido DEF Invariante, Tipo, Atendido, DeTruncar
  <1>2. disco[op.pedido.nombre] = fcb_list[ATruncar].config /\ disco[op.pedido.nombre] \in ConKeys
    BY <1>1, ConFcb DEF ATruncar
  <1>3. ATruncar \in 1 .. Len(fcb_list) /\ fcb_list[ATruncar].nombre = op.pedido.nombre
    BY <1>1, Hallado DEF ATruncar, Discos
  <1>4. QED
    BY <1>2, <1>3 DEF Config

\* The file is found under its name before its size is saved, and with the
\* contents it had.
LEMMA FielGuarda ==
  ASSUME Invariante, Fiel, TruncarGuarda
  PROVE  Fiel' /\ Permitido
  <1>1. /\ op.paso = "guardar" /\ op' = [op EXCEPT !.paso = "marcar"]
        /\ set_campo_de_archivo(ATruncar, [bloque |-> op.inicial, tam |-> op.pedido.tam])
        /\ UNCHANGED <<BLOQUES, leidos, previo, promesa>>
    BY DEF TruncarGuarda, Avanza
  <1>2. op.paso \in EnCurso /\ op \in Servicio /\ disco \in Directorios
    BY <1>1, EnServicio DEF EnCurso, DeTruncar
  <1>3. op'.paso = "marcar" /\ op'.pedido = op.pedido /\ op'.inicial = op.inicial
    BY <1>1, <1>2, SigueServicio DEF EnCurso, DeTruncar
  <1>4. Suyo'
    BY <1>1, <1>2, <1>3 DEF Fiel, Suyo
  <1>5. ASSUME promesa'
        PROVE  \E t \in Nat :
                 previo' = Archivados([disco' EXCEPT ![op.pedido.nombre] =
                                         [bloque |-> op.inicial, tam |-> t]], BLOQUES')
    <2>1. promesa /\ previo = Archivados(disco, BLOQUES) /\ Config.bloque = op.inicial
      BY <1>1, <1>5 DEF Fiel, Quietos
    <2>2. PICK n, c, e : n = op.pedido.nombre /\ c = Config
                         /\ e = [bloque |-> op.inicial, tam |-> op.pedido.tam]
      OBVIOUS
    <2>3. /\ disco[n] = c /\ c \in ConKeys /\ fcb_list[ATruncar].nombre = n
      BY <1>1, <2>1, <2>2, ATruncarEsta
    <2>4. disco' = [disco EXCEPT ![n] = e]
      BY <1>1, <2>2, <2>3 DEF set_campo_de_archivo
    <2>5. [disco' EXCEPT ![n] = c] = disco
      BY <1>2, <2>3, <2>4 DEF Directorios
    <2>6. PICK t \in Nat : c = [bloque |-> op.inicial, tam |-> t]
      BY <2>1, <2>2, <2>3 DEF ConKeys
    <2>7. previo' = Archivados([disco' EXCEPT ![n] = c], BLOQUES')
      BY <1>1, <2>1, <2>5
    <2>8. QED
      BY <2>2, <2>6, <2>7
  <1>6. Fiel'
    BY <1>3, <1>4, <1>5 DEF Fiel, Quietos
  <1>7. Permitido
    BY <1>1, <1>2, <1>3, Sigue DEF EnCurso, DeTruncar
  <1>8. QED
    BY <1>6, <1>7

\* What stays of a file begins it.
LEMMA Empieza ==
  ASSUME NEW V, NEW x \in Seq(V), NEW y \in Seq(V), NEW l \in Nat, NEW m \in Nat,
         Largo(x) = l, Largo(y) = m, l <= m, \A k \in 1 .. l : x[k] = y[k]
  PROVE  IsPrefix(x, y)
  <1>1. PICK p \in Seq(V) : /\ p = Corte(x, 0, l) /\ Largo(p) = l
                            /\ \A j \in 1 .. l : p[j] = x[j]
    BY Principio
  <1>2. PICK q \in Seq(V) : /\ q = Corte(y, 0, l) /\ Largo(q) = l
                            /\ \A j \in 1 .. l : q[j] = y[j]
    BY Principio
  <1>3. p = q
    BY <1>1, <1>2, SeqEqual DEF Largo
  <1>4. SubSeq(x, 1, l) = SubSeq(y, 1, l)
    BY <1>1, <1>2, <1>3 DEF Corte
  <1>5. QED
    BY <1>4 DEF IsPrefix, Largo

LEMMA TrechoEmpieza ==
  ASSUME NEW B \in [Bytes -> Valores], NEW posicion \in Int, NEW t \in Nat, NEW u \in Nat
  PROVE  \/ IsPrefix(Trecho(B, posicion, t), Trecho(B, posicion, u))
         \/ IsPrefix(Trecho(B, posicion, u), Trecho(B, posicion, t))
  <1>1. ASSUME NEW l \in Nat, NEW m \in Nat, l <= m
        PROVE  IsPrefix(Trecho(B, posicion, l), Trecho(B, posicion, m))
    <2>1. PICK x, y : x = Trecho(B, posicion, l) /\ y = Trecho(B, posicion, m)
      OBVIOUS
    <2>2. /\ x \in Seq(Valores) /\ Largo(x) = l
          /\ \A k \in 1 .. l : x[k] = ByteDe(B, posicion + k - 1)
      BY <2>1, EsTrecho DEF Largo
    <2>3. /\ y \in Seq(Valores) /\ Largo(y) = m
          /\ \A k \in 1 .. m : y[k] = ByteDe(B, posicion + k - 1)
      BY <2>1, EsTrecho DEF Largo
    <2>4. \A k \in 1 .. l : x[k] = y[k]
      BY <1>1, <2>2, <2>3
    <2>5. IsPrefix(x, y)
      BY <1>1, <2>2, <2>3, <2>4, Empieza
    <2>6. QED
      BY <2>1, <2>5
  <1>2. t <= u \/ u <= t
    OBVIOUS
  <1>3. QED
    BY <1>1, <1>2

\* The file has its new size, and what it keeps.
LEMMA FielMarca ==
  ASSUME Invariante, Invariante', Fiel, TruncarMarca
  PROVE  Fiel' /\ Permitido
  <1>1. /\ op.paso = "marcar" /\ op' = Reposo /\ UNCHANGED <<disco, BLOQUES, leidos>>
        /\ promesa' = (promesa /\ ~(op.inicial + bloques_a_ocupar > block_count))
    BY DEF TruncarMarca, Responde, Rompe
  <1>2. op.paso \in EnCurso /\ op.inicial \in Bloques /\ op.pedido.op = "IO_FS_TRUNCATE"
    BY <1>1 DEF EnCurso, DeTruncar, Invariante, Tipo, Atendido
  <1>3. /\ op.pedido # NULL /\ op.pedido.nombre \in Nombres /\ disco \in Directorios
        /\ promesa \in BOOLEAN /\ BLOQUES \in [Bytes -> Valores]
        /\ op.pedido.tam \in Nat
    BY <1>2, EnServicio, PedidoEntero
  <1>4. leidos' = NULL
    BY <1>1, <1>2 DEF Fiel, Suyo
  <1>5. CASE promesa' = FALSE
    BY <1>1, <1>5, FielReposo, Rota DEF Permitido
  <1>6. CASE promesa' = TRUE
    <2>1. promesa = TRUE
      BY <1>1, <1>3, <1>6
    <2>2. PICK n, a, u, e : /\ n = op.pedido.nombre /\ a = op.inicial
                            /\ u = op.pedido.tam /\ e = [bloque |-> a, tam |-> u]
      OBVIOUS
    <2>3. PICK t \in Nat : previo = Archivados([disco EXCEPT ![n] = [bloque |-> a, tam |-> t]],
                                               BLOQUES)
      BY <1>1, <2>1, <2>2 DEF Fiel
    <2>c. PICK c : c = [bloque |-> a, tam |-> t]
      OBVIOUS
    <2>4. u \in Nat /\ c \in ConKeys /\ e \in ConKeys /\ n \in Nombres
      BY <1>2, <1>3, <2>2, <2>c DEF ConKeys
    <2>5. disco[n] = e
      BY <1>1, <2>1, <2>2, ATruncarEsta DEF Invariante, Guarda
    <2>6. PICK d : d = [disco EXCEPT ![n] = c]
      OBVIOUS
    <2>7. d \in Directorios /\ d[n] = c /\ disco = [d EXCEPT ![n] = e]
      BY <1>3, <2>4, <2>5, <2>6, ConLlaves DEF Directorios
    <2>8. Archivados(d, BLOQUES)[n] = Leido(c, BLOQUES)
      BY <2>4, <2>7 DEF Archivados
    <2>9. Archivados(disco, BLOQUES) = [Archivados(d, BLOQUES) EXCEPT ![n] = Leido(e, BLOQUES)]
      <3>1. n \in Nombres /\ d \in Directorios /\ disco = [d EXCEPT ![n] = e]
        BY <2>4, <2>7
      <3>2. QED
        BY <3>1 DEF Archivados, Directorios
    <2>10. Vistos = Archivados(d, BLOQUES)
      BY <1>2, <2>3, <2>c, <2>6, Visto
    <2>11. Vistos' = Archivados(disco, BLOQUES)
      BY <1>1, <1>6, Nuevos, Visto
    <2>12. PICK posicion \in Int : posicion = Inicio(c) /\ posicion = Inicio(e)
      BY <2>2, <2>c, <2>4, ConLlaves DEF Inicio
    <2>13. PICK x, s : x = Leido(c, BLOQUES) /\ s = Leido(e, BLOQUES)
      OBVIOUS
    <2>14. /\ x = Trecho(BLOQUES, posicion, t) /\ x # NULL
           /\ s = Trecho(BLOQUES, posicion, u) /\ s # NULL
      BY <1>3, <2>2, <2>c, <2>4, <2>12, <2>13, EsLeido
    <2>15. Len(s) = u /\ (IsPrefix(s, x) \/ IsPrefix(x, s))
      BY <1>3, <2>4, <2>14, EsTrecho, TrechoEmpieza
    <2>16. Vistos[n] = x /\ Vistos' = [Vistos EXCEPT ![n] = s]
      BY <2>7, <2>8, <2>9, <2>10, <2>11, <2>13
    <2>17. Vistos'[n] = s
      BY <2>4, <2>11, <2>5, <2>13 DEF Archivados
    <2>18. PedidoVisto = op.pedido /\ PedidoVisto' = NULL
      BY <1>1, <1>2, Visto
    <2>19. LosArchivos!Next
      BY <1>2, <1>3, <1>4, <1>6, <2>1, <2>2, <2>14, <2>15, <2>16, <2>17, <2>18, EsTruncar
    <2>20. QED
      BY <1>1, <2>19, FielReposo DEF Permitido
  <1>7. QED
    BY <1>1, <1>3, <1>5, <1>6

\* The device is written: every file of the list was copied, and the names
\* without FCB have no file.
LEMMA FielTermina ==
  ASSUME Invariante, Fiel, CompactarTermina
  PROVE  Fiel' /\ Permitido
  <1>1. /\ op.paso = "compactar" /\ op.i > Len(fcb_list) /\ BLOQUES' = op.espacio
        /\ op' = [op EXCEPT !.paso = "guardar", !.inicial = Config.bloque, !.i = 0,
                            !.espacio = <<>>]
        /\ UNCHANGED <<disco, fcb_list, leidos, previo, promesa>>
    BY DEF CompactarTermina
  <1>2. op.paso \in EnCurso /\ op \in Servicio /\ disco \in Directorios
        /\ fcb_list \in Seq(Fcb) /\ op.i \in 1 .. Len(fcb_list) + 1
    BY <1>1, EnServicio DEF EnCurso, DeTruncar, Invariante, Tipo, Atendido
  <1>3. op'.paso = "guardar" /\ op'.pedido = op.pedido /\ op'.inicial = Config.bloque
    BY <1>1, <1>2 DEF Servicio
  <1>4. Suyo'
    BY <1>1, <1>2, <1>3 DEF Fiel, Suyo
  <1>5. ATruncar' = ATruncar
    BY <1>1, <1>3, MismaLista DEF ATruncar
  <1>6. Config' = Config
    BY <1>1, <1>5 DEF Config
  <1>7. ASSUME promesa'
        PROVE  previo' = Archivados(disco', BLOQUES')
    <2>1. promesa /\ previo = Movidos(fcb_list, op.i - 1, disco, op.espacio, BLOQUES)
      BY <1>1, <1>7 DEF Fiel
    <2>2. Espejo(fcb_list, disco)
      BY <2>1, Sabido
    <2>3. PICK L \in Nat : L = Len(fcb_list) /\ DOMAIN fcb_list = 1 .. L /\ op.i - 1 = L
      <3>1. PICK L \in Nat : L = Len(fcb_list) /\ DOMAIN fcb_list = 1 .. L
        BY <1>2, Elementos
      <3>2. op.i - 1 = L
        BY <1>1, <1>2, <3>1
      <3>3. QED
        BY <3>1, <3>2
    <2>4. PICK e : e = op.espacio
      OBVIOUS
    <2>5. ASSUME NEW n \in Nombres
          PROVE  Leido(disco[n], IF \E k \in 1 .. L : fcb_list[k].nombre = n THEN e ELSE BLOQUES)
                   = Leido(disco[n], e)
      <3>1. CASE \E k \in 1 .. L : fcb_list[k].nombre = n
        BY <3>1
      <3>2. CASE ~\E k \in 1 .. L : fcb_list[k].nombre = n
        <4>1. disco[n] \in {NULL, SinClaves}
          BY <2>2, <2>3, <3>2 DEF Espejo
        <4>2. QED
          BY <4>1 DEF Leido
      <3>3. QED
        BY <3>1, <3>2
    <2>6. Movidos(fcb_list, L, disco, e, BLOQUES) = Archivados(disco, e)
      BY <2>5 DEF Movidos, Archivados
    <2>7. QED
      BY <1>1, <2>1, <2>3, <2>4, <2>6
  <1>8. Fiel'
    BY <1>3, <1>4, <1>6, <1>7 DEF Fiel
  <1>9. Permitido
    BY <1>1, <1>2, <1>3, Sigue DEF EnCurso, DeTruncar
  <1>10. QED
    BY <1>8, <1>9

-----------------------------------------------------------------------------
(***************************************************************************)
(* The bytes that a write touches, and the files where they are            *)
(***************************************************************************)
LEMMA Productos ==
  ASSUME NEW d \in Nat \ {0}, NEW x \in Int, NEW y \in Int
  PROVE  /\ x * d \in Int /\ (x + y) * d = x * d + y * d /\ (x + 1) * d = x * d + d
         /\ x <= y => x * d <= y * d
         /\ x * d < y * d => x < y
  <1>1. /\ x * d \in Int /\ (x + y) * d = x * d + y * d /\ (x + 1) * d = x * d + d
    OBVIOUS
  <1>2. ASSUME NEW u \in Int, NEW v \in Int, u <= v
        PROVE  u * d <= v * d
    <2>1. PICK w \in Nat : v = u + w
      <3>1. v - u \in Nat /\ v = u + (v - u)
        BY <1>2
      <3>2. QED
        BY <3>1
    <2>2. v * d = u * d + w * d /\ w * d >= 0
      BY <2>1
    <2>3. QED
      BY <2>2
  <1>3. x * d < y * d => x < y
    <2>1. CASE y <= x
      BY <1>2, <2>1
    <2>2. CASE ~(y <= x)
      BY <2>2
    <2>3. QED
      BY <2>1, <2>2
  <1>4. QED
    BY <1>1, <1>2, <1>3

LEMMA Division ==
  ASSUME NEW d \in Nat \ {0}, NEW x \in Nat
  PROVE  /\ x \div d \in Nat /\ (x \div d) * d <= x /\ x < (x \div d) * d + d
  OBVIOUS

\* Where a byte of a file is.
LEMMA Octetos ==
  ASSUME NEW c \in ConKeys, NEW j \in Nat, j < c.tam
  PROVE  /\ Inicio(c) + j \in Nat /\ (Inicio(c) + j) \div block_size \in Ocupa(c)
         /\ \A x \in Nat : Ocupa(c) \subseteq 0 .. x - 1 => Inicio(c) + j < x * block_size
  <1>1. PICK d \in Nat \ {0} : d = block_size
    BY DialFSOK
  <1>2. PICK a \in Nat, t \in Nat : a = c.bloque /\ t = c.tam
    BY ConLlaves
  <1>3. PICK q \in Nat : q = (t + d - 1) \div d
    <2>1. t + d - 1 \in Nat
      BY <1>1
    <2>2. QED
      BY <1>1, <2>1, Division
  <1>4. t <= q * d
    <2>1. PICK v \in Nat : v = t + d - 1
      OBVIOUS
    <2>2. v < q * d + d
      BY <1>1, <1>3, <2>1, Division
    <2>3. QED
      BY <1>1, <2>1, <2>2, Productos
  <1>5. Ocupa(c) = a .. a + q - 1
    <2>1. t # 0
      BY <1>2
    <2>2. QED
      BY <1>1, <1>2, <1>3, <2>1 DEF Ocupa, calcular_bloques_necesarios
  <1>6. Inicio(c) = a * d
    BY <1>1, <1>2 DEF Inicio, calcular_byte_inicial_de_bloque
  <1>7. PICK b \in Nat : b = a * d + j
    BY <1>1
  <1>8. PICK r \in Nat : r = b \div d /\ r * d <= b /\ b < r * d + d
    BY <1>1, <1>7, Division
  <1>9. r \in a .. a + q - 1
    <2>1. a * d < (r + 1) * d
      BY <1>1, <1>7, <1>8, Productos
    <2>2. r * d < (a + q) * d
      <3>1. r * d <= b /\ b = a * d + j /\ j < q * d
        BY <1>2, <1>4, <1>7, <1>8
      <3>2. (a + q) * d = a * d + q * d
        BY <1>1, Productos
      <3>3. r * d \in Int /\ a * d \in Int /\ q * d \in Int
        BY <1>1, Productos
      <3>4. QED
        BY <3>1, <3>2, <3>3
    <2>3. a < r + 1
      BY <1>1, <2>1, Productos
    <2>4. r < a + q
      BY <1>1, <2>2, Productos
    <2>5. QED
      BY <2>3, <2>4
  <1>10. ASSUME NEW x \in Nat, a .. a + q - 1 \subseteq 0 .. x - 1
         PROVE  b < x * d
    <2>1. r + 1 <= x
      <3>1. r \in 0 .. x - 1
        BY <1>9, <1>10, Zenon
      <3>2. QED
        BY <3>1
    <2>2. (r + 1) * d <= x * d
      BY <1>1, <2>1, Productos
    <2>3. (r + 1) * d = r * d + d /\ r * d \in Int /\ x * d \in Int
      BY <1>1, Productos
    <2>4. QED
      BY <1>1, <1>8, <2>2, <2>3
  <1>11. Inicio(c) + j = b
    BY <1>6, <1>7
  <1>12. (Inicio(c) + j) \div block_size = r
    BY <1>1, <1>8, <1>11
  <1>13. \A x \in Nat : Ocupa(c) \subseteq 0 .. x - 1 => b < x * block_size
    BY <1>1, <1>5, <1>10
  <1>14. QED
    BY <1>5, <1>9, <1>11, <1>12, <1>13

\* The device holds the blocks of its files.
LEMMA EnElDisco ==
  ASSUME NEW c \in ConKeys, NEW j \in Nat, j < c.tam, Ocupa(c) \subseteq Bloques
  PROVE  Inicio(c) + j \in Bytes
  <1>1. Inicio(c) + j \in Nat /\ Inicio(c) + j < block_count * block_size
    BY Octetos, DialFSOK DEF Bloques
  <1>2. QED
    BY <1>1, DialFSOK DEF Bytes, tam_filesystem

LEMMA IgualTrecho ==
  ASSUME NEW c \in ConKeys, NEW d \in ConKeys, c.tam = d.tam, NEW A, NEW B,
         \A j \in Nat : j < c.tam => ByteDe(A, Inicio(c) + j) = ByteDe(B, Inicio(d) + j)
  PROVE  Leido(c, A) = Leido(d, B)
  <1>1. PICK t \in Nat, x \in Int, y \in Int : t = c.tam /\ x = Inicio(c) /\ y = Inicio(d)
    BY ConLlaves
  <1>2. ASSUME NEW k \in 1 .. t
        PROVE  ByteDe(A, x + k - 1) = ByteDe(B, y + k - 1)
    <2>1. k - 1 \in Nat /\ k - 1 < t
      BY <1>2
    <2>2. ByteDe(A, x + (k - 1)) = ByteDe(B, y + (k - 1))
      BY <1>1, <2>1
    <2>3. QED
      BY <2>2
  <1>3. Trecho(A, x, t) = Trecho(B, y, t)
    BY <1>2 DEF Trecho
  <1>4. QED
    BY <1>1, <1>3, ConLlaves DEF Leido

\* A file out of the bytes written keeps its contents...
LEMMA Aparte ==
  ASSUME NEW c \in ConKeys, NEW e, NEW posicion, NEW datos,
         \A j \in Nat : j < c.tam =>
            ~(posicion <= Inicio(c) + j /\ Inicio(c) + j < posicion + Len(datos))
  PROVE  Leido(c, Pisa(e, posicion, datos)) = Leido(c, e)
  <1>1. PICK f : f = Pisa(e, posicion, datos)
    OBVIOUS
  <1>2. ASSUME NEW j \in Nat, j < c.tam
        PROVE  ByteDe(f, Inicio(c) + j) = ByteDe(e, Inicio(c) + j)
    BY <1>1, <1>2 DEF ByteDe, Pisa
  <1>3. QED
    BY <1>1, <1>2, IgualTrecho

\* ...a file copied somewhere else is there...
LEMMA Copia ==
  ASSUME NEW c \in ConKeys, NEW d \in ConKeys, c.tam = d.tam, Ocupa(d) \subseteq Bloques,
         NEW B \in [Bytes -> Valores], NEW e, NEW copia,
         copia = Pisa(e, Inicio(d), Trecho(B, Inicio(c), c.tam))
  PROVE  Leido(d, copia) = Leido(c, B)
  <1>1. PICK t \in Nat, x \in Int, y \in Int : t = c.tam /\ x = Inicio(c) /\ y = Inicio(d)
    BY ConLlaves
  <1>2. PICK datos : datos = Trecho(B, x, t)
    OBVIOUS
  <1>3. Len(datos) = t /\ \A k \in 1 .. t : datos[k] = ByteDe(B, x + k - 1)
    BY <1>2, EsTrecho
  <1>4. PICK f : f = Pisa(e, y, datos)
    OBVIOUS
  <1>5. ASSUME NEW j \in Nat, j < t
        PROVE  ByteDe(f, y + j) = ByteDe(B, x + j)
    <2>1. PICK b \in Int : b = y + j
      OBVIOUS
    <2>2. b \in Bytes
      BY <1>1, <1>5, <2>1, EnElDisco
    <2>3. f[b] = datos[b - y + 1]
      BY <1>3, <1>4, <1>5, <2>1, <2>2 DEF Pisa
    <2>4. b - y + 1 = j + 1 /\ j + 1 \in 1 .. t /\ x + (j + 1) - 1 = x + j
      BY <1>5, <2>1
    <2>5. datos[j + 1] = ByteDe(B, x + j)
      BY <1>3, <2>4
    <2>6. QED
      BY <2>1, <2>2, <2>3, <2>4, <2>5 DEF ByteDe
  <1>6. Leido(d, f) = Leido(c, B)
    BY <1>1, <1>5, IgualTrecho
  <1>7. QED
    BY <1>1, <1>2, <1>4, <1>6

\* ...and one written in place changes there alone.
LEMMA Escrito ==
  ASSUME NEW c \in ConKeys, NEW B \in [Bytes -> Valores], NEW p \in Nat, NEW m \in Nat,
         NEW datos, Len(datos) = m, (Inicio(c) + p) + m <= tam_filesystem
  PROVE  Leido(c, Pisa(B, Inicio(c) + p, datos))
           = [k \in DOMAIN Leido(c, B) |-> IF p < k /\ k <= p + m THEN datos[k - p]
                                           ELSE Leido(c, B)[k]]
  <1>1. PICK t \in Nat, x \in Nat : t = c.tam /\ x = Inicio(c)
    BY ConLlaves
  <1>2. PICK f, s : f = Pisa(B, x + p, datos) /\ s = Trecho(B, x, t)
    OBVIOUS
  <1>3. DOMAIN s = 1 .. t /\ \A k \in 1 .. t : s[k] = ByteDe(B, x + k - 1)
    BY <1>2, EsTrecho
  <1>4. ASSUME NEW k \in 1 .. t
        PROVE  ByteDe(f, x + k - 1) = IF p < k /\ k <= p + m THEN datos[k - p] ELSE s[k]
    <2>1. PICK b \in Nat : b = x + k - 1
      OBVIOUS
    <2>2. s[k] = ByteDe(B, b)
      BY <1>3, <2>1
    <2>3. p < k /\ k <= p + m <=> x + p <= b /\ b < (x + p) + m
      BY <2>1
    <2>4. CASE b \in Bytes
      <3>1. f[b] = IF x + p <= b /\ b < (x + p) + m THEN datos[b - (x + p) + 1] ELSE B[b]
        BY <1>2, <2>4 DEF Pisa
      <3>2. b - (x + p) + 1 = k - p
        BY <2>1
      <3>3. QED
        BY <2>1, <2>2, <2>3, <2>4, <3>1, <3>2 DEF ByteDe
    <2>5. CASE b \notin Bytes
      <3>1. ~(b < (x + p) + m)
        <4>1. ~(b < tam_filesystem)
          BY <2>5, DialFSOK DEF Bytes, tam_filesystem
        <4>2. tam_filesystem \in Int
          BY DialFSOK DEF tam_filesystem
        <4>3. QED
          BY <1>1, <4>1, <4>2
      <3>2. QED
        BY <2>1, <2>2, <2>3, <2>5, <3>1 DEF ByteDe
    <2>6. QED
      BY <2>4, <2>5
  <1>5. Trecho(f, x, t) = [k \in 1 .. t |-> IF p < k /\ k <= p + m THEN datos[k - p] ELSE s[k]]
    BY <1>4 DEF Trecho
  <1>6. Leido(c, f) = Trecho(f, x, t) /\ Leido(c, B) = s
    BY <1>1, <1>2, ConLlaves DEF Leido
  <1>7. QED
    BY <1>1, <1>2, <1>3, <1>5, <1>6

\* A write in its own blocks changes no other file.
LEMMA Intactos ==
  ASSUME Invariante, promesa, op.paso = "atender", NEW n \in Nombres,
         Legible(obtener_fcb_por_nombre(n)), NEW posicion \in Int, NEW datos,
         NEW m \in Nat, Len(datos) = m, ~Invade(obtener_fcb_por_nombre(n), posicion, m),
         NEW x \in Nombres, x # n
  PROVE  Leido(disco[x], Pisa(BLOQUES, posicion, datos)) = Leido(disco[x], BLOQUES)
  <1>1. PICK k : k = obtener_fcb_por_nombre(n)
    OBVIOUS
  <1>2. /\ Discos /\ fcb_list \in Seq(Fcb) /\ disco \in [Nombres -> Entrada \cup {NULL}]
        /\ Espejo(fcb_list, disco) /\ Reparto(fcb_list, BLOQ_BITMAP, perdidos, {}, 0)
    BY Sabido DEF Invariante, Tipo, Discos, Sueltos
  <1>3. /\ k \in DOMAIN fcb_list /\ fcb_list[k].nombre = n /\ k \in Vivos(fcb_list, 0)
    BY <1>1, <1>2, Hallado, Elementos DEF Legible, Vivos
  <1>4. CASE disco[x] \in {NULL, SinClaves}
    BY <1>4 DEF Leido
  <1>5. CASE disco[x] \notin {NULL, SinClaves}
    <2>1. PICK j \in DOMAIN fcb_list : fcb_list[j].nombre = x
      BY <1>2, <1>5 DEF Espejo
    <2>2. PICK c \in ConKeys : c = disco[x] /\ c = fcb_list[j].config /\ c # SinClaves
      BY <1>2, <1>5, <2>1, ConLlaves DEF Espejo
    <2>3. /\ j \in Vivos(fcb_list, 0) /\ j # k /\ Legible(j)
          /\ Ocupa(c) = De(fcb_list, j)
      BY <1>2, <1>3, <2>1, <2>2, Elementos DEF Vivos, De, Legible
    <2>4. De(fcb_list, j) \cap De(fcb_list, k) = {}
      BY <1>2, <1>3, <2>3 DEF Reparto
    <2>5. ASSUME NEW i \in Nat, i < c.tam,
                 posicion <= Inicio(c) + i, Inicio(c) + i < posicion + m
          PROVE  FALSE
      <3>1. PICK b \in Nat : b = Inicio(c) + i /\ b \div block_size \in Ocupa(c)
        BY <2>5, Octetos
      <3>2. b \in posicion .. posicion + m - 1
        BY <2>5, <3>1
      <3>3. b \div block_size \in Ocupa(fcb_list[k].config)
        BY <1>1, <2>1, <2>2, <2>3, <3>1, <3>2 DEF Invade
      <3>4. QED
        BY <2>3, <2>4, <3>1, <3>3 DEF De
    <2>6. Leido(c, Pisa(BLOQUES, posicion, datos)) = Leido(c, BLOQUES)
      BY <2>5, Aparte
    <2>7. QED
      BY <2>2, <2>6
  <1>6. QED
    BY <1>4, <1>5

\* A write or a read finds its file in the directory.
LEMMA AlAcceder ==
  ASSUME Invariante, Fiel, promesa, op.paso = "atender",
         op.pedido.op \in {"IO_FS_WRITE", "IO_FS_READ"},
         Legible(obtener_fcb_por_nombre(op.pedido.nombre))
  PROVE  \E n \in Nombres, c \in ConKeys, p \in Nat, t \in Nat \ {0} :
           /\ n = op.pedido.nombre /\ c = disco[n] /\ p = op.pedido.puntero
           /\ t = op.pedido.tam /\ t = peticiones_tam_total(op.pedido.peticiones)
           /\ Posicion(op.pedido) = Inicio(c) + p
           /\ Vistos[n] = Leido(c, BLOQUES) /\ Vistos[n] # NULL
  <1>1. op.paso \in EnCurso
    BY DEF EnCurso
  <1>2. /\ op.pedido \in Pedidos /\ op.pedido.nombre \in Nombres /\ Discos
        /\ Espejo(fcb_list, disco) /\ BLOQUES \in [Bytes -> Valores]
    BY <1>1, EnServicio, Sabido
  <1>3. PICK n \in Nombres : n = op.pedido.nombre
    BY <1>2
  <1>4. PICK c \in ConKeys : c = disco[n] /\ c = fcb_list[obtener_fcb_por_nombre(n)].config
    BY <1>2, <1>3, ConFcb
  <1>5. /\ op.pedido.peticiones \in Accesos /\ op.pedido.puntero \in Nat
        /\ op.pedido.tam = peticiones_tam_total(op.pedido.peticiones)
    BY <1>2, PedidoEntero
  <1>6. op.pedido.tam \in Nat \ {0}
    BY <1>5, AccesosOK
  <1>7. Posicion(op.pedido) = Inicio(c) + op.pedido.puntero
    BY <1>3, <1>4 DEF Posicion, Inicio
  <1>8. Vistos = Archivados(disco, BLOQUES)
    BY <1>1, Visto DEF Fiel, Quietos
  <1>9. Vistos[n] = Leido(c, BLOQUES) /\ Leido(c, BLOQUES) # NULL
    BY <1>2, <1>4, <1>8, EsLeido DEF Archivados
  <1>10. QED
    BY <1>3, <1>4, <1>5, <1>6, <1>7, <1>9

\* The FCB an access goes through says what the directory says.
LEMMA DelAcceso ==
  ASSUME Invariante, promesa, op.paso = "atender",
         NEW n \in Nombres, n = op.pedido.nombre,
         NEW c \in ConKeys, c = disco[n], Legible(obtener_fcb_por_nombre(n))
  PROVE  fcb_list[obtener_fcb_por_nombre(n)].config = c
  <1>1. op.paso \in EnCurso
    BY DEF EnCurso
  <1>2. Discos /\ Espejo(fcb_list, disco)
    BY <1>1, EnServicio, Sabido
  <1>3. \E d \in ConKeys : d = disco[n] /\ d = fcb_list[obtener_fcb_por_nombre(n)].config
    BY <1>2, ConFcb
  <1>4. QED
    BY <1>3

LEMMA FielEscribe ==
  ASSUME Invariante, Invariante', Fiel, escribir_archivo
  PROVE  Fiel' /\ Permitido
  <1>1. /\ op.paso = "atender" /\ op.pedido.op = "IO_FS_WRITE" /\ op' = Reposo
        /\ Legible(obtener_fcb_por_nombre(op.pedido.nombre))
        /\ UNCHANGED <<disco, leidos>>
    BY DEF escribir_archivo, Atiende, Responde
  <1>2. CASE ~Cabe(op.pedido)
    <2>1. UNCHANGED <<BLOQUES, promesa>>
      BY <1>2 DEF escribir_archivo
    <2>2. QED
      BY <1>1, <2>1, Rechazo DEF Quietos, EnCurso
  <1>3. CASE Cabe(op.pedido)
    <2> DEFINE fin == Append(op.pedido.datos, 0)
    <2>1. /\ BLOQUES' = Pisa(BLOQUES, Posicion(op.pedido), fin)
          /\ promesa' = (promesa /\ ~(\/ Invade(obtener_fcb_por_nombre(op.pedido.nombre),
                                                Posicion(op.pedido), op.pedido.tam + 1)
                                      \/ PisaUnoMas(obtener_fcb_por_nombre(op.pedido.nombre),
                                                    op.pedido)))
      BY <1>3 DEF escribir_archivo, Rompe
    <2>2. op.paso \in EnCurso
      BY <1>1 DEF EnCurso
    <2>3. /\ op.pedido # NULL /\ promesa \in BOOLEAN /\ leidos' = NULL
          /\ disco \in Directorios /\ BLOQUES \in [Bytes -> Valores]
      BY <1>1, <2>2, EnServicio DEF Fiel, Suyo
    <2>4. CASE promesa' = FALSE
      BY <1>1, <2>4, FielReposo, Rota DEF Permitido
    <2>5. CASE promesa' = TRUE
      <3>1. promesa = TRUE
        BY <2>1, <2>3, <2>5
      <3>2. PICK n \in Nombres, c \in ConKeys, p \in Nat, t \in Nat \ {0} :
              /\ n = op.pedido.nombre /\ c = disco[n] /\ p = op.pedido.puntero
              /\ t = op.pedido.tam /\ t = peticiones_tam_total(op.pedido.peticiones)
              /\ Posicion(op.pedido) = Inicio(c) + p
              /\ Vistos[n] = Leido(c, BLOQUES) /\ Vistos[n] # NULL
        BY <1>1, <3>1, AlAcceder
      <3>3. PICK datos : datos = fin
        OBVIOUS
      <3>4. Len(datos) = t + 1
        <4>1. op.pedido.datos \in Seq(Letras) /\ Len(op.pedido.datos) = t
          BY <1>1, <2>2, <3>2, EnServicio, PedidoEntero
        <4>2. QED
          BY <3>3, <4>1
      <3>5. PICK m \in Nat : m = t + 1
        OBVIOUS
      <3>6. PICK posicion \in Int : posicion = Inicio(c) + p
        BY ConLlaves
      <3>7. posicion + m <= tam_filesystem
        <4>1. Posicion(op.pedido) + op.pedido.tam + 1 <= tam_filesystem
          BY <1>3 DEF Cabe
        <4>2. (posicion + t) + 1 <= tam_filesystem
          BY <3>2, <3>6, <4>1
        <4>3. QED
          BY <3>5, <4>2
      <3>8. ~Invade(obtener_fcb_por_nombre(n), posicion, m)
        BY <2>1, <2>5, <3>2, <3>5, <3>6
      <3>9. BLOQUES' = Pisa(BLOQUES, posicion, datos)
        BY <2>1, <3>2, <3>3, <3>6
      <3>10. ASSUME NEW x \in Nombres, x # n
             PROVE  Leido(disco[x], BLOQUES') = Leido(disco[x], BLOQUES)
        BY <1>1, <3>1, <3>2, <3>4, <3>5, <3>8, <3>9, <3>10, Intactos
      <3>11. PICK s : s = [k \in DOMAIN Leido(c, BLOQUES) |->
                             IF p < k /\ k <= p + m THEN datos[k - p] ELSE Leido(c, BLOQUES)[k]]
        OBVIOUS
      <3>12. Leido(c, BLOQUES') = s
        BY <2>3, <3>4, <3>5, <3>6, <3>7, <3>9, <3>11, Escrito
      <3>13. Vistos = Archivados(disco, BLOQUES) /\ Vistos' = Archivados(disco, BLOQUES')
        BY <1>1, <2>2, <2>5, <3>1, Nuevos, Visto DEF Fiel, Quietos
      <3>14. Vistos' = [Vistos EXCEPT ![n] = s]
        BY <3>2, <3>10, <3>12, <3>13 DEF Archivados
      <3>15. PICK texto : texto = op.pedido.datos
        OBVIOUS
      <3>16. s = [k \in DOMAIN Vistos[n] |->
                    IF p < k /\ k <= p + Len(texto) THEN texto[k - p] ELSE Vistos[n][k]]
        <4>1. texto \in Seq(Letras) /\ Len(texto) = t
          BY <1>1, <2>2, <3>2, <3>15, EnServicio, PedidoEntero
        <4>2. /\ \A j \in 1 .. t : datos[j] = texto[j]
              /\ datos[t + 1] = 0
          BY <3>3, <3>15, <4>1
        <4>3. PICK u \in Nat, x \in Nat : u = c.tam /\ x = Inicio(c)
          BY ConLlaves
        <4>4. PICK v : v = Leido(c, BLOQUES)
          OBVIOUS
        <4>5. DOMAIN v = 1 .. u /\ \A k \in 1 .. u : v[k] = ByteDe(BLOQUES, x + k - 1)
          <5>1. v = Trecho(BLOQUES, x, u)
            BY <4>3, <4>4, ConLlaves DEF Leido
          <5>2. /\ DOMAIN Trecho(BLOQUES, x, u) = 1 .. u
                /\ \A k \in 1 .. u : Trecho(BLOQUES, x, u)[k] = ByteDe(BLOQUES, x + k - 1)
            BY <2>3, EsTrecho
          <5>3. QED
            BY <5>1, <5>2
        <4>6. p + t < u => v[p + t + 1] = 0
          <5>1. SUFFICES ASSUME p + t < u
                         PROVE  v[p + t + 1] = 0
            OBVIOUS
          <5>2. fcb_list[obtener_fcb_por_nombre(n)].config = c
            BY <1>1, <3>1, <3>2, DelAcceso
          <5>3. BLOQUES[(x + p) + t] = 0
            BY <2>1, <2>5, <3>2, <4>3, <5>1, <5>2 DEF PisaUnoMas
          <5>4. (x + p) + t \in Bytes
            <6>1. tam_filesystem \in Nat /\ Bytes = 0 .. tam_filesystem - 1
              BY DialFSOK DEF tam_filesystem, Bytes
            <6>2. posicion = x + p
              BY <3>6, <4>3
            <6>3. (x + p) + (t + 1) <= tam_filesystem
              BY <3>5, <3>7, <6>2
            <6>4. (x + p) + t \in 0 .. tam_filesystem - 1
              BY <6>1, <6>3
            <6>5. QED
              BY <6>1, <6>4
          <5>5. v[p + t + 1] = ByteDe(BLOQUES, x + (p + t + 1) - 1)
            BY <4>5, <5>1
          <5>6. x + (p + t + 1) - 1 = (x + p) + t
            OBVIOUS
          <5>7. QED
            BY <5>3, <5>4, <5>5, <5>6 DEF ByteDe
        <4>7. s = [k \in 1 .. u |-> IF p < k /\ k <= p + m THEN datos[k - p] ELSE v[k]]
          BY <3>11, <4>4, <4>5
        <4>8. ASSUME NEW k \in 1 .. u
              PROVE  s[k] = IF p < k /\ k <= p + t THEN texto[k - p] ELSE v[k]
          <5>1. CASE p < k /\ k <= p + t
            <6>1. k - p \in 1 .. t /\ k <= p + m
              BY <3>5, <5>1
            <6>2. QED
              BY <4>2, <4>7, <5>1, <6>1
          <5>2. CASE k = p + t + 1
            <6>1. k - p = t + 1 /\ p < k /\ k <= p + m /\ ~(k <= p + t) /\ p + t < u
              BY <3>5, <5>2
            <6>2. s[k] = datos[t + 1]
              BY <4>7, <6>1
            <6>3. QED
              BY <4>2, <4>6, <5>2, <6>1, <6>2
          <5>3. CASE ~(p < k) \/ k > p + t + 1
            <6>1. ~(p < k /\ k <= p + m) /\ ~(p < k /\ k <= p + t)
              BY <3>5, <5>3
            <6>2. QED
              BY <4>7, <6>1
          <5>4. QED
            BY <5>1, <5>2, <5>3
        <4>9. s = [k \in 1 .. u |-> IF p < k /\ k <= p + t THEN texto[k - p] ELSE v[k]]
          BY <4>7, <4>8
        <4>10. QED
          BY <3>2, <4>1, <4>4, <4>5, <4>9
      <3>17. PedidoVisto = op.pedido /\ PedidoVisto' = NULL
        BY <1>1, <2>2, Visto
      <3>18. LosArchivos!Next
        <4>1. /\ PedidoVisto # NULL /\ PedidoVisto' = NULL /\ leidos' = NULL
              /\ UNCHANGED promesa /\ PedidoVisto.op = "IO_FS_WRITE"
              /\ n = PedidoVisto.nombre /\ p = PedidoVisto.puntero
          BY <1>1, <2>3, <2>5, <3>1, <3>2, <3>17
        <4>2. texto = PedidoVisto.datos /\ Vistos[n] # NULL
          BY <3>2, <3>15, <3>17
        <4>3. Sobrescribe(Vistos, Vistos', n, p, texto)
          BY <3>14, <3>16, Zenon DEF Sobrescribe
        <4>4. QED
          BY <4>1, <4>2, <4>3, EsEscribir
      <3>19. QED
        BY <1>1, <3>18, FielReposo DEF Permitido
    <2>6. QED
      BY <2>1, <2>3, <2>4, <2>5
  <1>4. QED
    BY <1>2, <1>3

\* What memory receives is what the requests ask for, without the byte more.
Juntados(r) == FlattenSeq([k \in DOMAIN r |-> r[k].dato])

LEMMA SoloLoPedido ==
  ASSUME Invariante, op.paso = "atender", op.pedido.op = "IO_FS_READ",
         NEW t \in Nat \ {0}, t = peticiones_tam_total(op.pedido.peticiones),
         NEW datos \in Seq(Valores), Len(datos) = t + 1,
         NEW r, r = peticiones_distribuir_dato(op.pedido.peticiones, datos)
  PROVE  \E s \in Seq(Valores) :
           /\ s = Juntados(r) /\ Len(s) = t
           /\ \A k \in 1 .. t : s[k] = datos[k]
  <1>1. op.pedido.peticiones \in Accesos
    BY EnServicio, PedidoEntero DEF EnCurso
  <1>2. PICK a \in Accesos : a = op.pedido.peticiones
    BY <1>1
  <1>3. PICK V, D : V = Valores /\ D = t + 1
    OBVIOUS
  <1>4. D \in Nat /\ datos \in Seq(V) /\ Largo(datos) = D /\ t <= D
    BY <1>3 DEF Largo
  <1>5. FlattenSeq([k \in DOMAIN r |-> r[k].dato]) = Corte(datos, 0, t)
    BY <1>2, <1>4, Distribuye
  <1>6. /\ Corte(datos, 0, t) \in Seq(V) /\ Largo(Corte(datos, 0, t)) = t
        /\ \A k \in 1 .. t : Corte(datos, 0, t)[k] = datos[k]
    BY <1>4, Principio
  <1>7. QED
    BY <1>3, <1>5, <1>6 DEF Largo, Juntados

LEMMA FielLee ==
  ASSUME Invariante, Invariante', Fiel, leer_archivo
  PROVE  Fiel' /\ Permitido
  <1> DEFINE lee == IF Cabe(op.pedido) THEN LeeBloques(Posicion(op.pedido), op.pedido.tam + 1)
                    ELSE [k \in 1 .. op.pedido.tam + 1 |-> 0]
  <1>1. /\ op.paso = "atender" /\ op.pedido.op = "IO_FS_READ" /\ op' = Reposo
        /\ Legible(obtener_fcb_por_nombre(op.pedido.nombre))
        /\ UNCHANGED <<disco, BLOQUES, promesa>>
        /\ leidos' = LET r == peticiones_distribuir_dato(op.pedido.peticiones, lee)
                     IN  FlattenSeq([k \in DOMAIN r |-> r[k].dato])
    BY Zenon DEF leer_archivo, Atiende, SinDisco
  <1>2. op.paso \in EnCurso
    BY <1>1 DEF EnCurso
  <1>3. op.pedido # NULL /\ promesa \in BOOLEAN /\ BLOQUES \in [Bytes -> Valores]
    BY <1>2, EnServicio
  <1>4. CASE promesa = FALSE
    BY <1>1, <1>4, FielReposo, Rota DEF Permitido
  <1>5. CASE promesa = TRUE
    <2>1. PICK n \in Nombres, c \in ConKeys, p \in Nat, t \in Nat \ {0} :
            /\ n = op.pedido.nombre /\ c = disco[n] /\ p = op.pedido.puntero
            /\ t = op.pedido.tam /\ t = peticiones_tam_total(op.pedido.peticiones)
            /\ Posicion(op.pedido) = Inicio(c) + p
            /\ Vistos[n] = Leido(c, BLOQUES) /\ Vistos[n] # NULL
      BY <1>1, <1>5, AlAcceder
    <2>x. PICK x \in Nat : x = Inicio(c)
      BY ConLlaves
    <2>u. PICK u \in Nat : u = c.tam
      BY ConLlaves
    <2>m. PICK m \in Nat : m = t + 1 /\ \A k \in 1 .. t : k \in 1 .. m
      OBVIOUS
    <2>2. PICK datos : datos = lee
      OBVIOUS
    <2>3. /\ datos \in Seq(Valores) /\ Len(datos) = m
          /\ \/ \A k \in 1 .. t : datos[k] = 0
             \/ \A k \in 1 .. t : datos[k] = ByteDe(BLOQUES, (x + p) + k - 1)
      <3>1. CASE Cabe(op.pedido)
        <4>1. datos = Trecho(BLOQUES, x + p, m)
          BY <2>1, <2>x, <2>m, <2>2, <3>1 DEF LeeBloques, Byte, Trecho, ByteDe
        <4>2. /\ Trecho(BLOQUES, x + p, m) \in Seq(Valores)
              /\ Len(Trecho(BLOQUES, x + p, m)) = m
              /\ \A k \in 1 .. m : Trecho(BLOQUES, x + p, m)[k]
                                     = ByteDe(BLOQUES, (x + p) + k - 1)
          BY <1>3, EsTrecho
        <4>3. /\ datos \in Seq(Valores) /\ Len(datos) = m
              /\ \A k \in 1 .. m : datos[k] = ByteDe(BLOQUES, (x + p) + k - 1)
          BY <4>1, <4>2
        <4>4. QED
          BY <2>m, <4>3
      <3>2. CASE ~Cabe(op.pedido)
        <4>1. datos = [k \in 1 .. m |-> 0]
          BY <2>1, <2>m, <2>2, <3>2
        <4>2. 0 \in Valores
          BY DEF Valores
        <4>3. datos \in Seq(Valores) /\ Len(datos) = m /\ \A k \in 1 .. m : datos[k] = 0
          BY <4>1, <4>2
        <4>4. QED
          BY <2>m, <4>3
      <3>3. QED
        BY <3>1, <3>2
    <2>4. PICK s \in Seq(Valores) :
            s = leidos' /\ Len(s) = t /\ \A k \in 1 .. t : s[k] = datos[k]
      <3>1. PICK r : r = peticiones_distribuir_dato(op.pedido.peticiones, datos)
        OBVIOUS
      <3>2. leidos' = Juntados(r)
        BY <1>1, <2>2, <3>1 DEF Juntados
      <3>3. datos \in Seq(Valores) /\ Len(datos) = t + 1
        BY <2>m, <2>3
      <3>4. t = peticiones_tam_total(op.pedido.peticiones)
        BY <2>1
      <3>5. \E s \in Seq(Valores) :
              s = Juntados(r) /\ Len(s) = t /\ \A k \in 1 .. t : s[k] = datos[k]
        BY <1>1, <3>1, <3>3, <3>4, SoloLoPedido
      <3>6. QED
        BY <3>2, <3>5
    <2>5. s # NULL
      BY NullNoEsContenido DEF Valores
    <2>6. \/ \A k \in 1 .. t : s[k] = 0
          \/ \A k \in 1 .. t : p + k <= Len(Vistos[n]) => s[k] = Vistos[n][p + k]
      <3>1. CASE \A k \in 1 .. t : datos[k] = 0
        BY <2>4, <3>1
      <3>2. CASE \A k \in 1 .. t : datos[k] = ByteDe(BLOQUES, (x + p) + k - 1)
        <4>1. PICK v : v = Vistos[n]
          OBVIOUS
        <4>2. v = Trecho(BLOQUES, x, u)
          BY <1>3, <2>1, <2>x, <2>u, <4>1, EsLeido
        <4>3. Len(v) = u /\ \A k \in 1 .. u : v[k] = ByteDe(BLOQUES, x + k - 1)
          <5>1. /\ Len(Trecho(BLOQUES, x, u)) = u
                /\ \A k \in 1 .. u : Trecho(BLOQUES, x, u)[k] = ByteDe(BLOQUES, x + k - 1)
            <6>1. x \in Int /\ BLOQUES \in [Bytes -> Valores]
              BY <1>3
            <6>2. QED
              BY <6>1, EsTrecho
          <5>2. QED
            BY <4>2, <5>1
        <4>4. ASSUME NEW k \in 1 .. t, p + k <= u
              PROVE  s[k] = v[p + k]
          <5>1. p + k \in 1 .. u /\ x + (p + k) - 1 = (x + p) + k - 1
            BY <4>4
          <5>2. v[p + k] = ByteDe(BLOQUES, (x + p) + k - 1)
            BY <4>3, <5>1
          <5>3. QED
            BY <2>4, <3>2, <5>2
        <4>5. QED
          BY <4>1, <4>3, <4>4
      <3>3. QED
        BY <2>3, <3>1, <3>2
    <2>7. Vistos' = Vistos
      <3>1. Vistos = Archivados(disco, BLOQUES) /\ Vistos' = Archivados(disco', BLOQUES')
        BY <1>1, <1>2, <1>5, Nuevos, Visto DEF Fiel, Quietos
      <3>2. QED
        BY <1>1, <3>1
    <2>8. /\ PedidoVisto # NULL /\ PedidoVisto' = NULL /\ PedidoVisto.op = "IO_FS_READ"
          /\ n = PedidoVisto.nombre /\ p = PedidoVisto.puntero /\ t = PedidoVisto.tam
      BY <1>1, <1>2, <1>3, <2>1, Visto
    <2>9. leidos' # NULL /\ Entregado(leidos', Vistos[n], p, t)
      BY <2>4, <2>5, <2>6, Zenon DEF Entregado
    <2>10. LosArchivos!Next
      BY <1>1, <2>1, <2>7, <2>8, <2>9, EsLeer
    <2>11. QED
      BY <1>1, <2>10, FielReposo DEF Permitido
  <1>6. QED
    BY <1>3, <1>4, <1>5

\* One FCB of the compaction: its file is copied where the ones already moved
\* end, and what was copied before stays.
LEMMA Mudanza ==
  ASSUME Invariante, promesa, op.paso = "compactar", NEW i \in 1 .. Len(fcb_list), i = op.i,
         Legible(i), NEW c, c = fcb_list[i].config, NEW nuevo,
         nuevo = buscar_bloque_libre(BLOQ_BITMAP),
         NEW d, d = [bloque |-> nuevo, tam |-> c.tam],
         NEW e, e = Pisa(op.espacio, Inicio(d), Trecho(BLOQUES, Inicio(c), c.tam))
  PROVE  /\ Leido(d, e) = Leido(c, BLOQUES)
         /\ \A k \in 1 .. i - 1 :
              Leido(fcb_list[k].config, e) = Leido(fcb_list[k].config, op.espacio)
  <1>1. /\ fcb_list \in Seq(Fcb) /\ BLOQUES \in [Bytes -> Valores]
        /\ \A k \in 1 .. i - 1 : Legible(k)
    BY DEF Invariante, Tipo, Discos, Atendido, DeTruncar
  <1>2. PICK L \in Nat : L = Len(fcb_list) /\ DOMAIN fcb_list = 1 .. L /\ i \in 1 .. L
    BY <1>1, Elementos
  <1>3. PICK alto \in 0 .. block_count :
          BLOQ_BITMAP = 0 .. alto - 1 /\ Compacto(fcb_list, i, alto)
    BY DEF Invariante, Guarda
  <1>4. \A k \in 1 .. i : fcb_list[k].config \in ConKeys
    <2>1. ASSUME NEW k \in 1 .. i
          PROVE  fcb_list[k].config \in ConKeys
      <3>1. k \in 1 .. Len(fcb_list) /\ Legible(k)
        <4>1. k \in 1 .. i - 1 \/ k = i
          BY <1>2
        <4>2. k \in 1 .. L
          BY <1>2
        <4>3. QED
          BY <1>1, <1>2, <4>1, <4>2
      <3>2. fcb_list[k].config \in Entrada /\ fcb_list[k].config # SinClaves
        BY <1>1, <3>1, Elementos DEF Legible
      <3>3. QED
        BY <3>2, ConClaves, ConLlaves
    <2>2. QED
      BY <2>1
  <1>5. c \in ConKeys /\ c # SinClaves
    BY <1>2, <1>4, ConLlaves
  <1>6. /\ nuevo = alto /\ alto \in Bloques
        /\ alto + calcular_bloques_necesarios(c.tam) <= block_count
    <2>1. fcb_list[i].config # SinClaves
      BY <1>5
    <2>2. /\ alto + calcular_bloques_necesarios(fcb_list[i].config.tam) <= block_count
          /\ buscar_bloque_libre(0 .. alto - 1) = alto /\ alto \in Bloques
      BY <1>1, <1>2, <1>3, <2>1, HayLugar
    <2>3. QED
      BY <1>3, <2>2
  <1>7. d \in ConKeys /\ d.tam = c.tam /\ d.bloque = alto
    BY <1>5, <1>6, ConLlaves DEF ConKeys
  <1>8. Ocupa(d) \subseteq Bloques
    <2>1. PICK q \in Nat : q = calcular_bloques_necesarios(c.tam)
      BY <1>5, Necesarios, ConLlaves
    <2>2. Ocupa(d) = alto .. alto + q - 1
      BY <1>7, <2>1 DEF Ocupa
    <2>3. alto \in Nat /\ alto + q <= block_count
      BY <1>6, <2>1, Constantes
    <2>4. ASSUME NEW b \in alto .. alto + q - 1
          PROVE  b \in Bloques
      BY <2>3, Constantes
    <2>5. QED
      BY <2>2, <2>4
  <1>9. Leido(d, e) = Leido(c, BLOQUES)
    <2>1. PICK x \in ConKeys, y \in ConKeys, B \in [Bytes -> Valores] :
            x = c /\ y = d /\ B = BLOQUES
      BY <1>1, <1>5, <1>7
    <2>2. PICK f, g : f = op.espacio /\ g = e
      OBVIOUS
    <2>3. /\ x.tam = y.tam /\ Ocupa(y) \subseteq Bloques
          /\ g = Pisa(f, Inicio(y), Trecho(B, Inicio(x), x.tam))
      BY <1>7, <1>8, <2>1, <2>2
    <2>4. Leido(y, g) = Leido(x, B)
      BY <2>3, Copia
    <2>5. QED
      BY <2>1, <2>2, <2>4
  <1>10. ASSUME NEW k \in 1 .. i - 1
         PROVE  Leido(fcb_list[k].config, e) = Leido(fcb_list[k].config, op.espacio)
    <2>1. k \in 1 .. i
      BY <1>2
    <2>2. PICK f \in ConKeys : f = fcb_list[k].config
      BY <1>4, <2>1
    <2>3. Ocupa(f) \subseteq 0 .. alto - 1
      BY <1>3, <2>2 DEF Compacto, De
    <2>4. PICK datos : datos = Trecho(BLOQUES, Inicio(c), c.tam)
      OBVIOUS
    <2>5. Inicio(d) = alto * block_size
      BY <1>7 DEF Inicio, calcular_byte_inicial_de_bloque
    <2>6. ASSUME NEW j \in Nat, j < f.tam
          PROVE  ~(Inicio(d) <= Inicio(f) + j /\ Inicio(f) + j < Inicio(d) + Len(datos))
      <3>1. alto \in Nat
        OBVIOUS
      <3>2. Inicio(f) + j \in Nat /\ Inicio(f) + j < alto * block_size
        BY <2>3, <2>6, <3>1, Octetos
      <3>3. alto * block_size \in Int
        BY DialFSOK
      <3>4. QED
        BY <2>5, <3>2, <3>3
    <2>7. Leido(f, Pisa(op.espacio, Inicio(d), datos)) = Leido(f, op.espacio)
      BY <2>6, Aparte
    <2>8. QED
      BY <2>2, <2>4, <2>7
  <1>11. QED
    BY <1>9, <1>10

LEMMA FielMueve ==
  ASSUME Invariante, Fiel, compactar
  PROVE  Fiel' /\ Permitido
  <1> DEFINE c == fcb_list[op.i].config
             nuevo == buscar_bloque_libre(BLOQ_BITMAP)
             datos == LeeBloques(calcular_byte_inicial_de_bloque(c.bloque), c.tam)
             e == Pisa(op.espacio, calcular_byte_inicial_de_bloque(nuevo), datos)
  <1>1. /\ op.paso = "compactar" /\ op.i <= Len(fcb_list) /\ Legible(op.i)
        /\ set_campo_de_archivo(op.i, [c EXCEPT !.bloque = nuevo])
        /\ op' = [op EXCEPT !.i = op.i + 1, !.espacio = e]
        /\ UNCHANGED <<BLOQUES, leidos, previo, promesa>> /\ nuevo # -1
    BY DEF compactar
  <1>2. op.paso \in EnCurso /\ op \in Servicio /\ disco \in Directorios
        /\ fcb_list \in Seq(Fcb) /\ op.i \in 1 .. Len(fcb_list) + 1 /\ Discos
    BY <1>1, EnServicio DEF EnCurso, DeTruncar, Invariante, Tipo, Atendido
  <1>3. op'.paso = "compactar" /\ op'.pedido = op.pedido /\ op'.i = op.i + 1
        /\ op'.espacio = e
    BY <1>1, <1>2 DEF Servicio
  <1>4. Suyo'
    BY <1>1, <1>2, <1>3 DEF Fiel, Suyo
  <1>5. PICK L \in Nat, i \in Nat :
          /\ L = Len(fcb_list) /\ DOMAIN fcb_list = 1 .. L
          /\ i \in 1 .. L /\ i = op.i
    <2>1. PICK L \in Nat : L = Len(fcb_list) /\ DOMAIN fcb_list = 1 .. L
      BY <1>2, Elementos
    <2>2. op.i \in 1 .. L
      BY <1>1, <1>2, <2>1
    <2>3. QED
      BY <2>1, <2>2
  <1>6. c \in ConKeys /\ nuevo \in Bloques
    <2>1. c \in Entrada /\ c # SinClaves
      BY <1>1, <1>2, <1>5, Elementos DEF Legible
    <2>2. nuevo \in Bloques
      BY <1>1, BloqueLibre
    <2>3. QED
      BY <2>1, <2>2, ConClaves, ConLlaves
  <1>7. PICK d : d \in ConKeys /\ d = [bloque |-> nuevo, tam |-> c.tam]
                 /\ d = [c EXCEPT !.bloque = nuevo]
    <2> HIDE DEF c, nuevo
    <2>1. [bloque |-> nuevo, tam |-> c.tam] \in ConKeys
      BY <1>6 DEF ConKeys
    <2>2. [bloque |-> nuevo, tam |-> c.tam] = [c EXCEPT !.bloque = nuevo]
      BY <1>6 DEF ConKeys
    <2>3. QED
      BY <2>1, <2>2
  <1>8. e = Pisa(op.espacio, Inicio(d), Trecho(BLOQUES, Inicio(c), c.tam))
    BY <1>7 DEF Inicio, LeeBloques, Byte, Trecho, ByteDe
  <1>9. /\ Len(fcb_list') = Len(fcb_list)
        /\ \A j \in 1 .. Len(fcb_list) : fcb_list'[j].nombre = fcb_list[j].nombre
        /\ \A x \in Nombres : disco'[x] = IF x = fcb_list[i].nombre THEN d ELSE disco[x]
    <2>1. set_campo_de_archivo(i, d) /\ d \in [bloque : Bloques, tam : Nat]
      BY <1>1, <1>5, <1>7 DEF ConKeys
    <2>2. i \in 1 .. Len(fcb_list)
      BY <1>5
    <2>3. QED
      BY <1>2, <2>1, <2>2, Guardado
  <1>10. ASSUME promesa'
         PROVE  previo' = Movidos(fcb_list', i, disco', e, BLOQUES')
    <2>1. promesa /\ previo = Movidos(fcb_list, op.i - 1, disco, op.espacio, BLOQUES)
      BY <1>1, <1>10 DEF Fiel
    <2>2. PICK f, v : f = op.espacio /\ v = e
      OBVIOUS
    <2>3. Espejo(fcb_list, disco)
      BY <2>1, Sabido
    <2>4. /\ Leido(d, v) = Leido(c, BLOQUES)
          /\ \A k \in 1 .. i - 1 : Leido(fcb_list[k].config, v) = Leido(fcb_list[k].config, f)
      <3>1. PICK g, h : g = c /\ h = nuevo
        OBVIOUS
      <3>2. /\ op.paso = "compactar" /\ promesa
            /\ i \in 1 .. Len(fcb_list) /\ i = op.i /\ Legible(i)
        BY <1>1, <1>5, <2>1
      <3>3. /\ g = fcb_list[i].config /\ h = buscar_bloque_libre(BLOQ_BITMAP)
            /\ d = [bloque |-> h, tam |-> g.tam]
        BY <1>5, <1>7, <3>1
      <3>4. v = Pisa(op.espacio, Inicio(d), Trecho(BLOQUES, Inicio(g), g.tam))
        BY <1>8, <2>2, <3>1
      <3> HIDE DEF c, nuevo
      <3>5. /\ Leido(d, v) = Leido(g, BLOQUES)
            /\ \A k \in 1 .. i - 1 :
                 Leido(fcb_list[k].config, v) = Leido(fcb_list[k].config, op.espacio)
        BY <3>2, <3>3, <3>4, Mudanza
      <3>6. QED
        BY <2>2, <3>1, <3>5
    <2>5. \A k \in 1 .. i : k \in 1 .. L /\ (k = i \/ k \in 1 .. i - 1)
      BY <1>5
    <2>6. \A k \in 1 .. i - 1 : k \in 1 .. i /\ k # i
      BY <1>5
    <2>7. ASSUME NEW x \in Nombres
          PROVE  Leido(disco[x], IF \E k \in 1 .. i - 1 : fcb_list[k].nombre = x
                                 THEN f ELSE BLOQUES)
                   = Leido(disco'[x], IF \E k \in 1 .. i : fcb_list'[k].nombre = x
                                      THEN v ELSE BLOQUES)
      <3>1. CASE x = fcb_list[i].nombre
        <4>1. ~\E k \in 1 .. i - 1 : fcb_list[k].nombre = x
          BY <1>5, <2>3, <2>5, <2>6, <3>1 DEF Espejo
        <4>2. \E k \in 1 .. i : fcb_list'[k].nombre = x
          BY <1>5, <1>9, <3>1
        <4>3. disco[x] = fcb_list[i].config /\ disco'[x] = d
          BY <1>5, <1>9, <2>3, <3>1 DEF Espejo
        <4>4. QED
          BY <1>5, <2>4, <4>1, <4>2, <4>3
      <3>2. CASE \E k \in 1 .. i - 1 : fcb_list[k].nombre = x
        <4>1. PICK k \in 1 .. i - 1 : fcb_list[k].nombre = x
          BY <3>2
        <4>2. x # fcb_list[i].nombre
          BY <1>5, <2>3, <2>5, <2>6, <4>1 DEF Espejo
        <4>3. \E j \in 1 .. i : fcb_list'[j].nombre = x
          BY <1>5, <1>9, <2>5, <2>6, <4>1
        <4>4. disco[x] = fcb_list[k].config /\ disco'[x] = disco[x]
          BY <1>5, <1>9, <2>3, <2>5, <2>6, <4>1, <4>2 DEF Espejo
        <4>5. QED
          BY <2>4, <3>2, <4>1, <4>3, <4>4
      <3>3. CASE /\ x # fcb_list[i].nombre
                 /\ ~\E k \in 1 .. i - 1 : fcb_list[k].nombre = x
        <4>1. ~\E k \in 1 .. i : fcb_list'[k].nombre = x
          BY <1>5, <1>9, <2>5, <3>3
        <4>2. disco'[x] = disco[x]
          BY <1>9, <3>3
        <4>3. QED
          BY <3>3, <4>1, <4>2
      <3>4. QED
        BY <3>1, <3>2, <3>3
    <2>8. Movidos(fcb_list, i - 1, disco, f, BLOQUES)
            = Movidos(fcb_list', i, disco', v, BLOQUES)
      BY <2>7 DEF Movidos
    <2>9. QED
      BY <1>1, <1>5, <2>1, <2>2, <2>8
  <1>11. op'.i - 1 = i
    BY <1>3, <1>5
  <1>12. Fiel'
    BY <1>3, <1>4, <1>10, <1>11 DEF Fiel, Quietos
  <1>13. Permitido
    BY <1>1, <1>2, <1>3, Sigue DEF EnCurso, DeTruncar
  <1>14. QED
    BY <1>12, <1>13

-----------------------------------------------------------------------------
(***************************************************************************)
(* The refinement                                                          *)
(***************************************************************************)
LEMMA FielInicial == Init => Fiel /\ LosArchivos!Init
  <1> SUFFICES ASSUME Init PROVE Fiel /\ LosArchivos!Init
    OBVIOUS
  <1>1. /\ op = Reposo /\ op.paso = "recibir" /\ leidos = NULL /\ promesa = TRUE
        /\ disco = [n \in Nombres |-> NULL]
    BY DEF Init, Reposo
  <1>2. Fiel
    BY <1>1 DEF Fiel, Suyo, Quietos, EnCurso, DeTruncar
  <1>3. Vistos = [n \in Nombres |-> NULL]
    <2>1. Contenido = Archivados(disco, BLOQUES)
      BY <1>1, GuardaInicial, Antiguos
    <2>2. Archivados(disco, BLOQUES) = [n \in Nombres |-> NULL]
      BY <1>1 DEF Archivados, Leido
    <2>3. QED
      BY <1>1, <2>1, <2>2, Visto
  <1>4. PedidoVisto = NULL
    BY <1>1, Visto
  <1>5. LosArchivos!Init
    BY <1>1, <1>3, <1>4 DEF LosArchivos!Init, Vistos, PedidoVisto
  <1>6. QED
    BY <1>2, <1>5

LEMMA FielPaso ==
  ASSUME Invariante, Invariante', Fiel, [Next]_vars
  PROVE  Fiel' /\ Permitido
  <1>1. CASE UNCHANGED vars
    <2>1. /\ UNCHANGED <<disco, fcb_list, BLOQUES, leidos, previo, promesa>> /\ op' = op
      BY <1>1 DEF vars
    <2>2. /\ ATruncar' = ATruncar /\ Config' = Config
          /\ Legible(obtener_fcb_por_nombre(op.pedido.nombre))'
               = Legible(obtener_fcb_por_nombre(op.pedido.nombre))
      BY <2>1, MismaLista DEF ATruncar, Config, Legible
    <2>3. Fiel'
      BY <2>1, <2>2 DEF Fiel, Suyo
    <2>4. Contenido' = Contenido
      BY <2>1, MismoContenido
    <2>5. Permitido
      BY <2>1, <2>4 DEF Permitido, Vistos, PedidoVisto
    <2>6. QED
      BY <2>3, <2>5
  <1>2. CASE Next
    BY <1>2, FielRecibe, FielCrearAbre, FielCrearAsigna, FielCrearEscribe, FielEliminar,
       FielRechazo, FielCompactarMuere, FielCae, FielInicializa, FielTruncarAbre,
       FielEnSuLugar, FielCompacta, FielMueve, FielTermina, FielGuarda, FielMarca,
       FielEscribe, FielLee DEF Next
  <1>3. QED
    BY <1>1, <1>2

LEMMA PasoPermitido ==
  ASSUME Permitido
  PROVE  [LosArchivos!Next]_LosArchivos!archivosVars
  BY DEF Permitido, LosArchivos!archivosVars, Vistos, PedidoVisto

\* What filesystem.c, fs_blocks.c and fs_fcb.c do with blocks, a bitmap, entries
\* saved one by one and a compaction that moves every file is what Archivos says
\* of named files that hold bytes: each request is carried out whole or not at
\* all, touches only the file it names and reads what was written, also across a
\* fall and a restart, until a step breaks the promise.  For any names, programs,
\* blocks and block size.
THEOREM RefinaArchivos == Spec => ImplementaArchivos
  <1>1. Invariante /\ Invariante' /\ Fiel /\ [Next]_vars
          => Fiel' /\ [LosArchivos!Next]_LosArchivos!archivosVars
    BY FielPaso, PasoPermitido
  <1>2. QED
    BY <1>1, Invariancia, FielInicial, PTL DEF Spec, ImplementaArchivos, LosArchivos!Spec

=============================================================================
