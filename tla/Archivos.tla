------------------------------ MODULE Archivos ------------------------------
(***************************************************************************)
(* What the file system promises the programs: named files that hold the   *)
(* bytes written to them.  A request is carried out whole or not at all,   *)
(* touches only the file it names, and what is answered survives a         *)
(* restart.  The promise lasts until a step breaks it.                     *)
(***************************************************************************)
EXTENDS Integers, Sequences, SequencesExt

CONSTANTS Nombres, NULL

VARIABLES
  archivos,   \* the bytes of each file, NULL when there is no such file
  pedido,     \* the request being served, or NULL
  leidos,     \* the bytes the last request delivered to memory
  promesa

archivosVars == <<archivos, pedido, leidos, promesa>>

Existe(n) == archivos[n] # NULL
Queda(n, contenido) == archivos' = [archivos EXCEPT ![n] = contenido] /\ leidos' = NULL

\* A request for a file that does not exist is legal; nobody answers it.
Pide ==
  /\ pedido = NULL /\ pedido' # NULL /\ pedido'.nombre \in Nombres
  /\ leidos' = NULL /\ UNCHANGED archivos

\* A refusal, or a fall of the file system.
Abandona == pedido # NULL /\ pedido' = NULL /\ leidos' = NULL /\ UNCHANGED archivos

Crear(n) == ~Existe(n) /\ Queda(n, <<>>)
Eliminar(n) == Existe(n) /\ Queda(n, NULL)

\* What is added holds anything; what stays keeps its contents.
Truncar(n, tam) ==
  /\ Existe(n)
  /\ \E s \in {archivos'[n]} :
       /\ s # NULL /\ Len(s) = tam /\ (IsPrefix(s, archivos[n]) \/ IsPrefix(archivos[n], s))
       /\ Queda(n, s)

\* The bytes of the text and no others; the size does not change.
Escribir(n, puntero, texto) ==
  /\ Existe(n)
  /\ Queda(n, [k \in DOMAIN archivos[n] |->
                 IF puntero < k /\ k <= puntero + Len(texto) THEN texto[k - puntero]
                 ELSE archivos[n][k]])

\* What lies inside the file is the file's; a refusal is answered with zeros.
Leer(n, puntero, tam) ==
  /\ Existe(n) /\ leidos' # NULL /\ Len(leidos') = tam /\ UNCHANGED archivos
  /\ \/ \A k \in 1 .. tam :
          puntero + k <= Len(archivos[n]) => leidos'[k] = archivos[n][puntero + k]
     \/ \A k \in 1 .. tam : leidos'[k] = 0

Responde ==
  /\ pedido # NULL /\ pedido' = NULL
  /\ LET n == pedido.nombre
     IN  \/ pedido.op = "IO_FS_CREATE" /\ Crear(n)
         \/ pedido.op = "IO_FS_DELETE" /\ Eliminar(n)
         \/ pedido.op = "IO_FS_TRUNCATE" /\ Truncar(n, pedido.tam)
         \/ pedido.op = "IO_FS_WRITE" /\ Escribir(n, pedido.puntero, pedido.datos)
         \/ pedido.op = "IO_FS_READ" /\ Leer(n, pedido.puntero, pedido.tam)

Init ==
  /\ archivos = [n \in Nombres |-> NULL]
  /\ pedido = NULL /\ leidos = NULL /\ promesa = TRUE

Next == promesa' = FALSE \/ (UNCHANGED promesa /\ (Pide \/ Responde \/ Abandona))

Spec == Init /\ [][Next]_archivosVars

=============================================================================
