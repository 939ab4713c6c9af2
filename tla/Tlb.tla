-------------------------------- MODULE Tlb --------------------------------
(***************************************************************************)
(* The TLB (tlb.c) and the cut of an access into requests, page by page    *)
(* (mmu.c), as operators.  A TLB is its list of entries; the rest is       *)
(* history: how many insertions and how many uses (hits and insertions)    *)
(* there were, and for each entry when its last use was, as the number of  *)
(* uses before it ("ultimo") and of insertions before it ("previas").      *)
(***************************************************************************)
EXTENDS Integers, Sequences, SequencesExt

CONSTANT TamPagina    \* TAM_PAGINA, from the handshake with memory

Vacia == [lista |-> <<>>, inserciones |-> 0, usos |-> 0]

\* Defect: the page of any process will do.
EsEntrada_SinPid(pid, pagina, e) == e.pagina = pagina

EsEntrada(pid, pagina, e) == e.pid = pid /\ e.pagina = pagina
tlb_tiene_entrada(tlb, pid, pagina) ==
  \E k \in DOMAIN tlb.lista : EsEntrada(pid, pagina, tlb.lista[k])

Entrada(tlb, pid, pagina) == SelectInSeq(tlb.lista, LAMBDA e : EsEntrada(pid, pagina, e))

\* Defect: a hit leaves the entry as old as it was.
obtener_frame_tlb_SinUso(tlb, pid, pagina) ==
  LET k == Entrada(tlb, pid, pagina)
  IN  [tlb   |-> [tlb EXCEPT !.lista[k].ultimo = tlb.usos, !.lista[k].previas = tlb.inserciones,
                             !.usos = @ + 1],
       frame |-> tlb.lista[k].frame]

\* A hit makes the entry's age zero.
obtener_frame_tlb(tlb, pid, pagina) ==
  LET k == Entrada(tlb, pid, pagina)
  IN  [tlb   |-> [tlb EXCEPT !.lista[k].uso_tiempo = 0, !.lista[k].ultimo = tlb.usos,
                             !.lista[k].previas = tlb.inserciones, !.usos = @ + 1],
       frame |-> tlb.lista[k].frame]

tlb_entry_mayor_uso_tiempo(a, b) == IF a.uso_tiempo > b.uso_tiempo THEN a ELSE b

\* The greatest age; among equals, the last in the list.
VictimaLru(lista) == FoldLeft(tlb_entry_mayor_uso_tiempo, Head(lista), Tail(lista))

Reemplazar(lista, algoritmo) ==
  IF algoritmo = "FIFO" THEN Tail(lista) ELSE RemoveFirst(lista, VictimaLru(lista))

tlb_entry_crear(tlb, pid, pagina, frame) ==
  [pid |-> pid, pagina |-> pagina, frame |-> frame, uso_tiempo |-> 0,
   ultimo |-> tlb.usos, previas |-> tlb.inserciones]

\* Defect: there is room for one more than configured.
agregar_entrada_tlb_DeMas(tlb, pid, pagina, frame, entradas, algoritmo) ==
  LET quedan == IF Len(tlb.lista) <= entradas THEN tlb.lista
                ELSE Reemplazar(tlb.lista, algoritmo)
      nueva == Append(quedan, tlb_entry_crear(tlb, pid, pagina, frame))
  IN  [lista |-> [k \in DOMAIN nueva |-> [nueva[k] EXCEPT !.uso_tiempo = @ + 1]],
       inserciones |-> tlb.inserciones + 1, usos |-> tlb.usos + 1]

\* Every entry ages when one is added, the new one too.
agregar_entrada_tlb(tlb, pid, pagina, frame, entradas, algoritmo) ==
  LET quedan == IF Len(tlb.lista) < entradas THEN tlb.lista
                ELSE Reemplazar(tlb.lista, algoritmo)
      nueva == Append(quedan, tlb_entry_crear(tlb, pid, pagina, frame))
  IN  [lista |-> [k \in DOMAIN nueva |-> [nueva[k] EXCEPT !.uso_tiempo = @ + 1]],
       inserciones |-> tlb.inserciones + 1, usos |-> tlb.usos + 1]

-----------------------------------------------------------------------------
obtener_numero_pagina(dl) == dl \div TamPagina
obtener_offset(dl, pagina) == dl - pagina * TamPagina
cantidad_paginas_a_consultar(offset, tam) == (offset + tam + TamPagina - 1) \div TamPagina
min(a, b) == IF a < b THEN a ELSE b

PaginasConsultadas(dl, tam) ==
  LET n == obtener_numero_pagina(dl)
  IN  n .. n + cantidad_paginas_a_consultar(obtener_offset(dl, n), tam) - 1

\* How much of what is left falls in the i-th page.
BytesDelPaso(i, offset, tam) == min(tam, IF i = 0 THEN TamPagina - offset ELSE TamPagina)

\* consultar_tabla_de_paginas is given as the function marco.
mmu(tlb, pid, dl, tam, marco, entradas, algoritmo) ==
  LET inicial == obtener_numero_pagina(dl)
      offset == obtener_offset(dl, inicial)
      cantidad == cantidad_paginas_a_consultar(offset, tam)
      paso[i \in 0 .. cantidad] ==
        IF i = 0 THEN [tlb |-> tlb, peticiones |-> <<>>, tam |-> tam]
        ELSE LET antes == paso[i - 1]
                 pagina == inicial + i - 1
                 hit == obtener_frame_tlb(antes.tlb, pid, pagina)
                 esHit == tlb_tiene_entrada(antes.tlb, pid, pagina)
                 frame == IF esHit THEN hit.frame ELSE marco[pagina]
                 bytes == BytesDelPaso(i - 1, offset, antes.tam)
             IN  [tlb |-> IF esHit THEN hit.tlb
                          ELSE IF entradas = 0 THEN antes.tlb
                          ELSE agregar_entrada_tlb(antes.tlb, pid, pagina, frame, entradas,
                                                   algoritmo),
                  peticiones |-> Append(antes.peticiones,
                    [direccion_fisica |-> frame * TamPagina + (IF i = 1 THEN offset ELSE 0),
                     tam_dato |-> bytes]),
                  tam |-> antes.tam - bytes]
  IN  [tlb |-> paso[cantidad].tlb, peticiones |-> paso[cantidad].peticiones]

=============================================================================
