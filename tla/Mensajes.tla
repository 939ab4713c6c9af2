----------------------------- MODULE Mensajes -----------------------------
(***************************************************************************)
(* The messages the modules exchange (src/shared): what the sender puts in *)
(* a packet and what the receiver takes out of it.  A packet is the        *)
(* sequence of its fields; the receiver picks fields by position, so every *)
(* pair of functions below agrees on the order, on the presence flags and  *)
(* on the counts that precede the lists.  Field widths are the same on     *)
(* both sides and are abstracted.                                          *)
(***************************************************************************)
EXTENDS Naturals, Sequences

CONSTANT NULL   \* a NULL pointer

Paquete(codigo, campos) == [codigo |-> codigo, campos |-> campos]

\* commons' list_get counts from zero; past the end it returns NULL.
list_get(lista, i) == IF i < Len(lista) THEN lista[i + 1] ELSE NULL

-----------------------------------------------------------------------------
(***************************************************************************)
(* Lists: a count, then the elements                                       *)
(***************************************************************************)
serializar_lista_strings(tokens) == <<Len(tokens)>> \o tokens

deserializar_lista_strings(campos, i) ==
  [k \in 1 .. list_get(campos, i) |-> list_get(campos, i + k)]

\* The data of a request does not travel.
serializar_peticion_memoria(p) ==
  [direccion_fisica |-> p.direccion_fisica, tam_dato |-> p.tam_dato]

peticiones_empaquetar(peticiones) ==
  <<Len(peticiones)>> \o [k \in DOMAIN peticiones |->
                            serializar_peticion_memoria(peticiones[k])]

peticiones_desempaquetar_segun_index(campos, i) ==
  [k \in 1 .. list_get(campos, i) |-> list_get(campos, i + k)]

-----------------------------------------------------------------------------
(***************************************************************************)
(* The PCB: primitive data, registers, and the request of the last         *)
(* instruction when there is one                                           *)
(***************************************************************************)
Registros == <<"ax", "bx", "cx", "dx", "eax", "ebx", "ecx", "edx", "si", "di">>
Registro == {Registros[k] : k \in DOMAIN Registros}

serializar_registros(registros) == [k \in DOMAIN Registros |-> registros[Registros[k]]]

\* Defect: two registers swapped on arrival.
deserializar_registros_Cruzado(bytes) ==
  [r \in Registro |->
     CASE r = "si" -> bytes[10]
       [] r = "di" -> bytes[9]
       [] OTHER    -> bytes[CHOOSE k \in DOMAIN Registros : Registros[k] = r]]

deserializar_registros(bytes) ==
  [r \in Registro |-> bytes[CHOOSE k \in DOMAIN Registros : Registros[k] = r]]

serializar_pcb_data_primitive(pcb) == <<pcb.pid, pcb.pc, pcb.quantum, pcb.estado>>

deserializar_pcb(primitivos, registros) ==
  [pid |-> primitivos[1], pc |-> primitivos[2], quantum |-> primitivos[3],
   estado |-> primitivos[4], registros |-> deserializar_registros(registros),
   solicitud |-> NULL]

crear_solicitud_io(tokens, peticiones) ==
  [instruc_io_tokenizadas |-> tokens, peticiones_memoria |-> peticiones]

CamposSolicitud(solicitud) ==
  IF solicitud = NULL THEN <<FALSE>>
  ELSE LET tokens == solicitud.instruc_io_tokenizadas
           peticiones == solicitud.peticiones_memoria
       IN  <<tokens # NULL>>
             \o (IF tokens # NULL THEN serializar_lista_strings(tokens) ELSE <<>>)
             \o <<peticiones # NULL>>
             \o (IF peticiones # NULL THEN peticiones_empaquetar(peticiones) ELSE <<>>)

enviar_pcb(pcb, codigo) ==
  Paquete(codigo,
          <<serializar_pcb_data_primitive(pcb), serializar_registros(pcb.registros)>>
            \o CamposSolicitud(pcb.solicitud))

recibir_pcb(campos) ==
  LET pcb == deserializar_pcb(list_get(campos, 0), list_get(campos, 1))
      tokens == deserializar_lista_strings(campos, 3)
      peticiones == IF list_get(campos, 4 + Len(tokens))
                    THEN peticiones_desempaquetar_segun_index(campos, 5 + Len(tokens))
                    ELSE NULL
  IN  IF ~list_get(campos, 2) THEN pcb
      ELSE [pcb EXCEPT !.solicitud = crear_solicitud_io(tokens, peticiones)]

-----------------------------------------------------------------------------
(***************************************************************************)
(* Kernel to interface                                                     *)
(***************************************************************************)
enviar_instruccion_io(tokens, peticiones, pid) ==
  Paquete("EJECUTAR_INSTRUCCION_IO",
          <<pid>> \o serializar_lista_strings(tokens) \o peticiones_empaquetar(peticiones))

recibir_instruccion_io(campos) ==
  LET tokens == deserializar_lista_strings(campos, 1)
  IN  [pid |-> list_get(campos, 0), tokens |-> tokens,
       peticiones_memoria |-> peticiones_desempaquetar_segun_index(campos, 2 + Len(tokens))]

enviar_solicitud_truncar_archivo_fs(nombre, tamanio, pid) ==
  Paquete("TRUNCAR_ARCHIVO_FS", <<nombre, tamanio, pid>>)

recibir_solicitud_truncar_archivo_fs(campos) ==
  [nombre_archivo |-> list_get(campos, 0), tamanio_archivo |-> list_get(campos, 1),
   pid |-> list_get(campos, 2)]

enviar_solicitud_accion_archivo_fs(accion, nombre, pid) == Paquete(accion, <<nombre, pid>>)

recibir_solicitud_accion_archivo_fs(campos) ==
  [nombre_archivo |-> list_get(campos, 0), pid |-> list_get(campos, 1)]

-----------------------------------------------------------------------------
(***************************************************************************)
(* A datum spread over the requests of an access: request k takes the      *)
(* bytes that follow those of the requests before it                       *)
(***************************************************************************)
Acumulado(peticiones) ==
  LET hasta[k \in 0 .. Len(peticiones)] ==
        IF k = 0 THEN 0 ELSE hasta[k - 1] + peticiones[k].tam_dato
  IN  hasta

peticiones_tam_total(peticiones) == Acumulado(peticiones)[Len(peticiones)]

peticiones_distribuir_dato(peticiones, dato) ==
  [k \in DOMAIN peticiones |->
     [direccion_fisica |-> peticiones[k].direccion_fisica,
      dato |-> SubSeq(dato, Acumulado(peticiones)[k - 1] + 1, Acumulado(peticiones)[k])]]

=============================================================================
