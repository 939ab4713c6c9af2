--------------------------- MODULE MensajesProofs ---------------------------
(***************************************************************************)
(* The messages, proved for any contents: what the receiver of a packet    *)
(* takes out of it is what its sender put in, and a datum spread over the  *)
(* requests of an access is cut where they say.  The proofs of the modules *)
(* that send messages rest on these.                                       *)
(***************************************************************************)
EXTENDS Mensajes, TLAPS, SequenceTheorems, FiniteSetTheorems, WellFoundedInduction

-----------------------------------------------------------------------------
(***************************************************************************)
(* Recursive functions are reasoned about with Minimo: the set of the      *)
(* arguments where the claim fails has no least element.                   *)
(***************************************************************************)
LEMMA Minimo ==
  ASSUME NEW S, S \subseteq Nat, S # {}
  PROVE  \E m \in S : \A n \in S : m <= n
  <1>1. PICK m \in S : \A n \in S : ~(<<n, m>> \in OpToRel(<, Nat))
    BY NatLessThanWellFounded, WFMin
  <1>2. ASSUME NEW n \in S
        PROVE  m <= n
    <2>1. m \in Nat /\ n \in Nat
      OBVIOUS
    <2>2. ~(n < m)
      BY <1>1, <2>1 DEF OpToRel
    <2>3. QED
      BY <2>1, <2>2
  <1>3. QED
    BY <1>2

-----------------------------------------------------------------------------
(***************************************************************************)
(* The fields of a packet                                                  *)
(***************************************************************************)
\* A list of one element.
Sola(x) == <<x>>

LEMMA Concatenadas ==
  ASSUME NEW S, NEW s \in Seq(S), NEW t \in Seq(S)
  PROVE  /\ s \o t \in Seq(S) /\ Len(s \o t) = Len(s) + Len(t)
         /\ Len(s) \in Nat /\ Len(t) \in Nat
         /\ \A i \in 1 .. Len(s) : (s \o t)[i] = s[i]
         /\ \A i \in 1 .. Len(t) : (s \o t)[Len(s) + i] = t[i]
  <1>1. /\ s \o t \in Seq(S) /\ Len(s \o t) = Len(s) + Len(t)
        /\ Len(s) \in Nat /\ Len(t) \in Nat
    BY ConcatProperties, LenProperties
  <1>2. \A i \in 1 .. Len(s) : (s \o t)[i] = s[i]
    BY <1>1, ConcatProperties
  <1>3. ASSUME NEW i \in 1 .. Len(t)
        PROVE  (s \o t)[Len(s) + i] = t[i]
    BY <1>1, ConcatProperties
  <1>4. QED
    BY <1>1, <1>2, <1>3

LEMMA RegistrosViajan ==
  ASSUME NEW V, NEW registros \in [Registro -> V]
  PROVE  deserializar_registros(serializar_registros(registros)) = registros
  <1> DEFINE bytes == serializar_registros(registros)
             lugar(r) == CHOOSE k \in DOMAIN Registros : Registros[k] = r
  <1>1. ASSUME NEW r \in Registro
        PROVE  lugar(r) \in DOMAIN Registros /\ Registros[lugar(r)] = r
    <2>1. \E k \in DOMAIN Registros : Registros[k] = r
      BY DEF Registro
    <2>2. QED
      BY <2>1
  <1>2. \A k \in DOMAIN Registros : bytes[k] = registros[Registros[k]]
    BY DEF serializar_registros
  <1>3. \A r \in Registro : bytes[lugar(r)] = registros[r]
    BY <1>1, <1>2
  <1>4. deserializar_registros(bytes) = [r \in Registro |-> bytes[lugar(r)]]
    BY DEF deserializar_registros
  <1>5. QED
    BY <1>3, <1>4

\* The provers reason better about these when they do not see through them.
Largo(s) == Len(s)
Junta(s, t) == s \o t
Par(x, y) == <<x, y>>

LEMMA DosPartes ==
  ASSUME NEW S, NEW s \in Seq(S), NEW t \in Seq(S),
         NEW m \in Nat, Largo(s) = m, NEW n \in Nat, Largo(t) = n
  PROVE  /\ Junta(s, t) \in Seq(S) /\ Largo(Junta(s, t)) = m + n
         /\ \A i \in 1 .. m : Junta(s, t)[i] = s[i]
         /\ \A i \in 1 .. n : Junta(s, t)[m + i] = t[i]
  <1>1. Junta(s, t) \in Seq(S) /\ Largo(Junta(s, t)) = Largo(s) + Largo(t)
    BY Concatenadas DEF Largo, Junta
  <1>2. Largo(Junta(s, t)) = m + n
    BY <1>1
  <1>3. \A i \in 1 .. m : Junta(s, t)[i] = s[i]
    BY Concatenadas DEF Largo, Junta
  <1>4. ASSUME NEW i \in 1 .. n
        PROVE  Junta(s, t)[m + i] = t[i]
    <2>1. Junta(s, t)[Largo(s) + i] = t[i]
      BY Concatenadas DEF Largo, Junta
    <2>2. QED
      BY <2>1
  <1>5. QED
    BY <1>1, <1>2, <1>3, <1>4

LEMMA UnoDelante ==
  ASSUME NEW S, NEW x \in S, NEW t \in Seq(S), NEW n \in Nat, Largo(t) = n
  PROVE  /\ Junta(Sola(x), t) \in Seq(S) /\ Largo(Junta(Sola(x), t)) = 1 + n
         /\ Junta(Sola(x), t)[1] = x
         /\ \A i \in 1 .. n : Junta(Sola(x), t)[1 + i] = t[i]
  <1>1. Sola(x) \in Seq(S) /\ Largo(Sola(x)) = 1 /\ Sola(x)[1] = x
    BY DEF Largo, Sola, Par
  <1>2. ASSUME NEW h \in Seq(S), Largo(h) = 1
        PROVE  /\ Junta(h, t) \in Seq(S) /\ Largo(Junta(h, t)) = 1 + n
               /\ \A i \in 1 .. 1 : Junta(h, t)[i] = h[i]
               /\ \A i \in 1 .. n : Junta(h, t)[1 + i] = t[i]
    BY <1>2, DosPartes
  <1>3. QED
    BY <1>1, <1>2

LEMMA DosDelante ==
  ASSUME NEW S, NEW x \in S, NEW y \in S, NEW t \in Seq(S), NEW n \in Nat, Largo(t) = n
  PROVE  /\ Junta(Par(x, y), t) \in Seq(S) /\ Largo(Junta(Par(x, y), t)) = 2 + n
         /\ Junta(Par(x, y), t)[1] = x /\ Junta(Par(x, y), t)[2] = y
         /\ \A i \in 1 .. n : Junta(Par(x, y), t)[2 + i] = t[i]
  <1>1. Par(x, y) \in Seq(S) /\ Largo(Par(x, y)) = 2 /\ Par(x, y)[1] = x /\ Par(x, y)[2] = y
    BY DEF Largo, Sola, Par
  <1>2. ASSUME NEW h \in Seq(S), Largo(h) = 2
        PROVE  /\ Junta(h, t) \in Seq(S) /\ Largo(Junta(h, t)) = 2 + n
               /\ \A i \in 1 .. 2 : Junta(h, t)[i] = h[i]
               /\ \A i \in 1 .. n : Junta(h, t)[2 + i] = t[i]
    BY <1>2, DosPartes
  <1>3. QED
    BY <1>1, <1>2

LEMMA UnoDetras ==
  ASSUME NEW S, NEW x \in S, NEW t \in Seq(S), NEW n \in Nat, Largo(t) = n
  PROVE  /\ Junta(t, Sola(x)) \in Seq(S) /\ Largo(Junta(t, Sola(x))) = n + 1
         /\ \A i \in 1 .. n : Junta(t, Sola(x))[i] = t[i]
         /\ Junta(t, Sola(x))[n + 1] = x
  <1>1. Sola(x) \in Seq(S) /\ Largo(Sola(x)) = 1 /\ Sola(x)[1] = x
    BY DEF Largo, Sola, Par
  <1>2. ASSUME NEW h \in Seq(S), Largo(h) = 1
        PROVE  /\ Junta(t, h) \in Seq(S) /\ Largo(Junta(t, h)) = n + 1
               /\ \A i \in 1 .. n : Junta(t, h)[i] = t[i]
               /\ \A i \in 1 .. 1 : Junta(t, h)[n + i] = h[i]
    BY <1>2, DosPartes
  <1>3. QED
    BY <1>1, <1>2

\* The shape enviar_pcb gives a packet, and where each field is in it.
Forma(a, b, u, v, s, f, e) == <<a, b>> \o (<<u>> \o (<<v>> \o s) \o <<f>> \o e)

Partes(S, a, b, u, f, s, n, e, m) ==
  /\ a \in S /\ b \in S /\ u \in S /\ f \in S
  /\ s \in Seq(S) /\ n \in Nat /\ n \in S /\ Largo(s) = n
  /\ e \in Seq(S) /\ m \in Nat /\ Largo(e) = m

Ubicadas(c, a, b, u, f, s, n, e, m) ==
  /\ Largo(c) = 2 + (2 + n + 1 + m)
  /\ c[1] = a /\ c[2] = b /\ c[3] = u /\ c[4] = n
  /\ \A k \in 1 .. n : c[4 + k] = s[k]
  /\ c[5 + n] = f
  /\ \A k \in 1 .. m : c[5 + n + k] = e[k]

LEMMA CincoPartes ==
  ASSUME NEW S, NEW a, NEW b, NEW u, NEW f, NEW s, NEW n, NEW e, NEW m,
         Partes(S, a, b, u, f, s, n, e, m)
  PROVE  Ubicadas(Forma(a, b, u, n, s, f, e), a, b, u, f, s, n, e, m)
  <1> /\ a \in S /\ b \in S /\ u \in S /\ f \in S
      /\ s \in Seq(S) /\ n \in Nat /\ n \in S /\ Largo(s) = n
      /\ e \in Seq(S) /\ m \in Nat /\ Largo(e) = m
    BY DEF Partes
  <1>1. PICK D1 \in Seq(S) : /\ D1 = Junta(Sola(n), s)
                             /\ Largo(D1) = 1 + n /\ D1[1] = n
                             /\ \A k \in 1 .. n : D1[1 + k] = s[k]
    BY UnoDelante
  <1>2. PICK D2 \in Seq(S) : /\ D2 = Junta(Sola(u), D1)
                             /\ Largo(D2) = 1 + (1 + n) /\ D2[1] = u
                             /\ \A k \in 1 .. 1 + n : D2[1 + k] = D1[k]
    <2>1. 1 + n \in Nat
      OBVIOUS
    <2>2. ASSUME NEW k \in Nat, Largo(D1) = k
          PROVE  /\ Junta(Sola(u), D1) \in Seq(S) /\ Largo(Junta(Sola(u), D1)) = 1 + k
                 /\ Junta(Sola(u), D1)[1] = u
                 /\ \A i \in 1 .. k : Junta(Sola(u), D1)[1 + i] = D1[i]
      BY <2>2, UnoDelante
    <2>3. QED
      BY <1>1, <2>1, <2>2
  <1>3. PICK D3 \in Seq(S) : /\ D3 = Junta(D2, Sola(f))
                             /\ Largo(D3) = 2 + n + 1 /\ D3[2 + n + 1] = f
                             /\ \A i \in 1 .. 2 + n : D3[i] = D2[i]
    <2>1. 2 + n \in Nat /\ Largo(D2) = 2 + n
      BY <1>2
    <2>2. QED
      BY <2>1, UnoDetras
  <1>4. PICK D4 \in Seq(S) : /\ D4 = Junta(D3, e)
                             /\ Largo(D4) = 2 + n + 1 + m
                             /\ \A i \in 1 .. 2 + n + 1 : D4[i] = D3[i]
                             /\ \A k \in 1 .. m : D4[2 + n + 1 + k] = e[k]
    <2>1. 2 + n + 1 \in Nat /\ Largo(D3) = 2 + n + 1
      BY <1>3
    <2>2. ASSUME NEW k \in Nat, Largo(D3) = k
          PROVE  /\ Junta(D3, e) \in Seq(S) /\ Largo(Junta(D3, e)) = k + m
                 /\ \A i \in 1 .. k : Junta(D3, e)[i] = D3[i]
                 /\ \A i \in 1 .. m : Junta(D3, e)[k + i] = e[i]
      BY <2>2, DosPartes
    <2>3. QED
      BY <2>1, <2>2
  <1>5. PICK c : /\ c = Junta(Par(a, b), D4)
                 /\ Largo(c) = 2 + (2 + n + 1 + m) /\ c[1] = a /\ c[2] = b
                 /\ \A k \in 1 .. 2 + n + 1 + m : c[2 + k] = D4[k]
    <2>1. 2 + n + 1 + m \in Nat /\ Largo(D4) = 2 + n + 1 + m
      BY <1>4
    <2>2. QED
      BY <2>1, DosDelante
  <1>6. c = Forma(a, b, u, n, s, f, e)
    BY <1>1, <1>2, <1>3, <1>4, <1>5 DEF Junta, Sola, Par, Forma
  <1>9. c[3] = u
    <2>0. 1 \in 1 .. 2 + n + 1 + m /\ 1 \in 1 .. 2 + n + 1 /\ 1 \in 1 .. 2 + n
      OBVIOUS
    <2>1. c[2 + 1] = D4[1] /\ D4[1] = D3[1] /\ D3[1] = D2[1]
      BY <1>3, <1>4, <1>5, <2>0
    <2>2. QED
      BY <1>2, <2>1
  <1>10. c[4] = n
    <2>0. /\ 2 \in 1 .. 2 + n + 1 + m /\ 2 \in 1 .. 2 + n + 1 /\ 2 \in 1 .. 2 + n
          /\ 1 \in 1 .. 1 + n
      OBVIOUS
    <2>1. c[2 + 2] = D4[2] /\ D4[2] = D3[2] /\ D3[2] = D2[2]
      <3>1. c[2 + 2] = D4[2]
        BY <1>5, <2>0
      <3>2. D4[2] = D3[2]
        BY <1>4, <2>0
      <3>3. D3[2] = D2[2]
        BY <1>3, <2>0
      <3>4. QED
        BY <3>1, <3>2, <3>3
    <2>2. D2[1 + 1] = D1[1]
      BY <1>2, <2>0
    <2>3. D1[1] = n
      BY <1>1
    <2>4. 2 + 2 = 4 /\ 1 + 1 = 2
      OBVIOUS
    <2>5. QED
      BY <2>1, <2>2, <2>3, <2>4, Zenon
  <1>11. ASSUME NEW k \in 1 .. n
         PROVE  c[4 + k] = s[k]
    <2>0. /\ 2 + k \in 1 .. 2 + n + 1 + m /\ 2 + k \in 1 .. 2 + n + 1 /\ 2 + k \in 1 .. 2 + n
          /\ 1 + k \in 1 .. 1 + n
      OBVIOUS
    <2>1. c[2 + (2 + k)] = D4[2 + k] /\ D4[2 + k] = D3[2 + k] /\ D3[2 + k] = D2[2 + k]
      BY <1>3, <1>4, <1>5, <2>0
    <2>2. D2[1 + (1 + k)] = D1[1 + k] /\ D1[1 + k] = s[k]
      BY <1>1, <1>2, <2>0
    <2>3. 2 + (2 + k) = 4 + k /\ 1 + (1 + k) = 2 + k
      OBVIOUS
    <2>4. QED
      BY <2>1, <2>2, <2>3
  <1>12. c[5 + n] = f
    <2>1. 2 + n + 1 \in 1 .. 2 + n + 1 + m /\ 2 + n + 1 \in 1 .. 2 + n + 1
      OBVIOUS
    <2>2. c[2 + (2 + n + 1)] = D4[2 + n + 1] /\ D4[2 + n + 1] = D3[2 + n + 1]
      BY <1>4, <1>5, <2>1
    <2>3. 2 + (2 + n + 1) = 5 + n
      OBVIOUS
    <2>4. QED
      BY <1>3, <2>2, <2>3
  <1>13. ASSUME NEW k \in 1 .. m
         PROVE  c[5 + n + k] = e[k]
    <2>1. 2 + n + 1 + k \in 1 .. 2 + n + 1 + m
      OBVIOUS
    <2>2. c[2 + (2 + n + 1 + k)] = D4[2 + n + 1 + k] /\ D4[2 + n + 1 + k] = e[k]
      BY <1>4, <1>5, <2>1
    <2>3. 2 + (2 + n + 1 + k) = 5 + n + k
      OBVIOUS
    <2>4. QED
      BY <2>2, <2>3
  <1>14. QED
    BY <1>5, <1>6, <1>9, <1>10, <1>11, <1>12, <1>13 DEF Ubicadas

\* What the receiver picks out of a packet of that shape, field by field.
Leidas(c, a, b, u, f, s, n, e, m) ==
  /\ list_get(c, 0) = a /\ list_get(c, 1) = b /\ list_get(c, 2) = u
  /\ deserializar_lista_strings(c, 3) = s
  /\ list_get(c, 4 + n) = f
  /\ \A j \in Nat : (m = 1 + j /\ e[1] = j)
       => peticiones_desempaquetar_segun_index(c, 5 + n) = [k \in 1 .. j |-> e[1 + k]]

LEMMA CincoPartesLeidas ==
  ASSUME NEW S, NEW a, NEW b, NEW u, NEW f, NEW s, NEW n, NEW e, NEW m,
         Partes(S, a, b, u, f, s, n, e, m)
  PROVE  Leidas(Forma(a, b, u, n, s, f, e), a, b, u, f, s, n, e, m)
  <1> /\ s \in Seq(S) /\ n \in Nat /\ Largo(s) = n
      /\ e \in Seq(S) /\ m \in Nat
    BY DEF Partes
  <1> DEFINE c == Forma(a, b, u, n, s, f, e)
  <1>0. Ubicadas(c, a, b, u, f, s, n, e, m)
    BY CincoPartes
  <1> HIDE DEF c
  <1>1. /\ Largo(c) = 2 + (2 + n + 1 + m)
        /\ c[1] = a /\ c[2] = b /\ c[3] = u /\ c[4] = n
        /\ \A k \in 1 .. n : c[4 + k] = s[k]
        /\ c[5 + n] = f
        /\ \A k \in 1 .. m : c[5 + n + k] = e[k]
    BY <1>0 DEF Ubicadas
  <1>2. ASSUME NEW i \in Nat, i < 2 + (2 + n + 1 + m)
        PROVE  list_get(c, i) = c[i + 1]
    BY <1>1, <1>2 DEF list_get, Largo
  <1>3. list_get(c, 0) = a /\ list_get(c, 1) = b /\ list_get(c, 2) = u /\ list_get(c, 3) = n
    <2>1. list_get(c, 0) = c[0 + 1] /\ list_get(c, 1) = c[1 + 1] /\ list_get(c, 2) = c[2 + 1]
          /\ list_get(c, 3) = c[3 + 1]
      BY <1>2
    <2>2. QED
      BY <1>1, <2>1
  <1>4. list_get(c, 4 + n) = f
    <2>1. list_get(c, 4 + n) = c[4 + n + 1]
      BY <1>2
    <2>2. 4 + n + 1 = 5 + n
      OBVIOUS
    <2>3. QED
      BY <1>1, <2>1, <2>2
  <1>5. deserializar_lista_strings(c, 3) = s
    <2>1. ASSUME NEW k \in 1 .. n
          PROVE  list_get(c, 3 + k) = s[k]
      <3>1. list_get(c, 3 + k) = c[3 + k + 1]
        BY <1>2
      <3>2. 3 + k + 1 = 4 + k
        OBVIOUS
      <3>3. QED
        BY <1>1, <3>1, <3>2
    <2>2. s = [k \in 1 .. n |-> s[k]]
      BY LenProperties DEF Largo
    <2>3. deserializar_lista_strings(c, 3) = [k \in 1 .. n |-> list_get(c, 3 + k)]
      BY <1>3 DEF deserializar_lista_strings
    <2>4. QED
      BY <2>1, <2>2, <2>3
  <1>6. ASSUME NEW j \in Nat, m = 1 + j, e[1] = j
        PROVE  peticiones_desempaquetar_segun_index(c, 5 + n) = [k \in 1 .. j |-> e[1 + k]]
    <2>1. list_get(c, 5 + n) = j
      <3>0. 5 + n \in Nat /\ 5 + n < 2 + (2 + n + 1 + m)
        BY <1>6
      <3>1. list_get(c, 5 + n) = c[5 + n + 1]
        BY <1>2, <3>0
      <3>2. 1 \in 1 .. m
        BY <1>6
      <3>3. QED
        BY <1>1, <1>6, <3>1, <3>2
    <2>2. ASSUME NEW k \in 1 .. j
          PROVE  list_get(c, 5 + n + k) = e[1 + k]
      <3>0. 5 + n + k \in Nat /\ 5 + n + k < 2 + (2 + n + 1 + m)
        BY <1>6
      <3>1. list_get(c, 5 + n + k) = c[5 + n + k + 1]
        BY <1>2, <3>0
      <3>2. 1 + k \in 1 .. m /\ 5 + n + k + 1 = 5 + n + (1 + k)
        BY <1>6
      <3>3. QED
        BY <1>1, <3>1, <3>2
    <2>3. peticiones_desempaquetar_segun_index(c, 5 + n)
            = [k \in 1 .. j |-> list_get(c, 5 + n + k)]
      BY <2>1 DEF peticiones_desempaquetar_segun_index
    <2>4. QED
      BY <2>2, <2>3
  <1>7. QED
    BY <1>3, <1>4, <1>5, <1>6 DEF c, Leidas

\* A request with the list of its tokens travels whole: the accesses it asks
\* for too, when it has them.
LEMMA SolicitudSinPeticiones ==
  ASSUME NEW tokens, tokens # NULL
  PROVE  CamposSolicitud(crear_solicitud_io(tokens, NULL))
           = IF crear_solicitud_io(tokens, NULL) = NULL THEN <<FALSE>>
             ELSE <<TRUE>> \o (<<Len(tokens)>> \o tokens) \o <<FALSE>> \o <<>>
  <1>1. /\ crear_solicitud_io(tokens, NULL).instruc_io_tokenizadas = tokens
        /\ crear_solicitud_io(tokens, NULL).peticiones_memoria = NULL
    BY DEF crear_solicitud_io
  <1>2. (tokens # NULL) = TRUE /\ (NULL # NULL) = FALSE
    OBVIOUS
  <1>3. QED
    BY <1>1, <1>2 DEF CamposSolicitud, serializar_lista_strings

LEMMA SolicitudConPeticiones ==
  ASSUME NEW tokens, tokens # NULL, NEW peticiones, peticiones # NULL
  PROVE  CamposSolicitud(crear_solicitud_io(tokens, peticiones))
           = IF crear_solicitud_io(tokens, peticiones) = NULL THEN <<FALSE>>
             ELSE <<TRUE>> \o (<<Len(tokens)>> \o tokens) \o <<TRUE>>
                    \o peticiones_empaquetar(peticiones)
  <1>1. /\ crear_solicitud_io(tokens, peticiones).instruc_io_tokenizadas = tokens
        /\ crear_solicitud_io(tokens, peticiones).peticiones_memoria = peticiones
    BY DEF crear_solicitud_io
  <1>2. (tokens # NULL) = TRUE /\ (peticiones # NULL) = TRUE
    OBVIOUS
  <1>3. QED
    BY <1>1, <1>2 DEF CamposSolicitud, serializar_lista_strings

\* The receiver of a packet without request, and of one with it.
LEMMA TresCampos ==
  ASSUME NEW a, NEW b, NEW f
  PROVE  /\ list_get(Junta(Par(a, b), Sola(f)), 0) = a
         /\ list_get(Junta(Par(a, b), Sola(f)), 1) = b
         /\ list_get(Junta(Par(a, b), Sola(f)), 2) = f
  <1> DEFINE S == {a, b, f}
             c == Junta(Par(a, b), Sola(f))
  <1>1. a \in S /\ b \in S /\ Sola(f) \in Seq(S) /\ Largo(Sola(f)) = 1 /\ Sola(f)[1] = f
    BY DEF Sola, Largo
  <1> HIDE DEF S
  <1>2. /\ c \in Seq(S) /\ Largo(c) = 2 + 1 /\ c[1] = a /\ c[2] = b
        /\ \A i \in 1 .. 1 : c[2 + i] = Sola(f)[i]
    BY <1>1, DosDelante
  <1> HIDE DEF c
  <1>3. c[2 + 1] = f
    BY <1>1, <1>2
  <1>4. QED
    BY <1>2, <1>3 DEF list_get, Largo, c

LEMMA RecibeSinSolicitud ==
  ASSUME NEW prim, NEW registros
  PROVE  recibir_pcb(<<prim, registros>> \o <<FALSE>>) = deserializar_pcb(prim, registros)
  <1>0. PICK f : f = FALSE
    OBVIOUS
  <1> DEFINE c == Junta(Par(prim, registros), Sola(f))
  <1>1. list_get(c, 0) = prim /\ list_get(c, 1) = registros /\ list_get(c, 2) = f
    BY TresCampos
  <1>2. c = <<prim, registros>> \o <<FALSE>>
    BY <1>0 DEF Junta, Par, Sola
  <1> HIDE DEF c
  <1>3. recibir_pcb(c) = deserializar_pcb(list_get(c, 0), list_get(c, 1))
    BY <1>0, <1>1 DEF recibir_pcb
  <1>4. QED
    BY <1>1, <1>2, <1>3

ConSolicitud(prim, registros, tokens, peticiones) ==
  [deserializar_pcb(prim, registros) EXCEPT !.solicitud = crear_solicitud_io(tokens, peticiones)]

\* The accesses after their number.
Restantes(e, j) == [k \in 1 .. j |-> e[1 + k]]

LEMMA RecibeConSolicitud ==
  ASSUME NEW c, NEW prim, NEW registros, NEW u, NEW f, NEW tokens, NEW n, NEW e, NEW m,
         Leidas(c, prim, registros, u, f, tokens, n, e, m), u, n \in Nat, Largo(tokens) = n
  PROVE  /\ ~f => recibir_pcb(c) = ConSolicitud(prim, registros, tokens, NULL)
         /\ \A j \in Nat :
              (f /\ m = 1 + j /\ e[1] = j)
                => recibir_pcb(c) = ConSolicitud(prim, registros, tokens, Restantes(e, j))
  <1>1. /\ list_get(c, 0) = prim /\ list_get(c, 1) = registros /\ list_get(c, 2) = u
        /\ deserializar_lista_strings(c, 3) = tokens
        /\ list_get(c, 4 + Len(tokens)) = f
        /\ \A j \in Nat : (m = 1 + j /\ e[1] = j)
             => peticiones_desempaquetar_segun_index(c, 5 + Len(tokens))
                  = Restantes(e, j)
    BY DEF Leidas, Largo, Restantes
  <1>2. recibir_pcb(c)
          = ConSolicitud(prim, registros, tokens,
                         IF f THEN peticiones_desempaquetar_segun_index(c, 5 + Len(tokens))
                         ELSE NULL)
    BY <1>1 DEF recibir_pcb, ConSolicitud
  <1>3. ASSUME ~f
        PROVE  recibir_pcb(c) = ConSolicitud(prim, registros, tokens, NULL)
    BY <1>2, <1>3
  <1>4. ASSUME NEW j \in Nat, f, m = 1 + j, e[1] = j
        PROVE  recibir_pcb(c) = ConSolicitud(prim, registros, tokens, Restantes(e, j))
    <2>1. peticiones_desempaquetar_segun_index(c, 5 + Len(tokens)) = Restantes(e, j)
      BY <1>1, <1>4
    <2>2. QED
      BY <1>2, <1>4, <2>1
  <1>5. QED
    BY <1>3, <1>4

\* A PCB with all its fields, whatever they are.
Completo(p, V) ==
  /\ p = [pid |-> p.pid, pc |-> p.pc, quantum |-> p.quantum, estado |-> p.estado,
          registros |-> p.registros, solicitud |-> p.solicitud]
  /\ p.registros \in [Registro -> V]

LEMMA PrimitivosViajan ==
  ASSUME NEW p, NEW V, Completo(p, V)
  PROVE  [deserializar_pcb(serializar_pcb_data_primitive(p), serializar_registros(p.registros))
            EXCEPT !.solicitud = p.solicitud] = p
  <1>1. p = [pid |-> p.pid, pc |-> p.pc, quantum |-> p.quantum, estado |-> p.estado,
             registros |-> p.registros, solicitud |-> p.solicitud]
    BY DEF Completo
  <1>2. deserializar_registros(serializar_registros(p.registros)) = p.registros
    BY RegistrosViajan DEF Completo
  <1>3. deserializar_pcb(serializar_pcb_data_primitive(p), serializar_registros(p.registros))
          = [pid |-> p.pid, pc |-> p.pc, quantum |-> p.quantum, estado |-> p.estado,
             registros |-> p.registros, solicitud |-> NULL]
    BY <1>2 DEF deserializar_pcb, serializar_pcb_data_primitive
  <1>4. QED
    BY <1>1, <1>3

PeticionMemoria == [direccion_fisica : Nat, tam_dato : Nat]

LEMMA SinPeticionesViaja ==
  ASSUME NEW prim, NEW registros, NEW Ficha, NEW tokens \in Seq(Ficha)
  PROVE  recibir_pcb(<<prim, registros>> \o (<<TRUE>> \o (<<Len(tokens)>> \o tokens) \o <<FALSE>> \o <<>>))
           = ConSolicitud(prim, registros, tokens, NULL)
  <1>1. PICK u, f : u = TRUE /\ f = FALSE
    OBVIOUS
  <1> DEFINE S == {prim, registros, u, f} \cup Nat \cup Ficha
             n == Largo(tokens)
             c == Forma(prim, registros, u, n, tokens, f, <<>>)
  <1>2. Partes(S, prim, registros, u, f, tokens, n, <<>>, 0)
    <2>1. n \in Nat
      BY LenProperties DEF Largo
    <2>2. tokens \in Seq(S) /\ <<>> \in Seq(S) /\ Largo(<<>>) = 0
      BY DEF Largo
    <2>3. prim \in S /\ registros \in S /\ u \in S /\ f \in S /\ n \in S
      BY <2>1
    <2> HIDE DEF n, S
    <2>4. QED
      BY <2>1, <2>2, <2>3 DEF Partes, n
  <1> HIDE DEF S
  <1>3. Leidas(c, prim, registros, u, f, tokens, n, <<>>, 0)
    BY <1>2, CincoPartesLeidas
  <1>4. c = <<prim, registros>> \o (<<TRUE>> \o (<<Len(tokens)>> \o tokens) \o <<FALSE>> \o <<>>)
    BY <1>1 DEF Forma, Largo
  <1> HIDE DEF c
  <1>5. n \in Nat
    BY LenProperties DEF Largo
  <1>6. recibir_pcb(c) = ConSolicitud(prim, registros, tokens, NULL)
    <2> Largo(tokens) = n
      OBVIOUS
    <2> HIDE DEF n
    <2>1. QED
      BY <1>1, <1>3, <1>5, RecibeConSolicitud
  <1>7. QED
    BY <1>4, <1>6

LEMMA PeticionesViajan ==
  ASSUME NEW peticiones \in Seq(PeticionMemoria)
  PROVE  peticiones_empaquetar(peticiones) = <<Len(peticiones)>> \o peticiones
  <1> DEFINE mandadas == [k \in DOMAIN peticiones |-> serializar_peticion_memoria(peticiones[k])]
  <1>1. DOMAIN peticiones = 1 .. Len(peticiones)
    BY LenProperties
  <1>2. ASSUME NEW k \in DOMAIN peticiones
        PROVE  serializar_peticion_memoria(peticiones[k]) = peticiones[k]
    <2>1. peticiones[k] \in PeticionMemoria
      BY ElementOfSeq, <1>1
    <2>2. QED
      BY <2>1 DEF serializar_peticion_memoria, PeticionMemoria
  <1>3. peticiones = [k \in DOMAIN peticiones |-> peticiones[k]]
    BY LenProperties
  <1>4. mandadas = peticiones
    BY <1>2, <1>3
  <1>5. QED
    BY <1>4 DEF peticiones_empaquetar

LEMMA ConPeticionesViaja ==
  ASSUME NEW prim, NEW registros, NEW Ficha, NEW tokens \in Seq(Ficha), NEW peticiones \in Seq(PeticionMemoria)
  PROVE  recibir_pcb(<<prim, registros>> \o (<<TRUE>> \o (<<Len(tokens)>> \o tokens) \o <<TRUE>>
                                               \o (<<Len(peticiones)>> \o peticiones)))
           = ConSolicitud(prim, registros, tokens, peticiones)
  <1>1. PICK u, f : u = TRUE /\ f = TRUE
    OBVIOUS
  <1> DEFINE S == {prim, registros, u, f} \cup Nat \cup Ficha \cup PeticionMemoria
             n == Largo(tokens)
             j == Largo(peticiones)
             e == Junta(Sola(j), peticiones)
             c == Forma(prim, registros, u, n, tokens, f, e)
  <1>2. n \in Nat /\ j \in Nat
    BY LenProperties DEF Largo
  <1>3. /\ tokens \in Seq(S) /\ peticiones \in Seq(S) /\ j \in S /\ n \in S
        /\ prim \in S /\ registros \in S /\ u \in S /\ f \in S
    BY <1>2
  <1> HIDE DEF S, n
  <1>4. /\ e \in Seq(S) /\ Largo(e) = 1 + j /\ e[1] = j
        /\ \A k \in 1 .. j : e[1 + k] = peticiones[k]
    <2> Largo(peticiones) = j
      OBVIOUS
    <2> HIDE DEF j
    <2> QED
      BY <1>2, <1>3, UnoDelante
  <1>5. peticiones = [k \in 1 .. j |-> peticiones[k]]
    BY LenProperties DEF Largo
  <1> HIDE DEF j, e
  <1>6. peticiones = Restantes(e, j)
    BY <1>4, <1>5 DEF Restantes
  <1>7. PICK m \in Nat : m = 1 + j
    BY <1>2
  <1>8. Partes(S, prim, registros, u, f, tokens, n, e, m)
    BY <1>2, <1>3, <1>4, <1>7 DEF Partes, n
  <1>9. Leidas(c, prim, registros, u, f, tokens, n, e, m)
    BY <1>8, CincoPartesLeidas
  <1>10. c = <<prim, registros>> \o (<<TRUE>> \o (<<Len(tokens)>> \o tokens) \o <<TRUE>>
                                       \o (<<Len(peticiones)>> \o peticiones))
    BY <1>1 DEF Forma, Largo, Junta, Sola, e, n, j
  <1> HIDE DEF c
  <1>11. recibir_pcb(c) = ConSolicitud(prim, registros, tokens, Restantes(e, j))
    <2>1. Largo(tokens) = n
      BY DEF n
    <2>2. \A i \in Nat : (f /\ m = 1 + i /\ e[1] = i)
            => recibir_pcb(c) = ConSolicitud(prim, registros, tokens, Restantes(e, i))
      BY <1>1, <1>2, <1>9, <2>1, RecibeConSolicitud
    <2>3. QED
      BY <1>1, <1>2, <1>4, <1>7, <2>2
  <1>12. QED
    BY <1>6, <1>10, <1>11

\* A PCB comes out of the packet as it went in.
LEMMA PcbSinSolicitud ==
  ASSUME NEW p, NEW V, Completo(p, V), p.solicitud = NULL, NEW codigo
  PROVE  recibir_pcb(enviar_pcb(p, codigo).campos) = p
  <1> DEFINE prim == serializar_pcb_data_primitive(p)
             regs == serializar_registros(p.registros)
  <1>1. enviar_pcb(p, codigo).campos = <<prim, regs>> \o CamposSolicitud(p.solicitud)
    BY DEF enviar_pcb, Paquete
  <1>2. [deserializar_pcb(prim, regs) EXCEPT !.solicitud = p.solicitud] = p
    BY PrimitivosViajan
  <1> HIDE DEF prim, regs
  <1>3. CamposSolicitud(p.solicitud) = <<FALSE>>
    BY DEF CamposSolicitud
  <1>4. recibir_pcb(<<prim, regs>> \o <<FALSE>>) = deserializar_pcb(prim, regs)
    BY RecibeSinSolicitud
  <1>5. [deserializar_pcb(prim, regs) EXCEPT !.solicitud = NULL] = deserializar_pcb(prim, regs)
    BY DEF deserializar_pcb
  <1>6. QED
    BY <1>1, <1>2, <1>3, <1>4, <1>5

LEMMA PcbConSolicitud ==
  ASSUME NEW p, NEW V, Completo(p, V), p.solicitud # NULL,
         NEW Ficha, NEW tokens \in Seq(Ficha), tokens # NULL,
         NEW peticiones, peticiones # NULL => peticiones \in Seq(PeticionMemoria),
         p.solicitud = crear_solicitud_io(tokens, peticiones), NEW codigo
  PROVE  recibir_pcb(enviar_pcb(p, codigo).campos) = p
  <1> DEFINE prim == serializar_pcb_data_primitive(p)
             regs == serializar_registros(p.registros)
  <1>1. enviar_pcb(p, codigo).campos = <<prim, regs>> \o CamposSolicitud(p.solicitud)
    BY DEF enviar_pcb, Paquete
  <1>2. [deserializar_pcb(prim, regs) EXCEPT !.solicitud = p.solicitud] = p
    BY PrimitivosViajan
  <1> HIDE DEF prim, regs
  <1>3. ConSolicitud(prim, regs, tokens, peticiones) = p
    BY <1>2 DEF ConSolicitud
  <1>4. CASE peticiones = NULL
    <2>1. CamposSolicitud(p.solicitud)
            = <<TRUE>> \o (<<Len(tokens)>> \o tokens) \o <<FALSE>> \o <<>>
      BY <1>4, SolicitudSinPeticiones
    <2>2. QED
      BY <1>1, <1>3, <1>4, <2>1, SinPeticionesViaja
  <1>5. CASE peticiones # NULL
    <2>1. CamposSolicitud(p.solicitud)
            = <<TRUE>> \o (<<Len(tokens)>> \o tokens) \o <<TRUE>>
                \o peticiones_empaquetar(peticiones)
      BY <1>5, SolicitudConPeticiones
    <2>2. peticiones_empaquetar(peticiones) = <<Len(peticiones)>> \o peticiones
      BY <1>5, PeticionesViajan
    <2>3. recibir_pcb(<<prim, regs>> \o CamposSolicitud(p.solicitud))
            = ConSolicitud(prim, regs, tokens, peticiones)
      BY <1>5, <2>1, <2>2, ConPeticionesViaja
    <2>4. QED
      BY <1>1, <1>3, <2>3
  <1>6. QED
    BY <1>4, <1>5

-----------------------------------------------------------------------------
(***************************************************************************)
(* The request of an interface                                             *)
(***************************************************************************)
\* The tokens arrive whole behind the PID, and so does what follows them.
LEMMA FichasViajan ==
  ASSUME NEW S, NEW x \in S, NEW t \in Seq(S), NEW n \in Nat, n \in S, Largo(t) = n,
         NEW e \in Seq(S), NEW m \in Nat, Largo(e) = m,
         NEW c, c = Junta(Junta(Sola(x), Junta(Sola(n), t)), e)
  PROVE  /\ Largo(c) = 2 + n + m /\ c[1] = x /\ c[2] = n
         /\ \A k \in 1 .. n : c[2 + k] = t[k]
         /\ \A k \in 1 .. m : c[(2 + n) + k] = e[k]
  <1>1. PICK D1 \in Seq(S) : /\ D1 = Junta(Sola(n), t) /\ Largo(D1) = 1 + n /\ D1[1] = n
                             /\ \A k \in 1 .. n : D1[1 + k] = t[k]
    BY UnoDelante
  <1>2. PICK D2 \in Seq(S) : /\ D2 = Junta(Sola(x), D1) /\ Largo(D2) = 2 + n /\ D2[1] = x
                             /\ \A k \in 1 .. 1 + n : D2[1 + k] = D1[k]
    <2>1. 1 + n \in Nat
      OBVIOUS
    <2>2. ASSUME NEW k \in Nat, Largo(D1) = k
          PROVE  /\ Junta(Sola(x), D1) \in Seq(S) /\ Largo(Junta(Sola(x), D1)) = 1 + k
                 /\ Junta(Sola(x), D1)[1] = x
                 /\ \A i \in 1 .. k : Junta(Sola(x), D1)[1 + i] = D1[i]
      BY <2>2, UnoDelante
    <2>3. QED
      BY <1>1, <2>1, <2>2
  <1>3. /\ c = Junta(D2, e) /\ Largo(c) = 2 + n + m
        /\ \A i \in 1 .. 2 + n : c[i] = D2[i]
        /\ \A i \in 1 .. m : c[(2 + n) + i] = e[i]
    <2>1. 2 + n \in Nat
      OBVIOUS
    <2>2. ASSUME NEW k \in Nat, Largo(D2) = k
          PROVE  /\ Largo(Junta(D2, e)) = k + m
                 /\ \A i \in 1 .. k : Junta(D2, e)[i] = D2[i]
                 /\ \A i \in 1 .. m : Junta(D2, e)[k + i] = e[i]
      BY <2>2, DosPartes
    <2>3. QED
      BY <1>1, <1>2, <2>1, <2>2
  <1>4. c[1] = x /\ c[2] = n
    <2>1. 1 \in 1 .. 2 + n /\ 2 \in 1 .. 2 + n /\ 1 \in 1 .. 1 + n /\ 1 + 1 = 2
      OBVIOUS
    <2>2. D2[1 + 1] = D1[1]
      BY <1>2, <2>1
    <2>3. QED
      BY <1>1, <1>2, <1>3, <2>1, <2>2
  <1>5. ASSUME NEW k \in 1 .. n
        PROVE  c[2 + k] = t[k]
    <2>1. 2 + k \in 1 .. 2 + n /\ 1 + k \in 1 .. 1 + n /\ 1 + (1 + k) = 2 + k
      OBVIOUS
    <2>2. D2[1 + (1 + k)] = D1[1 + k]
      BY <1>2, <2>1
    <2>3. QED
      BY <1>1, <1>3, <2>1, <2>2
  <1>6. QED
    BY <1>3, <1>4, <1>5

LEMMA MismosElementos ==
  ASSUME NEW S, NEW s \in Seq(S), NEW n \in Nat, Len(s) = n,
         NEW f, f = [k \in 1 .. n |-> f[k]], \A k \in 1 .. n : f[k] = s[k]
  PROVE  f = s
  OBVIOUS

\* The request of an instruction of an interface, for any process.
LEMMA InstruccionViaja ==
  ASSUME NEW Ficha, NEW t \in Seq(Ficha), NEW a \in Seq(PeticionMemoria), NEW pid
  PROVE  /\ recibir_instruccion_io(enviar_instruccion_io(t, a, pid).campos).pid = pid
         /\ recibir_instruccion_io(enviar_instruccion_io(t, a, pid).campos).tokens = t
         /\ recibir_instruccion_io(enviar_instruccion_io(t, a, pid).campos).peticiones_memoria
              = a
  <1> DEFINE S == {pid} \cup Nat \cup {t[k] : k \in 1 .. Len(t)}
                    \cup {serializar_peticion_memoria(a[k]) : k \in DOMAIN a}
             e == peticiones_empaquetar(a)
             c == enviar_instruccion_io(t, a, pid).campos
  <1>1. PICK n \in Nat : n = Largo(t) /\ t = [k \in 1 .. n |-> t[k]]
    BY LenProperties DEF Largo
  <1>2. t \in Seq(S) /\ n \in S /\ pid \in S
    <2>1. \A k \in 1 .. n : t[k] \in S
      BY <1>1 DEF Largo
    <2>2. [k \in 1 .. n |-> t[k]] \in Seq(S)
      BY <2>1
    <2>3. QED
      BY <1>1, <2>2
  <1>3. PICK l \in Nat :
          /\ e \in Seq(S) /\ Largo(e) = 1 + l /\ e[1] = l
          /\ a \in Seq(PeticionMemoria) /\ Len(a) = l
          /\ \A k \in 1 .. l : e[1 + k] = a[k]
    <2>1. PICK l \in Nat : a \in Seq(PeticionMemoria) /\ Len(a) = l
      BY LenProperties
    <2>2. DOMAIN a = 1 .. l
      BY <2>1
    <2> DEFINE q == [k \in DOMAIN a |-> serializar_peticion_memoria(a[k])]
    <2>3. q \in Seq(S) /\ Largo(q) = l
      <3>1. \A k \in 1 .. l : serializar_peticion_memoria(a[k]) \in S
        BY <2>2
      <3>2. QED
        BY <2>2, <3>1 DEF Largo
    <2>4. \A k \in 1 .. l : q[k] = a[k]
      <3>1. \A p \in PeticionMemoria :
              serializar_peticion_memoria(p) = p
        BY DEF serializar_peticion_memoria, PeticionMemoria
      <3>2. \A k \in 1 .. l : a[k] \in PeticionMemoria
        BY <2>1, ElementOfSeq
      <3>3. QED
        BY <2>2, <3>1, <3>2
    <2>5. l \in S /\ e = Junta(Sola(l), q)
      BY <2>1 DEF peticiones_empaquetar, Junta, Sola
    <2> HIDE DEF S, e, q
    <2>6. e \in Seq(S) /\ Largo(e) = 1 + l /\ e[1] = l /\ \A k \in 1 .. l : e[1 + k] = q[k]
      BY <2>3, <2>5, UnoDelante
    <2>7. QED
      BY <2>1, <2>4, <2>6
  <1>4. c = Junta(Junta(Sola(pid), Junta(Sola(n), t)), e)
    BY <1>1 DEF enviar_instruccion_io, Paquete, serializar_lista_strings, Junta, Sola, Largo
  <1> HIDE DEF S, e, c
  <1>d. PICK d \in Seq(S) : d = t /\ Largo(d) = n
    BY <1>1, <1>2
  <1>5. /\ Largo(c) = 2 + n + (1 + l) /\ c[1] = pid /\ c[2] = n /\ \A k \in 1 .. n : c[2 + k] = t[k]
        /\ \A k \in 1 .. 1 + l : c[(2 + n) + k] = e[k]
    <2>1. c = Junta(Junta(Sola(pid), Junta(Sola(n), d)), e)
      BY <1>4, <1>d
    <2>2. ASSUME NEW m \in Nat, Largo(e) = m
          PROVE  /\ Largo(c) = 2 + n + m /\ c[1] = pid /\ c[2] = n /\ \A k \in 1 .. n : c[2 + k] = d[k]
                 /\ \A k \in 1 .. m : c[(2 + n) + k] = e[k]
      BY <1>2, <1>3, <1>d, <2>1, <2>2, FichasViajan
    <2>3. PICK m \in Nat : m = 1 + l /\ Largo(e) = m
      BY <1>3
    <2>4. /\ Largo(c) = 2 + n + m /\ c[1] = pid /\ c[2] = n /\ \A k \in 1 .. n : c[2 + k] = d[k]
          /\ \A k \in 1 .. m : c[(2 + n) + k] = e[k]
      BY <2>2, <2>3
    <2>5. QED
      BY <1>d, <2>3, <2>4
  <1>6. list_get(c, 1) = n
    BY <1>5 DEF list_get, Largo
  <1>7. \A k \in 1 .. n : list_get(c, 1 + k) = t[k]
    BY <1>5 DEF list_get, Largo
  <1>8. deserializar_lista_strings(c, 1) = t
    BY <1>1, <1>6, <1>7 DEF deserializar_lista_strings
  <1>9. list_get(c, 2 + n) = l
    <2>1. 1 \in 1 .. 1 + l /\ 2 + n < 2 + n + (1 + l) /\ (2 + n) + 1 \in Nat
      OBVIOUS
    <2>2. QED
      BY <1>3, <1>5, <2>1 DEF list_get, Largo
  <1>10. ASSUME NEW k \in 1 .. l
         PROVE  list_get(c, (2 + n) + k) = a[k]
    <2>1. /\ 1 + k \in 1 .. 1 + l /\ (2 + n) + k < 2 + n + (1 + l)
          /\ ((2 + n) + k) + 1 = (2 + n) + (1 + k)
      OBVIOUS
    <2>2. c[((2 + n) + k) + 1] = a[k]
      BY <1>3, <1>5, <2>1
    <2>3. QED
      BY <1>5, <2>1, <2>2 DEF list_get, Largo
  <1>11. peticiones_desempaquetar_segun_index(c, 2 + n) = a
    <2>1. peticiones_desempaquetar_segun_index(c, 2 + n)
            = [k \in 1 .. l |-> list_get(c, (2 + n) + k)]
      BY <1>9, Zenon DEF peticiones_desempaquetar_segun_index
    <2>2. PICK f : f = [k \in 1 .. l |-> list_get(c, (2 + n) + k)]
      OBVIOUS
    <2>3. f = [k \in 1 .. l |-> f[k]] /\ \A k \in 1 .. l : f[k] = a[k]
      BY <1>10, <2>2
    <2>4. f = a
      BY <1>3, <2>3, MismosElementos
    <2>5. QED
      BY <2>1, <2>2, <2>4
  <1>12. Len(deserializar_lista_strings(c, 1)) = n
    BY <1>1, <1>8 DEF Largo
  <1>13. list_get(c, 0) = pid
    BY <1>5 DEF list_get, Largo
  <1>14. QED
    BY <1>8, <1>11, <1>12, <1>13 DEF recibir_instruccion_io, c

-----------------------------------------------------------------------------
(***************************************************************************)
(* Data over the requests of an access                                     *)
(***************************************************************************)
\* The bytes of the first k requests, for k up to n.
SumaHasta(h, s, n) ==
  /\ h \in [0 .. n -> Nat] /\ h[0] = 0
  /\ \A k \in 1 .. n : h[k] = h[k - 1] + s[k].tam_dato

LEMMA HaySuma ==
  ASSUME NEW s, NEW L \in Nat, \A k \in 1 .. L : s[k].tam_dato \in Nat
  PROVE  \E h : SumaHasta(h, s, L)
  <1> DEFINE N == {n \in 0 .. L : ~\E h : SumaHasta(h, s, n)}
  <1>1. ASSUME N # {}
        PROVE  FALSE
    <2>1. N \subseteq Nat
      OBVIOUS
    <2>2. PICK m \in N : \A n \in N : m <= n
      BY <1>1, <2>1, Minimo
    <2>3. m \in 0 .. L /\ ~\E h : SumaHasta(h, s, m)
      OBVIOUS
    <2>4. CASE m = 0
      <3>1. PICK h : h = [k \in 0 .. 0 |-> 0]
        OBVIOUS
      <3>2. SumaHasta(h, s, 0)
        BY <3>1 DEF SumaHasta
      <3>3. QED
        BY <2>3, <2>4, <3>2
    <2>5. CASE m # 0
      <3>1. m - 1 \in 0 .. L /\ m - 1 \notin N /\ m \in 1 .. L
        BY <2>2, <2>3, <2>5
      <3>2. PICK h : SumaHasta(h, s, m - 1)
        BY <3>1
      <3>3. PICK g : g = [k \in 0 .. m |-> IF k < m THEN h[k] ELSE h[m - 1] + s[m].tam_dato]
        OBVIOUS
      <3>4. /\ h \in [0 .. m - 1 -> Nat] /\ h[0] = 0
            /\ \A k \in 1 .. m - 1 : h[k] = h[k - 1] + s[k].tam_dato
        BY <3>2 DEF SumaHasta
      <3>5. s[m].tam_dato \in Nat /\ h[m - 1] \in Nat
        BY <3>1, <3>4
      <3>6. g \in [0 .. m -> Nat] /\ g[0] = 0
        BY <3>1, <3>3, <3>4, <3>5
      <3>7. ASSUME NEW k \in 1 .. m
            PROVE  g[k] = g[k - 1] + s[k].tam_dato
        <4>1. m \in Nat /\ k \in 0 .. m /\ k - 1 \in 0 .. m /\ k - 1 < m
          BY <3>1
        <4>2. g[k - 1] = h[k - 1]
          BY <3>3, <4>1
        <4>3. CASE k = m
          BY <3>3, <4>1, <4>2, <4>3
        <4>4. CASE k # m
          <5>1. k < m /\ k \in 1 .. m - 1
            BY <4>1, <4>4
          <5>2. g[k] = h[k]
            BY <3>3, <4>1, <5>1
          <5>3. QED
            BY <3>4, <4>2, <5>1, <5>2
        <4>5. QED
          BY <4>3, <4>4
      <3>8. SumaHasta(g, s, m)
        BY <3>6, <3>7 DEF SumaHasta
      <3>9. QED
        BY <2>3, <3>8
    <2>6. QED
      BY <2>4, <2>5
  <1>2. L \notin N /\ L \in 0 .. L
    BY <1>1
  <1>3. QED
    BY <1>2

\* Acumulado satisfies its recursion.
LEMMA Acumula ==
  ASSUME NEW s \in Seq(PeticionMemoria), NEW L \in Nat, Len(s) = L
  PROVE  SumaHasta(Acumulado(s), s, L)
  <1>1. \A k \in 1 .. L : s[k].tam_dato \in Nat
    <2>1. \A k \in 1 .. L : s[k] \in PeticionMemoria
      BY ElementOfSeq
    <2>2. QED
      BY <2>1 DEF PeticionMemoria
  <1>2. PICK h : SumaHasta(h, s, L)
    BY <1>1, HaySuma
  <1> DEFINE Ecuacion(g) ==
        g = [k \in 0 .. L |-> IF k = 0 THEN 0 ELSE g[k - 1] + s[k].tam_dato]
  <1>3. Ecuacion(h)
    <2>1. /\ h \in [0 .. L -> Nat] /\ h[0] = 0
          /\ \A k \in 1 .. L : h[k] = h[k - 1] + s[k].tam_dato
      BY <1>2 DEF SumaHasta
    <2>2. \A k \in 0 .. L : h[k] = IF k = 0 THEN 0 ELSE h[k - 1] + s[k].tam_dato
      BY <2>1
    <2>3. QED
      BY <2>1, <2>2
  <1>4. Acumulado(s) = CHOOSE g : Ecuacion(g)
    BY DEF Acumulado
  <1>5. Ecuacion(Acumulado(s))
    BY <1>3, <1>4
  <1>6. PICK f : f = Acumulado(s)
    OBVIOUS
  <1>7. /\ DOMAIN f = 0 .. L /\ f[0] = 0
        /\ \A k \in 1 .. L : f[k] = f[k - 1] + s[k].tam_dato
    BY <1>5, <1>6
  <1> DEFINE N == {k \in 0 .. L : f[k] \notin Nat}
  <1>8. ASSUME N # {}
        PROVE  FALSE
    <2>1. N \subseteq Nat
      OBVIOUS
    <2>2. PICK m \in N : \A n \in N : m <= n
      BY <1>8, <2>1, Minimo
    <2>3. m \in 1 .. L /\ m - 1 \in 0 .. L /\ m - 1 \notin N
      BY <1>7, <2>2
    <2>4. f[m - 1] \in Nat /\ f[m] = f[m - 1] + s[m].tam_dato
      BY <1>7, <2>3
    <2>5. QED
      BY <1>1, <2>2, <2>3, <2>4
  <1>9. f = [k \in 0 .. L |-> f[k]]
    BY <1>5, <1>6
  <1>10. f \in [0 .. L -> Nat]
    BY <1>8, <1>9
  <1>11. QED
    BY <1>6, <1>7, <1>10 DEF SumaHasta

\* The bytes from x to y, and two such pieces one after the other.
Corte(s, x, y) == SubSeq(s, x + 1, y)

LEMMA CorteBien ==
  ASSUME NEW V, NEW dato \in Seq(V), NEW D \in Nat, Largo(dato) = D,
         NEW x \in Nat, NEW y \in Nat, x <= y, y <= D
  PROVE  /\ Corte(dato, x, y) \in Seq(V) /\ Largo(Corte(dato, x, y)) = y - x
         /\ \A j \in 1 .. y - x : Corte(dato, x, y)[j] = dato[x + j]
  <1>1. PICK z \in Int : z = x + 1
    OBVIOUS
  <1>2. \A j \in z .. y : dato[j] \in V
    BY <1>1, ElementOfSeq DEF Largo
  <1>3. /\ SubSeq(dato, z, y) \in Seq(V)
        /\ Len(SubSeq(dato, z, y)) = IF z <= y THEN y - z + 1 ELSE 0
        /\ \A j \in 1 .. y - z + 1 : SubSeq(dato, z, y)[j] = dato[z + j - 1]
    BY <1>2, SubSeqProperties
  <1>4. /\ (IF z <= y THEN y - z + 1 ELSE 0) = y - x /\ y - z + 1 = y - x
        /\ \A j \in 1 .. y - x : z + j - 1 = x + j
    BY <1>1
  <1>5. Corte(dato, x, y) = SubSeq(dato, z, y)
    BY <1>1 DEF Corte
  <1>6. \A j \in 1 .. y - x : SubSeq(dato, z, y)[j] = dato[x + j]
    BY <1>3, <1>4
  <1>7. QED
    BY <1>3, <1>4, <1>5, <1>6 DEF Largo

LEMMA SumaCrece ==
  ASSUME NEW h, NEW s, NEW L \in Nat, SumaHasta(h, s, L),
         \A k \in 1 .. L : s[k].tam_dato \in Nat
  PROVE  /\ \A k \in 1 .. L : h[k - 1] <= h[k]
         /\ \A k \in 0 .. L : h[k] \in Nat /\ h[k] <= h[L]
  <1>1. /\ \A k \in 0 .. L : h[k] \in Nat
        /\ \A k \in 1 .. L : h[k] = h[k - 1] + s[k].tam_dato
    BY DEF SumaHasta
  <1>2. ASSUME NEW k \in 1 .. L
        PROVE  h[k - 1] <= h[k]
    <2>1. k - 1 \in 0 .. L
      OBVIOUS
    <2>2. QED
      BY <1>1, <2>1
  <1> DEFINE N == {n \in 0 .. L : ~(h[L - n] <= h[L])}
  <1>3. ASSUME N # {}
        PROVE  FALSE
    <2>1. N \subseteq Nat
      OBVIOUS
    <2>2. PICK m \in N : \A n \in N : m <= n
      BY <1>3, <2>1, Minimo
    <2>3. h[L] \in Nat /\ m # 0
      <3>1. L \in 0 .. L /\ L - 0 = L
        OBVIOUS
      <3>2. h[L] \in Nat /\ h[L - 0] <= h[L]
        BY <1>1, <3>1
      <3>3. QED
        BY <2>2, <3>2
    <2>4. m - 1 \in 0 .. L /\ m - 1 \notin N
      BY <2>2, <2>3
    <2>5. h[L - (m - 1)] <= h[L]
      BY <2>4
    <2>6. L - m \in 0 .. L /\ L - (m - 1) \in 1 .. L /\ L - (m - 1) - 1 = L - m
      BY <2>3
    <2>7. h[L - m] <= h[L - (m - 1)] /\ h[L - m] \in Nat /\ h[L - (m - 1)] \in Nat
      BY <1>1, <1>2, <2>6
    <2>8. h[L - m] <= h[L]
      BY <2>3, <2>5, <2>7
    <2>9. QED
      BY <2>2, <2>8
  <1>4. ASSUME NEW k \in 0 .. L
        PROVE  h[k] <= h[L]
    <2>1. PICK n \in 0 .. L : n = L - k
      OBVIOUS
    <2>2. h[L - n] <= h[L]
      BY <1>3
    <2>3. L - n = k
      BY <2>1
    <2>4. QED
      BY <2>2, <2>3
  <1>5. QED
    BY <1>1, <1>2, <1>4

LEMMA SumaUnica ==
  ASSUME NEW s, NEW L \in Nat, NEW h, SumaHasta(h, s, L), NEW a, SumaHasta(a, s, L)
  PROVE  \A k \in 0 .. L : a[k] = h[k]
  <1>1. /\ \A k \in 1 .. L : h[k] = h[k - 1] + s[k].tam_dato
        /\ \A k \in 1 .. L : a[k] = a[k - 1] + s[k].tam_dato
        /\ h[0] = 0 /\ a[0] = 0
    BY DEF SumaHasta
  <1> DEFINE N == {k \in 0 .. L : a[k] # h[k]}
  <1>2. ASSUME N # {}
        PROVE  FALSE
    <2>1. N \subseteq Nat
      OBVIOUS
    <2>2. PICK m \in N : \A n \in N : m <= n
      BY <1>2, <2>1, Minimo
    <2>3. m \in 1 .. L /\ m - 1 \in 0 .. L /\ m - 1 \notin N
      BY <1>1, <2>2
    <2>4. a[m - 1] = h[m - 1]
      BY <2>3
    <2>5. QED
      BY <1>1, <2>2, <2>3, <2>4
  <1>3. QED
    BY <1>2

=============================================================================
