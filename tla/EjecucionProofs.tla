-------------------------- MODULE EjecucionProofs --------------------------
(***************************************************************************)
(* Proofs about Ejecucion, for any programs, any number of frames, any     *)
(* page size, width of the registers and TLB: types, frames of one page    *)
(* each, one entry for a page in the TLB, and how far LRU is from taking   *)
(* out the entry whose last use is the oldest.                             *)
(*                                                                         *)
(* EjecucionInv, the inductive invariant, adds what these need: the age of *)
(* an entry counts the insertions since its last use (Edades), of which    *)
(* there are no fewer for an older use (Orden), and an interface holds as  *)
(* many bytes as the requests it has still to serve (Servicio), without    *)
(* which set_memoria would write past the datum.                           *)
(*                                                                         *)
(* Before the steps come the facts about the operators they use: the folds *)
(* (VictimaLru, EscribirTodas, LeerTodas, DeBytes), the mmu, whose         *)
(* requests address the memory and ask for the bytes of the access, the    *)
(* bytes of a register, which read back give a value of its width, and the *)
(* search of free frames, by rank.                                         *)
(***************************************************************************)
EXTENDS Ejecucion, MensajesProofs

-----------------------------------------------------------------------------
(***************************************************************************)
(* Sets of numbers.                                                        *)
(***************************************************************************)
LEMMA Maximo ==
  ASSUME NEW n \in Nat, NEW S, S \subseteq 0 .. n, S # {}
  PROVE  /\ Max(S) \in S /\ \A y \in S : Max(S) >= y
  <1> DEFINE D == {k \in Nat : n - k \in S}
  <1>1. D # {}
    <2>1. PICK x \in S : TRUE
      OBVIOUS
    <2>2. n - x \in Nat /\ n - (n - x) = x
      OBVIOUS
    <2>3. QED
      BY <2>2
  <1>2. PICK m \in D : \A k \in D : m <= k
    BY <1>1, Minimo
  <1>3. n - m \in S
    OBVIOUS
  <1>4. ASSUME NEW y \in S
        PROVE  n - m >= y
    <2>1. n - y \in Nat /\ n - (n - y) = y
      OBVIOUS
    <2>2. m <= n - y
      BY <1>2, <2>1
    <2>3. QED
      BY <2>2
  <1>5. \E x \in S : \A y \in S : x >= y
    BY <1>3, <1>4
  <1>6. QED
    BY <1>5 DEF Max

LEMMA Menor ==
  ASSUME NEW S, S \subseteq Nat, S # {}
  PROVE  Min(S) \in S /\ \A y \in S : Min(S) <= y
  <1>1. \E x \in S : \A y \in S : x <= y
    BY Minimo
  <1>2. QED
    BY <1>1 DEF Min

\* The first n numbers, one by one.
LEMMA Prefijos ==
  ASSUME NEW n \in Nat, n # 0
  PROVE  /\ 1 .. n # {} /\ Max(1 .. n) = n /\ (1 .. n) \ {n} = 1 .. n - 1 /\ n - 1 \in Nat
  <1>1. 1 .. n \subseteq 0 .. n /\ n \in 1 .. n
    OBVIOUS
  <1>2. Max(1 .. n) \in 1 .. n /\ Max(1 .. n) >= n
    BY <1>1, Maximo
  <1>3. QED
    BY <1>1, <1>2

-----------------------------------------------------------------------------
(***************************************************************************)
(* Folds.  What MapThenFoldSet iterates exists, whatever the choice.       *)
(***************************************************************************)
ValorDe(g, F, b, c, s) == IF s = {} THEN b ELSE F[<<c[s], g[s \ {c[s]}]>>]

Iteracion(g, n, F, b, c) == g = [s \in SUBSET (1 .. n) |-> ValorDe(g, F, b, c, s)]

\* As far as the sets of m elements.
Chicos(n, m) == {s \in SUBSET (1 .. n) : Cardinality(s) <= m}

Parte(g, n, m, V, F, b, c) ==
  /\ g \in [Chicos(n, m) -> V]
  /\ \A s \in Chicos(n, m) : g[s] = ValorDe(g, F, b, c, s)

LEMMA SinUno ==
  ASSUME NEW n \in Nat, NEW s \in SUBSET (1 .. n)
  PROVE  /\ Cardinality(s) \in 0 .. n /\ (Cardinality(s) = 0 <=> s = {})
         /\ \A x \in s : /\ s \ {x} \in SUBSET (1 .. n)
                         /\ Cardinality(s \ {x}) = Cardinality(s) - 1
  <1>1. IsFiniteSet(1 .. n) /\ Cardinality(1 .. n) = n
    <2>1. 1 \in Int /\ n \in Int
      OBVIOUS
    <2>2. IsFiniteSet(1 .. n) /\ Cardinality(1 .. n) = IF 1 > n THEN 0 ELSE n - 1 + 1
      BY <2>1, FS_Interval
    <2>3. QED
      BY <2>2
  <1>2. IsFiniteSet(s) /\ Cardinality(s) <= n
    BY <1>1, FS_Subset
  <1>3. Cardinality(s) \in Nat /\ (Cardinality(s) = 0 <=> s = {})
    BY <1>2, FS_CardinalityType, FS_EmptySet
  <1>4. ASSUME NEW x \in s
        PROVE  Cardinality(s \ {x}) = Cardinality(s) - 1
    BY <1>2, FS_RemoveElement
  <1>5. QED
    BY <1>2, <1>3, <1>4

LEMMA UnPasoMas ==
  ASSUME NEW n \in Nat, NEW m \in Nat, m # 0, NEW V, NEW b \in V,
         NEW F \in [(1 .. n) \X V -> V], NEW c,
         \A s \in SUBSET (1 .. n) : s # {} => c[s] \in s,
         NEW g, Parte(g, n, m - 1, V, F, b, c)
  PROVE  \E h : Parte(h, n, m, V, F, b, c)
  <1>1. PICK h : h = [s \in Chicos(n, m) |-> ValorDe(g, F, b, c, s)]
    OBVIOUS
  <1>2. ASSUME NEW s \in Chicos(n, m), s # {}
        PROVE  /\ c[s] \in 1 .. n /\ s \ {c[s]} \in Chicos(n, m - 1)
               /\ g[s \ {c[s]}] \in V
    <2>1. s \in SUBSET (1 .. n) /\ Cardinality(s) <= m
      BY DEF Chicos
    <2>2. PICK x \in s : x = c[s]
      BY <1>2, <2>1
    <2>3. /\ s \ {x} \in SUBSET (1 .. n) /\ Cardinality(s \ {x}) = Cardinality(s) - 1
          /\ Cardinality(s) \in 0 .. n
      BY <2>1, SinUno
    <2>4. s \ {x} \in Chicos(n, m - 1)
      BY <2>1, <2>3 DEF Chicos
    <2>5. g[s \ {x}] \in V
      BY <2>4 DEF Parte
    <2>6. QED
      BY <2>1, <2>2, <2>4, <2>5
  <1>3. ASSUME NEW s \in Chicos(n, m)
        PROVE  ValorDe(g, F, b, c, s) \in V
    <2>1. CASE s = {}
      BY <2>1 DEF ValorDe
    <2>2. CASE s # {}
      <3>1. PICK x \in 1 .. n : x = c[s]
        BY <1>2, <2>2
      <3>2. PICK v \in V : v = g[s \ {c[s]}]
        BY <1>2, <2>2
      <3>3. F[<<x, v>>] \in V
        OBVIOUS
      <3>4. QED
        BY <2>2, <3>1, <3>2, <3>3 DEF ValorDe
    <2>3. QED
      BY <2>1, <2>2
  <1>4. h \in [Chicos(n, m) -> V]
    BY <1>1, <1>3
  <1>5. ASSUME NEW s \in Chicos(n, m - 1)
        PROVE  h[s] = g[s]
    <2>1. s \in Chicos(n, m)
      BY SinUno DEF Chicos
    <2>2. h[s] = ValorDe(g, F, b, c, s)
      BY <1>1, <2>1
    <2>3. g[s] = ValorDe(g, F, b, c, s)
      BY DEF Parte
    <2>4. QED
      BY <2>2, <2>3
  <1>6. ASSUME NEW s \in Chicos(n, m)
        PROVE  h[s] = ValorDe(h, F, b, c, s)
    <2>1. h[s] = ValorDe(g, F, b, c, s)
      BY <1>1
    <2>2. CASE s = {}
      BY <2>1, <2>2 DEF ValorDe
    <2>3. CASE s # {}
      <3>1. h[s \ {c[s]}] = g[s \ {c[s]}]
        BY <1>2, <1>5, <2>3
      <3>2. QED
        BY <2>1, <2>3, <3>1 DEF ValorDe
    <2>4. QED
      BY <2>2, <2>3
  <1>7. QED
    BY <1>4, <1>6 DEF Parte

LEMMA HayIteracion ==
  ASSUME NEW n \in Nat, NEW V, NEW b \in V, NEW F \in [(1 .. n) \X V -> V], NEW c,
         \A s \in SUBSET (1 .. n) : s # {} => c[s] \in s
  PROVE  \E g \in [SUBSET (1 .. n) -> V] : Iteracion(g, n, F, b, c)
  <1> DEFINE Hay(m) == \E g : Parte(g, n, m, V, F, b, c)
  <1>1. Hay(0)
    <2>1. \A s \in Chicos(n, 0) : s = {}
      <3>1. ASSUME NEW s \in Chicos(n, 0)
            PROVE  s = {}
        <4>1. s \in SUBSET (1 .. n) /\ Cardinality(s) <= 0
          BY DEF Chicos
        <4>2. Cardinality(s) \in 0 .. n /\ (Cardinality(s) = 0 <=> s = {})
          BY <4>1, SinUno
        <4>3. QED
          BY <4>1, <4>2
      <3>2. QED
        BY <3>1
    <2>2. PICK g : g = [s \in Chicos(n, 0) |-> b]
      OBVIOUS
    <2>3. Parte(g, n, 0, V, F, b, c)
      BY <2>1, <2>2 DEF Parte, ValorDe
    <2>4. QED
      BY <2>3
  <1>2. ASSUME NEW m \in Nat, m # 0, Hay(m - 1)
        PROVE  Hay(m)
    BY <1>2, UnPasoMas
  <1> HIDE DEF Hay
  <1>3. \A m \in Nat : Hay(m)
    <2> DEFINE N == {m \in Nat : ~Hay(m)}
    <2>1. ASSUME N # {}
          PROVE  FALSE
      <3>1. PICK m \in N : \A k \in N : m <= k
        BY <2>1, Minimo
      <3>2. m # 0 /\ m - 1 \in Nat /\ m - 1 \notin N
        BY <1>1, <3>1
      <3>3. QED
        BY <1>2, <3>1, <3>2
    <2>2. QED
      BY <2>1
  <1>4. PICK g : Parte(g, n, n, V, F, b, c)
    BY <1>3 DEF Hay
  <1>5. Chicos(n, n) = SUBSET (1 .. n)
    <2>1. ASSUME NEW s \in SUBSET (1 .. n)
          PROVE  Cardinality(s) <= n
      <3>1. Cardinality(s) \in 0 .. n
        BY SinUno
      <3>2. QED
        BY <3>1
    <2>2. QED
      BY <2>1 DEF Chicos
  <1>6. /\ g \in [SUBSET (1 .. n) -> V]
        /\ \A s \in SUBSET (1 .. n) : g[s] = ValorDe(g, F, b, c, s)
    BY <1>4, <1>5 DEF Parte
  <1>7. Iteracion(g, n, F, b, c)
    BY <1>6 DEF Iteracion
  <1>8. QED
    BY <1>6, <1>7

\* The choice of a fold from the left.
ElMaximo(n) == [s \in SUBSET (1 .. n) |-> Max(s)]

LEMMA EligeMaximo ==
  ASSUME NEW n \in Nat
  PROVE  \A s \in SUBSET (1 .. n) : s # {} => ElMaximo(n)[s] \in s /\ ElMaximo(n)[s] = Max(s)
  <1>1. ASSUME NEW s \in SUBSET (1 .. n), s # {}
        PROVE  Max(s) \in s
    <2>1. s \subseteq 0 .. n
      OBVIOUS
    <2>2. QED
      BY <1>1, <2>1, Maximo
  <1>2. QED
    BY <1>1 DEF ElMaximo

-----------------------------------------------------------------------------
(***************************************************************************)
(* The TLB.                                                                *)
(***************************************************************************)
\* list_fold1 with tlb_entry_mayor_uso_tiempo.
PasosDeMayor(f, s, b) ==
  f = [S \in SUBSET (DOMAIN s) |->
         IF S = {} THEN b ELSE tlb_entry_mayor_uso_tiempo(f[S \ {Max(S)}], s[Max(S)])]

ElMayor(b, s) == FoldLeft(tlb_entry_mayor_uso_tiempo, b, s)

LEMMA HayMayor ==
  ASSUME NEW V, NEW s \in Seq(V), NEW n \in Nat, DOMAIN s = 1 .. n, NEW b \in V
  PROVE  \E f : PasosDeMayor(f, s, b) /\ ElMayor(b, s) = f[1 .. n]
  <1>1. \A k \in 1 .. n : s[k] \in V
    <2>1. s \in [1 .. Len(s) -> V]
      BY LenProperties
    <2>2. QED
      BY <2>1
  <1>2. PICK F : F = [q \in (1 .. n) \X V |-> tlb_entry_mayor_uso_tiempo(q[2], s[q[1]])]
    OBVIOUS
  <1>3. /\ F \in [(1 .. n) \X V -> V]
        /\ \A k \in 1 .. n, v \in V : F[<<k, v>>] = tlb_entry_mayor_uso_tiempo(v, s[k])
    BY <1>1, <1>2 DEF tlb_entry_mayor_uso_tiempo
  <1>4. PICK c : c = ElMaximo(n)
    OBVIOUS
  <1>5. \A S \in SUBSET (1 .. n) : S # {} => c[S] \in S /\ c[S] = Max(S)
    BY <1>4, EligeMaximo
  <1>6. PICK g \in [SUBSET (1 .. n) -> V] : Iteracion(g, n, F, b, c)
    BY <1>3, <1>5, HayIteracion
  <1>7. ASSUME NEW S \in SUBSET (1 .. n)
        PROVE  g[S] = IF S = {} THEN b
                      ELSE tlb_entry_mayor_uso_tiempo(g[S \ {Max(S)}], s[Max(S)])
    <2>1. g[S] = ValorDe(g, F, b, c, S)
      BY <1>6 DEF Iteracion
    <2>2. CASE S = {}
      BY <2>1, <2>2 DEF ValorDe
    <2>3. CASE S # {}
      <3>1. PICK x \in 1 .. n : x = c[S] /\ x = Max(S)
        BY <1>5, <2>3
      <3>2. PICK v \in V : v = g[S \ {x}]
        OBVIOUS
      <3>3. g[S] = F[<<x, v>>]
        BY <2>1, <2>3, <3>1, <3>2 DEF ValorDe
      <3>4. QED
        BY <1>3, <2>3, <3>1, <3>2, <3>3
    <2>4. QED
      BY <2>2, <2>3
  <1>8. PasosDeMayor(g, s, b)
    BY <1>6, <1>7 DEF PasosDeMayor
  <1>9. ElMayor(b, s) = (CHOOSE f : PasosDeMayor(f, s, b))[1 .. n]
    BY DEF ElMayor, FoldLeft, MapThenFoldSet, PasosDeMayor
  <1>10. QED
    BY <1>8, <1>9

\* The one taken out is an entry, and none was used before it.
LEMMA Victima ==
  ASSUME NEW V, \A e \in V : e.uso_tiempo \in Int, NEW lista \in Seq(V), lista # <<>>
  PROVE  \E k \in DOMAIN lista : /\ VictimaLru(lista) = lista[k]
                                 /\ \A j \in DOMAIN lista : lista[j].uso_tiempo <= lista[k].uso_tiempo
  <1>1. PICK n \in Nat : /\ Len(lista) = n + 1 /\ DOMAIN lista = 1 .. n + 1
                         /\ \A j \in 1 .. n + 1 : lista[j] \in V
    <2>1. Len(lista) \in Nat /\ Len(lista) # 0 /\ lista \in [1 .. Len(lista) -> V]
      BY LenProperties, EmptySeq
    <2>2. PICK n \in Nat : n = Len(lista) - 1
      <3>1. PICK l \in Nat : l = Len(lista) /\ l # 0
        BY <2>1
      <3>2. l - 1 \in Nat
        BY <3>1
      <3>3. QED
        BY <3>1, <3>2
    <2>3. Len(lista) = n + 1
      BY <2>1, <2>2
    <2>4. QED
      BY <2>1, <2>3
  <1>2. PICK s : s = Tail(lista)
    OBVIOUS
  <1>3. /\ s \in Seq(V) /\ Len(s) = n /\ DOMAIN s = 1 .. n
        /\ \A j \in 1 .. n : s[j] = lista[j + 1]
    <2>1. /\ Tail(lista) \in Seq(V) /\ Len(Tail(lista)) = Len(lista) - 1
          /\ \A j \in 1 .. Len(Tail(lista)) : Tail(lista)[j] = lista[j + 1]
      BY HeadTailProperties
    <2>2. Len(s) = n
      BY <1>1, <1>2, <2>1
    <2>3. QED
      BY <1>2, <2>1, <2>2, LenProperties
  <1>4. PICK b \in V : b = lista[1] /\ b = Head(lista)
    BY <1>1, HeadTailProperties
  <1>5. PICK f : PasosDeMayor(f, s, b) /\ VictimaLru(lista) = f[1 .. n]
    <2>1. VictimaLru(lista) = ElMayor(b, s)
      BY <1>2, <1>4 DEF VictimaLru, ElMayor
    <2>2. \E f : PasosDeMayor(f, s, b) /\ ElMayor(b, s) = f[1 .. n]
      BY <1>3, HayMayor
    <2>3. QED
      BY <2>1, <2>2
  <1>6. /\ f[1 .. 0] = b
        /\ \A k \in 1 .. n : f[1 .. k] = tlb_entry_mayor_uso_tiempo(f[1 .. k - 1], s[k])
    <2>1. \A S \in SUBSET (1 .. n) :
            f[S] = IF S = {} THEN b ELSE tlb_entry_mayor_uso_tiempo(f[S \ {Max(S)}], s[Max(S)])
      BY <1>3, <1>5 DEF PasosDeMayor
    <2>2. 1 .. 0 = {} /\ 1 .. 0 \in SUBSET (1 .. n)
      OBVIOUS
    <2>3. ASSUME NEW k \in 1 .. n
          PROVE  f[1 .. k] = tlb_entry_mayor_uso_tiempo(f[1 .. k - 1], s[k])
      <3>0. k \in Nat /\ k # 0
        OBVIOUS
      <3>1. 1 .. k # {} /\ Max(1 .. k) = k /\ (1 .. k) \ {k} = 1 .. k - 1
        BY <3>0, Prefijos
      <3>2. 1 .. k \in SUBSET (1 .. n)
        OBVIOUS
      <3>3. QED
        BY <2>1, <3>1, <3>2
    <2>4. QED
      BY <2>1, <2>2, <2>3
  <1> DEFINE P(m) == \E k \in 1 .. m + 1 :
                       /\ f[1 .. m] = lista[k]
                       /\ \A j \in 1 .. m + 1 : lista[j].uso_tiempo <= lista[k].uso_tiempo
  <1>7. P(0)
    <2>1. 1 \in 1 .. 0 + 1 /\ \A j \in 1 .. 0 + 1 : j = 1
      OBVIOUS
    <2>2. lista[1].uso_tiempo \in Int
      BY <1>4
    <2>3. QED
      BY <1>4, <1>6, <2>1, <2>2
  <1>8. ASSUME NEW m \in 1 .. n, P(m - 1)
        PROVE  P(m)
    <2>1. PICK k \in 1 .. m : /\ f[1 .. m - 1] = lista[k]
                              /\ \A j \in 1 .. m : lista[j].uso_tiempo <= lista[k].uso_tiempo
      <3>1. (m - 1) + 1 = m
        OBVIOUS
      <3>2. QED
        BY <1>8, <3>1
    <2>2. f[1 .. m] = tlb_entry_mayor_uso_tiempo(lista[k], lista[m + 1])
      BY <1>3, <1>6, <2>1
    <2>3. \A j \in 1 .. m + 1 : lista[j].uso_tiempo \in Int /\ (j = m + 1 \/ j \in 1 .. m)
      <3>1. ASSUME NEW j \in 1 .. m + 1
            PROVE  lista[j].uso_tiempo \in Int
        <4>1. j \in 1 .. n + 1
          OBVIOUS
        <4>2. lista[j] \in V
          BY <1>1, <4>1
        <4>3. QED
          BY <4>2
      <3>2. QED
        BY <3>1
    <2>4. k \in 1 .. m + 1 /\ m + 1 \in 1 .. m + 1
      OBVIOUS
    <2>5. CASE lista[k].uso_tiempo > lista[m + 1].uso_tiempo
      <3>1. f[1 .. m] = lista[k]
        BY <2>2, <2>5 DEF tlb_entry_mayor_uso_tiempo
      <3>2. \A j \in 1 .. m + 1 : lista[j].uso_tiempo <= lista[k].uso_tiempo
        BY <2>1, <2>3, <2>4, <2>5
      <3>3. QED
        BY <2>4, <3>1, <3>2
    <2>6. CASE ~(lista[k].uso_tiempo > lista[m + 1].uso_tiempo)
      <3>1. f[1 .. m] = lista[m + 1]
        BY <2>2, <2>6 DEF tlb_entry_mayor_uso_tiempo
      <3>2. \A j \in 1 .. m + 1 : lista[j].uso_tiempo <= lista[m + 1].uso_tiempo
        BY <2>1, <2>3, <2>4, <2>6
      <3>3. QED
        BY <2>4, <3>1, <3>2
    <2>7. QED
      BY <2>5, <2>6
  <1> HIDE DEF P
  <1>9. \A m \in 0 .. n : P(m)
    <2> DEFINE N == {m \in 0 .. n : ~P(m)}
    <2>1. ASSUME N # {}
          PROVE  FALSE
      <3>0. N \subseteq Nat
        OBVIOUS
      <3>1. PICK m \in N : \A k \in N : m <= k
        BY <2>1, <3>0, Minimo
      <3>2. m \in 1 .. n /\ m - 1 \in 0 .. n /\ m - 1 \notin N
        BY <1>7, <3>1
      <3>3. QED
        BY <1>8, <3>1, <3>2
    <2>2. QED
      BY <2>1
  <1>10. P(n)
    BY <1>9
  <1>11. QED
    BY <1>1, <1>5, <1>10 DEF P

\* A list without its v-th element.
SinEl(q, lista, v) ==
  /\ Len(q) = Len(lista) - 1
  /\ \A j \in 1 .. Len(lista) - 1 : q[j] = lista[IF j < v THEN j ELSE j + 1]

LEMMA QuitarUno ==
  ASSUME NEW V, NEW lista \in Seq(V), NEW k \in 1 .. Len(lista)
  PROVE  RemoveAt(lista, k) \in Seq(V) /\ SinEl(RemoveAt(lista, k), lista, k)
  <1>1. PICK n \in Nat : n = Len(lista)
    BY LenProperties
  <1>2. PICK a : a = SubSeq(lista, 1, k - 1)
    OBVIOUS
  <1>3. PICK b : b = SubSeq(lista, k + 1, n)
    OBVIOUS
  <1>4. /\ a \in Seq(V) /\ Len(a) = k - 1
        /\ \A j \in 1 .. k - 1 : a[j] = lista[j]
    BY <1>1, <1>2, SubSeqProperties, ElementOfSeq
  <1>5. /\ b \in Seq(V) /\ Len(b) = n - k
        /\ \A j \in 1 .. n - k : b[j] = lista[k + j]
    <2>1. PICK m \in Int : m = k + 1
      BY <1>1
    <2>2. \A i \in m .. n : lista[i] \in V
      BY <1>1, <2>1, ElementOfSeq
    <2>3. /\ b \in Seq(V) /\ Len(b) = IF m <= n THEN n - m + 1 ELSE 0
          /\ \A j \in 1 .. n - m + 1 : b[j] = lista[m + j - 1]
      BY <1>1, <1>3, <2>1, <2>2, SubSeqProperties
    <2>4. Len(b) = n - k /\ n - m + 1 = n - k
      <3>1. n - m + 1 = n - k /\ (m <= n \/ n - k = 0)
        BY <1>1, <2>1
      <3>2. CASE m <= n
        BY <2>3, <3>1, <3>2
      <3>3. CASE ~(m <= n)
        BY <2>3, <3>1, <3>3
      <3>4. QED
        BY <3>2, <3>3
    <2>5. \A j \in 1 .. n - k : m + j - 1 = k + j
      BY <1>1, <2>1
    <2>6. QED
      BY <2>3, <2>4, <2>5
  <1>6. PICK c : c = RemoveAt(lista, k)
    OBVIOUS
  <1>7. c = a \o b
    BY <1>1, <1>2, <1>3, <1>6 DEF RemoveAt
  <1>8. /\ c \in Seq(V) /\ Len(c) = n - 1
        /\ \A j \in 1 .. n - 1 : c[j] = IF j <= k - 1 THEN a[j] ELSE b[j - (k - 1)]
    <2>1. /\ c \in Seq(V) /\ Len(c) = Len(a) + Len(b)
          /\ \A j \in 1 .. Len(a) + Len(b) : c[j] = IF j <= Len(a) THEN a[j] ELSE b[j - Len(a)]
      BY <1>4, <1>5, <1>7, ConcatProperties
    <2>2. Len(a) = k - 1 /\ Len(a) + Len(b) = n - 1
      BY <1>1, <1>4, <1>5
    <2>3. QED
      BY <2>1, <2>2
  <1>9. ASSUME NEW j \in 1 .. n - 1
        PROVE  c[j] = lista[IF j < k THEN j ELSE j + 1]
    <2>1. CASE j < k
      <3>1. j \in 1 .. k - 1 /\ j <= k - 1
        BY <2>1
      <3>2. QED
        BY <1>4, <1>8, <2>1, <3>1
    <2>2. CASE ~(j < k)
      <3>1. ~(j <= k - 1) /\ j - (k - 1) \in 1 .. n - k /\ k + (j - (k - 1)) = j + 1
        BY <1>1, <2>2
      <3>2. c[j] = b[j - (k - 1)]
        BY <1>8, <3>1
      <3>3. b[j - (k - 1)] = lista[k + (j - (k - 1))]
        BY <1>5, <3>1
      <3>4. QED
        BY <2>2, <3>1, <3>2, <3>3
    <2>3. QED
      BY <2>1, <2>2
  <1>10. QED
    BY <1>1, <1>6, <1>8, <1>9 DEF SinEl

\* tlb_reemplazar_por_fifo and tlb_reemplazar_por_lru take one entry out, and by
\* LRU it is the victim.
LEMMA Reemplazo ==
  ASSUME NEW V, \A e \in V : e.uso_tiempo \in Int, NEW lista \in Seq(V), lista # <<>>, NEW algoritmo
  PROVE  /\ Reemplazar(lista, algoritmo) \in Seq(V)
         /\ \E v \in 1 .. Len(lista) : SinEl(Reemplazar(lista, algoritmo), lista, v)
  <1>1. PICK n \in Nat : /\ Len(lista) = n /\ n # 0 /\ DOMAIN lista = 1 .. n
    BY LenProperties, EmptySeq
  <1>2. CASE algoritmo = "FIFO"
    <2>1. PICK q : q = Tail(lista)
      OBVIOUS
    <2>2. /\ q \in Seq(V) /\ Len(q) = n - 1
          /\ \A j \in 1 .. Len(q) : q[j] = lista[j + 1]
      BY <1>1, <2>1, HeadTailProperties
    <2>3. \A j \in 1 .. n - 1 : ~(j < 1) /\ q[j] = lista[j + 1]
      BY <2>2
    <2>4. 1 \in 1 .. n /\ SinEl(q, lista, 1)
      BY <1>1, <2>2, <2>3 DEF SinEl
    <2>5. QED
      BY <1>1, <1>2, <2>1, <2>2, <2>4 DEF Reemplazar
  <1>3. CASE algoritmo # "FIFO"
    <2>1. PICK e : e = VictimaLru(lista)
      OBVIOUS
    <2>2. PICK i \in 1 .. n : e = lista[i]
      BY <1>1, <2>1, Victima
    <2>3. PICK I : I = {j \in 1 .. n : lista[j] = e}
      OBVIOUS
    <2>4. I # {} /\ I \subseteq Nat
      BY <2>2, <2>3
    <2>5. PICK k : k = Min(I)
      OBVIOUS
    <2>6. k \in 1 .. n
      <3>1. Min(I) \in I
        BY <2>4, Menor
      <3>2. QED
        BY <2>3, <2>5, <3>1
    <2>7. Reemplazar(lista, algoritmo) = RemoveFirst(lista, e)
      BY <1>3, <2>1 DEF Reemplazar
    <2>8. RemoveFirst(lista, e) = RemoveAt(lista, k)
      <3>1. \E j \in 1 .. Len(lista) : lista[j] = e
        BY <1>1, <2>2
      <3>2. SelectInSeq(lista, LAMBDA v : v = e) = k
        BY <1>1, <2>3, <2>4, <2>5 DEF SelectInSeq
      <3>3. QED
        BY <3>1, <3>2 DEF RemoveFirst
    <2>9. RemoveAt(lista, k) \in Seq(V) /\ SinEl(RemoveAt(lista, k), lista, k)
      BY <1>1, <2>6, QuitarUno
    <2>10. QED
      BY <1>1, <2>6, <2>7, <2>8, <2>9
  <1>4. QED
    BY <1>2, <1>3

Marco == 0 .. Frames - 1

EntradaTlb == [pid : Procesos, pagina : Nat, frame : Marco, uso_tiempo : Int,
               ultimo : Int, previas : Int]

\* The age of every entry counts the insertions since its last use.
Edades(t) ==
  \A k \in DOMAIN t.lista : t.lista[k].uso_tiempo = t.inserciones - t.lista[k].previas

\* No fewer insertions came before a later use.
Orden(t) ==
  /\ \A k \in DOMAIN t.lista : t.lista[k].ultimo < t.usos /\ t.lista[k].previas <= t.inserciones
  /\ \A j, k \in DOMAIN t.lista :
       t.lista[j].ultimo < t.lista[k].ultimo => t.lista[j].previas <= t.lista[k].previas

\* No two entries are of the same page.
Distintas(lista) ==
  \A j, k \in DOMAIN lista :
    lista[j].pid = lista[k].pid /\ lista[j].pagina = lista[k].pagina => j = k

TlbBien(t, n) ==
  /\ t \in [lista : Seq(EntradaTlb), inserciones : Nat, usos : Nat]
  /\ Edades(t) /\ Orden(t) /\ Distintas(t.lista)
  /\ Len(t.lista) <= n

\* A hit.
LEMMA Acierto ==
  ASSUME NEW t, NEW n \in Nat, TlbBien(t, n), NEW pid, NEW pagina,
         tlb_tiene_entrada(t, pid, pagina)
  PROVE  /\ TlbBien(obtener_frame_tlb(t, pid, pagina).tlb, n)
         /\ obtener_frame_tlb(t, pid, pagina).frame \in Marco
  <1>1. PICK l \in Nat : /\ Len(t.lista) = l /\ DOMAIN t.lista = 1 .. l
                         /\ \A j \in 1 .. l : t.lista[j] \in EntradaTlb
    <2>1. t.lista \in Seq(EntradaTlb)
      BY DEF TlbBien
    <2>2. PICK s \in Seq(EntradaTlb) : s = t.lista
      BY <2>1
    <2>3. Len(s) \in Nat /\ DOMAIN s = 1 .. Len(s) /\ \A j \in 1 .. Len(s) : s[j] \in EntradaTlb
      BY LenProperties, ElementOfSeq
    <2>4. QED
      BY <2>2, <2>3
  <1>2. PICK k \in 1 .. l : k = Entrada(t, pid, pagina)
    <2>1. PICK I : I = {j \in 1 .. l : EsEntrada(pid, pagina, t.lista[j])}
      OBVIOUS
    <2>2. I # {} /\ I \subseteq Nat
      BY <1>1, <2>1 DEF tlb_tiene_entrada
    <2>3. Entrada(t, pid, pagina) = Min(I)
      BY <1>1, <2>1, <2>2 DEF Entrada, SelectInSeq
    <2>4. Min(I) \in 1 .. l
      BY <2>1, <2>2, Menor
    <2>5. QED
      BY <2>3, <2>4
  <1>3. PICK u : u = obtener_frame_tlb(t, pid, pagina).tlb
    OBVIOUS
  <1>4. PICK e \in EntradaTlb : e = [t.lista[k] EXCEPT !.uso_tiempo = 0, !.ultimo = t.usos,
                                                       !.previas = t.inserciones]
    <2>1. PICK d \in EntradaTlb : d = t.lista[k]
      BY <1>1
    <2>2. PICK x \in Int, y \in Int : x = t.usos /\ y = t.inserciones
      BY DEF TlbBien
    <2>3. PICK e : e = [d EXCEPT !.uso_tiempo = 0, !.ultimo = x, !.previas = y]
      OBVIOUS
    <2>4. e \in EntradaTlb
      <3>1. PICK b : b = [d EXCEPT !.uso_tiempo = 0]
        OBVIOUS
      <3>2. b \in EntradaTlb
        BY <3>1 DEF EntradaTlb
      <3>3. PICK c : c = [b EXCEPT !.ultimo = x]
        OBVIOUS
      <3>4. c \in EntradaTlb
        BY <3>2, <3>3 DEF EntradaTlb
      <3>5. e = [c EXCEPT !.previas = y]
        BY <2>3, <3>1, <3>3
      <3>6. QED
        BY <3>4, <3>5 DEF EntradaTlb
    <2>5. QED
      BY <2>1, <2>2, <2>3, <2>4
  <1>5. u = [t EXCEPT !.lista[k].uso_tiempo = 0, !.lista[k].ultimo = t.usos,
                      !.lista[k].previas = t.inserciones, !.usos = @ + 1]
    BY <1>2, <1>3 DEF obtener_frame_tlb
  <1>6. PICK q : q = [t.lista EXCEPT ![k] = e]
    OBVIOUS
  <1>7. /\ u.inserciones = t.inserciones /\ u.lista = q /\ u.usos = t.usos + 1
        /\ u = [lista |-> q, inserciones |-> t.inserciones, usos |-> t.usos + 1]
    BY <1>1, <1>4, <1>5, <1>6 DEF TlbBien
  <1>8. /\ DOMAIN q = 1 .. l /\ \A j \in 1 .. l : q[j] = IF j = k THEN e ELSE t.lista[j]
        /\ q = [j \in 1 .. l |-> q[j]]
    BY <1>1, <1>6
  <1>9. \A j \in 1 .. l : q[j] \in EntradaTlb
    BY <1>1, <1>8
  <1>10. q \in Seq(EntradaTlb) /\ Len(q) = l
    BY <1>8, <1>9, SeqDef, LenProperties
  <1>11. /\ e.uso_tiempo = 0 /\ e.ultimo = t.usos /\ e.previas = t.inserciones
         /\ e.pid = t.lista[k].pid /\ e.pagina = t.lista[k].pagina
    BY <1>1, <1>4 DEF EntradaTlb
  <1>12. t.inserciones \in Nat /\ t.usos \in Nat
    BY DEF TlbBien
  <1>13. Edades(u) /\ Orden(u)
    <2>1. Edades(u)
      BY <1>1, <1>7, <1>8, <1>11, <1>12 DEF Edades, TlbBien
    <2>2. \A j \in 1 .. l :
            /\ t.lista[j].ultimo \in Int /\ t.lista[j].previas \in Int
            /\ t.lista[j].ultimo < t.usos /\ t.lista[j].previas <= t.inserciones
      BY <1>1 DEF TlbBien, Orden, EntradaTlb
    <2>3. \A j \in 1 .. l : q[j].ultimo < t.usos + 1 /\ q[j].previas <= t.inserciones
      BY <1>8, <1>11, <1>12, <2>2
    <2>4. ASSUME NEW i \in 1 .. l, NEW j \in 1 .. l, q[i].ultimo < q[j].ultimo
          PROVE  q[i].previas <= q[j].previas
      <3>1. CASE j = k
        BY <1>8, <1>11, <2>3, <3>1
      <3>2. CASE j # k /\ i = k
        BY <1>8, <1>11, <1>12, <2>2, <2>4, <3>2
      <3>3. CASE j # k /\ i # k
        <4>1. q[i] = t.lista[i] /\ q[j] = t.lista[j]
          BY <1>8, <3>3
        <4>2. QED
          BY <1>1, <2>4, <4>1 DEF TlbBien, Orden
      <3>4. QED
        BY <3>1, <3>2, <3>3
    <2>5. QED
      BY <1>7, <1>8, <2>1, <2>3, <2>4 DEF Orden
  <1>14. \A j \in 1 .. l : q[j].pid = t.lista[j].pid /\ q[j].pagina = t.lista[j].pagina
    BY <1>8, <1>11
  <1>15. Distintas(u.lista)
    <2>1. Distintas(t.lista)
      BY DEF TlbBien
    <2>2. \A i, j \in 1 .. l : q[i].pid = q[j].pid /\ q[i].pagina = q[j].pagina => i = j
      BY <1>1, <1>14, <2>1 DEF Distintas
    <2>3. QED
      BY <1>7, <1>8, <2>2 DEF Distintas
  <1>16. TlbBien(u, n)
    BY <1>1, <1>7, <1>10, <1>12, <1>13, <1>15 DEF TlbBien
  <1>17. obtener_frame_tlb(t, pid, pagina).frame \in Marco
    BY <1>1, <1>2 DEF obtener_frame_tlb, EntradaTlb
  <1>18. QED
    BY <1>3, <1>16, <1>17

\* What is left of the list after making room, if any is needed.
Quedan(t, n, algoritmo) ==
  IF Len(t.lista) < n THEN t.lista ELSE Reemplazar(t.lista, algoritmo)

LEMMA HaceLugar ==
  ASSUME NEW t, NEW n \in Nat \ {0}, TlbBien(t, n), NEW algoritmo,
         NEW q, q = Quedan(t, n, algoritmo)
  PROVE  /\ q \in Seq(EntradaTlb) /\ Len(q) < n
         /\ \A j \in 1 .. Len(q) : \E i \in DOMAIN t.lista : q[j] = t.lista[i]
         /\ Distintas(q)
  <1>1. PICK l \in Nat : /\ Len(t.lista) = l /\ DOMAIN t.lista = 1 .. l /\ l <= n
                         /\ t.lista \in Seq(EntradaTlb)
    <2>1. t.lista \in Seq(EntradaTlb) /\ Len(t.lista) <= n
      BY DEF TlbBien
    <2>2. QED
      BY <2>1, LenProperties
  <1>2. CASE l < n
    BY <1>1, <1>2 DEF TlbBien, Quedan
  <1>3. CASE ~(l < n)
    <2>1. q = Reemplazar(t.lista, algoritmo) /\ l = n
      BY <1>1, <1>3 DEF Quedan
    <2>2. t.lista # <<>>
      BY <1>1, <2>1, EmptySeq
    <2>3. \A e \in EntradaTlb : e.uso_tiempo \in Int
      BY DEF EntradaTlb
    <2>4. q \in Seq(EntradaTlb) /\ \E v \in 1 .. Len(t.lista) : SinEl(q, t.lista, v)
      BY <1>1, <2>1, <2>2, <2>3, Reemplazo
    <2>5. PICK v \in 1 .. l : SinEl(q, t.lista, v)
      BY <1>1, <2>4
    <2>6. /\ Len(q) = l - 1 /\ DOMAIN q = 1 .. l - 1
          /\ \A j \in 1 .. l - 1 : q[j] = t.lista[IF j < v THEN j ELSE j + 1]
      BY <1>1, <2>4, <2>5, LenProperties DEF SinEl
    <2>7. \A j \in 1 .. l - 1 : (IF j < v THEN j ELSE j + 1) \in 1 .. l
      OBVIOUS
    <2>8. \A i, j \in 1 .. l - 1 :
            (IF i < v THEN i ELSE i + 1) = (IF j < v THEN j ELSE j + 1) => i = j
      OBVIOUS
    <2>9. Distintas(q)
      <3>1. ASSUME NEW i \in 1 .. l - 1, NEW j \in 1 .. l - 1,
                   q[i].pid = q[j].pid, q[i].pagina = q[j].pagina
            PROVE  i = j
        <4>1. PICK a \in 1 .. l : a = IF i < v THEN i ELSE i + 1
          BY <2>7
        <4>2. PICK b \in 1 .. l : b = IF j < v THEN j ELSE j + 1
          BY <2>7
        <4>3. q[i] = t.lista[a] /\ q[j] = t.lista[b]
          BY <2>6, <4>1, <4>2
        <4>4. a = b
          BY <1>1, <3>1, <4>3 DEF TlbBien, Distintas
        <4>5. QED
          BY <2>8, <4>1, <4>2, <4>4
      <3>2. QED
        BY <2>6, <3>1 DEF Distintas
    <2>10. QED
      <3>1. Len(q) < n /\ DOMAIN t.lista = 1 .. l
        BY <1>1, <2>1, <2>6
      <3>2. \A j \in 1 .. l - 1 : \E i \in 1 .. l : q[j] = t.lista[i]
        BY <2>6, <2>7
      <3>3. QED
        BY <2>4, <2>6, <2>9, <3>1, <3>2
  <1>4. QED
    BY <1>2, <1>3

\* A miss, with a TLB.
LEMMA Agrega ==
  ASSUME NEW t, NEW n \in Nat \ {0}, TlbBien(t, n), NEW algoritmo,
         NEW pid \in Procesos, NEW pagina \in Nat, NEW frame \in Marco,
         ~tlb_tiene_entrada(t, pid, pagina)
  PROVE  TlbBien(agregar_entrada_tlb(t, pid, pagina, frame, n, algoritmo), n)
  <1>1. PICK q : q = Quedan(t, n, algoritmo)
    OBVIOUS
  <1>2. PICK m \in Nat :
          /\ q \in Seq(EntradaTlb) /\ Len(q) = m /\ m < n /\ DOMAIN q = 1 .. m
          /\ \A j \in 1 .. m : q[j] \in EntradaTlb /\ \E i \in DOMAIN t.lista : q[j] = t.lista[i]
          /\ Distintas(q)
    <2>1. /\ q \in Seq(EntradaTlb) /\ Len(q) < n
          /\ \A j \in 1 .. Len(q) : \E i \in DOMAIN t.lista : q[j] = t.lista[i]
          /\ Distintas(q)
      BY <1>1, HaceLugar
    <2>2. PICK m \in Nat : m = Len(q) /\ DOMAIN q = 1 .. m
      BY <2>1, LenProperties
    <2>3. \A j \in 1 .. m : q[j] \in EntradaTlb
      BY <2>1, <2>2, ElementOfSeq
    <2>4. QED
      BY <2>1, <2>2, <2>3
  <1>3. t.inserciones \in Nat /\ t.usos \in Nat
    BY DEF TlbBien
  <1>4. PICK e \in EntradaTlb : /\ e = tlb_entry_crear(t, pid, pagina, frame)
                                /\ e.uso_tiempo = 0 /\ e.ultimo = t.usos
                                /\ e.previas = t.inserciones
                                /\ e.pid = pid /\ e.pagina = pagina
    <2>1. PICK x \in Nat, y \in Nat : x = t.usos /\ y = t.inserciones
      BY <1>3
    <2>2. PICK e : e = [pid |-> pid, pagina |-> pagina, frame |-> frame, uso_tiempo |-> 0,
                        ultimo |-> x, previas |-> y]
      OBVIOUS
    <2>3. /\ e \in EntradaTlb /\ e.uso_tiempo = 0 /\ e.ultimo = x /\ e.previas = y
          /\ e.pid = pid /\ e.pagina = pagina
      BY <2>2 DEF EntradaTlb
    <2>4. QED
      BY <2>1, <2>2, <2>3 DEF tlb_entry_crear
  <1>5. PICK r : r = Append(q, e)
    OBVIOUS
  <1>6. /\ r \in Seq(EntradaTlb) /\ Len(r) = m + 1 /\ DOMAIN r = 1 .. m + 1
        /\ \A j \in 1 .. m : r[j] = q[j]
        /\ r[m + 1] = e
    BY <1>2, <1>5, AppendProperties, LenProperties
  <1>7. PICK s : s = [k \in DOMAIN r |-> [r[k] EXCEPT !.uso_tiempo = @ + 1]]
    OBVIOUS
  <1>8. PICK u : u = agregar_entrada_tlb(t, pid, pagina, frame, n, algoritmo)
    OBVIOUS
  <1>9. u = [lista |-> s, inserciones |-> t.inserciones + 1, usos |-> t.usos + 1]
    BY <1>1, <1>4, <1>5, <1>7, <1>8 DEF agregar_entrada_tlb, Quedan
  <1>10. \A j \in 1 .. m + 1 : j = m + 1 \/ j \in 1 .. m
    BY <1>2
  <1>11. \A j \in 1 .. m + 1 :
           /\ r[j] \in EntradaTlb
           /\ r[j].uso_tiempo = t.inserciones - r[j].previas
           /\ j # m + 1 => ~(r[j].pid = pid /\ r[j].pagina = pagina)
    <2>1. ASSUME NEW j \in 1 .. m
          PROVE  /\ r[j].uso_tiempo = t.inserciones - r[j].previas
                 /\ ~(r[j].pid = pid /\ r[j].pagina = pagina)
      <3>1. PICK i \in DOMAIN t.lista : r[j] = t.lista[i]
        BY <1>2, <1>6
      <3>2. QED
        BY <3>1 DEF TlbBien, Edades, tlb_tiene_entrada, EsEntrada
    <2>2. r[m + 1].uso_tiempo = t.inserciones - r[m + 1].previas
      BY <1>3, <1>4, <1>6
    <2>3. \A j \in 1 .. m + 1 : r[j] \in EntradaTlb
      BY <1>2, <1>4, <1>6, <1>10
    <2>4. QED
      BY <1>10, <2>1, <2>2, <2>3
  <1>12. \A j \in 1 .. m + 1 :
           /\ s[j] \in EntradaTlb /\ s[j].uso_tiempo = r[j].uso_tiempo + 1
           /\ s[j].ultimo = r[j].ultimo /\ s[j].previas = r[j].previas
           /\ s[j].pid = r[j].pid /\ s[j].pagina = r[j].pagina
    <2>1. ASSUME NEW j \in 1 .. m + 1
          PROVE  /\ s[j] \in EntradaTlb /\ s[j].uso_tiempo = r[j].uso_tiempo + 1
                 /\ s[j].ultimo = r[j].ultimo /\ s[j].previas = r[j].previas
                 /\ s[j].pid = r[j].pid /\ s[j].pagina = r[j].pagina
      <3>1. PICK d \in EntradaTlb : d = r[j]
        BY <1>11
      <3>2. PICK x \in Int, y \in Int, z \in Int :
              x = d.uso_tiempo + 1 /\ y = d.ultimo /\ z = d.previas
        BY DEF EntradaTlb
      <3>3. PICK b : b = [d EXCEPT !.uso_tiempo = x]
        OBVIOUS
      <3>4. /\ b \in EntradaTlb /\ b.uso_tiempo = x /\ b.ultimo = y /\ b.previas = z
            /\ b.pid = d.pid /\ b.pagina = d.pagina
        BY <3>2, <3>3 DEF EntradaTlb
      <3>5. s[j] = b
        BY <1>6, <1>7, <3>1, <3>2, <3>3
      <3>6. QED
        BY <3>1, <3>2, <3>4, <3>5
    <2>2. QED
      BY <2>1
  <1>13. /\ DOMAIN s = 1 .. m + 1 /\ s \in Seq(EntradaTlb) /\ Len(s) = m + 1
    <2>1. DOMAIN s = 1 .. m + 1 /\ m + 1 \in Nat
      BY <1>2, <1>6, <1>7
    <2>2. s \in [1 .. m + 1 -> EntradaTlb]
      BY <1>6, <1>7, <1>12
    <2>3. s \in Seq(EntradaTlb)
      BY <2>1, <2>2, SeqDef
    <2>4. QED
      BY <2>1, <2>3, LenProperties
  <1>14. Edades(u)
    <2>1. ASSUME NEW j \in 1 .. m + 1
          PROVE  s[j].uso_tiempo = (t.inserciones + 1) - s[j].previas
      <3>1. PICK x \in Int : x = r[j].previas
        BY <1>11 DEF EntradaTlb
      <3>2. s[j].uso_tiempo = (t.inserciones - x) + 1 /\ s[j].previas = x
        BY <1>11, <1>12, <3>1
      <3>3. QED
        BY <1>3, <3>2
    <2>2. QED
      BY <1>9, <1>13, <2>1 DEF Edades
  <1>15. Orden(u)
    <2>1. ASSUME NEW j \in 1 .. m
          PROVE  \E k \in DOMAIN t.lista :
                   s[j].ultimo = t.lista[k].ultimo /\ s[j].previas = t.lista[k].previas
      <3>1. PICK k \in DOMAIN t.lista : r[j] = t.lista[k]
        BY <1>2, <1>6
      <3>2. j \in 1 .. m + 1
        BY <1>2
      <3>3. QED
        BY <1>12, <3>1, <3>2
    <2>2. s[m + 1].ultimo = t.usos /\ s[m + 1].previas = t.inserciones
      BY <1>2, <1>4, <1>6, <1>12
    <2>3. \A k \in DOMAIN t.lista : t.lista[k].ultimo < t.usos /\ t.lista[k].previas <= t.inserciones
      BY DEF TlbBien, Orden
    <2>4. \A j \in 1 .. m + 1 : s[j].ultimo \in Int /\ s[j].previas \in Int
      BY <1>12 DEF EntradaTlb
    <2>5. \A j \in 1 .. m : s[j].ultimo < t.usos /\ s[j].previas <= t.inserciones
      BY <2>1, <2>3
    <2>6. \A j \in 1 .. m + 1 : s[j].ultimo < t.usos + 1 /\ s[j].previas <= t.inserciones + 1
      <3>1. ASSUME NEW j \in 1 .. m + 1
            PROVE  s[j].ultimo < t.usos + 1 /\ s[j].previas <= t.inserciones + 1
        <4>1. CASE j \in 1 .. m
          BY <1>3, <2>4, <2>5, <4>1
        <4>2. CASE j = m + 1
          BY <1>3, <2>2, <4>2
        <4>3. QED
          BY <1>10, <4>1, <4>2
      <3>2. QED
        BY <3>1
    <2>7. ASSUME NEW i \in 1 .. m + 1, NEW j \in 1 .. m + 1, s[i].ultimo < s[j].ultimo
          PROVE  s[i].previas <= s[j].previas
      <3>1. CASE i = m + 1
        <4>1. s[j].ultimo <= t.usos
          BY <1>3, <1>10, <2>2, <2>4, <2>5
        <4>2. QED
          BY <1>3, <2>2, <2>4, <2>7, <3>1, <4>1
      <3>2. CASE i \in 1 .. m /\ j = m + 1
        BY <2>2, <2>5, <3>2
      <3>3. CASE i \in 1 .. m /\ j \in 1 .. m
        <4>1. PICK a \in DOMAIN t.lista :
                s[i].ultimo = t.lista[a].ultimo /\ s[i].previas = t.lista[a].previas
          BY <2>1, <3>3
        <4>2. PICK b \in DOMAIN t.lista :
                s[j].ultimo = t.lista[b].ultimo /\ s[j].previas = t.lista[b].previas
          BY <2>1, <3>3
        <4>3. QED
          BY <2>7, <4>1, <4>2 DEF TlbBien, Orden
      <3>4. QED
        BY <1>10, <3>1, <3>2, <3>3
    <2>8. QED
      BY <1>9, <1>13, <2>6, <2>7 DEF Orden
  <1>16. Distintas(s)
    <2>1. ASSUME NEW i \in 1 .. m + 1, NEW j \in 1 .. m + 1,
                 s[i].pid = s[j].pid, s[i].pagina = s[j].pagina
          PROVE  i = j
      <3>1. r[i].pid = r[j].pid /\ r[i].pagina = r[j].pagina
        BY <1>12, <2>1
      <3>2. CASE i \in 1 .. m /\ j \in 1 .. m
        BY <1>2, <1>6, <3>1, <3>2 DEF Distintas
      <3>3. r[m + 1].pid = pid /\ r[m + 1].pagina = pagina
        BY <1>4, <1>6
      <3>4. CASE i = m + 1
        BY <1>11, <3>1, <3>3, <3>4
      <3>5. CASE j = m + 1
        BY <1>11, <3>1, <3>3, <3>5
      <3>6. QED
        BY <1>10, <3>2, <3>4, <3>5
    <2>2. QED
      BY <1>13, <2>1 DEF Distintas
  <1>17. TlbBien(u, n)
    BY <1>2, <1>3, <1>9, <1>13, <1>14, <1>15, <1>16 DEF TlbBien
  <1>18. QED
    BY <1>8, <1>17

-----------------------------------------------------------------------------
(***************************************************************************)
(* Weights and pages.                                                      *)
(***************************************************************************)
LEMMA Pesos ==
  /\ Peso \in [0 .. ANCHO -> Nat \ {0}] /\ Peso[0] = 1
  /\ \A k \in 1 .. ANCHO : Peso[k] = BYTE * Peso[k - 1]
  <1> DEFINE Ecuacion(f) == f = [k \in 0 .. ANCHO |-> IF k = 0 THEN 1 ELSE BYTE * f[k - 1]]
             Parcial(m) == \E h \in [0 .. m -> Nat \ {0}] :
                             h[0] = 1 /\ \A k \in 1 .. m : h[k] = BYTE * h[k - 1]
  <1>0. ANCHO \in Nat /\ ANCHO # 0 /\ BYTE \in Nat /\ BYTE # 0
    BY OperandosOK
  <1>1. Parcial(0)
    <2>1. PICK h : h = [k \in 0 .. 0 |-> 1]
      OBVIOUS
    <2>2. h \in [0 .. 0 -> Nat \ {0}] /\ h[0] = 1
      BY <2>1
    <2>3. QED
      BY <2>2
  <1>2. ASSUME NEW m \in Nat \ {0}, Parcial(m - 1)
        PROVE  Parcial(m)
    <2>1. PICK h \in [0 .. m - 1 -> Nat \ {0}] :
            h[0] = 1 /\ \A k \in 1 .. m - 1 : h[k] = BYTE * h[k - 1]
      BY <1>2
    <2>2. PICK x \in Nat \ {0} : x = h[m - 1]
      OBVIOUS
    <2>3. PICK y \in Nat \ {0} : y = BYTE * x
      <3>1. BYTE * x \in Nat /\ BYTE * x # 0
        BY <1>0
      <3>2. QED
        BY <3>1
    <2>4. PICK g : g = [k \in 0 .. m |-> IF k < m THEN h[k] ELSE y]
      OBVIOUS
    <2>5. \A k \in 0 .. m : k = m \/ (k \in 0 .. m - 1 /\ k < m)
      OBVIOUS
    <2>6. g \in [0 .. m -> Nat \ {0}] /\ g[0] = 1 /\ g[m] = y
      BY <2>1, <2>4, <2>5
    <2>7. ASSUME NEW k \in 1 .. m
          PROVE  g[k] = BYTE * g[k - 1]
      <3>1. k - 1 \in 0 .. m - 1 /\ k - 1 < m /\ k \in 0 .. m
        OBVIOUS
      <3>2. g[k - 1] = h[k - 1]
        BY <2>4, <3>1
      <3>3. CASE k = m
        BY <2>2, <2>3, <2>6, <3>2, <3>3
      <3>4. CASE k # m
        <4>1. k \in 1 .. m - 1 /\ k < m
          BY <3>4
        <4>2. g[k] = h[k]
          BY <2>4, <3>1, <4>1
        <4>3. QED
          BY <2>1, <3>2, <4>1, <4>2
      <3>5. QED
        BY <3>3, <3>4
    <2>8. QED
      BY <2>6, <2>7
  <1> HIDE DEF Parcial
  <1>3. \A m \in Nat : Parcial(m)
    <2> DEFINE N == {m \in Nat : ~Parcial(m)}
    <2>1. ASSUME N # {}
          PROVE  FALSE
      <3>1. PICK m \in N : \A k \in N : m <= k
        BY <2>1, Minimo
      <3>2. m # 0 /\ m - 1 \in Nat /\ m - 1 \notin N
        BY <1>1, <3>1
      <3>3. QED
        BY <1>2, <3>1, <3>2
    <2>2. QED
      BY <2>1
  <1>4. PICK h \in [0 .. ANCHO -> Nat \ {0}] :
          h[0] = 1 /\ \A k \in 1 .. ANCHO : h[k] = BYTE * h[k - 1]
    BY <1>0, <1>3 DEF Parcial
  <1>5. Ecuacion(h)
    <2>1. \A k \in 0 .. ANCHO : h[k] = IF k = 0 THEN 1 ELSE BYTE * h[k - 1]
      BY <1>0, <1>4
    <2>2. QED
      BY <2>1
  <1>6. Peso = CHOOSE f : Ecuacion(f)
    BY DEF Peso
  <1>7. Ecuacion(Peso)
    BY <1>5, <1>6
  <1>8. PICK f : f = Peso
    OBVIOUS
  <1>9. DOMAIN f = 0 .. ANCHO /\ f[0] = 1 /\ \A k \in 1 .. ANCHO : f[k] = BYTE * f[k - 1]
    BY <1>0, <1>7, <1>8
  <1> DEFINE N == {k \in 0 .. ANCHO : f[k] # h[k]}
  <1>10. ASSUME N # {}
         PROVE  FALSE
    <2>0. N \subseteq Nat
      BY <1>0
    <2>1. PICK m \in N : \A k \in N : m <= k
      BY <1>10, <2>0, Minimo
    <2>2. m \in 1 .. ANCHO /\ m - 1 \in 0 .. ANCHO /\ m - 1 \notin N
      BY <1>0, <1>4, <1>9, <2>0, <2>1
    <2>3. f[m - 1] = h[m - 1]
      BY <2>2
    <2>4. QED
      BY <1>4, <1>9, <2>1, <2>2, <2>3
  <1>11. f = h
    BY <1>7, <1>8, <1>9, <1>10
  <1>12. QED
    BY <1>4, <1>8, <1>11

LEMMA Modulos ==
  ASSUME NEW r
  PROVE  /\ tam_registro(r) \in 1 .. ANCHO /\ Modulo(r) \in Nat \ {0}
         /\ Modulo(r) = Peso[tam_registro(r)]
  <1>1. tam_registro(r) \in 1 .. ANCHO /\ tam_registro(r) \in 0 .. ANCHO
    BY OperandosOK DEF tam_registro
  <1>2. QED
    BY <1>1, Pesos DEF Modulo

LEMMA Multiplo ==
  ASSUME NEW a \in Nat, NEW T \in Nat \ {0}
  PROVE  /\ a \div T \in Nat /\ a - (a \div T) * T \in 0 .. T - 1
         /\ (a \div T) * T \in Nat
  OBVIOUS

\* The pages of an access have room for it.
LEMMA Paginas ==
  ASSUME NEW dl \in Nat, NEW tam \in Nat, NEW i, i = obtener_numero_pagina(dl),
         NEW o, o = obtener_offset(dl, i), NEW c, c = cantidad_paginas_a_consultar(o, tam)
  PROVE  /\ i \in Nat /\ o \in 0 .. TamPagina - 1 /\ c \in Nat
         /\ o + tam <= TamPagina * c
         /\ PaginasConsultadas(dl, tam) = i .. i + c - 1
  <1>0. TamPagina \in Nat \ {0}
    BY EjecucionOK
  <1>1. i = dl \div TamPagina /\ o = dl - i * TamPagina
    BY DEF obtener_numero_pagina, obtener_offset
  <1>2. i \in Nat /\ o \in 0 .. TamPagina - 1
    <2>1. /\ dl \div TamPagina \in Nat
          /\ dl - (dl \div TamPagina) * TamPagina \in 0 .. TamPagina - 1
      BY <1>0, Multiplo
    <2>2. QED
      BY <1>1, <2>1
  <1>3. PICK a \in Nat : a = o + tam + TamPagina - 1
    BY <1>0, <1>2
  <1>4. c = a \div TamPagina
    BY <1>3 DEF cantidad_paginas_a_consultar
  <1>5. c \in Nat /\ a - c * TamPagina \in 0 .. TamPagina - 1 /\ c * TamPagina \in Nat
    <2>1. /\ a \div TamPagina \in Nat
          /\ a - (a \div TamPagina) * TamPagina \in 0 .. TamPagina - 1
          /\ (a \div TamPagina) * TamPagina \in Nat
      BY <1>0, Multiplo
    <2>2. QED
      BY <1>4, <2>1
  <1>6. o + tam <= c * TamPagina
    <2>1. PICK x \in Nat : x = c * TamPagina
      BY <1>5
    <2>2. QED
      BY <1>0, <1>2, <1>3, <1>5, <2>1
  <1>7. c * TamPagina = TamPagina * c
    BY <1>0, <1>5
  <1>8. PaginasConsultadas(dl, tam) = i .. i + c - 1
    BY DEF PaginasConsultadas
  <1>9. QED
    BY <1>2, <1>5, <1>6, <1>7, <1>8

Paginado(i, o, c, dl, tam) ==
  /\ i = obtener_numero_pagina(dl) /\ o = obtener_offset(dl, i)
  /\ c = cantidad_paginas_a_consultar(o, tam)
  /\ i \in Nat /\ o \in 0 .. TamPagina - 1 /\ c \in Nat
  /\ o + tam <= TamPagina * c
  /\ PaginasConsultadas(dl, tam) = i .. i + c - 1

LEMMA HayPaginado ==
  ASSUME NEW dl \in Nat, NEW tam \in Nat
  PROVE  \E i, o, c : Paginado(i, o, c, dl, tam)
  <1>1. PICK i : i = obtener_numero_pagina(dl)
    OBVIOUS
  <1>2. PICK o : o = obtener_offset(dl, i)
    OBVIOUS
  <1>3. PICK c : c = cantidad_paginas_a_consultar(o, tam)
    OBVIOUS
  <1>4. Paginado(i, o, c, dl, tam)
    BY <1>1, <1>2, <1>3, Paginas DEF Paginado
  <1>5. QED
    BY <1>4

-----------------------------------------------------------------------------
(***************************************************************************)
(* mmu: the pages of an access, one by one.                                *)
(***************************************************************************)
\* A request within the memory, and requests for so many bytes in all.
Peticion ==
  {q \in [direccion_fisica : Nat, tam_dato : Nat] :
     q.direccion_fisica + q.tam_dato <= Frames * TamPagina}

Reparte(s, tam) == s \in Seq(Peticion) /\ \E h : SumaHasta(h, s, Len(s)) /\ h[Len(s)] = tam

LEMMA Direccionable ==
  ASSUME NEW f \in Marco, NEW o \in 0 .. TamPagina - 1, NEW b \in Nat, b <= TamPagina - o
  PROVE  [direccion_fisica |-> f * TamPagina + o, tam_dato |-> b] \in Peticion
  <1>1. PICK T \in Nat \ {0}, M \in Nat \ {0} : T = TamPagina /\ M = Frames
    BY EjecucionOK
  <1>2. PICK x \in Nat : x = f * T
    BY <1>1 DEF Marco
  <1>3. x + T <= M * T
    <2>1. \A a, m \in Nat : a <= m - 1 => a * T + T <= m * T
      BY <1>1
    <2>2. f \in Nat /\ f <= M - 1
      BY <1>1 DEF Marco
    <2>3. QED
      BY <1>1, <1>2, <2>1, <2>2
  <1>4. x + o \in Nat /\ (x + o) + b <= M * T
    <2>1. PICK y \in Int : y = M * T
      BY <1>1
    <2>2. (x + o) + b <= x + T
      BY <1>1
    <2>3. QED
      BY <1>1, <1>3, <2>1, <2>2
  <1>5. QED
    BY <1>1, <1>2, <1>4 DEF Peticion

\* What one page adds to what those before it left.
Siguiente(a, i, pid, inicial, offset, marco, entradas, algoritmo) ==
  LET pagina == inicial + i - 1
      hit == obtener_frame_tlb(a.tlb, pid, pagina)
      esHit == tlb_tiene_entrada(a.tlb, pid, pagina)
      frame == IF esHit THEN hit.frame ELSE marco[pagina]
      bytes == BytesDelPaso(i - 1, offset, a.tam)
  IN  [tlb |-> IF esHit THEN hit.tlb
               ELSE IF entradas = 0 THEN a.tlb
               ELSE agregar_entrada_tlb(a.tlb, pid, pagina, frame, entradas, algoritmo),
       peticiones |-> Append(a.peticiones,
         [direccion_fisica |-> frame * TamPagina + (IF i = 1 THEN offset ELSE 0),
          tam_dato |-> bytes]),
       tam |-> a.tam - bytes]

\* The pages so far: a good TLB, one request each, and what is left to ask for.
Avance(a, i, n, offset, tam) ==
  /\ TlbBien(a.tlb, n)
  /\ a.peticiones \in Seq(Peticion) /\ Len(a.peticiones) = i
  /\ a.tam \in Nat /\ a.tam <= tam
  /\ a.tam = 0 \/ a.tam = tam + (IF i = 0 THEN 0 ELSE offset - TamPagina * i)

\* One more page keeps the requests there were and takes its bytes off what is left.
Aparta(a, b, i) ==
  /\ \A k \in 1 .. i - 1 : b.peticiones[k] = a.peticiones[k]
  /\ b.tam = a.tam - b.peticiones[i].tam_dato

LEMMA UnaPagina ==
  ASSUME NEW i \in Nat \ {0}, NEW n \in Nat, NEW offset \in 0 .. TamPagina - 1, NEW tam \in Nat,
         NEW a, Avance(a, i - 1, n, offset, tam), NEW pid \in Procesos, NEW inicial \in Nat,
         NEW marco, marco[inicial + i - 1] \in Marco, NEW algoritmo,
         NEW b, b = Siguiente(a, i, pid, inicial, offset, marco, n, algoritmo)
  PROVE  Avance(b, i, n, offset, tam) /\ Aparta(a, b, i)
  <1>1. PICK pagina \in Nat : pagina = inicial + i - 1
    OBVIOUS
  <1>2. PICK frame \in Marco :
          frame = IF tlb_tiene_entrada(a.tlb, pid, pagina)
                  THEN obtener_frame_tlb(a.tlb, pid, pagina).frame ELSE marco[pagina]
    <2>1. CASE tlb_tiene_entrada(a.tlb, pid, pagina)
      <3>1. obtener_frame_tlb(a.tlb, pid, pagina).frame \in Marco
        BY <2>1, Acierto DEF Avance
      <3>2. QED
        BY <2>1, <3>1
    <2>2. CASE ~tlb_tiene_entrada(a.tlb, pid, pagina)
      BY <1>1, <2>2
    <2>3. QED
      BY <2>1, <2>2
  <1>3. PICK t : t = IF tlb_tiene_entrada(a.tlb, pid, pagina)
                     THEN obtener_frame_tlb(a.tlb, pid, pagina).tlb
                     ELSE IF n = 0 THEN a.tlb
                     ELSE agregar_entrada_tlb(a.tlb, pid, pagina, frame, n, algoritmo)
    OBVIOUS
  <1>4. TlbBien(t, n)
    <2>0. TlbBien(a.tlb, n)
      BY DEF Avance
    <2>1. CASE tlb_tiene_entrada(a.tlb, pid, pagina)
      <3>1. TlbBien(obtener_frame_tlb(a.tlb, pid, pagina).tlb, n)
        BY <2>0, <2>1, Acierto
      <3>2. QED
        BY <1>3, <2>1, <3>1
    <2>2. CASE ~tlb_tiene_entrada(a.tlb, pid, pagina) /\ n = 0
      BY <1>3, <2>0, <2>2
    <2>3. CASE ~tlb_tiene_entrada(a.tlb, pid, pagina) /\ n # 0
      <3>1. TlbBien(agregar_entrada_tlb(a.tlb, pid, pagina, frame, n, algoritmo), n)
        BY <2>0, <2>3, Agrega
      <3>2. QED
        BY <1>3, <2>3, <3>1
    <2>4. QED
      BY <2>1, <2>2, <2>3
  <1>5. PICK T \in Nat \ {0} : T = TamPagina
    BY EjecucionOK
  <1>6. PICK v \in Nat : v = a.tam /\ v <= tam
    BY DEF Avance
  <1>7. PICK hueco \in Nat : hueco = IF i = 1 THEN T - offset ELSE T
    <2>1. T - offset \in Nat /\ T \in Nat
      BY <1>5
    <2>2. CASE i = 1
      BY <2>1, <2>2
    <2>3. CASE i # 1
      BY <2>1, <2>3
    <2>4. QED
      BY <2>2, <2>3
  <1>8. PICK bytes \in Nat : /\ bytes = BytesDelPaso(i - 1, offset, v)
                             /\ bytes <= hueco /\ bytes <= v
                             /\ bytes = v \/ bytes = hueco
    <2>1. i - 1 = 0 <=> i = 1
      OBVIOUS
    <2>2. BytesDelPaso(i - 1, offset, v) = IF v < hueco THEN v ELSE hueco
      BY <1>5, <1>7, <2>1 DEF BytesDelPaso, min
    <2>3. QED
      BY <2>2
  <1>9. PICK o \in 0 .. TamPagina - 1 : o = (IF i = 1 THEN offset ELSE 0) /\ bytes <= TamPagina - o
    BY <1>5, <1>7, <1>8
  <1>10. PICK q \in Peticion : q = [direccion_fisica |-> frame * TamPagina + o, tam_dato |-> bytes]
    BY <1>9, Direccionable
  <1>11. b = [tlb |-> t, peticiones |-> Append(a.peticiones, q), tam |-> v - bytes]
    BY <1>1, <1>2, <1>3, <1>6, <1>8, <1>9, <1>10 DEF Siguiente
  <1>12. b.tlb = t /\ b.peticiones = Append(a.peticiones, q) /\ b.tam = v - bytes
    BY <1>11
  <1>13. /\ b.peticiones \in Seq(Peticion) /\ Len(b.peticiones) = i
         /\ \A k \in 1 .. i - 1 : b.peticiones[k] = a.peticiones[k]
         /\ b.peticiones[i] = q
    <2>1. PICK s \in Seq(Peticion) : s = a.peticiones /\ Len(s) = i - 1
      BY DEF Avance
    <2>2. (i - 1) + 1 = i
      OBVIOUS
    <2>3. /\ Append(s, q) \in Seq(Peticion) /\ Len(Append(s, q)) = i
          /\ \A k \in 1 .. i - 1 : Append(s, q)[k] = s[k]
          /\ Append(s, q)[i] = q
      BY <2>1, <2>2, AppendProperties
    <2>4. QED
      BY <1>12, <2>1, <2>3
  <1>14. /\ v - bytes \in Nat /\ v - bytes <= tam
         /\ v - bytes = 0 \/ v - bytes = tam + (offset - T * i)
    <2>1. v - bytes \in Nat /\ v - bytes <= tam
      BY <1>6, <1>8
    <2>2. CASE bytes = v
      BY <2>1, <2>2
    <2>3. CASE bytes # v /\ i = 1
      <3>1. v = tam
        BY <1>6, <1>8, <2>3 DEF Avance
      <3>2. T * i = T
        BY <1>5, <2>3
      <3>3. QED
        BY <1>5, <1>7, <1>8, <2>1, <2>3, <3>1, <3>2
    <2>4. CASE bytes # v /\ i # 1
      <3>1. v = tam + (offset - T * (i - 1))
        BY <1>5, <1>6, <1>8, <2>4 DEF Avance
      <3>2. PICK x \in Int : x = T * (i - 1) /\ T * i = x + T
        <4>1. T * i = T * (i - 1) + T /\ T * (i - 1) \in Int
          BY <1>5
        <4>2. QED
          BY <4>1
      <3>3. bytes = T
        BY <1>7, <1>8, <2>4
      <3>4. QED
        BY <1>5, <1>6, <2>1, <3>1, <3>2, <3>3
    <2>5. QED
      BY <2>2, <2>3, <2>4
  <1>15. b.peticiones[i].tam_dato = bytes
    BY <1>10, <1>13
  <1>16. Avance(b, i, n, offset, tam)
    BY <1>4, <1>5, <1>12, <1>13, <1>14 DEF Avance
  <1>17. QED
    BY <1>6, <1>12, <1>13, <1>15, <1>16 DEF Aparta

\* The recursion of mmu.
Principio(t, tam) == [tlb |-> t, peticiones |-> <<>>, tam |-> tam]

Pasos(f, c, t, tam, pid, inicial, offset, marco, entradas, algoritmo) ==
  f = [i \in 0 .. c |->
         IF i = 0 THEN Principio(t, tam)
         ELSE Siguiente(f[i - 1], i, pid, inicial, offset, marco, entradas, algoritmo)]

Recorrido(c, t, tam, pid, inicial, offset, marco, entradas, algoritmo) ==
  CHOOSE f : Pasos(f, c, t, tam, pid, inicial, offset, marco, entradas, algoritmo)

\* The recursion written inside mmu is that one.
LEMMA FormaDeMmu ==
  ASSUME NEW t, NEW pid, NEW dl, NEW tam, NEW marco, NEW entradas, NEW algoritmo,
         NEW inicial, inicial = obtener_numero_pagina(dl),
         NEW offset, offset = obtener_offset(dl, inicial),
         NEW c, c = cantidad_paginas_a_consultar(offset, tam),
         NEW f, f = Recorrido(c, t, tam, pid, inicial, offset, marco, entradas, algoritmo)
  PROVE  mmu(t, pid, dl, tam, marco, entradas, algoritmo)
           = [tlb |-> f[c].tlb, peticiones |-> f[c].peticiones]
  BY DEF mmu, Recorrido, Pasos, Principio, Siguiente

\* There is such a recursion.
LEMMA HayPasos ==
  ASSUME NEW c \in Nat, NEW t, NEW tam, NEW pid, NEW inicial, NEW offset, NEW marco,
         NEW entradas, NEW algoritmo
  PROVE  \E f : Pasos(f, c, t, tam, pid, inicial, offset, marco, entradas, algoritmo)
  <1> DEFINE S(a, i) == Siguiente(a, i, pid, inicial, offset, marco, entradas, algoritmo)
             b == Principio(t, tam)
             Parcial(m) == \E f : f = [i \in 0 .. m |-> IF i = 0 THEN b ELSE S(f[i - 1], i)]
  <1> HIDE DEF S, b
  <1>1. Parcial(0)
    <2>1. PICK f : f = [i \in 0 .. 0 |-> b]
      OBVIOUS
    <2>2. f = [i \in 0 .. 0 |-> IF i = 0 THEN b ELSE S(f[i - 1], i)]
      BY <2>1
    <2>3. QED
      BY <2>2
  <1>2. ASSUME NEW m \in Nat \ {0}, Parcial(m - 1)
        PROVE  Parcial(m)
    <2>1. PICK f : f = [i \in 0 .. m - 1 |-> IF i = 0 THEN b ELSE S(f[i - 1], i)]
      BY <1>2
    <2>2. \A i \in 0 .. m - 1 : f[i] = IF i = 0 THEN b ELSE S(f[i - 1], i)
      BY <2>1
    <2>3. PICK y : y = S(f[m - 1], m)
      OBVIOUS
    <2>4. PICK g : g = [i \in 0 .. m |-> IF i = m THEN y ELSE f[i]]
      OBVIOUS
    <2>5. ASSUME NEW i \in 0 .. m
          PROVE  g[i] = IF i = 0 THEN b ELSE S(g[i - 1], i)
      <3>1. CASE i = 0
        <4>1. i # m /\ i \in 0 .. m - 1
          BY <3>1
        <4>2. QED
          BY <2>2, <2>4, <3>1, <4>1
      <3>2. CASE i # 0
        <4>1. i - 1 \in 0 .. m /\ i - 1 # m /\ (i = m \/ i \in 0 .. m - 1)
          BY <3>2
        <4>2. g[i - 1] = f[i - 1]
          BY <2>4, <4>1
        <4>3. CASE i = m
          BY <2>3, <2>4, <3>2, <4>2, <4>3
        <4>4. CASE i # m
          BY <2>2, <2>4, <3>2, <4>1, <4>2, <4>4
        <4>5. QED
          BY <4>3, <4>4
      <3>3. QED
        BY <3>1, <3>2
    <2>6. g = [i \in 0 .. m |-> g[i]]
      BY <2>4
    <2>7. g = [i \in 0 .. m |-> IF i = 0 THEN b ELSE S(g[i - 1], i)]
      BY <2>5, <2>6
    <2>8. QED
      BY <2>7
  <1> HIDE DEF Parcial
  <1>3. \A m \in Nat : Parcial(m)
    <2> DEFINE N == {m \in Nat : ~Parcial(m)}
    <2>1. ASSUME N # {}
          PROVE  FALSE
      <3>1. PICK m \in N : \A k \in N : m <= k
        BY <2>1, Minimo
      <3>2. m # 0 /\ m - 1 \in Nat /\ m - 1 \notin N
        BY <1>1, <3>1
      <3>3. QED
        BY <1>2, <3>1, <3>2
    <2>2. QED
      BY <2>1
  <1>4. QED
    BY <1>3 DEF Parcial, S, b, Pasos

\* The translation leaves a good TLB, and its requests are as many bytes as the
\* access, all of them in memory.
LEMMA Traduccion ==
  ASSUME NEW n \in Nat, NEW t, TlbBien(t, n), NEW pid \in Procesos, NEW dl \in Nat, NEW tam \in Nat,
         NEW marco, \A k \in PaginasConsultadas(dl, tam) : marco[k] \in Marco, NEW algoritmo,
         NEW u, u = mmu(t, pid, dl, tam, marco, n, algoritmo)
  PROVE  TlbBien(u.tlb, n) /\ Reparte(u.peticiones, tam)
  <1>0. PICK inicial \in Nat, offset \in 0 .. TamPagina - 1, c \in Nat :
          Paginado(inicial, offset, c, dl, tam)
    <2>1. PICK i, o, d : Paginado(i, o, d, dl, tam)
      BY HayPaginado
    <2>2. i \in Nat /\ o \in 0 .. TamPagina - 1 /\ d \in Nat
      BY <2>1 DEF Paginado
    <2>3. QED
      BY <2>1, <2>2
  <1>a. ASSUME NEW i \in Nat \ {0}, NEW a, NEW b, Avance(a, i - 1, n, offset, tam),
               marco[inicial + i - 1] \in Marco,
               b = Siguiente(a, i, pid, inicial, offset, marco, n, algoritmo)
        PROVE  Avance(b, i, n, offset, tam) /\ Aparta(a, b, i)
    BY <1>a, UnaPagina
  <1>1. inicial \in Nat /\ inicial = obtener_numero_pagina(dl)
    BY <1>0 DEF Paginado
  <1>2. offset \in 0 .. TamPagina - 1 /\ offset = obtener_offset(dl, inicial)
    BY <1>0 DEF Paginado
  <1>3. /\ c \in Nat /\ c = cantidad_paginas_a_consultar(offset, tam)
        /\ offset + tam <= TamPagina * c
        /\ PaginasConsultadas(dl, tam) = inicial .. inicial + c - 1
    BY <1>0 DEF Paginado
  <1>4. \A i \in 1 .. c : marco[inicial + i - 1] \in Marco
    <2>1. \A i \in 1 .. c : inicial + i - 1 \in inicial .. inicial + c - 1
      OBVIOUS
    <2>2. QED
      BY <1>3, <2>1
  <1> DEFINE E(f) == Pasos(f, c, t, tam, pid, inicial, offset, marco, n, algoritmo)
  <1>5. PICK f : f = Recorrido(c, t, tam, pid, inicial, offset, marco, n, algoritmo)
    OBVIOUS
  <1>6. E(f)
    <2>1. f = CHOOSE g : E(g)
      BY <1>5 DEF Recorrido
    <2>2. \E g : E(g)
      BY HayPasos
    <2> HIDE DEF E
    <2>3. QED
      BY <2>1, <2>2
  <1>7. u = [tlb |-> f[c].tlb, peticiones |-> f[c].peticiones]
    BY <1>1, <1>2, <1>3, <1>5, FormaDeMmu
  <1>8. /\ f[0] = Principio(t, tam)
        /\ \A i \in 1 .. c :
             f[i] = Siguiente(f[i - 1], i, pid, inicial, offset, marco, n, algoritmo)
    BY <1>6 DEF Pasos
  <1> HIDE DEF E
  <1> DEFINE P(i) ==
        /\ Avance(f[i], i, n, offset, tam)
        /\ \A k \in 1 .. i : f[i].peticiones[k].tam_dato = f[k - 1].tam - f[k].tam
        /\ \A k \in 0 .. i : f[k].tam \in Nat
  <1>9. P(0)
    <2>1. f[0].tlb = t /\ f[0].peticiones = <<>> /\ f[0].tam = tam
      BY <1>8 DEF Principio
    <2>2. <<>> \in Seq(Peticion) /\ Len(<<>>) = 0
      OBVIOUS
    <2>3. Avance(f[0], 0, n, offset, tam)
      BY <2>1, <2>2 DEF Avance
    <2>4. QED
      BY <2>1, <2>3
  <1>10. ASSUME NEW i \in 1 .. c, P(i - 1)
         PROVE  P(i)
    <2>1. PICK a : a = f[i - 1]
      OBVIOUS
    <2>2. PICK b : b = f[i]
      OBVIOUS
    <2>3. b = Siguiente(a, i, pid, inicial, offset, marco, n, algoritmo)
      BY <1>8, <2>1, <2>2
    <2>4. /\ Avance(b, i, n, offset, tam)
          /\ \A k \in 1 .. i - 1 : b.peticiones[k] = a.peticiones[k]
          /\ b.tam = a.tam - b.peticiones[i].tam_dato
      <3>1. i \in Nat \ {0} /\ marco[inicial + i - 1] \in Marco
        BY <1>4
      <3>2. Avance(a, i - 1, n, offset, tam)
        BY <1>10, <2>1
      <3>3. QED
        BY <1>a, <2>3, <3>1, <3>2 DEF Aparta
    <2>5. b.tam \in Nat /\ a.tam \in Nat
      BY <1>10, <2>1, <2>4 DEF Avance
    <2>6. b.peticiones[i].tam_dato = a.tam - b.tam
      <3>1. b.peticiones[i].tam_dato \in Int
        <4>1. b.peticiones \in Seq(Peticion) /\ Len(b.peticiones) = i
          BY <2>4 DEF Avance
        <4>2. PICK s \in Seq(Peticion) : s = b.peticiones /\ Len(s) = i
          BY <4>1
        <4>3. s[i] \in Peticion
          BY <4>2, ElementOfSeq
        <4>4. QED
          BY <4>2, <4>3 DEF Peticion
      <3>2. QED
        BY <2>4, <2>5, <3>1
    <2>7. ASSUME NEW k \in 1 .. i
          PROVE  f[i].peticiones[k].tam_dato = f[k - 1].tam - f[k].tam
      <3>1. CASE k = i
        BY <2>1, <2>2, <2>6, <3>1
      <3>2. CASE k # i
        <4>1. k \in 1 .. i - 1
          BY <3>2
        <4>2. QED
          BY <1>10, <2>1, <2>2, <2>4, <4>1
      <3>3. QED
        BY <3>1, <3>2
    <2>8. \A k \in 0 .. i : f[k].tam \in Nat
      <3>1. \A k \in 0 .. i : k = i \/ k \in 0 .. i - 1
        OBVIOUS
      <3>2. QED
        BY <1>10, <2>2, <2>5, <3>1
    <2>9. QED
      BY <2>2, <2>4, <2>7, <2>8
  <1> HIDE DEF P
  <1>11. \A i \in 0 .. c : P(i)
    <2> DEFINE N == {m \in 0 .. c : ~P(m)}
    <2>1. ASSUME N # {}
          PROVE  FALSE
      <3>0. N \subseteq Nat
        OBVIOUS
      <3>1. PICK m \in N : \A k \in N : m <= k
        BY <2>1, <3>0, Minimo
      <3>2. m \in 1 .. c /\ m - 1 \in 0 .. c /\ m - 1 \notin N
        BY <1>9, <3>1
      <3>3. QED
        BY <1>10, <3>1, <3>2
    <2>2. QED
      BY <2>1
  <1>12. P(c)
    BY <1>11
  <1>13. PICK s \in Seq(Peticion) : s = f[c].peticiones /\ Len(s) = c
    BY <1>12 DEF P, Avance
  <1>14. TlbBien(u.tlb, n) /\ u.peticiones = s
    BY <1>7, <1>12, <1>13 DEF P, Avance
  <1>15. f[0].tam = tam
    BY <1>8 DEF Principio
  <1>16. f[c].tam = 0
    <2>1. PICK T \in Nat \ {0} : T = TamPagina
      BY EjecucionOK
    <2>2. PICK v \in Nat : v = f[c].tam
      BY <1>12 DEF P
    <2>3. v = 0 \/ v = tam + (IF c = 0 THEN 0 ELSE offset - T * c)
      BY <1>12, <2>1, <2>2 DEF P, Avance
    <2>4. PICK x \in Int : x = T * c
      BY <2>1
    <2>5. CASE c = 0
      <3>1. T * c = 0
        BY <2>1, <2>5
      <3>2. QED
        BY <1>3, <2>1, <2>2, <2>3, <2>5, <3>1
    <2>6. CASE c # 0
      <3>1. PICK o \in Int : o = offset /\ o <= T - 1
        BY <2>1
      <3>2. o + tam <= x
        BY <1>3, <2>1, <2>4, <3>1
      <3>3. v = 0 \/ v = tam + (o - x)
        BY <2>3, <2>4, <2>6, <3>1
      <3>4. v = 0
        BY <3>2, <3>3
      <3>5. QED
        BY <2>2, <3>4
    <2>7. QED
      BY <2>5, <2>6
  <1>17. PICK h : h = [k \in 0 .. c |-> tam - f[k].tam]
    OBVIOUS
  <1>18. \A k \in 0 .. c : f[k].tam \in Nat /\ f[k].tam <= tam
    BY <1>11, <1>12 DEF P, Avance
  <1>19. h \in [0 .. c -> Nat] /\ h[0] = 0 /\ h[c] = tam
    <2>1. ASSUME NEW k \in 0 .. c
          PROVE  tam - f[k].tam \in Nat
      <3>1. PICK x \in Nat : x = f[k].tam /\ x <= tam
        BY <1>18
      <3>2. tam - x \in Nat
        BY <3>1
      <3>3. QED
        BY <3>1, <3>2
    <2>2. h \in [0 .. c -> Nat]
      BY <1>17, <2>1
    <2>3. 0 \in 0 .. c /\ c \in 0 .. c
      OBVIOUS
    <2>4. h[0] = tam - f[0].tam /\ h[c] = tam - f[c].tam
      BY <1>17, <2>3
    <2>5. tam - tam = 0 /\ tam - 0 = tam
      OBVIOUS
    <2>6. QED
      BY <1>15, <1>16, <2>2, <2>4, <2>5
  <1>20. ASSUME NEW k \in 1 .. c
         PROVE  h[k] = h[k - 1] + s[k].tam_dato
    <2>1. k \in 0 .. c /\ k - 1 \in 0 .. c
      OBVIOUS
    <2>2. PICK x \in Nat, y \in Nat : x = f[k - 1].tam /\ y = f[k].tam
      BY <1>18, <2>1
    <2>3. s[k].tam_dato = x - y
      BY <1>12, <1>13, <2>2 DEF P
    <2>4. h[k] = tam - y /\ h[k - 1] = tam - x
      BY <1>17, <2>1, <2>2
    <2>5. QED
      BY <2>3, <2>4
  <1>21. SumaHasta(h, s, c)
    BY <1>19, <1>20 DEF SumaHasta
  <1>22. QED
    BY <1>13, <1>14, <1>19, <1>21 DEF Reparte

-----------------------------------------------------------------------------
(***************************************************************************)
(* The bytes of the memory.                                                *)
(***************************************************************************)
Memorias == [Direccion -> Byte]
Pieza == [direccion_fisica : Nat, dato : Seq(Byte)]

LEMMA EscribeUna ==
  ASSUME NEW mem \in Memorias, NEW q \in Pieza
  PROVE  set_memoria(mem, q) \in Memorias
  <1>1. PICK desde \in Nat, dato \in Seq(Byte) : desde = q.direccion_fisica /\ dato = q.dato
    BY DEF Pieza
  <1>2. PICK l \in Nat : l = Len(dato) /\ \A j \in 1 .. l : dato[j] \in Byte
    BY LenProperties, ElementOfSeq
  <1>3. set_memoria(mem, q) = [d \in Direccion |-> IF desde <= d /\ d < desde + l
                                                   THEN dato[d - desde + 1] ELSE mem[d]]
    BY <1>1, <1>2 DEF set_memoria
  <1>4. ASSUME NEW d \in Direccion
        PROVE  (IF desde <= d /\ d < desde + l THEN dato[d - desde + 1] ELSE mem[d]) \in Byte
    <2>1. d \in Int
      BY EjecucionOK DEF Direccion
    <2>2. CASE desde <= d /\ d < desde + l
      <3>1. d - desde + 1 \in 1 .. l
        BY <2>1, <2>2
      <3>2. QED
        BY <1>2, <2>2, <3>1
    <2>3. CASE ~(desde <= d /\ d < desde + l)
      BY <2>3 DEF Memorias
    <2>4. QED
      BY <2>2, <2>3
  <1>5. QED
    BY <1>3, <1>4 DEF Memorias

\* The writes, one request after another.
PasosDeEscribir(f, s, b) ==
  f = [S \in SUBSET (DOMAIN s) |->
         IF S = {} THEN b ELSE set_memoria(f[S \ {Max(S)}], s[Max(S)])]

Escritas(b, s) == FoldLeft(set_memoria, b, s)

LEMMA HayEscritura ==
  ASSUME NEW s \in Seq(Pieza), NEW n \in Nat, DOMAIN s = 1 .. n, NEW b \in Memorias
  PROVE  \E f : PasosDeEscribir(f, s, b) /\ Escritas(b, s) = f[1 .. n]
  <1>1. \A k \in 1 .. n : s[k] \in Pieza
    <2>1. s \in [1 .. Len(s) -> Pieza]
      BY LenProperties
    <2>2. QED
      BY <2>1
  <1>2. PICK F : F = [q \in (1 .. n) \X Memorias |-> set_memoria(q[2], s[q[1]])]
    OBVIOUS
  <1>3. /\ F \in [(1 .. n) \X Memorias -> Memorias]
        /\ \A k \in 1 .. n, v \in Memorias : F[<<k, v>>] = set_memoria(v, s[k])
    <2>1. \A k \in 1 .. n, v \in Memorias : set_memoria(v, s[k]) \in Memorias
      BY <1>1, EscribeUna
    <2>2. QED
      BY <1>2, <2>1
  <1>4. PICK c : c = ElMaximo(n)
    OBVIOUS
  <1>5. \A S \in SUBSET (1 .. n) : S # {} => c[S] \in S /\ c[S] = Max(S)
    BY <1>4, EligeMaximo
  <1>6. PICK g \in [SUBSET (1 .. n) -> Memorias] : Iteracion(g, n, F, b, c)
    BY <1>3, <1>5, HayIteracion
  <1>7. ASSUME NEW S \in SUBSET (1 .. n)
        PROVE  g[S] = IF S = {} THEN b ELSE set_memoria(g[S \ {Max(S)}], s[Max(S)])
    <2>1. g[S] = ValorDe(g, F, b, c, S)
      BY <1>6 DEF Iteracion
    <2>2. CASE S = {}
      BY <2>1, <2>2 DEF ValorDe
    <2>3. CASE S # {}
      <3>1. PICK x \in 1 .. n : x = c[S] /\ x = Max(S)
        BY <1>5, <2>3
      <3>2. PICK v \in Memorias : v = g[S \ {x}]
        OBVIOUS
      <3>3. g[S] = F[<<x, v>>]
        BY <2>1, <2>3, <3>1, <3>2 DEF ValorDe
      <3>4. QED
        BY <1>3, <2>3, <3>1, <3>2, <3>3
    <2>4. QED
      BY <2>2, <2>3
  <1>8. PasosDeEscribir(g, s, b)
    BY <1>6, <1>7 DEF PasosDeEscribir
  <1>9. Escritas(b, s) = (CHOOSE f : PasosDeEscribir(f, s, b))[1 .. n]
    BY DEF Escritas, FoldLeft, MapThenFoldSet, PasosDeEscribir
  <1>10. QED
    BY <1>8, <1>9

\* Memory keeps its bytes, whatever is written.
LEMMA EscribeVarias ==
  ASSUME NEW s \in Seq(Pieza), NEW b \in Memorias
  PROVE  FoldLeft(set_memoria, b, s) \in Memorias
  <1>1. PICK n \in Nat : DOMAIN s = 1 .. n /\ \A k \in 1 .. n : s[k] \in Pieza
    BY LenProperties, ElementOfSeq
  <1>2. PICK f : PasosDeEscribir(f, s, b) /\ Escritas(b, s) = f[1 .. n]
    BY <1>1, HayEscritura
  <1>3. f[1 .. 0] = b /\ \A k \in 1 .. n : f[1 .. k] = set_memoria(f[1 .. k - 1], s[k])
    <2>1. \A S \in SUBSET (1 .. n) :
            f[S] = IF S = {} THEN b ELSE set_memoria(f[S \ {Max(S)}], s[Max(S)])
      BY <1>1, <1>2 DEF PasosDeEscribir
    <2>2. 1 .. 0 = {} /\ 1 .. 0 \in SUBSET (1 .. n)
      OBVIOUS
    <2>3. ASSUME NEW k \in 1 .. n
          PROVE  f[1 .. k] = set_memoria(f[1 .. k - 1], s[k])
      <3>0. k \in Nat /\ k # 0
        OBVIOUS
      <3>1. 1 .. k # {} /\ Max(1 .. k) = k /\ (1 .. k) \ {k} = 1 .. k - 1
        BY <3>0, Prefijos
      <3>2. 1 .. k \in SUBSET (1 .. n)
        OBVIOUS
      <3>3. QED
        BY <2>1, <3>1, <3>2
    <2>4. QED
      BY <2>1, <2>2, <2>3
  <1> DEFINE N == {m \in 0 .. n : f[1 .. m] \notin Memorias}
  <1>4. ASSUME N # {}
        PROVE  FALSE
    <2>1. N \subseteq Nat
      OBVIOUS
    <2>2. PICK m \in N : \A k \in N : m <= k
      BY <1>4, <2>1, Minimo
    <2>3. m \in 1 .. n /\ m - 1 \in 0 .. n /\ m - 1 \notin N
      BY <1>3, <2>2
    <2>4. f[1 .. m - 1] \in Memorias
      BY <2>3
    <2>5. QED
      BY <1>1, <1>3, <2>2, <2>3, <2>4, EscribeUna
  <1>5. f[1 .. n] \in Memorias
    BY <1>4
  <1>6. QED
    BY <1>2, <1>5 DEF Escritas

\* What set_memoria takes of a datum as long as the requests ask.
LEMMA Piezas ==
  ASSUME NEW s \in Seq(Peticion), NEW dato \in Seq(Byte), NEW D \in Nat, Largo(dato) = D,
         Reparte(s, D)
  PROVE  peticiones_distribuir_dato(s, dato) \in Seq(Pieza)
  <1>1. PICK n \in Nat : n = Len(s) /\ DOMAIN s = 1 .. n /\ \A k \in 1 .. n : s[k] \in Peticion
    BY LenProperties, ElementOfSeq
  <1>2. \A k \in 1 .. n : s[k].direccion_fisica \in Nat /\ s[k].tam_dato \in Nat
    BY <1>1 DEF Peticion
  <1>3. PICK h : SumaHasta(h, s, n) /\ h[n] = D
    BY <1>1 DEF Reparte
  <1>4. PICK a : a = Acumulado(s) /\ SumaHasta(a, s, n)
    <2>1. s \in Seq(PeticionMemoria)
      <3>1. \A k \in 1 .. n : s[k] \in PeticionMemoria
        BY <1>1 DEF Peticion, PeticionMemoria
      <3>2. QED
        BY <1>1, <3>1
    <2>2. QED
      BY <1>1, <2>1, Acumula
  <1>5. a[n] = D
    <2>1. \A k \in 0 .. n : a[k] = h[k]
      BY <1>3, <1>4, SumaUnica
    <2>2. n \in 0 .. n
      OBVIOUS
    <2>3. QED
      BY <1>3, <2>1, <2>2
  <1>6. /\ \A k \in 1 .. n : a[k - 1] <= a[k]
        /\ \A k \in 0 .. n : a[k] \in Nat /\ a[k] <= a[n]
    BY <1>2, <1>4, SumaCrece
  <1>7. ASSUME NEW k \in 1 .. n
        PROVE  [direccion_fisica |-> s[k].direccion_fisica,
                dato |-> SubSeq(dato, a[k - 1] + 1, a[k])] \in Pieza
    <2>1. k - 1 \in 0 .. n /\ k \in 0 .. n
      OBVIOUS
    <2>2. PICK x \in Nat, y \in Nat : x = a[k - 1] /\ y = a[k] /\ x <= y /\ y <= D
      BY <1>5, <1>6, <2>1
    <2>3. Corte(dato, x, y) \in Seq(Byte)
      BY <2>2, CorteBien
    <2>4. SubSeq(dato, a[k - 1] + 1, a[k]) \in Seq(Byte)
      BY <2>2, <2>3 DEF Corte
    <2>5. QED
      BY <1>2, <2>4 DEF Pieza
  <1>8. peticiones_distribuir_dato(s, dato)
          = [k \in 1 .. n |-> [direccion_fisica |-> s[k].direccion_fisica,
                               dato |-> SubSeq(dato, a[k - 1] + 1, a[k])]]
    BY <1>1, <1>4 DEF peticiones_distribuir_dato
  <1> DEFINE p(k) == [direccion_fisica |-> s[k].direccion_fisica,
                      dato |-> SubSeq(dato, a[k - 1] + 1, a[k])]
  <1>9. \A k \in 1 .. n : p(k) \in Pieza
    BY <1>7
  <1>10. peticiones_distribuir_dato(s, dato) = [k \in 1 .. n |-> p(k)]
    BY <1>8
  <1> HIDE DEF p
  <1>11. [k \in 1 .. n |-> p(k)] \in Seq(Pieza)
    BY <1>9
  <1>12. QED
    BY <1>10, <1>11

\* A request of the memory is read whole.
LEMMA LeeUna ==
  ASSUME MEMORIA \in Memorias, NEW q \in Peticion
  PROVE  get_memoria(q) \in Seq(Byte) /\ Largo(get_memoria(q)) = q.tam_dato
  <1>1. PICK M \in Nat : M = Frames * TamPagina
    BY EjecucionOK
  <1>2. PICK desde \in Nat, l \in Nat : /\ desde = q.direccion_fisica /\ l = q.tam_dato
                                        /\ desde + l <= M
    BY <1>1 DEF Peticion
  <1>3. Direccion = 0 .. M - 1
    BY <1>1 DEF Direccion
  <1>4. \A k \in 1 .. l : MEMORIA[desde + k - 1] \in Byte
    <2>1. \A k \in 1 .. l : desde + k - 1 \in Direccion
      BY <1>2, <1>3
    <2>2. QED
      BY <2>1 DEF Memorias
  <1> DEFINE p(k) == MEMORIA[desde + k - 1]
  <1>5. get_memoria(q) = [k \in 1 .. l |-> p(k)]
    BY <1>2 DEF get_memoria
  <1>6. \A k \in 1 .. l : p(k) \in Byte
    BY <1>4
  <1> HIDE DEF p
  <1>7. /\ [k \in 1 .. l |-> p(k)] \in Seq(Byte)
        /\ Largo([k \in 1 .. l |-> p(k)]) = l
    BY <1>6 DEF Largo
  <1>8. QED
    BY <1>2, <1>5, <1>7

\* The reads, one request after another.
Agregado(a, q) == Junta(a, get_memoria(q))

PasosDeLeer(f, s) ==
  f = [S \in SUBSET (DOMAIN s) |->
         IF S = {} THEN <<>> ELSE Agregado(f[S \ {Max(S)}], s[Max(S)])]

LEMMA LeeOtra ==
  ASSUME MEMORIA \in Memorias, NEW q \in Peticion, NEW a \in Seq(Byte), NEW m \in Nat, Largo(a) = m
  PROVE  Agregado(a, q) \in Seq(Byte) /\ Largo(Agregado(a, q)) = m + q.tam_dato
  <1>1. PICK n \in Nat : n = q.tam_dato
    BY DEF Peticion
  <1>2. PICK t \in Seq(Byte) : t = get_memoria(q) /\ Largo(t) = n
    BY <1>1, LeeUna
  <1>3. Junta(a, t) \in Seq(Byte) /\ Largo(Junta(a, t)) = m + n
    BY <1>2, DosPartes
  <1>4. QED
    BY <1>1, <1>2, <1>3 DEF Agregado

LEMMA HayLectura ==
  ASSUME MEMORIA \in Memorias, NEW s \in Seq(Peticion), NEW n \in Nat, DOMAIN s = 1 .. n
  PROVE  \E f : PasosDeLeer(f, s) /\ LeerTodas(s) = f[1 .. n]
  <1>0. PICK b \in Seq(Byte) : b = <<>>
    <2>1. <<>> \in Seq(Byte)
      OBVIOUS
    <2>2. QED
      BY <2>1
  <1>1. \A k \in 1 .. n : s[k] \in Peticion
    <2>1. s \in [1 .. Len(s) -> Peticion]
      BY LenProperties
    <2>2. QED
      BY <2>1
  <1>2. PICK F : F = [q \in (1 .. n) \X Seq(Byte) |-> Agregado(q[2], s[q[1]])]
    OBVIOUS
  <1>3. /\ F \in [(1 .. n) \X Seq(Byte) -> Seq(Byte)]
        /\ \A k \in 1 .. n, v \in Seq(Byte) : F[<<k, v>>] = Agregado(v, s[k])
    <2>1. ASSUME NEW k \in 1 .. n, NEW v \in Seq(Byte)
          PROVE  Agregado(v, s[k]) \in Seq(Byte)
      <3>1. PICK m \in Nat : Largo(v) = m
        BY LenProperties DEF Largo
      <3>2. QED
        BY <1>1, <3>1, LeeOtra
    <2>2. QED
      BY <1>2, <2>1
  <1>4. PICK c : c = ElMaximo(n)
    OBVIOUS
  <1>5. \A S \in SUBSET (1 .. n) : S # {} => c[S] \in S /\ c[S] = Max(S)
    BY <1>4, EligeMaximo
  <1>6. PICK g \in [SUBSET (1 .. n) -> Seq(Byte)] : Iteracion(g, n, F, b, c)
    BY <1>3, <1>5, HayIteracion
  <1>7. ASSUME NEW S \in SUBSET (1 .. n)
        PROVE  g[S] = IF S = {} THEN <<>> ELSE Agregado(g[S \ {Max(S)}], s[Max(S)])
    <2>1. g[S] = ValorDe(g, F, b, c, S)
      BY <1>6 DEF Iteracion
    <2>2. CASE S = {}
      BY <1>0, <2>1, <2>2 DEF ValorDe
    <2>3. CASE S # {}
      <3>1. PICK x \in 1 .. n : x = c[S] /\ x = Max(S)
        BY <1>5, <2>3
      <3>2. PICK v \in Seq(Byte) : v = g[S \ {x}]
        OBVIOUS
      <3>3. g[S] = F[<<x, v>>]
        BY <2>1, <2>3, <3>1, <3>2 DEF ValorDe
      <3>4. QED
        BY <1>3, <2>3, <3>1, <3>2, <3>3
    <2>4. QED
      BY <2>2, <2>3
  <1>8. PasosDeLeer(g, s)
    BY <1>6, <1>7 DEF PasosDeLeer
  <1>9. LeerTodas(s) = (CHOOSE f : PasosDeLeer(f, s))[1 .. n]
    BY DEF LeerTodas, FoldLeft, MapThenFoldSet, PasosDeLeer, Agregado, Junta
  <1>10. QED
    BY <1>8, <1>9

\* As many bytes as the requests ask for, in all.
LEMMA LeeVarias ==
  ASSUME MEMORIA \in Memorias, NEW D \in Nat, NEW s, Reparte(s, D)
  PROVE  LeerTodas(s) \in Seq(Byte) /\ Largo(LeerTodas(s)) = D
  <1>0. s \in Seq(Peticion)
    BY DEF Reparte
  <1>1. PICK n \in Nat : n = Len(s) /\ DOMAIN s = 1 .. n /\ \A k \in 1 .. n : s[k] \in Peticion
    BY <1>0, LenProperties, ElementOfSeq
  <1>2. PICK f : PasosDeLeer(f, s) /\ LeerTodas(s) = f[1 .. n]
    BY <1>0, <1>1, HayLectura
  <1>a. PICK h : SumaHasta(h, s, n) /\ h[n] = D
    BY <1>1 DEF Reparte
  <1>b. /\ \A k \in 0 .. n : h[k] \in Nat
        /\ h[0] = 0 /\ \A k \in 1 .. n : h[k] = h[k - 1] + s[k].tam_dato
    BY <1>a DEF SumaHasta
  <1>3. f[1 .. 0] = <<>> /\ \A k \in 1 .. n : f[1 .. k] = Agregado(f[1 .. k - 1], s[k])
    <2>1. \A S \in SUBSET (1 .. n) :
            f[S] = IF S = {} THEN <<>> ELSE Agregado(f[S \ {Max(S)}], s[Max(S)])
      BY <1>1, <1>2 DEF PasosDeLeer
    <2>2. 1 .. 0 = {} /\ 1 .. 0 \in SUBSET (1 .. n)
      OBVIOUS
    <2>3. ASSUME NEW k \in 1 .. n
          PROVE  f[1 .. k] = Agregado(f[1 .. k - 1], s[k])
      <3>0. k \in Nat /\ k # 0
        OBVIOUS
      <3>1. 1 .. k # {} /\ Max(1 .. k) = k /\ (1 .. k) \ {k} = 1 .. k - 1
        BY <3>0, Prefijos
      <3>2. 1 .. k \in SUBSET (1 .. n)
        OBVIOUS
      <3>3. QED
        BY <2>1, <3>1, <3>2
    <2>4. QED
      BY <2>1, <2>2, <2>3
  <1> DEFINE P(m) == f[1 .. m] \in Seq(Byte) /\ Largo(f[1 .. m]) = h[m]
             N == {m \in 0 .. n : ~P(m)}
  <1>4. ASSUME N # {}
        PROVE  FALSE
    <2>0. P(0)
      BY <1>3, <1>b DEF Largo
    <2>1. N \subseteq Nat
      OBVIOUS
    <2>2. PICK m \in N : \A k \in N : m <= k
      BY <1>4, <2>1, Minimo
    <2>3. m \in 1 .. n /\ m - 1 \in 0 .. n /\ m - 1 \notin N
      BY <2>0, <2>2
    <2>4. PICK a \in Seq(Byte), l \in Nat : /\ a = f[1 .. m - 1] /\ Largo(a) = l /\ l = h[m - 1]
      BY <1>b, <2>3
    <2>5. PICK q \in Peticion : q = s[m]
      BY <1>1, <2>3
    <2>6. Agregado(a, q) \in Seq(Byte) /\ Largo(Agregado(a, q)) = l + q.tam_dato
      BY <2>4, LeeOtra
    <2>7. P(m)
      BY <1>3, <1>b, <2>3, <2>4, <2>5, <2>6
    <2>8. QED
      BY <2>2, <2>7
  <1>5. P(n)
    BY <1>4
  <1>6. QED
    BY <1>2, <1>5, <1>a

-----------------------------------------------------------------------------
(***************************************************************************)
(* Registers as bytes, and back.                                           *)
(***************************************************************************)
LEMMA BytesDeUno ==
  ASSUME NEW valor \in Nat, NEW r
  PROVE  EnBytes(valor, r) \in Seq(Byte) /\ Largo(EnBytes(valor, r)) = tam_registro(r)
  <1>1. PICK l \in 1 .. ANCHO : l = tam_registro(r)
    BY Modulos
  <1>2. ASSUME NEW k \in 1 .. l
        PROVE  (valor \div Peso[k - 1]) % BYTE \in Byte
    <2>1. k - 1 \in 0 .. ANCHO
      BY OperandosOK
    <2>2. PICK w \in Nat \ {0} : w = Peso[k - 1]
      BY <2>1, Pesos
    <2>3. PICK B \in Nat \ {0} : B = BYTE
      BY OperandosOK
    <2>4. valor \div w \in Int
      BY <2>2
    <2>5. PICK x \in Int : x = valor \div w
      BY <2>4
    <2>6. x % B \in 0 .. B - 1
      BY <2>3
    <2>7. QED
      BY <2>2, <2>3, <2>5, <2>6 DEF Byte
  <1>3. EnBytes(valor, r) = [k \in 1 .. l |-> (valor \div Peso[k - 1]) % BYTE]
    BY <1>1 DEF EnBytes
  <1> DEFINE e(k) == (valor \div Peso[k - 1]) % BYTE
  <1>4. \A k \in 1 .. l : e(k) \in Byte
    BY <1>2
  <1>5. EnBytes(valor, r) = [k \in 1 .. l |-> e(k)]
    BY <1>3
  <1> HIDE DEF e
  <1>6. l \in Nat
    OBVIOUS
  <1>7. QED
    BY <1>1, <1>4, <1>5, <1>6 DEF Largo

\* The choice of a fold from the right.
ElMinimo(n) == [s \in SUBSET (1 .. n) |-> Min(s)]

LEMMA EligeMinimo ==
  ASSUME NEW n \in Nat
  PROVE  \A s \in SUBSET (1 .. n) : s # {} => ElMinimo(n)[s] \in s /\ ElMinimo(n)[s] = Min(s)
  <1>1. ASSUME NEW s \in SUBSET (1 .. n), s # {}
        PROVE  Min(s) \in s
    <2>1. s \subseteq Nat
      OBVIOUS
    <2>2. QED
      BY <1>1, <2>1, Menor
  <1>2. QED
    BY <1>1 DEF ElMinimo

Sufijo(b, alto) == b + BYTE * alto

PasosDeValor(f, s) ==
  f = [S \in SUBSET (DOMAIN s) |->
         IF S = {} THEN 0 ELSE Sufijo(s[Min(S)], f[S \ {Min(S)}])]

LEMMA UnByteMas ==
  ASSUME NEW b \in Byte, NEW alto \in Nat, NEW w \in Nat, alto < w
  PROVE  Sufijo(b, alto) \in Nat /\ Sufijo(b, alto) < BYTE * w
  <1>1. PICK B \in Nat \ {0} : B = BYTE
    BY OperandosOK
  <1>2. b \in Nat /\ b <= B - 1
    BY <1>1 DEF Byte
  <1>3. B * alto \in Nat /\ B * w \in Nat /\ B * alto + B <= B * w
    <2>1. \A a, c \in Nat : a < c => B * a + B <= B * c
      BY <1>1
    <2>2. QED
      BY <1>1, <2>1
  <1>4. PICK x \in Nat, y \in Nat : x = B * alto /\ y = B * w /\ x + B <= y
    BY <1>3
  <1>5. b + x \in Nat /\ b + x < y
    BY <1>1, <1>2, <1>4
  <1>6. QED
    BY <1>1, <1>4, <1>5 DEF Sufijo

LEMMA HayValor ==
  ASSUME NEW s \in Seq(Byte), NEW n \in Nat, DOMAIN s = 1 .. n
  PROVE  \E f : PasosDeValor(f, s) /\ DeBytes(s) = f[1 .. n]
  <1>1. \A k \in 1 .. n : s[k] \in Byte
    <2>1. s \in [1 .. Len(s) -> Byte]
      BY LenProperties
    <2>2. QED
      BY <2>1
  <1>2. PICK F : F = [q \in (1 .. n) \X Nat |-> Sufijo(s[q[1]], q[2])]
    OBVIOUS
  <1>3. /\ F \in [(1 .. n) \X Nat -> Nat]
        /\ \A k \in 1 .. n, v \in Nat : F[<<k, v>>] = Sufijo(s[k], v)
    <2>1. ASSUME NEW k \in 1 .. n, NEW v \in Nat
          PROVE  Sufijo(s[k], v) \in Nat
      <3>1. PICK w \in Nat : v < w
        <4>1. v + 1 \in Nat /\ v < v + 1
          OBVIOUS
        <4>2. QED
          BY <4>1
      <3>2. QED
        BY <1>1, <3>1, UnByteMas
    <2>2. QED
      BY <1>2, <2>1
  <1>4. PICK c : c = ElMinimo(n)
    OBVIOUS
  <1>5. \A S \in SUBSET (1 .. n) : S # {} => c[S] \in S /\ c[S] = Min(S)
    BY <1>4, EligeMinimo
  <1>6. PICK g \in [SUBSET (1 .. n) -> Nat] : Iteracion(g, n, F, 0, c)
    BY <1>3, <1>5, HayIteracion
  <1>7. ASSUME NEW S \in SUBSET (1 .. n)
        PROVE  g[S] = IF S = {} THEN 0 ELSE Sufijo(s[Min(S)], g[S \ {Min(S)}])
    <2>1. g[S] = ValorDe(g, F, 0, c, S)
      BY <1>6 DEF Iteracion
    <2>2. CASE S = {}
      BY <2>1, <2>2 DEF ValorDe
    <2>3. CASE S # {}
      <3>1. PICK x \in 1 .. n : x = c[S] /\ x = Min(S)
        BY <1>5, <2>3
      <3>2. PICK v \in Nat : v = g[S \ {x}]
        OBVIOUS
      <3>3. g[S] = F[<<x, v>>]
        BY <2>1, <2>3, <3>1, <3>2 DEF ValorDe
      <3>4. QED
        BY <1>3, <2>3, <3>1, <3>2, <3>3
    <2>4. QED
      BY <2>2, <2>3
  <1>8. PasosDeValor(g, s)
    BY <1>6, <1>7 DEF PasosDeValor
  <1>9. DeBytes(s) = (CHOOSE f : PasosDeValor(f, s))[1 .. n]
    BY DEF DeBytes, FoldRight, MapThenFoldSet, PasosDeValor, Sufijo
  <1>10. QED
    BY <1>8, <1>9

\* The last m numbers, one by one.
LEMMA Sufijos ==
  ASSUME NEW n \in Nat, NEW k \in 1 .. n
  PROVE  k .. n # {} /\ Min(k .. n) = k /\ (k .. n) \ {k} = k + 1 .. n
  <1>1. k .. n \subseteq Nat /\ k .. n # {} /\ (k .. n) \ {k} = k + 1 .. n /\ k \in k .. n
    OBVIOUS
  <1>2. Min(k .. n) \in k .. n /\ Min(k .. n) <= k
    BY <1>1, Menor
  <1>3. QED
    BY <1>1, <1>2

\* The value of so many bytes is below the weight of the next.
LEMMA ValorDeBytes ==
  ASSUME NEW s \in Seq(Byte), NEW n \in 0 .. ANCHO, Largo(s) = n
  PROVE  DeBytes(s) \in Nat /\ DeBytes(s) < Peso[n]
  <1>1. n \in Nat /\ DOMAIN s = 1 .. n /\ \A k \in 1 .. n : s[k] \in Byte
    BY LenProperties, ElementOfSeq DEF Largo
  <1>2. PICK f : PasosDeValor(f, s) /\ DeBytes(s) = f[1 .. n]
    BY <1>1, HayValor
  <1>3. \A S \in SUBSET (1 .. n) :
          f[S] = IF S = {} THEN 0 ELSE Sufijo(s[Min(S)], f[S \ {Min(S)}])
    BY <1>1, <1>2 DEF PasosDeValor
  <1> DEFINE P(m) == f[n - m + 1 .. n] \in Nat /\ f[n - m + 1 .. n] < Peso[m]
             N == {m \in 0 .. n : ~P(m)}
  <1>4. ASSUME N # {}
        PROVE  FALSE
    <2>0. P(0)
      <3>1. n - 0 + 1 .. n = {} /\ {} \in SUBSET (1 .. n)
        <4>1. \A i \in Nat : i - 0 + 1 .. i = {}
          OBVIOUS
        <4>2. QED
          BY <1>1, <4>1
      <3>2. f[{}] = 0 /\ 0 < Peso[0]
        <4>1. {} \in SUBSET (1 .. n)
          OBVIOUS
        <4>2. f[{}] = 0
          BY <1>3, <4>1, Zenon
        <4>3. Peso[0] = 1
          BY Pesos
        <4>4. QED
          BY <4>2, <4>3
      <3>3. QED
        BY <3>1, <3>2
    <2>1. N \subseteq Nat
      BY <1>1
    <2>2. PICK m \in N : \A k \in N : m <= k
      BY <1>4, <2>1, Minimo
    <2>3. m \in 1 .. n /\ m - 1 \in 0 .. n /\ m - 1 \notin N
      BY <1>1, <2>0, <2>2
    <2>4. PICK k \in 1 .. n : k = n - m + 1 /\ k + 1 = n - (m - 1) + 1
      BY <1>1, <2>3
    <2>5. PICK alto \in Nat, w \in Nat : alto = f[k + 1 .. n] /\ w = Peso[m - 1] /\ alto < w
      <3>1. m - 1 \in 0 .. ANCHO
        BY <2>3, OperandosOK
      <3>2. Peso[m - 1] \in Nat
        BY <3>1, Pesos
      <3>3. QED
        BY <2>3, <2>4, <3>2
    <2>6. f[k .. n] = Sufijo(s[k], alto)
      <3>1. k .. n # {} /\ Min(k .. n) = k /\ (k .. n) \ {k} = k + 1 .. n
        BY <1>1, Sufijos
      <3>2. k .. n \in SUBSET (1 .. n)
        OBVIOUS
      <3>3. f[k .. n] = Sufijo(s[Min(k .. n)], f[(k .. n) \ {Min(k .. n)}])
        BY <1>3, <3>1, <3>2
      <3>4. QED
        BY <2>5, <3>1, <3>3
    <2>7. Sufijo(s[k], alto) \in Nat /\ Sufijo(s[k], alto) < BYTE * w
      BY <1>1, <2>5, UnByteMas
    <2>8. Peso[m] = BYTE * w
      <3>1. m \in 1 .. ANCHO
        BY <2>3, OperandosOK
      <3>2. QED
        BY <2>5, <3>1, Pesos
    <2>9. P(m)
      BY <2>4, <2>6, <2>7, <2>8
    <2>10. QED
      BY <2>2, <2>9
  <1> HIDE DEF P
  <1>5. P(n)
    <2>1. n \in 0 .. n
      BY <1>1
    <2>2. QED
      BY <1>4, <2>1
  <1> USE DEF P
  <1>6. n - n + 1 .. n = 1 .. n
    BY <1>1
  <1>7. QED
    BY <1>2, <1>5, <1>6

-----------------------------------------------------------------------------
(***************************************************************************)
(* The frames get_available_frame gives.                                   *)
(***************************************************************************)
Debajo(S, f) == {g \in S : g < f}

\* A set of n numbers has, for every j below n, one that passes j of the others.
Ordenado(S, n) == \A j \in Nat : j < n => \E f \in S : Cardinality(Debajo(S, f)) = j

LEMMA ConMaximo ==
  ASSUME NEW m \in Nat, NEW S \in SUBSET (0 .. m), NEW R, R = S \ {m}, m \in S,
         IsFiniteSet(R), Ordenado(R, Cardinality(R))
  PROVE  Ordenado(S, Cardinality(S))
  <1>1. PICK n \in Nat : n = Cardinality(R)
    BY FS_CardinalityType
  <1>2. Cardinality(S) = n + 1
    <2>1. S = R \cup {m} /\ m \notin R
      OBVIOUS
    <2>2. QED
      BY <1>1, <2>1, FS_AddElement
  <1>3. ASSUME NEW j \in Nat, j < n
        PROVE  \E f \in S : Cardinality(Debajo(S, f)) = j
    <2>1. PICK f \in R : Cardinality(Debajo(R, f)) = j
      BY <1>1, <1>3 DEF Ordenado
    <2>2. ~(m < f)
      OBVIOUS
    <2>3. Debajo(S, f) = Debajo(R, f)
      BY <2>2 DEF Debajo
    <2>4. QED
      BY <2>1, <2>3
  <1>4. Debajo(S, m) = R
    <2>1. \A g \in S : g < m <=> g # m
      OBVIOUS
    <2>2. QED
      BY <2>1 DEF Debajo
  <1>5. ASSUME NEW j \in Nat, j < n + 1
        PROVE  \E f \in S : Cardinality(Debajo(S, f)) = j
    <2>1. CASE j < n
      BY <1>3, <2>1
    <2>2. CASE ~(j < n)
      <3>1. j = n
        BY <1>5, <2>2
      <3>2. QED
        BY <1>1, <1>4, <3>1
    <2>3. QED
      BY <2>1, <2>2
  <1>6. QED
    BY <1>2, <1>5 DEF Ordenado

LEMMA HayRango ==
  ASSUME NEW m \in Nat
  PROVE  \A S \in SUBSET (0 .. m - 1) : IsFiniteSet(S) /\ Ordenado(S, Cardinality(S))
  <1> DEFINE P(k) == \A S \in SUBSET (0 .. k - 1) : IsFiniteSet(S) /\ Ordenado(S, Cardinality(S))
             N == {k \in Nat : ~P(k)}
  <1>1. P(0)
    <2>1. ASSUME NEW S \in SUBSET (0 .. 0 - 1)
          PROVE  IsFiniteSet(S) /\ Ordenado(S, Cardinality(S))
      <3>1. S = {}
        OBVIOUS
      <3>2. IsFiniteSet(S) /\ Cardinality(S) = 0
        BY <3>1, FS_EmptySet
      <3>3. QED
        BY <3>2 DEF Ordenado
    <2>2. QED
      BY <2>1
  <1>2. ASSUME NEW k \in Nat, P(k)
        PROVE  P(k + 1)
    <2>1. ASSUME NEW S \in SUBSET (0 .. (k + 1) - 1)
          PROVE  IsFiniteSet(S) /\ Ordenado(S, Cardinality(S))
      <3>1. S \in SUBSET (0 .. k)
        OBVIOUS
      <3>2. PICK R : R = S \ {k}
        OBVIOUS
      <3>3. R \in SUBSET (0 .. k - 1)
        BY <3>1, <3>2
      <3>4. IsFiniteSet(R) /\ Ordenado(R, Cardinality(R))
        BY <1>2, <3>3
      <3>5. CASE k \in S
        <4>1. S = R \cup {k}
          BY <3>2, <3>5
        <4>2. IsFiniteSet(S)
          BY <3>4, <4>1, FS_AddElement
        <4>3. QED
          BY <3>1, <3>2, <3>4, <3>5, <4>2, ConMaximo
      <3>6. CASE k \notin S
        <4>1. S = R
          BY <3>2, <3>6
        <4>2. QED
          BY <3>4, <4>1
      <3>7. QED
        BY <3>5, <3>6
    <2>2. QED
      BY <2>1
  <1> HIDE DEF P
  <1>3. ASSUME N # {}
        PROVE  FALSE
    <2>1. PICK k \in N : \A j \in N : k <= j
      BY <1>3, Minimo
    <2>2. k # 0 /\ k - 1 \in Nat /\ k - 1 \notin N /\ (k - 1) + 1 = k
      BY <1>1, <2>1
    <2>3. P((k - 1) + 1)
      BY <1>2, <2>2
    <2>4. QED
      BY <2>1, <2>2, <2>3
  <1>4. P(m)
    BY <1>3
  <1>5. QED
    BY <1>4 DEF P

LEMMA Disponibles ==
  /\ FramesLibres \subseteq Marco /\ IsFiniteSet(FramesLibres)
  /\ Cardinality(FramesLibres) \in Nat
  /\ \A j \in Nat : j < Cardinality(FramesLibres)
       => \E f \in FramesLibres : Cardinality(Antes(f)) = j
  <1>1. FramesLibres \subseteq 0 .. Frames - 1 /\ Frames \in Nat
    BY EjecucionOK DEF FramesLibres
  <1>2. IsFiniteSet(FramesLibres) /\ Ordenado(FramesLibres, Cardinality(FramesLibres))
    BY <1>1, HayRango
  <1>3. Cardinality(FramesLibres) \in Nat
    BY <1>2, FS_CardinalityType
  <1>4. \A f : Antes(f) = Debajo(FramesLibres, f)
    BY DEF Antes, Debajo
  <1>5. QED
    BY <1>1, <1>2, <1>3, <1>4 DEF Ordenado, Marco

\* Free frames, each one once.
LEMMA LibresBien ==
  ASSUME NEW n \in Nat, n <= Cardinality(FramesLibres)
  PROVE  \E s \in Seq(Marco) :
           /\ s = Libres(n) /\ Len(s) = n /\ DOMAIN s = 1 .. n
           /\ \A k \in 1 .. n : s[k] \in FramesLibres
           /\ \A j, k \in 1 .. n : s[j] = s[k] => j = k
  <1> DEFINE e(k) == CHOOSE f \in FramesLibres : Cardinality(Antes(f)) = k - 1
  <1>1. ASSUME NEW k \in 1 .. n
        PROVE  e(k) \in FramesLibres /\ Cardinality(Antes(e(k))) = k - 1
    <2>1. PICK c \in Nat : c = Cardinality(FramesLibres)
      BY Disponibles
    <2>2. k - 1 \in Nat /\ k - 1 < c
      BY <2>1
    <2>3. \E f \in FramesLibres : Cardinality(Antes(f)) = k - 1
      BY <2>1, <2>2, Disponibles
    <2>4. QED
      BY <2>3
  <1>2. Libres(n) = [k \in 1 .. n |-> e(k)]
    BY DEF Libres
  <1> HIDE DEF e
  <1>3. PICK s : s = [k \in 1 .. n |-> e(k)]
    OBVIOUS
  <1>4. \A k \in 1 .. n : e(k) \in Marco
    BY <1>1, Disponibles
  <1>5. s \in Seq(Marco) /\ Len(s) = n /\ DOMAIN s = 1 .. n
    BY <1>3, <1>4
  <1>6. ASSUME NEW j \in 1 .. n, NEW k \in 1 .. n, s[j] = s[k]
        PROVE  j = k
    <2>1. e(j) = e(k)
      BY <1>3, <1>6
    <2>2. j - 1 = k - 1
      BY <1>1, <2>1
    <2>3. QED
      BY <2>2
  <1>7. \A k \in 1 .. n : s[k] \in FramesLibres
    BY <1>1, <1>3
  <1>8. QED
    BY <1>2, <1>3, <1>5, <1>6, <1>7

-----------------------------------------------------------------------------
(***************************************************************************)
(* The page tables.                                                        *)
(***************************************************************************)
TablasBien == tablas \in [Procesos -> Seq(Marco)] /\ FramesSinCompartir

Ajena(p, f) == \A q \in Procesos : q # p => \A j \in DOMAIN tablas[q] : tablas[q][j] # f

LEMMA NuevaTabla ==
  ASSUME TablasBien, NEW p \in Procesos, NEW s \in Seq(Marco),
         \A j, k \in DOMAIN s : s[j] = s[k] => j = k,
         \A k \in DOMAIN s : Ajena(p, s[k]),
         tablas' = [tablas EXCEPT ![p] = s]
  PROVE  TablasBien'
  <1>1. tablas' \in [Procesos -> Seq(Marco)]
    BY DEF TablasBien
  <1>2. tablas'[p] = s /\ \A q \in Procesos : q # p => tablas'[q] = tablas[q]
    BY DEF TablasBien
  <1>3. ASSUME NEW q \in Procesos, NEW r \in Procesos,
               NEW j \in DOMAIN tablas'[q], NEW k \in DOMAIN tablas'[r],
               tablas'[q][j] = tablas'[r][k]
        PROVE  q = r /\ j = k
    <2>1. CASE q = p /\ r = p
      BY <1>2, <1>3, <2>1
    <2>2. CASE q = p /\ r # p
      BY <1>2, <1>3, <2>2 DEF Ajena
    <2>3. CASE q # p /\ r = p
      BY <1>2, <1>3, <2>3 DEF Ajena
    <2>4. CASE q # p /\ r # p
      BY <1>2, <1>3, <2>4 DEF TablasBien, FramesSinCompartir
    <2>5. QED
      BY <2>1, <2>2, <2>3, <2>4
  <1>4. FramesSinCompartir'
    BY <1>3 DEF FramesSinCompartir
  <1>5. QED
    BY <1>1, <1>4 DEF TablasBien

\* A table loses its last pages.
LEMMA TablaCorta ==
  ASSUME TablasBien, NEW p \in Procesos, NEW s \in Seq(Marco),
         \A k \in DOMAIN s : k \in DOMAIN tablas[p] /\ s[k] = tablas[p][k],
         tablas' = [tablas EXCEPT ![p] = s]
  PROVE  TablasBien'
  <1>1. \A j, k \in DOMAIN s : s[j] = s[k] => j = k
    BY DEF TablasBien, FramesSinCompartir
  <1>2. \A k \in DOMAIN s : Ajena(p, s[k])
    BY DEF TablasBien, FramesSinCompartir, Ajena
  <1>3. QED
    BY <1>1, <1>2, NuevaTabla

\* A table gets free frames.
LEMMA TablaLarga ==
  ASSUME TablasBien, NEW p \in Procesos, NEW n \in Nat, n <= Cardinality(FramesLibres),
         tablas' = [tablas EXCEPT ![p] = Junta(tablas[p], Libres(n))]
  PROVE  TablasBien'
  <1>1. PICK t \in Seq(Marco), m \in Nat : t = tablas[p] /\ Largo(t) = m /\ DOMAIN t = 1 .. m
    BY LenProperties DEF TablasBien, Largo
  <1>2. PICK q \in Seq(Marco) : /\ q = Libres(n) /\ Largo(q) = n /\ DOMAIN q = 1 .. n
                                /\ \A k \in 1 .. n : q[k] \in FramesLibres
                                /\ \A j, k \in 1 .. n : q[j] = q[k] => j = k
    BY LibresBien DEF Largo
  <1>3. PICK s \in Seq(Marco) : /\ s = Junta(t, q) /\ Largo(s) = m + n
                                /\ \A i \in 1 .. m : s[i] = t[i]
                                /\ \A i \in 1 .. n : s[m + i] = q[i]
    BY <1>1, <1>2, DosPartes
  <1>4. DOMAIN s = 1 .. m + n
    BY <1>3, LenProperties DEF Largo
  <1>5. ASSUME NEW k \in 1 .. m + n
        PROVE  \/ k \in 1 .. m /\ s[k] = t[k]
               \/ ~(k <= m) /\ k - m \in 1 .. n /\ s[k] = q[k - m]
    <2>1. CASE k <= m
      BY <1>3, <2>1
    <2>2. CASE ~(k <= m)
      <3>1. k - m \in 1 .. n /\ m + (k - m) = k
        BY <2>2
      <3>2. QED
        BY <1>3, <2>2, <3>1
    <2>3. QED
      BY <2>1, <2>2
  <1>6. \A r \in Procesos : \A j \in DOMAIN tablas[r] : tablas[r][j] \notin FramesLibres
    BY DEF FramesLibres, FramesUsados
  <1>u. \A j, k \in 1 .. m : t[j] = t[k] => j = k
    <2>1. \A j, k \in DOMAIN tablas[p] : tablas[p][j] = tablas[p][k] => j = k
      BY DEF TablasBien, FramesSinCompartir
    <2>2. QED
      BY <1>1, <2>1
  <1>7. ASSUME NEW j \in 1 .. m + n, NEW k \in 1 .. m + n, s[j] = s[k]
        PROVE  j = k
    <2>1. CASE j \in 1 .. m /\ s[j] = t[j] /\ k \in 1 .. m /\ s[k] = t[k]
      BY <1>7, <1>u, <2>1
    <2>2. CASE j \in 1 .. m /\ s[j] = t[j] /\ k - m \in 1 .. n /\ s[k] = q[k - m]
      <3>1. s[j] \notin FramesLibres
        BY <1>1, <1>6, <2>2
      <3>2. s[k] \in FramesLibres
        BY <1>2, <2>2
      <3>3. QED
        BY <1>7, <3>1, <3>2
    <2>3. CASE j - m \in 1 .. n /\ s[j] = q[j - m] /\ k \in 1 .. m /\ s[k] = t[k]
      <3>1. s[k] \notin FramesLibres
        BY <1>1, <1>6, <2>3
      <3>2. s[j] \in FramesLibres
        BY <1>2, <2>3
      <3>3. QED
        BY <1>7, <3>1, <3>2
    <2>4. CASE j - m \in 1 .. n /\ s[j] = q[j - m] /\ k - m \in 1 .. n /\ s[k] = q[k - m]
      <3>1. j - m = k - m
        BY <1>2, <1>7, <2>4
      <3>2. QED
        BY <3>1
    <2>5. QED
      BY <1>5, <2>1, <2>2, <2>3, <2>4
  <1>8. ASSUME NEW k \in 1 .. m + n
        PROVE  Ajena(p, s[k])
    <2>1. CASE k \in 1 .. m /\ s[k] = t[k]
      BY <1>1, <2>1 DEF TablasBien, FramesSinCompartir, Ajena
    <2>2. CASE k - m \in 1 .. n /\ s[k] = q[k - m]
      BY <1>2, <1>6, <2>2 DEF Ajena
    <2>3. QED
      BY <1>5, <2>1, <2>2
  <1>9. tablas' = [tablas EXCEPT ![p] = s]
    BY <1>1, <1>2, <1>3
  <1>10. QED
    BY <1>4, <1>7, <1>8, <1>9, NuevaTabla

-----------------------------------------------------------------------------
(***************************************************************************)
(* The request of a process, from the CPU to the interface.                *)
(***************************************************************************)
DeEntradaSalida == {"IO_STDIN_READ", "IO_STDOUT_WRITE"}

LEMMA SolicitudViaja ==
  ASSUME NEW V, registros \in [Procesos -> [Registro -> V]], NEW p \in Procesos,
         NEW o \in DeEntradaSalida, NEW s \in Seq(Peticion)
  PROVE  Viaja(p, crear_solicitud_io(<<o>>, s))
           = [pid |-> p, tokens |-> <<o>>, peticiones_memoria |-> s]
  <1>1. PICK tokens \in Seq(DeEntradaSalida) : tokens = <<o>> /\ tokens # NULL
    <2>1. <<o>> \in Seq(DeEntradaSalida)
      OBVIOUS
    <2>2. QED
      BY <2>1, NullNoEsSolicitud DEF DeEntradaSalida
  <1>2. PICK ps \in Seq(PeticionMemoria) : ps = s /\ ps # NULL
    <2>1. Peticion \subseteq PeticionMemoria
      BY DEF Peticion, PeticionMemoria
    <2>2. s \in Seq(PeticionMemoria)
      <3>1. Len(s) \in Nat /\ s = [k \in 1 .. Len(s) |-> s[k]]
        BY LenProperties
      <3>2. \A k \in 1 .. Len(s) : s[k] \in PeticionMemoria
        BY <2>1, ElementOfSeq
      <3>3. PICK n \in Nat : n = Len(s)
        BY <3>1
      <3>4. QED
        BY <3>1, <3>2, <3>3
    <2>3. s # NULL
      BY <2>2, NullNoEsSolicitud DEF PeticionMemoria
    <2>4. QED
      BY <2>2, <2>3
  <1>3. PICK sol : sol = crear_solicitud_io(tokens, ps)
    OBVIOUS
  <1>4. /\ sol.instruc_io_tokenizadas = tokens /\ sol.peticiones_memoria = ps /\ sol # NULL
    <2>1. sol \in [instruc_io_tokenizadas : Seq(DeEntradaSalida),
                   peticiones_memoria : Seq(PeticionMemoria)]
      BY <1>3 DEF crear_solicitud_io
    <2>2. sol # NULL
      BY <2>1, NullNoEsSolicitud DEF DeEntradaSalida, PeticionMemoria
    <2>3. QED
      BY <1>3, <2>2 DEF crear_solicitud_io
  <1>5. PICK x : x = [pid |-> p, pc |-> 0, quantum |-> 0, estado |-> "EXECUTE",
                      registros |-> registros[p], solicitud |-> sol]
    OBVIOUS
  <1>6. Completo(x, V) /\ x.solicitud = sol /\ x.pid = p
    BY <1>5 DEF Completo
  <1>7. recibir_pcb(enviar_pcb(x, "PROCESO_BLOQUEADO_IO").campos) = x
    BY <1>1, <1>2, <1>3, <1>4, <1>6, PcbConSolicitud
  <1>8. PICK r : r = recibir_instruccion_io(enviar_instruccion_io(tokens, ps, p).campos)
    OBVIOUS
  <1>9. r.pid = p /\ r.tokens = tokens /\ r.peticiones_memoria = ps
    BY <1>8, InstruccionViaja
  <1>10. r = [pid |-> r.pid, tokens |-> r.tokens, peticiones_memoria |-> r.peticiones_memoria]
    BY <1>8 DEF recibir_instruccion_io
  <1>11. Viaja(p, sol) = r
    BY <1>4, <1>5, <1>6, <1>7, <1>8 DEF Viaja
  <1>12. QED
    BY <1>1, <1>2, <1>3, <1>9, <1>10, <1>11

-----------------------------------------------------------------------------
(***************************************************************************)
(* The inductive invariant.                                                *)
(***************************************************************************)
Turno == [pid : Procesos, tokens : {<<o>> : o \in DeEntradaSalida},
          peticiones_memoria : Seq(Peticion)]

\* What is typed has as many bytes as the requests that are left.
Servicio(s) ==
  /\ s \in [solicitud : Turno, datos : {NULL} \cup Seq(Byte), dl : Int, resta : Int]
  /\ (s.solicitud.tokens[1] = "IO_STDIN_READ" /\ s.datos # NULL)
       => Reparte(s.solicitud.peticiones_memoria, Largo(s.datos))

IoBien == DOMAIN io = Procesos /\ \A p \in Procesos : io[p] = NULL \/ Servicio(io[p])

RegistrosBien ==
  /\ registros \in [Procesos -> [Registro -> Nat]]
  /\ \A p \in Procesos, r \in Registro : registros[p][r] < Modulo(r)

EjecucionInv ==
  /\ config \in Configuraciones
  /\ RegistrosBien
  /\ TlbBien(tlb, config.entradas)
  /\ TablasBien
  /\ MEMORIA \in Memorias
  /\ IoBien
  /\ promesa \in BOOLEAN /\ vivos \subseteq Procesos

LEMMA Alcance ==
  ASSUME EjecucionInv, NEW p \in Procesos, NEW dl \in Nat, NEW tam \in Nat,
         NEW t, TlbBien(t, config.entradas)
  PROVE  /\ TlbBien(Traduce(t, p, dl, tam).tlb, config.entradas)
         /\ Reparte(Traduce(t, p, dl, tam).peticiones, tam)
  <1>1. PICK n \in Nat : n = config.entradas
    BY EjecucionOK DEF EjecucionInv
  <1>2. PICK marco : marco = [k \in PaginasConsultadas(dl, tam) |-> get_frame_number_by_pagina(p, k)]
    OBVIOUS
  <1>3. ASSUME NEW k \in PaginasConsultadas(dl, tam)
        PROVE  get_frame_number_by_pagina(p, k) \in Marco
    <2>1. PICK i \in Nat, c \in Nat : PaginasConsultadas(dl, tam) = i .. i + c - 1
      <3>1. PICK i, o, c : Paginado(i, o, c, dl, tam)
        BY HayPaginado
      <3>2. i \in Nat /\ c \in Nat /\ PaginasConsultadas(dl, tam) = i .. i + c - 1
        BY <3>1 DEF Paginado
      <3>3. QED
        BY <3>2
    <2>2. k \in Nat
      <3>1. k \in i .. i + c - 1
        BY <2>1
      <3>2. QED
        BY <3>1
    <2>3. PICK s \in Seq(Marco), l \in Nat : s = tablas[p] /\ l = Len(s)
      BY LenProperties DEF EjecucionInv, TablasBien
    <2>4. CASE k < l
      <3>1. k + 1 \in 1 .. l
        BY <2>2, <2>4
      <3>2. s[k + 1] \in Marco
        BY <2>3, <3>1, ElementOfSeq
      <3>3. QED
        BY <2>3, <2>4, <3>2 DEF get_frame_number_by_pagina
    <2>5. CASE ~(k < l)
      <3>1. 0 \in Marco
        BY EjecucionOK DEF Marco
      <3>2. QED
        BY <2>3, <2>5, <3>1 DEF get_frame_number_by_pagina
    <2>6. QED
      BY <2>4, <2>5
  <1>4. \A k \in PaginasConsultadas(dl, tam) : marco[k] \in Marco
    BY <1>2, <1>3
  <1>5. PICK algoritmo : algoritmo = config.algoritmo
    OBVIOUS
  <1>6. PICK u : u = mmu(t, p, dl, tam, marco, n, algoritmo)
    OBVIOUS
  <1>7. Traduce(t, p, dl, tam) = u
    BY <1>1, <1>2, <1>5, <1>6 DEF Traduce
  <1>8. TlbBien(u.tlb, n) /\ Reparte(u.peticiones, tam)
    <2>1. TlbBien(t, n)
      BY <1>1
    <2> HIDE <1>1, <1>2, <1>5
    <2>2. QED
      BY <1>4, <1>6, <2>1, Traduccion
  <1>9. QED
    BY <1>1, <1>7, <1>8

LEMMA Escribe ==
  ASSUME MEMORIA \in Memorias, NEW D \in Nat, NEW s, Reparte(s, D),
         NEW dato \in Seq(Byte), Largo(dato) = D
  PROVE  EscribirTodas(s, dato) \in Memorias
  <1>1. s \in Seq(Peticion)
    BY DEF Reparte
  <1>2. peticiones_distribuir_dato(s, dato) \in Seq(Pieza)
    BY <1>1, Piezas
  <1>3. QED
    BY <1>2, EscribeVarias DEF EscribirTodas

LEMMA CambiaRegistro ==
  ASSUME RegistrosBien, NEW p \in Procesos, NEW r \in Registro, NEW v \in Nat, v < Modulo(r),
         registros' = [registros EXCEPT ![p] = [registros[p] EXCEPT ![r] = v]]
  PROVE  RegistrosBien'
  <1>1. PICK regs \in [Registro -> Nat] : regs = registros[p]
    BY DEF RegistrosBien
  <1>2. PICK nuevos \in [Registro -> Nat] : nuevos = [regs EXCEPT ![r] = v]
    OBVIOUS
  <1>3. registros' = [registros EXCEPT ![p] = nuevos]
    BY <1>1, <1>2
  <1>4. registros' \in [Procesos -> [Registro -> Nat]]
    BY <1>3 DEF RegistrosBien
  <1>5. ASSUME NEW q \in Procesos, NEW x \in Registro
        PROVE  registros'[q][x] < Modulo(x)
    <2>1. CASE q # p
      BY <1>3, <2>1 DEF RegistrosBien
    <2>2. CASE q = p /\ x # r
      BY <1>1, <1>2, <1>3, <2>2 DEF RegistrosBien
    <2>3. CASE q = p /\ x = r
      BY <1>1, <1>2, <1>3, <2>3 DEF RegistrosBien
    <2>4. QED
      BY <2>1, <2>2, <2>3
  <1>6. QED
    BY <1>4, <1>5 DEF RegistrosBien

-----------------------------------------------------------------------------
(***************************************************************************)
(* The steps.                                                              *)
(***************************************************************************)
LEMMA Recortado ==
  ASSUME NEW x \in Int, NEW r
  PROVE  x % Modulo(r) \in Nat /\ x % Modulo(r) < Modulo(r)
  <1>1. PICK m \in Nat \ {0} : m = Modulo(r)
    BY Modulos
  <1>2. x % m \in 0 .. m - 1
    BY <1>1
  <1>3. QED
    BY <1>1, <1>2

LEMMA PasoCalcula ==
  ASSUME EjecucionInv, config' = config, NEW p \in Procesos, NEW i \in Instrucciones,
         i.op \in {"SET", "SUM", "SUB"}, Calcula(p, i)
  PROVE  EjecucionInv'
  <1>1. i.a \in Registro
    BY InstruccionesOK
  <1>2. \A r \in Registro : registros[p][r] \in Nat
    BY DEF EjecucionInv, RegistrosBien
  <1>3. \E x \in Int : registros' = [registros EXCEPT ![p] = [registros[p] EXCEPT ![i.a] = x % Modulo(i.a)]]
    <2>1. CASE i.op = "SET"
      <3>1. i.b \in Int
        BY <2>1, InstruccionesOK
      <3>2. registros' = [registros EXCEPT ![p] = [registros[p] EXCEPT ![i.a] = i.b % Modulo(i.a)]]
        BY <2>1 DEF Calcula, exec_set
      <3>3. QED
        BY <3>1, <3>2
    <2>2. CASE i.op = "SUM"
      <3>1. i.b \in Registro
        BY <2>2, InstruccionesOK
      <3>2. PICK x \in Int : x = registros[p][i.a] + registros[p][i.b]
        BY <1>1, <1>2, <3>1
      <3>3. registros' = [registros EXCEPT ![p] = [registros[p] EXCEPT ![i.a] = x % Modulo(i.a)]]
        BY <2>2, <3>2 DEF Calcula, exec_sum
      <3>4. QED
        BY <3>3
    <2>3. CASE i.op = "SUB"
      <3>1. i.b \in Registro
        BY <2>3, InstruccionesOK
      <3>2. PICK x \in Int : x = registros[p][i.a] - registros[p][i.b]
        BY <1>1, <1>2, <3>1
      <3>3. registros' = [registros EXCEPT ![p] = [registros[p] EXCEPT ![i.a] = x % Modulo(i.a)]]
        BY <2>3, <3>2 DEF Calcula, exec_sub
      <3>4. QED
        BY <3>3
    <2>4. QED
      BY <2>1, <2>2, <2>3
  <1>4. RegistrosBien'
    <2>1. PICK x \in Int : registros' = [registros EXCEPT ![p] = [registros[p] EXCEPT ![i.a] = x % Modulo(i.a)]]
      BY <1>3
    <2>2. PICK v \in Nat : v = x % Modulo(i.a) /\ v < Modulo(i.a)
      BY Recortado
    <2>3. registros' = [registros EXCEPT ![p] = [registros[p] EXCEPT ![i.a] = v]]
      BY <2>1, <2>2
    <2>4. RegistrosBien
      BY DEF EjecucionInv
    <2>5. QED
      BY <1>1, <2>2, <2>3, <2>4, CambiaRegistro
  <1>5. UNCHANGED <<tlb, MEMORIA, promesa, tablas, vivos, io>>
    BY DEF Calcula, SinAcceso
  <1>6. QED
    BY <1>4, <1>5 DEF EjecucionInv, TablasBien, FramesSinCompartir, IoBien

LEMMA PasoFinaliza ==
  ASSUME EjecucionInv, config' = config, NEW p \in Procesos, Finaliza(p)
  PROVE  EjecucionInv'
  <1>1. PICK s \in Seq(Marco) : s = <<>>
    <2>1. <<>> \in Seq(Marco)
      OBVIOUS
    <2>2. QED
      BY <2>1
  <1>2. tablas' = [tablas EXCEPT ![p] = s] /\ DOMAIN s = {}
    BY <1>1 DEF Finaliza
  <1>3. TablasBien'
    BY <1>2, TablaCorta DEF EjecucionInv
  <1>4. UNCHANGED <<tlb, MEMORIA, promesa, registros, io>> /\ vivos' = vivos \ {p}
    BY DEF Finaliza, SinAcceso
  <1>5. QED
    BY <1>3, <1>4 DEF EjecucionInv, RegistrosBien, IoBien

LEMMA PasoResize ==
  ASSUME EjecucionInv, config' = config, NEW p \in Procesos, NEW bytes \in Nat, exec_resize(p, bytes)
  PROVE  EjecucionInv'
  <1>1. PICK paginas \in Nat : paginas = (bytes + TamPagina - 1) \div TamPagina
    <2>1. PICK T \in Nat \ {0} : T = TamPagina
      BY EjecucionOK
    <2>2. PICK a \in Nat : a = bytes + T - 1
      BY <2>1
    <2>3. a \div T \in Nat
      BY <2>1, Multiplo
    <2>4. QED
      BY <2>1, <2>2, <2>3
  <1>2. PICK s \in Seq(Marco), actual \in Nat : s = tablas[p] /\ actual = Len(s) /\ DOMAIN s = 1 .. actual
    BY LenProperties DEF EjecucionInv, TablasBien
  <1>3. PICK libres \in Nat : libres = Cardinality(FramesLibres)
    BY Disponibles
  <1>4. CASE paginas > actual + libres
    BY <1>1, <1>2, <1>3, <1>4, PasoFinaliza DEF exec_resize
  <1>5. CASE ~(paginas > actual + libres)
    <2>1. /\ tablas' = [tablas EXCEPT ![p] = IF paginas >= actual
                                             THEN tablas[p] \o Libres(paginas - actual)
                                             ELSE SubSeq(tablas[p], 1, paginas)]
          /\ UNCHANGED <<registros, tlb, MEMORIA, vivos, io, promesa>>
      BY <1>1, <1>2, <1>3, <1>5 DEF exec_resize
    <2>2. TablasBien
      BY DEF EjecucionInv
    <2>3. CASE paginas >= actual
      <3>1. PICK n \in Nat : n = paginas - actual /\ n <= Cardinality(FramesLibres)
        BY <1>3, <1>5, <2>3
      <3>2. tablas' = [tablas EXCEPT ![p] = Junta(tablas[p], Libres(n))]
        BY <2>1, <2>3, <3>1 DEF Junta
      <3>3. TablasBien'
        BY <2>2, <3>1, <3>2, TablaLarga
      <3>4. QED
        BY <2>1, <3>3 DEF EjecucionInv, RegistrosBien, IoBien
    <2>4. CASE ~(paginas >= actual)
      <3>1. PICK q : q = SubSeq(s, 1, paginas)
        OBVIOUS
      <3>2. /\ q \in Seq(Marco) /\ DOMAIN q = 1 .. paginas
            /\ \A k \in 1 .. paginas : q[k] = s[k]
        <4>1. 0 \in Nat /\ 0 <= paginas /\ paginas <= actual /\ paginas - 0 = paginas
          BY <2>4
        <4>2. Largo(s) = actual
          BY <1>2 DEF Largo
        <4>3. /\ Corte(s, 0, paginas) \in Seq(Marco) /\ Largo(Corte(s, 0, paginas)) = paginas - 0
              /\ \A k \in 1 .. paginas - 0 : Corte(s, 0, paginas)[k] = s[0 + k]
          BY <4>1, <4>2, CorteBien
        <4>4. Corte(s, 0, paginas) = q
          BY <3>1 DEF Corte
        <4>5. QED
          BY <4>1, <4>3, <4>4, LenProperties DEF Largo
      <3>3. \A k \in DOMAIN q : k \in DOMAIN tablas[p] /\ q[k] = tablas[p][k]
        BY <1>2, <2>4, <3>2
      <3>4. tablas' = [tablas EXCEPT ![p] = q]
        BY <1>2, <2>1, <2>4, <3>1
      <3>5. TablasBien'
        BY <2>2, <3>2, <3>3, <3>4, TablaCorta
      <3>6. QED
        BY <2>1, <3>5 DEF EjecucionInv, RegistrosBien, IoBien
    <2>5. QED
      BY <2>3, <2>4
  <1>6. QED
    BY <1>4, <1>5

LEMMA PasoMovOut ==
  ASSUME EjecucionInv, config' = config, NEW p \in Procesos,
         NEW direccion \in Registro, NEW datos \in Registro, exec_mov_out(p, direccion, datos)
  PROVE  EjecucionInv'
  <1>1. PICK dl \in Nat, v \in Nat : dl = registros[p][direccion] /\ v = registros[p][datos]
    BY DEF EjecucionInv, RegistrosBien
  <1>2. PICK tam \in Nat : tam = tam_registro(datos)
    <2>1. tam_registro(datos) \in 1 .. ANCHO
      BY Modulos
    <2>2. QED
      BY <2>1
  <1>3. PICK t : t = Traduce(tlb, p, dl, tam)
    OBVIOUS
  <1>4. TlbBien(t.tlb, config.entradas) /\ Reparte(t.peticiones, tam)
    <2>1. TlbBien(tlb, config.entradas)
      BY DEF EjecucionInv
    <2>2. QED
      BY <1>3, <2>1, Alcance
  <1>5. EnBytes(v, datos) \in Seq(Byte) /\ Largo(EnBytes(v, datos)) = tam
    BY <1>2, BytesDeUno
  <1>6. MEMORIA' \in Memorias
    <2>1. MEMORIA' = EscribirTodas(t.peticiones, EnBytes(v, datos))
      BY <1>1, <1>2, <1>3 DEF exec_mov_out
    <2>2. MEMORIA \in Memorias
      BY DEF EjecucionInv
    <2>3. QED
      BY <1>4, <1>5, <2>1, <2>2, Escribe
  <1>7. tlb' = t.tlb /\ UNCHANGED <<registros, tablas, vivos, io>>
    BY <1>1, <1>2, <1>3 DEF exec_mov_out
  <1>8. promesa' \in BOOLEAN
    BY DEF exec_mov_out, Accede
  <1>9. QED
    BY <1>4, <1>6, <1>7, <1>8 DEF EjecucionInv, RegistrosBien, TablasBien, FramesSinCompartir, IoBien

LEMMA PasoMovIn ==
  ASSUME EjecucionInv, config' = config, NEW p \in Procesos,
         NEW datos \in Registro, NEW direccion \in Registro, exec_mov_in(p, datos, direccion)
  PROVE  EjecucionInv'
  <1>1. PICK dl \in Nat : dl = registros[p][direccion]
    BY DEF EjecucionInv, RegistrosBien
  <1>2. PICK tam \in 0 .. ANCHO : tam = tam_registro(datos) /\ tam \in Nat
    <2>1. tam_registro(datos) \in 1 .. ANCHO
      BY Modulos
    <2>2. QED
      BY <2>1
  <1>3. PICK t : t = Traduce(tlb, p, dl, tam)
    OBVIOUS
  <1>4. TlbBien(t.tlb, config.entradas) /\ Reparte(t.peticiones, tam)
    <2>1. TlbBien(tlb, config.entradas)
      BY DEF EjecucionInv
    <2>2. QED
      BY <1>2, <1>3, <2>1, Alcance
  <1>5. PICK b \in Seq(Byte) : b = LeerTodas(t.peticiones) /\ Largo(b) = tam
    <2>1. MEMORIA \in Memorias
      BY DEF EjecucionInv
    <2>2. LeerTodas(t.peticiones) \in Seq(Byte) /\ Largo(LeerTodas(t.peticiones)) = tam
      BY <1>2, <1>4, <2>1, LeeVarias
    <2>3. QED
      BY <2>2
  <1>6. PICK v \in Nat : v = DeBytes(b) /\ v < Modulo(datos)
    <2>1. DeBytes(b) \in Nat /\ DeBytes(b) < Peso[tam]
      BY <1>5, ValorDeBytes
    <2>2. Modulo(datos) = Peso[tam]
      BY <1>2, Modulos
    <2>3. QED
      BY <2>1, <2>2
  <1>7. /\ registros' = [registros EXCEPT ![p] = [registros[p] EXCEPT ![datos] = v]]
        /\ tlb' = t.tlb /\ UNCHANGED <<MEMORIA, tablas, vivos, io>>
    BY <1>1, <1>2, <1>3, <1>5, <1>6 DEF exec_mov_in
  <1>8. RegistrosBien'
    BY <1>6, <1>7, CambiaRegistro DEF EjecucionInv
  <1>9. promesa' \in BOOLEAN
    BY DEF exec_mov_in, Accede
  <1>10. QED
    BY <1>4, <1>7, <1>8, <1>9 DEF EjecucionInv, TablasBien, FramesSinCompartir, IoBien

LEMMA PasoCpString ==
  ASSUME EjecucionInv, config' = config, NEW p \in Procesos, NEW tam \in Nat, exec_cp_string(p, tam)
  PROVE  EjecucionInv'
  <1>1. PICK si \in Nat, di \in Nat : si = registros[p]["si"] /\ di = registros[p]["di"]
    <2>1. "si" \in Registro /\ "di" \in Registro
      BY DEF Registro, Registros
    <2>2. QED
      BY <2>1 DEF EjecucionInv, RegistrosBien
  <1>2. PICK lectura : lectura = Traduce(tlb, p, si, tam)
    OBVIOUS
  <1>3. TlbBien(lectura.tlb, config.entradas) /\ Reparte(lectura.peticiones, tam)
    <2>1. TlbBien(tlb, config.entradas)
      BY DEF EjecucionInv
    <2>2. QED
      BY <1>2, <2>1, Alcance
  <1>4. PICK escritura : escritura = Traduce(lectura.tlb, p, di, tam)
    OBVIOUS
  <1>5. TlbBien(escritura.tlb, config.entradas) /\ Reparte(escritura.peticiones, tam)
    BY <1>3, <1>4, Alcance
  <1>6. MEMORIA \in Memorias
    BY DEF EjecucionInv
  <1>7. LeerTodas(lectura.peticiones) \in Seq(Byte) /\ Largo(LeerTodas(lectura.peticiones)) = tam
    BY <1>3, <1>6, LeeVarias
  <1>8. EscribirTodas(escritura.peticiones, LeerTodas(lectura.peticiones)) \in Memorias
    BY <1>5, <1>6, <1>7, Escribe
  <1>9. /\ tlb' = escritura.tlb
        /\ MEMORIA' = EscribirTodas(escritura.peticiones, LeerTodas(lectura.peticiones))
        /\ UNCHANGED <<registros, tablas, vivos, io>>
    BY <1>1, <1>2, <1>4 DEF exec_cp_string
  <1>10. promesa' \in BOOLEAN
    BY DEF exec_cp_string, Accede
  <1>11. QED
    BY <1>5, <1>8, <1>9, <1>10 DEF EjecucionInv, RegistrosBien, TablasBien, FramesSinCompartir, IoBien

LEMMA PasoExecIo ==
  ASSUME EjecucionInv, config' = config, NEW p \in Procesos, NEW i \in Instrucciones,
         i.op \in DeEntradaSalida, exec_io(p, i)
  PROVE  EjecucionInv'
  <1>1. i.a \in Registro /\ i.b \in Registro
    BY InstruccionesOK DEF DeEntradaSalida
  <1>2. PICK dl \in Nat, tam \in Nat : dl = registros[p][i.a] /\ tam = registros[p][i.b]
    BY <1>1 DEF EjecucionInv, RegistrosBien
  <1>3. PICK t : t = Traduce(tlb, p, dl, tam)
    OBVIOUS
  <1>4. TlbBien(t.tlb, config.entradas) /\ Reparte(t.peticiones, tam)
    <2>1. TlbBien(tlb, config.entradas)
      BY DEF EjecucionInv
    <2>2. QED
      BY <1>3, <2>1, Alcance
  <1>5. PICK s \in Seq(Peticion) : s = t.peticiones
    BY <1>4 DEF Reparte
  <1>6. PICK o \in DeEntradaSalida : o = i.op
    OBVIOUS
  <1>7. PICK x : x = [pid |-> p, tokens |-> <<o>>, peticiones_memoria |-> s]
    OBVIOUS
  <1>8. Viaja(p, crear_solicitud_io(<<i.op>>, t.peticiones)) = x
    <2>1. registros \in [Procesos -> [Registro -> Nat]]
      BY DEF EjecucionInv, RegistrosBien
    <2>2. Viaja(p, crear_solicitud_io(<<o>>, s))
            = [pid |-> p, tokens |-> <<o>>, peticiones_memoria |-> s]
      BY <2>1, SolicitudViaja
    <2>3. QED
      BY <1>5, <1>6, <1>7, <2>2
  <1>9. x \in Turno
    BY <1>7 DEF Turno
  <1>10. PICK y : y = [solicitud |-> x, datos |-> NULL, dl |-> dl, resta |-> tam]
    OBVIOUS
  <1>11. Servicio(y)
    <2>1. y \in [solicitud : Turno, datos : {NULL} \cup Seq(Byte), dl : Int, resta : Int]
      BY <1>9, <1>10
    <2>2. y.datos = NULL
      BY <1>10
    <2>3. QED
      BY <2>1, <2>2 DEF Servicio
  <1>12. /\ io' = [io EXCEPT ![p] = y] /\ tlb' = t.tlb
         /\ UNCHANGED <<registros, MEMORIA, tablas, vivos>>
    BY <1>2, <1>3, <1>8, <1>10 DEF exec_io
  <1>13. IoBien'
    BY <1>11, <1>12 DEF EjecucionInv, IoBien
  <1>14. promesa' \in BOOLEAN
    BY DEF exec_io, Accede
  <1>15. QED
    BY <1>4, <1>12, <1>13, <1>14 DEF EjecucionInv, RegistrosBien, TablasBien, FramesSinCompartir

LEMMA PasoInstruccion ==
  ASSUME EjecucionInv, NEW p \in Procesos, EjecutaInstruccion(p)
  PROVE  EjecucionInv'
  <1>1. PICK i \in Instrucciones : execute(p, i)
    BY DEF EjecutaInstruccion
  <1>2. config' = config
    BY DEF EjecutaInstruccion
  <1>3. CASE i.op \in {"SET", "SUM", "SUB"} /\ Calcula(p, i)
    BY <1>2, <1>3, PasoCalcula
  <1>4. CASE i.op = "RESIZE" /\ exec_resize(p, i.a)
    BY <1>2, <1>4, PasoResize, InstruccionesOK
  <1>5. CASE i.op = "MOV_OUT" /\ exec_mov_out(p, i.a, i.b)
    BY <1>2, <1>5, PasoMovOut, InstruccionesOK
  <1>6. CASE i.op = "MOV_IN" /\ exec_mov_in(p, i.a, i.b)
    BY <1>2, <1>6, PasoMovIn, InstruccionesOK
  <1>7. CASE i.op = "COPY_STRING" /\ exec_cp_string(p, i.a)
    BY <1>2, <1>7, PasoCpString, InstruccionesOK
  <1>8. CASE i.op \in {"IO_STDIN_READ", "IO_STDOUT_WRITE"} /\ exec_io(p, i)
    BY <1>2, <1>8, PasoExecIo DEF DeEntradaSalida
  <1>9. QED
    BY <1>1, <1>3, <1>4, <1>5, <1>6, <1>7, <1>8 DEF execute

LEMMA PasoFinalizaProceso ==
  ASSUME EjecucionInv, NEW p \in Procesos, FinalizaProceso(p)
  PROVE  EjecucionInv'
  BY PasoFinaliza DEF FinalizaProceso

-----------------------------------------------------------------------------
(***************************************************************************)
(* The steps of the interfaces.                                            *)
(***************************************************************************)
\* Requests for so many bytes, without the first.
LEMMA Resta ==
  ASSUME NEW s, NEW D \in Nat, Reparte(s, D), s # <<>>
  PROVE  /\ s \in Seq(Peticion) /\ Head(s) \in Peticion /\ Head(s) = s[1]
         /\ Head(s).tam_dato <= D /\ Reparte(Tail(s), D - Head(s).tam_dato)
  <1>1. PICK n \in Nat \ {0} : /\ s \in Seq(Peticion) /\ Len(s) = n
                               /\ \A k \in 1 .. n : s[k] \in Peticion
    <2>1. s \in Seq(Peticion)
      BY DEF Reparte
    <2>2. Len(s) \in Nat /\ Len(s) # 0
      BY <2>1, LenProperties, EmptySeq
    <2>3. \A k \in 1 .. Len(s) : s[k] \in Peticion
      BY <2>1, ElementOfSeq
    <2>4. QED
      BY <2>1, <2>2, <2>3
  <1>2. PICK q : q = Tail(s)
    OBVIOUS
  <1>3. /\ q \in Seq(Peticion) /\ Len(q) = n - 1
        /\ \A k \in 1 .. n - 1 : q[k] = s[k + 1]
    <2>1. /\ Tail(s) \in Seq(Peticion) /\ Len(Tail(s)) = Len(s) - 1
          /\ \A k \in 1 .. Len(Tail(s)) : Tail(s)[k] = s[k + 1]
      BY <1>1, HeadTailProperties
    <2>2. QED
      BY <1>1, <1>2, <2>1
  <1>4. Head(s) = s[1]
    OBVIOUS
  <1>5. PICK h : SumaHasta(h, s, n) /\ h[n] = D
    BY <1>1 DEF Reparte
  <1>6. /\ \A k \in 0 .. n : h[k] \in Nat
        /\ h[0] = 0 /\ \A k \in 1 .. n : h[k] = h[k - 1] + s[k].tam_dato
    BY <1>5 DEF SumaHasta
  <1>7. \A k \in 1 .. n : s[k].tam_dato \in Nat
    BY <1>1 DEF Peticion
  <1>8. PICK x \in Nat : x = s[1].tam_dato /\ h[1] = x
    <2>1. 1 \in 1 .. n /\ 1 - 1 = 0
      OBVIOUS
    <2>2. h[1] = 0 + s[1].tam_dato /\ s[1].tam_dato \in Nat
      BY <1>6, <1>7, <2>1
    <2>3. QED
      BY <2>2
  <1>9. ASSUME NEW k \in 1 .. n
        PROVE  h[k] \in Nat /\ h[k] >= x
    <2> DEFINE N == {j \in 1 .. n : ~(h[j] >= x)}
    <2>1. ASSUME N # {}
          PROVE  FALSE
      <3>1. N \subseteq Nat
        OBVIOUS
      <3>2. PICK m \in N : \A j \in N : m <= j
        BY <2>1, <3>1, Minimo
      <3>3. m # 1
        BY <1>8, <3>2
      <3>4. m \in 1 .. n /\ m - 1 \in 1 .. n /\ m - 1 \notin N /\ m - 1 \in 0 .. n
        BY <3>2, <3>3
      <3>5. h[m - 1] >= x /\ h[m - 1] \in Nat /\ s[m].tam_dato \in Nat
        BY <1>6, <1>7, <3>4
      <3>6. h[m] = h[m - 1] + s[m].tam_dato
        BY <1>6, <3>4
      <3>7. QED
        BY <3>2, <3>5, <3>6
    <2>2. k \in 0 .. n
      OBVIOUS
    <2>3. QED
      BY <1>6, <2>1, <2>2
  <1>10. x <= D
    BY <1>5, <1>9
  <1>11. PICK g : g = [k \in 0 .. n - 1 |-> h[k + 1] - x]
    OBVIOUS
  <1>12. ASSUME NEW k \in 0 .. n - 1
         PROVE  g[k] \in Nat
    <2>1. k + 1 \in 1 .. n
      OBVIOUS
    <2>2. PICK y \in Nat : y = h[k + 1] /\ y >= x
      BY <1>9, <2>1
    <2>3. y - x \in Nat
      BY <2>2
    <2>4. QED
      BY <1>11, <2>2, <2>3
  <1>13. g \in [0 .. n - 1 -> Nat]
    BY <1>11, <1>12
  <1>14. g[0] = 0
    <2>1. 0 \in 0 .. n - 1 /\ 0 + 1 = 1
      OBVIOUS
    <2>2. g[0] = h[1] - x
      BY <1>11, <2>1
    <2>3. QED
      BY <1>8, <2>2
  <1>15. ASSUME NEW k \in 1 .. n - 1
         PROVE  g[k] = g[k - 1] + q[k].tam_dato
    <2>1. /\ k \in 0 .. n - 1 /\ k - 1 \in 0 .. n - 1 /\ k + 1 \in 1 .. n /\ k \in 1 .. n
          /\ (k - 1) + 1 = k /\ (k + 1) - 1 = k
      OBVIOUS
    <2>2. PICK y \in Nat, z \in Nat, w \in Nat : y = h[k] /\ z = h[k + 1] /\ w = s[k + 1].tam_dato
      BY <1>7, <1>9, <2>1
    <2>3. z = y + w
      BY <1>6, <2>1, <2>2
    <2>4. g[k] = z - x /\ g[k - 1] = y - x
      BY <1>11, <2>1, <2>2
    <2>5. q[k].tam_dato = w
      BY <1>3, <2>2
    <2>6. QED
      BY <2>3, <2>4, <2>5
  <1>16. g[n - 1] = D - x
    <2>1. n - 1 \in 0 .. n - 1 /\ (n - 1) + 1 = n
      OBVIOUS
    <2>2. QED
      BY <1>5, <1>11, <2>1
  <1>17. SumaHasta(g, q, n - 1)
    BY <1>13, <1>14, <1>15 DEF SumaHasta
  <1>18. Reparte(q, D - x)
    BY <1>3, <1>16, <1>17 DEF Reparte
  <1>19. 1 \in 1 .. n
    OBVIOUS
  <1>20. QED
    BY <1>1, <1>2, <1>4, <1>8, <1>10, <1>18, <1>19

\* The total is what the requests spread.
LEMMA Total ==
  ASSUME NEW s \in Seq(Peticion)
  PROVE  peticiones_tam_total(s) \in Nat /\ Reparte(s, peticiones_tam_total(s))
  <1>1. PICK n \in Nat : Len(s) = n /\ \A k \in 1 .. n : s[k] \in Peticion
    BY LenProperties, ElementOfSeq
  <1>2. s \in Seq(PeticionMemoria)
    <2>1. \A k \in 1 .. n : s[k] \in PeticionMemoria
      BY <1>1 DEF Peticion, PeticionMemoria
    <2>2. QED
      BY <1>1, <2>1
  <1>3. SumaHasta(Acumulado(s), s, n)
    BY <1>1, <1>2, Acumula
  <1>4. peticiones_tam_total(s) = Acumulado(s)[n]
    BY <1>1 DEF peticiones_tam_total
  <1>5. Acumulado(s)[n] \in Nat
    <2>1. n \in 0 .. n
      OBVIOUS
    <2>2. QED
      BY <1>3, <2>1 DEF SumaHasta
  <1>6. QED
    BY <1>1, <1>3, <1>4, <1>5 DEF Reparte

LEMMA PrimerosBytes ==
  ASSUME NEW dato \in Seq(Byte), NEW n \in Nat, n <= Largo(dato)
  PROVE  SubSeq(dato, 0 + 1, n) \in Seq(Byte) /\ Len(SubSeq(dato, 0 + 1, n)) = n
  <1>1. PICK x \in Nat, D \in Nat : x = 0 /\ D = Largo(dato) /\ x <= n /\ n <= D
    BY LenProperties DEF Largo
  <1>2. Corte(dato, x, n) \in Seq(Byte) /\ Largo(Corte(dato, x, n)) = n - x
    BY <1>1, CorteBien
  <1>3. QED
    BY <1>1, <1>2 DEF Corte, Largo

\* The first piece is as long as the first request asks.
LEMMA PrimeraPieza ==
  ASSUME NEW s \in Seq(Peticion), NEW dato \in Seq(Byte), NEW D \in Nat, Largo(dato) = D,
         Reparte(s, D), NEW q, q = s[1], NEW n \in Nat, n = q.tam_dato, n <= D, s # <<>>
  PROVE  /\ peticiones_distribuir_dato(s, dato)[1] \in Pieza
         /\ Len(peticiones_distribuir_dato(s, dato)[1].dato) = n
  <1>1. PICK l \in Nat \ {0} : l = Len(s) /\ DOMAIN s = 1 .. l /\ \A k \in 1 .. l : s[k] \in Peticion
    <2>1. Len(s) \in Nat /\ Len(s) # 0 /\ DOMAIN s = 1 .. Len(s)
      BY LenProperties, EmptySeq
    <2>2. \A k \in 1 .. Len(s) : s[k] \in Peticion
      BY ElementOfSeq
    <2>3. QED
      BY <2>1, <2>2
  <1>2. s \in Seq(PeticionMemoria)
    <2>1. \A k \in 1 .. l : s[k] \in PeticionMemoria
      BY <1>1 DEF Peticion, PeticionMemoria
    <2>2. QED
      BY <1>1, <2>1
  <1>3. SumaHasta(Acumulado(s), s, l)
    BY <1>1, <1>2, Acumula
  <1>4. 1 \in 1 .. l /\ 1 - 1 = 0
    OBVIOUS
  <1>5. Acumulado(s)[0] = 0 /\ Acumulado(s)[1] = n
    BY <1>3, <1>4 DEF SumaHasta
  <1>6. peticiones_distribuir_dato(s, dato)[1]
          = [direccion_fisica |-> q.direccion_fisica, dato |-> SubSeq(dato, 0 + 1, n)]
    BY <1>1, <1>4, <1>5 DEF peticiones_distribuir_dato
  <1>7. SubSeq(dato, 0 + 1, n) \in Seq(Byte) /\ Len(SubSeq(dato, 0 + 1, n)) = n
    BY PrimerosBytes
  <1>8. q.direccion_fisica \in Nat
    BY <1>1, <1>4 DEF Peticion
  <1>9. QED
    BY <1>6, <1>7, <1>8 DEF Pieza

\* What an interface changes.
LEMMA AlAtender ==
  ASSUME EjecucionInv, NEW p \in Procesos, NEW y, Servicio(y) \/ y = NULL,
         io' = [io EXCEPT ![p] = y], MEMORIA' \in Memorias, promesa' \in BOOLEAN, SoloIo
  PROVE  EjecucionInv'
  <1>1. IoBien'
    BY DEF EjecucionInv, IoBien
  <1>2. UNCHANGED <<config, registros, tlb, tablas, vivos>>
    BY DEF SoloIo
  <1>3. QED
    BY <1>1, <1>2 DEF EjecucionInv, RegistrosBien, TablasBien, FramesSinCompartir

LEMMA EnServicio ==
  ASSUME EjecucionInv, NEW p \in Procesos, io[p] # NULL
  PROVE  /\ Servicio(io[p]) /\ Peticiones(p) \in Seq(Peticion)
         /\ io[p].solicitud \in Turno /\ io[p].dl \in Int /\ io[p].resta \in Int
         /\ io[p].datos = NULL \/ io[p].datos \in Seq(Byte)
         /\ io[p] = [solicitud |-> io[p].solicitud, datos |-> io[p].datos, dl |-> io[p].dl,
                     resta |-> io[p].resta]
         /\ io[p].solicitud
              = [pid |-> io[p].solicitud.pid, tokens |-> io[p].solicitud.tokens,
                 peticiones_memoria |-> Peticiones(p)]
  <1>1. Servicio(io[p])
    BY DEF EjecucionInv, IoBien
  <1>2. PICK s : s = io[p]
    OBVIOUS
  <1>3. s \in [solicitud : Turno, datos : {NULL} \cup Seq(Byte), dl : Int, resta : Int]
    BY <1>1, <1>2 DEF Servicio
  <1>4. /\ s.solicitud \in Turno /\ s.dl \in Int /\ s.resta \in Int
        /\ s.datos = NULL \/ s.datos \in Seq(Byte)
        /\ s = [solicitud |-> s.solicitud, datos |-> s.datos, dl |-> s.dl, resta |-> s.resta]
    BY <1>3
  <1>5. PICK u \in Turno : u = s.solicitud
    BY <1>4
  <1>6. /\ u.peticiones_memoria \in Seq(Peticion)
        /\ u = [pid |-> u.pid, tokens |-> u.tokens, peticiones_memoria |-> u.peticiones_memoria]
    BY DEF Turno
  <1>7. QED
    BY <1>1, <1>2, <1>4, <1>5, <1>6 DEF Peticiones

LEMMA PasoStdinTexto ==
  ASSUME EjecucionInv, NEW p \in Procesos, IoStdinTexto(p)
  PROVE  EjecucionInv'
  <1>1. io[p] # NULL
    BY DEF IoStdinTexto, Atiende
  <1>2. PICK ps \in Seq(Peticion) : ps = Peticiones(p)
    BY <1>1, EnServicio
  <1>3. PICK D \in Nat : D = peticiones_tam_total(ps) /\ Reparte(ps, D)
    BY Total
  <1>4. PICK texto \in [1 .. D -> Byte] : io' = [io EXCEPT ![p].datos = texto]
    BY <1>2, <1>3 DEF IoStdinTexto
  <1>5. texto \in Seq(Byte) /\ Largo(texto) = D
    <2>1. texto \in Seq(Byte) /\ Len(texto) = D
      OBVIOUS
    <2>2. QED
      BY <2>1 DEF Largo
  <1>6. PICK y : y = [io[p] EXCEPT !.datos = texto]
    OBVIOUS
  <1>7. Servicio(y)
    <2>1. PICK s : s = io[p] /\ Servicio(s)
      BY <1>1, EnServicio
    <2>2. s \in [solicitud : Turno, datos : {NULL} \cup Seq(Byte), dl : Int, resta : Int]
      BY <2>1 DEF Servicio
    <2>3. y = [s EXCEPT !.datos = texto]
      BY <1>6, <2>1
    <2>4. y \in [solicitud : Turno, datos : {NULL} \cup Seq(Byte), dl : Int, resta : Int]
      BY <1>5, <2>2, <2>3
    <2>5. y.datos = texto /\ y.solicitud = s.solicitud
      BY <2>2, <2>3
    <2>6. y.solicitud.peticiones_memoria = ps
      BY <1>2, <2>1, <2>5 DEF Peticiones
    <2>7. QED
      BY <1>3, <1>5, <2>4, <2>5, <2>6 DEF Servicio
  <1>8. io' = [io EXCEPT ![p] = y]
    BY <1>4, <1>6
  <1>9. SoloIo /\ MEMORIA' \in Memorias /\ promesa' \in BOOLEAN
    BY DEF IoStdinTexto, EjecucionInv
  <1>10. QED
    BY <1>7, <1>8, <1>9, AlAtender

LEMMA PasoStdoutBuffer ==
  ASSUME EjecucionInv, NEW p \in Procesos, IoStdoutBuffer(p)
  PROVE  EjecucionInv'
  <1>1. PICK s : s = io[p] /\ Servicio(s) /\ s.solicitud.tokens[1] = "IO_STDOUT_WRITE"
    BY EnServicio DEF IoStdoutBuffer, Atiende
  <1>2. PICK vacio \in Seq(Byte) : vacio = <<>>
    <2>1. <<>> \in Seq(Byte)
      OBVIOUS
    <2>2. QED
      BY <2>1
  <1>3. PICK y : y = [s EXCEPT !.datos = vacio]
    OBVIOUS
  <1>4. Servicio(y)
    <2>1. s \in [solicitud : Turno, datos : {NULL} \cup Seq(Byte), dl : Int, resta : Int]
      BY <1>1 DEF Servicio
    <2>2. y \in [solicitud : Turno, datos : {NULL} \cup Seq(Byte), dl : Int, resta : Int]
      BY <1>3, <2>1
    <2>3. y.solicitud = s.solicitud
      BY <1>3, <2>1
    <2>4. y.solicitud.tokens[1] # "IO_STDIN_READ"
      BY <1>1, <2>3
    <2>5. QED
      BY <2>2, <2>4 DEF Servicio
  <1>5. io' = [io EXCEPT ![p] = y]
    BY <1>1, <1>2, <1>3 DEF IoStdoutBuffer
  <1>6. SoloIo /\ MEMORIA' \in Memorias /\ promesa' \in BOOLEAN
    BY DEF IoStdoutBuffer, EjecucionInv
  <1>7. QED
    BY <1>4, <1>5, <1>6, AlAtender

LEMMA PasoTermina ==
  ASSUME EjecucionInv, NEW p \in Procesos, IoTermina(p)
  PROVE  EjecucionInv'
  <1>1. PICK y : y = NULL
    OBVIOUS
  <1>2. io' = [io EXCEPT ![p] = y]
    BY <1>1 DEF IoTermina
  <1>3. SoloIo /\ MEMORIA' \in Memorias /\ promesa' \in BOOLEAN
    BY DEF IoTermina, EjecucionInv
  <1>4. QED
    BY <1>1, <1>2, <1>3, AlAtender

\* A request less, and what is held of it.
Sigue(s, ps, datos, n) ==
  [solicitud |-> [pid |-> s.solicitud.pid, tokens |-> s.solicitud.tokens, peticiones_memoria |-> ps],
   datos |-> datos, dl |-> s.dl + n, resta |-> s.resta - n]

\* A record of four fields and what an EXCEPT leaves of it, one field at a time.
En(u, datos, dl, resta) == [solicitud |-> u, datos |-> datos, dl |-> dl, resta |-> resta]
De(pid, tokens, ps) == [pid |-> pid, tokens |-> tokens, peticiones_memoria |-> ps]
Tras(s, cola, resto, a, b) ==
  [s EXCEPT !.solicitud.peticiones_memoria = cola, !.datos = resto, !.dl = a, !.resta = b]

LEMMA Cambiado ==
  ASSUME NEW u, NEW v, NEW datos, NEW dl, NEW resta, NEW resto, NEW a, NEW b, NEW s,
         s = En(u, datos, dl, resta),
         NEW pid, NEW tokens, NEW ps, NEW cola,
         u = De(pid, tokens, ps), v = De(pid, tokens, cola)
  PROVE  Tras(s, cola, resto, a, b) = En(v, resto, a, b)
  <1>0. [u EXCEPT !.peticiones_memoria = cola] = v
    BY DEF De
  <1>1. PICK t : t = [s EXCEPT !.solicitud = v]
    OBVIOUS
  <1>2. t = En(v, datos, dl, resta)
    BY <1>1 DEF En
  <1>3. PICK w : w = [t EXCEPT !.datos = resto]
    OBVIOUS
  <1>4. w = En(v, resto, dl, resta)
    BY <1>2, <1>3 DEF En
  <1>5. PICK x : x = [w EXCEPT !.dl = a, !.resta = b]
    OBVIOUS
  <1>6. x = En(v, resto, a, b)
    BY <1>4, <1>5 DEF En
  <1>7. x = [s EXCEPT !.solicitud = v, !.datos = resto, !.dl = a, !.resta = b]
    BY <1>1, <1>3, <1>5
  <1>8. s.solicitud = u
    BY DEF En
  <1>9. x = Tras(s, cola, resto, a, b)
    BY <1>0, <1>7, <1>8 DEF Tras
  <1>10. QED
    BY <1>6, <1>9

Completa(s, ps, datos) ==
  s = [solicitud |-> [pid |-> s.solicitud.pid, tokens |-> s.solicitud.tokens,
                      peticiones_memoria |-> ps],
       datos |-> datos, dl |-> s.dl, resta |-> s.resta]

LEMMA TrasSigue ==
  ASSUME NEW s, NEW ps, NEW datos, NEW cola, NEW resto, NEW n, Completa(s, ps, datos)
  PROVE  Tras(s, cola, resto, s.dl + n, s.resta - n) = Sigue(s, cola, resto, n)
  <1>1. PICK u, dl, resta, pid, tokens : s = En(u, datos, dl, resta) /\ u = De(pid, tokens, ps)
    BY DEF En, De, Completa
  <1>2. pid = s.solicitud.pid /\ tokens = s.solicitud.tokens
    BY <1>1 DEF En, De
  <1>3. PICK v : v = De(pid, tokens, cola)
    OBVIOUS
  <1>4. PICK a, b : a = s.dl + n /\ b = s.resta - n
    OBVIOUS
  <1>5. Tras(s, cola, resto, a, b) = En(v, resto, a, b)
    BY <1>1, <1>3, Cambiado
  <1>6. QED
    BY <1>2, <1>3, <1>4, <1>5 DEF En, De, Sigue

LEMMA SigueServicio ==
  ASSUME NEW s, Servicio(s), NEW ps \in Seq(Peticion), NEW datos \in Seq(Byte), NEW n \in Int,
         s.solicitud.tokens[1] = "IO_STDIN_READ" => Reparte(ps, Largo(datos))
  PROVE  Servicio(Sigue(s, ps, datos, n))
  <1>1. s \in [solicitud : Turno, datos : {NULL} \cup Seq(Byte), dl : Int, resta : Int]
    BY DEF Servicio
  <1>2. PICK u \in Turno : u = s.solicitud
    BY <1>1
  <1>3. PICK v \in Turno : v = [pid |-> u.pid, tokens |-> u.tokens, peticiones_memoria |-> ps]
    BY DEF Turno
  <1>4. PICK a \in Int, b \in Int : a = s.dl + n /\ b = s.resta - n
    BY <1>1
  <1>5. PICK y : y = [solicitud |-> v, datos |-> datos, dl |-> a, resta |-> b]
    OBVIOUS
  <1>6. y \in [solicitud : Turno, datos : {NULL} \cup Seq(Byte), dl : Int, resta : Int]
    BY <1>5
  <1>7. y = Sigue(s, ps, datos, n)
    BY <1>2, <1>3, <1>4, <1>5 DEF Sigue
  <1>8. /\ y.datos = datos /\ y.solicitud = v /\ v.tokens = s.solicitud.tokens
        /\ v.peticiones_memoria = ps
    BY <1>2, <1>3, <1>5
  <1>9. Servicio(y)
    BY <1>6, <1>8 DEF Servicio
  <1>10. QED
    BY <1>7, <1>9

LEMMA PasoStdinEscribe ==
  ASSUME EjecucionInv, NEW p \in Procesos, IoStdinEscribe(p)
  PROVE  EjecucionInv'
  <1>1. /\ io[p] # NULL /\ io[p].solicitud.tokens[1] = "IO_STDIN_READ"
        /\ io[p].datos # NULL /\ Peticiones(p) # <<>>
    BY DEF IoStdinEscribe, Atiende
  <1>2. PICK s : s = io[p] /\ Servicio(s)
    BY <1>1, EnServicio
  <1>3. PICK ps \in Seq(Peticion) : ps = Peticiones(p) /\ ps # <<>>
    BY <1>1, EnServicio
  <1>4. PICK datos \in Seq(Byte) : datos = io[p].datos
    BY <1>1, EnServicio
  <1>5. PICK D \in Nat : D = Largo(datos)
    BY LenProperties DEF Largo
  <1>6. Reparte(ps, D)
    BY <1>1, <1>2, <1>3, <1>4, <1>5 DEF Servicio, Peticiones
  <1>7. PICK q \in Peticion : q = Head(ps) /\ q = ps[1] /\ q.tam_dato <= D
    BY <1>3, <1>6, Resta
  <1>8. PICK n \in Nat : n = q.tam_dato /\ n <= D
    BY <1>7 DEF Peticion
  <1>9. Tail(ps) \in Seq(Peticion) /\ Reparte(Tail(ps), D - n)
    <2>1. Reparte(Tail(ps), D - Head(ps).tam_dato)
      BY <1>3, <1>6, Resta
    <2>2. QED
      BY <1>7, <1>8, <2>1 DEF Reparte
  <1>10. PICK pieza : pieza = peticiones_distribuir_dato(ps, datos)[1]
    OBVIOUS
  <1>11. pieza \in Pieza /\ Len(pieza.dato) = n
    BY <1>3, <1>5, <1>6, <1>7, <1>8, <1>10, PrimeraPieza
  <1>12. PICK resto \in Seq(Byte) : resto = SubSeq(datos, n + 1, Len(datos)) /\ Largo(resto) = D - n
    <2>1. D \in Nat /\ n <= D /\ D <= D
      BY <1>8
    <2>2. Corte(datos, n, D) \in Seq(Byte) /\ Largo(Corte(datos, n, D)) = D - n
      BY <1>5, <2>1, CorteBien
    <2>3. Corte(datos, n, D) = SubSeq(datos, n + 1, Len(datos))
      BY <1>5 DEF Corte, Largo
    <2>4. QED
      BY <2>2, <2>3
  <1>13. PICK cola \in Seq(Peticion) : cola = Tail(ps)
    BY <1>9
  <1>14. Servicio(Sigue(s, cola, resto, n))
    <2>1. Reparte(cola, Largo(resto)) /\ n \in Int
      BY <1>9, <1>12, <1>13
    <2>2. QED
      BY <1>2, <2>1, SigueServicio
  <1>15. io' = [io EXCEPT ![p] = Sigue(s, cola, resto, n)]
    <2>1. io' = [io EXCEPT ![p].solicitud.peticiones_memoria = Tail(@),
                           ![p].datos = SubSeq(@, n + 1, Len(@)),
                           ![p].dl = @ + n, ![p].resta = @ - n]
      BY <1>3, <1>4, <1>10, <1>11 DEF IoStdinEscribe
    <2>2. DOMAIN io = Procesos
      BY DEF EjecucionInv, IoBien
    <2>3. Completa(s, ps, datos)
      BY <1>1, <1>2, <1>3, <1>4, EnServicio DEF Completa
    <2>4. io' = [io EXCEPT ![p] = [s EXCEPT !.solicitud.peticiones_memoria = Tail(@),
                                            !.datos = SubSeq(@, n + 1, Len(@)),
                                            !.dl = @ + n, !.resta = @ - n]]
      BY <1>2, <2>1, <2>2
    <2>5. s.solicitud.peticiones_memoria = ps /\ s.datos = datos
      BY <2>3 DEF Completa
    <2>6. [s EXCEPT !.solicitud.peticiones_memoria = Tail(@),
                    !.datos = SubSeq(@, n + 1, Len(@)),
                    !.dl = @ + n, !.resta = @ - n]
            = Tras(s, cola, resto, s.dl + n, s.resta - n)
      BY <1>12, <1>13, <2>5 DEF Tras
    <2>7. Tras(s, cola, resto, s.dl + n, s.resta - n) = Sigue(s, cola, resto, n)
      BY <2>3, TrasSigue
    <2>8. QED
      BY <2>4, <2>6, <2>7
  <1>16. MEMORIA' \in Memorias
    <2>1. MEMORIA' = set_memoria(MEMORIA, pieza)
      BY <1>3, <1>4, <1>10 DEF IoStdinEscribe
    <2>2. MEMORIA \in Memorias
      BY DEF EjecucionInv
    <2>3. QED
      BY <1>11, <2>1, <2>2, EscribeUna
  <1>17. SoloIo /\ promesa' \in BOOLEAN
    BY DEF IoStdinEscribe, IoAccede
  <1>18. QED
    BY <1>14, <1>15, <1>16, <1>17, AlAtender

LEMMA PasoStdoutLee ==
  ASSUME EjecucionInv, NEW p \in Procesos, IoStdoutLee(p)
  PROVE  EjecucionInv'
  <1>1. /\ io[p] # NULL /\ io[p].solicitud.tokens[1] = "IO_STDOUT_WRITE"
        /\ io[p].datos # NULL /\ Peticiones(p) # <<>>
    BY DEF IoStdoutLee, Atiende
  <1>2. PICK s : s = io[p] /\ Servicio(s)
    BY <1>1, EnServicio
  <1>3. PICK ps \in Seq(Peticion) : ps = Peticiones(p) /\ ps # <<>>
    BY <1>1, EnServicio
  <1>4. PICK datos \in Seq(Byte) : datos = io[p].datos
    BY <1>1, EnServicio
  <1>5. PICK q \in Peticion, cola \in Seq(Peticion) : q = Head(ps) /\ cola = Tail(ps)
    BY <1>3, HeadTailProperties
  <1>6. PICK leido \in Seq(Byte) : leido = get_memoria(q)
    BY LeeUna DEF EjecucionInv
  <1>7. PICK n \in Nat : n = Len(leido)
    BY LenProperties
  <1>8. PICK todo \in Seq(Byte) : todo = datos \o leido
    BY ConcatProperties
  <1>9. Servicio(Sigue(s, cola, todo, n))
    BY <1>1, <1>2, SigueServicio
  <1>10. io' = [io EXCEPT ![p] = Sigue(s, cola, todo, n)]
    <2>1. io' = [io EXCEPT ![p].solicitud.peticiones_memoria = Tail(@),
                           ![p].datos = @ \o leido,
                           ![p].dl = @ + n, ![p].resta = @ - n]
      BY <1>3, <1>5, <1>6, <1>7 DEF IoStdoutLee
    <2>2. DOMAIN io = Procesos
      BY DEF EjecucionInv, IoBien
    <2>3. Completa(s, ps, datos)
      BY <1>1, <1>2, <1>3, <1>4, EnServicio DEF Completa
    <2>4. io' = [io EXCEPT ![p] = [s EXCEPT !.solicitud.peticiones_memoria = Tail(@),
                                            !.datos = @ \o leido,
                                            !.dl = @ + n, !.resta = @ - n]]
      BY <1>2, <2>1, <2>2
    <2>5. s.solicitud.peticiones_memoria = ps /\ s.datos = datos
      BY <2>3 DEF Completa
    <2>6. [s EXCEPT !.solicitud.peticiones_memoria = Tail(@), !.datos = @ \o leido,
                    !.dl = @ + n, !.resta = @ - n]
            = Tras(s, cola, todo, s.dl + n, s.resta - n)
      BY <1>5, <1>8, <2>5 DEF Tras
    <2>7. Tras(s, cola, todo, s.dl + n, s.resta - n) = Sigue(s, cola, todo, n)
      BY <2>3, TrasSigue
    <2>8. QED
      BY <2>4, <2>6, <2>7
  <1>11. SoloIo /\ promesa' \in BOOLEAN /\ MEMORIA' \in Memorias
    BY DEF IoStdoutLee, IoAccede, EjecucionInv
  <1>12. QED
    BY <1>9, <1>10, <1>11, AlAtender

-----------------------------------------------------------------------------
(***************************************************************************)
(* The theorems.                                                           *)
(***************************************************************************)
LEMMA Inicial == Init => EjecucionInv
  <1> SUFFICES ASSUME Init PROVE EjecucionInv
    OBVIOUS
  <1>1. config \in Configuraciones /\ config.entradas \in Nat
    BY EjecucionOK DEF Init
  <1>2. RegistrosBien
    <2>1. registros = [p \in Procesos |-> [r \in Registro |-> 0]]
      BY DEF Init
    <2>2. ASSUME NEW r \in Registro
          PROVE  0 < Modulo(r)
      BY Modulos
    <2>3. QED
      BY <2>1, <2>2 DEF RegistrosBien
  <1>3. TlbBien(tlb, config.entradas)
    <2>1. PICK s \in Seq(EntradaTlb) : s = <<>> /\ Len(s) = 0 /\ DOMAIN s = {}
      <3>1. <<>> \in Seq(EntradaTlb) /\ Len(<<>>) = 0 /\ DOMAIN <<>> = {}
        OBVIOUS
      <3>2. QED
        BY <3>1
    <2>2. tlb = [lista |-> s, inserciones |-> 0, usos |-> 0]
      BY <2>1 DEF Init, Vacia
    <2>3. tlb \in [lista : Seq(EntradaTlb), inserciones : Nat, usos : Nat] /\ tlb.lista = s
      BY <2>2
    <2>4. Edades(tlb) /\ Orden(tlb) /\ Distintas(tlb.lista)
      BY <2>1, <2>3 DEF Edades, Orden, Distintas
    <2>5. QED
      BY <1>1, <2>1, <2>3, <2>4 DEF TlbBien
  <1>4. TablasBien
    <2>1. PICK s \in Seq(Marco) : s = <<>> /\ DOMAIN s = {}
      <3>1. <<>> \in Seq(Marco) /\ DOMAIN <<>> = {}
        OBVIOUS
      <3>2. QED
        BY <3>1
    <2>2. tablas = [p \in Procesos |-> s]
      BY <2>1 DEF Init
    <2>3. QED
      BY <2>1, <2>2 DEF TablasBien, FramesSinCompartir
  <1>5. MEMORIA \in Memorias
    <2>1. 0 \in Byte
      BY OperandosOK DEF Byte
    <2>2. QED
      BY <2>1 DEF Init, Memorias
  <1>6. IoBien
    BY DEF Init, IoBien
  <1>7. promesa \in BOOLEAN /\ vivos \subseteq Procesos
    BY DEF Init
  <1>8. QED
    BY <1>1, <1>2, <1>3, <1>4, <1>5, <1>6, <1>7 DEF EjecucionInv

LEMMA Paso == EjecucionInv /\ [Next]_vars => EjecucionInv'
  <1> SUFFICES ASSUME EjecucionInv, [Next]_vars
               PROVE  EjecucionInv'
    OBVIOUS
  <1>1. CASE Next
    <2>1. PICK p \in Procesos :
            \/ EjecutaInstruccion(p) \/ FinalizaProceso(p)
            \/ IoStdinTexto(p) \/ IoStdinEscribe(p) \/ IoStdoutBuffer(p) \/ IoStdoutLee(p)
            \/ IoTermina(p)
      BY <1>1 DEF Next
    <2>2. CASE EjecutaInstruccion(p)
      BY <2>2, PasoInstruccion
    <2>3. CASE FinalizaProceso(p)
      BY <2>3, PasoFinalizaProceso
    <2>4. CASE IoStdinTexto(p)
      BY <2>4, PasoStdinTexto
    <2>5. CASE IoStdinEscribe(p)
      BY <2>5, PasoStdinEscribe
    <2>6. CASE IoStdoutBuffer(p)
      BY <2>6, PasoStdoutBuffer
    <2>7. CASE IoStdoutLee(p)
      BY <2>7, PasoStdoutLee
    <2>8. CASE IoTermina(p)
      BY <2>8, PasoTermina
    <2>9. QED
      BY <2>1, <2>2, <2>3, <2>4, <2>5, <2>6, <2>7, <2>8
  <1>2. CASE UNCHANGED vars
    <2>1. UNCHANGED <<config, registros, tlb, tablas, MEMORIA, vivos, io, promesa>>
      BY <1>2 DEF vars
    <2>2. RegistrosBien' /\ TablasBien' /\ IoBien' /\ TlbBien(tlb, config.entradas)'
      BY <2>1 DEF EjecucionInv, RegistrosBien, TablasBien, FramesSinCompartir, IoBien
    <2>3. QED
      BY <2>1, <2>2 DEF EjecucionInv
  <1>3. QED
    BY <1>1, <1>2

\* Whatever the programs, the frames and the TLB, the inductive invariant holds:
\* registers within their width, TLB entries of different pages whose age is the
\* time since their last use, page tables that share no frame, and interfaces that
\* hold as many bytes as the requests they still have to serve.
THEOREM EjecucionInvariante == Spec => []EjecucionInv
  <1>1. QED
    BY Inicial, Paso, PTL DEF Spec

\* Registers keep their width and memory its bytes, whatever execute.c and the
\* interfaces move between them, and page tables hold frames of the memory.
THEOREM EjecucionTipada == Spec => []TypeOK
  <1>1. EjecucionInv => TypeOK
    <2> SUFFICES ASSUME EjecucionInv PROVE TypeOK
      OBVIOUS
    <2>1. ASSUME NEW p \in Procesos, NEW r \in Registro
          PROVE  registros[p][r] \in 0 .. Modulo(r) - 1
      <3>1. PICK m \in Nat : m = Modulo(r)
        BY Modulos
      <3>2. PICK v \in Nat : v = registros[p][r] /\ v < m
        BY <3>1 DEF EjecucionInv, RegistrosBien
      <3>3. v \in 0 .. m - 1
        BY <3>2
      <3>4. QED
        BY <3>1, <3>2, <3>3
    <2>2. MEMORIA \in [Direccion -> Byte]
      BY DEF EjecucionInv, Memorias
    <2>3. \A p \in Procesos : tablas[p] \in Seq(0 .. Frames - 1)
      BY DEF EjecucionInv, TablasBien, Marco
    <2>4. QED
      BY <2>1, <2>2, <2>3 DEF EjecucionInv, TypeOK
  <1>2. QED
    BY <1>1, EjecucionInvariante, PTL

\* No frame is ever two pages, of one process or of two: what exec_resize takes
\* from the bitmap is not in any table, and what a process gives back is in none.
THEOREM FramesPropios == Spec => []FramesSinCompartir
  <1>1. EjecucionInv => FramesSinCompartir
    BY DEF EjecucionInv, TablasBien
  <1>2. QED
    BY <1>1, EjecucionInvariante, PTL

\* The TLB never has two entries of a page nor more entries than configured,
\* with either algorithm.
THEOREM TlbSinDuplicados == Spec => []TlbSinRepetidas
  <1>1. EjecucionInv => TlbSinRepetidas
    BY DEF EjecucionInv, TlbBien, Distintas, TlbSinRepetidas, EsEntrada
  <1>2. QED
    BY <1>1, EjecucionInvariante, PTL

\* The entry tlb_reemplazar_por_lru would take out may have been used after
\* another, but only when no insertion, save its own, came between the two uses.
THEOREM LruEligeCasiLaVieja == Spec => []VictimaLruCasiVieja
  <1>1. EjecucionInv => VictimaLruCasiVieja
    <2> SUFFICES ASSUME EjecucionInv, tlb.lista # <<>>,
                        NEW j \in DOMAIN tlb.lista,
                        tlb.lista[j].ultimo < VictimaLru(tlb.lista).ultimo
                 PROVE  tlb.lista[j].previas = VictimaLru(tlb.lista).previas
      BY DEF VictimaLruCasiVieja
    <2>1. PICK lista \in Seq(EntradaTlb), n \in Nat :
            /\ lista = tlb.lista /\ n = tlb.inserciones
            /\ \A k \in DOMAIN lista : lista[k].uso_tiempo = n - lista[k].previas
            /\ \A i, k \in DOMAIN lista :
                 lista[i].ultimo < lista[k].ultimo => lista[i].previas <= lista[k].previas
      BY DEF EjecucionInv, TlbBien, Edades, Orden
    <2>2. PICK k \in DOMAIN lista :
            /\ VictimaLru(lista) = lista[k]
            /\ \A i \in DOMAIN lista : lista[i].uso_tiempo <= lista[k].uso_tiempo
      <3>1. \A e \in EntradaTlb : e.uso_tiempo \in Int
        BY DEF EntradaTlb
      <3>2. QED
        BY <2>1, <3>1, Victima
    <2>3. j \in DOMAIN lista /\ lista[j] \in EntradaTlb /\ lista[k] \in EntradaTlb
      BY <2>1, <2>2, ElementOfSeq, LenProperties
    <2>4. PICK a \in Int, b \in Int : a = lista[j].previas /\ b = lista[k].previas
      BY <2>3 DEF EntradaTlb
    <2>5. n - a <= n - b
      BY <2>1, <2>2, <2>3, <2>4
    <2>6. a <= b
      BY <2>1, <2>2, <2>3, <2>4
    <2>7. a = b
      BY <2>5, <2>6
    <2>8. QED
      BY <2>1, <2>2, <2>4, <2>7
  <1>2. QED
    BY <1>1, EjecucionInvariante, PTL

=============================================================================
