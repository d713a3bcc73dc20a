-------------------------- MODULE NvramImageProofs --------------------------
(***************************************************************************)
(* What the loops of the nvram library compute: where the tuples of an     *)
(* image end, what _nvram_rehash() finds and loads, what set, unset and    *)
(* the arguments do to a table, what nvram_commit() writes, and when it    *)
(* has room for all of it.  Each loop is a recursive function; the lemmas  *)
(* get its values from Iteration and what holds of all of them from        *)
(* Induction.                                                              *)
(***************************************************************************)
EXTENDS Nvram, FiniteSetTheorems, WellFoundedInduction, TLAPS

-----------------------------------------------------------------------------
(* Naturals and loops *)

\* A set of naturals that is not empty has a least element.
LEMMA LeastNatural ==
    ASSUME NEW T \in SUBSET Nat, T # {}
    PROVE  \E x \in T : \A y \in T : x <= y
<1> DEFINE R == OpToRel(<, Nat)
<1>1. \A y \in Nat, x \in Nat : y < x => <<y, x>> \in R
    BY Zenon DEF OpToRel
<1>2. IsWellFoundedOn(R, Nat)
    BY NatLessThanWellFounded, Zenon
<1> HIDE DEF R
<1>3. PICK x \in T : \A y \in T : ~(<<y, x>> \in R)
    BY <1>2, WFMin, Zenon
<1>4. \A y \in T : ~(y < x)
    BY <1>1, <1>3, Zenon
<1> QED
    BY <1>3, <1>4

\* Induction up to a bound, for the properties of what a loop computes.
LEMMA Induction ==
    ASSUME NEW n \in Nat, NEW T, 0 \in T, \A i \in 1 .. n : i - 1 \in T => i \in T
    PROVE  \A i \in 0 .. n : i \in T
<1> DEFINE U == (0 .. n) \ T
<1> SUFFICES ASSUME U # {}
             PROVE  FALSE
    BY Zenon
<1>1. U \in SUBSET Nat
    OBVIOUS
<1>2. PICK i \in U : \A j \in U : i <= j
    BY <1>1, LeastNatural, Zenon
<1>3. i \in 1 .. n /\ i - 1 \in 0 .. n /\ i - 1 \notin U
    BY <1>2
<1> QED
    BY <1>2, <1>3, Zenon

\* A set of naturals up to a bound that is not empty has a greatest element.
LEMMA GreatestNatural ==
    ASSUME NEW n \in Nat, NEW T \in SUBSET (0 .. n), T # {}
    PROVE  \E x \in T : \A y \in T : x >= y
<1> DEFINE U == {n - y : y \in T}
<1>1. U \in SUBSET Nat /\ U # {}
  <2>1. \A y \in T : n - y \in Nat /\ n - y \in U
      OBVIOUS
  <2> QED
      BY <2>1, Zenon
<1>2. PICK z \in U : \A y \in U : z <= y
    BY <1>1, LeastNatural, Zenon
<1>3. PICK x \in T : z = n - x
    BY <1>2, Zenon
<1>4. \A y \in T : n - x <= n - y
    BY <1>2, <1>3, Zenon
<1> QED
    BY <1>3, <1>4

\* The states in S that a loop over q goes through, its body taking state x and
\* element a to G[x][a].
Passes(h, S, G, b, m, q) ==
    h \in [0 .. m -> S] /\ h[0] = b /\ \A i \in 1 .. m : h[i] = G[h[i - 1]][q[i]]

\* They are what a recursive function over the positions of q says.
LEMMA Iteration ==
    ASSUME NEW S, NEW A, NEW b \in S, NEW G \in [S -> [A -> S]], NEW m \in Nat, NEW q \in [1 .. m -> A]
    PROVE  \E h : Passes(h, S, G, b, m, q)
<1> DEFINE Run(n, h) == h \in [0 .. n -> S] /\ h[0] = b /\ \A i \in 1 .. n : h[i] = G[h[i - 1]][q[i]]
           T == {n \in 0 .. m : \E h : Run(n, h)}
<1>1. 0 \in T
  <2>1. Run(0, [i \in 0 .. 0 |-> b])
      OBVIOUS
  <2>2. 0 \in 0 .. m
      OBVIOUS
  <2> HIDE DEF Run
  <2> QED
      BY <2>1, <2>2, Zenon
<1>2. ASSUME NEW n \in 1 .. m, n - 1 \in T
      PROVE  n \in T
  <2>1. PICK h : Run(n - 1, h)
      BY <1>2, Zenon
  <2> DEFINE g == [i \in 0 .. n |-> IF i = n THEN G[h[n - 1]][q[n]] ELSE h[i]]
  <2>2. h[n - 1] \in S /\ q[n] \in A
      BY <2>1
  <2>3. G[h[n - 1]][q[n]] \in S
      BY <2>2, Zenon
  <2>4. \A i \in 0 .. n - 1 : g[i] = h[i] /\ h[i] \in S
      BY <2>1
  <2>5. g \in [0 .. n -> S]
    <3>1. \A i \in 0 .. n : i = n \/ i \in 0 .. n - 1
        OBVIOUS
    <3>2. g[n] = G[h[n - 1]][q[n]]
        OBVIOUS
    <3>3. \A i \in 0 .. n : g[i] \in S
        BY <2>3, <2>4, <3>1, <3>2, Zenon
    <3> QED
        BY <3>3, Zenon
  <2>6. g[n] = G[g[n - 1]][q[n]]
      BY <2>4
  <2>7. \A i \in 1 .. n : i # n => g[i] = G[g[i - 1]][q[i]]
    <3> SUFFICES ASSUME NEW i \in 1 .. n, i # n
                 PROVE  g[i] = G[g[i - 1]][q[i]]
        BY Zenon
    <3>1. i \in 1 .. n - 1 /\ i \in 0 .. n - 1 /\ i - 1 \in 0 .. n - 1
        OBVIOUS
    <3>2. h[i] = G[h[i - 1]][q[i]]
        BY <2>1, <3>1, Zenon
    <3> HIDE DEF g
    <3> QED
        BY <2>4, <3>1, <3>2, Zenon
  <2>8. g[0] = b
      BY <2>1, <2>4
  <2> HIDE DEF g
  <2>9. Run(n, g)
      BY <2>5, <2>6, <2>7, <2>8, Zenon
  <2> HIDE DEF Run
  <2> QED
      BY <2>9
<1> HIDE DEF T
<1>3. \A n \in 1 .. m : n - 1 \in T => n \in T
    BY <1>2, Zenon
<1>4. \A n \in 0 .. m : n \in T
    BY <1>1, <1>3, Induction, Zenon
<1>5. m \in T
    BY <1>4
<1> QED
    BY <1>5, Zenon DEF T, Passes

-----------------------------------------------------------------------------
(* Where the tuples of an image end *)

LEMMA BytesNat ==
    ASSUME NEW t \in Tuple
    PROVE  Bytes(t) \in Nat /\ Width[t.value] \in Nat /\ Bytes(t) >= Width[t.value] + 2
BY NvramAssumption DEF Bytes, Tuple

\* What EndOf computes.
LEMMA EndOfIs ==
    ASSUME NEW q \in Seq(Tuple)
    PROVE  /\ EndOf(q) \in [0 .. Len(q) -> Nat]
           /\ EndOf(q)[0] = Hdr
           /\ \A i \in 1 .. Len(q) : EndOf(q)[i] = EndOf(q)[i - 1] + Bytes(q[i])
<1> DEFINE n == Len(q)
           G == [x \in Nat |-> [t \in Tuple |-> x + Bytes(t)]]
           E(f) == [i \in 0 .. Len(q) |-> IF i = 0 THEN Hdr ELSE f[i - 1] + Bytes(q[i])]
<1>1. G \in [Nat -> [Tuple -> Nat]] /\ \A x \in Nat, t \in Tuple : G[x][t] = x + Bytes(t)
    BY BytesNat
<1>2. n \in Nat /\ q \in [1 .. n -> Tuple] /\ Hdr \in Nat /\ n = Len(q)
    BY NvramAssumption
<1> HIDE DEF G, n
<1>3. PICK f : Passes(f, Nat, G, Hdr, n, q)
    BY <1>1, <1>2, Iteration, Zenon
<1>4. f = E(f)
  <2>1. \A i \in 1 .. n : i - 1 \in 0 .. n
      BY <1>2
  <2>2. \A i \in 1 .. n : f[i] = f[i - 1] + Bytes(q[i])
      BY <1>1, <1>2, <1>3, <2>1, Zenon DEF Passes
  <2> QED
      BY <1>2, <1>3, <2>2 DEF Passes
<1>5. EndOf(q) = (CHOOSE g : g = E(g))
    BY Zenon DEF EndOf
<1>6. EndOf(q) = E(EndOf(q))
  <2> HIDE DEF E
  <2> QED
      BY <1>4, <1>5, Zenon
<1>7. EndOf(q)[0] = Hdr /\ \A i \in 1 .. n : EndOf(q)[i] = EndOf(q)[i - 1] + Bytes(q[i])
    BY <1>2, <1>6
<1> DEFINE T == {i \in 0 .. n : EndOf(q)[i] \in Nat}
<1>8. \A i \in 0 .. n : i \in T
  <2>1. 0 \in T
      BY <1>2, <1>7
  <2>2. \A i \in 1 .. n : i - 1 \in T => i \in T
      BY <1>2, <1>7, BytesNat
  <2> HIDE DEF T
  <2> QED
      BY <1>2, <2>1, <2>2, Induction, Zenon
<1> QED
    BY <1>2, <1>6, <1>7, <1>8, Zenon

-----------------------------------------------------------------------------
(* The hash table *)

\* What a chain of the table is like: its names belong there and differ.
Chain(c, b) ==
    /\ c \in Seq(Tuple)
    /\ \A i \in 1 .. Len(c) : Bucket[c[i].name] = b
    /\ \A i, j \in 1 .. Len(c) : c[i].name = c[j].name => i = j

Tables == {h \in [1 .. Buckets -> Seq(Tuple)] : \A b \in 1 .. Buckets : Chain(h[b], b)}

LEMMA ChainOf ==
    ASSUME NEW h \in Tables, NEW n \in Name
    PROVE  Bucket[n] \in 1 .. Buckets /\ Chain(h[Bucket[n]], Bucket[n])
BY NvramAssumption, Zenon DEF Tables

\* What nvram_get answers.
LEMMA GetIs ==
    ASSUME NEW h \in Tables, NEW n \in Name, NEW c, h[Bucket[n]] = c
    PROVE  /\ (\A i \in 1 .. Len(c) : c[i].name # n) => nvram_get(h, n) = None
           /\ \A i \in 1 .. Len(c) : c[i].name = n => nvram_get(h, n) = c[i].value
<1>1. Chain(c, Bucket[n])
    BY ChainOf, Zenon
<1>2. DOMAIN c = 1 .. Len(c)
    BY <1>1 DEF Chain
<1>3. nvram_get(h, n) = IF Indices(c, n) = {} THEN None ELSE c[CHOOSE i \in Indices(c, n) : TRUE].value
    BY DEF nvram_get
<1>4. Indices(c, n) = {i \in 1 .. Len(c) : c[i].name = n}
    BY <1>2, Zenon DEF Indices
<1>5. ASSUME NEW i \in 1 .. Len(c), c[i].name = n
      PROVE  nvram_get(h, n) = c[i].value
  <2> DEFINE j == CHOOSE k \in Indices(c, n) : TRUE
  <2>1. i \in Indices(c, n)
      BY <1>4, <1>5, Zenon
  <2>2. j \in Indices(c, n)
      BY <2>1, Zenon
  <2> HIDE DEF j
  <2>3. j = i
      BY <1>1, <1>4, <1>5, <2>2, Zenon DEF Chain
  <2> QED
      BY <1>3, <2>1, <2>3, Zenon DEF j
<1>6. ASSUME \A i \in 1 .. Len(c) : c[i].name # n
      PROVE  nvram_get(h, n) = None
  <2>1. Indices(c, n) = {}
      BY <1>4, <1>6, Zenon
  <2> QED
      BY <1>3, <2>1, Zenon
<1> QED
    BY <1>5, <1>6, Zenon

\* ... and that only the chain of the name matters.
LEMMA GetSame ==
    ASSUME NEW h, NEW g, NEW n, h[Bucket[n]] = g[Bucket[n]]
    PROVE  nvram_get(h, n) = nvram_get(g, n)
BY DEF nvram_get

\* Table g is h with chain c in place of number b.
Relinked(g, h, b, c) ==
    g \in [1 .. Buckets -> Seq(Tuple)] /\ g[b] = c /\ \A a \in 1 .. Buckets : a # b => g[a] = h[a]

\* Chain c is d but for variable n, whose value is v.
Renews(c, d, n, v) ==
    /\ IF v = None THEN \A i \in 1 .. Len(c) : c[i].name # n
       ELSE \E i \in 1 .. Len(c) : c[i] = [name |-> n, value |-> v]
    /\ \A i \in 1 .. Len(c) : c[i].name # n => \E j \in 1 .. Len(d) : d[j] = c[i]
    /\ \A j \in 1 .. Len(d) : d[j].name # n => \E i \in 1 .. Len(c) : d[j] = c[i]

\* What happens to one chain, seen through nvram_get.
LEMMA Replaced ==
    ASSUME NEW h \in Tables, NEW n \in Name, NEW c, Chain(c, Bucket[n]),
           NEW v, Renews(c, h[Bucket[n]], n, v), NEW g, Relinked(g, h, Bucket[n], c)
    PROVE  g \in Tables /\ \A m \in Name : nvram_get(g, m) = IF m = n THEN v ELSE nvram_get(h, m)
<1> DEFINE b == Bucket[n]
<1>1. b \in 1 .. Buckets /\ c \in Seq(Tuple)
    BY ChainOf, Zenon DEF Chain
<1>2. g[b] = c /\ \A a \in 1 .. Buckets : a # b => g[a] = h[a]
    BY Zenon DEF Relinked
<1> HIDE DEF b
<1>3. \A a \in 1 .. Buckets : Chain(h[a], a)
    BY Zenon DEF Tables
<1>4. \A a \in 1 .. Buckets : Chain(g[a], a)
    BY <1>2, <1>3, Zenon DEF b
<1>5. g \in Tables
    BY <1>2, <1>4, Zenon DEF Tables, Relinked
<1>6. nvram_get(g, n) = v
  <2>1. CASE v = None
      BY <1>2, <1>5, <2>1, GetIs DEF b, Renews
  <2>2. CASE v # None
    <3>1. PICK i \in 1 .. Len(c) : c[i] = [name |-> n, value |-> v]
        BY <2>2, Zenon DEF Renews
    <3> QED
        BY <1>2, <1>5, <3>1, GetIs DEF b
  <2> QED
      BY <2>1, <2>2, Zenon
<1>7. ASSUME NEW m \in Name, m # n
      PROVE  nvram_get(g, m) = nvram_get(h, m)
  <2>1. CASE Bucket[m] # b
    <3>1. Bucket[m] \in 1 .. Buckets
        BY NvramAssumption, Zenon
    <3> QED
        BY <1>2, <2>1, <3>1, GetSame, Zenon
  <2>2. CASE Bucket[m] = b
    <3> DEFINE d == h[b]
    <3>1. /\ g[Bucket[m]] = c
          /\ h[Bucket[m]] = d
        BY <1>2, <2>2, Zenon
    <3>2. \A i \in 1 .. Len(c) : c[i].name = m => \E j \in 1 .. Len(d) : d[j] = c[i]
        BY <1>7, Zenon DEF b, Renews
    <3>3. \A j \in 1 .. Len(d) : d[j].name = m => \E i \in 1 .. Len(c) : d[j] = c[i]
        BY <1>7, Zenon DEF b, Renews
    <3> HIDE DEF d
    <3>4. CASE \E i \in 1 .. Len(c) : c[i].name = m
      <4>1. PICK i \in 1 .. Len(c) : c[i].name = m
          BY <3>4, Zenon
      <4>2. PICK j \in 1 .. Len(d) : d[j] = c[i]
          BY <3>2, <4>1, Zenon
      <4>3. nvram_get(g, m) = c[i].value
          BY <1>5, <3>1, <4>1, GetIs
      <4>4. d[j].name = m
          BY <4>1, <4>2, Zenon
      <4>5. nvram_get(h, m) = d[j].value
          BY <3>1, <4>4, GetIs
      <4> QED
          BY <4>2, <4>3, <4>5, Zenon
    <3>5. CASE \A i \in 1 .. Len(c) : c[i].name # m
      <4>1. \A j \in 1 .. Len(d) : d[j].name # m
          BY <3>3, <3>5, Zenon
      <4>2. nvram_get(g, m) = None
          BY <1>5, <3>1, <3>5, GetIs, Zenon
      <4>3. nvram_get(h, m) = None
          BY <3>1, <4>1, GetIs, Zenon
      <4> QED
          BY <4>2, <4>3, Zenon
    <3> QED
        BY <3>4, <3>5, Zenon
  <2> QED
      BY <2>1, <2>2, Zenon
<1> QED
    BY <1>5, <1>6, <1>7, Zenon

\* nvram_set puts the value of one variable, unless it is longer than the area.
LEMMA SetIs ==
    ASSUME NEW h \in Tables, NEW n \in Name, NEW v \in Val, NEW length
    PROVE  /\ nvram_set(h, n, v, length) \in Tables
           /\ \A m \in Name : nvram_get(nvram_set(h, n, v, length), m) =
                  IF m = n /\ Width[v] + 1 <= length THEN v ELSE nvram_get(h, m)
<1> DEFINE b == Bucket[n]
           d == h[b]
           t == [name |-> n, value |-> v]
           c == IF Indices(d, n) = {} THEN <<t>> \o d ELSE [i \in DOMAIN d |-> IF d[i].name = n THEN t ELSE d[i]]
           g == nvram_set(h, n, v, length)
<1>1. CASE ~_nvram_realloc(v, length)
  <2>1. g = h
      BY <1>1, Zenon DEF nvram_set
  <2> QED
      BY <1>1, <2>1, Zenon DEF _nvram_realloc
<1>2. CASE _nvram_realloc(v, length)
  <2>1. g = [h EXCEPT ![b] = c]
      BY <1>2, Zenon DEF nvram_set
  <2>2. Chain(d, b) /\ b \in 1 .. Buckets /\ t \in Tuple /\ v # None
      BY ChainOf, NvramAssumption, Zenon DEF Tuple
  <2>3. DOMAIN d = 1 .. Len(d) /\ d \in Seq(Tuple) /\ Len(d) \in Nat
      BY <2>2 DEF Chain
  <2>4. Indices(d, n) = {i \in 1 .. Len(d) : d[i].name = n}
      BY <2>3, Zenon DEF Indices
  <2>5. /\ Chain(c, b)
        /\ \E i \in 1 .. Len(c) : c[i] = t
        /\ \A i \in 1 .. Len(c) : c[i].name # n => \E j \in 1 .. Len(d) : d[j] = c[i]
        /\ \A j \in 1 .. Len(d) : d[j].name # n => \E i \in 1 .. Len(c) : d[j] = c[i]
    <3>1. CASE Indices(d, n) = {}
      <4>1. c = <<t>> \o d
          BY <3>1, Zenon
      <4> HIDE DEF c, d
      <4>2. /\ c \in Seq(Tuple) /\ Len(c) = Len(d) + 1 /\ c[1] = t
            /\ \A j \in 1 .. Len(d) : c[j + 1] = d[j]
          BY <2>2, <2>3, <4>1
      <4>3. \A i \in 1 .. Len(c) : i = 1 \/ (i - 1 \in 1 .. Len(d) /\ c[i] = d[i - 1])
          BY <2>3, <4>2
      <4>4. \A j \in 1 .. Len(d) : j + 1 \in 1 .. Len(c) /\ d[j].name # n
          BY <2>3, <2>4, <3>1, <4>2, SMTT(30)
      <4>5. 1 \in 1 .. Len(c) /\ t.name = n
          BY <2>3, <4>2
      <4> HIDE DEF t
      <4>6. \A i \in 1 .. Len(c) : Bucket[c[i].name] = b
          BY <2>2, <4>2, <4>3, <4>5, SMTT(30) DEF Chain, b
      <4>7. \A i, j \in 1 .. Len(c) : c[i].name = c[j].name => i = j
        <5> SUFFICES ASSUME NEW i \in 1 .. Len(c), NEW j \in 1 .. Len(c), c[i].name = c[j].name
                     PROVE  i = j
            BY Zenon
        <5>1. i - 1 \in 1 .. Len(d) => c[i].name # n
            BY <2>3, <4>2, <4>3, <4>4
        <5>2. j - 1 \in 1 .. Len(d) => c[j].name # n
            BY <2>3, <4>2, <4>3, <4>4
        <5>3. CASE i = 1 \/ j = 1
            BY <4>2, <4>3, <4>5, <5>1, <5>2, <5>3, Zenon
        <5>4. CASE i # 1 /\ j # 1
          <6>1. i - 1 \in 1 .. Len(d) /\ c[i] = d[i - 1] /\ j - 1 \in 1 .. Len(d) /\ c[j] = d[j - 1]
              BY <4>3, <5>4, Zenon
          <6>2. i - 1 = j - 1
              BY <2>2, <6>1, Zenon DEF Chain
          <6> QED
              BY <6>2
        <5> QED
            BY <5>3, <5>4, Zenon
      <4> QED
          BY <4>2, <4>3, <4>4, <4>5, <4>6, <4>7, ZenonT(60) DEF Chain
    <3>2. CASE Indices(d, n) # {}
      <4>1. c = [i \in 1 .. Len(d) |-> IF d[i].name = n THEN t ELSE d[i]]
          BY <2>3, <3>2, Zenon
      <4>2. PICK k \in 1 .. Len(d) : d[k].name = n
          BY <2>4, <3>2, Zenon
      <4>3. t.name = n
          BY Zenon
      <4> HIDE DEF c, d, t
      <4>4. \A i \in 1 .. Len(d) : d[i] \in Tuple
          BY <2>3
      <4>5. /\ c \in Seq(Tuple) /\ Len(c) = Len(d)
            /\ \A i \in 1 .. Len(d) : c[i] = IF d[i].name = n THEN t ELSE d[i]
          BY <2>2, <2>3, <4>1, <4>4
      <4>6. \A i \in 1 .. Len(d) : c[i].name = d[i].name
          BY <4>3, <4>5, Zenon
      <4> QED
          BY <2>2, <4>2, <4>5, <4>6, Zenon DEF Chain
    <3> QED
        BY <3>1, <3>2, Zenon
  <2> HIDE DEF c, g
  <2>6. Relinked(g, h, b, c)
      BY <2>1, <2>2, <2>5, Zenon DEF Relinked, Tables, Chain
  <2>7. g \in Tables /\ \A m \in Name : nvram_get(g, m) = IF m = n THEN v ELSE nvram_get(h, m)
    <3>1. Renews(c, d, n, v)
      <4> HIDE DEF d
      <4> QED
          BY <2>2, <2>5, Zenon DEF Renews
    <3>2. Chain(c, Bucket[n]) /\ Relinked(g, h, Bucket[n], c) /\ Renews(c, h[Bucket[n]], n, v)
        BY <2>5, <2>6, <3>1, Zenon
    <3> QED
        BY <3>2, Replaced
  <2> QED
      BY <1>2, <2>7, Zenon DEF g, _nvram_realloc
<1> QED
    BY <1>1, <1>2, Zenon

\* nvram_unset removes one variable.
LEMMA UnsetIs ==
    ASSUME NEW h \in Tables, NEW n \in Name
    PROVE  /\ nvram_unset(h, n) \in Tables
           /\ \A m \in Name : nvram_get(nvram_unset(h, n), m) = IF m = n THEN None ELSE nvram_get(h, m)
<1> DEFINE b == Bucket[n]
           d == h[b]
           k == CHOOSE i \in Indices(d, n) : TRUE
           c == Unlink(d, k)
           g == nvram_unset(h, n)
<1>1. Chain(d, b) /\ b \in 1 .. Buckets
    BY ChainOf, Zenon
<1>2. DOMAIN d = 1 .. Len(d) /\ d \in Seq(Tuple) /\ Len(d) \in Nat
    BY <1>1 DEF Chain
<1>3. Indices(d, n) = {i \in 1 .. Len(d) : d[i].name = n}
    BY <1>2, Zenon DEF Indices
<1>4. CASE Indices(d, n) = {}
  <2>1. g = h
      BY <1>4, Zenon DEF nvram_unset
  <2>2. \A i \in 1 .. Len(d) : d[i].name # n
      BY <1>3, <1>4, Zenon
  <2>3. nvram_get(h, n) = None
    <3> HIDE DEF d
    <3> QED
        BY <2>2, GetIs, Zenon DEF d
  <2> QED
      BY <2>1, <2>3, Zenon
<1>5. CASE Indices(d, n) # {}
  <2>1. g = [h EXCEPT ![b] = c]
      BY <1>5, Zenon DEF nvram_unset
  <2>2. k \in 1 .. Len(d) /\ d[k].name = n
    <3>1. k \in Indices(d, n)
        BY <1>5, Zenon
    <3> HIDE DEF k, d
    <3> QED
        BY <1>3, <3>1, Zenon
  <2>3. c = [j \in 1 .. Len(d) - 1 |-> IF j < k THEN d[j] ELSE d[j + 1]]
      BY Zenon DEF Unlink
  <2> HIDE DEF c, k, d
  <2>4. \A j \in 1 .. Len(d) - 1 : d[j] \in Tuple /\ d[j + 1] \in Tuple
      BY <1>2
  <2>5. /\ c \in Seq(Tuple) /\ Len(c) = Len(d) - 1
        /\ \A j \in 1 .. Len(d) - 1 : c[j] = IF j < k THEN d[j] ELSE d[j + 1]
      BY <1>2, <2>2, <2>3, <2>4
  <2> DEFINE to(j) == IF j < k THEN j ELSE j + 1
             from(i) == IF i < k THEN i ELSE i - 1
  <2>6. \A j \in 1 .. Len(c) : to(j) \in 1 .. Len(d) /\ to(j) # k /\ c[j] = d[to(j)]
      BY <1>2, <2>2, <2>5
  <2>7. \A i \in 1 .. Len(d) : i # k => from(i) \in 1 .. Len(c) /\ d[i] = c[from(i)]
      BY <1>2, <2>2, <2>5
  <2>8. \A i, j \in 1 .. Len(c) : to(i) = to(j) => i = j
      BY <1>2, <2>2, <2>5
  <2> HIDE DEF to, from
  <2>9. Chain(c, b)
    <3>1. \A i, j \in 1 .. Len(c) : c[i].name = c[j].name => to(i) = to(j)
        BY <1>1, <2>6 DEF Chain
    <3> QED
        BY <1>1, <2>5, <2>6, <2>8, <3>1 DEF Chain
  <2>10. \A i \in 1 .. Len(d) : d[i].name = n => i = k
      BY <1>1, <2>2, Zenon DEF Chain
  <2>11. Renews(c, d, n, None)
    <3>1. \A i \in 1 .. Len(c) : c[i].name # n
        BY <2>6, <2>10, Zenon
    <3>2. \A i \in 1 .. Len(c) : \E j \in 1 .. Len(d) : d[j] = c[i]
        BY <2>6, Zenon
    <3>3. \A j \in 1 .. Len(d) : d[j].name # n => \E i \in 1 .. Len(c) : d[j] = c[i]
        BY <2>2, <2>7, Zenon
    <3> QED
        BY <3>1, <3>2, <3>3, Zenon DEF Renews
  <2> HIDE DEF g
  <2>12. Relinked(g, h, b, c)
      BY <1>1, <2>1, <2>5, Zenon DEF Relinked, Tables
  <2>13. Chain(c, Bucket[n]) /\ Relinked(g, h, Bucket[n], c) /\ Renews(c, h[Bucket[n]], n, None)
      BY <2>9, <2>11, <2>12, Zenon DEF d
  <2>14. g \in Tables /\ \A m \in Name : nvram_get(g, m) = IF m = n THEN None ELSE nvram_get(h, m)
      BY <2>13, Replaced
  <2> QED
      BY <2>14, Zenon DEF g
<1> QED
    BY <1>4, <1>5, Zenon

-----------------------------------------------------------------------------
(* The loops over the table *)

EmptyTable == [b \in 1 .. Buckets |-> <<>>]

LEMMA EmptyIs == EmptyTable \in Tables /\ \A m \in Name : nvram_get(EmptyTable, m) = None
<1>1. EmptyTable \in Tables /\ \A b \in 1 .. Buckets : EmptyTable[b] = <<>>
  <2>1. EmptyTable \in [1 .. Buckets -> Seq(Tuple)] /\ \A b \in 1 .. Buckets : EmptyTable[b] = <<>>
      BY DEF EmptyTable
  <2>2. \A b \in 1 .. Buckets : Chain(<<>>, b)
      BY DEF Chain
  <2> QED
      BY <2>1, <2>2, Zenon DEF Tables
<1> QED
    BY <1>1, GetIs, ChainOf

\* The states of the loop over the tuples.
LEMMA LoadedBy ==
    ASSUME NEW q \in Seq(Tuple), NEW length
    PROVE  \E h \in [0 .. Len(q) -> Tables] :
              /\ h[0] = EmptyTable
              /\ \A i \in 1 .. Len(q) : h[i] = nvram_set(h[i - 1], q[i].name, q[i].value, length)
              /\ Loaded(q, length) = h[Len(q)]
<1> DEFINE n == Len(q)
           G == [x \in Tables |-> [t \in Tuple |-> nvram_set(x, t.name, t.value, length)]]
           E(f) == [i \in 0 .. Len(q) |-> IF i = 0 THEN [b \in 1 .. Buckets |-> <<>>]
                                          ELSE nvram_set(f[i - 1], q[i].name, q[i].value, length)]
           h == CHOOSE g : g = E(g)
<1>0. \A x \in Tables, t \in Tuple : nvram_set(x, t.name, t.value, length) \in Tables
    BY SetIs, Zenon DEF Tuple
<1>1. G \in [Tables -> [Tuple -> Tables]] /\ \A x \in Tables, t \in Tuple : G[x][t] = nvram_set(x, t.name, t.value, length)
    BY <1>0, Zenon
<1>2. n \in Nat /\ q \in [1 .. n -> Tuple] /\ n = Len(q)
    OBVIOUS
<1> HIDE DEF G, n
<1>3. PICK f : Passes(f, Tables, G, EmptyTable, n, q)
    BY <1>1, <1>2, EmptyIs, Iteration, Zenon
<1>4. f = E(f)
  <2>1. \A i \in 1 .. n : i - 1 \in 0 .. n
      BY <1>2
  <2>2. \A i \in 1 .. n : f[i] = nvram_set(f[i - 1], q[i].name, q[i].value, length)
      BY <1>1, <1>2, <1>3, <2>1, Zenon DEF Passes
  <2> QED
      BY <1>2, <1>3, <2>2 DEF Passes, EmptyTable
<1>5. Loaded(q, length) = h[n]
    BY <1>2, Zenon DEF Loaded
<1>6. h = E(h)
  <2> HIDE DEF E
  <2> QED
      BY <1>4, Zenon
<1> HIDE DEF h
<1>7. h[0] = EmptyTable /\ \A i \in 1 .. n : h[i] = nvram_set(h[i - 1], q[i].name, q[i].value, length)
  <2>1. h[0] = EmptyTable
      BY <1>2, <1>6 DEF EmptyTable
  <2>2. \A i \in 1 .. n : E(h)[i] = nvram_set(h[i - 1], q[i].name, q[i].value, length)
      BY <1>2
  <2> HIDE DEF E
  <2> QED
      BY <1>6, <2>1, <2>2, Zenon
<1> DEFINE T == {i \in 0 .. n : h[i] \in Tables}
<1>8. \A i \in 0 .. n : i \in T
  <2>1. 0 \in T
      BY <1>2, <1>7, EmptyIs
  <2>2. \A i \in 1 .. n : i - 1 \in T => i \in T
      BY <1>0, <1>2, <1>7
  <2> HIDE DEF T
  <2> QED
      BY <1>2, <2>1, <2>2, Induction, Zenon
<1> QED
    BY <1>2, <1>5, <1>6, <1>7, <1>8, Zenon

\* v is the value that the first i elements of q leave variable m with, if it
\* was old before.
Latest(q, i, m, v, old) ==
    \/ v = old /\ \A j \in 1 .. i : q[j].name # m
    \/ \E j \in 1 .. i : q[j].name = m /\ v = q[j].value /\ \A k \in j + 1 .. i : q[k].name # m

LEMMA LatestNone ==
    ASSUME NEW q, NEW m, NEW old
    PROVE  Latest(q, 0, m, old, old)
BY DEF Latest

LEMMA LatestStep ==
    ASSUME NEW q, NEW i \in Nat \ {0}, NEW m, NEW u, NEW old, Latest(q, i - 1, m, u, old),
           NEW v, v = IF q[i].name = m THEN q[i].value ELSE u
    PROVE  Latest(q, i, m, v, old)
<1>1. \A j \in 1 .. i : j = i \/ j \in 1 .. i - 1
    OBVIOUS
<1>2. CASE q[i].name = m
  <2>1. i \in 1 .. i /\ \A k \in i + 1 .. i : q[k].name # m
      OBVIOUS
  <2> QED
      BY <1>2, <2>1, Zenon DEF Latest
<1>3. CASE q[i].name # m /\ u = old /\ \A j \in 1 .. i - 1 : q[j].name # m
    BY <1>1, <1>3, Zenon DEF Latest
<1>4. CASE q[i].name # m /\ \E j \in 1 .. i - 1 : q[j].name = m /\ u = q[j].value /\ \A k \in j + 1 .. i - 1 : q[k].name # m
  <2>1. PICK j \in 1 .. i - 1 : q[j].name = m /\ u = q[j].value /\ \A k \in j + 1 .. i - 1 : q[k].name # m
      BY <1>4, Zenon
  <2>2. \A k \in j + 1 .. i : k = i \/ k \in j + 1 .. i - 1
      OBVIOUS
  <2>3. j \in 1 .. i /\ \A k \in j + 1 .. i : q[k].name # m
      BY <1>4, <2>1, <2>2
  <2> QED
      BY <1>4, <2>1, <2>3, Zenon DEF Latest
<1> QED
    BY <1>2, <1>3, <1>4, Zenon DEF Latest

\* The same said with the greatest position of the name.
LEMMA LatestIs ==
    ASSUME NEW n \in Nat, NEW q, NEW m, NEW v, NEW old, Latest(q, n, m, v, old),
           NEW At, At = {i \in 1 .. n : q[i].name = m}
    PROVE  v = IF At = {} THEN old ELSE q[LastOf(At)].value
<1>1. CASE v = old /\ \A j \in 1 .. n : q[j].name # m
    BY <1>1, Zenon
<1>2. CASE \E j \in 1 .. n : q[j].name = m /\ v = q[j].value /\ \A k \in j + 1 .. n : q[k].name # m
  <2>1. PICK j \in 1 .. n : q[j].name = m /\ v = q[j].value /\ \A k \in j + 1 .. n : q[k].name # m
      BY <1>2, Zenon
  <2>2. j \in At /\ \A k \in At : j >= k
      BY <2>1
  <2>3. \A x \in At : (\A y \in At : x >= y) => x = j
      BY <2>2
  <2>4. LastOf(At) = (CHOOSE x \in At : \A y \in At : x >= y)
      BY Zenon DEF LastOf
  <2>5. LastOf(At) = j
    <3> HIDE <2>1
    <3> QED
        BY <2>2, <2>3, <2>4, Zenon
  <2> QED
      BY <2>1, <2>2, <2>5, Zenon
<1> QED
    BY <1>1, <1>2, Zenon DEF Latest

\* The table that the loop over the tuples leaves: the last tuple of a name counts.
LEMMA LoadedIs ==
    ASSUME NEW q \in Seq(Tuple), NEW length, \A i \in 1 .. Len(q) : Width[q[i].value] + 1 <= length
    PROVE  /\ Loaded(q, length) \in Tables
           /\ \A m \in Name : Latest(q, Len(q), m, nvram_get(Loaded(q, length), m), None)
<1> DEFINE n == Len(q)
<1>1. n \in Nat /\ \A i \in 1 .. n : q[i].name \in Name /\ q[i].value \in Val
  <2>1. \A i \in 1 .. n : q[i] \in Tuple
      OBVIOUS
  <2>2. \A t \in Tuple : t.name \in Name /\ t.value \in Val
      BY Zenon DEF Tuple
  <2> QED
      BY <2>1, <2>2
<1>2. PICK h \in [0 .. n -> Tables] :
              /\ h[0] = EmptyTable
              /\ \A i \in 1 .. n : h[i] = nvram_set(h[i - 1], q[i].name, q[i].value, length)
              /\ Loaded(q, length) = h[n]
    BY LoadedBy, Zenon
<1> HIDE DEF n
<1> DEFINE T == {i \in 0 .. n : \A m \in Name : Latest(q, i, m, nvram_get(h[i], m), None)}
<1>3. 0 \in T
  <2>1. \A m \in Name : nvram_get(h[0], m) = None
      BY <1>2, EmptyIs, Zenon
  <2> QED
      BY <1>1, <2>1, LatestNone
<1>4. ASSUME NEW i \in 1 .. n, i - 1 \in T
      PROVE  i \in T
  <2> SUFFICES ASSUME NEW m \in Name
               PROVE  Latest(q, i, m, nvram_get(h[i], m), None)
      BY <1>1
  <2> DEFINE g == h[i - 1]
             f == h[i]
  <2>1. g \in Tables /\ f = nvram_set(g, q[i].name, q[i].value, length)
      BY <1>1, <1>2
  <2>2. Latest(q, i - 1, m, nvram_get(g, m), None)
      BY <1>4, Zenon
  <2> HIDE DEF g, f
  <2>3. nvram_get(f, m) = IF q[i].name = m THEN q[i].value ELSE nvram_get(g, m)
    <3>1. Width[q[i].value] + 1 <= length
        BY Zenon DEF n
    <3> QED
        BY <1>1, <2>1, <3>1, SetIs
  <2>4. i \in Nat \ {0}
      BY <1>1
  <2>5. Latest(q, i, m, nvram_get(f, m), None)
      BY <2>2, <2>3, <2>4, LatestStep, Zenon
  <2> QED
      BY <2>5, Zenon DEF f
<1> HIDE DEF T
<1>5. \A i \in 1 .. n : i - 1 \in T => i \in T
    BY <1>4, Zenon
<1>6. \A i \in 0 .. n : i \in T
    BY <1>1, <1>3, <1>5, Induction, Zenon
<1>7. n \in T /\ h[n] \in Tables
    BY <1>1, <1>2, <1>6
<1> QED
    BY <1>2, <1>7, Zenon DEF T, n

LEMMA SetWordIs ==
    ASSUME NEW h \in Tables, NEW n \in Special, NEW w \in Word, NEW length \in Nat, length >= Hdr
    PROVE  /\ SetWord(h, n, w, length) \in Tables
           /\ \A m \in Name : nvram_get(SetWord(h, n, w, length), m) =
                  IF m = n /\ nvram_get(h, n) = None THEN Fmt[w] ELSE nvram_get(h, m)
<1>1. n \in Name /\ Fmt[w] \in Val /\ Width[Fmt[w]] + 1 <= length
    BY NvramAssumption DEF Name
<1>2. CASE nvram_get(h, n) # None
    BY <1>2, Zenon DEF SetWord
<1>3. CASE nvram_get(h, n) = None
  <2>1. SetWord(h, n, w, length) = nvram_set(h, n, Fmt[w], length)
      BY <1>3, Zenon DEF SetWord
  <2> QED
      BY <1>1, <1>3, <2>1, SetIs
<1> QED
    BY <1>2, <1>3, Zenon

\* The states of the loop over the words of the header.
LEMMA WithWordsBy ==
    ASSUME NEW found \in Tables, NEW hdr \in [Special -> Word], NEW length \in Nat, length >= Hdr
    PROVE  \E h \in [0 .. Len(Sdram) -> Tables] :
              /\ h[0] = found
              /\ \A i \in 1 .. Len(Sdram) : h[i] = SetWord(h[i - 1], Sdram[i], hdr[Sdram[i]], length)
              /\ WithWords(found, hdr, length) = h[Len(Sdram)]
<1> DEFINE n == Len(Sdram)
           G == [x \in Tables |-> [s \in Special |-> SetWord(x, s, hdr[s], length)]]
           E(f) == [i \in 0 .. Len(Sdram) |-> IF i = 0 THEN found
                                              ELSE SetWord(f[i - 1], Sdram[i], hdr[Sdram[i]], length)]
           h == CHOOSE g : g = E(g)
<1>0. \A x \in Tables, s \in Special : SetWord(x, s, hdr[s], length) \in Tables
    BY SetWordIs, Zenon
<1>1. G \in [Tables -> [Special -> Tables]] /\ \A x \in Tables, s \in Special : G[x][s] = SetWord(x, s, hdr[s], length)
    BY <1>0, Zenon
<1>2. n \in Nat /\ Sdram \in [1 .. n -> Special] /\ n = Len(Sdram)
    BY NvramAssumption
<1> HIDE DEF G, n
<1>3. PICK f : Passes(f, Tables, G, found, n, Sdram)
    BY <1>1, <1>2, Iteration, Zenon
<1>4. f = E(f)
  <2>1. \A i \in 1 .. n : i - 1 \in 0 .. n
      BY <1>2
  <2>2. \A i \in 1 .. n : f[i] = SetWord(f[i - 1], Sdram[i], hdr[Sdram[i]], length)
      BY <1>1, <1>2, <1>3, <2>1, Zenon DEF Passes
  <2> QED
      BY <1>2, <1>3, <2>2 DEF Passes
<1>5. WithWords(found, hdr, length) = h[n]
    BY <1>2, Zenon DEF WithWords
<1>6. h = E(h)
  <2> HIDE DEF E
  <2> QED
      BY <1>4, Zenon
<1> HIDE DEF h
<1>7. h[0] = found /\ \A i \in 1 .. n : h[i] = SetWord(h[i - 1], Sdram[i], hdr[Sdram[i]], length)
  <2>1. E(h)[0] = found
      BY <1>2
  <2>2. \A i \in 1 .. n : E(h)[i] = SetWord(h[i - 1], Sdram[i], hdr[Sdram[i]], length)
      BY <1>2
  <2> HIDE DEF E
  <2> QED
      BY <1>6, <2>1, <2>2, Zenon
<1> DEFINE T == {i \in 0 .. n : h[i] \in Tables}
<1>8. \A i \in 0 .. n : i \in T
  <2>1. 0 \in T
      BY <1>2, <1>7
  <2>2. \A i \in 1 .. n : i - 1 \in T => i \in T
      BY <1>0, <1>2, <1>7
  <2> HIDE DEF T
  <2> QED
      BY <1>2, <2>1, <2>2, Induction, Zenon
<1> QED
    BY <1>2, <1>5, <1>6, <1>7, <1>8, Zenon

\* The words of the header become the variables that the image does not have.
LEMMA WithWordsIs ==
    ASSUME NEW found \in Tables, NEW hdr \in [Special -> Word], NEW length \in Nat, length >= Hdr
    PROVE  /\ WithWords(found, hdr, length) \in Tables
           /\ \A m \in Name : nvram_get(WithWords(found, hdr, length), m) =
                  IF m \in Special /\ nvram_get(found, m) = None THEN Fmt[hdr[m]] ELSE nvram_get(found, m)
<1> DEFINE n == Len(Sdram)
<1>1. n \in Nat /\ \A i \in 1 .. n : Sdram[i] \in Special
    BY NvramAssumption
<1>2. PICK h \in [0 .. n -> Tables] :
              /\ h[0] = found
              /\ \A i \in 1 .. n : h[i] = SetWord(h[i - 1], Sdram[i], hdr[Sdram[i]], length)
              /\ WithWords(found, hdr, length) = h[n]
    BY WithWordsBy
<1>3. \A m \in Special : Fmt[hdr[m]] # None
    BY NvramAssumption
<1>4. \A m : m \in Special <=> \E i \in 1 .. n : Sdram[i] = m
    BY NvramAssumption DEF Special
<1> HIDE DEF n
<1> DEFINE Done(i, m) == \E j \in 1 .. i : Sdram[j] = m
           T == {i \in 0 .. n : \A m \in Name : nvram_get(h[i], m) =
                     IF Done(i, m) /\ nvram_get(found, m) = None THEN Fmt[hdr[m]] ELSE nvram_get(found, m)}
<1>5. 0 \in T
    BY <1>1, <1>2
<1>6. ASSUME NEW i \in 1 .. n, i - 1 \in T
      PROVE  i \in T
  <2> SUFFICES ASSUME NEW m \in Name
               PROVE  nvram_get(h[i], m) =
                      IF Done(i, m) /\ nvram_get(found, m) = None THEN Fmt[hdr[m]] ELSE nvram_get(found, m)
      BY <1>1
  <2> DEFINE g == h[i - 1]
             f == h[i]
             s == Sdram[i]
  <2>1. g \in Tables /\ f = SetWord(g, s, hdr[s], length) /\ s \in Special /\ s \in Name /\ hdr[s] \in Word
      BY <1>1, <1>2 DEF Name
  <2>2. /\ nvram_get(g, m) =
             IF Done(i - 1, m) /\ nvram_get(found, m) = None THEN Fmt[hdr[m]] ELSE nvram_get(found, m)
        /\ nvram_get(g, s) =
             IF Done(i - 1, s) /\ nvram_get(found, s) = None THEN Fmt[hdr[s]] ELSE nvram_get(found, s)
      BY <1>6, <2>1, Zenon
  <2>3. Done(i, m) <=> Done(i - 1, m) \/ m = s
    <3>1. \A j : j \in 1 .. i <=> j \in 1 .. i - 1 \/ j = i
        BY <1>1
    <3> QED
        BY <3>1, Zenon
  <2>4. Fmt[hdr[s]] # None
      BY <1>3, <2>1, Zenon
  <2> HIDE DEF g, f, s, Done
  <2>5. nvram_get(f, m) = IF m = s /\ nvram_get(g, s) = None THEN Fmt[hdr[s]] ELSE nvram_get(g, m)
      BY <2>1, SetWordIs
  <2>6. nvram_get(f, m) = IF Done(i, m) /\ nvram_get(found, m) = None THEN Fmt[hdr[m]] ELSE nvram_get(found, m)
      BY <2>2, <2>3, <2>4, <2>5, Zenon
  <2> QED
      BY <2>6, Zenon DEF f
<1> HIDE DEF T
<1>7. \A i \in 1 .. n : i - 1 \in T => i \in T
    BY <1>6, Zenon
<1>8. \A i \in 0 .. n : i \in T
    BY <1>1, <1>5, <1>7, Induction, Zenon
<1>9. n \in T /\ h[n] \in Tables
    BY <1>1, <1>2, <1>8
<1>10. \A m \in Name : nvram_get(h[n], m) =
           IF m \in Special /\ nvram_get(found, m) = None THEN Fmt[hdr[m]] ELSE nvram_get(found, m)
  <2>1. \A m : Done(n, m) <=> m \in Special
      BY <1>4, Zenon
  <2> HIDE DEF Done
  <2> QED
      BY <1>9, <2>1, Zenon DEF T
<1> QED
    BY <1>2, <1>9, <1>10, Zenon

LEMMA ApplyArgIs ==
    ASSUME NEW h \in Tables, NEW a \in Arg, NEW length
    PROVE  /\ ApplyArg(h, a, length) \in Tables
           /\ \A m \in Name : nvram_get(ApplyArg(h, a, length), m) =
                  IF m = a.name /\ (a.value # None => Width[a.value] + 1 <= length)
                  THEN a.value ELSE nvram_get(h, m)
<1>1. a.name \in Name /\ (a.value # None => a.value \in Val)
    BY Zenon DEF Arg
<1>2. CASE a.value = None
  <2>1. ApplyArg(h, a, length) = nvram_unset(h, a.name)
      BY <1>2, Zenon DEF ApplyArg
  <2> QED
      BY <1>1, <1>2, <2>1, UnsetIs
<1>3. CASE a.value # None
  <2>1. ApplyArg(h, a, length) = nvram_set(h, a.name, a.value, length)
      BY <1>3, Zenon DEF ApplyArg
  <2> QED
      BY <1>1, <1>3, <2>1, SetIs
<1> QED
    BY <1>2, <1>3, Zenon

\* The states of the loop over the arguments.
LEMMA AppliedBy ==
    ASSUME NEW first \in Tables, NEW q \in Seq(Arg), NEW length
    PROVE  \E h \in [0 .. Len(q) -> Tables] :
              /\ h[0] = first
              /\ \A i \in 1 .. Len(q) : h[i] = ApplyArg(h[i - 1], q[i], length)
              /\ Applied(first, q, length) = h[Len(q)]
<1> DEFINE n == Len(q)
           G == [x \in Tables |-> [a \in Arg |-> ApplyArg(x, a, length)]]
           E(f) == [i \in 0 .. Len(q) |-> IF i = 0 THEN first ELSE ApplyArg(f[i - 1], q[i], length)]
           h == CHOOSE g : g = E(g)
<1>0. \A x \in Tables, a \in Arg : ApplyArg(x, a, length) \in Tables
    BY ApplyArgIs, Zenon
<1>1. G \in [Tables -> [Arg -> Tables]] /\ \A x \in Tables, a \in Arg : G[x][a] = ApplyArg(x, a, length)
    BY <1>0, Zenon
<1>2. n \in Nat /\ q \in [1 .. n -> Arg] /\ n = Len(q)
    OBVIOUS
<1> HIDE DEF G, n
<1>3. PICK f : Passes(f, Tables, G, first, n, q)
    BY <1>1, <1>2, Iteration, Zenon
<1>4. f = E(f)
  <2>1. \A i \in 1 .. n : i - 1 \in 0 .. n
      BY <1>2
  <2>2. \A i \in 1 .. n : f[i] = ApplyArg(f[i - 1], q[i], length)
      BY <1>1, <1>2, <1>3, <2>1, Zenon DEF Passes
  <2> QED
      BY <1>2, <1>3, <2>2 DEF Passes
<1>5. Applied(first, q, length) = h[n]
    BY <1>2, Zenon DEF Applied
<1>6. h = E(h)
  <2> HIDE DEF E
  <2> QED
      BY <1>4, Zenon
<1> HIDE DEF h
<1>7. h[0] = first /\ \A i \in 1 .. n : h[i] = ApplyArg(h[i - 1], q[i], length)
  <2>1. E(h)[0] = first
      BY <1>2
  <2>2. \A i \in 1 .. n : E(h)[i] = ApplyArg(h[i - 1], q[i], length)
      BY <1>2
  <2> HIDE DEF E
  <2> QED
      BY <1>6, <2>1, <2>2, Zenon
<1> DEFINE T == {i \in 0 .. n : h[i] \in Tables}
<1>8. \A i \in 0 .. n : i \in T
  <2>1. 0 \in T
      BY <1>2, <1>7
  <2>2. \A i \in 1 .. n : i - 1 \in T => i \in T
      BY <1>0, <1>2, <1>7
  <2> HIDE DEF T
  <2> QED
      BY <1>2, <2>1, <2>2, Induction, Zenon
<1> QED
    BY <1>2, <1>5, <1>6, <1>7, <1>8, Zenon

\* The table after the arguments: for a variable whose new values fit the area,
\* the last argument that names it counts.
LEMMA AppliedIs ==
    ASSUME NEW first \in Tables, NEW q \in Seq(Arg), NEW length
    PROVE  /\ Applied(first, q, length) \in Tables
           /\ \A m \in Name :
                (\A i \in 1 .. Len(q) : q[i].name = m /\ q[i].value # None => Width[q[i].value] + 1 <= length)
                => Latest(q, Len(q), m, nvram_get(Applied(first, q, length), m), nvram_get(first, m))
<1> DEFINE n == Len(q)
<1>1. n \in Nat /\ \A i \in 1 .. n : q[i] \in Arg
    OBVIOUS
<1>2. PICK h \in [0 .. n -> Tables] :
              /\ h[0] = first
              /\ \A i \in 1 .. n : h[i] = ApplyArg(h[i - 1], q[i], length)
              /\ Applied(first, q, length) = h[n]
    BY AppliedBy
<1>3. ASSUME NEW m \in Name,
             \A i \in 1 .. n : q[i].name = m /\ q[i].value # None => Width[q[i].value] + 1 <= length
      PROVE  Latest(q, n, m, nvram_get(h[n], m), nvram_get(first, m))
  <2> HIDE DEF n
  <2> DEFINE T == {i \in 0 .. n : Latest(q, i, m, nvram_get(h[i], m), nvram_get(first, m))}
  <2>1. 0 \in T
      BY <1>1, <1>2, LatestNone
  <2>2. ASSUME NEW i \in 1 .. n, i - 1 \in T
        PROVE  i \in T
    <3> DEFINE g == h[i - 1]
               f == h[i]
               a == q[i]
    <3>1. g \in Tables /\ f = ApplyArg(g, a, length) /\ a \in Arg
        BY <1>1, <1>2
    <3>2. Latest(q, i - 1, m, nvram_get(g, m), nvram_get(first, m))
        BY <2>2, Zenon
    <3>3. a.name = m /\ a.value # None => Width[a.value] + 1 <= length
        BY <1>3, Zenon
    <3> HIDE DEF g, f, a
    <3>4. nvram_get(f, m) = IF a.name = m THEN a.value ELSE nvram_get(g, m)
        BY <3>1, <3>3, ApplyArgIs
    <3>5. nvram_get(f, m) = IF q[i].name = m THEN q[i].value ELSE nvram_get(g, m)
        BY <3>4, Zenon DEF a
    <3>6. i \in Nat \ {0}
        BY <1>1
    <3>7. Latest(q, i, m, nvram_get(f, m), nvram_get(first, m))
        BY <3>2, <3>5, <3>6, LatestStep, Zenon
    <3> QED
        BY <1>1, <3>7 DEF f
  <2> HIDE DEF T
  <2>3. \A i \in 1 .. n : i - 1 \in T => i \in T
      BY <2>2, Zenon
  <2>4. \A i \in 0 .. n : i \in T
      BY <1>1, <2>1, <2>3, Induction, Zenon
  <2>5. n \in T
      BY <1>1, <2>4
  <2> QED
      BY <2>5, Zenon DEF T
<1>4. h[n] \in Tables
    BY <1>1, <1>2
<1> HIDE DEF n
<1> QED
    BY <1>2, <1>3, <1>4, Zenon DEF n

-----------------------------------------------------------------------------
(* Images *)

LEMMA EndOfGrows ==
    ASSUME NEW q \in Seq(Tuple), NEW j \in 0 .. Len(q), NEW i \in 0 .. j
    PROVE  EndOf(q)[i] <= EndOf(q)[j]
<1> DEFINE e == EndOf(q)
<1>1. j \in Nat /\ Len(q) \in Nat /\ \A k \in 1 .. Len(q) : q[k] \in Tuple
    OBVIOUS
<1>2. /\ \A k \in 0 .. j : e[k] \in Nat
      /\ \A k \in 1 .. j : e[k] = e[k - 1] + Bytes(q[k]) /\ Bytes(q[k]) \in Nat
  <2>1. /\ e \in [0 .. Len(q) -> Nat]
        /\ \A k \in 1 .. Len(q) : e[k] = e[k - 1] + Bytes(q[k])
      BY EndOfIs, Zenon
  <2> HIDE DEF e
  <2>2. \A k \in 0 .. j : k \in 0 .. Len(q)
      BY <1>1
  <2>3. \A k \in 1 .. j : k \in 1 .. Len(q) /\ Bytes(q[k]) \in Nat
      BY <1>1, BytesNat
  <2> QED
      BY <2>1, <2>2, <2>3, Zenon
<1> HIDE DEF e
<1> DEFINE T == {k \in 0 .. j : i <= k => e[i] <= e[k]}
<1>3. 0 \in T
    BY <1>1, <1>2
<1>4. ASSUME NEW k \in 1 .. j, k - 1 \in T
      PROVE  k \in T
  <2>1. /\ k - 1 \in 0 .. j /\ k \in 0 .. j /\ e[k - 1] \in Nat /\ e[i] \in Nat
        /\ e[k] = e[k - 1] + Bytes(q[k]) /\ Bytes(q[k]) \in Nat
      BY <1>1, <1>2
  <2>2. i <= k - 1 => e[i] <= e[k - 1]
      BY <1>4, Zenon
  <2>3. i <= k => i = k \/ i <= k - 1
      BY <1>1
  <2> QED
      BY <2>1, <2>2, <2>3
<1> HIDE DEF T
<1>5. \A k \in 0 .. j : k \in T
    BY <1>1, <1>3, <1>4, Induction, Zenon
<1>6. j \in T
    BY <1>1, <1>5
<1> QED
    BY <1>1, <1>6 DEF T, e

\* What _nvram_rehash() finds.
LEMMA ParsedIs ==
    ASSUME NEW img, img.tuples \in Seq(Tuple), NEW length
    PROVE  LET q == img.tuples
               p == Parsed(img, length)
           IN  /\ p \in Seq(Tuple) /\ Len(p) \in 0 .. Len(q)
               /\ \A i \in 1 .. Len(p) : p[i] = q[i]
               /\ Len(p) # 0 => EndOf(q)[Len(p)] <= Limit(img, length)
               /\ \A i \in 1 .. Len(q) : EndOf(q)[i] <= Limit(img, length) => i <= Len(p)
<1> DEFINE q == img.tuples
           p == Parsed(img, length)
           S == {0} \cup {i \in DOMAIN q : EndOf(q)[i] <= Limit(img, length)}
           k == LastOf(S)
<1>1. p = SubSeq(q, 1, k)
    BY Zenon DEF Parsed
<1>2. Len(q) \in Nat /\ DOMAIN q = 1 .. Len(q) /\ q \in Seq(Tuple)
    OBVIOUS
<1> HIDE DEF q
<1>3. S \in SUBSET (0 .. Len(q)) /\ S # {}
    BY <1>2
<1>4. k \in S /\ \A y \in S : k >= y
  <2> HIDE DEF S
  <2>1. \E x \in S : \A y \in S : x >= y
      BY <1>2, <1>3, GreatestNatural, Zenon
  <2> QED
      BY <2>1, Zenon DEF LastOf
<1>5. k \in 0 .. Len(q)
    BY <1>3, <1>4, Zenon
<1> HIDE DEF k
<1>6. p \in Seq(Tuple) /\ Len(p) = k /\ \A i \in 1 .. k : p[i] = q[i]
    BY <1>1, <1>2, <1>5
<1>7. k # 0 => EndOf(q)[k] <= Limit(img, length)
    BY <1>4, Zenon
<1>8. \A i \in 1 .. Len(q) : EndOf(q)[i] <= Limit(img, length) => i <= k
    BY <1>2, <1>4, <1>5, Zenon
<1> HIDE DEF S, p
<1> QED
    BY <1>5, <1>6, <1>7, <1>8, Zenon DEF q, p

LEMMA LimitIs ==
    ASSUME NEW img, img.len \in Nat, NEW length \in Nat, length >= Hdr
    PROVE  Limit(img, length) \in Hdr .. length
BY NvramAssumption DEF Limit

\* What is found in a mapping fits it.
LEMMA ParsedFits ==
    ASSUME NEW img, img.tuples \in Seq(Tuple), img.len \in Nat, NEW length \in Nat, length >= Hdr,
           NEW i \in 1 .. Len(Parsed(img, length))
    PROVE  Width[Parsed(img, length)[i].value] + 1 <= length
<1> DEFINE q == img.tuples
           p == Parsed(img, length)
           e == EndOf(q)
           n == Len(p)
           l == Limit(img, length)
<1>1. /\ q \in Seq(Tuple) /\ Len(q) \in Nat /\ n \in 0 .. Len(q) /\ i \in 1 .. n
      /\ p[i] = q[i] /\ e[n] <= l
    BY ParsedIs
<1>2. l \in Nat /\ l <= length
    BY LimitIs, NvramAssumption
<1> HIDE DEF q, p, n, l
<1>3. /\ e \in [0 .. Len(q) -> Nat]
      /\ e[i] = e[i - 1] + Bytes(q[i])
    BY <1>1, EndOfIs
<1>4. e[i] <= e[n]
    BY <1>1, EndOfGrows
<1> HIDE DEF e
<1>5. q[i] \in Tuple
    BY <1>1
<1>6. Bytes(q[i]) \in Nat /\ Width[q[i].value] \in Nat /\ Bytes(q[i]) >= Width[q[i].value] + 2
    BY <1>5, BytesNat, Zenon
<1>7. e[i] \in Nat /\ e[i - 1] \in Nat /\ e[n] \in Nat
    BY <1>1, <1>3, SMTT(30)
<1> DEFINE w == Width[q[i].value]
           s == Bytes(q[i])
           a == e[i]
           b == e[i - 1]
           c == e[n]
<1>8. w + 1 <= length
  <2>1. w \in Nat /\ s \in Nat /\ a \in Nat /\ b \in Nat /\ c \in Nat /\ a = b + s /\ s >= w + 2 /\ a <= c /\ c <= l
      BY <1>1, <1>3, <1>4, <1>6, <1>7, Zenon
  <2> HIDE DEF w, s, a, b, c
  <2> QED
      BY <1>2, <2>1
<1> HIDE DEF w
<1> QED
    BY <1>1, <1>8, Zenon DEF w, p

\* The table that _nvram_rehash() makes of an image.
LEMMA RehashIs ==
    ASSUME NEW img \in Image, NEW length \in Nat, length >= Hdr
    PROVE  LET p == Parsed(img, length)
               h == _nvram_rehash(img, length)
           IN  /\ h \in Tables
               /\ \A m \in Var : Latest(p, Len(p), m, nvram_get(h, m), None)
               /\ \A m \in Special : /\ nvram_get(h, m) # None
                                     /\ \/ nvram_get(h, m) = Fmt[img.hdr[m]]
                                        \/ \E i \in 1 .. Len(p) : p[i].name = m /\ nvram_get(h, m) = p[i].value
<1> DEFINE p == Parsed(img, length)
           f == Loaded(p, length)
           h == _nvram_rehash(img, length)
<1>1. img.tuples \in Seq(Tuple) /\ img.len \in Nat /\ img.hdr \in [Special -> Word]
    BY NvramAssumption DEF Image
<1>2. p \in Seq(Tuple) /\ \A i \in 1 .. Len(p) : Width[p[i].value] + 1 <= length
    BY <1>1, ParsedIs, ParsedFits, Zenon
<1>3. h = WithWords(f, img.hdr, length)
    BY Zenon DEF _nvram_rehash
<1> HIDE DEF p, h
<1>4. f \in Tables /\ \A m \in Name : Latest(p, Len(p), m, nvram_get(f, m), None)
    BY <1>2, LoadedIs, Zenon
<1> HIDE DEF f
<1>5. h \in Tables /\ \A m \in Name : nvram_get(h, m) =
           IF m \in Special /\ nvram_get(f, m) = None THEN Fmt[img.hdr[m]] ELSE nvram_get(f, m)
    BY <1>1, <1>3, <1>4, WithWordsIs, Zenon
<1>6. \A m \in Var : Latest(p, Len(p), m, nvram_get(h, m), None)
  <2>1. \A m \in Var : m \in Name /\ m \notin Special
      BY NvramAssumption, Zenon DEF Name
  <2> QED
      BY <1>4, <1>5, <2>1, Zenon
<1>7. ASSUME NEW m \in Special
      PROVE  /\ nvram_get(h, m) # None
             /\ \/ nvram_get(h, m) = Fmt[img.hdr[m]]
                \/ \E i \in 1 .. Len(p) : p[i].name = m /\ nvram_get(h, m) = p[i].value
  <2>1. m \in Name /\ Fmt[img.hdr[m]] # None
      BY <1>1, NvramAssumption DEF Name
  <2>2. CASE nvram_get(f, m) = None
      BY <1>5, <2>1, <2>2, Zenon
  <2>3. CASE nvram_get(f, m) # None
    <3>1. nvram_get(h, m) = nvram_get(f, m)
        BY <1>5, <2>1, <2>3, Zenon
    <3>2. Latest(p, Len(p), m, nvram_get(f, m), None)
        BY <1>4, <2>1, Zenon
    <3> QED
        BY <2>3, <3>1, <3>2, Zenon DEF Latest
  <2> QED
      BY <2>2, <2>3, Zenon
<1> QED
    BY <1>5, <1>6, <1>7, Zenon DEF p, h

LEMMA LengthIs ==
    ASSUME NEW img \in Image
    PROVE  Length(img) \in 0 .. PartSize /\ Length(img) % 4 = 0
<1>1. img.size \in 0 .. PartSize /\ PartSize \in Nat
    BY NvramAssumption, Zenon DEF Image
<1> DEFINE s == img.size
           k == s \div 4
<1>2. s \in Nat /\ s <= PartSize /\ Length(img) = k * 4
    BY <1>1 DEF Length
<1> HIDE DEF s
<1>3. k \in Nat /\ k * 4 <= s
    BY <1>2
<1> HIDE DEF k
<1>4. (k * 4) % 4 = 0
    BY <1>3
<1> QED
    BY <1>1, <1>2, <1>3, <1>4, SMTT(30)

\* The tuples of a name that count are those among the ones it finds.
LEMMA TuplesIs ==
    ASSUME NEW img \in Image, NEW v
    PROVE  LET p == Parsed(img, Length(img))
           IN  /\ Tuples(img, v) = {i \in 1 .. Len(p) : p[i].name = v}
               /\ \A i \in Tuples(img, v) : img.tuples[i] = p[i]
<1> DEFINE q == img.tuples
           p == Parsed(img, Length(img))
           lim == Limit(img, Length(img))
           e == EndOf(q)
<1>1. q \in Seq(Tuple) /\ Len(q) \in Nat /\ DOMAIN q = 1 .. Len(q)
  <2>1. q \in Seq(Tuple)
      BY Zenon DEF Image
  <2> QED
      BY <2>1
<1>2. lim \in Int
  <2>1. img.len \in 0 .. PartSize /\ Length(img) \in 0 .. PartSize
      BY LengthIs, Zenon DEF Image
  <2>2. lim \in {img.len, Length(img)}
      BY Zenon DEF Limit
  <2> QED
      BY <2>1, <2>2
<1>3. /\ Len(p) \in 0 .. Len(q) /\ \A i \in 1 .. Len(p) : p[i] = q[i]
      /\ Len(p) # 0 => e[Len(p)] <= lim
      /\ \A i \in 1 .. Len(q) : e[i] <= lim => i <= Len(p)
    BY <1>1, ParsedIs, Zenon
<1>4. e \in [0 .. Len(q) -> Nat] /\ \A j \in 0 .. Len(q) : \A i \in 0 .. j : e[i] <= e[j]
    BY <1>1, EndOfIs, EndOfGrows, Zenon
<1>5. Tuples(img, v) = {i \in DOMAIN q : q[i].name = v /\ e[i] <= lim}
    BY Zenon DEF Tuples
<1> DEFINE n == Len(q)
           m == Len(p)
<1>6. m \in Nat /\ n \in Nat /\ m <= n
    BY <1>1, <1>3
<1> HIDE DEF q, p, lim, e
<1>7. \A i \in 1 .. n : e[i] <= lim <=> i <= m
  <2> SUFFICES ASSUME NEW i \in 1 .. n, i <= m
               PROVE  e[i] <= lim
      BY <1>3, Zenon
  <2>1. i \in 0 .. m /\ m \in 0 .. n /\ m # 0 /\ i \in 0 .. n
      BY <1>6
  <2>2. e[i] <= e[m] /\ e[m] <= lim
      BY <1>3, <1>4, <2>1, Zenon
  <2>3. e[i] \in Nat /\ e[m] \in Nat
      BY <1>4, <2>1, Zenon
  <2> HIDE DEF m, n
  <2> QED
      BY <1>2, <2>2, <2>3
<1> HIDE DEF m, n
<1>8. \A i : i \in 1 .. m <=> i \in 1 .. n /\ i <= m
    BY <1>6
<1>9. Tuples(img, v) = {i \in 1 .. n : q[i].name = v /\ i <= m}
    BY <1>1, <1>5, <1>7, Zenon DEF n
<1>10. \A i \in 1 .. m : p[i] = q[i]
    BY <1>3, Zenon DEF m
<1>11. Tuples(img, v) = {i \in 1 .. m : p[i].name = v}
    BY <1>8, <1>9, <1>10, Zenon
<1>12. \A i \in Tuples(img, v) : q[i] = p[i]
    BY <1>10, <1>11, Zenon
<1> QED
    BY <1>11, <1>12, Zenon DEF p, q, m

\* The value an image gives a variable is the one that Latest describes.
LEMMA ViewIs ==
    ASSUME NEW img \in Image, NEW v \in Var, NEW u,
           Latest(Parsed(img, Length(img)), Len(Parsed(img, Length(img))), v, u, None)
    PROVE  View(img)[v] = u
<1> DEFINE p == Parsed(img, Length(img))
           At == Tuples(img, v)
<1>1. p \in Seq(Tuple)
  <2>1. img.tuples \in Seq(Tuple)
      BY Zenon DEF Image
  <2> QED
      BY <2>1, ParsedIs, Zenon
<1>2. View(img)[v] = IF At = {} THEN None ELSE p[LastOf(At)].value
  <2>1. View(img)[v] = IF At = {} THEN None ELSE img.tuples[LastOf(At)].value
      BY Zenon DEF View
  <2>2. CASE At = {}
      BY <2>1, <2>2, Zenon
  <2>3. CASE At # {}
    <3>1. Len(p) \in Nat /\ At \in SUBSET (0 .. Len(p))
      <4>1. At = {i \in 1 .. Len(p) : p[i].name = v}
          BY TuplesIs, Zenon
      <4> HIDE DEF At, p
      <4> QED
          BY <1>1, <4>1
    <3>2. PICK m \in At : \A y \in At : m >= y
        BY <2>3, <3>1, GreatestNatural, Zenon
    <3>3. LastOf(At) \in At
        BY <3>2, Zenon DEF LastOf
    <3>4. img.tuples[LastOf(At)] = p[LastOf(At)]
        BY <3>3, TuplesIs, Zenon
    <3> QED
        BY <2>1, <3>4, Zenon
  <2> QED
      BY <2>2, <2>3, Zenon
<1>0. At = {i \in 1 .. Len(p) : p[i].name = v}
    BY TuplesIs, Zenon
<1> HIDE DEF p
<1> HIDE DEF At
<1>3. Len(p) \in Nat /\ At = {i \in 1 .. Len(p) : p[i].name = v} /\ Latest(p, Len(p), v, u, None)
    BY <1>0, <1>1 DEF p
<1> DEFINE n == Len(p)
<1>4. n \in Nat /\ At = {i \in 1 .. n : p[i].name = v} /\ Latest(p, n, v, u, None)
    BY <1>3, Zenon
<1> HIDE DEF n
<1>5. u = IF At = {} THEN None ELSE p[LastOf(At)].value
    BY <1>4, LatestIs, SMTT(30)
<1> QED
    BY <1>2, <1>5, Zenon

LEMMA EndOfAppend ==
    ASSUME NEW q \in Seq(Tuple), NEW t \in Tuple
    PROVE  EndOf(Append(q, t))[Len(q) + 1] = EndOf(q)[Len(q)] + Bytes(t)
<1> DEFINE n == Len(q)
           r == Append(q, t)
           e == EndOf(q)
           f == EndOf(r)
<1>1. n \in Nat /\ r \in Seq(Tuple) /\ Len(r) = n + 1 /\ r[n + 1] = t /\ \A i \in 1 .. n : r[i] = q[i]
    OBVIOUS
<1>2. e[0] = Hdr /\ \A i \in 1 .. n : e[i] = e[i - 1] + Bytes(q[i])
    BY EndOfIs, Zenon
<1> HIDE DEF r, e
<1>3. f[0] = Hdr /\ \A i \in 1 .. n + 1 : f[i] = f[i - 1] + Bytes(r[i])
    BY <1>1, EndOfIs, Zenon
<1> HIDE DEF n, f
<1> DEFINE T == {i \in 0 .. n : f[i] = e[i]}
<1>4. 0 \in T
    BY <1>1, <1>2, <1>3
<1>5. ASSUME NEW i \in 1 .. n, i - 1 \in T
      PROVE  i \in T
  <2>1. f[i] = f[i - 1] + Bytes(r[i]) /\ e[i] = e[i - 1] + Bytes(q[i]) /\ r[i] = q[i] /\ f[i - 1] = e[i - 1]
      BY <1>1, <1>2, <1>3, <1>5
  <2>2. f[i] = e[i]
      BY <2>1, Zenon
  <2> QED
      BY <1>1, <2>2
<1> HIDE DEF T
<1>6. \A i \in 1 .. n : i - 1 \in T => i \in T
    BY <1>5, Zenon
<1>7. \A i \in 0 .. n : i \in T
    BY <1>1, <1>4, <1>6, Induction, Zenon
<1>8. f[n] = e[n]
    BY <1>1, <1>7 DEF T
<1>9. f[n + 1] = f[(n + 1) - 1] + Bytes(r[n + 1]) /\ (n + 1) - 1 = n
    BY <1>1, <1>3
<1>10. f[n + 1] = e[n] + Bytes(t)
    BY <1>1, <1>8, <1>9, Zenon
<1> QED
    BY <1>10, Zenon DEF n, r, e, f

-----------------------------------------------------------------------------
(* The loops of nvram_commit() *)

\* What has been written: tuples of S, up to ptr, not beyond the end.
Written(S, end) ==
    {o \in [ptr : Nat, tuples : Seq(S), full : BOOLEAN] :
        o.ptr <= end /\ o.ptr = EndOf(o.tuples)[Len(o.tuples)]}

LEMMA EmitTupleIs ==
    ASSUME NEW S \in SUBSET Tuple, NEW end \in Nat, NEW o \in Written(S, end), NEW t \in S
    PROVE  EmitTuple(o, t, end) \in Written(S, end)
<1> DEFINE q == o.tuples
           p == o.ptr
<1>1. p \in Nat /\ q \in Seq(S) /\ o.full \in BOOLEAN /\ p <= end /\ p = EndOf(q)[Len(q)]
    BY Zenon DEF Written
<1>2. CASE o.full \/ p + Bytes(t) > end
  <2>1. EmitTuple(o, t, end) = [ptr |-> p, tuples |-> q, full |-> TRUE]
      BY <1>2, Zenon DEF EmitTuple
  <2> QED
      BY <1>1, <2>1 DEF Written
<1>3. CASE ~(o.full \/ p + Bytes(t) > end)
  <2> DEFINE r == Append(q, t)
             d == p + Bytes(t)
  <2>1. EmitTuple(o, t, end) = [ptr |-> d, tuples |-> r, full |-> FALSE]
      BY <1>3, Zenon DEF EmitTuple
  <2>2. q \in Seq(Tuple) /\ t \in Tuple /\ Bytes(t) \in Nat
      BY <1>1, BytesNat
  <2>3. r \in Seq(S) /\ Len(r) = Len(q) + 1
      BY <1>1
  <2>4. EndOf(r)[Len(q) + 1] = EndOf(q)[Len(q)] + Bytes(t)
      BY <2>2, EndOfAppend, Zenon
  <2>5. d \in Nat /\ d <= end /\ d = EndOf(r)[Len(r)]
    <3>1. d \in Nat /\ d <= end
        BY <1>1, <1>3, <2>2
    <3> HIDE DEF r, q, p
    <3> QED
        BY <1>1, <2>3, <2>4, <3>1, Zenon
  <2> HIDE DEF r, d
  <2> QED
      BY <2>1, <2>3, <2>5, SMTT(30) DEF Written
<1> QED
    BY <1>2, <1>3, Zenon

\* The states of the loop over a chain.
LEMMA EmitChainBy ==
    ASSUME NEW S \in SUBSET Tuple, NEW end \in Nat, NEW out \in Written(S, end), NEW c \in Seq(S)
    PROVE  \E o \in [0 .. Len(c) -> Written(S, end)] :
              /\ o[0] = [ptr |-> out.ptr, tuples |-> out.tuples, full |-> FALSE]
              /\ \A i \in 1 .. Len(c) : o[i] = EmitTuple(o[i - 1], c[i], end)
              /\ EmitChain(out, c, end) = o[Len(c)]
<1> DEFINE n == Len(c)
           W == Written(S, end)
           first == [ptr |-> out.ptr, tuples |-> out.tuples, full |-> FALSE]
           G == [x \in W |-> [t \in S |-> EmitTuple(x, t, end)]]
           E(f) == [i \in 0 .. Len(c) |-> IF i = 0 THEN [ptr |-> out.ptr, tuples |-> out.tuples, full |-> FALSE]
                                          ELSE EmitTuple(f[i - 1], c[i], end)]
           o == CHOOSE g : g = E(g)
<1>f. first \in W
    BY Zenon DEF Written
<1> HIDE DEF W
<1>0. \A x \in W, t \in S : EmitTuple(x, t, end) \in W
    BY EmitTupleIs, Zenon DEF W
<1>1. G \in [W -> [S -> W]] /\ \A x \in W, t \in S : G[x][t] = EmitTuple(x, t, end)
    BY <1>0, Zenon
<1>2. n \in Nat /\ c \in [1 .. n -> S] /\ n = Len(c)
    OBVIOUS
<1> HIDE DEF G, n, first
<1>3. PICK f : Passes(f, W, G, first, n, c)
    BY <1>1, <1>2, <1>f, Iteration, Zenon
<1>4. f = E(f)
  <2>1. \A i \in 1 .. n : i - 1 \in 0 .. n
      BY <1>2
  <2>2. \A i \in 1 .. n : f[i] = EmitTuple(f[i - 1], c[i], end)
      BY <1>1, <1>2, <1>3, <2>1, Zenon DEF Passes
  <2>3. f \in [0 .. n -> W] /\ f[0] = first
      BY <1>3, Zenon DEF Passes
  <2>4. \A i \in 0 .. n : f[i] = IF i = 0 THEN first ELSE EmitTuple(f[i - 1], c[i], end)
      BY <1>2, <2>2, <2>3
  <2>5. f = [i \in 0 .. n |-> IF i = 0 THEN first ELSE EmitTuple(f[i - 1], c[i], end)]
      BY <2>3, <2>4, Zenon
  <2> QED
      BY <1>2, <2>5, Zenon DEF first
<1>5. EmitChain(out, c, end) = o[n]
    BY <1>2, Zenon DEF EmitChain
<1>6. o = E(o)
  <2> HIDE DEF E
  <2> QED
      BY <1>4, Zenon
<1> HIDE DEF o
<1>7. o[0] = first /\ \A i \in 1 .. n : o[i] = EmitTuple(o[i - 1], c[i], end)
  <2>1. E(o)[0] = first
      BY <1>2 DEF first
  <2>2. \A i \in 1 .. n : E(o)[i] = EmitTuple(o[i - 1], c[i], end)
      BY <1>2
  <2> HIDE DEF E
  <2> QED
      BY <1>6, <2>1, <2>2, ZenonT(60), Zenon
<1> DEFINE T == {i \in 0 .. n : o[i] \in W}
<1>8. \A i \in 0 .. n : i \in T
  <2>1. 0 \in T
      BY <1>2, <1>7, <1>f
  <2>2. \A i \in 1 .. n : i - 1 \in T => i \in T
      BY <1>0, <1>2, <1>7
  <2> HIDE DEF T
  <2> QED
      BY <1>2, <2>1, <2>2, Induction, Zenon
<1>9. o \in [0 .. n -> W]
  <2>1. o = [i \in 0 .. n |-> o[i]]
      BY <1>2, <1>6, Zenon
  <2> QED
      BY <1>8, <2>1, Zenon
<1> QED
    BY <1>2, <1>5, <1>7, <1>9, Zenon DEF first, W

\* The states of the loop over the chains.
LEMMA EmitAllBy ==
    ASSUME NEW S \in SUBSET Tuple, NEW end \in Nat, end >= Hdr, NEW h \in [1 .. Buckets -> Seq(S)]
    PROVE  \E o \in [0 .. Buckets -> Written(S, end)] :
              /\ o[0] = [ptr |-> Hdr, tuples |-> <<>>, full |-> FALSE]
              /\ \A b \in 1 .. Buckets : o[b] = EmitChain(o[b - 1], h[b], end)
              /\ EmitAll(h, end) = o[Buckets]
<1> DEFINE n == Buckets
           W == Written(S, end)
           C == Seq(S)
           first == [ptr |-> Hdr, tuples |-> <<>>, full |-> FALSE]
           G == [x \in W |-> [c \in C |-> EmitChain(x, c, end)]]
           E(f) == [b \in 0 .. Buckets |-> IF b = 0 THEN [ptr |-> Hdr, tuples |-> <<>>, full |-> FALSE]
                                           ELSE EmitChain(f[b - 1], h[b], end)]
           o == CHOOSE g : g = E(g)
<1>f. first \in W
  <2>1. <<>> \in Seq(Tuple) /\ <<>> \in Seq(S) /\ Len(<<>>) = 0 /\ Hdr \in Nat
      BY NvramAssumption
  <2>2. EndOf(<<>>)[0] = Hdr
      BY <2>1, EndOfIs, Zenon
  <2> QED
      BY <2>1, <2>2, Zenon DEF Written
<1>0. \A x \in W, c \in C : EmitChain(x, c, end) \in W
  <2> SUFFICES ASSUME NEW x \in W, NEW c \in C
               PROVE  EmitChain(x, c, end) \in W
      BY Zenon
  <2>1. PICK g \in [0 .. Len(c) -> W] : EmitChain(x, c, end) = g[Len(c)]
      BY EmitChainBy, Zenon
  <2>2. Len(c) \in 0 .. Len(c)
      OBVIOUS
  <2> QED
      BY <2>1, <2>2, Zenon
<1> HIDE DEF W, C
<1>1. G \in [W -> [C -> W]] /\ \A x \in W, c \in C : G[x][c] = EmitChain(x, c, end)
    BY <1>0, Zenon
<1>2. n \in Nat /\ h \in [1 .. n -> C] /\ n = Buckets
    BY NvramAssumption, Zenon DEF C
<1> HIDE DEF G, n, first
<1>3. PICK f : Passes(f, W, G, first, n, h)
    BY <1>1, <1>2, <1>f, Iteration, Zenon
<1>4. f = E(f)
  <2>1. \A i \in 1 .. n : i - 1 \in 0 .. n
      BY <1>2
  <2>2. \A i \in 1 .. n : f[i] = EmitChain(f[i - 1], h[i], end)
      BY <1>1, <1>2, <1>3, <2>1, Zenon DEF Passes
  <2>3. f \in [0 .. n -> W] /\ f[0] = first
      BY <1>3, Zenon DEF Passes
  <2>4. \A i \in 0 .. n : f[i] = IF i = 0 THEN first ELSE EmitChain(f[i - 1], h[i], end)
      BY <1>2, <2>2, <2>3
  <2>5. f = [i \in 0 .. n |-> IF i = 0 THEN first ELSE EmitChain(f[i - 1], h[i], end)]
      BY <2>3, <2>4, Zenon
  <2> QED
      BY <1>2, <2>5, Zenon DEF first
<1>5. EmitAll(h, end) = o[n]
    BY <1>2, Zenon DEF EmitAll
<1>6. o = E(o)
  <2> HIDE DEF E
  <2> QED
      BY <1>4, Zenon
<1> HIDE DEF o
<1>7. o[0] = first /\ \A i \in 1 .. n : o[i] = EmitChain(o[i - 1], h[i], end)
  <2>1. E(o)[0] = first
      BY <1>2 DEF first
  <2>2. \A i \in 1 .. n : E(o)[i] = EmitChain(o[i - 1], h[i], end)
      BY <1>2
  <2> HIDE DEF E
  <2> QED
      BY <1>6, <2>1, <2>2, ZenonT(60), Zenon
<1> DEFINE T == {i \in 0 .. n : o[i] \in W}
<1>8. \A i \in 0 .. n : i \in T
  <2>1. 0 \in T
      BY <1>2, <1>7, <1>f
  <2>2. \A i \in 1 .. n : i - 1 \in T => i \in T
      BY <1>0, <1>2, <1>7
  <2> HIDE DEF T
  <2> QED
      BY <1>2, <2>1, <2>2, Induction, Zenon
<1>9. o \in [0 .. n -> W]
  <2>1. o = [i \in 0 .. n |-> o[i]]
      BY <1>2, <1>6, Zenon
  <2> QED
      BY <1>8, <2>1, Zenon
<1> QED
    BY <1>2, <1>5, <1>7, <1>9, Zenon DEF first, W

\* The tuples of a table.
Held(h) == {t \in Tuple : nvram_get(h, t.name) = t.value}

LEMMA ChainsHeld ==
    ASSUME NEW h \in Tables
    PROVE  h \in [1 .. Buckets -> Seq(Held(h))]
<1> SUFFICES ASSUME NEW b \in 1 .. Buckets
             PROVE  h[b] \in Seq(Held(h))
    BY Zenon DEF Tables
<1> DEFINE c == h[b]
<1>1. Chain(c, b) /\ c \in Seq(Tuple)
    BY Zenon DEF Tables, Chain
<1>2. \A i \in 1 .. Len(c) : c[i] \in Held(h)
  <2> SUFFICES ASSUME NEW i \in 1 .. Len(c)
               PROVE  c[i] \in Held(h)
      BY Zenon
  <2>1. c[i] \in Tuple /\ Bucket[c[i].name] = b
      BY <1>1 DEF Chain
  <2>2. c[i].name \in Name
      BY <2>1, Zenon DEF Tuple
  <2> DEFINE m == c[i].name
  <2>3. h[Bucket[m]] = c /\ c[i].name = m /\ m \in Name
      BY <2>1, <2>2, Zenon
  <2> HIDE DEF m, c
  <2>4. nvram_get(h, m) = c[i].value
      BY <2>3, GetIs, Zenon
  <2> QED
      BY <2>1, <2>4, Zenon DEF Held, m
<1> HIDE DEF c
<1>3. c \in Seq(Held(h))
    BY <1>1, <1>2
<1> QED
    BY <1>3, Zenon DEF c

LEMMA EmitIs ==
    ASSUME NEW h \in Tables, NEW length \in Nat, length >= Hdr + 4
    PROVE  Emit(h, length) \in Written(Held(h), length - 2)
<1> DEFINE end == length - 2
           S == Held(h)
<1>1. end \in Nat /\ end >= Hdr /\ S \in SUBSET Tuple
    BY NvramAssumption DEF Held
<1>2. h \in [1 .. Buckets -> Seq(S)]
    BY ChainsHeld, Zenon
<1>3. Emit(h, length) = EmitAll(h, end)
    BY Zenon DEF Emit
<1> HIDE DEF S, end
<1>4. PICK o \in [0 .. Buckets -> Written(S, end)] : EmitAll(h, end) = o[Buckets]
    BY <1>1, <1>2, EmitAllBy, Zenon
<1>5. Buckets \in 0 .. Buckets
    BY NvramAssumption
<1> QED
    BY <1>3, <1>4, <1>5, Zenon DEF S, end

LEMMA NewLenIs ==
    ASSUME NEW ptr \in Nat, NEW length \in Nat, length % 4 = 0, ptr <= length - 2
    PROVE  NewLen(ptr) \in ptr .. length
<1> DEFINE k == (ptr + 5) \div 4
           m == length \div 4
<1>1. k \in Int /\ 4 * k <= ptr + 5 /\ ptr + 5 <= 4 * k + 3
    OBVIOUS
<1>2. m \in Int /\ length = 4 * m
    OBVIOUS
<1>3. NewLen(ptr) = k * 4
    BY DEF NewLen
<1> HIDE DEF k, m
<1> QED
    BY <1>1, <1>2, <1>3

\* An image is loaded completely if its last tuple ends before the limit.
LEMMA ParsedAll ==
    ASSUME NEW img, img.tuples \in Seq(Tuple), NEW length
    PROVE  /\ EndOf(img.tuples)[Len(img.tuples)] <= Limit(img, length) => Parsed(img, length) = img.tuples
           /\ Parsed(img, length) = img.tuples /\ img.tuples # <<>>
                  => EndOf(img.tuples)[Len(img.tuples)] <= Limit(img, length)
<1> DEFINE q == img.tuples
           p == Parsed(img, length)
           l == Limit(img, length)
<1>1. /\ p \in Seq(Tuple) /\ Len(p) \in 0 .. Len(q) /\ Len(q) \in Nat /\ q \in Seq(Tuple)
      /\ \A i \in 1 .. Len(p) : p[i] = q[i]
      /\ Len(p) # 0 => EndOf(q)[Len(p)] <= l
      /\ \A i \in 1 .. Len(q) : EndOf(q)[i] <= l => i <= Len(p)
    BY ParsedIs
<1> HIDE DEF q, p, l
<1>2. ASSUME EndOf(q)[Len(q)] <= l
      PROVE  p = q
  <2>1. Len(q) # 0 => Len(q) \in 1 .. Len(q)
      BY <1>1
  <2>2. Len(p) = Len(q)
      BY <1>1, <1>2, <2>1
  <2> QED
      BY <1>1, <2>2
<1>3. ASSUME p = q, q # <<>>
      PROVE  EndOf(q)[Len(q)] <= l
  <2>1. Len(q) # 0
      BY <1>1, <1>3
  <2> QED
      BY <1>1, <1>3, <2>1, Zenon
<1> QED
    BY <1>2, <1>3, Zenon DEF p, q, l

LEMMA GetType ==
    ASSUME NEW h \in Tables, NEW n \in Name
    PROVE  nvram_get(h, n) \in Val \cup {None}
<1> DEFINE c == h[Bucket[n]]
<1>1. Chain(c, Bucket[n])
    BY ChainOf, Zenon
<1> HIDE DEF c
<1>2. CASE \A i \in 1 .. Len(c) : c[i].name # n
    BY <1>2, GetIs, Zenon DEF c
<1>3. CASE \E i \in 1 .. Len(c) : c[i].name = n
  <2>1. PICK i \in 1 .. Len(c) : c[i].name = n
      BY <1>3, Zenon
  <2>2. c[i] \in Tuple
      BY <1>1, SMTT(30) DEF Chain
  <2>3. nvram_get(h, n) = c[i].value
      BY <2>1, GetIs, Zenon DEF c
  <2> QED
      BY <2>2, <2>3, Zenon DEF Tuple
<1> QED
    BY <1>2, <1>3, Zenon

LEMMA SdramWordsType ==
    ASSUME NEW h \in Tables
    PROVE  SdramWords(h) \in [Special -> Word]
<1>1. \A n \in Special : nvram_get(h, n) \in Val \cup {None}
    BY GetType, Zenon DEF Name
<1>2. \A n \in Special : nvram_get(h, n) # None => Num[nvram_get(h, n)] \in Word
    BY <1>1, NvramAssumption, Zenon
<1>3. DefaultWord \in Word
    BY NvramAssumption, Zenon
<1> QED
    BY <1>2, <1>3, Zenon DEF SdramWords

\* What nvram_commit() leaves in a mapping is an image of tuples of the table
\* that the loader reads completely, in this and in any longer mapping.
LEMMA RegeneratedIs ==
    ASSUME NEW h \in Tables, NEW old \in Image,
           NEW length \in Hdr + 4 .. PartSize, length % 4 = 0
    PROVE  LET new == Regenerated(h, length, old)
           IN  /\ new \in Image
               /\ new.size = old.size /\ new.body = "whole"
               /\ new.hdr = SdramWords(h)
               /\ new.tuples = Emit(h, length).tuples
               /\ new.tuples \in Seq(Held(h))
               /\ \A l \in length .. PartSize : Parsed(new, l) = new.tuples
<1> DEFINE new == Regenerated(h, length, old)
           out == Emit(h, length)
           q == out.tuples
           p == out.ptr
           L == NewLen(p)
<1>1. length \in Nat /\ length >= Hdr + 4 /\ length <= PartSize /\ Hdr \in Nat /\ PartSize \in Nat
    BY NvramAssumption
<1>2. out \in Written(Held(h), length - 2)
    BY <1>1, EmitIs, Zenon
<1>3. p \in Nat /\ q \in Seq(Held(h)) /\ p <= length - 2 /\ p = EndOf(q)[Len(q)]
    BY <1>2, Zenon DEF Written
<1>4. q \in Seq(Tuple)
    BY <1>3 DEF Held
<1>5. new = [size |-> old.size, len |-> L, hdr |-> SdramWords(h), tuples |-> q, body |-> "whole"]
    BY Zenon DEF Regenerated
<1> HIDE DEF new, out, q, p, L
<1>6. L \in p .. length
    BY <1>1, <1>3, NewLenIs, Zenon DEF L
<1>7. Hdr <= p
  <2>1. Len(q) \in Nat
      BY <1>4
  <2>2. 0 \in 0 .. Len(q) /\ Len(q) \in 0 .. Len(q)
      BY <2>1
  <2>3. EndOf(q)[0] <= EndOf(q)[Len(q)]
      BY <1>4, <2>2, EndOfGrows, Zenon
  <2> QED
      BY <1>3, <1>4, <2>3, EndOfIs, Zenon
<1>8. new.size = old.size /\ new.len = L /\ new.hdr = SdramWords(h) /\ new.tuples = q /\ new.body = "whole"
    BY <1>5, Zenon
<1>9. new \in Image
  <2>1. old.size \in 0 .. PartSize
      BY Zenon DEF Image
  <2>2. L \in 0 .. PartSize
      BY <1>1, <1>3, <1>6
  <2>3. SdramWords(h) \in [Special -> Word]
      BY SdramWordsType, Zenon
  <2> QED
      BY <1>4, <1>5, <2>1, <2>2, <2>3, Zenon DEF Image
<1>10. ASSUME NEW l \in length .. PartSize
       PROVE  Parsed(new, l) = new.tuples
  <2>1. Limit(new, l) = L
      BY <1>1, <1>3, <1>6, <1>7, <1>8, SMTT(30) DEF Limit
  <2>2. EndOf(new.tuples)[Len(new.tuples)] <= Limit(new, l)
      BY <1>1, <1>3, <1>6, <1>8, <2>1
  <2> QED
      BY <1>4, <1>8, <2>2, ParsedAll, Zenon
<1> QED
    BY <1>3, <1>8, <1>9, <1>10, Zenon DEF new, q, out

------------------------------------------------------------------------------
(* Room for every variable.                                                *)

\* No two tuples of q have a name in common.
OncePerName(q) == \A i, j \in 1 .. Len(q) : q[i].name = q[j].name => i = j

LEMMA NamesBound ==
    ASSUME IsFiniteSet(Name), NEW q \in Seq(Tuple), OncePerName(q)
    PROVE  Len(q) <= Cardinality(Name)
<1> DEFINE f == [i \in 1 .. Len(q) |-> q[i].name]
           S == 1 .. Len(q)
<1>1. Len(q) \in Nat /\ Cardinality(Name) \in Nat
    BY FS_CardinalityType
<1>2. IsFiniteSet(S) /\ Cardinality(S) = Len(q)
  <2> DEFINE n == Len(q)
             c == Cardinality(S)
  <2>1. n \in Int /\ 1 \in Int /\ n \in Nat /\ S = 1 .. n
      BY <1>1
  <2> HIDE DEF n
  <2>2. IsFiniteSet(1 .. n) /\ Cardinality(1 .. n) = IF 1 > n THEN 0 ELSE n - 1 + 1
      BY <2>1, FS_Interval, Zenon
  <2>3. IsFiniteSet(S) /\ c = IF 1 > n THEN 0 ELSE n - 1 + 1
      BY <2>1, <2>2, Zenon
  <2> HIDE DEF c, S
  <2>4. c = n
      BY <2>1, <2>3
  <2> QED
      BY <2>3, <2>4, Zenon DEF c, n
<1>3. f \in [S -> Name]
  <2>1. \A i \in 1 .. Len(q) : q[i] \in Tuple
      OBVIOUS
  <2>2. \A i \in 1 .. Len(q) : q[i].name \in Name
      BY <2>1, Zenon DEF Tuple
  <2> QED
      BY <2>2, Zenon
<1>4. \A i, j \in S : f[i] = f[j] => i = j
    BY Zenon DEF OncePerName
<1> HIDE DEF f, S
<1>5. ~(Cardinality(Name) < Cardinality(S))
    BY <1>2, <1>3, <1>4, FS_PigeonHole, SMTT(30)
<1> QED
    BY <1>1, <1>2, <1>5

LEMMA EndOfBound ==
    ASSUME NEW q \in Seq(Tuple), NEW B \in Nat, \A t \in Tuple : Bytes(t) <= B
    PROVE  EndOf(q)[Len(q)] <= Hdr + Len(q) * B
<1> DEFINE e == EndOf(q)
           n == Len(q)
           T == {i \in 0 .. n : e[i] <= Hdr + i * B}
<1>1. n \in Nat /\ \A i \in 1 .. n : q[i] \in Tuple
    OBVIOUS
<1>2. /\ e \in [0 .. n -> Nat] /\ e[0] = Hdr
      /\ \A i \in 1 .. n : e[i] = e[i - 1] + Bytes(q[i])
    BY EndOfIs, Zenon
<1> HIDE DEF e, n
<1>3. 0 \in T
    BY <1>1, <1>2, NvramAssumption, SMTT(30)
<1>4. \A i \in 1 .. n : i - 1 \in T => i \in T
  <2> SUFFICES ASSUME NEW i \in 1 .. n, i - 1 \in T
               PROVE  i \in T
      BY Zenon
  <2> DEFINE x == e[i - 1]
             y == Bytes(q[i])
             m == i - 1
             z == m * B
  <2>1. x \in Nat /\ y \in Nat /\ y <= B /\ m \in Nat /\ i = m + 1 /\ Hdr \in Nat
      BY <1>1, <1>2, BytesNat, NvramAssumption
  <2>z. z \in Nat
    <3> HIDE DEF m
    <3> QED
        BY <2>1
  <2>2. x <= Hdr + z
      BY Zenon
  <2>3. e[i] = x + y
      BY <1>2, Zenon
  <2>4. i * B = z + B
      BY <2>1
  <2> HIDE DEF x, y, m, z
  <2>5. e[i] <= Hdr + i * B
      BY <2>1, <2>2, <2>3, <2>4, <2>z, SMTT(30)
  <2> QED
      BY <1>1, <2>5
<1> HIDE DEF T
<1>5. \A i \in 0 .. n : i \in T
    BY <1>1, <1>3, <1>4, Induction, Zenon
<1> QED
    BY <1>1, <1>5 DEF T, e, n

LEMMA TimesGrows ==
    ASSUME NEW a \in Nat, NEW b \in Nat, a <= b, NEW c \in Nat
    PROVE  a * c <= b * c
<1>1. PICK d \in Nat : b = a + d
  <2>1. b - a \in Nat /\ b = a + (b - a)
      OBVIOUS
  <2> QED
      BY <2>1, Zenon
<1>2. b * c = a * c + d * c /\ a * c \in Nat /\ d * c \in Nat
    BY <1>1
<1> QED
    BY <1>2

\* Tuples of different names fit where there is room for all names.
LEMMA NamesFit ==
    ASSUME IsFiniteSet(Name), NEW q \in Seq(Tuple), OncePerName(q),
           NEW B \in Nat, \A t \in Tuple : Bytes(t) <= B
    PROVE  EndOf(q)[Len(q)] <= Hdr + Cardinality(Name) * B
<1> DEFINE c == Cardinality(Name)
           n == Len(q)
           e == EndOf(q)[Len(q)]
<1>1. c \in Nat /\ n \in Nat /\ n <= c
    BY NamesBound, FS_CardinalityType, SMTT(30)
<1>2. e \in Nat /\ e <= Hdr + n * B /\ Hdr \in Nat
  <2>1. Len(q) \in 0 .. Len(q)
      OBVIOUS
  <2> QED
      BY <2>1, EndOfBound, EndOfIs, NvramAssumption, Zenon
<1> HIDE DEF c, n, e
<1>3. n * B <= c * B /\ n * B \in Nat /\ c * B \in Nat
    BY <1>1, TimesGrows
<1>4. e <= Hdr + c * B
  <2> DEFINE x == n * B
             y == c * B
  <2>1. x <= y /\ x \in Nat /\ y \in Nat /\ e <= Hdr + x
      BY <1>2, <1>3, Zenon
  <2> HIDE DEF x, y
  <2>2. e <= Hdr + y
      BY <1>2, <2>1
  <2> QED
      BY <2>2, Zenon DEF y
<1> QED
    BY <1>4, Zenon DEF c, e

Emitted(q) == {q[j] : j \in 1 .. Len(q)}

\* The tuples of a table that come before number i + 1 of chain b.
Ahead(h, b, i) == {t \in Held(h) : Bucket[t.name] < b} \cup {h[b][k] : k \in 1 .. i}

\* What nvram_commit() has written when it is there, if nothing was left out.
AllSoFar(o, h, b, i) == ~o.full /\ OncePerName(o.tuples) /\ Emitted(o.tuples) = Ahead(h, b, i)

\* Every tuple has room before end.
RoomBefore(end) ==
    IsFiniteSet(Name) /\ \E B \in Nat : (\A t \in Tuple : Bytes(t) <= B) /\ Hdr + Cardinality(Name) * B <= end

LEMMA EmittedAppend ==
    ASSUME NEW q \in Seq(Tuple), NEW t \in Tuple
    PROVE  Emitted(Append(q, t)) = Emitted(q) \cup {t}
<1> DEFINE r == Append(q, t)
<1>1. Len(q) \in Nat /\ Len(r) = Len(q) + 1 /\ r[Len(q) + 1] = t /\ \A j \in 1 .. Len(q) : r[j] = q[j]
    OBVIOUS
<1> HIDE DEF r
<1>2. \A x : x \in Emitted(r) => x \in Emitted(q) \cup {t}
  <2> SUFFICES ASSUME NEW j \in 1 .. Len(r)
               PROVE  r[j] \in Emitted(q) \cup {t}
      BY Zenon DEF Emitted
  <2>1. j = Len(q) + 1 \/ j \in 1 .. Len(q)
      BY <1>1
  <2> QED
      BY <1>1, <2>1, Zenon DEF Emitted
<1>3. \A x : x \in Emitted(q) \cup {t} => x \in Emitted(r)
  <2>1. t \in Emitted(r)
    <3>1. Len(q) + 1 \in 1 .. Len(r)
        BY <1>1
    <3> QED
        BY <1>1, <3>1, Zenon DEF Emitted
  <2>2. ASSUME NEW j \in 1 .. Len(q)
        PROVE  q[j] \in Emitted(r)
    <3>1. j \in 1 .. Len(r)
        BY <1>1, SMTT(30)
    <3> QED
        BY <1>1, <3>1, Zenon DEF Emitted
  <2> QED
      BY <2>1, <2>2, Zenon DEF Emitted
<1> QED
    BY <1>2, <1>3, Zenon DEF r

LEMMA HeldAt ==
    ASSUME NEW h \in Tables, NEW t \in Held(h)
    PROVE  /\ Bucket[t.name] \in 1 .. Buckets
           /\ \E k \in 1 .. Len(h[Bucket[t.name]]) : h[Bucket[t.name]][k] = t
<1> DEFINE n == t.name
           c == h[Bucket[n]]
<1>1. t \in Tuple /\ n \in Name /\ t.value \in Val /\ nvram_get(h, n) = t.value
    BY Zenon DEF Held, Tuple
<1>2. Bucket[n] \in 1 .. Buckets /\ Chain(c, Bucket[n])
    BY <1>1, ChainOf, Zenon
<1>3. /\ (\A i \in 1 .. Len(c) : c[i].name # n) => nvram_get(h, n) = None
      /\ \A i \in 1 .. Len(c) : c[i].name = n => nvram_get(h, n) = c[i].value
    BY <1>1, GetIs, Zenon
<1>4. nvram_get(h, n) # None
    BY <1>1, NvramAssumption, Zenon
<1>5. t = [name |-> n, value |-> t.value]
    BY <1>1, Zenon DEF Tuple
<1> HIDE DEF n, c
<1>6. PICK k \in 1 .. Len(c) : c[k].name = n
    BY <1>3, <1>4, Zenon
<1>7. c[k] \in Tuple /\ c[k].value = t.value
  <2>1. c[k] \in Tuple
      BY <1>2, <1>6 DEF Chain
  <2>2. nvram_get(h, n) = c[k].value
      BY <1>3, <1>6, Zenon
  <2> QED
      BY <1>1, <2>1, <2>2, Zenon
<1>8. c[k] = [name |-> n, value |-> t.value]
    BY <1>6, <1>7, Zenon DEF Tuple
<1> QED
    BY <1>2, <1>5, <1>8, Zenon DEF n, c

LEMMA AheadStep ==
    ASSUME NEW h, NEW b, NEW i \in Nat, i # 0
    PROVE  Ahead(h, b, i) = Ahead(h, b, i - 1) \cup {h[b][i]}
<1>1. 1 .. i = (1 .. i - 1) \cup {i}
    OBVIOUS
<1> QED
    BY <1>1, Zenon DEF Ahead

LEMMA AheadNext ==
    ASSUME NEW h \in Tables, NEW b \in 1 .. Buckets
    PROVE  Ahead(h, b, Len(h[b])) = Ahead(h, b + 1, 0)
<1>0. Buckets \in Nat /\ b \in Nat
    BY NvramAssumption
<1>1. Chain(h[b], b) /\ h[b] \in Seq(Held(h)) /\ Len(h[b]) \in Nat
  <2>1. Chain(h[b], b) /\ Len(h[b]) \in Nat
      BY DEF Tables, Chain
  <2>2. h[b] \in Seq(Held(h))
      BY ChainsHeld, ZenonT(60), Zenon
  <2> QED
      BY <2>1, <2>2, Zenon
<1>2. Ahead(h, b + 1, 0) = {t \in Held(h) : Bucket[t.name] < b + 1}
    BY DEF Ahead
<1>3. ASSUME NEW k \in 1 .. Len(h[b])
      PROVE  h[b][k] \in Held(h) /\ Bucket[h[b][k].name] = b
    BY <1>1 DEF Chain
<1>4. ASSUME NEW t \in Held(h), Bucket[t.name] = b
      PROVE  \E k \in 1 .. Len(h[b]) : h[b][k] = t
    BY <1>4, HeldAt, Zenon
<1>5. ASSUME NEW t \in Held(h)
      PROVE  Bucket[t.name] < b + 1 <=> Bucket[t.name] < b \/ Bucket[t.name] = b
  <2>1. Bucket[t.name] \in Nat
      BY <1>0, HeldAt, SMTT(30)
  <2> QED
      BY <1>0, <2>1, SMTT(30)
<1>6. \A t : t \in Ahead(h, b, Len(h[b])) => t \in Ahead(h, b + 1, 0)
    BY <1>2, <1>3, <1>5, Zenon DEF Ahead
<1>7. \A t : t \in Ahead(h, b + 1, 0) => t \in Ahead(h, b, Len(h[b]))
    BY <1>2, <1>4, <1>5, Zenon DEF Ahead
<1> QED
    BY <1>6, <1>7, Zenon

LEMMA AheadEnds ==
    ASSUME NEW h \in Tables
    PROVE  Ahead(h, 1, 0) = {} /\ Ahead(h, Buckets + 1, 0) = Held(h)
<1>1. \A t \in Held(h) : Bucket[t.name] \in 1 .. Buckets
    BY HeldAt, Zenon
<1>2. \A t \in Held(h) : ~(Bucket[t.name] < 1) /\ Bucket[t.name] < Buckets + 1
    BY <1>1, NvramAssumption
<1>3. 1 .. 0 = {}
    BY SMTT(30)
<1> QED
    BY <1>2, <1>3, Zenon DEF Ahead

LEMMA AllSoFarStep ==
    ASSUME NEW h \in Tables, NEW b \in 1 .. Buckets, NEW i \in 1 .. Len(h[b]),
           NEW end \in Nat, RoomBefore(end),
           NEW o \in Written(Held(h), end), AllSoFar(o, h, b, i - 1)
    PROVE  AllSoFar(EmitTuple(o, h[b][i], end), h, b, i)
<1> DEFINE q == o.tuples
           p == o.ptr
           t == h[b][i]
           r == Append(q, t)
           d == p + Bytes(t)
<1>1. Chain(h[b], b)
    BY Zenon DEF Tables
<1>2. t \in Tuple /\ Bucket[t.name] = b /\ i \in Nat /\ i # 0 /\ \A k \in 1 .. i - 1 : h[b][k].name # t.name
    BY <1>1, SMTT(30) DEF Chain
<1>3. /\ p \in Nat /\ q \in Seq(Tuple) /\ p = EndOf(q)[Len(q)]
      /\ ~o.full /\ OncePerName(q) /\ Emitted(q) = Ahead(h, b, i - 1)
    BY SMTT(30) DEF Written, Held, AllSoFar
<1>4. Ahead(h, b, i) = Ahead(h, b, i - 1) \cup {t}
    BY <1>2, AheadStep, SMTT(30)
<1>5. Emitted(r) = Emitted(q) \cup {t}
    BY <1>2, <1>3, EmittedAppend, Zenon
<1>6. \A x \in Emitted(q) : x.name # t.name
  <2> SUFFICES ASSUME NEW x \in Ahead(h, b, i - 1)
               PROVE  x.name # t.name
      BY <1>3, Zenon
  <2>1. CASE x \in Held(h) /\ Bucket[x.name] < b
    <3>1. b \in Nat
        BY NvramAssumption, SMTT(30)
    <3> QED
        BY <1>2, <2>1, <3>1, SMTT(30)
  <2>2. CASE \E k \in 1 .. i - 1 : x = h[b][k]
      BY <1>2, <2>2, ZenonT(60), Zenon
  <2> QED
      BY <2>1, <2>2, Zenon DEF Ahead
<1> HIDE DEF q, p, t
<1>7. r \in Seq(Tuple) /\ Len(q) \in Nat /\ Len(r) = Len(q) + 1 /\ r[Len(q) + 1] = t
      /\ \A j \in 1 .. Len(q) : r[j] = q[j]
  <2>1. q \in Seq(Tuple) /\ t \in Tuple
      BY <1>2, <1>3, Zenon
  <2>2. r \in Seq(Tuple) /\ Len(q) \in Nat /\ Len(r) = Len(q) + 1
      BY <2>1
  <2> QED
      BY <2>1, <2>2, SMTT(30)
<1>8. OncePerName(r)
  <2> HIDE DEF r
  <2>1. \A j \in 1 .. Len(r) : j = Len(q) + 1 \/ j \in 1 .. Len(q)
      BY <1>7, SMTT(30)
  <2>2. \A j \in 1 .. Len(q) : r[j].name # t.name
      BY <1>6, <1>7, Zenon DEF Emitted
  <2>3. \A j, k \in 1 .. Len(q) : r[j].name = r[k].name => j = k
      BY <1>3, <1>7, Zenon DEF OncePerName
  <2> QED
      BY <1>7, <2>1, <2>2, <2>3, Zenon DEF OncePerName
<1>9. EndOf(r)[Len(r)] = d
    BY <1>2, <1>3, <1>7, EndOfAppend, Zenon
<1> HIDE DEF r
<1>10. d <= end
  <2>1. PICK B \in Nat : (\A s \in Tuple : Bytes(s) <= B) /\ Hdr + Cardinality(Name) * B <= end
      BY Zenon DEF RoomBefore
  <2>2. IsFiniteSet(Name)
      BY Zenon DEF RoomBefore
  <2> DEFINE m == Hdr + Cardinality(Name) * B
  <2>3. d <= m
      BY <1>7, <1>8, <1>9, <2>1, <2>2, NamesFit, Zenon
  <2>4. m \in Nat /\ m <= end
    <3> DEFINE c == Cardinality(Name)
    <3>1. c \in Nat
        BY <2>2, FS_CardinalityType, Zenon
    <3>2. m = Hdr + c * B /\ m <= end
        BY <2>1, Zenon
    <3> HIDE DEF m, c
    <3>3. c * B \in Nat
        BY <3>1, SMTT(30)
    <3> QED
        BY <3>2, <3>3, NvramAssumption
  <2>5. d \in Nat
      BY <1>2, <1>3, BytesNat, SMTT(30)
  <2> HIDE DEF m, d
  <2> QED
      BY <2>3, <2>4, <2>5
<1>11. ~(p + Bytes(t) > end)
  <2>1. p + Bytes(t) \in Nat
      BY <1>2, <1>3, BytesNat
  <2> QED
      BY <1>10, <2>1, SMTT(30)
<1>12. EmitTuple(o, t, end) = [ptr |-> d, tuples |-> r, full |-> FALSE]
    BY <1>3, <1>11, ZenonT(60), Zenon DEF EmitTuple, p, q, d, r
<1>13. ~EmitTuple(o, t, end).full /\ EmitTuple(o, t, end).tuples = r
  <2> HIDE DEF d
  <2> QED
      BY <1>12, SMTT(30)
<1> QED
    BY <1>3, <1>4, <1>5, <1>8, <1>13, ZenonT(60), Zenon DEF AllSoFar, t

LEMMA AllSoFarChain ==
    ASSUME NEW h \in Tables, NEW b \in 1 .. Buckets, NEW end \in Nat, RoomBefore(end),
           NEW out \in Written(Held(h), end), AllSoFar(out, h, b, 0)
    PROVE  AllSoFar(EmitChain(out, h[b], end), h, b + 1, 0)
<1> DEFINE c == h[b]
           n == Len(c)
           S == Held(h)
<1>1. c \in Seq(S) /\ S \in SUBSET Tuple
    BY ChainsHeld, Zenon DEF Held
<1> HIDE DEF c, S
<1>2. PICK o \in [0 .. Len(c) -> Written(S, end)] :
              /\ o[0] = [ptr |-> out.ptr, tuples |-> out.tuples, full |-> FALSE]
              /\ \A i \in 1 .. Len(c) : o[i] = EmitTuple(o[i - 1], c[i], end)
              /\ EmitChain(out, c, end) = o[Len(c)]
    BY <1>1, EmitChainBy, Zenon DEF S
<1> DEFINE T == {i \in 0 .. n : AllSoFar(o[i], h, b, i)}
<1>3. n \in Nat /\ n = Len(c)
    BY <1>1
<1> HIDE DEF n
<1>4. 0 \in T
  <2>1. ~o[0].full /\ o[0].tuples = out.tuples
      BY <1>2, SMTT(30)
  <2> QED
      BY <1>3, <2>1 DEF AllSoFar
<1>5. \A i \in 1 .. n : i - 1 \in T => i \in T
  <2> SUFFICES ASSUME NEW i \in 1 .. n, AllSoFar(o[i - 1], h, b, i - 1)
               PROVE  AllSoFar(o[i], h, b, i)
      OBVIOUS
  <2>1. i - 1 \in 0 .. n /\ i \in 1 .. Len(h[b])
      BY <1>3, SMTT(30) DEF c
  <2>2. o[i - 1] \in Written(Held(h), end)
      BY <1>2, <1>3, <2>1, Zenon DEF S
  <2>3. AllSoFar(EmitTuple(o[i - 1], h[b][i], end), h, b, i)
      BY <2>1, <2>2, AllSoFarStep, ZenonT(60), Zenon
  <2> QED
      BY <1>2, <1>3, <2>3, Zenon DEF c
<1> HIDE DEF T
<1>6. \A i \in 0 .. n : i \in T
    BY <1>3, <1>4, <1>5, Induction, ZenonT(60), Zenon
<1>7. AllSoFar(o[n], h, b, n)
    BY <1>3, <1>6 DEF T
<1>8. Ahead(h, b, n) = Ahead(h, b + 1, 0)
    BY <1>3, AheadNext, Zenon DEF c
<1> QED
    BY <1>2, <1>3, <1>7, <1>8, Zenon DEF AllSoFar, c

\* With room for every variable nvram_commit() writes the whole table, each of
\* its tuples once.
LEMMA EmitComplete ==
    ASSUME NEW h \in Tables, NEW length \in Nat, length >= Hdr + 4, RoomBefore(length - 2)
    PROVE  LET q == Emit(h, length).tuples
           IN  OncePerName(q) /\ Emitted(q) = Held(h)
<1> DEFINE end == length - 2
           S == Held(h)
           n == Buckets
<1>1. end \in Nat /\ end >= Hdr /\ S \in SUBSET Tuple /\ n \in Nat
    BY NvramAssumption DEF Held
<1>2. h \in [1 .. Buckets -> Seq(S)]
    BY ChainsHeld, Zenon
<1>3. Emit(h, length) = EmitAll(h, end) /\ RoomBefore(end)
    BY Zenon DEF Emit
<1> HIDE DEF S, end
<1>4. PICK o \in [0 .. Buckets -> Written(S, end)] :
              /\ o[0] = [ptr |-> Hdr, tuples |-> <<>>, full |-> FALSE]
              /\ \A b \in 1 .. Buckets : o[b] = EmitChain(o[b - 1], h[b], end)
              /\ EmitAll(h, end) = o[Buckets]
    BY <1>1, <1>2, EmitAllBy, ZenonT(60), Zenon
<1> DEFINE T == {b \in 0 .. n : AllSoFar(o[b], h, b + 1, 0)}
<1>5. 0 \in T
  <2>1. ~o[0].full /\ o[0].tuples = <<>>
      BY <1>4
  <2>2. OncePerName(<<>>) /\ Emitted(<<>>) = {}
      BY DEF OncePerName, Emitted
  <2>3. Ahead(h, 0 + 1, 0) = {}
      BY AheadEnds, SMTT(30)
  <2> QED
      BY <1>1, <2>1, <2>2, <2>3 DEF AllSoFar
<1>6. \A b \in 1 .. n : b - 1 \in T => b \in T
  <2> SUFFICES ASSUME NEW b \in 1 .. n, AllSoFar(o[b - 1], h, (b - 1) + 1, 0)
               PROVE  AllSoFar(o[b], h, b + 1, 0)
      OBVIOUS
  <2>1. b - 1 \in 0 .. n /\ (b - 1) + 1 = b
      BY <1>1, SMTT(30)
  <2>2. o[b - 1] \in Written(Held(h), end) /\ AllSoFar(o[b - 1], h, b, 0)
      BY <1>4, <2>1, Zenon DEF S
  <2>3. AllSoFar(EmitChain(o[b - 1], h[b], end), h, b + 1, 0)
      BY <1>1, <1>3, <2>2, AllSoFarChain, Zenon
  <2> QED
      BY <1>4, <2>3, Zenon
<1> HIDE DEF T
<1>7. \A b \in 0 .. n : b \in T
    BY <1>1, <1>5, <1>6, Induction, ZenonT(60), Zenon
<1>8. AllSoFar(o[n], h, n + 1, 0)
    BY <1>1, <1>7 DEF T
<1> QED
    BY <1>3, <1>4, <1>8, AheadEnds, Zenon DEF AllSoFar
=============================================================================
