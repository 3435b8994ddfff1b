------------------------------ MODULE Folding ------------------------------
(* What FoldLeft (SequencesExt) computes, for any step: a fold of nothing  *)
(* is its base, and a fold over one more element is one more step.  And    *)
(* induction over a set of naturals, by which it is proved.                *)
(***************************************************************************)
EXTENDS Naturals, Sequences, SequencesExt, WellFoundedInduction, TLAPS

CONSTANT Step(_, _)

FoldOf(base, seq) == FoldLeft(Step, base, seq)

-----------------------------------------------------------------------------
(* Induction                                                               *)

(* A set of naturals has a least element.                                  *)
LEMMA Least == ASSUME NEW T, T \subseteq Nat, T # {} PROVE \E n \in T : \A m \in T : n <= m
  <1>1. \E n \in T : \A m \in T : ~(<<m, n>> \in OpToRel(<, Nat))
    BY NatLessThanWellFounded, WFMin, Zenon
  <1>2. \A m, n \in T : ~(<<m, n>> \in OpToRel(<, Nat)) => n <= m
    BY DEF OpToRel
  <1> QED
    BY <1>1, <1>2

(* Induction up to a bound, over the set of the numbers of which it holds. *)
LEMMA UpTo ==
    ASSUME NEW k \in Nat, NEW T, 0 \in T, \A n \in Nat : n < k /\ n \in T => n + 1 \in T
    PROVE  \A n \in 0..k : n \in T
  <1> DEFINE F == {n \in 0..k : n \notin T}
  <1>1. SUFFICES ASSUME F # {} PROVE FALSE
    OBVIOUS
  <1>2. PICK n \in F : \A m \in F : n <= m
    <2>1. F \subseteq Nat
      OBVIOUS
    <2> HIDE DEF F
    <2> QED
      BY <1>1, <2>1, Least
  <1>3. n \in 0..k /\ n # 0 /\ n \notin T
    BY <1>2
  <1>4. n - 1 \in Nat /\ n - 1 < k /\ n - 1 \notin F /\ n - 1 \in 0..k
    BY <1>2, <1>3
  <1> QED
    BY <1>3, <1>4

-----------------------------------------------------------------------------
(* The iteration that MapThenFoldSet chooses                               *)

Iterates(it, base, seq, D) ==
    it = [s \in SUBSET D |-> IF s = {} THEN base ELSE Step(it[s \ {Max(s)}], seq[Max(s)])]

LEMMA MaxIs == ASSUME NEW s, NEW m \in s, s \subseteq Nat, \A x \in s : m >= x PROVE Max(s) = m
  <1>1. \A x \in s : (\A y \in s : x >= y) => x = m
    OBVIOUS
  <1>2. Max(s) \in s /\ \A y \in s : Max(s) >= y
    <2>1. \E x \in s : \A y \in s : x >= y
      OBVIOUS
    <2> QED
      BY <2>1, Zenon DEF Max
  <1> QED
    BY <1>1, <1>2

LEMMA IterationExists ==
    ASSUME NEW base, NEW seq, NEW k \in Nat
    PROVE  \E it : Iterates(it, base, seq, 1..k)
  <1> DEFINE T == {m \in Nat : \E it : Iterates(it, base, seq, 1..m)}
  <1>1. 0 \in T
    <2>1. 1..0 = {}
      OBVIOUS
    <2>2. Iterates([s \in SUBSET {} |-> base], base, seq, 1..0)
      BY <2>1 DEF Iterates
    <2> QED
      BY <2>2
  <1>2. ASSUME NEW n \in Nat, n \in T PROVE n + 1 \in T
    <2>1. PICK it : Iterates(it, base, seq, 1..n)
      BY <1>2
    <2> DEFINE w == [s \in SUBSET (1..(n + 1)) |->
                       IF n + 1 \in s THEN Step(it[s \ {n + 1}], seq[n + 1]) ELSE it[s]]
    <2>2. ASSUME NEW s \in SUBSET (1..(n + 1))
          PROVE  w[s] = IF s = {} THEN base ELSE Step(w[s \ {Max(s)}], seq[Max(s)])
      <3>1. CASE n + 1 \in s
        <4>1. Max(s) = n + 1
          <5>1. s \subseteq Nat /\ \A x \in s : n + 1 >= x
            OBVIOUS
          <5> QED
            BY <3>1, <5>1, MaxIs
        <4>2. s \ {n + 1} \in SUBSET (1..(n + 1)) /\ n + 1 \notin s \ {n + 1}
          OBVIOUS
        <4>3. w[s \ {n + 1}] = it[s \ {n + 1}]
          BY <4>2
        <4> QED
          BY <3>1, <4>1, <4>3
      <3>2. CASE n + 1 \notin s
        <4>1. s \in SUBSET (1..n)
          BY <3>2
        <4>2. w[s] = it[s]
          BY <3>2
        <4>3. it[s] = IF s = {} THEN base ELSE Step(it[s \ {Max(s)}], seq[Max(s)])
          BY <2>1, <4>1 DEF Iterates
        <4>4. s \ {Max(s)} \in SUBSET (1..(n + 1)) /\ n + 1 \notin s \ {Max(s)}
          BY <3>2
        <4>5. w[s \ {Max(s)}] = it[s \ {Max(s)}]
          BY <4>4
        <4> QED
          BY <4>2, <4>3, <4>5
      <3> QED
        BY <3>1, <3>2
    <2>3. w = [s \in SUBSET (1..(n + 1)) |-> w[s]]
      OBVIOUS
    <2>4. Iterates(w, base, seq, 1..(n + 1))
      <3> HIDE DEF w
      <3> QED
        BY <2>2, <2>3 DEF Iterates
    <2> QED
      BY <2>4
  <1>3. \A n \in 0..k : n \in T
    <2> HIDE DEF T
    <2> QED
      BY <1>1, <1>2, UpTo
  <1> QED
    BY <1>3

(* On the first elements an iteration takes its steps one by one.          *)
LEMMA Steps ==
    ASSUME NEW it, NEW base, NEW seq, NEW k \in Nat, Iterates(it, base, seq, 1..k), NEW n \in 0..k
    PROVE  it[1..n] = IF n = 0 THEN base ELSE Step(it[1..(n - 1)], seq[n])
  <1>1. 1..n \in SUBSET (1..k)
    OBVIOUS
  <1>2. CASE n = 0
    <2>1. 1..n = {} /\ {} \in SUBSET (1..k)
      BY <1>2
    <2>2. it[{}] = base
      BY <2>1 DEF Iterates
    <2> QED
      BY <1>2, <2>1, <2>2
  <1>3. CASE n # 0
    <2>1. n \in 1..n /\ 1..n \subseteq Nat /\ \A x \in 1..n : n >= x
      BY <1>3
    <2>2. Max(1..n) = n
      BY <2>1, MaxIs
    <2>3. (1..n) \ {n} = 1..(n - 1) /\ 1..n # {}
      BY <1>3
    <2>4. it[1..n] = Step(it[(1..n) \ {Max(1..n)}], seq[Max(1..n)])
      BY <1>1, <2>3 DEF Iterates
    <2> QED
      BY <1>3, <2>2, <2>3, <2>4
  <1> QED
    BY <1>2, <1>3

(* Two iterations agree as far as their sequences do.                      *)
LEMMA Agree ==
    ASSUME NEW it, NEW jt, NEW base, NEW seq, NEW zeq, NEW k \in Nat, NEW m \in Nat, NEW n \in Nat,
           n <= k, n <= m, Iterates(it, base, seq, 1..k), Iterates(jt, base, zeq, 1..m),
           \A i \in 1..n : seq[i] = zeq[i]
    PROVE  it[1..n] = jt[1..n]
  <1> DEFINE T == {i \in Nat : it[1..i] = jt[1..i]}
  <1>1. 0 \in T
    <2>1. it[1..0] = base /\ jt[1..0] = base
      BY Steps
    <2> QED
      BY <2>1
  <1>2. ASSUME NEW i \in Nat, i < n, i \in T PROVE i + 1 \in T
    <2>1. i + 1 \in 0..k /\ i + 1 \in 0..m /\ i + 1 \in 1..n /\ i + 1 # 0 /\ (i + 1) - 1 = i
      BY <1>2
    <2>2. it[1..(i + 1)] = Step(it[1..i], seq[i + 1])
      BY <2>1, Steps
    <2>3. jt[1..(i + 1)] = Step(jt[1..i], zeq[i + 1])
      BY <2>1, Steps
    <2>4. seq[i + 1] = zeq[i + 1] /\ it[1..i] = jt[1..i]
      BY <1>2, <2>1
    <2> QED
      BY <2>2, <2>3, <2>4
  <1>3. \A i \in 0..n : i \in T
    <2> HIDE DEF T
    <2> QED
      BY <1>1, <1>2, UpTo
  <1>4. n \in 0..n
    OBVIOUS
  <1> QED
    BY <1>3, <1>4

LEMMA FoldIs ==
    ASSUME NEW base, NEW seq, NEW k \in Nat, DOMAIN seq = 1..k
    PROVE  \E it : Iterates(it, base, seq, 1..k) /\ FoldOf(base, seq) = it[1..k]
  <1> DEFINE it == CHOOSE it : Iterates(it, base, seq, 1..k)
  <1>1. Iterates(it, base, seq, 1..k)
    BY IterationExists
  <1>2. FoldOf(base, seq) = it[1..k]
    BY DEF FoldOf, FoldLeft, MapThenFoldSet, Iterates
  <1> QED
    BY <1>1, <1>2

-----------------------------------------------------------------------------
(* What a fold returns                                                     *)

(* A fold of nothing is its base.                                          *)
THEOREM FoldNone == ASSUME NEW base PROVE FoldOf(base, <<>>) = base
  <1>1. DOMAIN <<>> = 1..0
    OBVIOUS
  <1>2. PICK it : Iterates(it, base, <<>>, 1..0) /\ FoldOf(base, <<>>) = it[1..0]
    BY <1>1, FoldIs
  <1>3. it[1..0] = base
    BY <1>2, Steps
  <1> QED
    BY <1>2, <1>3

(* The fold of two sequences that agree is the same.                       *)
THEOREM FoldSame ==
    ASSUME NEW base, NEW seq, NEW zeq, NEW k \in Nat, DOMAIN seq = 1..k, DOMAIN zeq = 1..k,
           \A i \in 1..k : seq[i] = zeq[i]
    PROVE  FoldOf(base, seq) = FoldOf(base, zeq)
  <1>1. PICK it : Iterates(it, base, seq, 1..k) /\ FoldOf(base, seq) = it[1..k]
    BY FoldIs
  <1>2. PICK jt : Iterates(jt, base, zeq, 1..k) /\ FoldOf(base, zeq) = jt[1..k]
    BY FoldIs
  <1>3. it[1..k] = jt[1..k]
    BY <1>1, <1>2, k <= k, Agree
  <1> QED
    BY <1>1, <1>2, <1>3

(* A fold over one more element is one more step.                          *)
THEOREM FoldMore ==
    ASSUME NEW base, NEW seq, NEW zeq, NEW k \in Nat, DOMAIN seq = 1..k, DOMAIN zeq = 1..(k + 1),
           \A i \in 1..k : zeq[i] = seq[i]
    PROVE  FoldOf(base, zeq) = Step(FoldOf(base, seq), zeq[k + 1])
  <1>1. PICK it : Iterates(it, base, seq, 1..k) /\ FoldOf(base, seq) = it[1..k]
    BY FoldIs
  <1>2. PICK jt : Iterates(jt, base, zeq, 1..(k + 1)) /\ FoldOf(base, zeq) = jt[1..(k + 1)]
    BY FoldIs
  <1>3. k + 1 \in 0..(k + 1) /\ k + 1 # 0 /\ (k + 1) - 1 = k /\ k <= k + 1 /\ k + 1 \in Nat
    OBVIOUS
  <1>4. jt[1..(k + 1)] = Step(jt[1..k], zeq[k + 1])
    BY <1>2, <1>3, Steps
  <1>5. it[1..k] = jt[1..k]
    BY <1>1, <1>2, <1>3, Agree
  <1> QED
    BY <1>1, <1>2, <1>4, <1>5

(* A fold over one sequence after another goes on from where it was.       *)
THEOREM FoldJoin ==
    ASSUME NEW base, NEW seq, NEW teq, NEW zeq, NEW k \in Nat, NEW m \in Nat,
           DOMAIN seq = 1..k, DOMAIN teq = 1..m, DOMAIN zeq = 1..(k + m),
           \A i \in 1..k : zeq[i] = seq[i], \A i \in 1..m : zeq[k + i] = teq[i]
    PROVE  FoldOf(base, zeq) = FoldOf(FoldOf(base, seq), teq)
  <1> DEFINE z(n) == [i \in 1..(k + n) |-> zeq[i]]
             t(n) == [i \in 1..n |-> teq[i]]
             T == {n \in Nat : FoldOf(base, z(n)) = FoldOf(FoldOf(base, seq), t(n))}
  <1>1. 0 \in T
    <2>1. FoldOf(base, z(0)) = FoldOf(base, seq)
      <3>1. DOMAIN z(0) = 1..k /\ \A i \in 1..k : z(0)[i] = seq[i]
        OBVIOUS
      <3> HIDE DEF z
      <3> QED
        BY <3>1, FoldSame
    <2>2. t(0) = <<>>
      OBVIOUS
    <2>3. FoldOf(FoldOf(base, seq), t(0)) = FoldOf(base, seq)
      BY <2>2, FoldNone
    <2> QED
      BY <2>1, <2>3
  <1>2. ASSUME NEW n \in Nat, n < m, n \in T PROVE n + 1 \in T
    <2>1. FoldOf(base, z(n + 1)) = Step(FoldOf(base, z(n)), zeq[(k + n) + 1])
      <3>1. /\ k + n \in Nat /\ DOMAIN z(n) = 1..(k + n) /\ DOMAIN z(n + 1) = 1..((k + n) + 1)
            /\ \A i \in 1..(k + n) : z(n + 1)[i] = z(n)[i]
            /\ z(n + 1)[(k + n) + 1] = zeq[(k + n) + 1]
        OBVIOUS
      <3> HIDE DEF z
      <3> QED
        BY <3>1, FoldMore, SMTT(30)
    <2>2. FoldOf(FoldOf(base, seq), t(n + 1)) = Step(FoldOf(FoldOf(base, seq), t(n)), teq[n + 1])
      <3>1. /\ DOMAIN t(n) = 1..n /\ DOMAIN t(n + 1) = 1..(n + 1)
            /\ \A i \in 1..n : t(n + 1)[i] = t(n)[i]
            /\ t(n + 1)[n + 1] = teq[n + 1]
        OBVIOUS
      <3>2. PICK b : b = FoldOf(base, seq)
        OBVIOUS
      <3> HIDE DEF t
      <3>3. FoldOf(b, t(n + 1)) = Step(FoldOf(b, t(n)), t(n + 1)[n + 1])
        BY <3>1, FoldMore
      <3> QED
        BY <3>1, <3>2, <3>3
    <2>3. zeq[(k + n) + 1] = teq[n + 1]
      <3>1. n + 1 \in 1..m /\ (k + n) + 1 = k + (n + 1)
        BY <1>2
      <3> QED
        BY <3>1
    <2>4. FoldOf(base, z(n)) = FoldOf(FoldOf(base, seq), t(n))
      BY <1>2
    <2> QED
      <3> HIDE DEF z, t
      <3> QED
        BY <2>1, <2>2, <2>3, <2>4
  <1>3. m \in T
    <2>1. m \in 0..m
      OBVIOUS
    <2> HIDE DEF T
    <2> QED
      BY <1>1, <1>2, <2>1, UpTo
  <1>4. FoldOf(base, z(m)) = FoldOf(base, zeq)
    <2>1. DOMAIN z(m) = 1..(k + m) /\ \A i \in 1..(k + m) : z(m)[i] = zeq[i]
      OBVIOUS
    <2> HIDE DEF z
    <2> QED
      BY <2>1, FoldSame
  <1>5. FoldOf(FoldOf(base, seq), t(m)) = FoldOf(FoldOf(base, seq), teq)
    <2>1. DOMAIN t(m) = 1..m /\ \A i \in 1..m : t(m)[i] = teq[i]
      OBVIOUS
    <2>2. PICK b : b = FoldOf(base, seq)
      OBVIOUS
    <2> HIDE DEF t
    <2>3. FoldOf(b, t(m)) = FoldOf(b, teq)
      BY <2>1, FoldSame
    <2> QED
      BY <2>2, <2>3
  <1>6. FoldOf(base, z(m)) = FoldOf(FoldOf(base, seq), t(m))
    BY <1>3
  <1> QED
    <2> HIDE DEF z, t
    <2> QED
      BY <1>4, <1>5, <1>6

(* Step by step, over the elements of a sequence.                          *)
Trail(u, base, seq, k) ==
    /\ u[0] = base /\ u[k] = FoldOf(base, seq)
    /\ \A n \in 1..k : u[n] = Step(u[n - 1], seq[n])

THEOREM FoldSteps ==
    ASSUME NEW base, NEW seq, NEW k \in Nat, DOMAIN seq = 1..k
    PROVE  \E u : Trail(u, base, seq, k)
  <1>1. PICK it : Iterates(it, base, seq, 1..k) /\ FoldOf(base, seq) = it[1..k]
    BY FoldIs
  <1> DEFINE u == [n \in 0..k |-> it[1..n]]
  <1>2. \A n \in 0..k : u[n] = it[1..n]
    OBVIOUS
  <1>3. \A n \in 0..k : it[1..n] = IF n = 0 THEN base ELSE Step(it[1..(n - 1)], seq[n])
    BY <1>1, Steps
  <1>4. 0 \in 0..k /\ k \in 0..k /\ \A n \in 1..k : n \in 0..k /\ n - 1 \in 0..k /\ n # 0
    OBVIOUS
  <1> HIDE DEF u
  <1>5. u[0] = base /\ u[k] = FoldOf(base, seq)
    BY <1>1, <1>2, <1>3, <1>4
  <1>6. \A n \in 1..k : u[n] = Step(u[n - 1], seq[n])
    BY <1>2, <1>3, <1>4
  <1> QED
    BY <1>5, <1>6 DEF Trail

-----------------------------------------------------------------------------
(* Branches.  Each entry names the one it follows; what holds at an entry  *)
(* is a step from what holds there.                                        *)

Tree(es, k) == k \in Nat /\ \A e \in 1..k : es[e].parent \in 0..(e - 1)

Climbs(f, base, es, k) ==
    f = [e \in 0..k |-> IF e = 0 THEN base ELSE Step(f[es[e].parent], <<e, es[e]>>)]

LEMMA ClimbExists ==
    ASSUME NEW base, NEW es, NEW k, Tree(es, k)
    PROVE  \E f : Climbs(f, base, es, k)
  <1> DEFINE T == {m \in Nat : m <= k => \E f : Climbs(f, base, es, m)}
  <1>0. k \in Nat
    BY DEF Tree
  <1>1. 0 \in T
    <2>1. Climbs([e \in 0..0 |-> base], base, es, 0)
      BY DEF Climbs
    <2> QED
      BY <2>1
  <1>2. ASSUME NEW n \in Nat, n < k, n \in T PROVE n + 1 \in T
    <2>1. PICK f : Climbs(f, base, es, n)
      BY <1>0, <1>2
    <2>2. n + 1 \in 1..k /\ es[n + 1].parent \in 0..n
      BY <1>0, <1>2 DEF Tree
    <2> DEFINE w == [e \in 0..(n + 1) |->
                       IF e = n + 1 THEN Step(f[es[n + 1].parent], <<n + 1, es[n + 1]>>) ELSE f[e]]
    <2>3. \A e \in 0..n : e # n + 1 /\ e \in 0..(n + 1) /\ w[e] = f[e]
      OBVIOUS
    <2>4. w[n + 1] = Step(f[es[n + 1].parent], <<n + 1, es[n + 1]>>)
      OBVIOUS
    <2>5. ASSUME NEW e \in 0..(n + 1)
          PROVE  w[e] = IF e = 0 THEN base ELSE Step(w[es[e].parent], <<e, es[e]>>)
      <3> HIDE DEF w
      <3>1. CASE e = n + 1
        <4>1. w[es[n + 1].parent] = f[es[n + 1].parent]
          BY <2>2, <2>3
        <4> QED
          BY <3>1, <2>4, <4>1
      <3>2. CASE e # n + 1
        <4>1. e \in 0..n
          BY <3>2
        <4>2. f[e] = IF e = 0 THEN base ELSE Step(f[es[e].parent], <<e, es[e]>>)
          BY <2>1, <4>1 DEF Climbs
        <4>3. e # 0 => es[e].parent \in 0..n
          BY <1>0, <1>2, <4>1 DEF Tree
        <4> QED
          BY <2>3, <4>1, <4>2, <4>3
      <3> QED
        BY <3>1, <3>2
    <2>6. w = [e \in 0..(n + 1) |-> w[e]]
      OBVIOUS
    <2>7. Climbs(w, base, es, n + 1)
      <3> HIDE DEF w
      <3> QED
        BY <2>5, <2>6 DEF Climbs
    <2> QED
      BY <2>7
  <1>3. \A n \in 0..k : n \in T
    <2> HIDE DEF T
    <2> QED
      BY <1>0, <1>1, <1>2, UpTo
  <1> QED
    BY <1>0, <1>3

(* A climb stays what it was when entries are added.                       *)
LEMMA ClimbSame ==
    ASSUME NEW base, NEW es, NEW zs, NEW k, NEW m, Tree(es, k), Tree(zs, m), k <= m,
           \A e \in 1..k : zs[e] = es[e],
           NEW f, NEW g, Climbs(f, base, es, k), Climbs(g, base, zs, m)
    PROVE  \A e \in 0..k : f[e] = g[e]
  <1> DEFINE T == {j \in Nat : \A e \in 0..j : f[e] = g[e]}
  <1>0. k \in Nat /\ m \in Nat
    BY DEF Tree
  <1>1. 0 \in T
    <2>1. f[0] = base /\ g[0] = base
      BY <1>0 DEF Climbs
    <2> QED
      BY <2>1
  <1>2. ASSUME NEW j \in Nat, j < k, j \in T PROVE j + 1 \in T
    <2>1. j + 1 \in 0..k /\ j + 1 \in 0..m /\ j + 1 # 0 /\ j + 1 \in 1..k
      BY <1>0, <1>2
    <2>2. f[j + 1] = Step(f[es[j + 1].parent], <<j + 1, es[j + 1]>>)
      BY <2>1 DEF Climbs
    <2>3. g[j + 1] = Step(g[zs[j + 1].parent], <<j + 1, zs[j + 1]>>)
      BY <2>1 DEF Climbs
    <2>4. es[j + 1].parent \in 0..j
      BY <2>1 DEF Tree
    <2>5. f[j + 1] = g[j + 1]
      BY <1>2, <2>1, <2>2, <2>3, <2>4
    <2> QED
      BY <1>2, <2>5
  <1>3. \A i \in 0..k : i \in T
    <2> HIDE DEF T
    <2> QED
      BY <1>0, <1>1, <1>2, UpTo
  <1> QED
    BY <1>0, <1>3

(* What a climb finds at an entry.                                         *)
THEOREM ClimbAt ==
    ASSUME NEW base, NEW es, NEW k, Tree(es, k), NEW f, Climbs(f, base, es, k)
    PROVE  /\ f[0] = base
           /\ \A e \in 1..k : f[e] = Step(f[es[e].parent], <<e, es[e]>>)
  <1>1. 0 \in 0..k /\ \A e \in 1..k : e \in 0..k /\ e # 0
    BY DEF Tree
  <1> QED
    BY <1>1 DEF Climbs
=============================================================================
