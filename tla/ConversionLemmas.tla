-------------------------- MODULE ConversionLemmas --------------------------
(***************************************************************************)
(* Facts about the operators of modules MatchUnion and Conversion that the *)
(* proofs about the conversion need: induction and recursion, sequences,   *)
(* paths, what is where in an object of an adapted type, and what the      *)
(* operations on objects leave alone.                                      *)
(***************************************************************************)
EXTENDS Conversion, FiniteSetTheorems, FunctionTheorems, SequenceTheorems,
        WellFoundedInduction, TLAPS

-----------------------------------------------------------------------------
(* Induction and recursion.  The provers do not instantiate the induction  *)
(* theorems of the library, which are about operators; these are about     *)
(* sets and functions.                                                     *)

(* Induction over the natural numbers, for a set of them.                  *)
LEMMA SetInduction ==
  ASSUME NEW P, P \subseteq Nat, 0 \in P, \A n \in P : n + 1 \in P
  PROVE  P = Nat
<1> DEFINE T == Nat \ P
<1> SUFFICES ASSUME T # {} PROVE FALSE
  OBVIOUS
<1>1. PICK x \in T : \A y \in T : <<y, x>> \notin OpToRel(<, Nat)
  <2> HIDE DEF T
  <2>1. T \subseteq Nat
    BY DEF T
  <2> QED
    BY <2>1, NatLessThanWellFounded, WFMin
<1>2. x - 1 \in Nat /\ (x - 1) + 1 = x
  OBVIOUS
<1>3. x - 1 \notin T
  <2>1. <<x - 1, x>> \in OpToRel(<, Nat)
    BY <1>2 DEF OpToRel
  <2> QED
    BY <1>1, <2>1
<1> QED
  BY <1>2, <1>3

(* The n first values of the iteration of step from x.                     *)
Iterates(step, x, n, g) ==
  /\ g[0] = x
  /\ \A i \in 0..n - 1 : g[i + 1] = step[g[i]]

LEMMA IteratesAgree ==
  ASSUME NEW step, NEW x, NEW m \in Nat, NEW n \in Nat, NEW g, NEW h,
         Iterates(step, x, m, g), Iterates(step, x, n, h),
         NEW i \in Nat, i <= m, i <= n
  PROVE  g[i] = h[i]
<1> DEFINE P == {k \in Nat : k <= m /\ k <= n => g[k] = h[k]}
<1>1. 0 \in P
  BY DEF Iterates
<1>2. ASSUME NEW k \in P
      PROVE  k + 1 \in P
  <2> SUFFICES ASSUME k + 1 <= m, k + 1 <= n PROVE g[k + 1] = h[k + 1]
    OBVIOUS
  <2>1. k \in 0..m - 1 /\ k \in 0..n - 1 /\ g[k] = h[k]
    OBVIOUS
  <2> QED
    BY <2>1 DEF Iterates
<1>3. P = Nat
  <2> HIDE DEF P
  <2>1. P \subseteq Nat
    BY DEF P
  <2> QED
    BY <1>1, <1>2, <2>1, SetInduction
<1> QED
  BY <1>3

Iterated(F, S, step, x) ==
  /\ F \in [Nat -> S]
  /\ F[0] = x
  /\ \A n \in Nat : F[n + 1] = step[F[n]]

LEMMA Iteration ==
  ASSUME NEW S, NEW step \in [S -> S], NEW x \in S
  PROVE  \E F : Iterated(F, S, step, x)
<1> DEFINE A(n) == {g \in [0..n -> S] : Iterates(step, x, n, g)}
           P == {n \in Nat : A(n) # {}}
<1>1. 0 \in P
  <2>1. [i \in 0..0 |-> x] \in A(0)
    BY DEF Iterates
  <2> QED
    BY <2>1
<1>2. ASSUME NEW n \in P
      PROVE  n + 1 \in P
  <2>1. PICK g \in [0..n -> S] : Iterates(step, x, n, g)
    OBVIOUS
  <2> DEFINE h == [i \in 0..n + 1 |-> IF i = n + 1 THEN step[g[n]] ELSE g[i]]
  <2>2. n \in Nat
    OBVIOUS
  <2>3. h \in [0..n + 1 -> S]
    BY <2>2
  <2>4. h[0] = x
    BY <2>1, <2>2 DEF Iterates
  <2>5. ASSUME NEW i \in 0..n
        PROVE  h[i + 1] = step[h[i]]
    <3>1. CASE i = n
      BY <2>2, <3>1
    <3>2. CASE i # n
      <4>1. i \in 0..n - 1 /\ i + 1 \in 0..n
        BY <2>2, <3>2
      <4>2. h[i] = g[i] /\ h[i + 1] = g[i + 1]
        BY <2>2, <4>1
      <4> QED
        BY <2>1, <4>1, <4>2 DEF Iterates
    <3> QED
      BY <3>1, <3>2
  <2>6. (n + 1) - 1 = n
    BY <2>2
  <2> HIDE DEF h
  <2>7. h \in A(n + 1)
    BY <2>3, <2>4, <2>5, <2>6 DEF Iterates
  <2> QED
    BY <2>2, <2>7
<1>3. P = Nat
  <2> HIDE DEF P
  <2>1. P \subseteq Nat
    BY DEF P
  <2> QED
    BY <1>1, <1>2, <2>1, SetInduction
<1> DEFINE G(n) == CHOOSE g \in A(n) : TRUE
           F == [n \in Nat |-> G(n)[n]]
<1>4. ASSUME NEW n \in Nat
      PROVE  G(n) \in [0..n -> S] /\ Iterates(step, x, n, G(n))
  <2>1. A(n) # {}
    BY <1>3
  <2>2. G(n) \in A(n)
    <3> HIDE DEF A
    <3> QED
      BY <2>1
  <2> HIDE DEF G
  <2> QED
    BY <2>2
<1> HIDE DEF G
<1>5. F \in [Nat -> S]
  <2>1. \A n \in Nat : G(n)[n] \in S
    BY <1>4
  <2> QED
    BY <2>1
<1>6. F[0] = x
  BY <1>4 DEF Iterates
<1>7. ASSUME NEW n \in Nat
      PROVE  F[n + 1] = step[F[n]]
  <2>1. n + 1 \in Nat /\ n \in 0..(n + 1) - 1 /\ n <= n + 1 /\ n <= n
    OBVIOUS
  <2>2. Iterates(step, x, n + 1, G(n + 1)) /\ Iterates(step, x, n, G(n))
    BY <1>4, <2>1
  <2>3. G(n + 1)[n + 1] = step[G(n + 1)[n]]
    BY <2>1, <2>2 DEF Iterates
  <2>4. G(n + 1)[n] = G(n)[n]
    BY <2>1, <2>2, IteratesAgree
  <2> QED
    BY <2>1, <2>3, <2>4
<1> HIDE DEF F
<1> QED
  BY <1>5, <1>6, <1>7 DEF Iterated

IsFixpoint(g, D, N, V) == g \in [N -> V] /\ D[g] = g

(* A recursive definition D of a function on N is well founded if what it  *)
(* makes of n depends on the values for lower ranks: there is such a       *)
(* function.                                                               *)
LEMMA RankedRecursion ==
  ASSUME NEW N, NEW V, NEW rank \in [N -> Nat], NEW f \in [N -> V],
         NEW D \in [[N -> V] -> [N -> V]],
         \A g, h \in [N -> V], n \in N :
           (\A m \in N : rank[m] < rank[n] => g[m] = h[m])
             => D[g][n] = D[h][n]
  PROVE  \E g : IsFixpoint(g, D, N, V)
<1>1. PICK F \in [Nat -> [N -> V]] :
        F[0] = f /\ \A k \in Nat : F[k + 1] = D[F[k]]
  <2>1. PICK E : Iterated(E, [N -> V], D, f)
    BY Iteration
  <2> QED
    BY <2>1 DEF Iterated
<1> DEFINE P == {k \in Nat : \A n \in N : rank[n] < k => F[k + 1][n] = F[k][n]}
<1>2. 0 \in P
  OBVIOUS
<1>3. ASSUME NEW k \in P
      PROVE  k + 1 \in P
  <2> SUFFICES ASSUME NEW n \in N, rank[n] < k + 1
               PROVE  F[(k + 1) + 1][n] = F[k + 1][n]
    OBVIOUS
  <2>1. k \in Nat /\ k + 1 \in Nat
    OBVIOUS
  <2>2. F[k] \in [N -> V] /\ F[k + 1] \in [N -> V]
    BY <2>1
  <2>3. ASSUME NEW m \in N, rank[m] < rank[n]
        PROVE  F[k + 1][m] = F[k][m]
    <3>1. rank[m] \in Nat /\ rank[n] \in Nat
      OBVIOUS
    <3>2. rank[m] < k
      BY <2>1, <2>3, <3>1
    <3> QED
      BY <3>2
  <2>4. D[F[k + 1]][n] = D[F[k]][n]
    BY <2>2, <2>3
  <2> QED
    BY <1>1, <2>1, <2>4
<1>4. P = Nat
  <2> HIDE DEF P
  <2>1. P \subseteq Nat
    BY DEF P
  <2> QED
    BY <1>2, <1>3, <2>1, SetInduction
<1> DEFINE g == [n \in N |-> F[rank[n] + 1][n]]
<1>5. g \in [N -> V]
  <2>1. ASSUME NEW n \in N
        PROVE  F[rank[n] + 1][n] \in V
    <3>1. rank[n] + 1 \in Nat
      OBVIOUS
    <3> QED
      BY <3>1
  <2> QED
    BY <2>1
<1>6. ASSUME NEW m \in N, NEW d \in Nat
      PROVE  F[(rank[m] + 1) + d][m] = g[m]
  <2> DEFINE r == rank[m] + 1
             Q == {k \in Nat : F[r + k][m] = g[m]}
  <2>1. r \in Nat
    OBVIOUS
  <2>2. 0 \in Q
    BY <2>1
  <2>3. ASSUME NEW k \in Q
        PROVE  k + 1 \in Q
    <3>1. r + k \in P /\ rank[m] < r + k /\ r + (k + 1) = (r + k) + 1
      BY <1>4
    <3>2. F[r + (k + 1)][m] = F[r + k][m]
      BY <3>1
    <3> QED
      BY <3>2
  <2>4. Q = Nat
    <3> HIDE DEF Q
    <3>1. Q \subseteq Nat
      BY DEF Q
    <3> QED
      BY <2>2, <2>3, <3>1, SetInduction
  <2> QED
    BY <2>4
<1>7. ASSUME NEW n \in N
      PROVE  D[g][n] = g[n]
  <2> DEFINE k == rank[n]
  <2>1. k \in Nat /\ F[k] \in [N -> V]
    OBVIOUS
  <2>2. ASSUME NEW m \in N, rank[m] < k
        PROVE  g[m] = F[k][m]
    <3>1. rank[m] \in Nat
      OBVIOUS
    <3>2. k - (rank[m] + 1) \in Nat
          /\ (rank[m] + 1) + (k - (rank[m] + 1)) = k
      BY <2>1, <2>2, <3>1
    <3> HIDE DEF g
    <3> QED
      BY <1>6, <3>2
  <2>3. D[g][n] = D[F[k]][n]
    <3> HIDE DEF g
    <3> QED
      BY <1>5, <2>1, <2>2
  <2>4. D[F[k]] = F[k + 1]
    BY <1>1, <2>1
  <2> QED
    BY <2>3, <2>4
<1> HIDE DEF g
<1>8. D[g] \in [N -> V]
  BY <1>5
<1>9. D[g] = g
  BY <1>5, <1>7, <1>8
<1> QED
  BY <1>5, <1>9 DEF IsFixpoint

-----------------------------------------------------------------------------
(* Sequences.                                                              *)

IsSeq(s) == \E S : s \in Seq(S)

(* Sequences of anything.                                                  *)
LEMMA SeqFacts ==
  ASSUME NEW s, IsSeq(s)
  PROVE  /\ Len(s) \in Nat
         /\ s # <<>> => Len(s) > 0
         /\ DOMAIN s = 1..Len(s)
         /\ s = <<>> => Len(s) = 0
BY LenProperties, EmptySeq DEF IsSeq

LEMMA EmptyIsSeq == IsSeq(<<>>) /\ Len(<<>>) = 0
<1>1. <<>> \in Seq({}) /\ Len(<<>>) = 0
  BY EmptySeq
<1> QED BY <1>1 DEF IsSeq

LEMMA AppendFacts ==
  ASSUME NEW s, NEW x, IsSeq(s)
  PROVE  /\ IsSeq(Append(s, x))
         /\ Append(s, x) # <<>>
         /\ Len(Append(s, x)) = Len(s) + 1
         /\ \A k \in 1..Len(s) : Append(s, x)[k] = s[k]
         /\ Append(s, x)[Len(s) + 1] = x
         /\ Front(Append(s, x)) = s
         /\ Last(Append(s, x)) = x
<1>1. PICK S : s \in Seq(S)
  BY DEF IsSeq
<1> DEFINE T == S \cup {x}
           a == Append(s, x)
<1>2. s \in Seq(T) /\ x \in T
  BY <1>1, SeqMonotonic
<1>3. /\ a \in Seq(T)
      /\ a # <<>>
      /\ Len(a) = Len(s) + 1
      /\ \A k \in 1..Len(s) : a[k] = s[k]
      /\ a[Len(s) + 1] = x
  BY <1>2, AppendProperties
<1>4. Len(s) \in Nat
  BY <1>1, LenProperties
<1>5. Front(a) = s
  <2>1. Front(a) = SubSeq(a, 1, Len(s))
    BY <1>3, <1>4 DEF Front
  <2>2. \A i \in 1..Len(s) : a[i] \in T
    BY <1>2, <1>3, ElementOfSeq
  <2>3. /\ Front(a) \in Seq(T)
        /\ Len(Front(a)) = Len(s)
        /\ \A i \in 1..Len(s) : Front(a)[i] = a[i]
    BY <2>1, <2>2, <1>4, SubSeqProperties
  <2> QED
    BY <1>2, <1>3, <2>3, SeqEqual
<1>6. IsSeq(a)
  BY <1>3 DEF IsSeq
<1> QED
  BY <1>3, <1>4, <1>5, <1>6 DEF Last

LEMMA FrontFacts ==
  ASSUME NEW s, IsSeq(s), s # <<>>
  PROVE  /\ IsSeq(Front(s))
         /\ Len(Front(s)) = Len(s) - 1
         /\ \A k \in 1..Len(s) - 1 : Front(s)[k] = s[k]
<1>1. PICK S : s \in Seq(S)
  BY DEF IsSeq
<1>2. PICK r \in Seq(S), x \in S : s = Append(r, x)
  BY <1>1, SequenceEmptyOrAppend
<1>3. IsSeq(r) /\ Len(r) \in Nat
  BY <1>2, LenProperties DEF IsSeq
<1>4. Front(s) = r /\ Len(s) = Len(r) + 1 /\ \A k \in 1..Len(r) : s[k] = r[k]
  BY <1>2, <1>3, AppendFacts
<1> QED
  BY <1>3, <1>4

LEMMA HeadTailFacts ==
  ASSUME NEW s, IsSeq(s), s # <<>>
  PROVE  /\ Head(s) = s[1]
         /\ IsSeq(Tail(s))
         /\ Len(Tail(s)) = Len(s) - 1
         /\ \A k \in 1..Len(s) - 1 : Tail(s)[k] = s[k + 1]
<1>1. PICK S : s \in Seq(S)
  BY DEF IsSeq
<1> QED
  BY <1>1, HeadTailProperties DEF IsSeq

LEMMA ConcatFacts ==
  ASSUME NEW s, NEW r, IsSeq(s), IsSeq(r)
  PROVE  /\ IsSeq(s \o r)
         /\ Len(s \o r) = Len(s) + Len(r)
         /\ \A k \in 1..Len(s) : (s \o r)[k] = s[k]
         /\ \A k \in 1..Len(r) : (s \o r)[Len(s) + k] = r[k]
         /\ s = <<>> => s \o r = r
<1>1. PICK S : s \in Seq(S)
  BY DEF IsSeq
<1>2. PICK T : r \in Seq(T)
  BY DEF IsSeq
<1>3. s \in Seq(S \cup T) /\ r \in Seq(S \cup T)
  BY <1>1, <1>2, SeqMonotonic
<1>4. Len(s) \in Nat /\ Len(r) \in Nat
  BY <1>1, <1>2, LenProperties
<1>5. /\ s \o r \in Seq(S \cup T)
      /\ Len(s \o r) = Len(s) + Len(r)
      /\ \A k \in 1 .. Len(s) + Len(r) : (s \o r)[k] =
                     IF k <= Len(s) THEN s[k] ELSE r[k - Len(s)]
  BY <1>3, ConcatProperties
<1>6. \A k \in 1..Len(r) : (s \o r)[Len(s) + k] = r[k]
  BY <1>4, <1>5
<1>7. s = <<>> => s \o r = r
  BY <1>3, ConcatEmptySeq
<1> QED
  BY <1>4, <1>5, <1>6, <1>7 DEF IsSeq

LEMMA OneIsSeq ==
  ASSUME NEW x
  PROVE  IsSeq(<<x>>) /\ Len(<<x>>) = 1 /\ <<x>>[1] = x
<1>1. <<x>> \in Seq({x}) /\ Len(<<x>>) = 1 /\ <<x>>[1] = x
  OBVIOUS
<1> QED
  BY <1>1 DEF IsSeq

(* A function on 1..n is a sequence, whatever its values.                  *)
LEMMA FunctionIsSeq ==
  ASSUME NEW n \in Nat, NEW f, f = [k \in 1..n |-> f[k]]
  PROVE  IsSeq(f) /\ Len(f) = n
<1> DEFINE S == {f[k] : k \in 1..n}
<1>1. f \in [1..n -> S]
  <2>1. \A k \in 1..n : f[k] \in S
    OBVIOUS
  <2>2. DOMAIN f = 1..n
    OBVIOUS
  <2> QED
    BY <2>1, <2>2
<1>2. f \in Seq(S)
  BY <1>1, SeqDef
<1>3. DOMAIN f = 1..Len(f) /\ Len(f) \in Nat
  BY <1>2, LenProperties
<1>4. DOMAIN f = 1..n
  OBVIOUS
<1>5. Len(f) = n
  BY <1>3, <1>4
<1> QED
  BY <1>2, <1>5 DEF IsSeq

-----------------------------------------------------------------------------
(* The least number of a set.                                              *)

LEMMA FirstOfIsIn ==
  ASSUME NEW S, FirstOf(S) # 0
  PROVE  FirstOf(S) \in S
  BY DEF FirstOf

-----------------------------------------------------------------------------
(* Types and their parts.                                                  *)

LEMMA PartFacts ==
  ASSUME NEW t \in Types, NEW k \in DOMAIN Parts[t]
  PROVE  /\ Parts[t][k] \in Types
         /\ Depth[Parts[t][k]] \in Nat
         /\ Depth[t] \in Nat
         /\ Depth[Parts[t][k]] < Depth[t]
<1>1. Parts[t] \in Seq(Types)
  BY TypesAreAdapted
<1>2. Parts[t][k] \in Types
  BY <1>1, LenProperties, ElementOfSeq
<1> QED
  BY <1>2, TypesAreNested

LEMMA WrapperFacts ==
  ASSUME NEW t \in Types, Kind[t] \in Wrappers
  PROVE  DOMAIN Parts[t] = {1}
<1>1. Parts[t] \in Seq(Types) /\ Len(Parts[t]) = 1
  BY TypesAreAdapted
<1> QED
  BY <1>1, LenProperties

LEMMA CaseFacts ==
  ASSUME NEW t \in Types, Kind[t] = "union"
  PROVE  /\ NCases(t) \in Nat
         /\ \A c \in 1..NCases(t) : c + 1 \in DOMAIN Parts[t]
<1>1. Parts[t] \in Seq(Types) /\ Len(Parts[t]) > 1
  BY TypesAreAdapted
<1>2. DOMAIN Parts[t] = 1..Len(Parts[t]) /\ Len(Parts[t]) \in Nat
  BY <1>1, LenProperties
<1> QED
  BY <1>1, <1>2 DEF NCases

-----------------------------------------------------------------------------
(* Nodes.                                                                  *)

Numbers(f) == \A p \in DOMAIN f : f[p] \in Nat

Places == [type : Types, path : Paths, place : Paths]

Top == Node(root, <<>>, <<>>)

LEMMA AppendPath ==
  ASSUME NEW p \in Paths, NEW i \in Nat
  PROVE  Append(p, i) \in Paths
BY AppendProperties DEF Paths

LEMMA InsideIsLower ==
  ASSUME NEW s, Numbers(s.value), NEW n \in Places, NEW m \in Inside(s, n)
  PROVE  /\ m \in Places
         /\ Depth[m.type] \in Nat
         /\ Depth[n.type] \in Nat
         /\ Depth[m.type] < Depth[n.type]
<1>1. n.type \in Types /\ n.path \in Paths /\ n.place \in Paths
  BY DEF Places
<1>2. ASSUME NEW k \in DOMAIN Parts[n.type], NEW i \in Nat, m = Part(n, k, i)
      PROVE  m \in Places /\ m.type = Parts[n.type][k]
  <2>1. Append(n.path, i) \in Paths /\ Append(n.place, i) \in Paths
    BY <1>1, AppendPath
  <2> QED
    BY <1>1, <1>2, <2>1, PartFacts DEF Part, Node, Places
<1>3. CASE Kind[n.type] \in Leaves
  BY <1>3 DEF Inside, Leaves, Aggregates, Wrappers
<1>4. CASE Kind[n.type] \in Aggregates
  <2>1. PICK k \in DOMAIN Parts[n.type] : m = Part(n, k, k)
    BY <1>4 DEF Inside, Leaves, Aggregates, Wrappers
  <2>2. k \in Nat
    BY <1>1, TypesAreAdapted, LenProperties
  <2> QED
    BY <1>1, <1>2, <2>1, <2>2, PartFacts
<1>5. CASE Kind[n.type] \in Wrappers
  <2>1. LengthOf(s, n) \in Nat
    BY ConversionConstants DEF LengthOf, At, Numbers
  <2>2. PICK i \in 1..LengthOf(s, n) : m = Part(n, 1, i)
    BY <1>5 DEF Inside, Leaves, Aggregates, Wrappers
  <2>3. 1 \in DOMAIN Parts[n.type] /\ i \in Nat
    BY <1>1, <1>5, <2>1, <2>2, WrapperFacts
  <2> QED
    BY <1>1, <1>2, <2>2, <2>3, PartFacts
<1>6. CASE Kind[n.type] = "union"
  <2> DEFINE t == n.type
  <2>1. PICK c \in 1..NCases(t) :
          m = Node(CaseType(t, c), DataOf(s, t, n.path, c),
                   Append(n.place, c))
    BY <1>6 DEF Inside, Leaves, Aggregates, Wrappers
  <2>2. c \in Nat /\ NCases(t) \in Nat /\ c + 1 \in DOMAIN Parts[t]
    BY <1>1, <1>6, <2>1, CaseFacts
  <2>3. /\ DataOf(s, t, n.path, c) \in Paths
        /\ Append(n.place, c) \in Paths
    BY <1>1, <2>2, AppendPath DEF DataOf, Pointee
  <2>4. m \in Places /\ m.type = Parts[t][c + 1]
    BY <1>1, <2>1, <2>2, <2>3, PartFacts DEF Node, Places, CaseType
  <2> QED
    BY <1>1, <2>2, <2>4, PartFacts
<1> QED
  BY <1>1, <1>3, <1>4, <1>5, <1>6, TypesAreAdapted DEF Kinds

IsReach(R, s) ==
  R = [n \in Places |-> {n} \cup UNION {R[m] : m \in Inside(s, n)}]

LEMMA NodesByReach ==
  ASSUME NEW s
  PROVE  Nodes(s) = (CHOOSE R : IsReach(R, s))[Top]
BY DEF Nodes, IsReach, Places, Top

LEMMA ReachExists ==
  ASSUME NEW s, Numbers(s.value)
  PROVE  \E R : IsReach(R, s)
<1> DEFINE V == SUBSET Places
           rank == [n \in Places |-> Depth[n.type]]
           D == [g \in [Places -> V] |->
                   [n \in Places |-> {n} \cup UNION {g[m] : m \in Inside(s, n)}]]
           f == [n \in Places |-> {}]
<1>1. rank \in [Places -> Nat] /\ f \in [Places -> V]
  BY TypesAreNested DEF Places
<1>2. D \in [[Places -> V] -> [Places -> V]]
  <2>1. ASSUME NEW g \in [Places -> V], NEW n \in Places
        PROVE  {n} \cup UNION {g[m] : m \in Inside(s, n)} \in V
    BY InsideIsLower
  <2> QED
    BY <2>1
<1>3. ASSUME NEW g \in [Places -> V], NEW h \in [Places -> V], NEW n \in Places,
             \A m \in Places : rank[m] < rank[n] => g[m] = h[m]
      PROVE  D[g][n] = D[h][n]
  <2>1. \A m \in Inside(s, n) : g[m] = h[m]
    BY <1>3, InsideIsLower
  <2> QED
    BY <2>1
<1>4. PICK R : IsFixpoint(R, D, Places, V)
  <2> HIDE DEF D, V, rank, f
  <2> QED
    BY <1>1, <1>2, <1>3, RankedRecursion
<1>5. R \in [Places -> V] /\ D[R] = R
  BY <1>4 DEF IsFixpoint
<1>6. IsReach(R, s)
  BY <1>5 DEF IsReach
<1> QED
  BY <1>6

(* A set with the whole object that has with everything what is inside of  *)
(* it has all nodes.                                                       *)
LEMMA NodesInduction ==
  ASSUME NEW s, Numbers(s.value), NEW G, G \subseteq Places, Top \in G,
         \A n \in G : Inside(s, n) \subseteq G
  PROVE  Nodes(s) \subseteq G
<1> DEFINE R == CHOOSE R : IsReach(R, s)
<1>1. IsReach(R, s)
  BY ReachExists
<1> HIDE DEF R
<1>2. ASSUME NEW n \in Places
      PROVE  R[n] = {n} \cup UNION {R[m] : m \in Inside(s, n)}
  BY <1>1 DEF IsReach
<1> DEFINE P == {d \in Nat : \A n \in G : Depth[n.type] < d => R[n] \subseteq G}
<1>3. \A n \in G : Depth[n.type] \in Nat
  BY TypesAreNested DEF Places
<1>4. 0 \in P
  BY <1>3
<1>5. ASSUME NEW d \in P
      PROVE  d + 1 \in P
  <2> SUFFICES ASSUME NEW n \in G, Depth[n.type] < d + 1
               PROVE  R[n] \subseteq G
    OBVIOUS
  <2>1. n \in Places /\ Inside(s, n) \subseteq G /\ Depth[n.type] \in Nat
    BY <1>3
  <2>2. ASSUME NEW m \in Inside(s, n)
        PROVE  R[m] \subseteq G
    <3>1. /\ Depth[m.type] \in Nat
          /\ Depth[m.type] < Depth[n.type]
      BY <2>1, InsideIsLower
    <3>2. Depth[m.type] < d
      BY <2>1, <3>1
    <3> QED
      BY <2>1, <3>2
  <2> QED
    BY <1>2, <2>1, <2>2
<1>6. P = Nat
  <2> HIDE DEF P
  <2>1. P \subseteq Nat
    BY DEF P
  <2> QED
    BY <1>4, <1>5, <2>1, SetInduction
<1>7. R[Top] \subseteq G
  <2>1. Depth[Top.type] + 1 \in P /\ Depth[Top.type] \in Nat
    BY <1>3, <1>6
  <2> QED
    BY <2>1
<1>8. Nodes(s) = R[Top]
  BY NodesByReach DEF R
<1> QED
  BY <1>7, <1>8

-----------------------------------------------------------------------------
(* What is where in an object: the type at a path.                         *)

(* Whether something of type u may be at i in something of type t.         *)
IsPart(t, i, u) ==
  \/ Kind[t] \in Aggregates /\ i \in DOMAIN Parts[t] /\ u = Parts[t][i]
  \/ Kind[t] \in Wrappers /\ u = Parts[t][1]
  \/ Kind[t] = "union" /\ \E c \in 1..NCases(t) :
                            i \in {c, NCases(t) + c} /\ u = CaseType(t, c)

(* The types on the way from an object of type r to what is at p.          *)
IsChain(f, r, p) ==
  /\ f \in [0..Len(p) -> Types]
  /\ f[0] = r
  /\ \A k \in 1..Len(p) : IsPart(f[k - 1], p[k], f[k])

Placed(r, t, p) == p \in Paths /\ \E f : IsChain(f, r, p) /\ f[Len(p)] = t

LEMMA PathFacts ==
  ASSUME NEW p \in Paths
  PROVE  /\ Len(p) \in Nat
         /\ IsSeq(p)
         /\ \A k \in 1..Len(p) : p[k] \in Nat
BY LenProperties, ElementOfSeq DEF Paths, IsSeq

LEMMA IsPartUnique ==
  ASSUME NEW t \in Types, NEW i, NEW u, NEW v, IsPart(t, i, u), IsPart(t, i, v)
  PROVE  u = v
<1>1. CASE Kind[t] \in Aggregates
  BY <1>1 DEF IsPart, Aggregates, Wrappers
<1>2. CASE Kind[t] \in Wrappers
  BY <1>2 DEF IsPart, Aggregates, Wrappers
<1>3. CASE Kind[t] = "union"
  <2>1. NCases(t) \in Nat
    BY <1>3, CaseFacts
  <2>2. /\ \E c \in 1..NCases(t) :
             i \in {c, NCases(t) + c} /\ u = CaseType(t, c)
        /\ \E c \in 1..NCases(t) :
             i \in {c, NCases(t) + c} /\ v = CaseType(t, c)
    BY <1>3 DEF IsPart, Aggregates, Wrappers
  <2> QED
    BY <2>1, <2>2
<1> QED
  BY <1>1, <1>2, <1>3 DEF IsPart

LEMMA PartIsType ==
  ASSUME NEW t \in Types, NEW i, NEW u, IsPart(t, i, u)
  PROVE  u \in Types
<1>1. CASE Kind[t] \in Aggregates /\ i \in DOMAIN Parts[t] /\ u = Parts[t][i]
  BY <1>1, PartFacts
<1>2. CASE Kind[t] \in Wrappers /\ u = Parts[t][1]
  <2>1. 1 \in DOMAIN Parts[t]
    BY <1>2, WrapperFacts
  <2> QED
    BY <1>2, <2>1, PartFacts
<1>3. CASE Kind[t] = "union" /\ \E c \in 1..NCases(t) : u = CaseType(t, c)
  BY <1>3, CaseFacts, PartFacts DEF CaseType
<1> QED
  BY <1>1, <1>2, <1>3 DEF IsPart

LEMMA PlacedIsType ==
  ASSUME NEW r, NEW t, NEW p, Placed(r, t, p)
  PROVE  t \in Types /\ p \in Paths
<1>1. p \in Paths /\ Len(p) \in Nat
  BY PathFacts DEF Placed
<1>2. PICK f \in [0..Len(p) -> Types] : f[Len(p)] = t
  BY DEF Placed, IsChain
<1> QED
  BY <1>1, <1>2

LEMMA PlacedTop ==
  ASSUME NEW r \in Types
  PROVE  Placed(r, r, <<>>)
<1>1. <<>> \in Paths /\ Len(<<>>) = 0
  BY EmptySeq DEF Paths
<1>2. IsChain([k \in 0..0 |-> r], r, <<>>)
  BY <1>1 DEF IsChain
<1> QED
  BY <1>1, <1>2 DEF Placed

LEMMA PlacedPart ==
  ASSUME NEW r, NEW t, NEW p, Placed(r, t, p), NEW i \in Nat, NEW u,
         IsPart(t, i, u)
  PROVE  Placed(r, u, Append(p, i))
<1> DEFINE n == Len(p)
           q == Append(p, i)
<1>1. PICK f : IsChain(f, r, p) /\ f[n] = t
  BY DEF Placed
<1>2. /\ p \in Paths
      /\ n \in Nat
      /\ q \in Paths
      /\ Len(q) = n + 1
      /\ \A k \in 1..n : q[k] = p[k]
      /\ q[n + 1] = i
  BY PathFacts, AppendPath, AppendFacts DEF Placed
<1>3. u \in Types
  BY PlacedIsType, PartIsType
<1> DEFINE g == [k \in 0..n + 1 |-> IF k = n + 1 THEN u ELSE f[k]]
<1>4. g \in [0..Len(q) -> Types]
  BY <1>1, <1>2, <1>3 DEF IsChain
<1>5. ASSUME NEW k \in 1..Len(q)
      PROVE  IsPart(g[k - 1], q[k], g[k])
  <2>1. CASE k = n + 1
    <3>1. g[k] = u /\ g[k - 1] = f[n] /\ q[k] = i
      BY <1>2, <2>1
    <3> QED
      BY <1>1, <3>1
  <2>2. CASE k # n + 1
    <3>1. k \in 1..n /\ g[k] = f[k] /\ g[k - 1] = f[k - 1] /\ q[k] = p[k]
      BY <1>2, <2>2
    <3> QED
      BY <1>1, <3>1 DEF IsChain
  <2> QED
    BY <2>1, <2>2
<1>6. g[0] = r /\ g[Len(q)] = u
  BY <1>1, <1>2 DEF IsChain
<1> HIDE DEF g
<1>7. IsChain(g, r, q)
  BY <1>4, <1>5, <1>6 DEF IsChain
<1> QED
  BY <1>2, <1>6, <1>7 DEF Placed

LEMMA PlacedAt ==
  ASSUME NEW r, NEW u, NEW q, Placed(r, u, q), NEW p \in Paths, IsAt(q, p)
  PROVE  \E t : /\ Placed(r, t, p)
                /\ q # p => /\ q[Len(p) + 1] \in Nat
                            /\ \E v : IsPart(t, q[Len(p) + 1], v)
<1>1. PICK f : IsChain(f, r, q) /\ f[Len(q)] = u
  BY DEF Placed
<1> DEFINE n == Len(p)
           g == [k \in 0..n |-> f[k]]
<1>2. n \in Nat /\ Len(q) \in Nat /\ Len(q) >= n /\ q \in Paths
  BY PathFacts DEF Placed, IsAt
<1>3. \A k \in 1..n : p[k] = q[k]
  <2>1. \A k \in 1..n : q[k] \in Nat
    BY <1>2, PathFacts
  <2>2. \A k \in 1..n : SubSeq(q, 1, n)[k] = q[k]
    BY <1>2, <2>1, SubSeqProperties
  <2> QED
    BY <2>2 DEF IsAt
<1>4. IsChain(g, r, p)
  <2>1. g \in [0..n -> Types] /\ g[0] = r
    BY <1>1, <1>2 DEF IsChain
  <2>2. ASSUME NEW k \in 1..n
        PROVE  IsPart(g[k - 1], p[k], g[k])
    <3>1. g[k - 1] = f[k - 1] /\ g[k] = f[k] /\ p[k] = q[k] /\ k \in 1..Len(q)
      BY <1>2, <1>3
    <3> QED
      BY <1>1, <3>1 DEF IsChain
  <2> QED
    BY <2>1, <2>2 DEF IsChain
<1>5. Placed(r, g[n], p)
  BY <1>4 DEF Placed
<1>6. ASSUME q # p
      PROVE  q[n + 1] \in Nat /\ IsPart(g[n], q[n + 1], f[n + 1])
  <2>1. Len(q) # n
    BY <1>2, <1>3, <1>6, SeqEqual DEF Paths
  <2>2. n + 1 \in 1..Len(q) /\ (n + 1) - 1 = n /\ g[n] = f[n]
    BY <1>2, <2>1
  <2>3. IsPart(f[n], q[n + 1], f[n + 1])
    BY <1>1, <2>2 DEF IsChain
  <2> QED
    BY <1>2, <2>2, <2>3, PathFacts
<1> QED
  BY <1>5, <1>6

LEMMA PlacedUnique ==
  ASSUME NEW r, NEW t, NEW u, NEW p, Placed(r, t, p), Placed(r, u, p)
  PROVE  t = u
<1>1. PICK f : IsChain(f, r, p) /\ f[Len(p)] = t
  BY DEF Placed
<1>2. PICK g : IsChain(g, r, p) /\ g[Len(p)] = u
  BY DEF Placed
<1>3. Len(p) \in Nat
  BY PathFacts DEF Placed
<1> DEFINE P == {k \in Nat : k <= Len(p) => f[k] = g[k]}
<1>4. 0 \in P
  BY <1>1, <1>2 DEF IsChain
<1>5. ASSUME NEW k \in P
      PROVE  k + 1 \in P
  <2> SUFFICES ASSUME k + 1 <= Len(p) PROVE f[k + 1] = g[k + 1]
    OBVIOUS
  <2>1. k + 1 \in 1..Len(p) /\ (k + 1) - 1 = k /\ k \in 0..Len(p) /\ f[k] = g[k]
    BY <1>3
  <2>2. /\ IsPart(f[k], p[k + 1], f[k + 1])
        /\ IsPart(f[k], p[k + 1], g[k + 1])
        /\ f[k] \in Types
    BY <1>1, <1>2, <2>1 DEF IsChain
  <2> QED
    BY <2>2, IsPartUnique
<1>6. P = Nat
  <2> HIDE DEF P
  <2>1. P \subseteq Nat
    BY DEF P
  <2> QED
    BY <1>4, <1>5, <2>1, SetInduction
<1> QED
  BY <1>1, <1>2, <1>3, <1>6

(* What is inside of something is of one of the types of its parts.        *)
LEMMA PlacedIn ==
  ASSUME NEW r, NEW t, NEW u, NEW p, NEW q, Placed(r, t, p), Placed(r, u, q),
         IsIn(q, p)
  PROVE  q[Len(p) + 1] \in Nat /\ \E v : IsPart(t, q[Len(p) + 1], v)
<1>1. p \in Paths
  BY DEF Placed
<1> QED
  BY <1>1, PlacedAt, PlacedUnique DEF IsIn

-----------------------------------------------------------------------------
(* What objects and instances hold are numbers.                            *)

ObjectFields ==
  {"value", "active_index_", "caseptr_tuple_", "meant", "mixed", "fresh"}

GoodObject(s) == ObjectFields \subseteq DOMAIN s /\ Numbers(s.value)

LEMMA AtIsNumber ==
  ASSUME NEW f, NEW p, Numbers(f)
  PROVE  At(f, p) \in Nat
  BY DEF At, Numbers

LEMMA PutNumber ==
  ASSUME NEW f, NEW p, NEW v \in Nat, Numbers(f)
  PROVE  Numbers(Put(f, p, v))
  BY DEF Put, Numbers

LEMMA OnlyNumbers ==
  ASSUME NEW f, NEW S, Numbers(f)
  PROVE  Numbers(Only(f, S))
  BY DEF Only, Numbers

LEMMA EmptyNumbers == Numbers(<<>>) /\ GoodObject(Default)
  BY DEF Numbers, GoodObject, ObjectFields, Default

(* Nothing but s.value matters.                                            *)
LEMMA SameValueIsGood ==
  ASSUME NEW s, NEW r, GoodObject(s), DOMAIN r = DOMAIN s,
         Numbers(r.value)
  PROVE  GoodObject(r)
  BY DEF GoodObject

LEMMA WithoutIsGood ==
  ASSUME NEW s, NEW G, GoodObject(s)
  PROVE  GoodObject(Without(s, G))
<1> DEFINE rest == Held(s) \ G
           r == Without(s, G)
<1>1. r = [s EXCEPT !.value = Only(s.value, rest),
                    !.active_index_ = Only(s.active_index_, rest),
                    !.meant = Only(s.meant, rest),
                    !.caseptr_tuple_ = s.caseptr_tuple_ \ G]
  BY DEF Without
<1>2. DOMAIN r = DOMAIN s /\ r.value = Only(s.value, rest)
  BY <1>1 DEF GoodObject, ObjectFields
<1> QED
  BY <1>2, OnlyNumbers, SameValueIsGood DEF GoodObject

LEMMA ResizedIsGood ==
  ASSUME NEW s, NEW p, NEW n \in Nat, GoodObject(s)
  PROVE  GoodObject(Resized(s, p, n))
<1> DEFINE gone == {q \in Held(s) : IsIn(q, p) /\ q[Len(p) + 1] > n}
           w == Without(s, gone)
           v == IF n = 0 THEN Only(w.value, DOMAIN w.value \ {p})
                ELSE Put(w.value, p, n)
<1>1. GoodObject(w)
  BY WithoutIsGood
<1>2. Resized(s, p, n) = [w EXCEPT !.value = v]
  BY DEF Resized
<1> HIDE DEF w
<1>3. Numbers(v)
  BY <1>1, PutNumber, OnlyNumbers DEF GoodObject
<1> HIDE DEF v
<1>4. DOMAIN [w EXCEPT !.value = v] = DOMAIN w
      /\ [w EXCEPT !.value = v].value = v
  BY <1>1 DEF GoodObject, ObjectFields
<1> QED
  BY <1>1, <1>2, <1>3, <1>4, SameValueIsGood

LEMMA NotedIsGood ==
  ASSUME NEW s, NEW t, NEW o, GoodObject(s)
  PROVE  GoodObject(Noted(s, t, o))
<1>1. DOMAIN Noted(s, t, o) = DOMAIN s /\ Noted(s, t, o).value = s.value
  BY DEF Noted, GoodObject, ObjectFields
<1> QED
  BY <1>1, SameValueIsGood DEF GoodObject

LEMMA WithVariantIsGood ==
  ASSUME NEW s, NEW t, NEW o, NEW c \in Nat, GoodObject(s)
  PROVE  GoodObject(WithVariant(s, t, o, c))
<1> DEFINE old == {q \in Held(s) : IsIn(q, o) /\ q[Len(o) + 1] <= NCases(t)}
           w == Without(s, old)
           r == [w EXCEPT !.value = Put(w.value, o, c),
                          !.meant = Put(w.meant, o, c), !.fresh = FALSE]
<1>1. GoodObject(w)
  BY WithoutIsGood
<1>2. WithVariant(s, t, o, c) = Noted(r, t, o)
  BY DEF WithVariant
<1> HIDE DEF w
<1>3. DOMAIN r = DOMAIN w /\ r.value = Put(w.value, o, c)
  BY <1>1 DEF GoodObject, ObjectFields
<1>4. GoodObject(r)
  BY <1>1, <1>3, PutNumber, SameValueIsGood DEF GoodObject
<1> HIDE DEF r
<1> QED
  BY <1>2, <1>4, NotedIsGood

LEMMA WithPointersIsGood ==
  ASSUME NEW s, NEW t, NEW o, NEW P, GoodObject(s)
  PROVE  GoodObject(WithPointers(s, t, o, P))
<1>1. /\ DOMAIN WithPointers(s, t, o, P) = DOMAIN s
      /\ WithPointers(s, t, o, P).value = s.value
  BY DEF WithPointers, GoodObject, ObjectFields
<1> QED
  BY <1>1, SameValueIsGood DEF GoodObject

LEMMA SetActiveIndexIsGood ==
  ASSUME NEW s, NEW o, NEW a, GoodObject(s)
  PROVE  GoodObject(SetActiveIndex(s, o, a))
<1>1. /\ DOMAIN SetActiveIndex(s, o, a) = DOMAIN s
      /\ SetActiveIndex(s, o, a).value = s.value
  BY DEF SetActiveIndex, GoodObject, ObjectFields
<1> QED
  BY <1>1, SameValueIsGood DEF GoodObject

(* No operation of match::Union changes that.                              *)
LEMMA UnionOperationsAreGood ==
  ASSUME NEW s, NEW t, NEW o, NEW c \in Nat, NEW a, NEW P, GoodObject(s)
  PROVE  /\ GoodObject(AssignVariant(s, t, o, c))
         /\ GoodObject(AssignCase(s, t, o, c, a))
         /\ GoodObject(SetCaseptrTupleForWriting(s, t, o, P, c))
         /\ GoodObject(SetCaseptrTupleForReading(s, t, o, P))
         /\ GoodObject(ResetCaseptrTuple(s, o))
<1>1. GoodObject(AssignVariant(s, t, o, c))
  BY WithVariantIsGood DEF AssignVariant
<1>2. GoodObject(AssignCase(s, t, o, c, a))
  <2> DEFINE cleared == WithPointers(s, t, o, {})
             r == [cleared EXCEPT
                     !.active_index_ = Put(cleared.active_index_, o, a)]
  <2>1. GoodObject(cleared)
    BY WithPointersIsGood
  <2>2. AssignCase(s, t, o, c, a) = WithVariant(r, t, o, c)
    BY DEF AssignCase
  <2> HIDE DEF cleared
  <2>3. DOMAIN r = DOMAIN cleared /\ r.value = cleared.value
    BY <2>1 DEF GoodObject, ObjectFields
  <2>4. GoodObject(r)
    BY <2>1, <2>3, SameValueIsGood DEF GoodObject
  <2> HIDE DEF r
  <2> QED
    BY <2>2, <2>4, WithVariantIsGood
<1>3. GoodObject(SetCaseptrTupleForWriting(s, t, o, P, c))
  <2> DEFINE w == SetActiveIndex(WithPointers(s, t, o, P), o, c - 1)
             r == [w EXCEPT !.meant = Put(w.meant, o, c), !.fresh = FALSE]
  <2>1. GoodObject(w)
    BY WithPointersIsGood, SetActiveIndexIsGood
  <2>2. SetCaseptrTupleForWriting(s, t, o, P, c) = Noted(r, t, o)
    BY DEF SetCaseptrTupleForWriting
  <2> HIDE DEF w
  <2>3. DOMAIN r = DOMAIN w /\ r.value = w.value
    BY <2>1 DEF GoodObject, ObjectFields
  <2>4. GoodObject(r)
    BY <2>1, <2>3, SameValueIsGood DEF GoodObject
  <2> HIDE DEF r
  <2> QED
    BY <2>2, <2>4, NotedIsGood
<1>4. GoodObject(SetCaseptrTupleForReading(s, t, o, P))
  BY WithPointersIsGood, NotedIsGood DEF SetCaseptrTupleForReading
<1>5. GoodObject(ResetCaseptrTuple(s, o))
  BY SetActiveIndexIsGood DEF ResetCaseptrTuple
<1> QED
  BY <1>1, <1>2, <1>3, <1>4, <1>5

LEMMA WithElementsIsGood ==
  ASSUME NEW s, NEW n, GoodObject(s), Numbers(instance), IsSeq(Current.o)
  PROVE  GoodObject(WithElements(s, n))
<1> DEFINE kept == {q \in DOMAIN s.value : ~IsIn(q, Current.o)
                                           \/ q[Len(Current.o) + 1] > n}
           elements == {Append(Current.o, k) : k \in
                          {k \in 1..n : At(instance, Append(Current.i, k)) # 0}}
           v == [q \in kept \cup elements |->
                   IF q \in elements THEN instance[Append(Current.i, q[Len(q)])]
                   ELSE s.value[q]]
<1>1. WithElements(s, n) = [s EXCEPT !.value = v]
  BY DEF WithElements
<1>2. Numbers(v)
  <2>1. ASSUME NEW q \in elements
        PROVE  instance[Append(Current.i, q[Len(q)])] \in Nat
    <3>1. PICK k \in 1..n :
            q = Append(Current.o, k) /\ At(instance, Append(Current.i, k)) # 0
      OBVIOUS
    <3>2. q[Len(q)] = k
      BY <3>1, AppendFacts
    <3> QED
      BY <3>1, <3>2 DEF At, Numbers
  <2> QED
    BY <2>1 DEF GoodObject, Numbers
<1> HIDE DEF v
<1>3. DOMAIN [s EXCEPT !.value = v] = DOMAIN s /\ [s EXCEPT !.value = v].value = v
  BY DEF GoodObject, ObjectFields
<1> QED
  BY <1>1, <1>2, <1>3, SameValueIsGood

LEMMA WithMemberIsGood ==
  ASSUME NEW v \in Nat, Numbers(instance)
  PROVE  Numbers(WithMember(v))
  BY PutNumber, OnlyNumbers DEF WithMember

-----------------------------------------------------------------------------
(* Objects of an adapted type: what leaves and unions hold.                *)

Shape(s) ==
  /\ GoodObject(s)
  /\ DOMAIN s.value \subseteq Paths
  /\ DOMAIN s.active_index_ \subseteq Paths
  /\ DOMAIN s.meant \subseteq Paths
  /\ s.caseptr_tuple_ \subseteq Paths
  /\ s.mixed \in BOOLEAN
  /\ s.fresh \in BOOLEAN

Fits(t, v) == Kind[t] \in Leaves => v \in Values[t] \cup {0}

(* What is neither a leaf nor a union nor a container holds no number, or  *)
(* whether it is set.                                                      *)
Sized(t, v) ==
  /\ Fits(t, v)
  /\ Kind[t] \in {"optional", "smart_ptr"} => v \in {0, 1}
  /\ Kind[t] \in Aggregates \cup {"array"} => v = 0

(* A union with a case in the variant means that case and has no case      *)
(* pointers; one without means the case its active index says, if any.     *)
UnionOK(s, t, o) ==
  ~s.mixed =>
    /\ Which(s, o) # 0 =>
         /\ At(s.meant, o) = Which(s, o)
         /\ \A c \in 1..NCases(t) : ~HasPointer(s, t, o, c)
    /\ Which(s, o) = 0 /\ ActiveIndex(s, o) # -1 =>
         At(s.meant, o) = ActiveIndex(s, o) + 1

NodeOK(s, t, p) ==
  /\ Sized(t, At(s.value, p))
  /\ Kind[t] = "union" => UnionOK(s, t, p)

ObjectOK(s, r) ==
  /\ Shape(s)
  /\ \A t, p : Placed(r, t, p) => NodeOK(s, t, p)

(* w holds at p what s does, or nothing, and has no other case pointers.   *)
Alike(s, w, p) ==
  /\ At(w.value, p) = At(s.value, p)
  /\ ActiveIndex(w, p) = ActiveIndex(s, p)
  /\ At(w.meant, p) = At(s.meant, p)

Cleared(w, p) == At(w.value, p) = 0 /\ ActiveIndex(w, p) = -1

Keeps(s, w, t, p) ==
  /\ Alike(s, w, p) \/ Cleared(w, p)
  /\ \A c \in 1..NCases(t) : HasPointer(w, t, p, c) => HasPointer(s, t, p, c)
  /\ s.mixed => w.mixed

LEMMA KeepsNode ==
  ASSUME NEW s, NEW w, NEW t, NEW p, NodeOK(s, t, p), Keeps(s, w, t, p)
  PROVE  NodeOK(w, t, p)
<1>1. CASE Alike(s, w, p)
  BY <1>1 DEF NodeOK, Keeps, Alike, UnionOK, Which
<1>2. CASE Cleared(w, p)
  BY <1>2 DEF NodeOK, Keeps, Cleared, UnionOK, Which, Sized, Fits
<1> QED
  BY <1>1, <1>2 DEF Keeps

(* Nothing but the fields below matters.                                   *)
SameFields(s, w) ==
  /\ DOMAIN w = DOMAIN s
  /\ w.active_index_ = s.active_index_
  /\ w.meant = s.meant
  /\ w.caseptr_tuple_ = s.caseptr_tuple_
  /\ w.mixed = s.mixed
  /\ w.fresh = s.fresh

(* Of two objects, w has lost the paths in G.                              *)
Lost(s, w, G) ==
  /\ \A p : p \notin G => Alike(s, w, p)
  /\ \A p : p \in G => Cleared(w, p)
  /\ w.caseptr_tuple_ = s.caseptr_tuple_ \ G
  /\ w.mixed = s.mixed
  /\ w.fresh = s.fresh

LEMMA WithoutLost ==
  ASSUME NEW s, NEW G, Shape(s)
  PROVE  Shape(Without(s, G)) /\ Lost(s, Without(s, G), G)
<1> DEFINE rest == Held(s) \ G
           w == Without(s, G)
<1>1. w = [s EXCEPT !.value = Only(s.value, rest),
                    !.active_index_ = Only(s.active_index_, rest),
                    !.meant = Only(s.meant, rest),
                    !.caseptr_tuple_ = s.caseptr_tuple_ \ G]
  BY DEF Without
<1>2. /\ DOMAIN w = DOMAIN s
      /\ w.value = Only(s.value, rest)
      /\ w.active_index_ = Only(s.active_index_, rest)
      /\ w.meant = Only(s.meant, rest)
      /\ w.caseptr_tuple_ = s.caseptr_tuple_ \ G
      /\ w.mixed = s.mixed
      /\ w.fresh = s.fresh
  BY <1>1 DEF Shape, GoodObject, ObjectFields
<1>3. GoodObject(w)
  BY WithoutIsGood DEF Shape
<1> HIDE DEF w
<1>4. Shape(w)
  <2>1. /\ DOMAIN w.value \subseteq DOMAIN s.value
        /\ DOMAIN w.active_index_ \subseteq DOMAIN s.active_index_
        /\ DOMAIN w.meant \subseteq DOMAIN s.meant
        /\ w.caseptr_tuple_ \subseteq s.caseptr_tuple_
    BY <1>2 DEF Only
  <2> QED
    BY <1>2, <1>3, <2>1 DEF Shape
<1>5. ASSUME NEW p, p \notin G
      PROVE  Alike(s, w, p)
  <2>1. CASE p \in rest
    <3>1. /\ At(w.value, p) = At(s.value, p)
          /\ At(w.meant, p) = At(s.meant, p)
      BY <1>2, <2>1 DEF At, Only
    <3>2. ActiveIndex(w, p) = ActiveIndex(s, p)
      BY <1>2, <2>1 DEF ActiveIndex, Only
    <3> QED
      BY <3>1, <3>2 DEF Alike
  <2>2. CASE p \notin rest
    BY <1>2, <1>5, <2>2 DEF Held, Alike, ActiveIndex, At, Only
  <2> QED
    BY <2>1, <2>2
<1>6. ASSUME NEW p, p \in G
      PROVE  Cleared(w, p)
  BY <1>2, <1>6 DEF Cleared, ActiveIndex, At, Only
<1> QED
  BY <1>2, <1>4, <1>5, <1>6 DEF Lost, w

LEMMA LostKeeps ==
  ASSUME NEW s, NEW w, NEW G, Lost(s, w, G), NEW t, NEW p
  PROVE  Keeps(s, w, t, p)
BY DEF Lost, Keeps, HasPointer

(* The case pointers of w that are not inside p are at least those of s.   *)
KeepsPointers(s, w, p) ==
  \A q \in s.caseptr_tuple_ : ~IsIn(q, p) => q \in w.caseptr_tuple_

LEMMA ResizedOK ==
  ASSUME NEW s, NEW r, ObjectOK(s, r), NEW t, NEW p, Placed(r, t, p),
         Kind[t] # "union", NEW n \in Nat, Sized(t, n)
  PROVE  /\ ObjectOK(Resized(s, p, n), r)
         /\ KeepsPointers(s, Resized(s, p, n), p)
<1> DEFINE gone == {q \in Held(s) : IsIn(q, p) /\ q[Len(p) + 1] > n}
           w == Without(s, gone)
           v == IF n = 0 THEN Only(w.value, DOMAIN w.value \ {p})
                ELSE Put(w.value, p, n)
           x == Resized(s, p, n)
<1>1. Shape(w) /\ Lost(s, w, gone)
  BY WithoutLost DEF ObjectOK
<1>2. x = [w EXCEPT !.value = v]
  BY DEF Resized
<1>3. GoodObject(x)
  BY ResizedIsGood DEF ObjectOK, Shape
<1>4. w.caseptr_tuple_ = s.caseptr_tuple_ \ gone
  BY <1>1 DEF Lost
<1>5. \A q \in s.caseptr_tuple_ : ~IsIn(q, p) => q \in w.caseptr_tuple_
  BY <1>4
<1> HIDE DEF gone
<1>6. ASSUME NEW q
      PROVE  At(v, q) = IF q = p THEN n ELSE At(w.value, q)
  <2> HIDE DEF w
  <2> QED
    BY DEF At, Put, Only
<1>7. p \in Paths
  BY DEF Placed
<1>8. DOMAIN v \subseteq Paths
  <2> HIDE DEF w
  <2> QED
    BY <1>1, <1>7 DEF Shape, Put, Only
<1> HIDE DEF w, v
<1>9. SameFields(w, x) /\ x.value = v
  BY <1>1, <1>2 DEF Shape, GoodObject, ObjectFields, SameFields
<1> HIDE DEF x
<1>10. Shape(x)
  BY <1>1, <1>3, <1>8, <1>9 DEF Shape, SameFields
<1>11. ASSUME NEW u, NEW q, Placed(r, u, q)
       PROVE  NodeOK(x, u, q)
  <2>1. CASE q = p
    <3>1. u = t /\ At(x.value, p) = n
      BY <1>6, <1>9, <1>11, <2>1, PlacedUnique
    <3> QED
      BY <2>1, <3>1 DEF NodeOK
  <2>2. CASE q # p
    <3>1. At(x.value, q) = At(w.value, q)
      BY <1>6, <1>9, <2>2
    <3>2. Keeps(s, w, u, q)
      BY <1>1, LostKeeps
    <3>3. Keeps(s, x, u, q)
      BY <1>9, <3>1, <3>2
         DEF SameFields, Keeps, Alike, Cleared, ActiveIndex, HasPointer
    <3> QED
      BY <1>11, <3>3, KeepsNode DEF ObjectOK
  <2> QED
    BY <2>1, <2>2
<1> QED
  BY <1>5, <1>9, <1>10, <1>11 DEF ObjectOK, KeepsPointers, SameFields, x

LEMMA NotedFields ==
  ASSUME NEW s, NEW t, NEW o, Shape(s)
  PROVE  LET x == Noted(s, t, o)
         IN /\ Shape(x)
            /\ x.value = s.value
            /\ x.active_index_ = s.active_index_
            /\ x.meant = s.meant
            /\ x.caseptr_tuple_ = s.caseptr_tuple_
            /\ s.mixed => x.mixed
            /\ ~x.mixed /\ Which(x, o) # 0 =>
                 \A c \in 1..NCases(t) : ~HasPointer(x, t, o, c)
<1> DEFINE x == Noted(s, t, o)
<1>1. /\ DOMAIN x = DOMAIN s
      /\ x.value = s.value
      /\ x.active_index_ = s.active_index_
      /\ x.meant = s.meant
      /\ x.caseptr_tuple_ = s.caseptr_tuple_
      /\ x.fresh = s.fresh
      /\ x.mixed = (s.mixed \/ ( /\ Which(s, o) # 0
                                 /\ \E c \in 1..NCases(t) :
                                      HasPointer(s, t, o, c)))
  BY DEF Noted, Shape, GoodObject, ObjectFields
<1>2. GoodObject(x)
  BY NotedIsGood DEF Shape
<1> HIDE DEF x
<1>3. Shape(x)
  BY <1>1, <1>2 DEF Shape
<1>4. ASSUME ~x.mixed, Which(x, o) # 0
      PROVE  \A c \in 1..NCases(t) : ~HasPointer(x, t, o, c)
  BY <1>1, <1>4 DEF Which, HasPointer
<1> QED
  BY <1>1, <1>3, <1>4 DEF x

(* All is well but perhaps at o.                                           *)
ElsewhereOK(s, r, o) ==
  /\ Shape(s)
  /\ \A t, p : Placed(r, t, p) /\ p # o => NodeOK(s, t, p)

(* The case pointers of a union belong to no other one.                    *)
LEMMA UnionChange ==
  ASSUME NEW s, NEW r, NEW t, NEW o \in Paths, ElsewhereOK(s, r, o),
         NEW x, Shape(x), s.mixed => x.mixed,
         \A p : p # o => Alike(s, x, p) \/ Cleared(x, p),
         \A q \in x.caseptr_tuple_ :
           q \in s.caseptr_tuple_ \/ \E c \in Nat : q = Pointee(t, o, c)
  PROVE  ElsewhereOK(x, r, o)
<1> SUFFICES ASSUME NEW u, NEW p, Placed(r, u, p), p # o PROVE NodeOK(x, u, p)
  BY DEF ElsewhereOK
<1>1. ASSUME NEW c \in 1..NCases(u), HasPointer(x, u, p, c)
      PROVE  HasPointer(s, u, p, c)
  <2>1. ASSUME NEW d \in Nat, Pointee(u, p, c) = Pointee(t, o, d)
        PROVE  FALSE
    <3>1. IsSeq(p) /\ IsSeq(o)
      BY PathFacts DEF Placed
    <3>2. Front(Pointee(u, p, c)) = p /\ Front(Pointee(t, o, d)) = o
      BY <3>1, AppendFacts DEF Pointee
    <3> QED
      BY <2>1, <3>2
  <2> QED
    BY <1>1, <2>1 DEF HasPointer
<1>2. Keeps(s, x, u, p)
  BY <1>1 DEF Keeps
<1> QED
  BY <1>2, KeepsNode DEF ElsewhereOK

LEMMA UnionIsOK ==
  ASSUME NEW s, NEW r, NEW t, NEW o, Placed(r, t, o), Kind[t] = "union",
         ElsewhereOK(s, r, o), UnionOK(s, t, o)
  PROVE  ObjectOK(s, r)
<1> SUFFICES ASSUME NEW u, NEW p, Placed(r, u, p) PROVE NodeOK(s, u, p)
  BY DEF ObjectOK, ElsewhereOK
<1>1. CASE p = o
  <2>1. u = t
    BY <1>1, PlacedUnique
  <2>2. Sized(t, At(s.value, o))
    BY DEF Sized, Fits, Leaves, Aggregates
  <2> QED
    BY <1>1, <2>1, <2>2 DEF NodeOK
<1>2. CASE p # o
  BY <1>2 DEF ElsewhereOK
<1> QED
  BY <1>1, <1>2

LEMMA UnionChangeOK ==
  ASSUME NEW s, NEW r, ObjectOK(s, r), NEW t, NEW o, Placed(r, t, o),
         Kind[t] = "union", NEW x, Shape(x), UnionOK(x, t, o),
         s.mixed => x.mixed,
         \A p : p # o => Alike(s, x, p) \/ Cleared(x, p),
         \A q \in x.caseptr_tuple_ :
           q \in s.caseptr_tuple_ \/ \E c \in Nat : q = Pointee(t, o, c)
  PROVE  ObjectOK(x, r)
<1>1. ElsewhereOK(s, r, o) /\ o \in Paths
  BY DEF ObjectOK, ElsewhereOK, Placed
<1>2. ElsewhereOK(x, r, o)
  BY <1>1, UnionChange
<1> QED
  BY <1>2, UnionIsOK

LEMMA WithVariantOK ==
  ASSUME NEW s, NEW r, NEW t, NEW o, Placed(r, t, o), Kind[t] = "union",
         ElsewhereOK(s, r, o), NEW c \in 1..NCases(t)
  PROVE  /\ ObjectOK(WithVariant(s, t, o, c), r)
         /\ KeepsPointers(s, WithVariant(s, t, o, c), o)
<1> DEFINE old == {q \in Held(s) : IsIn(q, o) /\ q[Len(o) + 1] <= NCases(t)}
           w == Without(s, old)
           y == [w EXCEPT !.value = Put(w.value, o, c),
                          !.meant = Put(w.meant, o, c), !.fresh = FALSE]
           x == WithVariant(s, t, o, c)
<1>1. Shape(w) /\ Lost(s, w, old)
  BY WithoutLost DEF ElsewhereOK
<1>2. x = Noted(y, t, o)
  BY DEF WithVariant
<1>3. w.caseptr_tuple_ = s.caseptr_tuple_ \ old
  BY <1>1 DEF Lost
<1>4. \A q \in s.caseptr_tuple_ : ~IsIn(q, o) => q \in w.caseptr_tuple_
  BY <1>3
<1> HIDE DEF old, w
<1>5. /\ DOMAIN y = DOMAIN w
      /\ y.value = Put(w.value, o, c)
      /\ y.meant = Put(w.meant, o, c)
      /\ y.active_index_ = w.active_index_
      /\ y.caseptr_tuple_ = w.caseptr_tuple_
      /\ y.mixed = w.mixed
      /\ y.fresh = FALSE
  BY <1>1 DEF Shape, GoodObject, ObjectFields
<1> HIDE DEF y
<1>6. o \in Paths /\ c \in Nat
  BY DEF Placed
<1>7. Shape(y)
  <2>1. GoodObject(y)
    BY <1>1, <1>5, <1>6, PutNumber, SameValueIsGood DEF Shape, GoodObject
  <2>2. DOMAIN y.value \subseteq Paths /\ DOMAIN y.meant \subseteq Paths
    BY <1>1, <1>5, <1>6 DEF Put, Shape
  <2> QED
    BY <1>1, <1>5, <2>1, <2>2 DEF Shape
<1>8. /\ Shape(x)
      /\ x.value = y.value
      /\ x.active_index_ = y.active_index_
      /\ x.meant = y.meant
      /\ x.caseptr_tuple_ = y.caseptr_tuple_
      /\ y.mixed => x.mixed
      /\ ~x.mixed /\ Which(x, o) # 0 =>
           \A d \in 1..NCases(t) : ~HasPointer(x, t, o, d)
  BY <1>2, <1>7, NotedFields
<1> HIDE DEF x
<1>9. At(x.value, o) = c /\ At(x.meant, o) = c
  BY <1>5, <1>8 DEF At, Put
<1>10. UnionOK(x, t, o)
  BY <1>8, <1>9 DEF UnionOK, Which
<1>11. ASSUME NEW p, p # o
       PROVE  Alike(s, x, p) \/ Cleared(x, p)
  <2>1. At(x.value, p) = At(w.value, p) /\ At(x.meant, p) = At(w.meant, p)
    BY <1>5, <1>8, <1>11 DEF At, Put
  <2>2. Alike(s, w, p) \/ Cleared(w, p)
    BY <1>1 DEF Lost
  <2> QED
    BY <1>5, <1>8, <2>1, <2>2 DEF Alike, Cleared, ActiveIndex
<1>12. s.mixed => x.mixed
  BY <1>1, <1>5, <1>8 DEF Lost
<1>13. x.caseptr_tuple_ \subseteq s.caseptr_tuple_
  BY <1>3, <1>5, <1>8
<1>14. ElsewhereOK(x, r, o)
  BY <1>6, <1>8, <1>11, <1>12, <1>13, UnionChange
<1>15. ObjectOK(x, r)
  BY <1>10, <1>14, UnionIsOK
<1> QED
  BY <1>4, <1>5, <1>8, <1>15 DEF KeepsPointers, x

-----------------------------------------------------------------------------
(* What is in what.                                                        *)

LEMMA IsAtFacts ==
  ASSUME NEW q \in Paths, NEW p \in Paths
  PROVE  IsAt(q, p) <=> /\ Len(q) >= Len(p)
                        /\ \A k \in 1..Len(p) : q[k] = p[k]
<1>1. /\ Len(p) \in Nat
      /\ Len(q) \in Nat
      /\ \A k \in 1..Len(q) : q[k] \in Nat
  BY PathFacts
<1>2. ASSUME Len(q) >= Len(p)
      PROVE  /\ SubSeq(q, 1, Len(p)) \in Paths
             /\ Len(SubSeq(q, 1, Len(p))) = Len(p)
             /\ \A k \in 1..Len(p) : SubSeq(q, 1, Len(p))[k] = q[k]
  <2>1. \A k \in 1..Len(p) : q[k] \in Nat
    BY <1>1, <1>2
  <2> QED
    BY <1>1, <2>1, SubSeqProperties DEF Paths
<1>3. ASSUME IsAt(q, p)
      PROVE  Len(q) >= Len(p) /\ \A k \in 1..Len(p) : q[k] = p[k]
  BY <1>2, <1>3 DEF IsAt
<1>4. ASSUME Len(q) >= Len(p), \A k \in 1..Len(p) : q[k] = p[k]
      PROVE  IsAt(q, p)
  <2>1. SubSeq(q, 1, Len(p)) = p
    BY <1>2, <1>4, SeqEqual DEF Paths
  <2> QED
    BY <1>4, <2>1 DEF IsAt
<1> QED
  BY <1>3, <1>4

LEMMA IsAtTransitive ==
  ASSUME NEW q \in Paths, NEW p \in Paths, NEW o \in Paths,
         IsAt(q, p), IsAt(p, o)
  PROVE  IsAt(q, o)
<1>1. Len(q) \in Nat /\ Len(p) \in Nat /\ Len(o) \in Nat
  BY PathFacts
<1> QED
  BY <1>1, IsAtFacts

LEMMA IsAtSame ==
  ASSUME NEW p \in Paths
  PROVE  IsAt(p, p)
BY IsAtFacts, PathFacts

(* What is in a part is in the whole.                                      *)
LEMMA IsInPart ==
  ASSUME NEW q \in Paths, NEW p \in Paths, NEW o \in Paths,
         IsIn(q, p), IsAt(p, o)
  PROVE  IsIn(q, o)
<1>1. IsAt(q, o)
  BY IsAtTransitive DEF IsIn
<1>2. ASSUME q = o
      PROVE  FALSE
  <2>1. Len(q) \in Nat /\ Len(p) \in Nat /\ Len(q) = Len(p)
    BY <1>2, PathFacts, IsAtFacts DEF IsIn
  <2>2. \A k \in 1..Len(p) : q[k] = p[k]
    BY IsAtFacts DEF IsIn
  <2>3. q = p
    BY <2>1, <2>2, SeqEqual DEF Paths
  <2> QED
    BY <2>3 DEF IsIn
<1> QED
  BY <1>1, <1>2 DEF IsIn

LEMMA AppendIsIn ==
  ASSUME NEW p \in Paths, NEW i \in Nat
  PROVE  IsIn(Append(p, i), p) /\ IsAt(Append(p, i), p)
<1>1. /\ IsSeq(p)
      /\ Len(p) \in Nat
      /\ Append(p, i) \in Paths
  BY PathFacts, AppendPath
<1>2. /\ Len(Append(p, i)) = Len(p) + 1
      /\ \A k \in 1..Len(p) : Append(p, i)[k] = p[k]
  BY <1>1, AppendFacts
<1>3. Append(p, i) # p
  BY <1>1, <1>2
<1>4. IsAt(Append(p, i), p)
  <2> DEFINE q == Append(p, i)
  <2>1. q \in Paths /\ Len(q) >= Len(p) /\ \A k \in 1..Len(p) : q[k] = p[k]
    BY <1>1, <1>2
  <2> HIDE DEF q
  <2>2. IsAt(q, p)
    BY <2>1, IsAtFacts
  <2> QED
    BY <2>2 DEF q
<1> QED
  BY <1>3, <1>4 DEF IsIn

AreCases(t, P) == P \subseteq 1..NCases(t)

LEMMA WithPointersFields ==
  ASSUME NEW s, NEW t, NEW o, NEW P, Shape(s), o \in Paths,
         Kind[t] = "union", t \in Types, AreCases(t, P)
  PROVE  LET x == WithPointers(s, t, o, P)
         IN /\ Shape(x)
            /\ DOMAIN x = DOMAIN s
            /\ x.value = s.value
            /\ x.active_index_ = s.active_index_
            /\ x.meant = s.meant
            /\ x.mixed = s.mixed
            /\ x.fresh = s.fresh
            /\ \A q \in x.caseptr_tuple_ :
                 q \in s.caseptr_tuple_ \/ \E c \in Nat : q = Pointee(t, o, c)
            /\ \A c \in P : HasPointer(x, t, o, c)
            /\ P = {} => \A c \in 1..NCases(t) : ~HasPointer(x, t, o, c)
<1> DEFINE x == WithPointers(s, t, o, P)
           rest == {q \in s.caseptr_tuple_ :
                      ~(IsIn(q, o) /\ q[Len(o) + 1] > NCases(t))}
           added == {Pointee(t, o, c) : c \in P}
<1>1. /\ DOMAIN x = DOMAIN s
      /\ x.value = s.value
      /\ x.active_index_ = s.active_index_
      /\ x.meant = s.meant
      /\ x.mixed = s.mixed
      /\ x.fresh = s.fresh
      /\ x.caseptr_tuple_ = rest \cup added
  BY DEF WithPointers, Shape, GoodObject, ObjectFields
<1>2. GoodObject(x)
  BY WithPointersIsGood DEF Shape
<1> HIDE DEF x
<1>3. NCases(t) \in Nat
  BY CaseFacts
<1>4. \A c \in Nat : Pointee(t, o, c) \in Paths
  BY <1>3, AppendPath DEF Pointee
<1>5. P \subseteq Nat
  BY <1>3 DEF AreCases
<1>6. Shape(x)
  BY <1>1, <1>2, <1>4, <1>5 DEF Shape
<1>7. \A q \in x.caseptr_tuple_ :
        q \in s.caseptr_tuple_ \/ \E c \in Nat : q = Pointee(t, o, c)
  BY <1>1, <1>5
<1>8. \A c \in P : HasPointer(x, t, o, c)
  BY <1>1 DEF HasPointer
<1>9. ASSUME P = {}, NEW c \in 1..NCases(t)
      PROVE  ~HasPointer(x, t, o, c)
  <2> DEFINE q == Pointee(t, o, c)
  <2>1. added = {}
    BY <1>9
  <2>2. IsSeq(o) /\ Len(o) \in Nat /\ NCases(t) + c \in Nat
    BY <1>3, PathFacts
  <2>3. /\ q[Len(o) + 1] = NCases(t) + c
        /\ Len(q) = Len(o) + 1
    BY <2>2, AppendFacts DEF Pointee
  <2>4. IsIn(q, o)
    BY <2>2, AppendIsIn DEF Pointee
  <2>5. NCases(t) + c > NCases(t)
    BY <1>3
  <2> QED
    BY <1>1, <2>1, <2>3, <2>4, <2>5 DEF HasPointer
<1> QED
  BY <1>1, <1>6, <1>7, <1>8, <1>9 DEF x

LEMMA SetActiveIndexFields ==
  ASSUME NEW s, NEW o \in Paths, NEW a, Shape(s)
  PROVE  LET x == SetActiveIndex(s, o, a)
         IN /\ Shape(x)
            /\ DOMAIN x = DOMAIN s
            /\ x.value = s.value
            /\ x.meant = s.meant
            /\ x.caseptr_tuple_ = s.caseptr_tuple_
            /\ x.mixed = s.mixed
            /\ x.fresh = s.fresh
            /\ ActiveIndex(x, o) = a
            /\ \A p : p # o => ActiveIndex(x, p) = ActiveIndex(s, p)
<1> DEFINE x == SetActiveIndex(s, o, a)
<1>1. /\ DOMAIN x = DOMAIN s
      /\ x.value = s.value
      /\ x.active_index_ = Put(s.active_index_, o, a)
      /\ x.meant = s.meant
      /\ x.caseptr_tuple_ = s.caseptr_tuple_
      /\ x.mixed = s.mixed
      /\ x.fresh = s.fresh
  BY DEF SetActiveIndex, Shape, GoodObject, ObjectFields
<1>2. GoodObject(x)
  BY SetActiveIndexIsGood DEF Shape
<1> HIDE DEF x
<1>3. DOMAIN x.active_index_ \subseteq Paths
  BY <1>1 DEF Put, Shape
<1>4. Shape(x)
  BY <1>1, <1>2, <1>3 DEF Shape
<1>5. ActiveIndex(x, o) = a
  BY <1>1 DEF ActiveIndex, Put
<1>6. \A p : p # o => ActiveIndex(x, p) = ActiveIndex(s, p)
  BY <1>1 DEF ActiveIndex, Put
<1> QED
  BY <1>1, <1>4, <1>5, <1>6 DEF x

(* The case c of the union at o, put there by its case pointer or noted    *)
(* once it was read through it.                                            *)
LEMMA MeantFields ==
  ASSUME NEW w, NEW o \in Paths, NEW c \in Nat, Shape(w), NEW x,
         DOMAIN x = DOMAIN w, x.value = w.value,
         x.active_index_ = w.active_index_, x.meant = Put(w.meant, o, c),
         x.caseptr_tuple_ = w.caseptr_tuple_, x.mixed = w.mixed,
         x.fresh \in BOOLEAN
  PROVE  /\ Shape(x)
         /\ At(x.meant, o) = c
         /\ \A p : p # o => At(x.meant, p) = At(w.meant, p)
<1>1. GoodObject(x)
  BY DEF Shape, GoodObject
<1>2. DOMAIN x.meant \subseteq Paths
  BY DEF Put, Shape
<1>3. Shape(x)
  BY <1>1, <1>2 DEF Shape
<1>4. At(x.meant, o) = c /\ \A p : p # o => At(x.meant, p) = At(w.meant, p)
  BY DEF At, Put
<1> QED
  BY <1>3, <1>4

(* set_active_index(I), after case c was read through its pointer.         *)
Activated(s, o, c) ==
  [SetActiveIndex(s, o, c - 1) EXCEPT !.meant = Put(@, o, c)]

LEMMA ActivatedOK ==
  ASSUME NEW s, NEW r, ObjectOK(s, r), NEW t, NEW o, Placed(r, t, o),
         Kind[t] = "union", NEW c \in 1..NCases(t), HasPointer(s, t, o, c)
  PROVE  /\ ObjectOK(Activated(s, o, c), r)
         /\ KeepsPointers(s, Activated(s, o, c), o)
<1> DEFINE w == SetActiveIndex(s, o, c - 1)
           x == Activated(s, o, c)
<1>1. o \in Paths /\ c \in Nat /\ Shape(s)
  BY DEF Placed, ObjectOK
<1>2. /\ Shape(w)
      /\ w.value = s.value
      /\ w.meant = s.meant
      /\ w.caseptr_tuple_ = s.caseptr_tuple_
      /\ w.mixed = s.mixed
      /\ ActiveIndex(w, o) = c - 1
      /\ \A p : p # o => ActiveIndex(w, p) = ActiveIndex(s, p)
  BY <1>1, SetActiveIndexFields
<1>3. x = [w EXCEPT !.meant = Put(w.meant, o, c)]
  BY DEF Activated
<1> HIDE DEF w, x
<1>4. /\ DOMAIN x = DOMAIN w
      /\ x.value = w.value
      /\ x.active_index_ = w.active_index_
      /\ x.meant = Put(w.meant, o, c)
      /\ x.caseptr_tuple_ = w.caseptr_tuple_
      /\ x.mixed = w.mixed
      /\ x.fresh \in BOOLEAN
  BY <1>2, <1>3 DEF Shape, GoodObject, ObjectFields
<1>5. Shape(x)
  BY <1>1, <1>2, <1>4, MeantFields
<1>6. At(x.meant, o) = c /\ \A p : p # o => At(x.meant, p) = At(w.meant, p)
  BY <1>1, <1>2, <1>4, MeantFields
<1>7. ~s.mixed => Which(s, o) = 0
  BY DEF ObjectOK, NodeOK, UnionOK
<1>8. ActiveIndex(x, o) = c - 1 /\ Which(x, o) = Which(s, o)
  BY <1>2, <1>4 DEF ActiveIndex, Which
<1>9. UnionOK(x, t, o)
  BY <1>1, <1>2, <1>4, <1>6, <1>7, <1>8 DEF UnionOK
<1>10. \A p : p # o => Alike(s, x, p)
  BY <1>2, <1>4, <1>6 DEF Alike, ActiveIndex
<1>11. ObjectOK(x, r)
  BY <1>2, <1>4, <1>5, <1>9, <1>10, UnionChangeOK
<1> QED
  BY <1>2, <1>4, <1>11 DEF KeepsPointers, x

LEMMA DefaultOK ==
  ASSUME NEW r
  PROVE  ObjectOK(Default, r)
<1>1. Shape(Default)
  BY EmptyNumbers, EmptySeq DEF Shape, Default
<1>2. ASSUME NEW t, NEW p
      PROVE  NodeOK(Default, t, p)
  <2>1. At(Default.value, p) = 0 /\ ActiveIndex(Default, p) = -1
    BY DEF Default, At, ActiveIndex
  <2> QED
    BY <2>1 DEF NodeOK, Sized, Fits, UnionOK, Which
<1> QED
  BY <1>1, <1>2 DEF ObjectOK

(* Every operation of match::Union.                                        *)
LEMMA UnionOperationsOK ==
  ASSUME NEW s, NEW r, ObjectOK(s, r), NEW t, NEW o, Placed(r, t, o),
         Kind[t] = "union", NEW c \in 1..NCases(t), NEW a,
         NEW P, AreCases(t, P)
  PROVE  /\ ObjectOK(AssignVariant(s, t, o, c), r)
         /\ ObjectOK(AssignCase(s, t, o, c, a), r)
         /\ c \in P => ObjectOK(SetCaseptrTupleForWriting(s, t, o, P, c), r)
         /\ ObjectOK(SetCaseptrTupleForReading(s, t, o, P), r)
         /\ ObjectOK(ResetCaseptrTuple(s, o), r)
<1>1. Shape(s) /\ o \in Paths /\ t \in Types /\ c \in Nat
  BY PlacedIsType DEF ObjectOK
<1>2. ObjectOK(AssignVariant(s, t, o, c), r)
  BY WithVariantOK DEF AssignVariant, ObjectOK, ElsewhereOK
<1>3. ObjectOK(AssignCase(s, t, o, c, a), r)
  <2> DEFINE w == WithPointers(s, t, o, {})
             x == [w EXCEPT !.active_index_ = Put(w.active_index_, o, a)]
  <2> AreCases(t, {})
    BY DEF AreCases
  <2>1. /\ Shape(w)
        /\ w.value = s.value
        /\ w.active_index_ = s.active_index_
        /\ w.meant = s.meant
        /\ w.mixed = s.mixed
        /\ \A q \in w.caseptr_tuple_ :
             q \in s.caseptr_tuple_ \/ \E d \in Nat : q = Pointee(t, o, d)
        /\ \A d \in 1..NCases(t) : ~HasPointer(w, t, o, d)
    BY <1>1, WithPointersFields
  <2>2. AssignCase(s, t, o, c, a) = WithVariant(x, t, o, c)
    BY DEF AssignCase
  <2> HIDE DEF w
  <2>3. x = SetActiveIndex(w, o, a)
    BY DEF SetActiveIndex
  <2>4. /\ Shape(x)
        /\ x.value = w.value
        /\ x.meant = w.meant
        /\ x.caseptr_tuple_ = w.caseptr_tuple_
        /\ x.mixed = w.mixed
        /\ \A p : p # o => ActiveIndex(x, p) = ActiveIndex(w, p)
    BY <1>1, <2>1, <2>3, SetActiveIndexFields
  <2> HIDE DEF x
  <2>5. \A p : p # o => Alike(s, x, p)
    BY <2>1, <2>4 DEF Alike, ActiveIndex
  <2>6. ElsewhereOK(s, r, o)
    BY DEF ObjectOK, ElsewhereOK
  <2>7. ElsewhereOK(x, r, o)
    BY <1>1, <2>1, <2>4, <2>5, <2>6, UnionChange
  <2> QED
    BY <2>2, <2>7, WithVariantOK
<1>4. ASSUME c \in P
      PROVE  ObjectOK(SetCaseptrTupleForWriting(s, t, o, P, c), r)
  <2> DEFINE w == WithPointers(s, t, o, P)
             x == SetActiveIndex(w, o, c - 1)
             y == [x EXCEPT !.meant = Put(x.meant, o, c), !.fresh = FALSE]
             z == SetCaseptrTupleForWriting(s, t, o, P, c)
  <2>1. /\ Shape(w)
        /\ w.value = s.value
        /\ w.active_index_ = s.active_index_
        /\ w.meant = s.meant
        /\ w.mixed = s.mixed
        /\ \A q \in w.caseptr_tuple_ :
             q \in s.caseptr_tuple_ \/ \E d \in Nat : q = Pointee(t, o, d)
        /\ HasPointer(w, t, o, c)
    BY <1>1, <1>4, WithPointersFields
  <2> HIDE DEF w
  <2>2. /\ Shape(x)
        /\ x.value = w.value
        /\ x.meant = w.meant
        /\ x.caseptr_tuple_ = w.caseptr_tuple_
        /\ x.mixed = w.mixed
        /\ ActiveIndex(x, o) = c - 1
        /\ \A p : p # o => ActiveIndex(x, p) = ActiveIndex(w, p)
    BY <1>1, <2>1, SetActiveIndexFields
  <2> HIDE DEF x
  <2>3. /\ DOMAIN y = DOMAIN x
        /\ y.value = x.value
        /\ y.active_index_ = x.active_index_
        /\ y.meant = Put(x.meant, o, c)
        /\ y.caseptr_tuple_ = x.caseptr_tuple_
        /\ y.mixed = x.mixed
        /\ y.fresh \in BOOLEAN
    BY <2>2 DEF Shape, GoodObject, ObjectFields
  <2>4. z = Noted(y, t, o)
    BY DEF SetCaseptrTupleForWriting, w, x
  <2> HIDE DEF y
  <2>5. Shape(y)
    BY <1>1, <2>2, <2>3, MeantFields
  <2>6. At(y.meant, o) = c /\ \A p : p # o => At(y.meant, p) = At(x.meant, p)
    BY <1>1, <2>2, <2>3, MeantFields
  <2>7. /\ Shape(z)
        /\ z.value = y.value
        /\ z.active_index_ = y.active_index_
        /\ z.meant = y.meant
        /\ z.caseptr_tuple_ = y.caseptr_tuple_
        /\ y.mixed => z.mixed
        /\ ~z.mixed /\ Which(z, o) # 0 =>
             \A d \in 1..NCases(t) : ~HasPointer(z, t, o, d)
    BY <2>4, <2>5, NotedFields
  <2> HIDE DEF z
  <2>8. HasPointer(z, t, o, c)
    BY <2>1, <2>2, <2>3, <2>7 DEF HasPointer
  <2>9. ActiveIndex(z, o) = c - 1 /\ At(z.meant, o) = c
    BY <2>2, <2>3, <2>6, <2>7 DEF ActiveIndex
  <2>10. UnionOK(z, t, o)
    BY <1>1, <2>7, <2>8, <2>9 DEF UnionOK
  <2>11. \A p : p # o => Alike(s, z, p)
    BY <2>1, <2>2, <2>3, <2>6, <2>7 DEF Alike, ActiveIndex
  <2>12. \A q \in z.caseptr_tuple_ :
           q \in s.caseptr_tuple_ \/ \E d \in Nat : q = Pointee(t, o, d)
    BY <2>1, <2>2, <2>3, <2>7
  <2>13. s.mixed => z.mixed
    BY <2>1, <2>2, <2>3, <2>7
  <2>14. ObjectOK(z, r)
    BY <2>7, <2>10, <2>11, <2>12, <2>13, UnionChangeOK
  <2> QED
    BY <2>14 DEF z
<1>5. ObjectOK(SetCaseptrTupleForReading(s, t, o, P), r)
  <2> DEFINE w == WithPointers(s, t, o, P)
             z == Noted(w, t, o)
  <2>1. /\ Shape(w)
        /\ w.value = s.value
        /\ w.active_index_ = s.active_index_
        /\ w.meant = s.meant
        /\ w.mixed = s.mixed
        /\ \A q \in w.caseptr_tuple_ :
             q \in s.caseptr_tuple_ \/ \E d \in Nat : q = Pointee(t, o, d)
    BY <1>1, WithPointersFields
  <2> HIDE DEF w
  <2>2. /\ Shape(z)
        /\ z.value = w.value
        /\ z.active_index_ = w.active_index_
        /\ z.meant = w.meant
        /\ z.caseptr_tuple_ = w.caseptr_tuple_
        /\ w.mixed => z.mixed
        /\ ~z.mixed /\ Which(z, o) # 0 =>
             \A d \in 1..NCases(t) : ~HasPointer(z, t, o, d)
    BY <2>1, NotedFields
  <2> HIDE DEF z
  <2>3. \A p : Alike(s, z, p)
    BY <2>1, <2>2 DEF Alike, ActiveIndex
  <2>4. UnionOK(s, t, o)
    BY DEF ObjectOK, NodeOK
  <2>5. UnionOK(z, t, o)
    BY <2>1, <2>2, <2>3, <2>4 DEF UnionOK, Alike, Which
  <2>6. \A q \in z.caseptr_tuple_ :
          q \in s.caseptr_tuple_ \/ \E d \in Nat : q = Pointee(t, o, d)
    BY <2>1, <2>2
  <2>7. ObjectOK(z, r)
    BY <2>1, <2>2, <2>3, <2>5, <2>6, UnionChangeOK
  <2> QED
    BY <2>7 DEF SetCaseptrTupleForReading, z, w
<1>6. ObjectOK(ResetCaseptrTuple(s, o), r)
  <2> DEFINE x == SetActiveIndex(s, o, -1)
  <2>1. /\ Shape(x)
        /\ x.value = s.value
        /\ x.meant = s.meant
        /\ x.caseptr_tuple_ = s.caseptr_tuple_
        /\ x.mixed = s.mixed
        /\ ActiveIndex(x, o) = -1
        /\ \A p : p # o => ActiveIndex(x, p) = ActiveIndex(s, p)
    BY <1>1, SetActiveIndexFields
  <2> HIDE DEF x
  <2>2. \A p : p # o => Alike(s, x, p)
    BY <2>1 DEF Alike
  <2>3. UnionOK(s, t, o)
    BY DEF ObjectOK, NodeOK
  <2>4. UnionOK(x, t, o)
    BY <2>1, <2>3 DEF UnionOK, Which, HasPointer
  <2>5. ObjectOK(x, r)
    BY <2>1, <2>2, <2>4, UnionChangeOK
  <2> QED
    BY <2>5 DEF ResetCaseptrTuple, x
<1> QED
  BY <1>2, <1>3, <1>4, <1>5, <1>6

-----------------------------------------------------------------------------
(* Elements that are leaves.                                               *)

LEMMA IsInLonger ==
  ASSUME NEW q \in Paths, NEW p \in Paths, IsIn(q, p)
  PROVE  /\ q[Len(p) + 1] \in Nat
         /\ IsAt(q, Append(p, q[Len(p) + 1]))
<1> DEFINE n == Len(p)
           i == q[n + 1]
           a == Append(p, i)
<1>1. /\ n \in Nat
      /\ Len(q) \in Nat
      /\ IsSeq(p)
      /\ \A k \in 1..Len(q) : q[k] \in Nat
  BY PathFacts
<1>2. Len(q) >= n /\ \A k \in 1..n : q[k] = p[k]
  BY IsAtFacts DEF IsIn
<1>3. Len(q) # n
  BY <1>1, <1>2, SeqEqual DEF Paths, IsIn
<1>4. Len(q) >= n + 1 /\ i \in Nat
  BY <1>1, <1>2, <1>3
<1>5. /\ a \in Paths
      /\ Len(a) = n + 1
      /\ \A k \in 1..n : a[k] = p[k]
      /\ a[n + 1] = i
  BY <1>1, <1>4, AppendPath, AppendFacts
<1>6. \A k \in 1..Len(a) : q[k] = a[k]
  BY <1>1, <1>2, <1>5
<1> HIDE DEF a
<1>7. IsAt(q, a)
  BY <1>4, <1>5, <1>6, IsAtFacts
<1> QED
  BY <1>4, <1>7 DEF a

LEMMA LeafHasNoParts ==
  ASSUME NEW t, Kind[t] \in Leaves, NEW i, NEW u
  PROVE  ~IsPart(t, i, u)
BY DEF IsPart, Leaves, Aggregates, Wrappers

LEMMA LeafElements ==
  ASSUME NEW r, NEW t, NEW o, Placed(r, t, o), Kind[t] \in Wrappers,
         Kind[Parts[t][1]] \in Leaves, NEW u, NEW q, Placed(r, u, q), IsIn(q, o)
  PROVE  u = Parts[t][1] /\ \E k \in Nat : q = Append(o, k)
<1> DEFINE k == q[Len(o) + 1]
           a == Append(o, k)
<1>1. q \in Paths /\ o \in Paths
  BY DEF Placed
<1>2. k \in Nat /\ IsAt(q, a)
  BY <1>1, IsInLonger
<1> HIDE DEF k
<1>3. a \in Paths
  BY <1>1, <1>2, AppendPath
<1>4. Placed(r, Parts[t][1], a)
  BY <1>2, PlacedPart DEF IsPart
<1> HIDE DEF a
<1>5. PICK v : /\ Placed(r, v, a)
               /\ q # a => \E w : IsPart(v, q[Len(a) + 1], w)
  BY <1>2, <1>3, PlacedAt
<1>6. v = Parts[t][1]
  BY <1>4, <1>5, PlacedUnique
<1>7. q = a
  BY <1>5, <1>6, LeafHasNoParts
<1>8. u = Parts[t][1]
  BY <1>4, <1>7, PlacedUnique
<1> QED
  BY <1>2, <1>7, <1>8 DEF a

(* copy_primitive_seq of values that fit.                                  *)
LEMMA WithElementsOK ==
  ASSUME NEW s, NEW r, ObjectOK(s, r), Placed(r, Current.type, Current.o),
         Kind[Current.type] \in Wrappers, Kind[ElementType] \in Leaves,
         NEW n \in Nat, Numbers(instance),
         \A k \in 1..n : Fits(ElementType, At(instance, Append(Current.i, k)))
  PROVE  /\ ObjectOK(WithElements(s, n), r)
         /\ KeepsPointers(s, WithElements(s, n), Current.o)
<1> DEFINE o == Current.o
           i == Current.i
           kept == {q \in DOMAIN s.value : ~IsIn(q, o) \/ q[Len(o) + 1] > n}
           elements == {Append(o, k) : k \in
                          {k \in 1..n : At(instance, Append(i, k)) # 0}}
           v == [q \in kept \cup elements |->
                   IF q \in elements THEN instance[Append(i, q[Len(q)])]
                   ELSE s.value[q]]
           x == WithElements(s, n)
<1>1. x = [s EXCEPT !.value = v]
  BY DEF WithElements
<1>2. o \in Paths /\ IsSeq(o) /\ Len(o) \in Nat
  BY PathFacts DEF Placed
<1>3. Shape(s)
  BY DEF ObjectOK
<1>4. \A k \in 1..n : Append(o, k) \in Paths /\ IsIn(Append(o, k), o)
  BY <1>2, AppendPath, AppendIsIn
<1>5. GoodObject(x)
  BY <1>2, <1>3, WithElementsIsGood DEF Shape
<1>6. DOMAIN v \subseteq Paths
  BY <1>3, <1>4 DEF Shape
<1>7. ASSUME NEW q, ~IsIn(q, o)
      PROVE  At(v, q) = At(s.value, q)
  <2>1. q \notin elements
    BY <1>4, <1>7
  <2> HIDE DEF elements
  <2> QED
    BY <1>7, <2>1 DEF At
<1>8. ASSUME NEW k \in Nat, Fits(ElementType, At(s.value, Append(o, k)))
      PROVE  Fits(ElementType, At(v, Append(o, k)))
  <2> DEFINE q == Append(o, k)
  <2>1. q[Len(q)] = k /\ q[Len(o) + 1] = k
    BY <1>2, AppendFacts
  <2>2. CASE q \in elements
    <3>1. PICK j \in 1..n : q = Append(o, j) /\ At(instance, Append(i, j)) # 0
      BY <2>2
    <3>2. j = k
      BY <1>2, <2>1, <3>1, AppendFacts
    <3>3. At(v, q) = At(instance, Append(i, k))
      <4>1. At(v, q) = instance[Append(i, q[Len(q)])]
        BY <2>2 DEF At
      <4> HIDE DEF q
      <4> QED
        BY <2>1, <3>1, <3>2, <4>1 DEF At
    <3> QED
      BY <3>1, <3>2, <3>3
  <2>3. CASE q \notin elements
    <3>1. At(v, q) \in {At(s.value, q), 0}
      <4> HIDE DEF elements, q
      <4> QED
        BY <2>3 DEF At
    <3> QED
      BY <1>8, <3>1 DEF Fits
  <2> QED
    BY <2>2, <2>3
<1> HIDE DEF v
<1>9. SameFields(s, x) /\ x.value = v
  BY <1>1, <1>3 DEF Shape, GoodObject, ObjectFields, SameFields
<1> HIDE DEF x
<1>10. Shape(x)
  BY <1>3, <1>5, <1>6, <1>9 DEF Shape, SameFields
<1>11. ASSUME NEW u, NEW q, Placed(r, u, q)
       PROVE  NodeOK(x, u, q)
  <2>1. NodeOK(s, u, q)
    BY <1>11 DEF ObjectOK
  <2>2. CASE IsIn(q, o)
    <3>1. u = ElementType /\ \E k \in Nat : q = Append(o, k)
      BY <1>11, <2>2, LeafElements DEF ElementType
    <3>2. Fits(u, At(x.value, q))
      BY <1>8, <1>9, <2>1, <3>1 DEF NodeOK, Sized
    <3> QED
      BY <3>1, <3>2 DEF NodeOK, Sized, Leaves, Aggregates
  <2>3. CASE ~IsIn(q, o)
    <3>1. Keeps(s, x, u, q)
      BY <1>7, <1>9, <2>3
         DEF Keeps, SameFields, Alike, ActiveIndex, HasPointer
    <3> QED
      BY <2>1, <3>1, KeepsNode
  <2> QED
    BY <2>2, <2>3
<1> QED
  BY <1>9, <1>10, <1>11 DEF ObjectOK, KeepsPointers, SameFields, x

-----------------------------------------------------------------------------
(* What is found in an object has its place there.                         *)

LEMMA CasePlaced ==
  ASSUME NEW s, NEW r, NEW t, NEW o, Placed(r, t, o), Kind[t] = "union",
         NEW c \in 1..NCases(t)
  PROVE  /\ Placed(r, CaseType(t, c), Append(o, c))
         /\ Placed(r, CaseType(t, c), Pointee(t, o, c))
         /\ Placed(r, CaseType(t, c), DataOf(s, t, o, c))
<1>1. t \in Types /\ NCases(t) \in Nat
  BY PlacedIsType, CaseFacts
<1>2. c \in Nat /\ NCases(t) + c \in Nat
  BY <1>1
<1>3. /\ IsPart(t, c, CaseType(t, c))
      /\ IsPart(t, NCases(t) + c, CaseType(t, c))
  BY DEF IsPart
<1>4. /\ Placed(r, CaseType(t, c), Append(o, c))
      /\ Placed(r, CaseType(t, c), Append(o, NCases(t) + c))
  BY <1>2, <1>3, PlacedPart
<1> QED
  BY <1>4 DEF DataOf, Pointee

LEMMA InsidePlaced ==
  ASSUME NEW s, Numbers(s.value), NEW r, NEW n \in Places,
         Placed(r, n.type, n.path), NEW m \in Inside(s, n)
  PROVE  Placed(r, m.type, m.path)
<1>1. n.type \in Types /\ n.path \in Paths /\ n.place \in Paths
  BY DEF Places
<1>2. ASSUME NEW k \in DOMAIN Parts[n.type], NEW i \in Nat, m = Part(n, k, i),
             IsPart(n.type, i, Parts[n.type][k])
      PROVE  Placed(r, m.type, m.path)
  <2>1. m.type = Parts[n.type][k] /\ m.path = Append(n.path, i)
    BY <1>2 DEF Part, Node
  <2> QED
    BY <1>2, <2>1, PlacedPart
<1>3. CASE Kind[n.type] \in Leaves
  BY <1>3 DEF Inside, Leaves, Aggregates, Wrappers
<1>4. CASE Kind[n.type] \in Aggregates
  <2>1. PICK k \in DOMAIN Parts[n.type] : m = Part(n, k, k)
    BY <1>4 DEF Inside, Leaves, Aggregates, Wrappers
  <2>2. k \in Nat
    BY <1>1, TypesAreAdapted, LenProperties
  <2>3. IsPart(n.type, k, Parts[n.type][k])
    BY <1>4 DEF IsPart
  <2> QED
    BY <1>2, <2>1, <2>2, <2>3
<1>5. CASE Kind[n.type] \in Wrappers
  <2>1. LengthOf(s, n) \in Nat
    BY ConversionConstants DEF LengthOf, At, Numbers
  <2>2. PICK i \in 1..LengthOf(s, n) : m = Part(n, 1, i)
    BY <1>5 DEF Inside, Leaves, Aggregates, Wrappers
  <2>3. 1 \in DOMAIN Parts[n.type] /\ i \in Nat
    BY <1>1, <1>5, <2>1, <2>2, WrapperFacts
  <2>4. IsPart(n.type, i, Parts[n.type][1])
    BY <1>5 DEF IsPart
  <2> QED
    BY <1>2, <2>2, <2>3, <2>4
<1>6. CASE Kind[n.type] = "union"
  <2> DEFINE t == n.type
             o == n.path
  <2>1. PICK c \in 1..NCases(t) :
          m = Node(CaseType(t, c), DataOf(s, t, o, c), Append(n.place, c))
    BY <1>6 DEF Inside, Leaves, Aggregates, Wrappers
  <2>2. m.type = CaseType(t, c) /\ m.path = DataOf(s, t, o, c)
    BY <2>1 DEF Node
  <2>3. Placed(r, CaseType(t, c), DataOf(s, t, o, c))
    BY <1>1, <1>6, CasePlaced
  <2> QED
    BY <2>2, <2>3
<1> QED
  BY <1>1, <1>3, <1>4, <1>5, <1>6, TypesAreAdapted DEF Kinds

LEMMA NodesPlaced ==
  ASSUME NEW s, Numbers(s.value), root \in Types, NEW n \in Nodes(s)
  PROVE  n \in Places /\ Placed(root, n.type, n.path)
<1> DEFINE G == {m \in Places : Placed(root, m.type, m.path)}
<1>1. Top \in G
  <2>1. <<>> \in Paths
    BY EmptySeq DEF Paths
  <2> QED
    BY <2>1, PlacedTop DEF Top, Node, Places
<1>2. \A m \in G : Inside(s, m) \subseteq G
  BY InsidePlaced, InsideIsLower
<1>3. Nodes(s) \subseteq G
  <2> HIDE DEF G
  <2>1. G \subseteq Places
    BY DEF G
  <2> QED
    BY <1>1, <1>2, <2>1, NodesInduction
<1> QED
  BY <1>3

(* A union found in an object that is not mixed writes what it means, or   *)
(* throws.                                                                 *)
LEMMA UnionWritesItsMeaning ==
  ASSUME NEW s, NEW t \in Types, NEW o, Kind[t] = "union", UnionOK(s, t, o),
         ~s.mixed, ~SetUnionThrows(s, t, o)
  PROVE  s.meant[o] = CaseToSet(s, t, o)
<1> DEFINE c == CaseToSet(s, t, o)
<1>1. c # 0 /\ (HasPointer(s, t, o, c) \/ Which(s, o) = c)
  BY DEF SetUnionThrows
<1>2. c \in 1..NCases(t) /\ (c - 1 = ActiveIndex(s, o) \/ c = Which(s, o))
  BY <1>1, FirstOfIsIn DEF CaseToSet
<1> HIDE DEF c
<1>3. c \in Nat /\ c > 0
  BY <1>2
<1>4. CASE Which(s, o) # 0
  <2>1. Which(s, o) = c /\ At(s.meant, o) = Which(s, o)
    BY <1>1, <1>2, <1>4 DEF UnionOK
  <2> QED
    BY <1>3, <2>1 DEF At, c
<1>5. CASE Which(s, o) = 0
  <2>1. c - 1 = ActiveIndex(s, o)
    BY <1>2, <1>3, <1>5
  <2>2. ActiveIndex(s, o) # -1 /\ ActiveIndex(s, o) + 1 = c
    BY <1>3, <2>1
  <2>3. At(s.meant, o) = c
    BY <1>5, <2>2 DEF UnionOK
  <2> QED
    BY <1>3, <2>3 DEF At, c
<1> QED
  BY <1>4, <1>5

-----------------------------------------------------------------------------
(* What is where in an instance.  The base of a class, what an optional or *)
(* a smart pointer holds, and their own base and so on are in one place    *)
(* with it.                                                                *)

Shares(t) == Kind[t] \in {"derived", "optional", "smart_ptr"}

Within(t) ==
  {u \in Types :
     \A S \in SUBSET Types :
       /\ t \in S
       /\ \A x \in S : Shares(x) => Parts[x][1] \in S
       => u \in S}

IsMember(t, m, u) ==
  /\ m \in Nat
  /\ \/ /\ Kind[t] \in Aggregates
        /\ \E k \in DOMAIN OwnMembers(t) :
             m = MembersInBases[t] + k /\ u = OwnMembers(t)[k]
     \/ /\ Kind[t] \in {"sequence", "vector", "range", "array"}
        /\ u = Parts[t][1]
     \/ /\ Kind[t] = "union"
        /\ m \in 1..NCases(t)
        /\ u = CaseType(t, m)

LEMMA SharedPart ==
  ASSUME NEW t \in Types, Shares(t)
  PROVE  Parts[t][1] \in Types
<1>1. 1 \in DOMAIN Parts[t]
  <2>1. CASE Kind[t] = "derived"
    <3>1. Parts[t] \in Seq(Types) /\ Len(Parts[t]) > 1
      BY <2>1, TypesAreAdapted
    <3> QED
      BY <3>1, LenProperties
  <2>2. CASE Kind[t] \in Wrappers
    BY <2>2, WrapperFacts
  <2> QED
    BY <2>1, <2>2 DEF Shares, Wrappers
<1> QED
  BY <1>1, PartFacts

LEMMA WithinItself ==
  ASSUME NEW t \in Types
  PROVE  t \in Within(t)
BY DEF Within

LEMMA WithinNext ==
  ASSUME NEW t, NEW u \in Within(t), Shares(u)
  PROVE  Parts[u][1] \in Within(t)
BY SharedPart DEF Within

LEMMA WithinInduction ==
  ASSUME NEW t, NEW S, S \subseteq Types, t \in S,
         \A x \in S : Shares(x) => Parts[x][1] \in S,
         NEW u \in Within(t)
  PROVE  u \in S
BY DEF Within

LEMMA WithinUnfold ==
  ASSUME NEW t \in Types, NEW u \in Within(t)
  PROVE  u = t \/ (Shares(t) /\ u \in Within(Parts[t][1]))
<1> DEFINE S == {t} \cup {x \in Types : Shares(t) /\ x \in Within(Parts[t][1])}
<1>1. ASSUME NEW x \in S, Shares(x)
      PROVE  Parts[x][1] \in S
  <2>1. Parts[x][1] \in Types
    BY <1>1, SharedPart
  <2>2. CASE x = t
    BY <1>1, <2>1, <2>2, WithinItself
  <2>3. CASE x # t
    BY <1>1, <2>1, <2>3, WithinNext
  <2> QED
    BY <2>2, <2>3
<1>2. u \in S
  <2>1. S \subseteq Types /\ t \in S
    OBVIOUS
  <2> HIDE DEF S
  <2> QED
    BY <1>1, <2>1, WithinInduction
<1> QED
  BY <1>2

(* One of two types in a place is in the other.                            *)
LEMMA WithinEither ==
  ASSUME NEW e \in Types, NEW t \in Within(e), NEW u \in Within(e)
  PROVE  t \in Within(u) \/ u \in Within(t)
<1> DEFINE S == {x \in Types : x \in Within(u) \/ u \in Within(x)}
<1>1. ASSUME NEW x \in S, Shares(x)
      PROVE  Parts[x][1] \in S
  <2>1. Parts[x][1] \in Types
    BY <1>1, SharedPart
  <2>2. CASE x \in Within(u)
    BY <1>1, <2>1, <2>2, WithinNext
  <2>3. CASE u \in Within(x)
    <3>1. u = x \/ u \in Within(Parts[x][1])
      BY <2>3, WithinUnfold
    <3>2. u = x => Parts[x][1] \in Within(u)
      BY <1>1, WithinItself, WithinNext
    <3> QED
      BY <2>1, <3>1, <3>2
  <2> QED
    BY <2>2, <2>3
<1>2. t \in S
  <2>1. S \subseteq Types /\ e \in S
    OBVIOUS
  <2> HIDE DEF S
  <2> QED
    BY <1>1, <2>1, WithinInduction
<1> QED
  BY <1>2

LEMMA WithinLast ==
  ASSUME NEW e \in Types, NEW t \in Within(e), NEW u \in Within(e),
         ~Shares(t), ~Shares(u)
  PROVE  t = u
<1>1. t \in Types /\ u \in Types
  BY DEF Within
<1> QED
  BY <1>1, WithinEither, WithinUnfold

LEMMA OwnMembersFacts ==
  ASSUME NEW t \in Types
  PROVE  /\ OwnMembers(t) \in Seq(Types)
         /\ Len(OwnMembers(t)) \in Nat
         /\ DOMAIN OwnMembers(t) = 1..Len(OwnMembers(t))
<1>1. Parts[t] \in Seq(Types) /\ (Inherits(t) => Len(Parts[t]) > 1)
  BY TypesAreAdapted DEF Inherits
<1>2. Inherits(t) => Parts[t] # <<>>
  BY <1>1, EmptyIsSeq
<1>3. OwnMembers(t) \in Seq(Types)
  BY <1>1, <1>2, HeadTailProperties DEF OwnMembers
<1> QED
  BY <1>3, LenProperties

IsCount(C) ==
  C = [t \in Types |->
         IF Inherits(t) THEN C[Parts[t][1]] + Len(OwnMembers(Parts[t][1]))
         ELSE 0]

LEMMA CountExists == \E C : IsCount(C)
<1> DEFINE D == [g \in [Types -> Nat] |->
                   [t \in Types |->
                      IF Inherits(t)
                      THEN g[Parts[t][1]] + Len(OwnMembers(Parts[t][1]))
                      ELSE 0]]
           f == [t \in Types |-> 0]
<1>1. ASSUME NEW t \in Types, Inherits(t)
      PROVE  /\ Parts[t][1] \in Types
             /\ Depth[Parts[t][1]] < Depth[t]
             /\ Len(OwnMembers(Parts[t][1])) \in Nat
  <2>1. Parts[t] \in Seq(Types) /\ Len(Parts[t]) > 1
    BY <1>1, TypesAreAdapted DEF Inherits
  <2>2. 1 \in DOMAIN Parts[t]
    BY <2>1, LenProperties
  <2> QED
    BY <2>2, PartFacts, OwnMembersFacts
<1>2. D \in [[Types -> Nat] -> [Types -> Nat]]
  <2>1. ASSUME NEW g \in [Types -> Nat], NEW t \in Types
        PROVE  (IF Inherits(t)
                THEN g[Parts[t][1]] + Len(OwnMembers(Parts[t][1]))
                ELSE 0) \in Nat
    BY <1>1
  <2> QED
    BY <2>1
<1>3. ASSUME NEW g \in [Types -> Nat], NEW h \in [Types -> Nat], NEW t \in Types,
             \A u \in Types : Depth[u] < Depth[t] => g[u] = h[u]
      PROVE  D[g][t] = D[h][t]
  BY <1>1, <1>3
<1>4. Depth \in [Types -> Nat] /\ f \in [Types -> Nat]
  BY TypesAreNested
<1>5. PICK C : IsFixpoint(C, D, Types, Nat)
  <2> HIDE DEF D, f
  <2> QED
    BY <1>2, <1>3, <1>4, RankedRecursion
<1>6. C \in [Types -> Nat] /\ D[C] = C
  BY <1>5 DEF IsFixpoint
<1>7. IsCount(C)
  BY <1>6 DEF IsCount
<1> QED
  BY <1>7

LEMMA MembersInBasesFacts ==
  /\ \A t \in Types : MembersInBases[t] \in Nat
  /\ \A t \in Types : Inherits(t) =>
       MembersInBases[t] =
         MembersInBases[Parts[t][1]] + Len(OwnMembers(Parts[t][1]))
  /\ \A t \in Types : ~Inherits(t) => MembersInBases[t] = 0
<1>1. MembersInBases = CHOOSE C : IsCount(C)
  BY DEF MembersInBases, IsCount
<1>2. IsCount(MembersInBases)
  BY <1>1, CountExists
<1> DEFINE B == MembersInBases
<1> HIDE DEF B
<1>3. B = [t \in Types |->
             IF Inherits(t) THEN B[Parts[t][1]] + Len(OwnMembers(Parts[t][1]))
             ELSE 0]
  BY <1>2 DEF IsCount, B
<1>4. \A t \in Types : Inherits(t) =>
        B[t] = B[Parts[t][1]] + Len(OwnMembers(Parts[t][1]))
  BY <1>3
<1>5. \A t \in Types : ~Inherits(t) => B[t] = 0
  BY <1>3
<1> DEFINE P == {d \in Nat : \A t \in Types : Depth[t] < d => B[t] \in Nat}
<1>6. 0 \in P
  BY TypesAreNested
<1>7. ASSUME NEW d \in P
      PROVE  d + 1 \in P
  <2> SUFFICES ASSUME NEW t \in Types, Depth[t] < d + 1
               PROVE  B[t] \in Nat
    OBVIOUS
  <2>1. CASE Inherits(t)
    <3>1. Parts[t] \in Seq(Types) /\ Len(Parts[t]) > 1
      BY <2>1, TypesAreAdapted DEF Inherits
    <3>2. 1 \in DOMAIN Parts[t]
      BY <3>1, LenProperties
    <3> DEFINE b == Parts[t][1]
    <3>3. b \in Types /\ Depth[b] \in Nat /\ Depth[t] \in Nat
          /\ Depth[b] < Depth[t]
      BY <3>2, PartFacts
    <3>4. Len(OwnMembers(b)) \in Nat
      BY <3>3, OwnMembersFacts
    <3> HIDE DEF b
    <3>5. Depth[b] < d
      BY <3>3
    <3>6. B[b] \in Nat
      BY <3>3, <3>5
    <3> QED
      BY <1>4, <2>1, <3>4, <3>6 DEF b
  <2>2. CASE ~Inherits(t)
    BY <1>5, <2>2
  <2> QED
    BY <2>1, <2>2
<1>8. P = Nat
  <2> HIDE DEF P
  <2>1. P \subseteq Nat
    BY DEF P
  <2> QED
    BY <1>6, <1>7, <2>1, SetInduction
<1>9. ASSUME NEW t \in Types
      PROVE  B[t] \in Nat
  <2>1. Depth[t] \in Nat /\ Depth[t] + 1 \in P
    BY <1>8, TypesAreNested
  <2> QED
    BY <2>1
<1> QED
  BY <1>4, <1>5, <1>9 DEF B

(* In one place, a member id is that of one member: a class numbers its    *)
(* members on from those of its bases.                                     *)
LEMMA MemberUnique ==
  ASSUME NEW e \in Types, NEW t \in Within(e), NEW x \in Within(e),
         NEW m, NEW u, NEW v, IsMember(t, m, u), IsMember(x, m, v)
  PROVE  u = v
<1>1. ASSUME NEW y \in Types, NEW a, NEW b, IsMember(y, m, a),
             IsMember(y, m, b)
      PROVE  a = b
  <2>1. CASE Kind[y] \in Aggregates
    <3>1. PICK k \in DOMAIN OwnMembers(y) :
            m = MembersInBases[y] + k /\ a = OwnMembers(y)[k]
      BY <1>1, <2>1 DEF IsMember, Aggregates
    <3>2. PICK j \in DOMAIN OwnMembers(y) :
            m = MembersInBases[y] + j /\ b = OwnMembers(y)[j]
      BY <1>1, <2>1 DEF IsMember, Aggregates
    <3>3. k \in Nat /\ j \in Nat /\ MembersInBases[y] \in Nat
      BY OwnMembersFacts, MembersInBasesFacts
    <3>4. k = j
      BY <3>1, <3>2, <3>3
    <3> QED
      BY <3>1, <3>2, <3>4
  <2>2. CASE Kind[y] \notin Aggregates
    BY <1>1, <2>2 DEF IsMember
  <2> QED
    BY <2>1, <2>2
<1>2. ASSUME NEW y \in Types, NEW z \in Within(y), z # y, NEW a, NEW b,
             IsMember(y, m, a), IsMember(z, m, b)
      PROVE  FALSE
  <2> DEFINE p == Parts[y][1]
             ids == MembersInBases[p] + Len(OwnMembers(p))
             S == {w \in Types : /\ Kind[w] \in {"struct", "derived"}
                                 /\ MembersInBases[w] + Len(OwnMembers(w))
                                      <= ids}
  <2>1. Shares(y) /\ z \in Within(p)
    BY <1>2, WithinUnfold
  <2>2. Kind[y] = "derived"
    BY <1>2, <2>1 DEF IsMember, Shares, Aggregates
  <2>3. p \in Types /\ Kind[p] \in {"struct", "derived"}
    BY <2>1, <2>2, SharedPart, TypesAreAdapted
  <2>4. ids \in Nat
    BY <2>3, OwnMembersFacts, MembersInBasesFacts
  <2>5. MembersInBases[y] = ids
    BY <2>2, MembersInBasesFacts DEF Inherits
  <2>6. ASSUME NEW w \in S, Shares(w)
        PROVE  Parts[w][1] \in S
    <3>1. Kind[w] = "derived"
      BY <2>6 DEF Shares
    <3> DEFINE q == Parts[w][1]
    <3>2. q \in Types /\ Kind[q] \in {"struct", "derived"}
      BY <2>6, <3>1, SharedPart, TypesAreAdapted
    <3>3. MembersInBases[w] = MembersInBases[q] + Len(OwnMembers(q))
      BY <3>1, MembersInBasesFacts DEF Inherits
    <3>4. MembersInBases[w] \in Nat /\ Len(OwnMembers(w)) \in Nat
      BY OwnMembersFacts, MembersInBasesFacts
    <3>5. MembersInBases[w] <= ids
      BY <2>4, <3>4
    <3> QED
      BY <3>2, <3>3, <3>5
  <2>7. z \in S
    <3>1. S \subseteq Types /\ p \in S
      BY <2>3, <2>4
    <3> HIDE DEF S
    <3> QED
      BY <2>1, <2>6, <3>1, WithinInduction
  <2>8. PICK k \in DOMAIN OwnMembers(z) : m = MembersInBases[z] + k
    BY <1>2, <2>7 DEF IsMember, Aggregates
  <2>9. PICK j \in DOMAIN OwnMembers(y) : m = MembersInBases[y] + j
    BY <1>2, <2>2 DEF IsMember, Aggregates
  <2>10. /\ MembersInBases[z] \in Nat
         /\ Len(OwnMembers(z)) \in Nat
         /\ k \in 1..Len(OwnMembers(z))
    BY <2>7, OwnMembersFacts, MembersInBasesFacts
  <2>11. m <= ids
    <3>1. MembersInBases[z] + Len(OwnMembers(z)) <= ids
      BY <2>7
    <3> HIDE DEF ids
    <3> QED
      BY <2>4, <2>8, <2>10, <3>1
  <2>12. j \in 1..Len(OwnMembers(y)) /\ Len(OwnMembers(y)) \in Nat
    BY OwnMembersFacts
  <2> HIDE DEF ids
  <2> QED
    BY <2>4, <2>5, <2>9, <2>11, <2>12
<1>3. t \in Types /\ x \in Types
  BY DEF Within
<1>4. CASE t = x
  BY <1>1, <1>3, <1>4
<1>5. CASE t # x
  <2>1. CASE t \in Within(x)
    BY <1>2, <1>3, <1>5, <2>1
  <2>2. CASE x \in Within(t)
    BY <1>2, <1>3, <1>5, <2>2
  <2> QED
    BY <2>1, <2>2, WithinEither
<1> QED
  BY <1>4, <1>5

(* The types of which the members on the way to i are.                     *)
IsWay(g, r, i) ==
  /\ g \in [0..Len(i) -> Types]
  /\ g[0] = r
  /\ \A k \in 1..Len(i) :
       \E t \in Within(g[k - 1]) : IsMember(t, i[k], g[k])

(* Something of type u may be at i in the instance of an r.                *)
Lies(r, u, i) == i \in Paths /\ \E g : IsWay(g, r, i) /\ u \in Within(g[Len(i)])

LEMMA MemberIsType ==
  ASSUME NEW t \in Types, NEW m, NEW u, IsMember(t, m, u)
  PROVE  u \in Types
<1>1. CASE Kind[t] \in Aggregates
  BY <1>1, OwnMembersFacts, ElementOfSeq DEF IsMember, Aggregates
<1>2. CASE Kind[t] \in Wrappers /\ u = Parts[t][1]
  BY <1>2, WrapperFacts, PartFacts
<1>3. CASE Kind[t] = "union"
  BY <1>3, CaseFacts, PartFacts DEF IsMember, Aggregates, CaseType
<1> QED
  BY <1>1, <1>2, <1>3 DEF IsMember, Wrappers

LEMMA LiesIsType ==
  ASSUME NEW r, NEW u, NEW i, Lies(r, u, i)
  PROVE  u \in Types /\ i \in Paths
BY DEF Lies, Within

LEMMA LiesTop ==
  ASSUME NEW r \in Types
  PROVE  Lies(r, r, <<>>)
<1>1. <<>> \in Paths /\ Len(<<>>) = 0
  BY EmptySeq DEF Paths
<1>2. IsWay([k \in 0..0 |-> r], r, <<>>)
  BY <1>1 DEF IsWay
<1>3. r \in Within(r)
  BY WithinItself
<1> QED
  BY <1>1, <1>2, <1>3 DEF Lies

LEMMA LiesShared ==
  ASSUME NEW r, NEW t, NEW i, Lies(r, t, i), Shares(t)
  PROVE  Lies(r, Parts[t][1], i)
BY WithinNext DEF Lies

LEMMA LiesMember ==
  ASSUME NEW r, NEW t, NEW i, Lies(r, t, i), NEW m, NEW u, IsMember(t, m, u)
  PROVE  Lies(r, u, Append(i, m))
<1> DEFINE n == Len(i)
           j == Append(i, m)
<1>1. PICK g : IsWay(g, r, i) /\ t \in Within(g[n])
  BY DEF Lies
<1>2. i \in Paths /\ m \in Nat /\ t \in Types
  BY LiesIsType DEF IsMember
<1>3. /\ n \in Nat
      /\ j \in Paths
      /\ Len(j) = n + 1
      /\ \A k \in 1..n : j[k] = i[k]
      /\ j[n + 1] = m
  BY <1>2, PathFacts, AppendPath, AppendFacts
<1>4. u \in Types
  BY <1>2, MemberIsType
<1> DEFINE h == [k \in 0..n + 1 |-> IF k = n + 1 THEN u ELSE g[k]]
<1>5. h \in [0..Len(j) -> Types]
  BY <1>1, <1>3, <1>4 DEF IsWay
<1>6. ASSUME NEW k \in 1..Len(j)
      PROVE  \E x \in Within(h[k - 1]) : IsMember(x, j[k], h[k])
  <2>1. CASE k = n + 1
    <3>1. h[k] = u /\ h[k - 1] = g[n] /\ j[k] = m
      BY <1>3, <2>1
    <3> HIDE DEF h, j
    <3> QED
      BY <1>1, <3>1
  <2>2. CASE k # n + 1
    <3>1. k \in 1..n /\ h[k] = g[k] /\ h[k - 1] = g[k - 1] /\ j[k] = i[k]
      BY <1>3, <2>2
    <3> HIDE DEF h, j
    <3> QED
      BY <1>1, <3>1 DEF IsWay
  <2> QED
    BY <2>1, <2>2
<1>7. h[0] = r /\ h[Len(j)] = u
  BY <1>1, <1>3 DEF IsWay
<1> HIDE DEF h
<1>8. IsWay(h, r, j)
  BY <1>5, <1>6, <1>7 DEF IsWay
<1>9. u \in Within(h[Len(j)])
  BY <1>4, <1>7, WithinItself
<1> QED
  BY <1>3, <1>8, <1>9 DEF Lies

LEMMA LiesTogether ==
  ASSUME NEW r, NEW i, NEW t, NEW u, Lies(r, t, i), Lies(r, u, i)
  PROVE  \E e \in Types : t \in Within(e) /\ u \in Within(e)
<1>1. PICK g : IsWay(g, r, i) /\ t \in Within(g[Len(i)])
  BY DEF Lies
<1>2. PICK h : IsWay(h, r, i) /\ u \in Within(h[Len(i)])
  BY DEF Lies
<1>3. Len(i) \in Nat
  BY PathFacts DEF Lies
<1> DEFINE P == {k \in Nat : k <= Len(i) => g[k] = h[k]}
<1>4. 0 \in P
  BY <1>1, <1>2 DEF IsWay
<1>5. ASSUME NEW k \in P
      PROVE  k + 1 \in P
  <2> SUFFICES ASSUME k + 1 <= Len(i) PROVE g[k + 1] = h[k + 1]
    OBVIOUS
  <2>1. k + 1 \in 1..Len(i) /\ (k + 1) - 1 = k /\ k \in 0..Len(i) /\ g[k] = h[k]
    BY <1>3
  <2>2. /\ \E x \in Within(g[k]) : IsMember(x, i[k + 1], g[k + 1])
        /\ \E x \in Within(g[k]) : IsMember(x, i[k + 1], h[k + 1])
        /\ g[k] \in Types
    BY <1>1, <1>2, <2>1 DEF IsWay
  <2> QED
    BY <2>2, MemberUnique
<1>6. P = Nat
  <2> HIDE DEF P
  <2>1. P \subseteq Nat
    BY DEF P
  <2> QED
    BY <1>4, <1>5, <2>1, SetInduction
<1>7. g[Len(i)] = h[Len(i)] /\ g[Len(i)] \in Types
  BY <1>1, <1>3, <1>6 DEF IsWay
<1> QED
  BY <1>1, <1>2, <1>7

(* Where a leaf is, nothing else is that does not just hold it.            *)
LEMMA LeafLies ==
  ASSUME NEW r, NEW i, NEW t, NEW u, Lies(r, t, i), Lies(r, u, i),
         Kind[u] \in Leaves, ~Shares(t)
  PROVE  t = u
<1>1. ~Shares(u)
  BY DEF Shares, Leaves
<1>2. PICK e \in Types : t \in Within(e) /\ u \in Within(e)
  BY LiesTogether
<1> QED
  BY <1>1, <1>2, WithinLast

-----------------------------------------------------------------------------
(* Instances: what leaves hold.                                            *)

InstanceOK(w, r) ==
  /\ Numbers(w)
  /\ DOMAIN w \subseteq Paths
  /\ \A u, i : Lies(r, u, i) => Fits(u, At(w, i))

LEMMA EmptyInstanceOK ==
  ASSUME NEW r
  PROVE  InstanceOK(<<>>, r)
<1>1. Numbers(<<>>) /\ \A i : At(<<>>, i) = 0
  BY EmptyNumbers DEF At
<1> QED
  BY <1>1 DEF InstanceOK, Fits

(* What is not there any more is a default.                                *)
LEMMA OnlyInstanceOK ==
  ASSUME NEW w, NEW r, InstanceOK(w, r), NEW S
  PROVE  InstanceOK(Only(w, S), r)
<1>1. Numbers(Only(w, S)) /\ DOMAIN Only(w, S) \subseteq Paths
  BY OnlyNumbers DEF InstanceOK, Only
<1>2. \A i : At(Only(w, S), i) \in {At(w, i), 0}
  BY DEF At, Only
<1> QED
  BY <1>1, <1>2 DEF InstanceOK, Fits

LEMMA PutInstanceOK ==
  ASSUME NEW w, NEW r, InstanceOK(w, r), NEW i \in Paths, NEW v \in Nat,
         \A u : Lies(r, u, i) => Fits(u, v)
  PROVE  InstanceOK(Put(w, i, v), r)
<1>1. Numbers(Put(w, i, v)) /\ DOMAIN Put(w, i, v) \subseteq Paths
  BY PutNumber DEF InstanceOK, Put
<1>2. \A j : At(Put(w, i, v), j) = IF j = i THEN v ELSE At(w, j)
  BY DEF At, Put
<1> QED
  BY <1>1, <1>2 DEF InstanceOK

(* A value may be put where a type is that it fits and that is alone, or   *)
(* only holds what is there.                                               *)
LEMMA WithMemberOK ==
  ASSUME InstanceOK(instance, root), Lies(root, Current.type, Current.i),
         NEW v \in Nat,
         \/ ~Shares(Current.type) /\ Fits(Current.type, v)
         \/ v = At(instance, Current.i)
  PROVE  InstanceOK(WithMember(v), root)
<1>1. ASSUME NEW u, Lies(root, u, Current.i)
      PROVE  Fits(u, v)
  <2>1. CASE v = At(instance, Current.i)
    BY <1>1, <2>1 DEF InstanceOK
  <2>2. CASE ~Shares(Current.type) /\ Fits(Current.type, v)
    BY <1>1, <2>2, LeafLies DEF Fits
  <2> QED
    BY <2>1, <2>2
<1>2. Current.i \in Paths
  BY LiesIsType
<1> QED
  BY <1>1, <1>2, OnlyInstanceOK, PutInstanceOK DEF WithMember

(* set_sequence or set_array of elements that are leaves.                  *)
LEMMA SetAllOK ==
  ASSUME ObjectOK(object, root), Placed(root, Current.type, Current.o),
         InstanceOK(instance, root), Lies(root, Current.type, Current.i),
         Kind[Current.type] \in {"sequence", "vector", "range", "array"},
         Kind[ElementType] \in Leaves, NEW n \in Nat, SetAll(n)
  PROVE  InstanceOK(instance', root)
<1> DEFINE i == Current.i
           o == Current.o
           kept == {q \in DOMAIN instance : ~IsIn(q, i)}
           whole == Only(WithMember(n), kept \cup {i})
           elements == {Append(i, k) : k \in 1..n}
           new == [q \in DOMAIN whole \cup elements |->
                     IF q \in elements
                     THEN At(object.value, Append(o, q[Len(q)]))
                     ELSE whole[q]]
<1>1. instance' = new
  BY DEF SetAll, Set
<1>2. ~Shares(Current.type) /\ Fits(Current.type, n)
  BY DEF Shares, Fits, Leaves
<1>3. InstanceOK(whole, root)
  BY <1>2, WithMemberOK, OnlyInstanceOK
<1>4. i \in Paths /\ IsSeq(i)
  BY LiesIsType, PathFacts
<1> HIDE DEF whole
<1>5. ASSUME NEW k \in 1..n
      PROVE  /\ Append(i, k) \in Paths
             /\ At(new, Append(i, k)) = At(object.value, Append(o, k))
             /\ At(new, Append(i, k)) \in Nat
             /\ \A u : Lies(root, u, Append(i, k)) =>
                         Fits(u, At(new, Append(i, k)))
  <2> DEFINE q == Append(i, k)
  <2>1. q \in Paths /\ q[Len(q)] = k
    BY <1>4, AppendPath, AppendFacts
  <2>2. At(new, q) = At(object.value, Append(o, k))
    <3>1. q \in elements
      OBVIOUS
    <3> HIDE DEF elements, q
    <3> QED
      BY <2>1, <3>1 DEF At
  <2> HIDE DEF new
  <2>3. At(new, q) \in Nat
    BY <2>2, AtIsNumber DEF ObjectOK, Shape, GoodObject
  <2>4. k \in Nat /\ Kind[Current.type] \in Wrappers
    BY DEF Wrappers
  <2>5. Placed(root, ElementType, Append(o, k))
    BY <2>4, PlacedPart DEF ElementType, IsPart
  <2>6. Fits(ElementType, At(new, q))
    BY <2>2, <2>5 DEF ObjectOK, NodeOK, Sized
  <2>7. Lies(root, ElementType, q)
    BY <2>4, LiesMember DEF ElementType, IsMember
  <2>8. ~Shares(ElementType)
    BY DEF Shares, Leaves
  <2>9. \A u : Lies(root, u, q) => Fits(u, At(new, q))
    BY <2>6, <2>7, <2>8, LeafLies DEF Fits
  <2> QED
    BY <2>1, <2>2, <2>3, <2>9
<1>6. ASSUME NEW q, q \notin elements
      PROVE  At(new, q) = At(whole, q)
  <2> HIDE DEF elements
  <2> QED
    BY <1>6 DEF At
<1>7. DOMAIN new \subseteq Paths
  BY <1>3, <1>5 DEF InstanceOK
<1>8. Numbers(new)
  <2>1. \A q \in elements : At(new, q) \in Nat
    BY <1>5
  <2>2. \A q : q \notin elements => At(new, q) \in Nat
    BY <1>3, <1>6, AtIsNumber DEF InstanceOK
  <2> HIDE DEF new, elements
  <2> QED
    BY <2>1, <2>2 DEF At, Numbers
<1>9. ASSUME NEW u, NEW q, Lies(root, u, q)
      PROVE  Fits(u, At(new, q))
  <2>1. CASE q \in elements
    <3>1. PICK k \in 1..n : q = Append(i, k)
      BY <2>1
    <3> HIDE DEF new
    <3> QED
      BY <1>5, <1>9, <3>1
  <2>2. CASE q \notin elements
    BY <1>3, <1>6, <1>9, <2>2 DEF InstanceOK
  <2> QED
    BY <2>1, <2>2
<1> HIDE DEF new
<1> QED
  BY <1>1, <1>7, <1>8, <1>9 DEF InstanceOK

-----------------------------------------------------------------------------
(* Tags and their bits.                                                    *)

(* Integers of a type with size values, an even number.                    *)
LEMMA WrappedFacts ==
  ASSUME NEW size \in Nat, size > 0, size % 2 = 0, NEW n \in Int
  PROVE  /\ Wrapped(n % size, size) = Wrapped(n, size)
         /\ n \in -(size \div 2)..(size \div 2) - 1 => Wrapped(n, size) = n
<1> DEFINE h == size \div 2
<1>1. h \in Nat /\ size = 2 * h
  OBVIOUS
<1>2. n % size \in 0..size - 1 /\ (n % size) % size = n % size
  OBVIOUS
<1>3. Wrapped(n % size, size) = Wrapped(n, size)
  BY <1>2 DEF Wrapped
<1>4. ASSUME n \in -h..h - 1
      PROVE  Wrapped(n, size) = n
  <2> DEFINE low == n % size
  <2>1. low = IF n >= 0 THEN n ELSE n + size
    <3>1. CASE n >= 0
      BY <1>1, <1>4, <3>1
    <3>2. CASE n < 0
      BY <1>1, <1>4, <3>2
    <3> QED
      BY <3>1, <3>2
  <2>2. Wrapped(n, size) = IF low >= h THEN low - size ELSE low
    BY DEF Wrapped
  <2> HIDE DEF low, h
  <2> QED
    BY <1>1, <1>4, <2>1, <2>2
<1> QED
  BY <1>3, <1>4 DEF h

(* A number whose bits are all ones.                                       *)
LEMMA OnesAreMinusOne ==
  ASSUME NEW size \in Nat, size > 0, size % 2 = 0,
         NEW n \in Nat, n > 0, n % size = 0
  PROVE  Wrapped(n - 1, size) = -1
<1> DEFINE q == n \div size
           h == size \div 2
<1>1. q \in Nat /\ n = size * q
  OBVIOUS
<1>2. h \in Nat /\ h > 0 /\ size = 2 * h
  OBVIOUS
<1>3. (n - 1) % size = size - 1
  <2> DEFINE p == (n - 1) \div size
             r == (n - 1) % size
             k == q - p
  <2>1. p \in Int /\ r \in 0..size - 1 /\ n - 1 = size * p + r
    OBVIOUS
  <2> HIDE DEF p, r, q
  <2>2. k \in Int /\ size * k = r + 1
    BY <1>1, <2>1
  <2> HIDE DEF k
  <2>3. k >= 1
    <3>1. k <= 0 => size * k <= 0
      BY <2>2
    <3> QED
      BY <2>1, <2>2, <3>1
  <2>4. k <= 1
    <3>1. k >= 2 => size * k >= size * 2
      BY <2>2
    <3> QED
      BY <2>1, <2>2, <3>1
  <2>5. k = 1
    BY <2>2, <2>3, <2>4
  <2> QED
    BY <2>1, <2>2, <2>5 DEF r
<1> HIDE DEF h
<1> QED
  BY <1>2, <1>3 DEF Wrapped, h

(* static_cast<TagType>, of the bits of a tag or of the tag itself.        *)
LEMMA TagCastFacts ==
  ASSUME NEW t \in Types, Kind[t] = "union", NEW n \in Int
  PROVE  /\ TagCast(t, n % TagSize[t]) = TagCast(t, n)
         /\ t \in Signed => TagCast(t, -1) = -1
         /\ t \notin Signed =>
              /\ TagCast(t, n) >= 0
              /\ TagCast(t, n) \in Int
              /\ TagCast(t, -1) = TagSize[t] - 1
<1> DEFINE m == TagSize[t]
<1>1. m \in Nat /\ m > 0 /\ m % 2 = 0
  BY UnionConstants
<1>2. \A k : TagCast(t, k) = IF t \in Signed THEN Wrapped(k, m) ELSE k % m
  BY DEF TagCast
<1> HIDE DEF m
<1>3. n % m \in 0..m - 1 /\ (n % m) % m = n % m
  BY <1>1
<1>4. (-1) % m = m - 1
  BY <1>1
<1>5. Wrapped(n % m, m) = Wrapped(n, m)
  BY <1>1, WrappedFacts
<1>6. Wrapped(-1, m) = -1
  <2>1. -1 \in -(m \div 2)..(m \div 2) - 1
    BY <1>1
  <2> QED
    BY <1>1, <2>1, WrappedFacts
<1>7. TagCast(t, n % m) = TagCast(t, n)
  BY <1>2, <1>3, <1>5
<1>8. ASSUME t \notin Signed
      PROVE  /\ TagCast(t, n) >= 0
             /\ TagCast(t, n) \in Int
             /\ TagCast(t, -1) = m - 1
  BY <1>2, <1>3, <1>4, <1>8
<1> QED
  BY <1>2, <1>6, <1>7, <1>8 DEF m

(* The conversion to int keeps labels, and makes a default case's tag -1   *)
(* again unless it is unsigned and narrower.                               *)
LEMMA IntCastFacts ==
  ASSUME NEW t \in Types, Kind[t] = "union"
  PROVE  /\ \A n \in Ints : n \in Int /\ IntCast(n) = n
         /\ DefaultSurvives(t) => IntCast(TagCast(t, -1)) = -1
         /\ ~DefaultSurvives(t) =>
              /\ t \notin Signed
              /\ IntCast(TagCast(t, -1)) = TagCast(t, -1)
<1> DEFINE m == TagSize[t]
<1>1. m \in Nat /\ m > 0 /\ (m % IntSize = 0 \/ IntSize % (2 * m) = 0)
  BY UnionConstants
<1>2. IntSize \in Nat /\ IntSize > 0 /\ IntSize % 2 = 0
  BY UnionConstants
<1> HIDE DEF m
<1>3. \A n \in Ints : n \in Int /\ IntCast(n) = n
  BY <1>2, WrappedFacts DEF Ints, IntCast
<1>4. -1 \in Ints
  BY <1>2 DEF Ints
<1>5. CASE t \in Signed
  BY <1>3, <1>4, <1>5, TagCastFacts DEF DefaultSurvives
<1>6. CASE t \notin Signed /\ m >= IntSize
  <2>1. m % IntSize = 0
    <3>1. SUFFICES ASSUME IntSize % (2 * m) = 0
                   PROVE  FALSE
      BY <1>1
    <3>2. IntSize % (2 * m) = IntSize
      BY <1>1, <1>2, <1>6
    <3> QED
      BY <1>2, <3>1, <3>2
  <2>2. Wrapped(m - 1, IntSize) = -1
    BY <1>1, <1>2, <2>1, OnesAreMinusOne
  <2>3. TagCast(t, -1) = m - 1
    BY <1>6, TagCastFacts DEF m
  <2> QED
    BY <1>3, <1>6, <2>2, <2>3 DEF DefaultSurvives, IntCast, m
<1>7. CASE t \notin Signed /\ ~(m >= IntSize)
  <2>1. 2 * m <= IntSize
    <3>1. m % IntSize = m
      BY <1>1, <1>2, <1>7
    <3>2. IntSize % (2 * m) = 0
      BY <1>1, <3>1
    <3>3. SUFFICES ASSUME IntSize < 2 * m
                   PROVE  FALSE
      BY <1>1, <1>2
    <3>4. IntSize % (2 * m) = IntSize
      BY <1>1, <1>2, <3>3
    <3> QED
      BY <1>2, <3>2, <3>4
  <2>2. m - 1 \in Ints
    BY <1>1, <1>2, <2>1 DEF Ints
  <2>3. TagCast(t, -1) = m - 1
    BY <1>7, TagCastFacts DEF m
  <2> QED
    BY <1>3, <1>7, <2>2, <2>3 DEF DefaultSurvives, m
<1> QED
  BY <1>5, <1>6, <1>7

LEMMA LabelFacts ==
  ASSUME NEW t \in Types, Kind[t] = "union", NEW c \in 1..NCases(t)
  PROVE  /\ \A k \in DOMAIN Labels[t][c] : Labels[t][c][k] \in Ints
         /\ Labels[t][c] # <<>> => 1 \in DOMAIN Labels[t][c]
<1>1. Labels[t] \in Seq(Seq(Ints)) /\ Len(Labels[t]) = NCases(t)
  BY UnionConstants DEF NCases
<1>2. Labels[t][c] \in Seq(Ints)
  BY <1>1, ElementOfSeq
<1> QED
  BY <1>2, SeqFacts, ElementOfSeq DEF IsSeq

(* The discriminator that arrives is a tag of the case that was selected,  *)
(* or -1 if that is the default case, and only that case matches it.       *)
LEMMA TagOfCase ==
  ASSUME NEW t \in Types, Kind[t] = "union", LabelsTellApart(t),
         NEW c \in 1..NCases(t)
  PROVE  LET d == IntCast(TagCast(t, Discriminator(t, c) % TagSize[t]))
         IN CaseToGet(t, d) =
              IF Labels[t][c] = <<>> => DefaultSurvives(t) THEN c ELSE 0
<1> DEFINE tag == TagCast(t, Discriminator(t, c) % TagSize[t])
           d == IntCast(tag)
           S == {e \in 1..NCases(t) : Matches(t, e, d)}
           told == Labels[t][c] = <<>> => DefaultSurvives(t)
<1>1. ASSUME NEW e \in 1..NCases(t), NEW l \in Range(Labels[t][e])
      PROVE  /\ l \in Ints /\ l \in Int /\ IntCast(l) = l
             /\ TagCast(t, l) = l /\ l \in Tags(t, e)
             /\ t \notin Signed => l # -1
  <2>1. l \in Ints /\ Labels[t][e] # <<>>
    BY LabelFacts DEF Range
  <2>2. l \in Tags(t, e)
    BY <2>1 DEF Tags
  <2>3. TagCast(t, l) = l
    BY <2>2 DEF LabelsTellApart
  <2>4. l \in Int /\ IntCast(l) = l
    BY <2>1, IntCastFacts
  <2> QED
    BY <2>1, <2>2, <2>3, <2>4, TagCastFacts
<1>2. /\ tag \in Tags(t, c)
      /\ Labels[t][c] = <<>> =>
           /\ tag = TagCast(t, -1)
           /\ IF DefaultSurvives(t) THEN d = -1
              ELSE d = tag /\ d # -1 /\ t \notin Signed
      /\ Labels[t][c] # <<>> => d = tag /\ (t \notin Signed => d # -1)
  <2>1. CASE Labels[t][c] = <<>>
    <3>1. Discriminator(t, c) = -1 /\ Tags(t, c) = {TagCast(t, -1)}
      BY <2>1 DEF Discriminator, Tags
    <3>2. tag = TagCast(t, -1)
      BY <3>1, TagCastFacts
    <3>3. t \notin Signed => TagCast(t, -1) >= 0
      BY TagCastFacts
    <3> HIDE DEF tag
    <3> QED
      BY <2>1, <3>1, <3>2, <3>3, IntCastFacts
  <2>2. CASE Labels[t][c] # <<>>
    <3> DEFINE l == Labels[t][c][1]
    <3>1. l \in Range(Labels[t][c])
      BY <2>2, LabelFacts DEF Range
    <3>2. Discriminator(t, c) = l
      BY <2>2 DEF Discriminator
    <3> HIDE DEF l
    <3>3. tag = l
      BY <1>1, <3>1, <3>2, TagCastFacts
    <3> HIDE DEF tag
    <3> QED
      BY <1>1, <2>2, <3>1, <3>3
  <2> QED
    BY <2>1, <2>2
<1> HIDE DEF tag, d
<1>3. ASSUME NEW e \in 1..NCases(t)
      PROVE  Matches(t, e, d) <=> e = c /\ told
  <2>1. tag \in Tags(t, e) <=> e = c
    BY <1>2 DEF LabelsTellApart
  <2>2. CASE Labels[t][e] # <<>>
    <3>1. Matches(t, e, d) <=> d \in Range(Labels[t][e])
      BY <2>2 DEF Matches, Range
    <3>2. Tags(t, e) = Range(Labels[t][e])
      BY <2>2 DEF Tags
    <3>3. CASE d = tag
      <4>1. e = c => told
        BY <2>2
      <4> QED
        BY <2>1, <3>1, <3>2, <3>3, <4>1
    <3>4. CASE d # tag
      <4>1. Labels[t][c] = <<>> /\ d = -1 /\ tag = TagCast(t, -1)
        BY <1>2, <3>4
      <4>2. t \notin Signed
        BY <3>4, <4>1, TagCastFacts
      <4>3. d \notin Range(Labels[t][e])
        BY <1>1, <4>1, <4>2
      <4> QED
        BY <2>2, <3>1, <4>1, <4>3
    <3> QED
      BY <3>3, <3>4
  <2>3. CASE Labels[t][e] = <<>>
    <3>1. Matches(t, e, d) <=> d = -1
      BY <2>3 DEF Matches
    <3>2. Tags(t, e) = {TagCast(t, -1)}
      BY <2>3 DEF Tags
    <3>3. CASE e = c
      BY <1>2, <2>3, <3>1, <3>3
    <3>4. CASE e # c
      <4>1. tag # TagCast(t, -1)
        BY <2>1, <3>2, <3>4
      <4>2. Labels[t][c] # <<>>
        BY <1>2, <4>1
      <4>3. t \in Signed => TagCast(t, -1) = -1
        BY TagCastFacts
      <4> QED
        BY <1>2, <3>1, <3>4, <4>1, <4>2, <4>3
    <3> QED
      BY <3>3, <3>4
  <2> QED
    BY <2>2, <2>3
<1>4. c \in Nat
  BY CaseFacts
<1>5. FirstOf(S) = IF told THEN c ELSE 0
  <2>1. CASE told
    <3>1. S = {c}
      BY <1>3, <2>1
    <3> HIDE DEF S
    <3> QED
      BY <1>4, <2>1, <3>1 DEF FirstOf
  <2>2. CASE ~told
    <3>1. S = {}
      BY <1>3, <2>2
    <3> HIDE DEF S
    <3> QED
      BY <2>2, <3>1 DEF FirstOf
  <2> QED
    BY <2>1, <2>2
<1> QED
  BY <1>5 DEF CaseToGet, d, tag
=============================================================================
