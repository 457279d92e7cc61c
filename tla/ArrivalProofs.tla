--------------------------- MODULE ArrivalProofs ---------------------------
(***************************************************************************)
(* What write_dynamicdata leaves in the DDS_DynamicData and what           *)
(* read_dynamicdata brings back, proved for any types that can be adapted, *)
(* however deep, any values and whichever calls may fail: everything the   *)
(* object holds is at its member id, index or case there, whatever was     *)
(* there before, and again where it was in the object that is read, but    *)
(* for what had nothing to set; and from a blank DDS_DynamicData nothing   *)
(* else comes into a fresh object.                                         *)
(*                                                                         *)
(* A spot is a place in an object and in the DDS_DynamicData at once.  Two *)
(* spots of one object may share a path in the instance only when one is   *)
(* the base of the other or behind its pointer; writing or reading one     *)
(* disturbs no other but what is in it.                                    *)
(***************************************************************************)
EXTENDS ConversionProofs

-----------------------------------------------------------------------------
(* Spots: what is where, in an object and in the DDS_DynamicData at once.  *)
(* A base of a class, and what an optional or a smart pointer holds, are   *)
(* at the place of what they are in; case says that the place is that of a *)
(* case of a union.                                                        *)

Spots ==
  [type : Types, path : Paths, place : Paths, at : Paths, base : BOOLEAN,
   case : BOOLEAN]

IsPointer(t) == Kind[t] \in {"optional", "smart_ptr"}

HasPart(x, k) ==
  /\ k \in Nat
  /\ Kind[x.type] \notin Leaves
  /\ Kind[x.type] \in Aggregates => k \in DOMAIN Parts[x.type]
  /\ IsPointer(x.type) => k = 1
  /\ Kind[x.type] = "union" => k \in 1..NCases(x.type) + NCases(x.type)

(* The case whose data are at k of a union.                                *)
CaseAt(t, k) == IF k > NCases(t) THEN k - NCases(t) ELSE k

PartType(t, k) ==
  IF Kind[t] \in Aggregates THEN Parts[t][k]
  ELSE IF Kind[t] = "union" THEN CaseType(t, CaseAt(t, k))
  ELSE Parts[t][1]

IsBasePart(t, k) == Kind[t] = "derived" /\ k = 1

(* The id of a part in the instance, where it has one.                     *)
IdOf(t, k) ==
  IF Kind[t] = "derived" THEN MembersInBases[t] + (k - 1)
  ELSE IF Kind[t] = "union" THEN CaseAt(t, k)
  ELSE k

PartSpot(x, k) ==
  [type |-> PartType(x.type, k),
   path |-> Append(x.path, k),
   place |-> Append(x.place, IF Kind[x.type] = "union" THEN CaseAt(x.type, k)
                             ELSE k),
   at |-> IF IsPointer(x.type) \/ IsBasePart(x.type, k) THEN x.at
          ELSE Append(x.at, IdOf(x.type, k)),
   base |-> IsBasePart(x.type, k),
   case |-> Kind[x.type] = "union" \/ (IsPointer(x.type) /\ x.case)]

(* The root is not bound, its members are set as those of a base are.      *)
TopSpot(r) ==
  [type |-> r, path |-> <<>>, place |-> <<>>, at |-> <<>>, base |-> TRUE,
   case |-> FALSE]

(* K says which parts of a spot there are.                                 *)
IsGuide(K) ==
  /\ \A x, k : <<x, k>> \in K => HasPart(x, k)
  /\ \A x, j, k : /\ Kind[x.type] = "union"
                  /\ <<x, j>> \in K
                  /\ <<x, k>> \in K
                  => j = k

ClosedFor(K, S) == \A x, k : x \in S /\ <<x, k>> \in K => PartSpot(x, k) \in S

Reached(r, K) ==
  {x \in Spots : \A S \in SUBSET Spots :
     TopSpot(r) \in S /\ ClosedFor(K, S) => x \in S}

LEMMA CaseAtFacts ==
  ASSUME NEW t \in Types, Kind[t] = "union",
         NEW k \in 1..NCases(t) + NCases(t)
  PROVE  /\ CaseAt(t, k) \in 1..NCases(t)
         /\ CaseAt(t, k) \in Nat
         /\ k = CaseAt(t, k) \/ k = NCases(t) + CaseAt(t, k)
         /\ CaseAt(t, k) + 1 \in DOMAIN Parts[t]
<1>1. NCases(t) \in Nat
  BY CaseFacts
<1>2. CaseAt(t, k) \in 1..NCases(t)
  BY <1>1 DEF CaseAt
<1> QED
  BY <1>1, <1>2, CaseFacts DEF CaseAt

LEMMA PartTypeIsPart ==
  ASSUME NEW x \in Spots, NEW k, HasPart(x, k)
  PROVE  IsPart(x.type, k, PartType(x.type, k)) /\ x.type \in Types /\ k \in Nat
<1>1. x.type \in Types /\ k \in Nat /\ Kind[x.type] \in Kinds
  BY TypesAreAdapted DEF Spots, HasPart
<1>2. CASE Kind[x.type] \in Aggregates
  BY <1>1, <1>2 DEF HasPart, IsPart, PartType
<1>3. CASE Kind[x.type] \in Wrappers
  BY <1>1, <1>3 DEF IsPart, PartType, Aggregates, Wrappers
<1>4. CASE Kind[x.type] = "union"
  <2>1. k \in 1..NCases(x.type) + NCases(x.type)
    BY <1>4 DEF HasPart
  <2>2. /\ CaseAt(x.type, k) \in 1..NCases(x.type)
        /\ k \in {CaseAt(x.type, k), NCases(x.type) + CaseAt(x.type, k)}
    BY <1>1, <1>4, <2>1, CaseAtFacts
  <2>3. PartType(x.type, k) = CaseType(x.type, CaseAt(x.type, k))
    BY <1>4 DEF PartType, Aggregates
  <2> QED
    BY <1>1, <1>4, <2>2, <2>3 DEF IsPart
<1> QED
  BY <1>1, <1>2, <1>3, <1>4 DEF HasPart, Kinds

LEMMA PartIsSpot ==
  ASSUME NEW x \in Spots, NEW k, HasPart(x, k)
  PROVE  PartSpot(x, k) \in Spots
<1> DEFINE t == x.type
<1>1. /\ t \in Types
      /\ k \in Nat
      /\ IsPart(t, k, PartType(t, k))
  BY PartTypeIsPart
<1>2. x.path \in Paths /\ x.place \in Paths /\ x.at \in Paths /\ x.case \in BOOLEAN
  BY DEF Spots
<1>3. PartType(t, k) \in Types
  BY <1>1, PartIsType
<1>4. Kind[t] = "union" => CaseAt(t, k) \in Nat
  BY <1>1, CaseAtFacts DEF HasPart
<1>5. ~IsBasePart(t, k) => IdOf(t, k) \in Nat
  <2>1. CASE Kind[t] = "derived" /\ k # 1
    <3>1. k \in DOMAIN Parts[t]
      BY <2>1 DEF HasPart, Aggregates
    <3>2. k - 1 \in Nat
      BY <1>1, <2>1, <3>1, TypesAreAdapted, LenProperties
    <3>3. MembersInBases[t] \in Nat
      BY <1>1, MembersInBasesFacts
    <3> QED
      BY <2>1, <3>2, <3>3 DEF IdOf
  <2>2. CASE Kind[t] # "derived"
    BY <1>1, <1>4, <2>2 DEF IdOf
  <2> QED
    BY <2>1, <2>2 DEF IsBasePart
<1>6. Append(x.path, k) \in Paths
  BY <1>1, <1>2, AppendPath
<1>7. Append(x.place, IF Kind[t] = "union" THEN CaseAt(t, k) ELSE k) \in Paths
  BY <1>1, <1>2, <1>4, AppendPath
<1>8. ~IsBasePart(t, k) => Append(x.at, IdOf(t, k)) \in Paths
  BY <1>2, <1>5, AppendPath
<1>9. (Kind[t] = "union" \/ (IsPointer(t) /\ x.case)) \in BOOLEAN
  OBVIOUS
<1>10. IsBasePart(t, k) \in BOOLEAN
  BY DEF IsBasePart
<1> QED
  BY <1>2, <1>3, <1>6, <1>7, <1>8, <1>9, <1>10 DEF PartSpot, Spots

LEMMA TopIsReached ==
  ASSUME NEW r \in Types, NEW K
  PROVE  TopSpot(r) \in Reached(r, K)
<1>1. <<>> \in Paths
  BY EmptySeq DEF Paths
<1> QED
  BY <1>1 DEF Reached, TopSpot, Spots

LEMMA PartIsReached ==
  ASSUME NEW r, NEW K, IsGuide(K), NEW x \in Reached(r, K), NEW k,
         <<x, k>> \in K
  PROVE  PartSpot(x, k) \in Reached(r, K)
<1>1. x \in Spots /\ HasPart(x, k)
  BY DEF Reached, IsGuide
<1>2. PartSpot(x, k) \in Spots
  BY <1>1, PartIsSpot
<1> QED
  BY <1>2 DEF Reached, ClosedFor

LEMMA ReachedInduction ==
  ASSUME NEW r \in Types, NEW K, IsGuide(K), NEW S,
         TopSpot(r) \in S,
         \A x \in Reached(r, K) :
           x \in S => \A k : <<x, k>> \in K => PartSpot(x, k) \in S
  PROVE  Reached(r, K) \subseteq S
<1> DEFINE T == S \cap Reached(r, K)
<1>1. T \in SUBSET Spots /\ TopSpot(r) \in T
  BY TopIsReached DEF Reached
<1>2. ClosedFor(K, T)
  BY PartIsReached DEF ClosedFor
<1>3. \A x \in Reached(r, K) : x \in T
  <2> HIDE DEF T
  <2> QED
    BY <1>1, <1>2 DEF Reached
<1> QED
  BY <1>3

(* Whatever is not the whole is a part.                                    *)
LEMMA ReachedWhole ==
  ASSUME NEW r \in Types, NEW K, IsGuide(K), NEW y \in Reached(r, K),
         y # TopSpot(r)
  PROVE  \E x \in Reached(r, K) : \E k : <<x, k>> \in K /\ y = PartSpot(x, k)
<1> DEFINE S == {z \in Reached(r, K) :
                   z = TopSpot(r) \/ \E x \in Reached(r, K) : \E k :
                                       <<x, k>> \in K /\ z = PartSpot(x, k)}
<1>1. TopSpot(r) \in S
  BY TopIsReached
<1>2. \A x \in Reached(r, K) :
        x \in S => \A k : <<x, k>> \in K => PartSpot(x, k) \in S
  BY PartIsReached
<1> HIDE DEF S
<1>3. Reached(r, K) \subseteq S
  BY <1>1, <1>2, ReachedInduction
<1> QED
  BY <1>3 DEF S

LEMMA SpotFacts ==
  ASSUME NEW x \in Spots
  PROVE  /\ x.type \in Types
         /\ x.path \in Paths
         /\ x.place \in Paths
         /\ x.at \in Paths
         /\ x.base \in BOOLEAN
         /\ x.case \in BOOLEAN
BY DEF Spots

LEMMA ReachedIsSpot ==
  ASSUME NEW r, NEW K, NEW x \in Reached(r, K)
  PROVE  x \in Spots
BY DEF Reached

LEMMA EmptyPath == <<>> \in Paths /\ Len(<<>>) = 0
BY EmptySeq DEF Paths

LEMMA AppendLength ==
  ASSUME NEW p \in Paths, NEW i \in Nat
  PROVE  /\ Append(p, i) \in Paths
         /\ Len(Append(p, i)) = Len(p) + 1
         /\ Len(p) \in Nat
         /\ Append(p, i) # <<>>
         /\ Append(p, i)[Len(p) + 1] = i
         /\ \A k \in 1..Len(p) : Append(p, i)[k] = p[k]
         /\ Front(Append(p, i)) = p
         /\ Last(Append(p, i)) = i
BY PathFacts, AppendFacts, AppendPath

LEMMA AppendSame ==
  ASSUME NEW p \in Paths, NEW q \in Paths, NEW i \in Nat, NEW j \in Nat,
         Append(p, i) = Append(q, j)
  PROVE  p = q /\ i = j
<1>1. Front(Append(p, i)) = p /\ Last(Append(p, i)) = i
  BY AppendLength
<1>2. Front(Append(q, j)) = q /\ Last(Append(q, j)) = j
  BY AppendLength
<1> QED
  BY <1>1, <1>2

(* A path has one spot, whatever else there is.                            *)
LEMMA PathTellsSpot ==
  ASSUME NEW r \in Types, NEW K, IsGuide(K), NEW L, IsGuide(L),
         NEW x \in Reached(r, K), NEW y \in Reached(r, L), x.path = y.path
  PROVE  x = y
<1> DEFINE S == {z \in Reached(r, K) :
                   \A w \in Reached(r, L) : w.path = z.path => w = z}
<1>1. ASSUME NEW z \in Reached(r, L), z # TopSpot(r)
      PROVE  \E v \in Reached(r, L), k \in Nat :
               /\ <<v, k>> \in L
               /\ z = PartSpot(v, k)
               /\ z.path = Append(v.path, k)
               /\ v.path \in Paths
  <2>a. PICK v \in Reached(r, L) : \E k : <<v, k>> \in L /\ z = PartSpot(v, k)
    <3> HIDE DEF S
    <3> QED
      BY <1>1, ReachedWhole
  <2>1. PICK k : <<v, k>> \in L /\ z = PartSpot(v, k)
    BY <2>a
  <2> QED
    BY <2>1, ReachedIsSpot, SpotFacts DEF IsGuide, HasPart, PartSpot
<1>2. TopSpot(r) \in S
  <2> SUFFICES ASSUME NEW w \in Reached(r, L), w.path = <<>>, w # TopSpot(r)
               PROVE  FALSE
    BY TopIsReached DEF TopSpot
  <2>1. PICK v \in Reached(r, L), k \in Nat :
          w.path = Append(v.path, k) /\ v.path \in Paths
    BY <1>1
  <2>2. Append(v.path, k) # <<>>
    BY <2>1, AppendLength
  <2> QED
    BY <2>1, <2>2
<1>3. ASSUME NEW z \in Reached(r, K), z \in S, NEW k, <<z, k>> \in K
      PROVE  PartSpot(z, k) \in S
  <2>1. /\ PartSpot(z, k) \in Reached(r, K)
        /\ k \in Nat
        /\ z.path \in Paths
        /\ PartSpot(z, k).path = Append(z.path, k)
    BY <1>3, PartIsReached, ReachedIsSpot, SpotFacts
       DEF IsGuide, HasPart, PartSpot
  <2> SUFFICES ASSUME NEW w \in Reached(r, L), w.path = Append(z.path, k)
               PROVE  w = PartSpot(z, k)
    BY <2>1
  <2>2. w # TopSpot(r)
    BY <2>1, AppendLength DEF TopSpot
  <2>3. PICK v \in Reached(r, L), j \in Nat :
          /\ <<v, j>> \in L
          /\ w = PartSpot(v, j)
          /\ w.path = Append(v.path, j)
          /\ v.path \in Paths
    BY <1>1, <2>2
  <2> HIDE DEF S
  <2>4. v.path = z.path /\ j = k
    <3>1. Append(v.path, j) = Append(z.path, k)
      BY <2>3
    <3>2. v.path \in Paths /\ z.path \in Paths /\ j \in Nat /\ k \in Nat
      BY <2>1, <2>3
    <3> QED
      BY <3>1, <3>2, AppendSame
  <2>5. v = z
    BY <1>3, <2>4 DEF S
  <2> QED
    BY <2>3, <2>4, <2>5
<1> HIDE DEF S
<1>4. Reached(r, K) \subseteq S
  BY <1>2, <1>3, ReachedInduction
<1> QED
  BY <1>4 DEF S

LEMMA SpotUnique ==
  ASSUME NEW r \in Types, NEW K, IsGuide(K), NEW x \in Reached(r, K),
         NEW y \in Reached(r, K), x.path = y.path
  PROVE  x = y
BY PathTellsSpot

-----------------------------------------------------------------------------
(* Where spots are.                                                        *)

LEMMA AppendBelow ==
  ASSUME NEW p \in Paths, NEW q \in Paths, NEW i \in Nat,
         IsAt(Append(p, i), q), Append(p, i) # q
  PROVE  IsAt(p, q)
<1> DEFINE a == Append(p, i)
<1>1. /\ a \in Paths
      /\ Len(a) = Len(p) + 1
      /\ Len(p) \in Nat
      /\ Len(q) \in Nat
      /\ \A k \in 1..Len(p) : a[k] = p[k]
  BY AppendLength, PathFacts
<1> HIDE DEF a
<1>2. Len(a) >= Len(q) /\ \A k \in 1..Len(q) : a[k] = q[k]
  BY <1>1, IsAtFacts DEF a
<1>3. Len(a) # Len(q)
  <2> SUFFICES ASSUME Len(a) = Len(q) PROVE FALSE
    OBVIOUS
  <2>1. a = q
    BY <1>1, <1>2, SeqEqual DEF Paths
  <2> QED
    BY <2>1 DEF a
<1>4. Len(p) >= Len(q) /\ \A k \in 1..Len(q) : p[k] = q[k]
  BY <1>1, <1>2, <1>3
<1> QED
  BY <1>4, IsAtFacts

LEMMA IsAtBoth ==
  ASSUME NEW p \in Paths, NEW q \in Paths, IsAt(p, q), IsAt(q, p)
  PROVE  p = q
<1>1. /\ Len(p) = Len(q)
      /\ \A k \in 1..Len(p) : q[k] = p[k]
  BY IsAtFacts, PathFacts
<1> QED
  BY <1>1, SeqEqual DEF Paths

LEMMA IsAtEither ==
  ASSUME NEW q \in Paths, NEW p \in Paths, NEW o \in Paths, IsAt(q, p), IsAt(q, o)
  PROVE  IsAt(p, o) \/ IsAt(o, p)
<1>1. /\ Len(p) \in Nat
      /\ Len(o) \in Nat
      /\ \A k \in 1..Len(p) : q[k] = p[k]
      /\ \A k \in 1..Len(o) : q[k] = o[k]
  BY IsAtFacts, PathFacts
<1>2. CASE Len(p) >= Len(o)
  <2>1. \A k \in 1..Len(o) : p[k] = o[k]
    BY <1>1, <1>2
  <2> QED
    BY <1>2, <2>1, IsAtFacts
<1>3. CASE Len(o) >= Len(p)
  <2>1. \A k \in 1..Len(p) : o[k] = p[k]
    BY <1>1, <1>3
  <2> QED
    BY <1>3, <2>1, IsAtFacts
<1> QED
  BY <1>1, <1>2, <1>3

(* What is below a part has its number.                                    *)
LEMMA PartNumber ==
  ASSUME NEW q \in Paths, NEW p \in Paths, NEW i \in Nat, IsAt(q, Append(p, i))
  PROVE  /\ q[Len(p) + 1] = i
         /\ IsIn(q, p)
<1>1. /\ Append(p, i) \in Paths
      /\ Len(Append(p, i)) = Len(p) + 1
      /\ Append(p, i)[Len(p) + 1] = i
      /\ Len(p) \in Nat
  BY AppendLength
<1>2. q[Len(p) + 1] = i /\ Len(q) >= Len(p) + 1
  <2> DEFINE a == Append(p, i)
  <2>1. a \in Paths /\ Len(a) = Len(p) + 1 /\ a[Len(p) + 1] = i /\ IsAt(q, a)
    BY <1>1
  <2>2. Len(p) + 1 \in 1..Len(a)
    BY <1>1, <2>1
  <2> HIDE DEF a
  <2> QED
    BY <2>1, <2>2, IsAtFacts
<1>3. IsAt(q, p)
  BY <1>1, AppendIsIn, IsAtTransitive
<1> QED
  BY <1>1, <1>2, <1>3 DEF IsIn

LEMMA TopHasNothingAbove ==
  ASSUME NEW q \in Paths, IsAt(<<>>, q)
  PROVE  q = <<>>
<1>1. Len(q) \in Nat /\ Len(q) <= 0
  BY EmptyPath, IsAtFacts, PathFacts
<1> QED
  BY <1>1, PathFacts, SeqFacts

LEMMA PartPaths ==
  ASSUME NEW r, NEW K, IsGuide(K), NEW x \in Reached(r, K), NEW k, <<x, k>> \in K
  PROVE  /\ x \in Spots
         /\ HasPart(x, k)
         /\ k \in Nat
         /\ x.path \in Paths
         /\ PartSpot(x, k) \in Reached(r, K)
         /\ PartSpot(x, k) \in Spots
         /\ PartSpot(x, k).path = Append(x.path, k)
         /\ Append(x.path, k) \in Paths
         /\ IsAt(Append(x.path, k), x.path)
         /\ Append(x.path, k) # x.path
<1>1. x \in Spots /\ HasPart(x, k) /\ k \in Nat
  BY ReachedIsSpot DEF IsGuide, HasPart
<1>2. x.path \in Paths
  BY <1>1, SpotFacts
<1>3. PartSpot(x, k) \in Reached(r, K) /\ PartSpot(x, k) \in Spots
  BY PartIsReached, ReachedIsSpot
<1>4. PartSpot(x, k).path = Append(x.path, k)
  BY DEF PartSpot
<1>5. Append(x.path, k) \in Paths /\ IsIn(Append(x.path, k), x.path)
  BY <1>1, <1>2, AppendIsIn, AppendLength
<1> QED
  BY <1>1, <1>2, <1>3, <1>4, <1>5 DEF IsIn

LEMMA SpotBelow ==
  ASSUME NEW r \in Types, NEW K, IsGuide(K), NEW x \in Reached(r, K),
         NEW y \in Reached(r, K), IsIn(y.path, x.path)
  PROVE  \E k \in Nat : <<x, k>> \in K /\ IsAt(y.path, Append(x.path, k))
<1> DEFINE S == {z \in Reached(r, K) :
                   IsIn(z.path, x.path) =>
                     \E k \in Nat : /\ <<x, k>> \in K
                                    /\ IsAt(z.path, Append(x.path, k))}
<1>1. x.path \in Paths
  BY ReachedIsSpot, SpotFacts
<1>2. TopSpot(r) \in S
  BY <1>1, TopIsReached, TopHasNothingAbove DEF TopSpot, IsIn
<1>3. ASSUME NEW z \in Reached(r, K), z \in S, NEW k, <<z, k>> \in K
      PROVE  PartSpot(z, k) \in S
  <2> DEFINE a == Append(z.path, k)
  <2>1. /\ k \in Nat
        /\ z.path \in Paths
        /\ PartSpot(z, k) \in Reached(r, K)
        /\ PartSpot(z, k).path = a
        /\ a \in Paths
        /\ IsAt(a, z.path)
    BY <1>3, PartPaths
  <2> SUFFICES ASSUME IsIn(a, x.path)
               PROVE  \E j \in Nat : <<x, j>> \in K /\ IsAt(a, Append(x.path, j))
    BY <2>1
  <2>2. IsAt(z.path, x.path)
    BY <1>1, <2>1, AppendBelow DEF IsIn
  <2>3. CASE z.path = x.path
    <3>1. z = x
      BY <2>3, SpotUnique
    <3> QED
      BY <1>3, <2>1, <3>1, IsAtSame
  <2>4. CASE z.path # x.path
    <3>1. PICK j \in Nat : <<x, j>> \in K /\ IsAt(z.path, Append(x.path, j))
      BY <1>3, <2>2, <2>4 DEF IsIn
    <3>2. Append(x.path, j) \in Paths
      BY <1>1, AppendPath
    <3>3. IsAt(a, Append(x.path, j))
      <4> HIDE DEF a
      <4> QED
        BY <2>1, <3>1, <3>2, IsAtTransitive
    <3> QED
      BY <3>1, <3>3
  <2> QED
    BY <2>3, <2>4
<1> HIDE DEF S
<1>4. Reached(r, K) \subseteq S
  BY <1>2, <1>3, ReachedInduction
<1> QED
  BY <1>4 DEF S

LEMMA PartAt ==
  ASSUME NEW x \in Spots, NEW k, HasPart(x, k)
  PROVE  /\ PartSpot(x, k).at \in Paths
         /\ x.at \in Paths
         /\ IsAt(PartSpot(x, k).at, x.at)
         /\ \/ PartSpot(x, k).at = x.at
            \/ /\ ~IsPointer(x.type)
               /\ IdOf(x.type, k) \in Nat
               /\ PartSpot(x, k).at = Append(x.at, IdOf(x.type, k))
<1> DEFINE y == PartSpot(x, k)
           t == x.type
<1>1. y.at \in Paths /\ x.at \in Paths /\ t \in Types
  BY PartIsSpot, SpotFacts
<1>2. CASE IsPointer(t) \/ IsBasePart(t, k)
  <2>1. y.at = x.at
    BY <1>2 DEF PartSpot
  <2> QED
    BY <1>1, <2>1, IsAtSame
<1>3. CASE ~IsPointer(t) /\ ~IsBasePart(t, k)
  <2>1. y.at = Append(x.at, IdOf(t, k))
    BY <1>3 DEF PartSpot
  <2>2. IdOf(t, k) \in Nat
    <3>1. y.at \in Paths /\ y.at = Append(x.at, IdOf(t, k)) /\ IsSeq(x.at)
      BY <1>1, <2>1, PathFacts
    <3>2. Len(y.at) = Len(x.at) + 1 /\ y.at[Len(x.at) + 1] = IdOf(t, k)
      BY <3>1, AppendFacts
    <3>3. Len(x.at) \in Nat /\ \A j \in 1..Len(y.at) : y.at[j] \in Nat
      BY <1>1, PathFacts
    <3> QED
      BY <3>2, <3>3
  <2> QED
    BY <1>1, <1>3, <2>1, <2>2, AppendIsIn
<1> QED
  BY <1>2, <1>3

LEMMA AtFollows ==
  ASSUME NEW r \in Types, NEW K, IsGuide(K), NEW x \in Reached(r, K),
         NEW y \in Reached(r, K), IsAt(y.path, x.path)
  PROVE  IsAt(y.at, x.at)
<1> DEFINE S == {z \in Reached(r, K) :
                   IsAt(z.path, x.path) => IsAt(z.at, x.at)}
<1>1. x.path \in Paths /\ x.at \in Paths
  BY ReachedIsSpot, SpotFacts
<1>2. TopSpot(r) \in S
  <2> SUFFICES ASSUME IsAt(<<>>, x.path) PROVE IsAt(<<>>, x.at)
    BY TopIsReached DEF TopSpot
  <2>1. x.path = <<>>
    BY <1>1, TopHasNothingAbove
  <2>2. x = TopSpot(r)
    BY <2>1, TopIsReached, SpotUnique DEF TopSpot
  <2>3. x.at = <<>>
    BY <2>2 DEF TopSpot
  <2> QED
    BY <2>3, EmptyPath, IsAtSame
<1>3. ASSUME NEW z \in Reached(r, K), z \in S, NEW k, <<z, k>> \in K
      PROVE  PartSpot(z, k) \in S
  <2> DEFINE b == PartSpot(z, k)
  <2>1. /\ k \in Nat
        /\ z \in Spots
        /\ HasPart(z, k)
        /\ z.path \in Paths
        /\ b \in Reached(r, K)
        /\ b.path = Append(z.path, k)
    BY <1>3, PartPaths
  <2> SUFFICES ASSUME IsAt(b.path, x.path) PROVE IsAt(b.at, x.at)
    BY <2>1
  <2>2. CASE b.path = x.path
    <3>1. b = x
      <4> HIDE DEF b
      <4> QED
        BY <2>1, <2>2, SpotUnique
    <3> QED
      BY <1>1, <3>1, IsAtSame
  <2>3. CASE b.path # x.path
    <3>1. IsAt(z.path, x.path)
      BY <1>1, <2>1, <2>3, AppendBelow
    <3>2. IsAt(z.at, x.at)
      BY <1>3, <3>1
    <3>3. b.at \in Paths /\ z.at \in Paths /\ IsAt(b.at, z.at)
      BY <2>1, PartAt
    <3> HIDE DEF b
    <3> QED
      BY <1>1, <3>2, <3>3, IsAtTransitive
  <2> QED
    BY <2>2, <2>3
<1> HIDE DEF S
<1>4. Reached(r, K) \subseteq S
  BY <1>2, <1>3, ReachedInduction
<1> QED
  BY <1>4 DEF S

(* Two spots neither of which is below the other are below two parts of    *)
(* one.                                                                    *)
Parted(K, a, j, k, x, y) ==
  /\ <<a, j>> \in K
  /\ <<a, k>> \in K
  /\ j # k
  /\ IsAt(x.path, Append(a.path, j))
  /\ IsAt(y.path, Append(a.path, k))

LEMMA Branch ==
  ASSUME NEW r \in Types, NEW K, IsGuide(K), NEW x \in Reached(r, K),
         NEW y \in Reached(r, K), ~IsAt(y.path, x.path), ~IsAt(x.path, y.path)
  PROVE  \E a \in Reached(r, K), j, k \in Nat : Parted(K, a, j, k, x, y)
<1> DEFINE S == {z \in Reached(r, K) :
                   ~IsAt(y.path, z.path) /\ ~IsAt(z.path, y.path) =>
                     \E a \in Reached(r, K), j, k \in Nat : Parted(K, a, j, k, z, y)}
<1>1. y.path \in Paths
  BY ReachedIsSpot, SpotFacts
<1>2. TopSpot(r) \in S
  <2>1. IsAt(y.path, <<>>)
    BY <1>1, EmptyPath, PathFacts, IsAtFacts
  <2> QED
    BY <2>1, TopIsReached DEF TopSpot
<1>3. ASSUME NEW z \in Reached(r, K), z \in S, NEW j, <<z, j>> \in K
      PROVE  PartSpot(z, j) \in S
  <2> DEFINE b == PartSpot(z, j)
  <2>1. /\ j \in Nat
        /\ z.path \in Paths
        /\ b \in Reached(r, K)
        /\ b.path = Append(z.path, j)
        /\ b.path \in Paths
        /\ IsAt(b.path, z.path)
    <3>1. /\ j \in Nat
          /\ z.path \in Paths
          /\ b \in Reached(r, K)
          /\ b.path = Append(z.path, j)
          /\ Append(z.path, j) \in Paths
          /\ IsAt(Append(z.path, j), z.path)
      BY <1>3, PartPaths
    <3> HIDE DEF b
    <3> QED
      BY <3>1
  <2> HIDE DEF b
  <2> SUFFICES ASSUME ~IsAt(y.path, b.path), ~IsAt(b.path, y.path)
               PROVE  \E a \in Reached(r, K), i, k \in Nat : Parted(K, a, i, k, b, y)
    BY <2>1 DEF b
  <2>2. ~IsAt(z.path, y.path)
    BY <1>1, <2>1, IsAtTransitive
  <2>3. CASE IsAt(y.path, z.path)
    <3>1. IsIn(y.path, z.path)
      BY <1>1, <2>2, <2>3, IsAtSame DEF IsIn
    <3>2. PICK k \in Nat : <<z, k>> \in K /\ IsAt(y.path, Append(z.path, k))
      BY <3>1, SpotBelow
    <3>3. k # j
      BY <2>1, <3>2
    <3>4. IsAt(b.path, Append(z.path, j))
      BY <2>1, IsAtSame
    <3> QED
      BY <1>3, <2>1, <3>2, <3>3, <3>4 DEF Parted
  <2>4. CASE ~IsAt(y.path, z.path)
    <3>1. PICK a \in Reached(r, K), i \in Nat, k \in Nat : Parted(K, a, i, k, z, y)
      BY <1>3, <2>2, <2>4
    <3>2. a.path \in Paths /\ Append(a.path, i) \in Paths
      BY ReachedIsSpot, SpotFacts, AppendPath
    <3>3. IsAt(b.path, Append(a.path, i))
      BY <2>1, <3>1, <3>2, IsAtTransitive DEF Parted
    <3> QED
      BY <3>1, <3>3 DEF Parted
  <2> QED
    BY <2>3, <2>4
<1> HIDE DEF S
<1>4. Reached(r, K) \subseteq S
  BY <1>2, <1>3, ReachedInduction
<1> QED
  BY <1>4 DEF S

(* The largest id of a member of a class.                                  *)
Ids(t) == MembersInBases[t] + Len(OwnMembers(t))

LEMMA OwnPartFacts ==
  ASSUME NEW t \in Types, Kind[t] \in Aggregates, NEW k \in DOMAIN Parts[t],
         ~IsBasePart(t, k)
  PROVE  /\ IdOf(t, k) \in Nat
         /\ MembersInBases[t] \in Nat
         /\ Ids(t) \in Nat
         /\ IdOf(t, k) > MembersInBases[t]
         /\ IdOf(t, k) <= Ids(t)
<1>1. /\ MembersInBases[t] \in Nat
      /\ Kind[t] # "derived" => MembersInBases[t] = 0
  BY MembersInBasesFacts DEF Inherits
<1>2. Parts[t] \in Seq(Types) /\ Len(Parts[t]) \in Nat /\ k \in 1..Len(Parts[t])
  BY TypesAreAdapted, LenProperties
<1>3. CASE Kind[t] = "derived"
  <2>1. Len(Tail(Parts[t])) = Len(Parts[t]) - 1
    BY <1>2, HeadTailFacts, SeqFacts DEF IsSeq
  <2>2. k > 1
    BY <1>2, <1>3 DEF IsBasePart
  <2>3. IdOf(t, k) = MembersInBases[t] + (k - 1)
    BY <1>3 DEF IdOf
  <2>4. Ids(t) = MembersInBases[t] + (Len(Parts[t]) - 1)
    BY <1>3, <2>1 DEF Ids, OwnMembers, Inherits
  <2> QED
    BY <1>1, <1>2, <2>2, <2>3, <2>4
<1>4. CASE Kind[t] # "derived"
  <2>1. IdOf(t, k) = k
    BY <1>4 DEF IdOf, Aggregates
  <2>2. Ids(t) = MembersInBases[t] + Len(Parts[t])
    BY <1>4 DEF Ids, OwnMembers, Inherits
  <2> QED
    BY <1>1, <1>2, <1>4, <2>1, <2>2
<1> QED
  BY <1>3, <1>4

LEMMA BasePartFacts ==
  ASSUME NEW t \in Types, Kind[t] = "derived"
  PROVE  /\ 1 \in DOMAIN Parts[t]
         /\ Parts[t][1] \in Types
         /\ Kind[Parts[t][1]] \in {"struct", "derived"}
         /\ Ids(Parts[t][1]) = MembersInBases[t]
         /\ Ids(t) \in Nat
         /\ Ids(Parts[t][1]) \in Nat
         /\ Ids(Parts[t][1]) <= Ids(t)
<1>1. Parts[t] \in Seq(Types) /\ Len(Parts[t]) > 1
  BY TypesAreAdapted
<1>2. 1 \in DOMAIN Parts[t]
  BY <1>1, LenProperties
<1>3. Parts[t][1] \in Types /\ Kind[Parts[t][1]] \in {"struct", "derived"}
  BY <1>2, PartFacts, TypesAreAdapted
<1>4. /\ MembersInBases[t] = Ids(Parts[t][1])
      /\ MembersInBases[t] \in Nat
  BY MembersInBasesFacts DEF Inherits, Ids
<1>5. Len(OwnMembers(t)) \in Nat
  BY OwnMembersFacts
<1> QED
  BY <1>2, <1>3, <1>4, <1>5 DEF Ids

(* What holds for a spot and, with a spot below it, for all its parts.     *)
LEMMA BelowInduction ==
  ASSUME NEW r \in Types, NEW K, IsGuide(K), NEW b \in Reached(r, K), NEW S,
         b \in S,
         \A x \in Reached(r, K) :
           x \in S /\ IsAt(x.path, b.path) =>
             \A k : <<x, k>> \in K => PartSpot(x, k) \in S,
         NEW y \in Reached(r, K), IsAt(y.path, b.path)
  PROVE  y \in S
<1> DEFINE T == {z \in Reached(r, K) : IsAt(z.path, b.path) => z \in S}
<1>1. b.path \in Paths
  BY ReachedIsSpot, SpotFacts
<1>2. TopSpot(r) \in T
  <2> SUFFICES ASSUME IsAt(<<>>, b.path) PROVE TopSpot(r) \in S
    BY TopIsReached DEF TopSpot
  <2>1. b.path = <<>>
    BY <1>1, TopHasNothingAbove
  <2>2. TopSpot(r).path = b.path
    BY <2>1 DEF TopSpot
  <2>3. b = TopSpot(r)
    BY <2>2, TopIsReached, SpotUnique
  <2> QED
    BY <2>3
<1>3. ASSUME NEW z \in Reached(r, K), z \in T, NEW k, <<z, k>> \in K
      PROVE  PartSpot(z, k) \in T
  <2>1. /\ k \in Nat
        /\ z.path \in Paths
        /\ PartSpot(z, k) \in Reached(r, K)
        /\ PartSpot(z, k).path = Append(z.path, k)
    BY <1>3, PartPaths
  <2> SUFFICES ASSUME IsAt(Append(z.path, k), b.path)
               PROVE  PartSpot(z, k) \in S
    BY <2>1
  <2>2. CASE Append(z.path, k) = b.path
    <3>1. PartSpot(z, k) = b
      BY <2>1, <2>2, SpotUnique
    <3> QED
      BY <3>1
  <2>3. CASE Append(z.path, k) # b.path
    <3>1. IsAt(z.path, b.path)
      BY <1>1, <2>1, <2>3, AppendBelow
    <3> QED
      BY <1>3, <3>1
  <2> QED
    BY <2>2, <2>3
<1> HIDE DEF T
<1>4. Reached(r, K) \subseteq T
  BY <1>2, <1>3, ReachedInduction
<1> QED
  BY <1>4 DEF T

(* What is below a class, as its base or as a member.                      *)
InClass(b, y) ==
  \/ /\ y.at = b.at
     /\ y = b \/ y.base
     /\ Kind[y.type] \in Aggregates
     /\ Ids(y.type) <= Ids(b.type)
  \/ IsIn(y.at, b.at) /\ y.at[Len(b.at) + 1] <= Ids(b.type)

LEMMA LongerAt ==
  ASSUME NEW q \in Paths, NEW p \in Paths, NEW o \in Paths, IsAt(q, p), IsIn(p, o)
  PROVE  /\ IsIn(q, o)
         /\ q[Len(o) + 1] = p[Len(o) + 1]
         /\ Len(o) \in Nat
         /\ p[Len(o) + 1] \in Nat
<1>1. p[Len(o) + 1] \in Nat /\ IsAt(p, Append(o, p[Len(o) + 1]))
  BY IsInLonger
<1>2. Append(o, p[Len(o) + 1]) \in Paths /\ Len(o) \in Nat
  BY <1>1, AppendLength
<1>3. IsAt(q, Append(o, p[Len(o) + 1]))
  BY <1>1, <1>2, IsAtTransitive
<1> QED
  BY <1>1, <1>2, <1>3, PartNumber

LEMMA IdsAreNumbers ==
  ASSUME NEW t \in Types
  PROVE  Ids(t) \in Nat /\ MembersInBases[t] \in Nat
BY MembersInBasesFacts, OwnMembersFacts DEF Ids

LEMMA BelowClass ==
  ASSUME NEW r \in Types, NEW K, IsGuide(K), NEW b \in Reached(r, K),
         Kind[b.type] \in Aggregates, NEW y \in Reached(r, K),
         IsAt(y.path, b.path)
  PROVE  InClass(b, y)
<1> DEFINE S == {z \in Reached(r, K) : InClass(b, z)}
<1>1. /\ b \in Spots
      /\ b.at \in Paths
      /\ b.type \in Types
      /\ Ids(b.type) \in Nat
  BY ReachedIsSpot, SpotFacts, IdsAreNumbers
<1>2. b \in S
  BY <1>1 DEF InClass
<1>3. ASSUME NEW z \in Reached(r, K), z \in S, NEW k, <<z, k>> \in K
      PROVE  PartSpot(z, k) \in S
  <2> DEFINE w == PartSpot(z, k)
             t == z.type
  <2>1. /\ z \in Spots
        /\ HasPart(z, k)
        /\ k \in Nat
        /\ w \in Reached(r, K)
    BY <1>3, PartPaths
  <2>2. /\ w.at \in Paths
        /\ z.at \in Paths
        /\ IsAt(w.at, z.at)
        /\ t \in Types
        /\ Ids(t) \in Nat
    BY <2>1, PartAt, SpotFacts, IdsAreNumbers
  <2>3. w.type = PartType(t, k) /\ w.base = IsBasePart(t, k)
    BY DEF PartSpot
  <2>4. CASE /\ z.at = b.at
             /\ Kind[t] \in Aggregates
             /\ Ids(t) <= Ids(b.type)
    <3>1. k \in DOMAIN Parts[t] /\ ~IsPointer(t) /\ Kind[t] # "union"
      BY <2>1, <2>4 DEF HasPart, IsPointer, Aggregates
    <3>2. CASE IsBasePart(t, k)
      <4>1. Kind[t] = "derived" /\ k = 1
        BY <3>2 DEF IsBasePart
      <4>2. w.at = b.at /\ w.base
        BY <2>4, <3>2 DEF PartSpot
      <4>3. w.type = Parts[t][1]
        BY <2>3, <2>4, <4>1 DEF PartType
      <4>4. Kind[w.type] \in Aggregates /\ Ids(w.type) \in Nat /\ Ids(w.type) <= Ids(t)
        BY <2>2, <4>1, <4>3, BasePartFacts DEF Aggregates
      <4>5. InClass(b, w)
        <5> HIDE DEF w, t
        <5> QED
          BY <1>1, <2>2, <2>4, <4>2, <4>4 DEF InClass
      <4> QED
        BY <2>1, <4>5
    <3>3. CASE ~IsBasePart(t, k)
      <4>1. w.at = Append(b.at, IdOf(t, k))
        BY <2>4, <3>1, <3>3 DEF PartSpot
      <4>2. IdOf(t, k) \in Nat /\ IdOf(t, k) <= Ids(t)
        BY <2>2, <2>4, <3>1, <3>3, OwnPartFacts
      <4>3. /\ IsIn(Append(b.at, IdOf(t, k)), b.at)
            /\ Append(b.at, IdOf(t, k))[Len(b.at) + 1] = IdOf(t, k)
        BY <1>1, <4>2, AppendIsIn, AppendLength
      <4>4. InClass(b, w)
        <5> HIDE DEF w, t
        <5> QED
          BY <1>1, <2>2, <2>4, <4>1, <4>2, <4>3 DEF InClass
      <4> QED
        BY <2>1, <4>4
    <3> QED
      BY <3>2, <3>3
  <2>5. CASE IsIn(z.at, b.at) /\ z.at[Len(b.at) + 1] <= Ids(b.type)
    <3>1. IsIn(w.at, b.at) /\ w.at[Len(b.at) + 1] = z.at[Len(b.at) + 1]
      <4> HIDE DEF w
      <4> QED
        BY <1>1, <2>2, <2>5, LongerAt
    <3> QED
      BY <2>1, <2>5, <3>1 DEF InClass
  <2> QED
    BY <1>3, <2>4, <2>5 DEF InClass
<1> HIDE DEF S
<1>4. y \in S
  BY <1>2, <1>3, BelowInduction
<1> QED
  BY <1>4 DEF S

(* What is below a part that has an id of its own.                         *)
LEMMA BelowPart ==
  ASSUME NEW r \in Types, NEW K, IsGuide(K), NEW a \in Reached(r, K), NEW k,
         <<a, k>> \in K, ~IsPointer(a.type), ~IsBasePart(a.type, k),
         NEW y \in Reached(r, K), IsAt(y.path, Append(a.path, k))
  PROVE  /\ IdOf(a.type, k) \in Nat
         /\ y.at[Len(a.at) + 1] = IdOf(a.type, k)
         /\ IsIn(y.at, a.at)
<1>1. /\ a \in Spots
      /\ HasPart(a, k)
      /\ PartSpot(a, k) \in Reached(r, K)
      /\ PartSpot(a, k).path = Append(a.path, k)
  BY PartPaths
<1>2. PartSpot(a, k).at = Append(a.at, IdOf(a.type, k))
  BY DEF PartSpot
<1>3. a.at \in Paths /\ IdOf(a.type, k) \in Nat
  <2>1. /\ a.at \in Paths
        /\ PartSpot(a, k).at = a.at \/ IdOf(a.type, k) \in Nat
        /\ PartSpot(a, k).at \in Paths
    BY <1>1, PartAt
  <2>2. PartSpot(a, k).at # a.at
    BY <1>2, <2>1, AppendFacts, PathFacts
  <2> QED
    BY <2>1, <2>2
<1>4. IsAt(y.at, Append(a.at, IdOf(a.type, k)))
  BY <1>1, <1>2, AtFollows
<1>5. y.at \in Paths
  BY ReachedIsSpot, SpotFacts
<1> QED
  BY <1>3, <1>4, <1>5, PartNumber

(* What is below the base of a class.                                      *)
LEMMA BelowBase ==
  ASSUME NEW r \in Types, NEW K, IsGuide(K), NEW a \in Reached(r, K),
         <<a, 1>> \in K, IsBasePart(a.type, 1),
         NEW y \in Reached(r, K), IsAt(y.path, Append(a.path, 1))
  PROVE  \/ y.at = a.at /\ y.base
         \/ /\ IsIn(y.at, a.at)
            /\ y.at[Len(a.at) + 1] <= MembersInBases[a.type]
<1> DEFINE b == PartSpot(a, 1)
<1>1. /\ a \in Spots
      /\ b \in Reached(r, K)
      /\ b.path = Append(a.path, 1)
  BY PartPaths
<1>2. b.at = a.at /\ b.base
  BY DEF PartSpot
<1>3. Kind[a.type] = "derived" /\ a.type \in Types
  BY <1>1, SpotFacts DEF IsBasePart
<1>4. b.type = Parts[a.type][1]
  BY <1>3 DEF PartSpot, PartType, Aggregates
<1>5. Kind[b.type] \in Aggregates /\ Ids(b.type) = MembersInBases[a.type]
  BY <1>3, <1>4, BasePartFacts DEF Aggregates
<1> HIDE DEF b
<1>6. InClass(b, y)
  BY <1>1, <1>5, BelowClass
<1> QED
  BY <1>2, <1>5, <1>6 DEF InClass

(* A member, an element or a case has a place of its own.                  *)
LEMMA OwnPlace ==
  ASSUME NEW r \in Types, NEW K, IsGuide(K), NEW y \in Reached(r, K),
         ~IsPointer(y.type), NEW x \in Reached(r, K), ~x.base,
         IsIn(x.path, y.path)
  PROVE  IsIn(x.at, y.at)
<1>1. /\ y \in Spots
      /\ y.path \in Paths
      /\ x.path \in Paths
  BY ReachedIsSpot, SpotFacts
<1>2. CASE Kind[y.type] \in Aggregates
  <2>1. InClass(y, x)
    BY <1>2, BelowClass DEF IsIn
  <2>2. x # y
    BY DEF IsIn
  <2> QED
    BY <2>1, <2>2 DEF InClass
<1>3. CASE Kind[y.type] \notin Aggregates
  <2>1. PICK k \in Nat : <<y, k>> \in K /\ IsAt(x.path, Append(y.path, k))
    BY SpotBelow
  <2>2. ~IsBasePart(y.type, k)
    BY <1>3 DEF IsBasePart, Aggregates
  <2> QED
    BY <2>1, <2>2, BelowPart
<1> QED
  BY <1>2, <1>3

LEMMA IdsDiffer ==
  ASSUME NEW a \in Spots, ~IsPointer(a.type), Kind[a.type] # "union",
         NEW j, NEW k, HasPart(a, j), HasPart(a, k), j # k
  PROVE  IdOf(a.type, j) # IdOf(a.type, k)
<1>1. j \in Nat /\ k \in Nat /\ a.type \in Types
  BY SpotFacts DEF HasPart
<1>2. MembersInBases[a.type] \in Nat
  BY <1>1, MembersInBasesFacts
<1> QED
  BY <1>1, <1>2 DEF IdOf

(* Members, elements, cases: not a base nor what optionals and pointers    *)
(* hold.                                                                   *)
IsReal(x) == ~x.base /\ ~IsPointer(x.type)

(* Where a member is in the instance tells where it is in the object.      *)
LEMMA AtTellsPath ==
  ASSUME NEW r \in Types, NEW K, IsGuide(K), NEW x \in Reached(r, K), ~x.base,
         NEW y \in Reached(r, K), ~IsPointer(y.type), IsAt(y.at, x.at)
  PROVE  IsAt(y.path, x.path)
<1>1. /\ x.at \in Paths
      /\ y.at \in Paths
      /\ x.path \in Paths
      /\ y.path \in Paths
  BY ReachedIsSpot, SpotFacts
<1> SUFFICES ASSUME ~IsAt(y.path, x.path) PROVE FALSE
  OBVIOUS
<1>2. CASE IsAt(x.path, y.path)
  <2>1. IsIn(x.path, y.path)
    BY <1>1, <1>2, IsAtSame DEF IsIn
  <2>2. IsIn(x.at, y.at)
    BY <2>1, OwnPlace
  <2>3. x.at = y.at
    BY <1>1, <2>2, IsAtBoth DEF IsIn
  <2> QED
    BY <2>2, <2>3 DEF IsIn
<1>3. CASE ~IsAt(x.path, y.path)
  <2>1. PICK a \in Reached(r, K), j \in Nat, k \in Nat : Parted(K, a, j, k, x, y)
    BY <1>3, Branch
  <2>2. /\ <<a, j>> \in K
        /\ <<a, k>> \in K
        /\ j # k
        /\ IsAt(x.path, Append(a.path, j))
        /\ IsAt(y.path, Append(a.path, k))
    BY <2>1 DEF Parted
  <2>3. /\ a \in Spots
        /\ HasPart(a, j)
        /\ HasPart(a, k)
        /\ a.at \in Paths
        /\ a.type \in Types
    BY <2>2, PartPaths, SpotFacts
  <2>4. ~IsPointer(a.type) /\ Kind[a.type] # "union"
    BY <2>2, <2>3 DEF HasPart, IsGuide
  <2> DEFINE n == Len(a.at) + 1
             m == MembersInBases[a.type]
  <2>5. m \in Nat
    BY <2>3, MembersInBasesFacts
  <2> HIDE DEF n, m
  <2>6. IsIn(x.at, a.at) => IsIn(y.at, a.at) /\ y.at[n] = x.at[n]
    BY <1>1, <2>3, LongerAt DEF n
  <2>7. y.at = a.at => ~IsIn(x.at, a.at)
    BY <1>1, <2>3, IsAtBoth DEF IsIn
  <2>8. ASSUME NEW i, <<a, i>> \in K, IsBasePart(a.type, i)
        PROVE  i = 1
    BY <2>8 DEF IsBasePart
  <2>9. ASSUME NEW i, <<a, i>> \in K, i # j \/ i # k, ~IsBasePart(a.type, i),
               Kind[a.type] = "derived"
        PROVE  IdOf(a.type, i) > m
    <3>1. HasPart(a, i)
      BY <2>9, PartPaths
    <3> QED
      BY <2>3, <2>9, <3>1, OwnPartFacts DEF HasPart, m, Aggregates
  <2>10. CASE ~IsBasePart(a.type, j) /\ ~IsBasePart(a.type, k)
    <3>1. /\ x.at[n] = IdOf(a.type, j)
          /\ IsIn(x.at, a.at)
      BY <2>2, <2>4, <2>10, BelowPart DEF n
    <3>2. y.at[n] = IdOf(a.type, k)
      BY <2>2, <2>4, <2>10, BelowPart DEF n
    <3> QED
      BY <2>2, <2>3, <2>4, <2>6, <3>1, <3>2, IdsDiffer
  <2>11. CASE IsBasePart(a.type, j)
    <3>1. j = 1 /\ ~IsBasePart(a.type, k) /\ Kind[a.type] = "derived"
      BY <2>2, <2>11 DEF IsBasePart
    <3>2. IsIn(x.at, a.at) /\ x.at[n] <= m
      BY <2>2, <2>11, <3>1, BelowBase DEF n, m
    <3>3. y.at[n] = IdOf(a.type, k) /\ IdOf(a.type, k) \in Nat
      BY <2>2, <2>4, <3>1, BelowPart DEF n
    <3>4. IdOf(a.type, k) > m
      BY <2>2, <2>9, <3>1
    <3> QED
      BY <2>5, <2>6, <3>2, <3>3, <3>4
  <2>12. CASE IsBasePart(a.type, k)
    <3>1. k = 1 /\ ~IsBasePart(a.type, j) /\ Kind[a.type] = "derived"
      BY <2>2, <2>12 DEF IsBasePart
    <3>2. y.at = a.at \/ (IsIn(y.at, a.at) /\ y.at[n] <= m)
      BY <2>2, <2>12, <3>1, BelowBase DEF n, m
    <3>3. /\ x.at[n] = IdOf(a.type, j)
          /\ IdOf(a.type, j) \in Nat
          /\ IsIn(x.at, a.at)
      BY <2>2, <2>4, <3>1, BelowPart DEF n
    <3>4. IdOf(a.type, j) > m
      BY <2>2, <2>9, <3>1
    <3> QED
      BY <2>5, <2>6, <2>7, <3>2, <3>3, <3>4
  <2> QED
    BY <2>10, <2>11, <2>12
<1> QED
  BY <1>2, <1>3

(* The union of which a spot is, or holds, the case.                       *)
Cased(K, x, u, k) ==
  /\ <<u, k>> \in K
  /\ Kind[u.type] = "union"
  /\ PartSpot(u, k).at = x.at
  /\ IsAt(x.path, Append(u.path, k))

LEMMA CaseOf ==
  ASSUME NEW r \in Types, NEW K, IsGuide(K), NEW x \in Reached(r, K), x.case
  PROVE  \E u \in Reached(r, K), k \in Nat : Cased(K, x, u, k)
<1> DEFINE S == {z \in Reached(r, K) :
                   z.case => \E u \in Reached(r, K), k \in Nat : Cased(K, z, u, k)}
<1>1. TopSpot(r) \in S
  BY TopIsReached DEF TopSpot
<1>2. ASSUME NEW z \in Reached(r, K), z \in S, NEW k, <<z, k>> \in K
      PROVE  PartSpot(z, k) \in S
  <2> DEFINE w == PartSpot(z, k)
  <2>1. /\ z \in Spots
        /\ k \in Nat
        /\ w \in Reached(r, K)
        /\ z.path \in Paths
        /\ Append(z.path, k) \in Paths
        /\ IsAt(Append(z.path, k), z.path)
    BY <1>2, PartPaths
  <2>2. w.path = Append(z.path, k)
    BY DEF PartSpot
  <2> SUFFICES ASSUME w.case
               PROVE  \E u \in Reached(r, K), j \in Nat : Cased(K, w, u, j)
    BY <2>1
  <2>3. CASE Kind[z.type] = "union"
    <3>1. IsAt(w.path, Append(z.path, k))
      BY <2>1, <2>2, IsAtSame
    <3>2. Cased(K, w, z, k)
      BY <1>2, <2>3, <3>1 DEF Cased
    <3> QED
      BY <2>1, <3>2
  <2>4. CASE Kind[z.type] # "union"
    <3>1. IsPointer(z.type) /\ z.case
      BY <2>4 DEF PartSpot
    <3>2. w.at = z.at
      BY <3>1 DEF PartSpot
    <3>3. PICK u \in Reached(r, K), j \in Nat : Cased(K, z, u, j)
      BY <1>2, <3>1
    <3>4. /\ Append(u.path, j) \in Paths
          /\ IsAt(z.path, Append(u.path, j))
      BY <3>3, PartPaths DEF Cased
    <3>5. IsAt(w.path, Append(u.path, j))
      BY <2>1, <2>2, <3>4, IsAtTransitive
    <3>6. Cased(K, w, u, j)
      BY <3>2, <3>3, <3>5 DEF Cased
    <3> QED
      BY <3>6
  <2> QED
    BY <2>3, <2>4
<1> HIDE DEF S
<1>3. Reached(r, K) \subseteq S
  BY <1>1, <1>2, ReachedInduction
<1> QED
  BY <1>3 DEF S

(* A base is a class.                                                      *)
LEMMA BaseIsClass ==
  ASSUME NEW r \in Types, Kind[r] \in {"struct", "derived"}, NEW K, IsGuide(K),
         NEW x \in Reached(r, K), x.base
  PROVE  Kind[x.type] \in {"struct", "derived"}
<1>1. CASE x = TopSpot(r)
  BY <1>1 DEF TopSpot
<1>2. CASE x # TopSpot(r)
  <2>1. PICK z, j : z \in Reached(r, K) /\ <<z, j>> \in K /\ x = PartSpot(z, j)
    BY <1>2, ReachedWhole
  <2>2. IsBasePart(z.type, j) /\ x.type = PartType(z.type, j)
    BY <2>1 DEF PartSpot
  <2>3. z.type \in Types /\ Kind[z.type] = "derived"
    BY <2>1, <2>2, PartPaths, SpotFacts DEF IsBasePart
  <2>4. x.type = Parts[z.type][1]
    BY <2>2, <2>3 DEF PartType, IsBasePart, Aggregates
  <2> QED
    BY <2>3, <2>4, BasePartFacts
<1> QED
  BY <1>1, <1>2

(* In a union nothing is but its case.                                     *)
LEMMA OneCase ==
  ASSUME NEW r \in Types, Kind[r] \in {"struct", "derived"}, NEW K, IsGuide(K),
         NEW x \in Reached(r, K), x.case,
         NEW y \in Reached(r, K), ~IsPointer(y.type), IsIn(y.at, Front(x.at))
  PROVE  IsAt(y.at, x.at)
<1>1. PICK u \in Reached(r, K), k \in Nat : Cased(K, x, u, k)
  BY CaseOf
<1>2. /\ <<u, k>> \in K
      /\ Kind[u.type] = "union"
      /\ PartSpot(u, k).at = x.at
  BY <1>1 DEF Cased
<1>3. /\ u \in Spots
      /\ HasPart(u, k)
      /\ PartSpot(u, k) \in Reached(r, K)
      /\ PartSpot(u, k).path = Append(u.path, k)
      /\ u.at \in Paths
      /\ u.path \in Paths
  BY <1>2, PartPaths, SpotFacts
<1>4. ~IsPointer(u.type) /\ ~IsBasePart(u.type, k)
  BY <1>2 DEF IsPointer, IsBasePart
<1>5. Front(x.at) = u.at
  <2>1. x.at = Append(u.at, IdOf(u.type, k))
    BY <1>2, <1>4 DEF PartSpot
  <2> QED
    BY <1>3, <2>1, AppendFacts, PathFacts
<1>6. ~u.base
  BY <1>2, <1>3, SpotFacts, BaseIsClass
<1>7. IsAt(y.path, u.path)
  BY <1>5, <1>6, AtTellsPath DEF IsIn
<1>8. y.path # u.path
  <2> SUFFICES ASSUME y.path = u.path PROVE FALSE
    OBVIOUS
  <2>1. y = u
    BY SpotUnique
  <2> QED
    BY <1>5, <2>1 DEF IsIn
<1>9. PICK j \in Nat : <<u, j>> \in K /\ IsAt(y.path, Append(u.path, j))
  BY <1>7, <1>8, SpotBelow DEF IsIn
<1>10. j = k
  BY <1>2, <1>9 DEF IsGuide
<1> QED
  BY <1>2, <1>3, <1>9, <1>10, AtFollows

-----------------------------------------------------------------------------
(* What is written of an object s.                                         *)

WritesPart(s, x, k) ==
  /\ Kind[x.type] \in Wrappers => k \in 1..LengthOf(s, x)
  /\ Kind[x.type] = "union" =>
       LET c == CaseHeld(s, x.type, x.path)
       IN /\ c \in 1..NCases(x.type)
          /\ Append(x.path, k) = DataOf(s, x.type, x.path, c)

PartsWritten(s) ==
  {e \in Spots \X Nat : HasPart(e[1], e[2]) /\ WritesPart(s, e[1], e[2])}

SpotsWritten(s) == Reached(root, PartsWritten(s))

LEMMA PartWritten ==
  ASSUME NEW s, NEW x \in Spots, NEW k
  PROVE  <<x, k>> \in PartsWritten(s) <=> HasPart(x, k) /\ WritesPart(s, x, k)
BY DEF PartsWritten, HasPart

LEMMA WrittenGuide ==
  ASSUME NEW s
  PROVE  IsGuide(PartsWritten(s))
<1>1. ASSUME NEW x, NEW k, <<x, k>> \in PartsWritten(s)
      PROVE  x \in Spots /\ HasPart(x, k) /\ k \in Nat /\ WritesPart(s, x, k)
  BY <1>1 DEF PartsWritten
<1>2. ASSUME NEW x, NEW j, NEW k, Kind[x.type] = "union",
             <<x, j>> \in PartsWritten(s), <<x, k>> \in PartsWritten(s)
      PROVE  j = k
  <2>1. Append(x.path, j) = Append(x.path, k)
    BY <1>1, <1>2 DEF WritesPart
  <2>2. x.path \in Paths /\ j \in Nat /\ k \in Nat
    BY <1>1, <1>2, SpotFacts
  <2> QED
    BY <2>1, <2>2, AppendSame
<1> QED
  BY <1>1, <1>2 DEF IsGuide

(* What there must be in an instance w for x to have been written to it.   *)
HasNothing(s, x) == Kind[x.type] = "vector" /\ LengthOf(s, x) = 0

OnlyCase(w, x) ==
  x.case => \A q \in DOMAIN w : IsIn(q, Front(x.at)) => IsAt(q, x.at)

HoldsValue(w, s, x) ==
  /\ Kind[x.type] \in Leaves \cup {"vector"} => At(w, x.at) = At(s.value, x.path)
  /\ Kind[x.type] \in {"sequence", "range"} => At(w, x.at) >= At(s.value, x.path)

Stored(w, s, x) ==
  /\ IsReal(x) /\ ~HasNothing(s, x) =>
       x.at \in DOMAIN w /\ OnlyCase(w, x) /\ HoldsValue(w, s, x)
  /\ Kind[x.type] = "smart_ptr" => At(s.value, x.path) = 1

(* The overload of x is e.                                                 *)
MatchesSet(x, e) ==
  /\ x.path = e.o
  /\ x.type = e.type
  /\ x.at = e.i
  /\ \/ e.op = "set" /\ ~x.base /\ x.case = e.case
     \/ e.op = "set_base" /\ x.base
     \/ e.op = "set_union" /\ ~x.base /\ Kind[x.type] = "union"

(* It will write y.                                                        *)
Covers(e, y) ==
  \/ e.op \in {"set", "set_base"} /\ IsAt(y.path, e.o)
  \/ e.op = "set_union" /\ IsIn(y.path, e.o)

Matched(s, steps) ==
  \A k \in 1..Len(steps) :
    steps[k].op # "unbind" => \E x \in SpotsWritten(s) : MatchesSet(x, steps[k])

WillCover(steps, y) == \E k \in 1..Len(steps) : Covers(steps[k], y)

AllStored(w, s, steps) ==
  \A y \in SpotsWritten(s) : Stored(w, s, y) \/ WillCover(steps, y)

SetOps == {"set", "set_base", "set_union", "unbind"}

Writing ==
  call.what = "write" /\ call.ended = "running" =>
    /\ ~message.whole
    /\ message.written = Contents(object)
    /\ message.mixed = object.mixed
    /\ \A k \in 1..Len(todo) : todo[k].op \in SetOps
    /\ ~object.mixed => Matched(object, todo) /\ AllStored(instance, object, todo)

(* What a step writes at the place of x, if anything, disturbs nothing     *)
(* that is not in x.                                                       *)
WritesOnly(s, x, w, v) ==
  /\ \A q \in DOMAIN w :
       ~IsAt(q, x.at) /\ ~(x.case /\ IsIn(q, Front(x.at))) =>
         q \in DOMAIN v /\ v[q] = w[q]
  /\ \A q \in DOMAIN v :
       q \in DOMAIN w \/ \E z \in SpotsWritten(s) : z.at = q /\ ~IsPointer(z.type)

IsRoot == root \in Types /\ Kind[root] \in {"struct", "derived"}

LEMMA WrittenElsewhere ==
  ASSUME IsRoot, NEW s, NEW x \in SpotsWritten(s), IsReal(x),
         NEW w, NEW v, WritesOnly(s, x, w, v),
         NEW y \in SpotsWritten(s), ~IsAt(y.path, x.path), Stored(w, s, y)
  PROVE  Stored(v, s, y)
<1> DEFINE K == PartsWritten(s)
<1>1. IsGuide(K)
  BY WrittenGuide
<1>2. x \in Reached(root, K) /\ y \in Reached(root, K)
  BY DEF SpotsWritten
<1> SUFFICES ASSUME IsReal(y), ~HasNothing(s, y)
             PROVE  y.at \in DOMAIN v /\ OnlyCase(v, y) /\ HoldsValue(v, s, y)
  BY DEF Stored
<1>3. y.at \in DOMAIN w /\ OnlyCase(w, y) /\ HoldsValue(w, s, y)
  BY DEF Stored
<1> HIDE DEF K
<1>4. ~IsAt(y.at, x.at)
  BY <1>1, <1>2, AtTellsPath DEF IsReal, IsRoot
<1>5. ~(x.case /\ IsIn(y.at, Front(x.at)))
  BY <1>1, <1>2, <1>4, OneCase DEF IsReal, IsRoot
<1>6. y.at \in DOMAIN v /\ v[y.at] = w[y.at]
  BY <1>3, <1>4, <1>5 DEF WritesOnly
<1>7. ASSUME y.case, NEW q \in DOMAIN v, IsIn(q, Front(y.at))
      PROVE  IsAt(q, y.at)
  <2>1. CASE q \in DOMAIN w
    BY <1>3, <1>7, <2>1 DEF OnlyCase
  <2>2. CASE q \notin DOMAIN w
    <3>1. PICK z \in SpotsWritten(s) : z.at = q /\ ~IsPointer(z.type)
      BY <2>2 DEF WritesOnly
    <3>2. z \in Reached(root, K)
      BY DEF SpotsWritten, K
    <3> QED
      BY <1>1, <1>2, <1>7, <3>1, <3>2, OneCase DEF IsRoot
  <2> QED
    BY <2>1, <2>2
<1> QED
  BY <1>3, <1>6, <1>7 DEF OnlyCase, HoldsValue, At

(* The next step of a write is replaced by steps.                          *)
LEMMA ContinueWriting ==
  ASSUME Typing, Writing, todo # <<>>,
         call.what = "write", call.ended = "running",
         NEW steps \in Seq(Steps), Continue(steps),
         UNCHANGED <<root, object, call, message>>,
         \A k \in 1..Len(steps) : steps[k].op \in SetOps,
         ~object.mixed => Matched(object, steps),
         ~object.mixed => \A y \in SpotsWritten(object) :
           \/ Stored(instance', object, y)
           \/ WillCover(steps, y)
           \/ ~Covers(Current, y) /\ ~Stored(instance, object, y)
  PROVE  Writing'
<1>1. /\ todo \in Seq(Steps)
      /\ IsSeq(todo)
      /\ IsSeq(Tail(todo))
      /\ Len(Tail(todo)) = Len(todo) - 1
      /\ \A k \in 1..Len(todo) - 1 : Tail(todo)[k] = todo[k + 1]
      /\ Current = todo[1]
      /\ Len(todo) \in Nat
      /\ Len(todo) > 0
  BY HeadTailFacts, SeqFacts DEF Typing, StepsOK, IsSeq, Current
<1>2. IsSeq(steps) /\ Len(steps) \in Nat
  BY SeqFacts DEF IsSeq
<1> DEFINE all == steps \o Tail(todo)
<1>3. /\ todo' = all
      /\ Len(all) = Len(steps) + (Len(todo) - 1)
      /\ \A k \in 1..Len(steps) : all[k] = steps[k]
      /\ \A k \in 1..Len(todo) - 1 : all[Len(steps) + k] = todo[k + 1]
  <2>1. Len(all) = Len(steps) + Len(Tail(todo))
    BY <1>1, <1>2, ConcatFacts
  <2>2. \A k \in 1..Len(steps) : all[k] = steps[k]
    BY <1>1, <1>2, ConcatFacts
  <2>3. \A k \in 1..Len(Tail(todo)) : all[Len(steps) + k] = Tail(todo)[k]
    BY <1>1, <1>2, ConcatFacts
  <2> HIDE DEF all
  <2> QED
    BY <1>1, <2>1, <2>2, <2>3 DEF Continue, all
<1> HIDE DEF all
<1>4. ASSUME NEW k \in 1..Len(all)
      PROVE  \/ k \in 1..Len(steps) /\ all[k] = steps[k]
             \/ \E j \in 2..Len(todo) : all[k] = todo[j]
  <2>1. CASE k <= Len(steps)
    BY <1>2, <1>3, <2>1
  <2>2. CASE k > Len(steps)
    <3>1. k - Len(steps) \in 1..Len(todo) - 1
      BY <1>1, <1>2, <1>3, <2>2
    <3>2. all[Len(steps) + (k - Len(steps))] = todo[(k - Len(steps)) + 1]
      BY <1>3, <3>1
    <3>3. Len(steps) + (k - Len(steps)) = k
      BY <1>2
    <3>4. (k - Len(steps)) + 1 \in 2..Len(todo)
      BY <1>1, <1>2, <3>1
    <3> QED
      BY <3>2, <3>3, <3>4
  <2> QED
    BY <1>2, <2>1, <2>2
<1>5. ASSUME NEW j \in 2..Len(todo)
      PROVE  \E k \in 1..Len(all) : all[k] = todo[j]
  <2>1. j - 1 \in 1..Len(todo) - 1
    BY <1>1
  <2>2. all[Len(steps) + (j - 1)] = todo[(j - 1) + 1]
    BY <1>3, <2>1
  <2>3. (j - 1) + 1 = j /\ Len(steps) + (j - 1) \in 1..Len(all)
    BY <1>1, <1>2, <1>3
  <2> QED
    BY <2>2, <2>3
<1>6. ASSUME NEW j \in 1..Len(steps)
      PROVE  \E k \in 1..Len(all) : all[k] = steps[j]
  <2>1. j \in 1..Len(all)
    BY <1>1, <1>2, <1>3
  <2> QED
    BY <1>3, <2>1
<1>7. \A k \in 1..Len(all) : all[k].op \in SetOps
  BY <1>1, <1>4 DEF Writing
<1>8. ASSUME ~object.mixed
      PROVE  Matched(object, all)
  <2>1. Matched(object, todo) /\ Matched(object, steps)
    BY <1>8 DEF Writing
  <2> SUFFICES ASSUME NEW k \in 1..Len(all), all[k].op # "unbind"
               PROVE  \E x \in SpotsWritten(object) : MatchesSet(x, all[k])
    BY DEF Matched
  <2>2. CASE k \in 1..Len(steps) /\ all[k] = steps[k]
    BY <2>1, <2>2 DEF Matched
  <2>3. CASE \E j \in 2..Len(todo) : all[k] = todo[j]
    <3>1. PICK j \in 2..Len(todo) : all[k] = todo[j]
      BY <2>3
    <3>2. j \in 1..Len(todo)
      BY <1>1
    <3> QED
      BY <2>1, <3>1, <3>2 DEF Matched
  <2> QED
    BY <1>4, <2>2, <2>3
<1>9. ASSUME ~object.mixed
      PROVE  AllStored(instance', object, all)
  <2> SUFFICES ASSUME NEW y \in SpotsWritten(object), ~Stored(instance', object, y)
               PROVE  WillCover(all, y)
    BY DEF AllStored
  <2>1. CASE WillCover(steps, y)
    <3>1. PICK j \in 1..Len(steps) : Covers(steps[j], y)
      BY <2>1 DEF WillCover
    <3> QED
      BY <1>6, <3>1 DEF WillCover
  <2>2. CASE ~Covers(Current, y) /\ ~Stored(instance, object, y)
    <3>1. WillCover(todo, y)
      BY <1>9, <2>2 DEF Writing, AllStored
    <3>2. PICK j \in 1..Len(todo) : Covers(todo[j], y)
      BY <3>1 DEF WillCover
    <3>3. j \in 2..Len(todo)
      BY <1>1, <2>2, <3>2
    <3> QED
      BY <1>5, <3>2, <3>3 DEF WillCover
  <2> QED
    BY <1>9, <2>1, <2>2
<1>10. /\ SpotsWritten(object)' = SpotsWritten(object)
       /\ Contents(object)' = Contents(object)
  <2>1. root' = root /\ object' = object
    OBVIOUS
  <2>2. PartsWritten(object)' = PartsWritten(object)
    BY <2>1 DEF PartsWritten, WritesPart, LengthOf
  <2> QED
    BY <2>1, <2>2 DEF SpotsWritten, Contents, Nodes
<1> QED
  BY <1>3, <1>7, <1>8, <1>9, <1>10 DEF Writing, Matched, AllStored

LEMMA ConcatSecond ==
  ASSUME NEW s, NEW r, IsSeq(s), IsSeq(r), NEW both, both = s \o r,
         NEW m \in 1..Len(r)
  PROVE  both[Len(s) + m] = r[m]
BY ConcatFacts

(* A class has one step for each of its parts.                             *)
LEMMA MemberStepsAre ==
  ASSUME NEW t \in Types, Kind[t] \in Aggregates, NEW op, NEW base, NEW o, NEW i
  PROVE  LET s == StepPerMember(op, base, t, o, i)
         IN /\ Len(s) = Len(Parts[t])
            /\ \A k \in 1..Len(Parts[t]) :
                 s[k] = Step(IF IsBasePart(t, k) THEN base ELSE op, Parts[t][k],
                             Append(o, k),
                             IF IsBasePart(t, k) THEN i
                             ELSE Append(i, IdOf(t, k)))
<1> DEFINE own == OwnMembers(t)
           shift == IF Inherits(t) THEN 1 ELSE 0
           first == IF Inherits(t) THEN <<Step(base, Parts[t][1], Append(o, 1), i)>>
                    ELSE <<>>
           rest == [k \in 1..Len(own) |->
                      Step(op, own[k], Append(o, k + shift),
                           Append(i, MembersInBases[t] + k))]
           s == StepPerMember(op, base, t, o, i)
<1>1. /\ own \in Seq(Types)
      /\ Len(own) \in Nat
      /\ DOMAIN own = 1..Len(own)
      /\ MembersInBases[t] \in Nat
      /\ ~Inherits(t) => MembersInBases[t] = 0
  BY OwnMembersFacts, MembersInBasesFacts
<1>2. s = first \o rest
  BY <1>1 DEF StepPerMember
<1>3. IsSeq(rest) /\ Len(rest) = Len(own)
  BY <1>1, FunctionIsSeq
<1>4. /\ Parts[t] \in Seq(Types)
      /\ Len(Parts[t]) \in Nat
      /\ IsSeq(Parts[t])
  BY TypesAreAdapted, LenProperties DEF IsSeq
<1>5. IsSeq(first) /\ Len(first) = shift
  BY OneIsSeq, EmptyIsSeq
<1>6. CASE Inherits(t)
  <2>1. Kind[t] = "derived"
    BY <1>6 DEF Inherits
  <2>2. Parts[t] # <<>>
    BY <1>4, <2>1, TypesAreAdapted, SeqFacts
  <2>3. /\ Len(own) = Len(Parts[t]) - 1
        /\ \A k \in 1..Len(Parts[t]) - 1 : own[k] = Parts[t][k + 1]
    BY <1>4, <1>6, <2>2, HeadTailFacts DEF OwnMembers
  <2> HIDE DEF own
  <2>4. Len(s) = 1 + Len(own)
    <3> HIDE DEF first, rest, s
    <3>1. Len(s) = Len(first) + Len(rest)
      BY <1>2, <1>3, <1>5, ConcatFacts
    <3> QED
      BY <1>3, <1>5, <1>6, <3>1
  <2>5. ASSUME NEW k \in 1..Len(Parts[t])
        PROVE  s[k] = Step(IF IsBasePart(t, k) THEN base ELSE op, Parts[t][k],
                           Append(o, k),
                           IF IsBasePart(t, k) THEN i ELSE Append(i, IdOf(t, k)))
    <3>1. CASE k = 1
      <4>1. first = <<Step(base, Parts[t][1], Append(o, 1), i)>> /\ 1 \in 1..Len(first)
        BY <1>5, <1>6
      <4>2. s[1] = first[1]
        <5> HIDE DEF first, rest, s
        <5> QED
          BY <1>2, <1>3, <1>5, <4>1, ConcatFacts
      <4>3. IsBasePart(t, k)
        BY <2>1, <3>1 DEF IsBasePart
      <4>4. first[1] = Step(base, Parts[t][1], Append(o, 1), i)
        BY <4>1, OneIsSeq
      <4> QED
        BY <3>1, <4>2, <4>3, <4>4
    <3>2. CASE k # 1
      <4>1. k - 1 \in 1..Len(own) /\ 1 + (k - 1) = k /\ (k - 1) + 1 = k
        BY <1>4, <2>3, <3>2
      <4>2. s[1 + (k - 1)] = rest[k - 1]
        <5>1. Len(first) = 1 /\ k - 1 \in 1..Len(rest)
          BY <1>3, <1>5, <1>6, <4>1
        <5> HIDE DEF first, rest, s
        <5>3. s[Len(first) + (k - 1)] = rest[k - 1]
          <6>1. IsSeq(first) /\ IsSeq(rest)
            BY <1>3, <1>5
          <6>2. k - 1 \in 1..Len(rest)
            BY <5>1
          <6> HIDE DEF shift
          <6> DEFINE m == k - 1
          <6> HIDE DEF m
          <6>3. m \in 1..Len(rest)
            BY <6>2 DEF m
          <6>4. s[Len(first) + m] = rest[m]
            BY <1>2, <6>1, <6>3, ConcatSecond
          <6> QED
            BY <6>4 DEF m
        <5> QED
          BY <5>1, <5>3
      <4>3. rest[k - 1] = Step(op, own[k - 1], Append(o, (k - 1) + 1),
                               Append(i, MembersInBases[t] + (k - 1)))
        BY <1>6, <4>1
      <4>4. own[k - 1] = Parts[t][k]
        BY <2>3, <4>1
      <4>5. ~IsBasePart(t, k) /\ IdOf(t, k) = MembersInBases[t] + (k - 1)
        BY <2>1, <3>2 DEF IsBasePart, IdOf
      <4> QED
        BY <4>1, <4>2, <4>3, <4>4, <4>5
    <3> QED
      BY <3>1, <3>2
  <2>6. Len(s) = Len(Parts[t])
    BY <1>4, <2>3, <2>4
  <2> QED
    BY <2>5, <2>6
<1>7. CASE ~Inherits(t)
  <2>1. Kind[t] # "derived" /\ Kind[t] # "union"
    BY <1>7 DEF Inherits, Aggregates
  <2>2. own = Parts[t]
    BY <1>7 DEF OwnMembers
  <2>3. s = rest
    BY <1>2, <1>3, <1>5, <1>7, ConcatFacts
  <2>4. ASSUME NEW k \in 1..Len(Parts[t])
        PROVE  s[k] = Step(IF IsBasePart(t, k) THEN base ELSE op, Parts[t][k],
                           Append(o, k),
                           IF IsBasePart(t, k) THEN i ELSE Append(i, IdOf(t, k)))
    <3>1. rest[k] = Step(op, own[k], Append(o, k + 0),
                         Append(i, MembersInBases[t] + k))
      BY <1>7, <2>2
    <3>2. k + 0 = k /\ MembersInBases[t] + k = k
      BY <1>1, <1>4, <1>7
    <3>3. ~IsBasePart(t, k) /\ IdOf(t, k) = k
      BY <2>1 DEF IsBasePart, IdOf
    <3> QED
      BY <2>2, <2>3, <3>1, <3>2, <3>3
  <2>5. Len(s) = Len(Parts[t])
    BY <1>3, <2>2, <2>3
  <2> QED
    BY <2>4, <2>5
<1> QED
  BY <1>6, <1>7

LEMMA ElementStepsAre ==
  ASSUME NEW e, NEW op, NEW n \in Nat
  PROVE  LET s == StepPerElement(op, e, n)
         IN /\ Len(s) = n
            /\ \A k \in 1..n :
                 s[k] = Step(op, Parts[e.type][1], Append(e.o, k), Append(e.i, k))
<1> DEFINE f == [k \in 1..n |->
                   Step(op, Parts[e.type][1], Append(e.o, k), Append(e.i, k))]
<1>1. Len(f) = n
  BY FunctionIsSeq
<1> QED
  BY <1>1 DEF StepPerElement

-----------------------------------------------------------------------------
(* Steps that write the parts of something.                                *)

LEMMA PartsInside ==
  ASSUME root \in Types, NEW s, NEW x \in SpotsWritten(s),
         NEW y \in SpotsWritten(s), IsAt(y.path, x.path)
  PROVE  \/ y = x
         \/ \E k \in Nat : /\ <<x, k>> \in PartsWritten(s)
                           /\ IsAt(y.path, Append(x.path, k))
<1> DEFINE K == PartsWritten(s)
<1>1. IsGuide(K) /\ x \in Reached(root, K) /\ y \in Reached(root, K)
  BY WrittenGuide DEF SpotsWritten
<1> HIDE DEF K
<1>2. CASE y.path = x.path
  BY <1>1, <1>2, SpotUnique
<1>3. CASE y.path # x.path
  BY <1>1, <1>3, SpotBelow DEF IsIn, K
<1> QED
  BY <1>2, <1>3

(* Steps for all parts of x and for nothing else.                          *)
WritesParts(s, steps, x) ==
  /\ \A j \in 1..Len(steps) :
       steps[j].op # "unbind" =>
         \E k \in Nat : /\ <<x, k>> \in PartsWritten(s)
                        /\ MatchesSet(PartSpot(x, k), steps[j])
  /\ \A k \in Nat :
       <<x, k>> \in PartsWritten(s) =>
         \E j \in 1..Len(steps) : /\ steps[j].op \in {"set", "set_base"}
                                  /\ steps[j].o = Append(x.path, k)

(* x and what is in it is written: x now, if anything, the rest by steps.  *)
Written(x, steps) ==
  /\ MatchesSet(x, Current)
  /\ WritesParts(object, steps, x)
  /\ Current.op = "set_union" \/ Stored(instance', object, x)
  /\ \/ instance' = instance
     \/ /\ Current.op = "set"
        /\ IsReal(x)
        /\ WritesOnly(object, x, instance, instance')

LEMMA PartsWriting ==
  ASSUME IsRoot, Typing, Writing, todo # <<>>,
         call.what = "write", call.ended = "running",
         NEW steps \in Seq(Steps), Continue(steps),
         UNCHANGED <<root, object, call, message>>,
         \A k \in 1..Len(steps) : steps[k].op \in SetOps,
         ~object.mixed => \E x \in SpotsWritten(object) : Written(x, steps)
  PROVE  Writing'
<1>1. ASSUME ~object.mixed
      PROVE  Matched(object, steps)
  <2>1. PICK x \in SpotsWritten(object) : Written(x, steps)
    BY <1>1
  <2> SUFFICES ASSUME NEW j \in 1..Len(steps), steps[j].op # "unbind"
               PROVE  \E z \in SpotsWritten(object) : MatchesSet(z, steps[j])
    BY DEF Matched
  <2>2. PICK k \in Nat : /\ <<x, k>> \in PartsWritten(object)
                         /\ MatchesSet(PartSpot(x, k), steps[j])
    BY <2>1 DEF Written, WritesParts
  <2>3. PartSpot(x, k) \in SpotsWritten(object)
    BY <2>2, WrittenGuide, PartIsReached DEF SpotsWritten
  <2> QED
    BY <2>2, <2>3
<1>2. ASSUME ~object.mixed, NEW y \in SpotsWritten(object)
      PROVE  \/ Stored(instance', object, y)
             \/ WillCover(steps, y)
             \/ ~Covers(Current, y) /\ ~Stored(instance, object, y)
  <2>1. PICK x \in SpotsWritten(object) : Written(x, steps)
    BY <1>2
  <2>2. MatchesSet(x, Current) /\ x.path = Current.o
    BY <2>1 DEF Written, MatchesSet
  <2>3. CASE Covers(Current, y)
    <3>1. IsAt(y.path, x.path)
      BY <2>2, <2>3 DEF Covers, IsIn
    <3>2. CASE y = x
      <4>1. Current.op # "set_union"
        BY <2>2, <2>3, <3>2 DEF Covers, IsIn
      <4> QED
        BY <2>1, <3>2, <4>1 DEF Written
    <3>3. CASE y # x
      <4>1. PICK k \in Nat : /\ <<x, k>> \in PartsWritten(object)
                             /\ IsAt(y.path, Append(x.path, k))
        BY <3>1, <3>3, PartsInside DEF IsRoot
      <4>2. PICK j \in 1..Len(steps) : /\ steps[j].op \in {"set", "set_base"}
                                       /\ steps[j].o = Append(x.path, k)
        BY <2>1, <4>1 DEF Written, WritesParts
      <4>3. Covers(steps[j], y)
        BY <4>1, <4>2 DEF Covers
      <4> QED
        BY <4>3 DEF WillCover
    <3> QED
      BY <3>2, <3>3
  <2>4. CASE ~Covers(Current, y) /\ Stored(instance, object, y)
    <3>1. CASE instance' = instance
      BY <2>4, <3>1
    <3>2. CASE /\ Current.op = "set"
               /\ IsReal(x)
               /\ WritesOnly(object, x, instance, instance')
      <4>1. ~IsAt(y.path, x.path)
        BY <2>2, <2>4, <3>2 DEF Covers
      <4> QED
        BY <2>4, <3>2, <4>1, WrittenElsewhere
    <3> QED
      BY <2>1, <3>1, <3>2 DEF Written
  <2> QED
    BY <2>3, <2>4
<1> QED
  BY <1>1, <1>2, ContinueWriting

(* The next step of a write is for something that is written.              *)
LEMMA CurrentWrites ==
  ASSUME Typing, Writing, todo # <<>>, call.what = "write",
         call.ended = "running", ~object.mixed, Current.op # "unbind"
  PROVE  \E x \in SpotsWritten(object) : MatchesSet(x, Current)
<1>1. todo \in Seq(Steps)
  BY DEF Typing, StepsOK
<1>2. Current = todo[1] /\ 1 \in 1..Len(todo)
  BY <1>1, HeadTailFacts, SeqFacts DEF IsSeq, Current
<1> QED
  BY <1>2 DEF Writing, Matched

LEMMA WrittenSpot ==
  ASSUME NEW s, NEW x \in SpotsWritten(s)
  PROVE  /\ x \in Spots
         /\ x.type \in Types
         /\ x.path \in Paths
         /\ x.place \in Paths
         /\ x.at \in Paths
         /\ x.base \in BOOLEAN
         /\ x.case \in BOOLEAN
BY ReachedIsSpot, SpotFacts DEF SpotsWritten

(* bind_complex_member or a set_ function of one member.                   *)
LEMMA WithMemberWrites ==
  ASSUME NEW x \in SpotsWritten(object), MatchesSet(x, Current),
         Current.op = "set", ~IsPointer(x.type), NEW v
  PROVE  /\ IsReal(x)
         /\ WritesOnly(object, x, instance, WithMember(v))
         /\ x.at \in DOMAIN WithMember(v)
         /\ OnlyCase(WithMember(v), x)
         /\ At(WithMember(v), x.at) = v
         /\ WithMember(v)[x.at] = v
<1>1. /\ x.at = Current.i
      /\ ~x.base
      /\ x.case = Current.case
      /\ x.at \in Paths
      /\ x.case \in BOOLEAN
  BY WrittenSpot DEF MatchesSet
<1> DEFINE others == {q \in DOMAIN instance :
                        /\ x.case
                        /\ IsIn(q, Front(x.at))
                        /\ ~IsAt(q, x.at)}
           w == WithMember(v)
<1>2. w = [q \in (DOMAIN instance \ others) \cup {x.at} |->
             IF q = x.at THEN v ELSE instance[q]]
  <2>1. w = Put(Only(instance, DOMAIN instance \ others), x.at, v)
    BY <1>1 DEF WithMember
  <2>2. Only(instance, DOMAIN instance \ others)
          = [q \in DOMAIN instance \ others |-> instance[q]]
    BY DEF Only
  <2> HIDE DEF others, w
  <2> QED
    BY <2>1, <2>2 DEF Put
<1>3. IsAt(x.at, x.at)
  BY <1>1, IsAtSame
<1>4. /\ x.at \in DOMAIN w
      /\ w[x.at] = v
      /\ DOMAIN w = (DOMAIN instance \ others) \cup {x.at}
  BY <1>2
<1>5. OnlyCase(w, x)
  <2> HIDE DEF w
  <2> QED
    BY <1>3, <1>4 DEF OnlyCase
<1>6. WritesOnly(object, x, instance, w)
  <2>1. ASSUME NEW q \in DOMAIN instance, ~IsAt(q, x.at),
               ~(x.case /\ IsIn(q, Front(x.at)))
        PROVE  q \in DOMAIN w /\ w[q] = instance[q]
    BY <1>2, <1>3, <2>1
  <2>2. ASSUME NEW q \in DOMAIN w
        PROVE  q \in DOMAIN instance \/ q = x.at
    BY <1>2
  <2> HIDE DEF w
  <2> QED
    BY <2>1, <2>2 DEF WritesOnly
<1> HIDE DEF w
<1> QED
  BY <1>1, <1>4, <1>5, <1>6 DEF IsReal, At, w

-----------------------------------------------------------------------------
(* The overloads of set_member_value.                                      *)

InWrite ==
  /\ IsRoot
  /\ Typing
  /\ Writing
  /\ todo # <<>>
  /\ call.what = "write"
  /\ call.ended = "running"

LEMMA NoPartsWritten ==
  ASSUME NEW s, NEW x, \A k \in Nat : <<x, k>> \notin PartsWritten(s)
  PROVE  WritesParts(s, <<>>, x)
BY EmptySeq DEF WritesParts

LEMMA PartFields ==
  ASSUME NEW x, NEW k
  PROVE  LET z == PartSpot(x, k)
         IN /\ z.type = PartType(x.type, k)
            /\ z.path = Append(x.path, k)
            /\ IsPointer(x.type) \/ IsBasePart(x.type, k) => z.at = x.at
            /\ ~IsPointer(x.type) /\ ~IsBasePart(x.type, k) =>
                 z.at = Append(x.at, IdOf(x.type, k))
            /\ IsBasePart(x.type, k) => z.base = TRUE
            /\ ~IsBasePart(x.type, k) => z.base = FALSE
            /\ Kind[x.type] = "union" => z.case = TRUE
            /\ Kind[x.type] # "union" /\ ~IsPointer(x.type) => z.case = FALSE
<1> DEFINE z == PartSpot(x, k)
<1>1. /\ z.type = PartType(x.type, k)
      /\ z.path = Append(x.path, k)
      /\ IsPointer(x.type) \/ IsBasePart(x.type, k) => z.at = x.at
      /\ ~IsPointer(x.type) /\ ~IsBasePart(x.type, k) =>
           z.at = Append(x.at, IdOf(x.type, k))
  BY DEF PartSpot
<1>2. /\ z.base \in BOOLEAN
      /\ z.base <=> IsBasePart(x.type, k)
      /\ z.case \in BOOLEAN
      /\ z.case <=> (Kind[x.type] = "union" \/ (IsPointer(x.type) /\ x.case))
  <2>1. /\ z.base = IsBasePart(x.type, k)
        /\ z.case = (Kind[x.type] = "union" \/ (IsPointer(x.type) /\ x.case))
    BY Zenon DEF PartSpot
  <2>2. IsBasePart(x.type, k) \in BOOLEAN
    BY DEF IsBasePart
  <2>3. (Kind[x.type] = "union" \/ (IsPointer(x.type) /\ x.case)) \in BOOLEAN
    OBVIOUS
  <2> HIDE DEF z
  <2> QED
    BY <2>1, <2>2, <2>3
<1> HIDE DEF z
<1>3. /\ IsBasePart(x.type, k) => z.base = TRUE
      /\ ~IsBasePart(x.type, k) => z.base = FALSE
      /\ Kind[x.type] = "union" => z.case = TRUE
      /\ Kind[x.type] # "union" /\ ~IsPointer(x.type) => z.case = FALSE
  BY <1>2
<1> QED
  BY <1>1, <1>3 DEF z

(* A step for a part that is no case.                                      *)
LEMMA StepMatches ==
  ASSUME NEW z, z.case = FALSE, NEW e
  PROVE  /\ z.base = FALSE /\ e = Step("set", z.type, z.path, z.at) =>
              MatchesSet(z, e) /\ e.op \in {"set", "set_base"} /\ e.o = z.path
         /\ z.base = TRUE /\ e = Step("set_base", z.type, z.path, z.at) =>
              MatchesSet(z, e) /\ e.op \in {"set", "set_base"} /\ e.o = z.path
<1>1. ASSUME NEW op, e = Step(op, z.type, z.path, z.at)
      PROVE  /\ e.op = op
             /\ e.type = z.type
             /\ e.o = z.path
             /\ e.i = z.at
             /\ e.case = FALSE
  BY <1>1 DEF Step
<1> QED
  BY <1>1 DEF MatchesSet

LEMMA MembersWritten ==
  ASSUME NEW s, NEW x \in SpotsWritten(s), Kind[x.type] \in Aggregates
  PROVE  WritesParts(s, SetMembers(x.type, x.path, x.at), x)
<1> DEFINE t == x.type
           steps == SetMembers(t, x.path, x.at)
<1>1. x \in Spots /\ t \in Types /\ x.path \in Paths
  BY WrittenSpot
<1>2. /\ Len(steps) = Len(Parts[t])
      /\ \A k \in 1..Len(Parts[t]) :
           steps[k] = Step(IF IsBasePart(t, k) THEN "set_base" ELSE "set",
                           Parts[t][k], Append(x.path, k),
                           IF IsBasePart(t, k) THEN x.at
                           ELSE Append(x.at, IdOf(t, k)))
  BY <1>1, MemberStepsAre DEF SetMembers
<1>3. DOMAIN Parts[t] = 1..Len(Parts[t]) /\ Len(Parts[t]) \in Nat
  BY <1>1, TypesAreAdapted, LenProperties
<1>4. /\ Kind[t] \notin Leaves
      /\ Kind[t] \notin Wrappers
      /\ Kind[t] # "union"
      /\ ~IsPointer(t)
  BY DEF Aggregates, Leaves, Wrappers, IsPointer
<1> HIDE DEF steps
<1>5. ASSUME NEW k \in 1..Len(Parts[t])
      PROVE  /\ <<x, k>> \in PartsWritten(s)
             /\ MatchesSet(PartSpot(x, k), steps[k])
             /\ steps[k].op \in {"set", "set_base"}
             /\ steps[k].o = Append(x.path, k)
  <2>1. <<x, k>> \in PartsWritten(s)
    BY <1>1, <1>3, <1>4, PartWritten DEF HasPart, WritesPart
  <2>2. steps[k] = Step(IF IsBasePart(t, k) THEN "set_base" ELSE "set",
                        Parts[t][k], Append(x.path, k),
                        IF IsBasePart(t, k) THEN x.at
                        ELSE Append(x.at, IdOf(t, k)))
    BY <1>2
  <2>3. PartType(t, k) = Parts[t][k]
    BY DEF PartType
  <2> DEFINE z == PartSpot(x, k)
             i == IF IsBasePart(t, k) THEN x.at ELSE Append(x.at, IdOf(t, k))
  <2>4. /\ z.type = Parts[t][k]
        /\ z.path = Append(x.path, k)
        /\ z.at = i
        /\ z.case = FALSE
        /\ IsBasePart(t, k) => z.base = TRUE
        /\ ~IsBasePart(t, k) => z.base = FALSE
    BY <1>4, <2>3, PartFields
  <2> HIDE DEF z, i
  <2>5. /\ IsBasePart(t, k) => steps[k] = Step("set_base", z.type, z.path, z.at)
        /\ ~IsBasePart(t, k) => steps[k] = Step("set", z.type, z.path, z.at)
    BY <2>2, <2>4 DEF i
  <2>6. /\ MatchesSet(z, steps[k])
        /\ steps[k].op \in {"set", "set_base"}
        /\ steps[k].o = Append(x.path, k)
    BY <2>4, <2>5, StepMatches
  <2> QED
    BY <2>1, <2>6 DEF z
<1>6. ASSUME NEW k \in Nat, <<x, k>> \in PartsWritten(s)
      PROVE  k \in 1..Len(Parts[t])
  BY <1>1, <1>3, <1>6, PartWritten DEF HasPart
<1>7. ASSUME NEW j \in 1..Len(steps)
      PROVE  j \in Nat /\ j \in 1..Len(Parts[t])
  BY <1>2, <1>3
<1>8. WritesParts(s, steps, x)
  BY <1>2, <1>5, <1>6, <1>7 DEF WritesParts
<1> QED
  BY <1>8 DEF steps

LEMMA LengthIsNumber ==
  ASSUME NEW s, Numbers(s.value), NEW x
  PROVE  LengthOf(s, x) \in Nat
BY AtIsNumber, ConversionConstants DEF LengthOf

LEMMA ElementsWritten ==
  ASSUME NEW s, Numbers(s.value), NEW x \in SpotsWritten(s),
         Kind[x.type] \in Containers,
         NEW e, e.type = x.type, e.o = x.path, e.i = x.at,
         NEW n, n = LengthOf(s, x)
  PROVE  WritesParts(s, StepPerElement("set", e, n), x)
<1> DEFINE t == x.type
           steps == StepPerElement("set", e, n)
<1>1. x \in Spots /\ t \in Types /\ n \in Nat
  BY WrittenSpot, LengthIsNumber
<1>2. /\ Len(steps) = n
      /\ \A k \in 1..n :
           steps[k] = Step("set", Parts[t][1], Append(x.path, k), Append(x.at, k))
  BY <1>1, ElementStepsAre
<1>3. /\ Kind[t] \notin Leaves
      /\ Kind[t] \in Wrappers
      /\ Kind[t] \notin Aggregates
      /\ Kind[t] # "union"
      /\ Kind[t] # "derived"
      /\ ~IsPointer(t)
  BY DEF Aggregates, Leaves, Wrappers, IsPointer, Containers
<1> HIDE DEF steps
<1>4. ASSUME NEW k \in 1..n
      PROVE  /\ <<x, k>> \in PartsWritten(s)
             /\ MatchesSet(PartSpot(x, k), steps[k])
             /\ steps[k].op \in {"set", "set_base"}
             /\ steps[k].o = Append(x.path, k)
             /\ k \in Nat
  <2>1. <<x, k>> \in PartsWritten(s)
    BY <1>1, <1>3, PartWritten DEF HasPart, WritesPart
  <2>2. steps[k] = Step("set", Parts[t][1], Append(x.path, k), Append(x.at, k))
    BY <1>2
  <2>3. /\ PartType(t, k) = Parts[t][1]
        /\ ~IsBasePart(t, k)
        /\ IdOf(t, k) = k
    BY <1>3 DEF PartType, IsBasePart, IdOf
  <2> DEFINE z == PartSpot(x, k)
  <2>4. /\ z.type = Parts[t][1]
        /\ z.path = Append(x.path, k)
        /\ z.at = Append(x.at, k)
        /\ z.case = FALSE
        /\ z.base = FALSE
    <3>1. /\ z.type = PartType(t, k)
          /\ z.path = Append(x.path, k)
          /\ ~IsPointer(t) /\ ~IsBasePart(t, k) => z.at = Append(x.at, IdOf(t, k))
          /\ ~IsBasePart(t, k) => z.base = FALSE
          /\ Kind[t] # "union" /\ ~IsPointer(t) => z.case = FALSE
      BY PartFields
    <3> HIDE DEF z
    <3> QED
      BY <1>3, <2>3, <3>1
  <2> HIDE DEF z
  <2>5. steps[k] = Step("set", z.type, z.path, z.at)
    BY <2>2, <2>4
  <2>6. /\ MatchesSet(z, steps[k])
        /\ steps[k].op \in {"set", "set_base"}
        /\ steps[k].o = Append(x.path, k)
    BY <2>4, <2>5, StepMatches
  <2> QED
    BY <1>1, <2>1, <2>6 DEF z
<1>5. ASSUME NEW k \in Nat, <<x, k>> \in PartsWritten(s)
      PROVE  k \in 1..n
  BY <1>1, <1>3, <1>5, PartWritten DEF WritesPart
<1>6. WritesParts(s, steps, x)
  BY <1>2, <1>4, <1>5 DEF WritesParts
<1> QED
  BY <1>6 DEF steps

LEMMA ThenUnbind ==
  ASSUME NEW s, NEW steps, IsSeq(steps), NEW x, WritesParts(s, steps, x),
         NEW u, u.op = "unbind"
  PROVE  WritesParts(s, Append(steps, u), x)
<1> DEFINE all == Append(steps, u)
<1>1. /\ Len(all) = Len(steps) + 1
      /\ \A k \in 1..Len(steps) : all[k] = steps[k]
      /\ all[Len(steps) + 1] = u
      /\ Len(steps) \in Nat
  BY AppendFacts, SeqFacts
<1> HIDE DEF all
<1>2. ASSUME NEW j \in 1..Len(all), all[j].op # "unbind"
      PROVE  j \in 1..Len(steps) /\ all[j] = steps[j]
  BY <1>1, <1>2
<1>3. \A j \in 1..Len(steps) : j \in 1..Len(all) /\ all[j] = steps[j]
  BY <1>1
<1>4. WritesParts(s, all, x)
  BY <1>2, <1>3 DEF WritesParts
<1> QED
  BY <1>4 DEF all

OpsOf(steps, ops) == \A k \in 1..Len(steps) : steps[k].op \in ops

(* bind_complex_member or a set_ function, then steps, then unbind.        *)
LEMMA BindWriting ==
  ASSUME InWrite, Current.op = "set", ~IsPointer(Current.type),
         NEW steps \in Seq(Steps), OpsOf(steps, SetOps), Bind(steps),
         UNCHANGED <<root, object, call, message>>,
         NEW v, instance' = WithMember(v),
         \A x \in SpotsWritten(object) :
           MatchesSet(x, Current) =>
             /\ WritesParts(object, steps, x)
             /\ HoldsValue(WithMember(v), object, x)
  PROVE  Writing'
<1> DEFINE u == [Current EXCEPT !.op = "unbind"]
           all == Append(steps, u)
<1>1. IsSeq(steps) /\ Len(steps) \in Nat
  BY SeqFacts DEF IsSeq
<1>2. Current \in Steps
  BY CurrentOK DEF InWrite, StepOK
<1>3. u \in Steps /\ u.op = "unbind"
  BY <1>2 DEF Steps, Ops
<1> HIDE DEF u
<1>4. all \in Seq(Steps)
  BY <1>3, AppendProperties
<1>5. OpsOf(all, SetOps)
  <2>1. /\ Len(all) = Len(steps) + 1
        /\ \A k \in 1..Len(steps) : all[k] = steps[k]
        /\ all[Len(steps) + 1] = u
    BY <1>1, AppendFacts
  <2> HIDE DEF all
  <2> QED
    BY <1>1, <1>3, <2>1 DEF OpsOf, SetOps
<1>6. Continue(all)
  BY DEF Bind, u
<1>7. ASSUME ~object.mixed
      PROVE  \E x \in SpotsWritten(object) : Written(x, all)
  <2>1. PICK x \in SpotsWritten(object) : MatchesSet(x, Current)
    BY <1>7, CurrentWrites DEF InWrite
  <2>2. WritesParts(object, all, x)
    BY <1>1, <1>3, <2>1, ThenUnbind
  <2>3. ~IsPointer(x.type)
    BY <2>1 DEF MatchesSet
  <2>4. /\ IsReal(x)
        /\ WritesOnly(object, x, instance, instance')
        /\ x.at \in DOMAIN instance'
        /\ OnlyCase(instance', x)
    BY <2>1, <2>3, WithMemberWrites
  <2>5. HoldsValue(instance', object, x)
    BY <2>1
  <2> HIDE DEF all
  <2>6. Stored(instance', object, x)
    BY <2>4, <2>5 DEF Stored, IsReal, IsPointer
  <2> QED
    BY <2>1, <2>2, <2>4, <2>6 DEF Written
<1> HIDE DEF all
<1> QED
  BY <1>4, <1>5, <1>6, <1>7, PartsWriting DEF InWrite, OpsOf

(* set_ functions of one member that has no parts.                         *)
LEMMA LeafWriting ==
  ASSUME InWrite, Current.op = "set", Kind[Current.type] \in Leaves, SetLeaf
  PROVE  Writing'
<1> DEFINE v == At(object.value, Current.o)
<1>1. /\ instance' = WithMember(v)
      /\ Continue(<<>>)
      /\ UNCHANGED <<root, object, call, message>>
  BY DEF SetLeaf, Set
<1>2. <<>> \in Seq(Steps) /\ Len(<<>>) = 0
  BY EmptySeq
<1>3. ASSUME ~object.mixed
      PROVE  \E x \in SpotsWritten(object) : Written(x, <<>>)
  <2>1. PICK x \in SpotsWritten(object) : MatchesSet(x, Current)
    BY <1>3, CurrentWrites DEF InWrite
  <2>2. x.type = Current.type /\ x.path = Current.o /\ ~IsPointer(x.type)
    BY <2>1 DEF MatchesSet, Leaves, IsPointer
  <2>3. x \in Spots
    BY WrittenSpot
  <2>4. WritesParts(object, <<>>, x)
    BY <2>2, <2>3, PartWritten, NoPartsWritten DEF HasPart
  <2>5. /\ IsReal(x)
        /\ WritesOnly(object, x, instance, instance')
        /\ x.at \in DOMAIN instance'
        /\ OnlyCase(instance', x)
        /\ At(instance', x.at) = v
    BY <1>1, <2>1, <2>2, WithMemberWrites
  <2>6. HoldsValue(instance', object, x)
    BY <2>2, <2>5 DEF HoldsValue, Leaves
  <2>7. Stored(instance', object, x)
    BY <2>5, <2>6 DEF Stored, IsReal, IsPointer
  <2> QED
    BY <2>1, <2>4, <2>5, <2>7 DEF Written
<1> DEFINE none == <<>>
<1>4. /\ none \in Seq(Steps)
      /\ \A k \in 1..Len(none) : none[k].op \in SetOps
      /\ Continue(none)
      /\ ~object.mixed => \E x \in SpotsWritten(object) : Written(x, none)
  BY <1>1, <1>2, <1>3
<1> HIDE DEF none
<1> QED
  BY <1>1, <1>4, PartsWriting DEF InWrite

(* What writes nothing by itself.                                          *)
LEMMA ElsewhereWriting ==
  ASSUME InWrite, Current.op # "unbind", NEW steps \in Seq(Steps),
         OpsOf(steps, SetOps), Continue(steps),
         UNCHANGED <<root, object, instance, call, message>>,
         Kind[Current.type] = "smart_ptr" => At(object.value, Current.o) = 1,
         ~object.mixed => \A x \in SpotsWritten(object) :
           MatchesSet(x, Current) =>
             /\ WritesParts(object, steps, x)
             /\ Current.op = "set_union" \/ ~IsReal(x) \/ HasNothing(object, x)
  PROVE  Writing'
<1>1. ASSUME ~object.mixed
      PROVE  \E x \in SpotsWritten(object) : Written(x, steps)
  <2>1. PICK x \in SpotsWritten(object) : MatchesSet(x, Current)
    BY <1>1, CurrentWrites DEF InWrite
  <2>2. Current.op = "set_union" \/ Stored(instance', object, x)
    BY <1>1, <2>1 DEF Stored, MatchesSet
  <2> QED
    BY <1>1, <2>1, <2>2 DEF Written
<1> QED
  BY <1>1, PartsWriting DEF InWrite, OpsOf

(* The elements of a container that are leaves.                            *)
LEMMA LeafPart ==
  ASSUME root \in Types, NEW s, NEW x \in SpotsWritten(s),
         Kind[x.type] \in Containers, Kind[Parts[x.type][1]] \in Leaves,
         NEW k, <<x, k>> \in PartsWritten(s)
  PROVE  LET z == PartSpot(x, k)
         IN /\ z \in SpotsWritten(s)
            /\ k \in 1..LengthOf(s, x)
            /\ k \in Nat
            /\ z.path = Append(x.path, k)
            /\ z.at = Append(x.at, k)
            /\ z.type = Parts[x.type][1]
            /\ ~z.base
            /\ ~z.case
            /\ \A y \in SpotsWritten(s) : IsAt(y.path, z.path) => y = z
<1> DEFINE z == PartSpot(x, k)
<1>1. /\ z \in SpotsWritten(s)
      /\ x \in Spots
      /\ HasPart(x, k)
      /\ k \in Nat
  BY WrittenGuide, PartPaths DEF SpotsWritten
<1>2. /\ Kind[x.type] \in Wrappers
      /\ Kind[x.type] \notin Aggregates
      /\ Kind[x.type] # "union"
      /\ ~IsPointer(x.type)
      /\ ~IsBasePart(x.type, k)
      /\ IdOf(x.type, k) = k
  BY DEF Containers, Wrappers, Aggregates, IsPointer, IsBasePart, IdOf
<1>3. k \in 1..LengthOf(s, x)
  BY <1>1, <1>2, PartWritten DEF WritesPart
<1>4. PartType(x.type, k) = Parts[x.type][1]
  BY <1>2 DEF PartType
<1>5. /\ z.path = Append(x.path, k)
      /\ z.at = Append(x.at, k)
      /\ z.type = Parts[x.type][1]
      /\ ~z.base
      /\ ~z.case
  BY <1>2, <1>4, PartFields
<1> HIDE DEF z
<1>6. ASSUME NEW y \in SpotsWritten(s), IsAt(y.path, z.path), y # z
      PROVE  FALSE
  <2>1. PICK j \in Nat : <<z, j>> \in PartsWritten(s)
    BY <1>1, <1>6, PartsInside
  <2>2. z \in Spots
    BY <1>1, WrittenSpot
  <2>3. HasPart(z, j)
    BY <2>1, <2>2, PartWritten
  <2> QED
    BY <1>5, <2>3 DEF HasPart
<1> QED
  BY <1>1, <1>3, <1>5, <1>6 DEF z

(* set_sequence and set_array write a container and its elements.          *)
SetAllSet(w, x, n) ==
  /\ x.at \in DOMAIN w
  /\ w[x.at] = n
  /\ \A q \in DOMAIN w :
       \/ q \in DOMAIN WithMember(n)
       \/ \E k \in 1..n : q = Append(x.at, k)
  /\ \A q \in DOMAIN WithMember(n) :
       ~IsAt(q, x.at) => q \in DOMAIN w /\ w[q] = WithMember(n)[q]
  /\ \A k \in 1..n : /\ Append(x.at, k) \in DOMAIN w
                     /\ w[Append(x.at, k)] = At(object.value, Append(x.path, k))

LEMMA SetAllWrites ==
  ASSUME NEW x, x.path = Current.o, x.at = Current.i, x.at \in Paths,
         NEW n \in Nat, SetAll(n), x.at \in DOMAIN WithMember(n),
         WithMember(n)[x.at] = n,
         \A q \in DOMAIN WithMember(n) : q \in DOMAIN instance \/ q = x.at
  PROVE  SetAllSet(instance', x, n)
<1> DEFINE i == x.at
           kept == {q \in DOMAIN instance : ~IsIn(q, i)}
           m == WithMember(n)
           whole == Only(m, kept \cup {i})
           elements == {Append(i, k) : k \in 1..n}
           w == [q \in DOMAIN whole \cup elements |->
                   IF q \in elements
                   THEN At(object.value, Append(Current.o, q[Len(q)]))
                   ELSE whole[q]]
<1>1. instance' = w
  BY DEF SetAll, Set
<1>2. ASSUME NEW k \in 1..n
      PROVE  /\ Append(i, k) \in elements
             /\ IsIn(Append(i, k), i)
             /\ Append(i, k)[Len(Append(i, k))] = k
  <2>1. k \in Nat
    OBVIOUS
  <2>2. /\ Len(Append(i, k)) = Len(i) + 1
        /\ Append(i, k)[Len(i) + 1] = k
    BY <2>1, AppendLength
  <2>3. IsIn(Append(i, k), i)
    BY <2>1, AppendIsIn
  <2> QED
    BY <2>2, <2>3
<1>3. \A q \in elements : IsIn(q, i)
  BY <1>2
<1> HIDE DEF m
<1>4. /\ DOMAIN whole = DOMAIN m \cap (kept \cup {i})
      /\ \A q \in DOMAIN whole : whole[q] = m[q]
  BY DEF Only
<1> HIDE DEF whole
<1>5. i \notin elements
  BY <1>3 DEF IsIn
<1>6. i \in DOMAIN whole /\ whole[i] = n
  BY <1>4 DEF m
<1>7. i \in DOMAIN w /\ w[i] = n
  BY <1>5, <1>6
<1>8. ASSUME NEW q \in DOMAIN w
      PROVE  q \in DOMAIN m \/ \E k \in 1..n : q = Append(i, k)
  BY <1>4, <1>8
<1>9. ASSUME NEW q \in DOMAIN m, ~IsAt(q, i)
      PROVE  q \in DOMAIN w /\ w[q] = m[q]
  <2>1. q \notin elements
    BY <1>3, <1>9 DEF IsIn
  <2>2. q \in DOMAIN whole
    BY <1>4, <1>9 DEF IsIn, m
  <2> QED
    BY <1>4, <2>1, <2>2
<1>10. ASSUME NEW k \in 1..n
       PROVE  /\ Append(i, k) \in DOMAIN w
              /\ w[Append(i, k)] = At(object.value, Append(x.path, k))
  <2> DEFINE q == Append(i, k)
  <2>1. q \in elements /\ q[Len(q)] = k
    BY <1>2
  <2> HIDE DEF q, elements
  <2>2. q \in DOMAIN w /\ w[q] = At(object.value, Append(Current.o, q[Len(q)]))
    BY <2>1
  <2> QED
    BY <2>1, <2>2 DEF q
<1> HIDE DEF w
<1>11. SetAllSet(w, x, n)
  BY <1>7, <1>8, <1>9, <1>10 DEF SetAllSet, m
<1> QED
  BY <1>1, <1>11

LEMMA WithMemberDomain ==
  ASSUME NEW v, NEW q \in DOMAIN WithMember(v)
  PROVE  q \in DOMAIN instance \/ q = Current.i
BY DEF WithMember, Put, Only

LEMMA SetAllWriting ==
  ASSUME InWrite, Current.op = "set", Kind[Current.type] \in Containers,
         Kind[ElementType] \in Leaves, NEW n \in Nat,
         n = IF Kind[Current.type] = "array" THEN ArrayLen
             ELSE At(object.value, Current.o),
         SetAll(n)
  PROVE  Writing'
<1> DEFINE none == <<>>
<1>1. /\ Continue(none)
      /\ UNCHANGED <<root, object, call, message>>
  BY DEF SetAll, Set
<1>2. /\ none \in Seq(Steps)
      /\ \A k \in 1..Len(none) : none[k].op \in SetOps
      /\ Matched(object, none)
  BY EmptySeq DEF Matched
<1> HIDE DEF none
<1>3. ASSUME ~object.mixed, NEW y \in SpotsWritten(object)
      PROVE  \/ Stored(instance', object, y)
             \/ ~Covers(Current, y) /\ ~Stored(instance, object, y)
  <2>1. PICK x \in SpotsWritten(object) : MatchesSet(x, Current)
    BY <1>3, CurrentWrites DEF InWrite
  <2>2. /\ x.type = Current.type
        /\ x.path = Current.o
        /\ x.at = Current.i
        /\ x.at \in Paths
        /\ Kind[x.type] \in Containers
        /\ Kind[Parts[x.type][1]] \in Leaves
        /\ n = LengthOf(object, x)
    BY <2>1, WrittenSpot DEF MatchesSet, ElementType, LengthOf
  <2>3. ~IsPointer(x.type) /\ Kind[x.type] \notin Leaves
    BY <2>2 DEF Containers, IsPointer, Leaves
  <2> DEFINE m == WithMember(n)
             w == instance'
  <2>4. /\ IsReal(x)
        /\ WritesOnly(object, x, instance, m)
        /\ x.at \in DOMAIN m
        /\ OnlyCase(m, x)
        /\ m[x.at] = n
    BY <2>1, <2>3, WithMemberWrites
  <2>5. SetAllSet(w, x, n)
    BY <2>2, <2>4, WithMemberDomain, SetAllWrites
  <2>6. root \in Types
    BY DEF InWrite, IsRoot
  <2>7. ASSUME NEW k \in 1..n
        PROVE  <<x, k>> \in PartsWritten(object)
    <3>1. x \in Spots
      BY WrittenSpot
    <3>2. HasPart(x, k) /\ WritesPart(object, x, k)
      BY <2>2, <2>3, <2>7
         DEF HasPart, WritesPart, Containers, Aggregates, IsPointer
    <3> QED
      BY <3>1, <3>2, PartWritten
  <2> HIDE DEF m, w
  <2>8. WritesOnly(object, x, instance, w)
    <3>1. ASSUME NEW q \in DOMAIN instance, ~IsAt(q, x.at),
                 ~(x.case /\ IsIn(q, Front(x.at)))
          PROVE  q \in DOMAIN w /\ w[q] = instance[q]
      <4>1. q \in DOMAIN m /\ m[q] = instance[q]
        BY <2>4, <3>1 DEF WritesOnly
      <4> QED
        BY <2>5, <3>1, <4>1 DEF SetAllSet, m
    <3>2. ASSUME NEW q \in DOMAIN w
          PROVE  \/ q \in DOMAIN instance
                 \/ \E z \in SpotsWritten(object) : z.at = q /\ ~IsPointer(z.type)
      <4>1. CASE q \in DOMAIN m
        BY <2>4, <4>1 DEF WritesOnly
      <4>2. CASE \E k \in 1..n : q = Append(x.at, k)
        <5>1. PICK k \in 1..n : q = Append(x.at, k)
          BY <4>2
        <5>2. <<x, k>> \in PartsWritten(object)
          BY <2>7
        <5>3. /\ PartSpot(x, k) \in SpotsWritten(object)
              /\ PartSpot(x, k).at = q
              /\ PartSpot(x, k).type = Parts[x.type][1]
          BY <2>2, <2>6, <5>1, <5>2, LeafPart
        <5> QED
          BY <2>2, <5>3 DEF IsPointer, Leaves
      <4> QED
        BY <2>5, <3>2, <4>1, <4>2 DEF SetAllSet, m
    <3> QED
      BY <3>1, <3>2 DEF WritesOnly
  <2>9. Stored(w, object, x)
    <3>1. OnlyCase(w, x)
      <4> SUFFICES ASSUME x.case, NEW q \in DOMAIN w, IsIn(q, Front(x.at))
                   PROVE  IsAt(q, x.at)
        BY DEF OnlyCase
      <4>1. CASE q \in DOMAIN m
        BY <2>4, <4>1 DEF OnlyCase
      <4>2. CASE \E k \in 1..n : q = Append(x.at, k)
        <5>1. PICK k \in 1..n : q = Append(x.at, k)
          BY <4>2
        <5>2. k \in Nat
          OBVIOUS
        <5> QED
          BY <2>2, <5>1, <5>2, AppendIsIn
      <4> QED
        BY <2>5, <4>1, <4>2 DEF SetAllSet, m
    <3>2. x.at \in DOMAIN w /\ At(w, x.at) = n
      BY <2>5 DEF SetAllSet, At
    <3>3. HoldsValue(w, object, x)
      BY <2>2, <2>3, <3>2 DEF HoldsValue, LengthOf
    <3> QED
      BY <2>4, <3>1, <3>2, <3>3 DEF Stored, IsReal, IsPointer
  <2>10. ASSUME NEW k \in Nat, <<x, k>> \in PartsWritten(object)
         PROVE  Stored(w, object, PartSpot(x, k))
    <3> DEFINE z == PartSpot(x, k)
    <3>1. /\ k \in 1..n
          /\ z.path = Append(x.path, k)
          /\ z.at = Append(x.at, k)
          /\ ~z.case
          /\ z.type = Parts[x.type][1]
      BY <2>2, <2>6, <2>10, LeafPart
    <3> HIDE DEF z
    <3>2. z.at \in DOMAIN w /\ At(w, z.at) = At(object.value, z.path)
      BY <2>5, <3>1 DEF SetAllSet, At
    <3>3. HoldsValue(w, object, z)
      BY <2>2, <3>1, <3>2 DEF HoldsValue, Leaves
    <3>4. OnlyCase(w, z)
      BY <3>1 DEF OnlyCase
    <3> QED
      BY <2>2, <3>1, <3>2, <3>3, <3>4 DEF Stored, Leaves, z
  <2>11. CASE Covers(Current, y)
    <3>1. IsAt(y.path, x.path)
      BY <2>2, <2>11 DEF Covers, IsIn
    <3>2. CASE y = x
      BY <2>9, <3>2 DEF w
    <3>3. CASE y # x
      <4>1. PICK k \in Nat : /\ <<x, k>> \in PartsWritten(object)
                             /\ IsAt(y.path, Append(x.path, k))
        BY <2>6, <3>1, <3>3, PartsInside
      <4>2. y = PartSpot(x, k)
        <5>1. PartSpot(x, k).path = Append(x.path, k)
          BY <2>2, <2>6, <4>1, LeafPart
        <5>2. IsAt(y.path, PartSpot(x, k).path)
          BY <4>1, <5>1
        <5> QED
          BY <2>2, <2>6, <4>1, <5>2, LeafPart
      <4> QED
        BY <2>10, <4>1, <4>2 DEF w
    <3> QED
      BY <3>2, <3>3
  <2>12. CASE ~Covers(Current, y) /\ Stored(instance, object, y)
    <3>1. ~IsAt(y.path, x.path)
      BY <2>2, <2>12 DEF Covers
    <3> QED
      BY <2>4, <2>8, <2>12, <3>1, WrittenElsewhere DEF w, InWrite
  <2> QED
    BY <2>11, <2>12
<1> QED
  BY <1>1, <1>2, <1>3, ContinueWriting DEF InWrite

LEMMA PartStepOps ==
  /\ \A t \in Types : \A o, i : Kind[t] \in Aggregates =>
       OpsOf(SetMembers(t, o, i), SetOps)
  /\ \A e, n : n \in Nat => OpsOf(StepPerElement("set", e, n), SetOps)
<1>1. \A op, t, o, i : Step(op, t, o, i).op = op
  BY DEF Step
<1>2. ASSUME NEW t \in Types, NEW o, NEW i, Kind[t] \in Aggregates
      PROVE  OpsOf(SetMembers(t, o, i), SetOps)
  <2> DEFINE s == SetMembers(t, o, i)
  <2>1. /\ Len(s) = Len(Parts[t])
        /\ \A k \in 1..Len(Parts[t]) :
             s[k] = Step(IF IsBasePart(t, k) THEN "set_base" ELSE "set",
                         Parts[t][k], Append(o, k),
                         IF IsBasePart(t, k) THEN i ELSE Append(i, IdOf(t, k)))
    BY <1>2, MemberStepsAre DEF SetMembers
  <2> HIDE DEF s
  <2>2. ASSUME NEW k \in 1..Len(s)
        PROVE  s[k].op \in SetOps
    <3>1. s[k].op = IF IsBasePart(t, k) THEN "set_base" ELSE "set"
      BY <1>1, <2>1
    <3> QED
      BY <3>1 DEF SetOps
  <2>3. OpsOf(s, SetOps)
    BY <2>2 DEF OpsOf
  <2> QED
    BY <2>3 DEF s
<1>3. ASSUME NEW e, NEW n, n \in Nat
      PROVE  OpsOf(StepPerElement("set", e, n), SetOps)
  <2> DEFINE s == StepPerElement("set", e, n)
  <2>1. /\ Len(s) = n
        /\ \A k \in 1..n :
             s[k] = Step("set", Parts[e.type][1], Append(e.o, k), Append(e.i, k))
    BY <1>3, ElementStepsAre
  <2> HIDE DEF s
  <2>2. ASSUME NEW k \in 1..Len(s)
        PROVE  s[k].op \in SetOps
    BY <1>1, <2>1 DEF SetOps
  <2>3. OpsOf(s, SetOps)
    BY <2>2 DEF OpsOf
  <2> QED
    BY <2>3 DEF s
<1> QED
  BY <1>2, <1>3

LEMMA SetBaseWriting ==
  ASSUME InWrite, SetBase
  PROVE  Writing'
<1> DEFINE steps == SetMembers(Current.type, Current.o, Current.i)
<1>1. /\ Current.op = "set_base"
      /\ Kind[Current.type] \in Aggregates
      /\ Continue(steps)
      /\ UNCHANGED <<root, object, instance, call, message>>
  BY DEF SetBase, Doing, Aggregates
<1>2. Current.type \in Types
  BY CurrentOK DEF InWrite, StepOK, Steps
<1>3. steps \in Seq(Steps)
  BY <1>1, MemberStepsHere DEF InWrite, StepsIn, StepsOK
<1>4. OpsOf(steps, SetOps)
  BY <1>1, <1>2, PartStepOps
<1>5. ASSUME NEW x \in SpotsWritten(object), MatchesSet(x, Current)
      PROVE  WritesParts(object, steps, x) /\ ~IsReal(x)
  BY <1>1, <1>5, MembersWritten DEF MatchesSet, IsReal
<1>6. Kind[Current.type] # "smart_ptr"
  BY <1>1 DEF Aggregates
<1> HIDE DEF steps
<1> QED
  BY <1>1, <1>3, <1>4, <1>5, <1>6, ElsewhereWriting

LEMMA SetClassWriting ==
  ASSUME InWrite, SetStruct \/ SetSparse
  PROVE  Writing'
<1> DEFINE steps == SetMembers(Current.type, Current.o, Current.i)
           v == At(instance, Current.i)
<1>1. /\ Current.op = "set"
      /\ Kind[Current.type] \in Aggregates
      /\ Bind(steps)
      /\ UNCHANGED <<root, object, call, message>>
      /\ instance' = WithMember(v)
  BY DEF SetStruct, SetSparse, BindToSet, Doing, Aggregates
<1>2. Current.type \in Types
  BY CurrentOK DEF InWrite, StepOK, Steps
<1>3. steps \in Seq(Steps)
  BY <1>1, MemberStepsHere DEF InWrite, StepsIn, StepsOK
<1>4. OpsOf(steps, SetOps)
  BY <1>1, <1>2, PartStepOps
<1>5. ASSUME NEW x \in SpotsWritten(object), MatchesSet(x, Current)
      PROVE  WritesParts(object, steps, x) /\ HoldsValue(WithMember(v), object, x)
  BY <1>1, <1>5, MembersWritten
     DEF MatchesSet, HoldsValue, Aggregates, Leaves
<1>6. ~IsPointer(Current.type)
  BY <1>1 DEF IsPointer, Aggregates
<1> HIDE DEF steps, v
<1> QED
  BY <1>1, <1>3, <1>4, <1>5, <1>6, BindWriting

LEMMA ContainersAre ==
  ASSUME NEW t, Kind[t] \in Containers
  PROVE  ~IsPointer(t) /\ Kind[t] \notin Leaves
BY DEF IsPointer, Containers, Leaves

LEMMA SetElementsWriting ==
  ASSUME InWrite, Current.op = "set", Kind[Current.type] \in {"sequence", "range"},
         SetElements
  PROVE  Writing'
<1> DEFINE n == At(object.value, Current.o)
           steps == StepPerElement("set", Current, n)
<1>1. n \in Nat /\ At(instance, Current.i) \in Nat
  BY MemberNumber DEF InWrite
<1>2. PICK v \in LengthsFor(n) : instance' = WithMember(v)
  BY DEF SetElements
<1>3. v >= n
  BY <1>1, <1>2 DEF LengthsFor
<1>4. Bind(steps) /\ UNCHANGED <<root, object, call, message>>
  BY DEF SetElements
<1>5. Kind[Current.type] \in Containers
  BY DEF Containers
<1>6. steps \in Seq(Steps)
  BY <1>1, <1>5, ContainerSteps DEF InWrite, StepsIn, StepsOK
<1>7. OpsOf(steps, SetOps)
  BY <1>1, PartStepOps
<1>8. ASSUME NEW x \in SpotsWritten(object), MatchesSet(x, Current)
      PROVE  WritesParts(object, steps, x) /\ HoldsValue(WithMember(v), object, x)
  <2>1. /\ x.type = Current.type
        /\ x.path = Current.o
        /\ x.at = Current.i
        /\ n = LengthOf(object, x)
    BY <1>8 DEF MatchesSet, LengthOf
  <2>2. Numbers(object.value)
    BY DEF InWrite, Typing, ObjectOK, Shape, GoodObject
  <2>3. WritesParts(object, steps, x)
    BY <1>5, <2>1, <2>2, ElementsWritten
  <2>4. At(WithMember(v), x.at) = v
    BY <1>5, <1>8, <2>1, ContainersAre, WithMemberWrites
  <2>5. HoldsValue(WithMember(v), object, x)
    BY <1>3, <2>1, <2>4 DEF HoldsValue, Leaves
  <2> QED
    BY <2>3, <2>5
<1>9. ~IsPointer(Current.type)
  BY <1>5, ContainersAre
<1> HIDE DEF steps, n
<1> QED
  BY <1>2, <1>4, <1>6, <1>7, <1>8, <1>9, BindWriting

LEMMA SetArrayWriting ==
  ASSUME InWrite, SetArray
  PROVE  Writing'
<1> DEFINE v == At(instance, Current.i)
           steps == StepPerElement("set", Current, ArrayLen)
<1>1. /\ Current.op = "set"
      /\ Kind[Current.type] = "array"
      /\ Bind(steps)
      /\ UNCHANGED <<root, object, call, message>>
      /\ instance' = WithMember(v)
      /\ ArrayLen \in Nat
  BY ConversionConstants DEF SetArray, BindToSet, Doing
<1>2. Kind[Current.type] \in Containers
  BY <1>1 DEF Containers
<1>3. steps \in Seq(Steps)
  BY <1>1, <1>2, ContainerSteps DEF InWrite, StepsIn, StepsOK
<1>4. OpsOf(steps, SetOps)
  BY <1>1, PartStepOps
<1>5. ASSUME NEW x \in SpotsWritten(object), MatchesSet(x, Current)
      PROVE  WritesParts(object, steps, x) /\ HoldsValue(WithMember(v), object, x)
  <2>1. /\ x.type = Current.type
        /\ x.path = Current.o
        /\ x.at = Current.i
        /\ ArrayLen = LengthOf(object, x)
    BY <1>1, <1>5 DEF MatchesSet, LengthOf
  <2>2. Numbers(object.value)
    BY DEF InWrite, Typing, ObjectOK, Shape, GoodObject
  <2>3. WritesParts(object, steps, x)
    BY <1>2, <2>1, <2>2, ElementsWritten
  <2>4. HoldsValue(WithMember(v), object, x)
    BY <1>1, <2>1 DEF HoldsValue, Leaves
  <2> QED
    BY <2>3, <2>4
<1>6. ~IsPointer(Current.type)
  BY <1>2, ContainersAre
<1> HIDE DEF steps, v
<1> QED
  BY <1>1, <1>3, <1>4, <1>5, <1>6, BindWriting

(* An empty vector is not set.                                             *)
LEMMA EmptyVectorWriting ==
  ASSUME InWrite, Current.op = "set", Kind[Current.type] = "vector",
         At(object.value, Current.o) = 0, Continue(<<>>),
         UNCHANGED <<root, object, instance, call, message>>
  PROVE  Writing'
<1> DEFINE none == <<>>
<1>1. none \in Seq(Steps) /\ OpsOf(none, SetOps)
  BY EmptySeq DEF OpsOf
<1>2. ASSUME NEW x \in SpotsWritten(object), MatchesSet(x, Current)
      PROVE  WritesParts(object, none, x) /\ HasNothing(object, x)
  <2>1. Kind[x.type] = "vector" /\ LengthOf(object, x) = 0 /\ x \in Spots
    BY <1>2, WrittenSpot DEF MatchesSet, LengthOf
  <2>2. \A k \in Nat : <<x, k>> \notin PartsWritten(object)
    BY <2>1, PartWritten DEF WritesPart, Wrappers
  <2> QED
    BY <2>1, <2>2, NoPartsWritten DEF HasNothing
<1>3. Continue(none) /\ Current.op # "unbind"
  OBVIOUS
<1> HIDE DEF none
<1> QED
  BY <1>1, <1>2, <1>3, ElsewhereWriting

(* *opt and *val.                                                          *)
LEMMA PointedWritten ==
  ASSUME NEW s, NEW x \in SpotsWritten(s), MatchesSet(x, Current),
         Current \in Steps, Current.op = "set", IsPointer(x.type), LengthOf(s, x) = 1
  PROVE  WritesParts(s, <<Pointed>>, x)
<1> DEFINE z == PartSpot(x, 1)
<1>1. /\ x \in Spots
      /\ x.type = Current.type
      /\ x.path = Current.o
      /\ x.at = Current.i
      /\ x.case = Current.case
  BY WrittenSpot DEF MatchesSet
<1>2. /\ Kind[x.type] \in Wrappers
      /\ Kind[x.type] \notin Aggregates
      /\ Kind[x.type] \notin Leaves
      /\ Kind[x.type] # "union"
      /\ ~IsBasePart(x.type, 1)
  BY DEF IsPointer, IsBasePart, Wrappers, Aggregates, Leaves
<1>3. <<x, 1>> \in PartsWritten(s)
  BY <1>1, <1>2, PartWritten DEF HasPart, WritesPart
<1>4. ASSUME NEW k \in Nat, <<x, k>> \in PartsWritten(s)
      PROVE  k = 1
  BY <1>1, <1>4, PartWritten DEF HasPart
<1>5. PartType(x.type, 1) = ElementType
  BY <1>1, <1>2 DEF PartType, ElementType
<1>6. /\ z.type = ElementType
      /\ z.path = Append(Current.o, 1)
      /\ z.at = Current.i
      /\ z.base = FALSE
  BY <1>1, <1>2, <1>5, PartFields
<1>7. z.case = Current.case
  <2>1. z.case = (Kind[x.type] = "union" \/ (IsPointer(x.type) /\ x.case))
    BY Zenon DEF PartSpot
  <2>2. x.case \in BOOLEAN
    BY WrittenSpot
  <2>3. (Kind[x.type] = "union" \/ (IsPointer(x.type) /\ x.case)) = x.case
    BY <1>2, <2>2
  <2> QED
    BY <1>1, <2>1, <2>3
<1> DEFINE e == Pointed
<1>8. /\ e.op = "set"
      /\ e.type = ElementType
      /\ e.o = Append(Current.o, 1)
      /\ e.i = Current.i
      /\ e.case = Current.case
  BY DEF Pointed, Steps
<1> HIDE DEF e, z
<1>9. MatchesSet(z, e)
  BY <1>6, <1>7, <1>8 DEF MatchesSet
<1> DEFINE steps == <<e>>
<1>10. Len(steps) = 1 /\ steps[1] = e
  BY OneIsSeq
<1> HIDE DEF steps
<1>11. WritesParts(s, steps, x)
  <2>1. ASSUME NEW j \in 1..Len(steps), steps[j].op # "unbind"
        PROVE  \E k \in Nat : /\ <<x, k>> \in PartsWritten(s)
                              /\ MatchesSet(PartSpot(x, k), steps[j])
    BY <1>3, <1>9, <1>10 DEF z
  <2>2. ASSUME NEW k \in Nat, <<x, k>> \in PartsWritten(s)
        PROVE  \E j \in 1..Len(steps) : /\ steps[j].op \in {"set", "set_base"}
                                        /\ steps[j].o = Append(x.path, k)
    BY <1>1, <1>4, <1>8, <1>10, <2>2
  <2> QED
    BY <2>1, <2>2 DEF WritesParts
<1> QED
  BY <1>11 DEF steps, e

LEMMA SetPointerWriting ==
  ASSUME InWrite, SetOptional \/ SetSmartPtr
  PROVE  Writing'
<1> DEFINE v == At(object.value, Current.o)
           steps == IF v = 1 THEN <<Pointed>> ELSE <<>>
<1>1. /\ Current.op = "set"
      /\ IsPointer(Current.type)
      /\ Kind[Current.type] \in {"optional", "smart_ptr"}
      /\ Continue(steps)
      /\ UNCHANGED <<root, object, instance, call, message>>
  BY DEF SetOptional, SetSmartPtr, Doing, IsPointer
<1>2. StepOK(Current) /\ Current \in Steps
  BY CurrentOK DEF InWrite, StepOK
<1>3. v \in {0, 1}
  <2>1. Placed(root, Current.type, Current.o)
    BY <1>2 DEF StepOK
  <2>2. NodeOK(object, Current.type, Current.o)
    BY <2>1 DEF InWrite, Typing, ObjectOK
  <2> QED
    BY <1>1, <2>2 DEF NodeOK, Sized
<1>4. steps \in Seq(Steps) /\ OpsOf(steps, SetOps)
  <2>1. CASE v = 1
    <3>1. <<Pointed>> \in Seq(Steps)
      BY <1>1, <1>2, PointedIn DEF StepsIn, StepsOK
    <3>2. Pointed.op = "set"
      BY <1>1, <1>2 DEF Pointed, Steps
    <3>3. OpsOf(<<Pointed>>, SetOps)
      BY <3>2, OneIsSeq DEF OpsOf, SetOps
    <3> QED
      BY <2>1, <3>1, <3>3
  <2>2. CASE v # 1
    <3>1. <<>> \in Seq(Steps) /\ OpsOf(<<>>, SetOps)
      BY EmptySeq DEF OpsOf
    <3> QED
      BY <2>2, <3>1
  <2> QED
    BY <2>1, <2>2
<1>5. ASSUME NEW x \in SpotsWritten(object), MatchesSet(x, Current)
      PROVE  WritesParts(object, steps, x) /\ ~IsReal(x)
  <2>1. x.type = Current.type /\ x.path = Current.o /\ x \in Spots
    BY <1>5, WrittenSpot DEF MatchesSet
  <2>2. IsPointer(x.type) /\ ~IsReal(x)
    BY <1>1, <2>1 DEF IsReal
  <2>3. LengthOf(object, x) = v
    BY <2>1, <2>2 DEF LengthOf, IsPointer
  <2>4. CASE v = 1
    BY <1>1, <1>2, <1>5, <2>2, <2>3, <2>4, PointedWritten
  <2>5. CASE v = 0
    <3>1. \A k \in Nat : <<x, k>> \notin PartsWritten(object)
      BY <2>1, <2>2, <2>3, <2>5, PartWritten DEF WritesPart, Wrappers, IsPointer
    <3> QED
      BY <2>2, <2>5, <3>1, NoPartsWritten
  <2> QED
    BY <1>3, <2>4, <2>5
<1>6. Kind[Current.type] = "smart_ptr" => v = 1
  BY DEF SetOptional, SetSmartPtr, Doing
<1> HIDE DEF steps
<1> QED
  BY <1>1, <1>4, <1>5, <1>6, ElsewhereWriting

(* An empty union holds no case.                                           *)
LEMMA EmptyHoldsNoCase ==
  ASSUME NEW s, NEW t \in Types, Kind[t] = "union", NEW o, IsEmpty(s, o)
  PROVE  CaseHeld(s, t, o) \notin 1..NCases(t)
<1> DEFINE S == {c \in 1..NCases(t) :
                   c - 1 = ActiveIndex(s, o) /\ HasPointer(s, t, o, c)}
<1>1. Which(s, o) = 0 /\ ActiveIndex(s, o) = -1 /\ NCases(t) \in Nat
  BY CaseFacts DEF IsEmpty
<1>2. S = {}
  BY <1>1
<1>3. CaseHeld(s, t, o) = FirstOf(S)
  BY <1>1 DEF CaseHeld
<1> HIDE DEF S
<1>4. FirstOf(S) = 0
  BY <1>2 DEF FirstOf
<1> QED
  BY <1>1, <1>3, <1>4

(* The case that is written is the one that the application finds.         *)
LEMMA CaseSetIsHeld ==
  ASSUME NEW s, NEW t \in Types, Kind[t] = "union", NEW o, UnionOK(s, t, o),
         ~s.mixed, ~SetUnionThrows(s, t, o)
  PROVE  /\ CaseToSet(s, t, o) \in 1..NCases(t)
         /\ CaseHeld(s, t, o) = CaseToSet(s, t, o)
<1> DEFINE c == CaseToSet(s, t, o)
<1>1. c # 0 /\ (HasPointer(s, t, o, c) \/ Which(s, o) = c)
  BY DEF SetUnionThrows
<1>2. c \in 1..NCases(t) /\ (c - 1 = ActiveIndex(s, o) \/ c = Which(s, o))
  BY <1>1, FirstOfIsIn DEF CaseToSet
<1> HIDE DEF c
<1>3. c \in Nat /\ c > 0 /\ NCases(t) \in Nat
  BY <1>2, CaseFacts
<1>4. CASE Which(s, o) # 0
  <2>1. Which(s, o) = c
    BY <1>1, <1>2, <1>4 DEF UnionOK
  <2> QED
    BY <1>2, <1>4, <2>1 DEF CaseHeld, c
<1>5. CASE Which(s, o) = 0
  <2> DEFINE S == {d \in 1..NCases(t) :
                     d - 1 = ActiveIndex(s, o) /\ HasPointer(s, t, o, d)}
  <2>1. c - 1 = ActiveIndex(s, o) /\ HasPointer(s, t, o, c)
    BY <1>1, <1>2, <1>3, <1>5
  <2>2. ASSUME NEW d \in S
        PROVE  d = c
    BY <1>3, <2>1
  <2>3. c \in S
    BY <1>2, <2>1
  <2>4. CaseHeld(s, t, o) = FirstOf(S)
    BY <1>5 DEF CaseHeld
  <2> HIDE DEF S
  <2>5. \E e \in S : \A d \in S : e <= d
    BY <1>3, <2>2, <2>3
  <2>6. FirstOf(S) \in S
    BY <2>5 DEF FirstOf
  <2>7. FirstOf(S) = c
    BY <2>2, <2>6
  <2> QED
    BY <1>2, <2>4, <2>7 DEF c
<1> QED
  BY <1>4, <1>5

(* Where the data of a case are.                                           *)
LEMMA DataIsPart ==
  ASSUME NEW s, NEW x \in Spots, Kind[x.type] = "union",
         NEW c \in 1..NCases(x.type)
  PROVE  \E k \in Nat :
           /\ HasPart(x, k)
           /\ Append(x.path, k) = DataOf(s, x.type, x.path, c)
           /\ CaseAt(x.type, k) = c
<1> DEFINE t == x.type
           k == IF HasPointer(s, t, x.path, c) THEN NCases(t) + c ELSE c
<1>1. NCases(t) \in Nat /\ c \in Nat /\ c > 0 /\ c <= NCases(t)
  BY SpotFacts, CaseFacts
<1>2. k \in 1..NCases(t) + NCases(t) /\ k \in Nat
  BY <1>1
<1>3. Append(x.path, k) = DataOf(s, t, x.path, c)
  BY DEF DataOf, Pointee
<1>4. CaseAt(t, k) = c
  BY <1>1 DEF CaseAt
<1> HIDE DEF k
<1>5. HasPart(x, k)
  BY <1>2 DEF HasPart, Leaves, Aggregates, IsPointer
<1> QED
  BY <1>2, <1>3, <1>4, <1>5

LEMMA SetUnionCaseWriting ==
  ASSUME InWrite, SetUnionCase
  PROVE  Writing'
<1> DEFINE t == Current.type
           c == CaseToSet(object, t, Current.o)
           o == DataOf(object, t, Current.o, c)
           e == StepForCase("set", o, c)
<1>1. /\ Current.op = "set_union"
      /\ Kind[t] = "union"
      /\ ~SetUnionThrows(object, t, Current.o)
      /\ Continue(<<e>>)
      /\ UNCHANGED <<root, object, instance, call, message>>
  BY DEF SetUnionCase, Doing
<1>2. StepOK(Current) /\ Placed(root, t, Current.o) /\ t \in Types
  BY CurrentOK DEF InWrite, StepOK, Steps
<1>3. c \in 1..NCases(t)
  <2>1. c # 0
    BY <1>1 DEF SetUnionThrows
  <2> QED
    BY <2>1, FirstOfIsIn DEF CaseToSet
<1> HIDE DEF c
<1>4. e \in Steps
  <2>1. Placed(root, CaseType(t, c), o)
    BY <1>1, <1>2, <1>3, CasePlaced
  <2> HIDE DEF o
  <2>2. StepOK(e)
    BY <1>1, <1>2, <1>3, <2>1, CaseStepOK
  <2> QED
    BY <2>2 DEF StepOK
<1>5. /\ e.op = "set"
      /\ e.type = CaseType(t, c)
      /\ e.o = o
      /\ e.i = Append(Current.i, c)
      /\ e.case = TRUE
  BY DEF StepForCase
<1> DEFINE steps == <<e>>
<1>6. /\ Len(steps) = 1
      /\ steps[1] = e
      /\ steps \in Seq(Steps)
  BY <1>4, OneIsSeq
<1>7. ASSUME ~object.mixed, NEW x \in SpotsWritten(object), MatchesSet(x, Current)
      PROVE  WritesParts(object, steps, x)
  <2>1. /\ x \in Spots
        /\ x.type = t
        /\ x.path = Current.o
        /\ x.at = Current.i
    BY <1>7, WrittenSpot DEF MatchesSet
  <2>2. CaseHeld(object, t, Current.o) = c
    <3>1. UnionOK(object, t, Current.o)
      BY <1>1, <1>2 DEF InWrite, Typing, ObjectOK, NodeOK
    <3> QED
      BY <1>1, <1>2, <1>7, <3>1, CaseSetIsHeld DEF c
  <2>3. PICK k \in Nat : /\ HasPart(x, k)
                         /\ Append(x.path, k) = o
                         /\ CaseAt(t, k) = c
    <3>1. Kind[x.type] = "union" /\ c \in 1..NCases(x.type)
      BY <1>1, <1>3, <2>1
    <3>2. \E k \in Nat : /\ HasPart(x, k)
                         /\ Append(x.path, k) = DataOf(object, x.type, x.path, c)
                         /\ CaseAt(x.type, k) = c
      BY <2>1, <3>1, DataIsPart
    <3> QED
      BY <2>1, <3>2
  <2>4. <<x, k>> \in PartsWritten(object)
    BY <1>1, <1>3, <2>1, <2>2, <2>3, PartWritten DEF WritesPart, Wrappers
  <2> DEFINE z == PartSpot(x, k)
  <2>5. /\ z.type = CaseType(t, c)
        /\ z.path = o
        /\ z.at = Append(Current.i, c)
        /\ z.base = FALSE
        /\ z.case = TRUE
    <3>1. ~IsBasePart(t, k) /\ ~IsPointer(t) /\ Kind[t] \notin Aggregates
      BY <1>1 DEF IsBasePart, IsPointer, Aggregates
    <3>2. PartType(t, k) = CaseType(t, c) /\ IdOf(t, k) = c
      BY <1>1, <2>3, <3>1 DEF PartType, IdOf
    <3>3. /\ z.type = PartType(x.type, k)
          /\ z.path = Append(x.path, k)
          /\ ~IsPointer(x.type) /\ ~IsBasePart(x.type, k) =>
               z.at = Append(x.at, IdOf(x.type, k))
          /\ ~IsBasePart(x.type, k) => z.base = FALSE
          /\ Kind[x.type] = "union" => z.case = TRUE
      BY PartFields
    <3> HIDE DEF z, o
    <3> QED
      BY <1>1, <2>1, <2>3, <3>1, <3>2, <3>3
  <2> HIDE DEF z, e, o
  <2>6. MatchesSet(z, e)
    BY <1>5, <2>5 DEF MatchesSet
  <2> HIDE DEF steps
  <2>7. ASSUME NEW j \in 1..Len(steps)
        PROVE  j = 1 /\ steps[j] = e
    BY <1>6
  <2>8. ASSUME NEW j \in Nat, <<x, j>> \in PartsWritten(object)
        PROVE  j = k
    BY <1>1, <2>1, <2>4, <2>8, WrittenGuide DEF IsGuide
  <2>9. 1 \in 1..Len(steps)
    BY <1>6
  <2> QED
    BY <1>5, <1>6, <2>3, <2>4, <2>6, <2>7, <2>8, <2>9 DEF WritesParts, z
<1>8. OpsOf(steps, SetOps)
  <2> HIDE DEF steps, e
  <2> QED
    BY <1>5, <1>6 DEF OpsOf, SetOps
<1>9. Continue(steps) /\ Current.op # "unbind"
  BY <1>1
<1> HIDE DEF steps
<1> QED
  BY <1>1, <1>6, <1>7, <1>8, <1>9, ElsewhereWriting

(* A union is bound, then set_union writes its case.                       *)
LEMMA SetUnionWriting ==
  ASSUME InWrite, SetUnion
  PROVE  Writing'
<1> DEFINE t == Current.type
           e == [Current EXCEPT !.op = "set_union", !.case = FALSE]
           u == [Current EXCEPT !.op = "unbind"]
           v == At(instance, Current.i)
           steps == IF IsEmpty(object, Current.o) THEN <<>> ELSE <<e>>
           all == Append(steps, u)
<1>1. /\ Current.op = "set"
      /\ Kind[t] = "union"
      /\ Continue(all)
      /\ UNCHANGED <<root, object, call, message>>
      /\ instance' = WithMember(v)
  BY DEF SetUnion, BindToSet, Bind, Doing
<1>2. Current \in Steps /\ t \in Types
  BY CurrentOK DEF InWrite, StepOK, Steps
<1>3. /\ u \in Steps /\ u.op = "unbind"
      /\ e \in Steps
      /\ e.op = "set_union"
      /\ e.type = t
      /\ e.o = Current.o
      /\ e.i = Current.i
  BY <1>2 DEF Steps, Ops
<1> HIDE DEF e, u, v
<1>4. /\ IsSeq(steps)
      /\ steps \in Seq(Steps)
      /\ \A k \in 1..Len(steps) : steps[k] = e
      /\ Len(steps) \in Nat
      /\ ~IsEmpty(object, Current.o) => Len(steps) = 1
  <2>1. <<>> \in Seq(Steps) /\ <<e>> \in Seq(Steps)
    BY <1>3
  <2>2. Len(<<>>) = 0 /\ Len(<<e>>) = 1 /\ <<e>>[1] = e
    OBVIOUS
  <2> QED
    BY <2>1, <2>2, OneIsSeq, EmptyIsSeq
<1> HIDE DEF steps
<1>5. /\ all \in Seq(Steps)
      /\ Len(all) = Len(steps) + 1
      /\ \A k \in 1..Len(steps) : all[k] = e
      /\ all[Len(steps) + 1] = u
  BY <1>3, <1>4, AppendFacts, AppendProperties
<1> HIDE DEF all
<1>6. ASSUME NEW k \in 1..Len(all)
      PROVE  all[k] = e \/ all[k] = u
  BY <1>4, <1>5
<1>7. \A k \in 1..Len(all) : all[k].op \in SetOps
  BY <1>3, <1>6 DEF SetOps
<1>8. ASSUME ~object.mixed
      PROVE  Matched(object, all)
  <2>1. PICK x \in SpotsWritten(object) : MatchesSet(x, Current)
    BY <1>1, <1>8, CurrentWrites DEF InWrite
  <2>2. MatchesSet(x, e)
    BY <1>1, <1>3, <2>1 DEF MatchesSet
  <2> QED
    BY <1>3, <1>6, <2>2 DEF Matched
<1>9. ASSUME ~object.mixed, NEW y \in SpotsWritten(object)
      PROVE  \/ Stored(instance', object, y)
             \/ WillCover(all, y)
             \/ ~Covers(Current, y) /\ ~Stored(instance, object, y)
  <2>1. PICK x \in SpotsWritten(object) : MatchesSet(x, Current)
    BY <1>1, <1>9, CurrentWrites DEF InWrite
  <2>2. /\ x.type = t
        /\ x.path = Current.o
        /\ x.at = Current.i
        /\ x \in Spots
    BY <2>1, WrittenSpot DEF MatchesSet
  <2>3. ~IsPointer(x.type)
    BY <1>1, <2>2 DEF IsPointer
  <2>4. /\ IsReal(x)
        /\ WritesOnly(object, x, instance, instance')
        /\ x.at \in DOMAIN instance'
        /\ OnlyCase(instance', x)
    BY <1>1, <2>1, <2>3, WithMemberWrites
  <2>5. HoldsValue(instance', object, x)
    BY <1>1, <2>2 DEF HoldsValue, Leaves
  <2>6. Stored(instance', object, x)
    BY <2>4, <2>5 DEF Stored, IsReal, IsPointer
  <2>7. CASE Covers(Current, y)
    <3>1. IsAt(y.path, x.path)
      BY <1>1, <2>2, <2>7 DEF Covers
    <3>2. CASE y = x
      BY <2>6, <3>2
    <3>3. CASE y # x
      <4>1. PICK k \in Nat : /\ <<x, k>> \in PartsWritten(object)
                             /\ IsAt(y.path, Append(x.path, k))
        BY <3>1, <3>3, PartsInside DEF InWrite, IsRoot
      <4>2. HasPart(x, k) /\ WritesPart(object, x, k)
        BY <2>2, <4>1, PartWritten
      <4>3. ~IsEmpty(object, Current.o)
        BY <1>1, <1>2, <2>2, <4>2, EmptyHoldsNoCase DEF WritesPart
      <4>4. all[1] = e /\ 1 \in 1..Len(all)
        BY <1>4, <1>5, <4>3
      <4>5. IsIn(y.path, x.path)
        <5>1. x \in Reached(root, PartsWritten(object))
              /\ y \in Reached(root, PartsWritten(object))
          BY DEF SpotsWritten
        <5>2. y.path # x.path
          BY <3>3, <5>1, WrittenGuide, SpotUnique DEF InWrite, IsRoot
        <5> QED
          BY <3>1, <5>2 DEF IsIn
      <4>6. Covers(e, y)
        BY <1>3, <2>2, <4>5 DEF Covers
      <4> QED
        BY <4>4, <4>6 DEF WillCover
    <3> QED
      BY <3>2, <3>3
  <2>8. CASE ~Covers(Current, y) /\ Stored(instance, object, y)
    <3>1. ~IsAt(y.path, x.path)
      BY <1>1, <2>2, <2>8 DEF Covers
    <3> QED
      BY <2>4, <2>8, <3>1, WrittenElsewhere DEF InWrite
  <2> QED
    BY <2>7, <2>8
<1> QED
  BY <1>1, <1>5, <1>7, <1>8, <1>9, ContinueWriting DEF InWrite

LEMMA SetMemberWriting ==
  ASSUME InWrite, SetMember
  PROVE  Writing'
<1>1. ASSUME SetPrimitive \/ SetString \/ SetEnum
      PROVE  Writing'
  BY <1>1, LeafWriting DEF SetPrimitive, SetString, SetEnum, Doing, Leaves
<1>2. ASSUME SetPrimitiveSequence \/ SetPrimitiveRange
      PROVE  Writing'
  <2>1. /\ Current.op = "set"
        /\ Kind[Current.type] \in {"sequence", "range"}
        /\ Primitive(ElementType)
        /\ SetAll(At(object.value, Current.o))
    BY <1>2 DEF SetPrimitiveSequence, SetPrimitiveRange, Doing
  <2>2. Kind[ElementType] \in Leaves
    BY <2>1 DEF Primitive, Leaves
  <2>3. At(object.value, Current.o) \in Nat
    BY MemberNumber DEF InWrite
  <2> QED
    BY <2>1, <2>2, <2>3, SetAllWriting DEF Containers
<1>3. ASSUME SetVector
      PROVE  Writing'
  <2> DEFINE n == At(object.value, Current.o)
  <2>1. /\ Current.op = "set"
        /\ Kind[Current.type] = "vector"
        /\ Current.type \in Types
        /\ n \in Nat
    BY <1>3, CurrentOK, MemberNumber DEF SetVector, Doing, InWrite, StepOK, Steps
  <2>2. Kind[ElementType] \in Leaves
    BY <2>1, ElementKinds DEF ElementType
  <2>3. CASE n > 0
    BY <1>3, <2>1, <2>2, <2>3, SetAllWriting DEF SetVector, Containers
  <2>4. CASE ~(n > 0)
    BY <1>3, <2>1, <2>4, EmptyVectorWriting DEF SetVector
  <2> QED
    BY <2>3, <2>4
<1>4. ASSUME SetPrimitiveArray
      PROVE  Writing'
  <2>1. /\ Current.op = "set"
        /\ Kind[Current.type] = "array"
        /\ Primitive(ElementType)
        /\ SetAll(ArrayLen)
        /\ ArrayLen \in Nat
    BY <1>4, ConversionConstants DEF SetPrimitiveArray, Doing
  <2>2. Kind[ElementType] \in Leaves
    BY <2>1 DEF Primitive, Leaves
  <2> QED
    BY <2>1, <2>2, SetAllWriting DEF Containers
<1>5. ASSUME SetSequence \/ SetRange
      PROVE  Writing'
  BY <1>5, SetElementsWriting DEF SetSequence, SetRange, Doing
<1> QED
  BY <1>1, <1>2, <1>3, <1>4, <1>5, SetBaseWriting, SetClassWriting, SetArrayWriting,
     SetPointerWriting, SetUnionWriting, SetUnionCaseWriting DEF SetMember

-----------------------------------------------------------------------------
(* Calls only push steps of their own.                                     *)

GetOps == {"get", "get_base", "get_union", "activate", "unbind"}

LEMMA ContinuedSteps ==
  ASSUME IsSeq(todo), todo # <<>>, NEW steps, IsSeq(steps), Continue(steps)
  PROVE  /\ IsSeq(todo')
         /\ Len(todo') = Len(steps) + (Len(todo) - 1)
         /\ Len(steps) \in Nat
         /\ Len(todo) \in Nat
         /\ Current = todo[1]
         /\ 1 \in 1..Len(todo)
         /\ \A k \in 1..Len(todo') :
              \/ k \in 1..Len(steps) /\ todo'[k] = steps[k]
              \/ \E j \in 2..Len(todo) :
                   k = Len(steps) + (j - 1) /\ todo'[k] = todo[j]
         /\ \A k \in 1..Len(steps) : k \in 1..Len(todo') /\ todo'[k] = steps[k]
         /\ \A j \in 2..Len(todo) : \E k \in 1..Len(todo') : todo'[k] = todo[j]
<1>1. /\ IsSeq(Tail(todo))
      /\ Len(Tail(todo)) = Len(todo) - 1
      /\ \A k \in 1..Len(todo) - 1 : Tail(todo)[k] = todo[k + 1]
      /\ Current = todo[1]
      /\ Len(todo) \in Nat
      /\ Len(todo) > 0
      /\ Len(steps) \in Nat
  BY HeadTailFacts, SeqFacts DEF Current
<1> DEFINE rest == Tail(todo)
           all == steps \o rest
<1>2. /\ IsSeq(all)
      /\ Len(all) = Len(steps) + Len(rest)
      /\ \A k \in 1..Len(steps) : all[k] = steps[k]
      /\ \A m \in 1..Len(rest) : all[Len(steps) + m] = rest[m]
  BY <1>1, ConcatFacts
<1>3. todo' = all
  BY DEF Continue
<1> HIDE DEF all, rest
<1>4. Len(rest) = Len(todo) - 1 /\ \A k \in 1..Len(todo) - 1 : rest[k] = todo[k + 1]
  BY <1>1 DEF rest
<1>5. ASSUME NEW j \in 2..Len(todo)
      PROVE  /\ Len(steps) + (j - 1) \in 1..Len(all)
             /\ all[Len(steps) + (j - 1)] = todo[j]
  <2> DEFINE m == j - 1
  <2>1. m \in 1..Len(rest) /\ m + 1 = j /\ m \in 1..Len(todo) - 1
    BY <1>1, <1>4
  <2> HIDE DEF m
  <2>2. all[Len(steps) + m] = rest[m] /\ rest[m] = todo[m + 1]
    BY <1>2, <1>4, <2>1
  <2>3. Len(steps) + m \in 1..Len(all)
    BY <1>1, <1>2, <1>4, <2>1
  <2> QED
    BY <2>1, <2>2, <2>3 DEF m
<1>6. ASSUME NEW k \in 1..Len(all)
      PROVE  \/ k \in 1..Len(steps) /\ all[k] = steps[k]
             \/ \E j \in 2..Len(todo) :
                  k = Len(steps) + (j - 1) /\ all[k] = todo[j]
  <2>1. CASE k <= Len(steps)
    BY <1>1, <1>2, <2>1
  <2>2. CASE k > Len(steps)
    <3> DEFINE j == (k - Len(steps)) + 1
    <3>1. j \in 2..Len(todo) /\ k = Len(steps) + (j - 1)
      BY <1>1, <1>2, <1>4, <2>2
    <3> HIDE DEF j
    <3> QED
      BY <1>5, <3>1
  <2> QED
    BY <1>1, <2>1, <2>2
<1>7. \A k \in 1..Len(steps) : k \in 1..Len(all) /\ all[k] = steps[k]
  BY <1>1, <1>2, <1>4
<1>8. \A j \in 2..Len(todo) : \E k \in 1..Len(all) : all[k] = todo[j]
  BY <1>5
<1>9. Len(all) = Len(steps) + (Len(todo) - 1) /\ 1 \in 1..Len(todo)
  BY <1>1, <1>2, <1>4
<1> QED
  BY <1>1, <1>2, <1>3, <1>6, <1>7, <1>8, <1>9

LEMMA StackOps ==
  ASSUME IsSeq(todo), todo # <<>>, NEW ops, OpsOf(todo, ops),
         NEW steps, IsSeq(steps), OpsOf(steps, ops), Continue(steps)
  PROVE  OpsOf(todo', ops)
<1> SUFFICES ASSUME NEW k \in 1..Len(todo')
             PROVE  todo'[k].op \in ops
  BY DEF OpsOf
<1>1. CASE k \in 1..Len(steps) /\ todo'[k] = steps[k]
  BY <1>1 DEF OpsOf
<1>2. CASE \E j \in 2..Len(todo) : todo'[k] = todo[j]
  <2>1. PICK j \in 2..Len(todo) : todo'[k] = todo[j]
    BY <1>2
  <2>2. j \in 1..Len(todo)
    BY SeqFacts
  <2> QED
    BY <2>1, <2>2 DEF OpsOf
<1> QED
  BY <1>1, <1>2, ContinuedSteps

LEMMA ThenUnbindOps ==
  ASSUME NEW steps, IsSeq(steps), NEW ops, OpsOf(steps, ops), "unbind" \in ops,
         NEW u, u.op = "unbind"
  PROVE  IsSeq(Append(steps, u)) /\ OpsOf(Append(steps, u), ops)
<1> DEFINE all == Append(steps, u)
<1>1. /\ IsSeq(all)
      /\ Len(all) = Len(steps) + 1
      /\ \A k \in 1..Len(steps) : all[k] = steps[k]
      /\ all[Len(steps) + 1] = u
      /\ Len(steps) \in Nat
  BY AppendFacts, SeqFacts
<1> HIDE DEF all
<1>2. \A k \in 1..Len(all) : k \in 1..Len(steps) \/ k = Len(steps) + 1
  BY <1>1
<1>3. OpsOf(all, ops)
  BY <1>1, <1>2 DEF OpsOf
<1> QED
  BY <1>1, <1>3 DEF all

LEMMA OneOp ==
  ASSUME NEW e, NEW ops, e.op \in ops
  PROVE  IsSeq(<<e>>) /\ OpsOf(<<e>>, ops)
<1> DEFINE s == <<e>>
<1>1. IsSeq(s) /\ Len(s) = 1 /\ s[1] = e
  BY OneIsSeq
<1> HIDE DEF s
<1>2. OpsOf(s, ops)
  BY <1>1 DEF OpsOf
<1> QED
  BY <1>1, <1>2 DEF s

LEMMA TwoOps ==
  ASSUME NEW e, NEW f, NEW ops, e.op \in ops, f.op \in ops
  PROVE  IsSeq(<<e, f>>) /\ OpsOf(<<e, f>>, ops)
<1> DEFINE s == <<e, f>>
<1>1. s \in Seq({e, f}) /\ Len(s) = 2 /\ s[1] = e /\ s[2] = f
  OBVIOUS
<1> HIDE DEF s
<1>2. \A k \in 1..Len(s) : k = 1 \/ k = 2
  BY <1>1
<1>3. OpsOf(s, ops)
  BY <1>1, <1>2 DEF OpsOf
<1> QED
  BY <1>1, <1>3 DEF s, IsSeq

LEMMA ReadStepOps ==
  /\ \A t \in Types : \A o, i : Kind[t] \in Aggregates =>
       OpsOf(GetMembers(t, o, i), GetOps)
  /\ \A e, n : n \in Nat => OpsOf(StepPerElement("get", e, n), GetOps)
<1>1. \A op, t, o, i : Step(op, t, o, i).op = op
  BY DEF Step
<1>2. ASSUME NEW t \in Types, NEW o, NEW i, Kind[t] \in Aggregates
      PROVE  OpsOf(GetMembers(t, o, i), GetOps)
  <2> DEFINE s == GetMembers(t, o, i)
  <2>1. /\ Len(s) = Len(Parts[t])
        /\ \A k \in 1..Len(Parts[t]) :
             s[k] = Step(IF IsBasePart(t, k) THEN "get_base" ELSE "get",
                         Parts[t][k], Append(o, k),
                         IF IsBasePart(t, k) THEN i ELSE Append(i, IdOf(t, k)))
    BY <1>2, MemberStepsAre DEF GetMembers
  <2> HIDE DEF s
  <2>2. ASSUME NEW k \in 1..Len(s)
        PROVE  s[k].op \in GetOps
    <3>1. s[k].op = IF IsBasePart(t, k) THEN "get_base" ELSE "get"
      BY <1>1, <2>1
    <3> QED
      BY <3>1 DEF GetOps
  <2>3. OpsOf(s, GetOps)
    BY <2>2 DEF OpsOf
  <2> QED
    BY <2>3 DEF s
<1>3. ASSUME NEW e, NEW n, n \in Nat
      PROVE  OpsOf(StepPerElement("get", e, n), GetOps)
  <2> DEFINE s == StepPerElement("get", e, n)
  <2>1. /\ Len(s) = n
        /\ \A k \in 1..n :
             s[k] = Step("get", Parts[e.type][1], Append(e.o, k), Append(e.i, k))
    BY <1>3, ElementStepsAre
  <2> HIDE DEF s
  <2>2. ASSUME NEW k \in 1..Len(s)
        PROVE  s[k].op \in GetOps
    BY <1>1, <2>1 DEF GetOps
  <2>3. OpsOf(s, GetOps)
    BY <2>2 DEF OpsOf
  <2> QED
    BY <2>3 DEF s
<1> QED
  BY <1>2, <1>3

LEMMA GetMemberSteps ==
  ASSUME Typing, GetMember
  PROVE  /\ todo # <<>>
         /\ call.ended = "running"
         /\ Current.op \in {"get", "get_base", "get_union", "activate"}
         /\ UNCHANGED <<root, instance, call, message>>
         /\ \E steps : IsSeq(steps) /\ OpsOf(steps, GetOps) /\ Continue(steps)
<1>1. /\ todo # <<>>
      /\ call.ended = "running"
      /\ Current.op \in {"get", "get_base", "get_union", "activate"}
  BY DEF GetMember, GetPrimitive, GetString, GetEnum, GetBase, GetStruct,
         GetSparse, GetPrimitiveSequence, GetVector, GetPrimitiveRange,
         GetPrimitiveArray, GetSequence, GetRange, GetArray, GetOptional,
         GetSmartPtr, GetUnion, GetUnionCase, Activate, Doing
<1>2. UNCHANGED <<root, instance, call, message>>
  BY DEF GetMember, GetPrimitive, GetString, GetEnum, GetBase, GetStruct,
         GetSparse, GetPrimitiveSequence, GetVector, GetPrimitiveRange,
         GetPrimitiveArray, GetSequence, GetRange, GetArray, GetOptional,
         GetSmartPtr, GetUnion, GetUnionCase, Activate, GetLeaf, GetAll,
         Get, BindToGet
<1>3. StepOK(Current) /\ Current \in Steps /\ Current.type \in Types
  BY <1>1, CurrentOK DEF StepOK, Steps
<1>4. ArrayLen \in Nat /\ At(instance, Current.i) \in Nat
  BY MemberNumber, ConversionConstants
<1> DEFINE Pushed == \E steps : IsSeq(steps) /\ OpsOf(steps, GetOps) /\ Continue(steps)
<1> SUFFICES Pushed
  BY <1>1, <1>2
<1>5. ASSUME Continue(<<>>)
      PROVE  Pushed
  BY <1>5, EmptyIsSeq DEF OpsOf
<1>6. ASSUME NEW steps, IsSeq(steps), OpsOf(steps, GetOps), Bind(steps)
      PROVE  Pushed
  <2> DEFINE u == [Current EXCEPT !.op = "unbind"]
  <2>1. u.op = "unbind" /\ "unbind" \in GetOps
    BY <1>3 DEF Steps, GetOps
  <2>2. Continue(Append(steps, u))
    BY <1>6 DEF Bind
  <2> HIDE DEF u
  <2> QED
    BY <1>6, <2>1, <2>2, ThenUnbindOps
<1>7. ASSUME NEW s, Get(s)
      PROVE  Pushed
  BY <1>5, <1>7 DEF Get
<1>8. CASE \/ GetPrimitive \/ GetString \/ GetEnum \/ GetPrimitiveSequence
           \/ GetVector \/ GetPrimitiveArray \/ GetPrimitiveRange \/ Activate
  <2>1. \E s : Get(s)
    BY <1>8 DEF GetPrimitive, GetString, GetEnum, GetPrimitiveSequence, GetVector,
                GetPrimitiveArray, GetPrimitiveRange, Activate, GetLeaf, GetAll
  <2> QED
    BY <1>7, <2>1
<1>9. CASE GetBase \/ GetStruct \/ GetSparse
  <2> DEFINE steps == GetMembers(Current.type, Current.o, Current.i)
  <2>1. /\ Kind[Current.type] \in Aggregates
        /\ Current.op # "activate"
        /\ Continue(steps) \/ Bind(steps)
    BY <1>9 DEF GetBase, GetStruct, GetSparse, Doing, Aggregates, BindToGet
  <2>2. OpsOf(steps, GetOps)
    BY <1>3, <2>1, ReadStepOps
  <2>3. IsSeq(steps)
    <3>1. steps \in Seq(Steps)
      BY <1>1, <2>1, MemberStepsHere DEF StepsIn, StepsOK
    <3> QED
      BY <3>1 DEF IsSeq
  <2> HIDE DEF steps
  <2> QED
    BY <1>6, <2>1, <2>2, <2>3
<1>10. CASE GetSequence \/ GetRange \/ GetArray
  <2>1. /\ Kind[Current.type] \in Containers
        /\ \E n \in {ArrayLen, At(instance, Current.i)} :
             Bind(StepPerElement("get", Current, n))
        /\ Current.op = "get"
    BY <1>10 DEF GetSequence, GetRange, GetArray, Doing, Containers, BindToGet
  <2>2. PICK n \in Nat : Bind(StepPerElement("get", Current, n))
    BY <1>4, <2>1
  <2> DEFINE steps == StepPerElement("get", Current, n)
  <2>3. OpsOf(steps, GetOps)
    BY ReadStepOps
  <2>4. IsSeq(steps)
    <3>1. steps \in Seq(Steps)
      BY <1>1, <2>1, ContainerSteps DEF StepsIn, StepsOK
    <3> QED
      BY <3>1 DEF IsSeq
  <2> HIDE DEF steps
  <2>5. Bind(steps)
    BY <2>2 DEF steps
  <2> QED
    BY <1>6, <2>3, <2>4, <2>5
<1>11. CASE GetOptional \/ GetSmartPtr
  <2>1. Continue(<<Pointed>>) \/ Continue(<<>>)
    BY <1>11 DEF GetOptional, GetSmartPtr, GetPointed
  <2>2. Current.op = "get"
    BY <1>11 DEF GetOptional, GetSmartPtr, Doing
  <2>3. Pointed.op \in GetOps
    BY <1>3, <2>2 DEF Pointed, GetOps, Steps
  <2>4. IsSeq(<<Pointed>>) /\ OpsOf(<<Pointed>>, GetOps)
    BY <2>3, OneOp
  <2> QED
    BY <1>5, <2>1, <2>4
<1>12. CASE GetUnion
  <2> DEFINE e == [Current EXCEPT !.op = "get_union", !.case = FALSE]
             steps == <<e>>
  <2>1. e.op \in GetOps
    BY <1>3 DEF GetOps, Steps
  <2>2. Bind(steps)
    BY <1>12 DEF GetUnion, BindToGet
  <2> HIDE DEF e
  <2>3. IsSeq(steps) /\ OpsOf(steps, GetOps)
    BY <2>1, OneOp
  <2> HIDE DEF steps
  <2> QED
    BY <1>6, <2>2, <2>3
<1>13. CASE GetUnionCase
  <2> DEFINE c == CaseRead(Current)
             f == [Current EXCEPT !.op = "activate", !.i = Append(@, c)]
  <2>1. f.op \in GetOps
    BY <1>3 DEF GetOps, Steps
  <2>2. \A o : StepForCase("get", o, c).op \in GetOps
    BY DEF StepForCase, GetOps
  <2>3. \E e : /\ e.op \in GetOps
               /\ Continue(<<e, f>>) \/ Continue(<<e>>)
    BY <1>13, <2>2 DEF GetUnionCase
  <2>4. PICK e : /\ e.op \in GetOps
                 /\ Continue(<<e, f>>) \/ Continue(<<e>>)
    BY <2>3
  <2> HIDE DEF f
  <2>5. /\ IsSeq(<<e, f>>) /\ OpsOf(<<e, f>>, GetOps)
        /\ IsSeq(<<e>>) /\ OpsOf(<<e>>, GetOps)
    BY <2>1, <2>4, OneOp, TwoOps
  <2> QED
    BY <2>4, <2>5
<1> QED
  BY <1>8, <1>9, <1>10, <1>11, <1>12, <1>13 DEF GetMember

-----------------------------------------------------------------------------
(* A call takes steps of its own only.                                     *)
Conducts ==
  call.ended = "running" =>
    /\ call.what # "none"
    /\ call.what = "read" => OpsOf(todo, GetOps)

(* What a write that returned has left in w: everything the object then    *)
(* had, s, as message says.                                                *)
WasWritten(s, w, m) ==
  /\ ObjectOK(s, root)
  /\ ~s.mixed
  /\ m.written = Contents(s)
  /\ \A y \in SpotsWritten(s) : Stored(w, s, y)

Delivered ==
  message.whole /\ ~message.mixed => \E s : WasWritten(s, instance, message)

Delivery == CallOK /\ Conducts /\ Writing /\ Delivered

LEMMA SetMemberSteps ==
  ASSUME SetMember
  PROVE  /\ todo # <<>>
         /\ call.ended = "running"
         /\ Current.op \in {"set", "set_base", "set_union"}
         /\ UNCHANGED <<root, object, call, message>>
<1>1. /\ todo # <<>>
      /\ call.ended = "running"
      /\ Current.op \in {"set", "set_base", "set_union"}
  BY DEF SetMember, SetPrimitive, SetString, SetEnum, SetBase, SetStruct,
         SetSparse, SetPrimitiveSequence, SetVector, SetPrimitiveRange,
         SetPrimitiveArray, SetSequence, SetRange, SetArray, SetOptional,
         SetSmartPtr, SetUnion, SetUnionCase, Doing
<1>2. UNCHANGED <<root, object, call, message>>
  BY DEF SetMember, SetPrimitive, SetString, SetEnum, SetBase, SetStruct,
         SetSparse, SetPrimitiveSequence, SetVector, SetPrimitiveRange,
         SetPrimitiveArray, SetSequence, SetRange, SetArray, SetOptional,
         SetSmartPtr, SetUnion, SetUnionCase, SetLeaf, SetAll, SetElements,
         Set, BindToSet
<1> QED
  BY <1>1, <1>2

(* Where nothing of the message or the instance changes.                   *)
LEMMA SameDelivered ==
  ASSUME Delivered, UNCHANGED <<root, instance, message>>
  PROVE  Delivered'
<1>1. \A s : /\ SpotsWritten(s)' = SpotsWritten(s)
             /\ Contents(s)' = Contents(s)
             /\ ObjectOK(s, root)' = ObjectOK(s, root)
  <2>1. \A s : PartsWritten(s)' = PartsWritten(s)
    BY DEF PartsWritten, WritesPart, LengthOf
  <2> QED
    BY <2>1 DEF SpotsWritten, Contents, Nodes
<1> QED
  BY <1>1 DEF Delivered, WasWritten

LEMMA FirstStep ==
  ASSUME Typing, todo # <<>>
  PROVE  /\ IsSeq(todo)
         /\ Current = todo[1]
         /\ 1 \in 1..Len(todo)
         /\ Current \in Steps
<1>1. todo \in Seq(Steps)
  BY DEF Typing, StepsOK
<1>2. Current = todo[1] /\ 1 \in 1..Len(todo)
  BY <1>1, HeadTailFacts, SeqFacts DEF IsSeq, Current
<1> QED
  BY <1>1, <1>2 DEF IsSeq

LEMMA WriteIsRunning ==
  ASSUME Typing, Delivery, SetMember
  PROVE  call.what = "write"
<1>1. /\ todo # <<>>
      /\ call.ended = "running"
      /\ Current.op \in {"set", "set_base", "set_union"}
  BY SetMemberSteps
<1>2. Current = todo[1] /\ 1 \in 1..Len(todo)
  BY <1>1, FirstStep
<1>3. call.what \in {"none", "write", "read"}
  BY DEF Delivery, CallOK
<1> QED
  BY <1>1, <1>2, <1>3 DEF Delivery, Conducts, OpsOf, GetOps

LEMMA ReadIsRunning ==
  ASSUME Typing, Delivery, GetMember
  PROVE  call.what = "read"
<1>1. /\ todo # <<>>
      /\ call.ended = "running"
      /\ Current.op \in {"get", "get_base", "get_union", "activate"}
  BY GetMemberSteps
<1>2. Current = todo[1] /\ 1 \in 1..Len(todo)
  BY <1>1, FirstStep
<1>3. call.what \in {"none", "write", "read"}
  BY DEF Delivery, CallOK
<1> QED
  BY <1>1, <1>2, <1>3 DEF Delivery, Conducts, Writing, SetOps

(* A write begins with the members of the root.                            *)
LEMMA WriteWriting ==
  ASSUME IsRoot, Typing, Write
  PROVE  Writing'
<1> DEFINE steps == SetMembers(root, <<>>, <<>>)
           top == TopSpot(root)
<1>1. /\ todo' = steps
      /\ message'.written = Contents(object)
      /\ message'.whole = FALSE
      /\ message'.mixed = object.mixed
      /\ UNCHANGED <<root, object, instance>>
  BY DEF Write
<1>2. top \in SpotsWritten(object)
  BY TopIsReached DEF SpotsWritten, IsRoot
<1>3. /\ top.type = root
      /\ top.path = <<>>
      /\ top.at = <<>>
      /\ top.base = TRUE
  BY DEF TopSpot
<1>4. Kind[root] \in Aggregates
  BY DEF IsRoot, Aggregates
<1>5. OpsOf(steps, SetOps)
  BY <1>4, PartStepOps DEF IsRoot
<1> HIDE DEF top
<1>6. WritesParts(object, SetMembers(top.type, top.path, top.at), top)
  BY <1>2, <1>3, <1>4, MembersWritten
<1>7. WritesParts(object, steps, top)
  BY <1>3, <1>6
<1> HIDE DEF steps
<1>8. Matched(object, steps)
  <2> SUFFICES ASSUME NEW j \in 1..Len(steps), steps[j].op # "unbind"
               PROVE  \E z \in SpotsWritten(object) : MatchesSet(z, steps[j])
    BY DEF Matched
  <2>1. PICK k \in Nat : /\ <<top, k>> \in PartsWritten(object)
                         /\ MatchesSet(PartSpot(top, k), steps[j])
    BY <1>7 DEF WritesParts
  <2>2. PartSpot(top, k) \in SpotsWritten(object)
    BY <1>2, <2>1, WrittenGuide, PartIsReached DEF SpotsWritten
  <2> QED
    BY <2>1, <2>2
<1>9. AllStored(instance, object, steps)
  <2> SUFFICES ASSUME NEW y \in SpotsWritten(object)
               PROVE  Stored(instance, object, y) \/ WillCover(steps, y)
    BY DEF AllStored
  <2>1. CASE y = top
    BY <1>2, <1>3, <2>1 DEF Stored, IsReal, IsRoot
  <2>2. CASE y # top
    <3>1. IsAt(y.path, top.path)
      <4>1. Len(y.path) \in Nat /\ y.path \in Paths
        BY WrittenSpot DEF Paths
      <4>2. <<>> \in Paths /\ Len(<<>>) = 0
        BY EmptyPath
      <4>3. IsAt(y.path, <<>>)
        <5> DEFINE p == <<>>
        <5> HIDE DEF p
        <5>1. p \in Paths /\ Len(p) = 0
          BY <4>2 DEF p
        <5>2. IsAt(y.path, p)
          BY <4>1, <5>1, IsAtFacts
        <5> QED
          BY <5>2 DEF p
      <4> QED
        BY <1>3, <4>3
    <3>2. PICK k \in Nat : /\ <<top, k>> \in PartsWritten(object)
                           /\ IsAt(y.path, Append(top.path, k))
      BY <1>2, <2>2, <3>1, PartsInside DEF IsRoot
    <3>3. PICK j \in 1..Len(steps) : /\ steps[j].op \in {"set", "set_base"}
                                     /\ steps[j].o = Append(top.path, k)
      BY <1>7, <3>2 DEF WritesParts
    <3>4. Covers(steps[j], y)
      BY <3>2, <3>3 DEF Covers
    <3> QED
      BY <3>4 DEF WillCover
  <2> QED
    BY <2>1, <2>2
<1>10. /\ SpotsWritten(object)' = SpotsWritten(object)
       /\ Contents(object)' = Contents(object)
  <2>1. PartsWritten(object)' = PartsWritten(object)
    BY <1>1 DEF PartsWritten, WritesPart, LengthOf
  <2> QED
    BY <1>1, <2>1 DEF SpotsWritten, Contents, Nodes
<1> QED
  BY <1>1, <1>5, <1>8, <1>9, <1>10 DEF Writing, Matched, AllStored, OpsOf

LEMMA UnbindWriting ==
  ASSUME IsRoot, Typing, Writing, Unbind
  PROVE  Writing'
<1>1. /\ todo # <<>>
      /\ Current.op = "unbind"
      /\ Continue(<<>>)
      /\ UNCHANGED <<root, object, instance, call, message>>
  BY DEF Unbind
<1>2. CASE call.what = "write" /\ call.ended = "running"
  <2> DEFINE none == <<>>
  <2>1. none \in Seq(Steps) /\ Len(none) = 0 /\ Continue(none)
    BY <1>1, EmptySeq
  <2> HIDE DEF none
  <2>2. Matched(object, none)
    BY <2>1 DEF Matched
  <2>3. ASSUME NEW y
        PROVE  ~Covers(Current, y)
    BY <1>1 DEF Covers
  <2>4. ASSUME NEW y
        PROVE  Stored(instance', object, y) <=> Stored(instance, object, y)
    BY <1>1
  <2>5. \A y \in SpotsWritten(object) :
           \/ Stored(instance', object, y)
           \/ WillCover(none, y)
           \/ ~Covers(Current, y) /\ ~Stored(instance, object, y)
    BY <2>3, <2>4
  <2>6. \A k \in 1..Len(none) : none[k].op \in SetOps
    BY <2>1
  <2> QED
    BY <1>1, <1>2, <2>1, <2>2, <2>5, <2>6, ContinueWriting
<1>3. CASE ~(call.what = "write" /\ call.ended = "running")
  BY <1>1, <1>3 DEF Writing
<1> QED
  BY <1>2, <1>3

LEMMA StepWriting == IsRoot /\ Typing /\ Delivery /\ [Next]_vars => Writing'
<1> SUFFICES ASSUME IsRoot, Typing, Delivery, [Next]_vars
             PROVE  Writing'
  OBVIOUS
<1>1. Writing
  BY DEF Delivery
<1>2. CASE Write
  BY <1>2, WriteWriting
<1>3. CASE SetMember
  BY <1>1, <1>3, WriteIsRunning, SetMemberSteps, SetMemberWriting DEF InWrite
<1>4. CASE GetMember
  BY <1>4, ReadIsRunning, GetMemberSteps DEF Writing
<1>5. CASE Unbind
  BY <1>1, <1>5, UnbindWriting
<1>6. CASE Read
  BY <1>6 DEF Read, Writing
<1>7. CASE Throw \/ Return
  <2>1. call'.ended # "running"
    BY <1>7 DEF Throw, Return, Delivery, CallOK
  <2> QED
    BY <2>1 DEF Writing
<1>8. CASE Unwind
  <2>1. call'.ended # "running"
    BY <1>8 DEF Unwind
  <2> QED
    BY <2>1 DEF Writing
<1>9. CASE NewInstance \/ \E s : Change(s)
  <2>1. call'.ended # "running"
    BY <1>9 DEF NewInstance, Change, NoCall
  <2> QED
    BY <2>1 DEF Writing
<1>10. CASE UNCHANGED vars
  <2>1. UNCHANGED <<root, object, instance, todo, call, message>>
    BY <1>10 DEF vars
  <2>2. PartsWritten(object)' = PartsWritten(object)
    BY <2>1 DEF PartsWritten, WritesPart, LengthOf
  <2>3. /\ SpotsWritten(object)' = SpotsWritten(object)
        /\ Contents(object)' = Contents(object)
    BY <2>1, <2>2 DEF SpotsWritten, Contents, Nodes
  <2> QED
    BY <1>1, <2>1, <2>3 DEF Writing, Matched, AllStored
<1>11. NewObject => \E s : Change(s)
  BY DEF NewObject
<1>12. ASSUME NEW n, NEW v, Assign(n, v)
       PROVE  \E s : Change(s)
  BY <1>12 DEF Assign
<1>13. ASSUME NEW t, NEW o, UseUnion(t, o)
       PROVE  \E s : Change(s)
  BY <1>13 DEF UseUnion
<1> QED
  BY <1>2, <1>3, <1>4, <1>5, <1>6, <1>7, <1>8, <1>9, <1>10, <1>11, <1>12,
     <1>13 DEF Next

LEMMA StepConducts == IsRoot /\ Typing /\ Delivery /\ [Next]_vars => Conducts'
<1> SUFFICES ASSUME IsRoot, Typing, Delivery, [Next]_vars
             PROVE  Conducts'
  OBVIOUS
<1>1. Conducts /\ CallOK /\ IsSeq(todo)
  BY DEF Delivery, Typing, StepsOK, IsSeq
<1>2. CASE Write
  BY <1>2 DEF Write, Conducts
<1>3. CASE Read
  <2>1. /\ todo' = GetMembers(root, <<>>, <<>>)
        /\ call'.what = "read"
    BY <1>3 DEF Read
  <2>2. OpsOf(GetMembers(root, <<>>, <<>>), GetOps)
    BY ReadStepOps DEF IsRoot, Aggregates
  <2> QED
    BY <2>1, <2>2 DEF Conducts, OpsOf
<1>4. CASE SetMember
  BY <1>4, WriteIsRunning, SetMemberSteps DEF Conducts
<1>5. CASE GetMember
  <2>1. /\ call.what = "read"
        /\ call.ended = "running"
        /\ todo # <<>>
        /\ UNCHANGED call
        /\ \E steps : IsSeq(steps) /\ OpsOf(steps, GetOps) /\ Continue(steps)
    BY <1>5, ReadIsRunning, GetMemberSteps
  <2>2. OpsOf(todo, GetOps)
    BY <1>1, <2>1 DEF Conducts
  <2>3. OpsOf(todo', GetOps)
    BY <1>1, <2>1, <2>2, StackOps
  <2> QED
    BY <2>1, <2>3 DEF Conducts, OpsOf
<1>6. CASE Unbind \/ Unwind
  <2> DEFINE none == <<>>
  <2>1. todo # <<>> /\ UNCHANGED call /\ Continue(none)
    BY <1>6 DEF Unbind, Unwind
  <2>2. IsSeq(none) /\ OpsOf(none, GetOps)
    BY EmptyIsSeq DEF OpsOf
  <2> HIDE DEF none
  <2>3. OpsOf(todo, GetOps) => OpsOf(todo', GetOps)
    BY <1>1, <2>1, <2>2, StackOps
  <2> QED
    BY <1>1, <2>1, <2>3 DEF Conducts, OpsOf
<1>7. CASE Throw \/ Return
  <2>1. call'.ended # "running"
    BY <1>7 DEF Throw, Return, Delivery, CallOK
  <2> QED
    BY <2>1 DEF Conducts
<1>8. CASE NewInstance \/ \E s : Change(s)
  <2>1. call'.ended # "running"
    BY <1>8 DEF NewInstance, Change, NoCall
  <2> QED
    BY <2>1 DEF Conducts
<1>9. CASE UNCHANGED vars
  BY <1>1, <1>9 DEF vars, Conducts, OpsOf
<1>10. NewObject => \E s : Change(s)
  BY DEF NewObject
<1>11. ASSUME NEW n, NEW v, Assign(n, v)
       PROVE  \E s : Change(s)
  BY <1>11 DEF Assign
<1>12. ASSUME NEW t, NEW o, UseUnion(t, o)
       PROVE  \E s : Change(s)
  BY <1>12 DEF UseUnion
<1> QED
  BY <1>2, <1>3, <1>4, <1>5, <1>6, <1>7, <1>8, <1>9, <1>10, <1>11, <1>12 DEF Next

(* A write that returns has stored everything.                             *)
LEMMA ReturnWrites ==
  ASSUME Typing, Delivery, Return, call.what = "write", ~message.mixed
  PROVE  WasWritten(object, instance, message)'
<1>1. /\ todo = <<>>
      /\ call.ended = "running"
      /\ UNCHANGED <<root, object, instance>>
  BY DEF Return
<1>2. message' = [message EXCEPT !.whole = TRUE]
  BY DEF Return
<1>3. message'.mixed = message.mixed /\ message'.written = message.written
  BY <1>2 DEF Delivery, CallOK
<1>4. /\ message.written = Contents(object)
      /\ ~object.mixed
      /\ AllStored(instance, object, todo)
  BY <1>1 DEF Delivery, Writing
<1>5. \A y \in SpotsWritten(object) : Stored(instance, object, y)
  <2>1. Len(todo) = 0
    BY <1>1, EmptySeq
  <2>2. \A y : ~WillCover(todo, y)
    BY <2>1 DEF WillCover
  <2> QED
    BY <1>4, <2>2 DEF AllStored
<1>6. /\ SpotsWritten(object)' = SpotsWritten(object)
      /\ Contents(object)' = Contents(object)
      /\ ObjectOK(object, root)' = ObjectOK(object, root)
  <2>1. PartsWritten(object)' = PartsWritten(object)
    BY <1>1 DEF PartsWritten, WritesPart, LengthOf
  <2> QED
    BY <1>1, <2>1 DEF SpotsWritten, Contents, Nodes
<1> QED
  BY <1>1, <1>3, <1>4, <1>5, <1>6 DEF WasWritten, Typing

LEMMA ReturnDelivers ==
  ASSUME Typing, Delivery, Return
  PROVE  Delivered'
<1>1. CASE call.what = "write"
  <2>1. message' = [message EXCEPT !.whole = TRUE]
    BY <1>1 DEF Return
  <2>2. message'.mixed = message.mixed
    BY <2>1 DEF Delivery, CallOK
  <2> QED
    BY <1>1, <2>2, ReturnWrites DEF Delivered
<1>2. CASE call.what # "write"
  <2>1. UNCHANGED <<root, instance, message>>
    BY <1>2 DEF Return
  <2> QED
    BY <2>1, SameDelivered DEF Delivery
<1> QED
  BY <1>1, <1>2

LEMMA StepDelivered == IsRoot /\ Typing /\ Delivery /\ [Next]_vars => Delivered'
<1> SUFFICES ASSUME IsRoot, Typing, Delivery, [Next]_vars
             PROVE  Delivered'
  OBVIOUS
<1>1. Delivered /\ CallOK
  BY DEF Delivery
<1>2. CASE Write
  <2>1. message'.whole = FALSE
    BY <1>2 DEF Write
  <2> QED
    BY <2>1 DEF Delivered
<1>3. CASE SetMember
  <2>1. message' = message /\ ~message.whole
    BY <1>3, WriteIsRunning, SetMemberSteps DEF Delivery, Writing
  <2> QED
    BY <2>1 DEF Delivered
<1>4. CASE GetMember
  BY <1>1, <1>4, GetMemberSteps, SameDelivered
<1>5. CASE Read \/ Unbind \/ Unwind
  <2>1. UNCHANGED <<root, instance, message>>
    BY <1>5 DEF Read, Unbind, Unwind
  <2> QED
    BY <1>1, <2>1, SameDelivered
<1>6. CASE Throw
  <2>1. CASE call.what = "write"
    <3>1. message'.whole = FALSE
      BY <1>6, <2>1 DEF Throw, NoMessage
    <3> QED
      BY <3>1 DEF Delivered
  <2>2. CASE call.what # "write"
    <3>1. UNCHANGED <<root, instance, message>>
      BY <1>6, <2>2 DEF Throw
    <3> QED
      BY <1>1, <3>1, SameDelivered
  <2> QED
    BY <2>1, <2>2
<1>7. CASE Return
  BY <1>7, ReturnDelivers
<1>8. CASE NewInstance
  <2>1. message'.whole = FALSE
    BY <1>8 DEF NewInstance, NoMessage
  <2> QED
    BY <2>1 DEF Delivered
<1>9. CASE \E s : Change(s)
  <2>1. UNCHANGED <<root, instance, message>>
    BY <1>9 DEF Change
  <2> QED
    BY <1>1, <2>1, SameDelivered
<1>10. CASE UNCHANGED vars
  <2>1. UNCHANGED <<root, instance, message>>
    BY <1>10 DEF vars
  <2> QED
    BY <1>1, <2>1, SameDelivered
<1>11. NewObject => \E s : Change(s)
  BY DEF NewObject
<1>12. ASSUME NEW n, NEW v, Assign(n, v)
       PROVE  \E s : Change(s)
  BY <1>12 DEF Assign
<1>13. ASSUME NEW t, NEW o, UseUnion(t, o)
       PROVE  \E s : Change(s)
  BY <1>13 DEF UseUnion
<1> QED
  BY <1>2, <1>3, <1>4, <1>5, <1>6, <1>7, <1>8, <1>9, <1>10, <1>11, <1>12,
     <1>13 DEF Next

LEMMA InitDelivery == Init => Delivery
BY InitCall DEF Init, Delivery, Conducts, Writing, Delivered, NoCall, NoMessage

LEMMA StepDelivery == IInv /\ Typing /\ Delivery /\ [Next]_vars => Delivery'
<1>1. IInv => IsRoot
  BY DEF IInv, IsRoot
<1> QED
  BY <1>1, StepCall, StepConducts, StepWriting, StepDelivered DEF Delivery

(* After a write_dynamicdata that returned, the DDS_DynamicData holds      *)
(* every member, element and selected case of what the object held then,   *)
(* until it is written again: whatever it held before, however the types   *)
(* are nested, and whatever is read from it or done with the object since. *)
THEOREM WritesDeliver == Spec => []Delivered
<1>1. Init => IInv /\ Typing /\ Delivery
  BY InitInvariant, InitTyping, InitDelivery
<1>2. IInv /\ Typing /\ Delivery /\ [Next]_vars => (IInv /\ Typing /\ Delivery)'
  BY StepInvariant, StepTyping, StepDelivery
<1>3. IInv /\ Typing /\ Delivery => Delivered
  BY DEF Delivery
<1> QED
  BY <1>1, <1>2, <1>3, PTL DEF Spec

-----------------------------------------------------------------------------
(* What reading changes in an object.                                      *)

(* Of two objects, w differs from s only in what is at o; a case pointer   *)
(* at o itself stays.                                                      *)
DiffersIn(s, w, o) ==
  /\ \A p \in Paths : ~IsAt(p, o) => Alike(s, w, p)
  /\ \A q \in Paths :
       ~IsIn(q, o) => (q \in w.caseptr_tuple_ <=> q \in s.caseptr_tuple_)
  /\ s.mixed => w.mixed

LEMMA DiffersTwice ==
  ASSUME NEW s, NEW w, NEW x, NEW o, DiffersIn(s, w, o), DiffersIn(w, x, o)
  PROVE  DiffersIn(s, x, o)
BY DEF DiffersIn, Alike

LEMMA DiffersNowhere ==
  ASSUME NEW s, NEW o
  PROVE  DiffersIn(s, s, o)
BY DEF DiffersIn, Alike

LEMMA ResizedFields ==
  ASSUME NEW s, Shape(s), NEW p \in Paths, NEW n \in Nat
  PROVE  /\ DiffersIn(s, Resized(s, p, n), p)
         /\ At(Resized(s, p, n).value, p) = n
<1> DEFINE gone == {q \in Held(s) : IsIn(q, p) /\ q[Len(p) + 1] > n}
           w == Without(s, gone)
           v == IF n = 0 THEN Only(w.value, DOMAIN w.value \ {p})
                ELSE Put(w.value, p, n)
           x == Resized(s, p, n)
<1>1. Shape(w) /\ Lost(s, w, gone)
  BY WithoutLost
<1>2. x = [w EXCEPT !.value = v]
  BY DEF Resized
<1>3. \A q : q \in gone => IsIn(q, p) /\ IsAt(q, p)
  BY DEF IsIn
<1> HIDE DEF gone
<1>4. ASSUME NEW q
      PROVE  At(v, q) = IF q = p THEN n ELSE At(w.value, q)
  <2> HIDE DEF w
  <2> QED
    BY DEF At, Put, Only
<1> HIDE DEF w, v
<1>5. SameFields(w, x) /\ x.value = v
  BY <1>1, <1>2 DEF Shape, GoodObject, ObjectFields, SameFields
<1> HIDE DEF x
<1>6. ASSUME NEW q \in Paths, ~IsAt(q, p)
      PROVE  Alike(s, x, q)
  <2>1. q # p
    BY <1>6, IsAtSame
  <2>2. At(x.value, q) = At(w.value, q)
    BY <1>4, <1>5, <2>1
  <2>3. Alike(s, w, q)
    BY <1>1, <1>3, <1>6 DEF Lost
  <2> QED
    BY <1>5, <2>2, <2>3 DEF Alike, SameFields, ActiveIndex
<1>7. x.caseptr_tuple_ = s.caseptr_tuple_ \ gone /\ x.mixed = s.mixed
  BY <1>1, <1>5 DEF Lost, SameFields
<1>8. At(x.value, p) = n
  BY <1>4, <1>5
<1> QED
  BY <1>3, <1>6, <1>7, <1>8 DEF DiffersIn, x

LEMMA WithElementsFields ==
  ASSUME NEW s, Shape(s), Current.o \in Paths, NEW n \in Nat
  PROVE  /\ DiffersIn(s, WithElements(s, n), Current.o)
         /\ At(WithElements(s, n).value, Current.o) = At(s.value, Current.o)
         /\ \A k \in 1..n :
              At(WithElements(s, n).value, Append(Current.o, k))
                = At(instance, Append(Current.i, k))
<1> DEFINE o == Current.o
           i == Current.i
           kept == {q \in DOMAIN s.value : ~IsIn(q, o) \/ q[Len(o) + 1] > n}
           elements == {Append(o, k) : k \in
                          {k \in 1..n : At(instance, Append(i, k)) # 0}}
           v == [q \in kept \cup elements |->
                   IF q \in elements THEN instance[Append(i, q[Len(q)])]
                   ELSE s.value[q]]
           x == WithElements(s, n)
<1>1. x = [s EXCEPT !.value = v]
  BY DEF WithElements
<1>2. o \in Paths /\ IsSeq(o) /\ Len(o) \in Nat
  BY PathFacts
<1>3. \A k \in 1..n : Append(o, k) \in Paths /\ IsIn(Append(o, k), o)
  BY <1>2, AppendPath, AppendIsIn
<1>4. ASSUME NEW q, ~IsIn(q, o)
      PROVE  At(v, q) = At(s.value, q)
  <2>1. q \notin elements
    BY <1>3, <1>4
  <2> HIDE DEF elements
  <2> QED
    BY <1>4, <2>1 DEF At
<1>5. ASSUME NEW k \in 1..n
      PROVE  At(v, Append(o, k)) = At(instance, Append(i, k))
  <2> DEFINE q == Append(o, k)
  <2>1. q[Len(q)] = k /\ q[Len(o) + 1] = k
    BY <1>2, AppendFacts
  <2>2. CASE q \in elements
    <3>1. PICK j \in 1..n : q = Append(o, j) /\ At(instance, Append(i, j)) # 0
      BY <2>2
    <3>2. j = k
      BY <1>2, <2>1, <3>1, AppendFacts
    <3>3. At(v, q) = instance[Append(i, q[Len(q)])]
      BY <2>2 DEF At
    <3> HIDE DEF q
    <3>4. At(v, q) = At(instance, Append(i, k))
      BY <2>1, <3>1, <3>2, <3>3 DEF At
    <3> QED
      BY <3>4 DEF q
  <2>3. CASE q \notin elements
    <3>1. At(instance, Append(i, k)) = 0
      BY <2>3
    <3>2. q \notin kept
      <4>1. IsIn(q, o) /\ ~(k > n)
        BY <1>3
      <4> HIDE DEF q
      <4> QED
        BY <2>1, <4>1
    <3>3. At(v, q) = 0
      <4> HIDE DEF q, kept, elements
      <4> QED
        BY <2>3, <3>2 DEF At
    <3> QED
      BY <3>1, <3>3
  <2> QED
    BY <2>2, <2>3
<1> HIDE DEF v
<1>6. SameFields(s, x) /\ x.value = v
  BY <1>1 DEF Shape, GoodObject, ObjectFields, SameFields
<1> HIDE DEF x
<1>7. DiffersIn(s, x, o)
  BY <1>4, <1>6 DEF DiffersIn, SameFields, Alike, ActiveIndex, IsIn
<1>8. ~IsIn(o, o)
  BY DEF IsIn
<1>9. At(x.value, o) = At(s.value, o)
  BY <1>4, <1>6, <1>8
<1> QED
  BY <1>5, <1>6, <1>7, <1>9 DEF x

LEMMA WithVariantFields ==
  ASSUME NEW s, NEW r, ObjectOK(s, r), NEW t, NEW o, Placed(r, t, o),
         Kind[t] = "union", NEW c \in 1..NCases(t)
  PROVE  LET x == WithVariant(s, t, o, c)
         IN /\ DiffersIn(s, x, o)
            /\ Which(x, o) = c
            /\ ~x.mixed => \A d \in 1..NCases(t) : ~HasPointer(x, t, o, d)
<1> DEFINE old == {q \in Held(s) : IsIn(q, o) /\ q[Len(o) + 1] <= NCases(t)}
           w == Without(s, old)
           y == [w EXCEPT !.value = Put(w.value, o, c),
                          !.meant = Put(w.meant, o, c), !.fresh = FALSE]
           x == WithVariant(s, t, o, c)
<1>1. Shape(w) /\ Lost(s, w, old)
  BY WithoutLost DEF ObjectOK
<1>2. x = Noted(y, t, o)
  BY DEF WithVariant
<1>3. \A q : q \in old => IsIn(q, o) /\ IsAt(q, o)
  BY DEF IsIn
<1> HIDE DEF old, w
<1>5. /\ DOMAIN y = DOMAIN w
      /\ y.value = Put(w.value, o, c)
      /\ y.meant = Put(w.meant, o, c)
      /\ y.active_index_ = w.active_index_
      /\ y.caseptr_tuple_ = w.caseptr_tuple_
      /\ y.mixed = w.mixed
      /\ y.fresh = FALSE
  BY <1>1 DEF Shape, GoodObject, ObjectFields
<1> HIDE DEF y
<1>6. o \in Paths /\ c \in Nat /\ c # 0
  BY DEF Placed
<1>7. Shape(y)
  <2>1. GoodObject(y)
    BY <1>1, <1>5, <1>6, PutNumber, SameValueIsGood DEF Shape, GoodObject
  <2>2. DOMAIN y.value \subseteq Paths /\ DOMAIN y.meant \subseteq Paths
    BY <1>1, <1>5, <1>6 DEF Put, Shape
  <2> QED
    BY <1>1, <1>5, <2>1, <2>2 DEF Shape
<1>8. /\ Shape(x)
      /\ x.value = y.value
      /\ x.active_index_ = y.active_index_
      /\ x.meant = y.meant
      /\ x.caseptr_tuple_ = y.caseptr_tuple_
      /\ y.mixed => x.mixed
      /\ ~x.mixed /\ Which(x, o) # 0 =>
           \A d \in 1..NCases(t) : ~HasPointer(x, t, o, d)
  BY <1>2, <1>7, NotedFields
<1> HIDE DEF x
<1>9. Which(x, o) = c
  BY <1>5, <1>8 DEF At, Put, Which
<1>10. ASSUME NEW p \in Paths, ~IsAt(p, o)
       PROVE  Alike(s, x, p)
  <2>1. p # o
    BY <1>6, <1>10, IsAtSame
  <2>2. At(x.value, p) = At(w.value, p) /\ At(x.meant, p) = At(w.meant, p)
    BY <1>5, <1>8, <2>1 DEF At, Put
  <2>3. Alike(s, w, p)
    BY <1>1, <1>3, <1>10 DEF Lost
  <2> QED
    BY <1>5, <1>8, <2>2, <2>3 DEF Alike, ActiveIndex
<1>11. x.caseptr_tuple_ = s.caseptr_tuple_ \ old /\ (s.mixed => x.mixed)
  BY <1>1, <1>5, <1>8 DEF Lost
<1>12. DiffersIn(s, x, o)
  BY <1>3, <1>10, <1>11 DEF DiffersIn
<1> QED
  BY <1>6, <1>8, <1>9, <1>12 DEF x

LEMMA ActivatedFields ==
  ASSUME NEW s, Shape(s), NEW o \in Paths, NEW c \in Nat
  PROVE  LET x == Activated(s, o, c)
         IN /\ x.value = s.value
            /\ x.caseptr_tuple_ = s.caseptr_tuple_
            /\ x.mixed = s.mixed
            /\ ActiveIndex(x, o) = c - 1
            /\ \A p : p # o => Alike(s, x, p)
<1> DEFINE w == SetActiveIndex(s, o, c - 1)
           x == Activated(s, o, c)
<1>1. /\ Shape(w)
      /\ w.value = s.value
      /\ w.meant = s.meant
      /\ w.caseptr_tuple_ = s.caseptr_tuple_
      /\ w.mixed = s.mixed
      /\ ActiveIndex(w, o) = c - 1
      /\ \A p : p # o => ActiveIndex(w, p) = ActiveIndex(s, p)
  BY SetActiveIndexFields
<1>2. x = [w EXCEPT !.meant = Put(w.meant, o, c)]
  BY DEF Activated
<1> HIDE DEF w
<1>3. /\ x.value = w.value
      /\ x.active_index_ = w.active_index_
      /\ x.meant = Put(w.meant, o, c)
      /\ x.caseptr_tuple_ = w.caseptr_tuple_
      /\ x.mixed = w.mixed
  BY <1>1, <1>2 DEF Shape, GoodObject, ObjectFields
<1> HIDE DEF x
<1>4. ASSUME NEW p, p # o
      PROVE  At(x.meant, p) = At(w.meant, p)
  BY <1>3, <1>4 DEF At, Put
<1>5. \A p : ActiveIndex(x, p) = ActiveIndex(w, p)
  BY <1>3 DEF ActiveIndex
<1> QED
  BY <1>1, <1>3, <1>4, <1>5 DEF Alike, x

-----------------------------------------------------------------------------
(* What is read into an object s.                                          *)

(* The case that is read into the union x.                                 *)
CaseIn(x) == CaseRead([type |-> x.type, i |-> x.at])

ReadsPart(s, x, k) ==
  /\ Kind[x.type] \in {"sequence", "vector", "range"} =>
       k \in 1..At(instance, x.at)
  /\ Kind[x.type] = "array" => k \in 1..ArrayLen
  /\ Kind[x.type] = "optional" => x.at \in DOMAIN instance
  /\ Kind[x.type] = "union" =>
       /\ CaseIn(x) \in 1..NCases(x.type)
       /\ Append(x.path, k) = DataOf(s, x.type, x.path, CaseIn(x))

PartsRead(s) ==
  {e \in Spots \X Nat : HasPart(e[1], e[2]) /\ ReadsPart(s, e[1], e[2])}

SpotsRead(s) == Reached(root, PartsRead(s))

LEMMA PartRead ==
  ASSUME NEW s, NEW x \in Spots, NEW k
  PROVE  <<x, k>> \in PartsRead(s) <=> HasPart(x, k) /\ ReadsPart(s, x, k)
BY DEF PartsRead, HasPart

LEMMA ReadGuide ==
  ASSUME NEW s
  PROVE  IsGuide(PartsRead(s))
<1>1. ASSUME NEW x, NEW k, <<x, k>> \in PartsRead(s)
      PROVE  x \in Spots /\ HasPart(x, k) /\ k \in Nat /\ ReadsPart(s, x, k)
  BY <1>1 DEF PartsRead
<1>2. ASSUME NEW x, NEW j, NEW k, Kind[x.type] = "union",
             <<x, j>> \in PartsRead(s), <<x, k>> \in PartsRead(s)
      PROVE  j = k
  <2>1. Append(x.path, j) = Append(x.path, k)
    BY <1>1, <1>2 DEF ReadsPart
  <2>2. x.path \in Paths /\ j \in Nat /\ k \in Nat
    BY <1>1, <1>2, SpotFacts
  <2> QED
    BY <2>1, <2>2, AppendSame
<1> QED
  BY <1>1, <1>2 DEF IsGuide

LEMMA ReadSpot ==
  ASSUME NEW s, NEW x \in SpotsRead(s)
  PROVE  /\ x \in Spots
         /\ x.type \in Types
         /\ x.path \in Paths
         /\ x.place \in Paths
         /\ x.at \in Paths
         /\ x.base \in BOOLEAN
         /\ x.case \in BOOLEAN
BY ReachedIsSpot, SpotFacts DEF SpotsRead

LEMMA PartOfRead ==
  ASSUME NEW s, NEW x \in SpotsRead(s), NEW k, <<x, k>> \in PartsRead(s)
  PROVE  /\ PartSpot(x, k) \in SpotsRead(s)
         /\ k \in Nat
         /\ HasPart(x, k)
         /\ ReadsPart(s, x, k)
         /\ PartSpot(x, k).path = Append(x.path, k)
<1>1. PartSpot(x, k) \in SpotsRead(s)
  BY ReadGuide, PartIsReached DEF SpotsRead
<1> QED
  BY <1>1, ReadSpot, PartRead DEF HasPart, PartSpot

LEMMA PartsInsideRead ==
  ASSUME root \in Types, NEW s, NEW x \in SpotsRead(s),
         NEW y \in SpotsRead(s), IsAt(y.path, x.path)
  PROVE  \/ y = x
         \/ \E k \in Nat : /\ <<x, k>> \in PartsRead(s)
                           /\ IsAt(y.path, Append(x.path, k))
<1> DEFINE K == PartsRead(s)
<1>1. IsGuide(K) /\ x \in Reached(root, K) /\ y \in Reached(root, K)
  BY ReadGuide DEF SpotsRead
<1> HIDE DEF K
<1>2. CASE y.path = x.path
  BY <1>1, <1>2, SpotUnique
<1>3. CASE y.path # x.path
  BY <1>1, <1>3, SpotBelow DEF IsIn, K
<1> QED
  BY <1>2, <1>3

(* Two guides that agree on what is not at o.                              *)
LEMMA ReachedOutside ==
  ASSUME NEW r \in Types, NEW K, IsGuide(K), NEW L, IsGuide(L), NEW o \in Paths,
         \A x \in Spots : \A k :
           ~IsAt(x.path, o) /\ <<x, k>> \in K => <<x, k>> \in L,
         NEW y \in Reached(r, K), ~IsIn(y.path, o)
  PROVE  y \in Reached(r, L)
<1> DEFINE S == {z \in Spots : IsIn(z.path, o) \/ z \in Reached(r, L)}
<1>1. TopSpot(r) \in S
  BY TopIsReached, ReachedIsSpot
<1>2. ASSUME NEW x \in Reached(r, K), x \in S, NEW k, <<x, k>> \in K
      PROVE  PartSpot(x, k) \in S
  <2> DEFINE z == PartSpot(x, k)
  <2>a. /\ x \in Spots
        /\ k \in Nat
        /\ x.path \in Paths
        /\ PartSpot(x, k) \in Spots
        /\ PartSpot(x, k).path = Append(x.path, k)
        /\ Append(x.path, k) \in Paths
        /\ IsAt(Append(x.path, k), x.path)
        /\ Append(x.path, k) # x.path
    <3> HIDE DEF S, z
    <3> QED
      BY <1>2, PartPaths
  <2>1. /\ x \in Spots
        /\ k \in Nat
        /\ x.path \in Paths
        /\ z \in Spots
        /\ z.path = Append(x.path, k)
        /\ IsIn(z.path, x.path)
        /\ z.path \in Paths
    BY <2>a DEF IsIn
  <2> HIDE DEF z
  <2>2. CASE IsAt(x.path, o)
    <3>1. IsIn(z.path, o)
      BY <2>1, <2>2, IsInPart
    <3> QED
      BY <2>1, <3>1 DEF z
  <2>3. CASE ~IsAt(x.path, o)
    <3>1. x \in Reached(r, L)
      BY <1>2, <2>3 DEF IsIn
    <3>2. <<x, k>> \in L
      BY <1>2, <2>1, <2>3
    <3>3. z \in Reached(r, L)
      BY <3>1, <3>2, PartIsReached DEF z
    <3> QED
      BY <2>1, <3>3 DEF z
  <2> QED
    BY <2>2, <2>3
<1>3. Reached(r, K) \subseteq S
  <2> HIDE DEF S
  <2> QED
    BY <1>1, <1>2, ReachedInduction
<1> QED
  BY <1>3

(* A case pointer not strictly in o is that of a union not at o, and the   *)
(* other way round.                                                        *)
LEMMA PointerOutside ==
  ASSUME NEW p \in Paths, NEW o \in Paths, ~IsAt(p, o), NEW k \in Nat
  PROVE  ~IsIn(Append(p, k), o) /\ Append(p, k) \in Paths
<1>1. Append(p, k) \in Paths
  BY AppendPath
<1>2. ASSUME IsAt(Append(p, k), o), Append(p, k) # o
      PROVE  FALSE
  BY <1>2, AppendBelow
<1> QED
  BY <1>1, <1>2 DEF IsIn

LEMMA DataOutside ==
  ASSUME NEW s, NEW w, NEW o \in Paths, DiffersIn(s, w, o),
         NEW t \in Types, Kind[t] = "union", NEW p \in Paths, ~IsAt(p, o),
         NEW c \in 1..NCases(t)
  PROVE  /\ HasPointer(w, t, p, c) <=> HasPointer(s, t, p, c)
         /\ DataOf(w, t, p, c) = DataOf(s, t, p, c)
<1>1. NCases(t) + c \in Nat
  BY CaseFacts
<1>2. ~IsIn(Pointee(t, p, c), o) /\ Pointee(t, p, c) \in Paths
  BY <1>1, PointerOutside DEF Pointee
<1> QED
  BY <1>2 DEF DiffersIn, HasPointer, DataOf

(* What is read outside of o stays when the object changes in o only.      *)
LEMMA ReadOutside ==
  ASSUME root \in Types, NEW s, NEW w, NEW o \in Paths, DiffersIn(s, w, o),
         NEW y, ~IsIn(y.path, o)
  PROVE  y \in SpotsRead(s) <=> y \in SpotsRead(w)
<1>1. IsGuide(PartsRead(s)) /\ IsGuide(PartsRead(w))
  BY ReadGuide
<1>2. ASSUME NEW x \in Spots, NEW k, ~IsAt(x.path, o)
      PROVE  <<x, k>> \in PartsRead(s) <=> <<x, k>> \in PartsRead(w)
  <2>1. x.type \in Types /\ x.path \in Paths
    BY SpotFacts
  <2>2. ReadsPart(s, x, k) <=> ReadsPart(w, x, k)
    BY <1>2, <2>1, DataOutside DEF ReadsPart
  <2> QED
    BY <2>2, PartRead
<1> QED
  BY <1>1, <1>2, ReachedOutside DEF SpotsRead

-----------------------------------------------------------------------------
(* Reads.                                                                  *)

(* What there must be in s for x to have been read into it.                *)
Got(s, x) ==
  LET v == At(s.value, x.path)
      n == At(instance, x.at)
  IN /\ Kind[x.type] \in Leaves \cup {"sequence", "vector"} => v = n
     /\ Kind[x.type] = "range" => v >= n
     /\ Kind[x.type] = "optional" => (x.at \in DOMAIN instance => v = 1)
     /\ Kind[x.type] = "smart_ptr" => v = 1
     /\ Kind[x.type] = "union" =>
          /\ CaseIn(x) \in 1..NCases(x.type)
          /\ CaseHeld(s, x.type, x.path) = CaseIn(x)

(* The overload of x is e.                                                 *)
MatchesGet(x, e) ==
  /\ x.path = e.o
  /\ x.type = e.type
  /\ \/ e.op = "get" /\ ~x.base /\ x.at = e.i
     \/ e.op = "get_base" /\ x.base /\ x.at = e.i
     \/ e.op = "get_union" /\ x.at = e.i /\ Kind[x.type] = "union"
     \/ /\ e.op = "activate"
        /\ Kind[x.type] = "union"
        /\ CaseIn(x) \in 1..NCases(x.type)
        /\ e.i = Append(x.at, CaseIn(x))

(* It will read y.                                                         *)
Touches(e, y) ==
  \/ e.op \in {"get", "get_base", "get_union"} /\ IsAt(y.path, e.o)
  \/ e.op = "activate" /\ y.path = e.o

Guided(s, steps) ==
  \A k \in 1..Len(steps) :
    steps[k].op # "unbind" => \E x \in SpotsRead(s) : MatchesGet(x, steps[k])

WillTouch(steps, y) == \E k \in 1..Len(steps) : Touches(steps[k], y)

AllGot(s, steps) == \A y \in SpotsRead(s) : Got(s, y) \/ WillTouch(steps, y)

(* No step is for what is in the place of an earlier one.                  *)
Apart(steps) ==
  \A j, k \in 1..Len(steps) :
    /\ j < k
    /\ steps[j].op # "unbind"
    /\ steps[k].op # "unbind"
    => ~IsAt(steps[k].o, steps[j].o)

Reading ==
  /\ call.what = "read" /\ call.ended = "running" =>
       /\ Apart(todo)
       /\ ~object.mixed => Guided(object, todo) /\ AllGot(object, todo)
  /\ call.what = "read" /\ call.ended = "returned" /\ ~object.mixed =>
       \A y \in SpotsRead(object) : Got(object, y)

(* What is read depends on the instance, which reading does not change.    *)
LEMMA SameRead ==
  ASSUME UNCHANGED <<root, instance>>
  PROVE  /\ SpotsRead(object)' = SpotsRead(object')
         /\ \A y : Got(object, y)' <=> Got(object', y)
         /\ \A y, e : MatchesGet(y, e)' <=> MatchesGet(y, e)
<1>1. \A x : CaseIn(x)' = CaseIn(x)
  BY DEF CaseIn, CaseRead, Selected, DiscriminatorValue, MemberId
<1>2. PartsRead(object)' = PartsRead(object')
  BY <1>1 DEF PartsRead, ReadsPart
<1>3. SpotsRead(object)' = SpotsRead(object')
  BY <1>2 DEF SpotsRead
<1>4. \A y : Got(object, y)' <=> Got(object', y)
  BY <1>1 DEF Got
<1>5. \A y, e : MatchesGet(y, e)' <=> MatchesGet(y, e)
  BY <1>1 DEF MatchesGet
<1> QED
  BY <1>3, <1>4, <1>5

LEMMA NewReading ==
  ASSUME UNCHANGED <<root, instance>>,
         call'.what = "read", call'.ended = "running", Apart(todo'),
         ~object'.mixed => Guided(object', todo') /\ AllGot(object', todo')
  PROVE  Reading'
<1>1. /\ SpotsRead(object)' = SpotsRead(object')
      /\ \A y : Got(object, y)' <=> Got(object', y)
      /\ \A y, e : MatchesGet(y, e)' <=> MatchesGet(y, e)
  BY SameRead
<1>2. Apart(todo)'
  BY DEF Apart
<1>3. ASSUME ~object'.mixed
      PROVE  Guided(object, todo)'
  BY <1>1, <1>3 DEF Guided
<1>4. ASSUME ~object'.mixed
      PROVE  AllGot(object, todo)'
  BY <1>1, <1>4 DEF AllGot, WillTouch
<1> QED
  BY <1>2, <1>3, <1>4 DEF Reading

(* The next step of a read is replaced by steps for what is in its place.  *)
LEMMA ContinueReading ==
  ASSUME IsSeq(todo), Reading, todo # <<>>,
         call.what = "read", call.ended = "running",
         NEW steps, IsSeq(steps), Continue(steps), Apart(steps),
         UNCHANGED <<root, instance, call>>,
         \A k \in 1..Len(steps) :
           steps[k].op # "unbind" =>
             Current.op # "unbind" /\ IsAt(steps[k].o, Current.o)
               /\ steps[k].o \in Paths,
         Current.o \in Paths,
         \A k \in 1..Len(todo) : todo[k].o \in Paths,
         object.mixed => object'.mixed,
         ~object'.mixed =>
           /\ Guided(object', steps)
           /\ \A z \in SpotsRead(object) :
                (Current.op # "unbind" => ~IsAt(z.path, Current.o))
                  => z \in SpotsRead(object')
           /\ \A y \in SpotsRead(object') :
                \/ Got(object', y)
                \/ WillTouch(steps, y)
                \/ /\ y \in SpotsRead(object)
                   /\ ~Touches(Current, y)
                   /\ Got(object, y) => Got(object', y)
  PROVE  Reading'
<1>1. /\ Len(steps) \in Nat
      /\ Len(todo) \in Nat
      /\ Current = todo[1]
      /\ 1 \in 1..Len(todo)
      /\ \A k \in 1..Len(todo') :
           \/ k \in 1..Len(steps) /\ todo'[k] = steps[k]
           \/ \E j \in 2..Len(todo) :
                k = Len(steps) + (j - 1) /\ todo'[k] = todo[j]
      /\ \A k \in 1..Len(steps) : k \in 1..Len(todo') /\ todo'[k] = steps[k]
      /\ \A j \in 2..Len(todo) : \E k \in 1..Len(todo') : todo'[k] = todo[j]
  BY ContinuedSteps
<1>2. \A j \in 2..Len(todo) : j \in 1..Len(todo) /\ 1 < j
  BY <1>1
<1>3. Apart(todo')
  <2> SUFFICES ASSUME NEW a \in 1..Len(todo'), NEW b \in 1..Len(todo'), a < b,
                      todo'[a].op # "unbind", todo'[b].op # "unbind",
                      IsAt(todo'[b].o, todo'[a].o)
               PROVE  FALSE
    BY DEF Apart
  <2>1. Apart(todo)
    BY DEF Reading
  <2>2. CASE b \in 1..Len(steps) /\ todo'[b] = steps[b]
    <3>1. a \in 1..Len(steps) /\ todo'[a] = steps[a]
      BY <1>1, <2>2
    <3> QED
      BY <2>2, <3>1 DEF Apart
  <2>3. ASSUME NEW k \in 2..Len(todo), b = Len(steps) + (k - 1),
               todo'[b] = todo[k]
        PROVE  FALSE
    <3>1. CASE a \in 1..Len(steps) /\ todo'[a] = steps[a]
      <4>1. /\ IsAt(steps[a].o, Current.o)
            /\ Current.op # "unbind"
            /\ steps[a].o \in Paths
        BY <3>1
      <4>2. IsAt(todo[k].o, Current.o)
        BY <1>2, <2>3, <3>1, <4>1, IsAtTransitive
      <4> QED
        BY <1>1, <1>2, <2>1, <2>3, <4>1, <4>2 DEF Apart
    <3>2. ASSUME NEW j \in 2..Len(todo), a = Len(steps) + (j - 1),
                 todo'[a] = todo[j]
          PROVE  FALSE
      <4>1. j < k
        BY <1>1, <2>3, <3>2
      <4> QED
        BY <1>2, <2>1, <2>3, <3>2, <4>1 DEF Apart
    <3> QED
      BY <1>1, <3>1, <3>2
  <2> QED
    BY <1>1, <2>2, <2>3
<1>4. ASSUME ~object'.mixed
      PROVE  Guided(object', todo')
  <2>1. Guided(object, todo)
    BY <1>4 DEF Reading
  <2>2. Apart(todo)
    BY DEF Reading
  <2> SUFFICES ASSUME NEW b \in 1..Len(todo'), todo'[b].op # "unbind"
               PROVE  \E x \in SpotsRead(object') : MatchesGet(x, todo'[b])
    BY DEF Guided
  <2>3. CASE b \in 1..Len(steps) /\ todo'[b] = steps[b]
    BY <1>4, <2>3 DEF Guided
  <2>4. ASSUME NEW j \in 2..Len(todo), todo'[b] = todo[j]
        PROVE  \E x \in SpotsRead(object') : MatchesGet(x, todo'[b])
    <3>1. PICK z \in SpotsRead(object) : MatchesGet(z, todo[j])
      BY <1>2, <2>1, <2>4 DEF Guided
    <3>2. z.path = todo[j].o
      BY <3>1 DEF MatchesGet
    <3>3. Current.op # "unbind" => ~IsAt(z.path, Current.o)
      BY <1>1, <1>2, <2>2, <2>4, <3>2 DEF Apart
    <3>4. z \in SpotsRead(object')
      BY <1>4, <3>3
    <3> QED
      BY <2>4, <3>1, <3>4
  <2> QED
    BY <1>1, <2>3, <2>4
<1>5. ASSUME ~object'.mixed
      PROVE  AllGot(object', todo')
  <2> SUFFICES ASSUME NEW y \in SpotsRead(object'), ~Got(object', y)
               PROVE  WillTouch(todo', y)
    BY DEF AllGot
  <2>1. CASE WillTouch(steps, y)
    BY <1>1, <2>1 DEF WillTouch
  <2>2. CASE /\ y \in SpotsRead(object)
             /\ ~Touches(Current, y)
             /\ Got(object, y) => Got(object', y)
    <3>1. WillTouch(todo, y)
      BY <1>5, <2>2 DEF Reading, AllGot
    <3>2. PICK j \in 1..Len(todo) : Touches(todo[j], y)
      BY <3>1 DEF WillTouch
    <3>3. j \in 2..Len(todo)
      BY <1>1, <2>2, <3>2
    <3> QED
      BY <1>1, <3>2, <3>3 DEF WillTouch
  <2> QED
    BY <1>5, <2>1, <2>2
<1>6. call'.what = "read" /\ call'.ended = "running"
  OBVIOUS
<1> QED
  BY <1>3, <1>4, <1>5, <1>6, NewReading

InRead ==
  /\ IsRoot
  /\ Typing
  /\ Reading
  /\ todo # <<>>
  /\ call.what = "read"
  /\ call.ended = "running"

StepsAt(steps, o) ==
  \A k \in 1..Len(steps) :
    steps[k].op # "unbind" => IsAt(steps[k].o, o) /\ steps[k].o \in Paths

(* steps read into s what is at o, but for what is there already.          *)
ReadsAt(s, steps, o) ==
  /\ Guided(s, steps)
  /\ \A y \in SpotsRead(s) :
       IsAt(y.path, o) => Got(s, y) \/ WillTouch(steps, y)

LEMMA StackPaths ==
  ASSUME Typing, todo # <<>>
  PROVE  /\ IsSeq(todo)
         /\ Current.o \in Paths
         /\ Current.i \in Paths
         /\ Current.type \in Types
         /\ \A k \in 1..Len(todo) : todo[k].o \in Paths
<1>1. todo \in Seq(Steps)
  BY DEF Typing, StepsOK
<1>2. Current \in Steps /\ IsSeq(todo)
  BY FirstStep
<1>3. \A k \in 1..Len(todo) : todo[k] \in Steps
  BY <1>1
<1> QED
  BY <1>2, <1>3 DEF Steps

(* What is read elsewhere is read as before.                               *)
LEMMA GotOutside ==
  ASSUME NEW s, NEW w, NEW o \in Paths, DiffersIn(s, w, o), root \in Types,
         NEW y \in SpotsRead(s), ~IsAt(y.path, o)
  PROVE  Got(s, y) <=> Got(w, y)
<1>1. y.path \in Paths /\ y.type \in Types
  BY ReadSpot
<1>2. Alike(s, w, y.path)
  BY <1>1 DEF DiffersIn
<1>3. At(w.value, y.path) = At(s.value, y.path)
  BY <1>2 DEF Alike
<1>4. ASSUME Kind[y.type] = "union"
      PROVE  CaseHeld(w, y.type, y.path) = CaseHeld(s, y.type, y.path)
  <2>1. \A c \in 1..NCases(y.type) :
          HasPointer(w, y.type, y.path, c) <=> HasPointer(s, y.type, y.path, c)
    BY <1>1, <1>4, DataOutside
  <2>2. ActiveIndex(w, y.path) = ActiveIndex(s, y.path)
    BY <1>2 DEF Alike
  <2>3. {c \in 1..NCases(y.type) : /\ c - 1 = ActiveIndex(w, y.path)
                                   /\ HasPointer(w, y.type, y.path, c)}
          = {c \in 1..NCases(y.type) : /\ c - 1 = ActiveIndex(s, y.path)
                                       /\ HasPointer(s, y.type, y.path, c)}
    BY <2>1, <2>2
  <2> QED
    BY <1>3, <2>3 DEF CaseHeld, Which
<1> QED
  BY <1>3, <1>4 DEF Got

(* A step that changes the object in its place, and is replaced by steps   *)
(* for that place.                                                         *)
LEMMA PlaceReading ==
  ASSUME InRead, Current.op \in {"get", "get_base", "get_union"},
         NEW steps, IsSeq(steps), Continue(steps), Apart(steps),
         UNCHANGED <<root, instance, call>>,
         StepsAt(steps, Current.o),
         DiffersIn(object, object', Current.o),
         ~object'.mixed => ReadsAt(object', steps, Current.o)
  PROVE  Reading'
<1> DEFINE o == Current.o
<1>1. /\ root \in Types
      /\ o \in Paths
      /\ IsSeq(todo)
      /\ \A k \in 1..Len(todo) : todo[k].o \in Paths
  BY StackPaths DEF InRead, IsRoot
<1>2. object.mixed => object'.mixed
  BY DEF DiffersIn
<1>3. ASSUME ~object'.mixed
      PROVE  /\ Guided(object', steps)
             /\ \A z \in SpotsRead(object) :
                  (Current.op # "unbind" => ~IsAt(z.path, o))
                    => z \in SpotsRead(object')
             /\ \A y \in SpotsRead(object') :
                  \/ Got(object', y)
                  \/ WillTouch(steps, y)
                  \/ /\ y \in SpotsRead(object)
                     /\ ~Touches(Current, y)
                     /\ Got(object, y) => Got(object', y)
  <2>1. ReadsAt(object', steps, o)
    BY <1>3
  <2>2. ASSUME NEW z \in SpotsRead(object), ~IsAt(z.path, o)
        PROVE  z \in SpotsRead(object')
    BY <1>1, <2>2, ReadOutside DEF IsIn
  <2>3. ASSUME NEW y \in SpotsRead(object'), ~IsAt(y.path, o)
        PROVE  /\ y \in SpotsRead(object)
               /\ ~Touches(Current, y)
               /\ Got(object, y) => Got(object', y)
    <3>1. y \in SpotsRead(object)
      BY <1>1, <2>3, ReadOutside DEF IsIn
    <3>2. ~Touches(Current, y)
      BY <2>3 DEF Touches
    <3> QED
      BY <1>1, <2>3, <3>1, <3>2, GotOutside
  <2> QED
    BY <2>1, <2>2, <2>3 DEF ReadsAt
<1> QED
  BY <1>1, <1>2, <1>3, ContinueReading DEF InRead, StepsAt

(* The next step of a read is for something that is read.                  *)
LEMMA CurrentReads ==
  ASSUME InRead, ~object.mixed, Current.op # "unbind"
  PROVE  \E x \in SpotsRead(object) : MatchesGet(x, Current)
<1>1. Current = todo[1] /\ 1 \in 1..Len(todo)
  BY FirstStep DEF InRead
<1> QED
  BY <1>1 DEF InRead, Reading, Guided

-----------------------------------------------------------------------------
(* Steps that read the parts of something.                                 *)

(* Steps for all parts of x and for nothing else.                          *)
ReadsParts(s, steps, x) ==
  /\ \A j \in 1..Len(steps) :
       steps[j].op # "unbind" =>
         \E k \in Nat : /\ <<x, k>> \in PartsRead(s)
                        /\ MatchesGet(PartSpot(x, k), steps[j])
  /\ \A k \in Nat :
       <<x, k>> \in PartsRead(s) =>
         \E j \in 1..Len(steps) : /\ steps[j].op \in {"get", "get_base"}
                                  /\ steps[j].o = Append(x.path, k)

LEMMA PartsReadAt ==
  ASSUME root \in Types, NEW s, NEW steps, NEW x \in SpotsRead(s), Got(s, x),
         ReadsParts(s, steps, x)
  PROVE  ReadsAt(s, steps, x.path)
<1>1. Guided(s, steps)
  <2> SUFFICES ASSUME NEW j \in 1..Len(steps), steps[j].op # "unbind"
               PROVE  \E z \in SpotsRead(s) : MatchesGet(z, steps[j])
    BY DEF Guided
  <2>1. PICK k \in Nat : /\ <<x, k>> \in PartsRead(s)
                         /\ MatchesGet(PartSpot(x, k), steps[j])
    BY DEF ReadsParts
  <2>2. PartSpot(x, k) \in SpotsRead(s)
    BY <2>1, PartOfRead
  <2> QED
    BY <2>1, <2>2
<1>2. ASSUME NEW y \in SpotsRead(s), IsAt(y.path, x.path), y # x
      PROVE  WillTouch(steps, y)
  <2>1. PICK k \in Nat : /\ <<x, k>> \in PartsRead(s)
                         /\ IsAt(y.path, Append(x.path, k))
    BY <1>2, PartsInsideRead
  <2>2. PICK j \in 1..Len(steps) : /\ steps[j].op \in {"get", "get_base"}
                                   /\ steps[j].o = Append(x.path, k)
    BY <2>1 DEF ReadsParts
  <2>3. Touches(steps[j], y)
    BY <2>1, <2>2 DEF Touches
  <2> QED
    BY <2>3 DEF WillTouch
<1> QED
  BY <1>1, <1>2 DEF ReadsAt

(* Steps for different parts.                                              *)
LEMMA PartsApart ==
  ASSUME NEW steps, IsSeq(steps), NEW o \in Paths,
         \A k \in 1..Len(steps) : steps[k].o = Append(o, k)
  PROVE  Apart(steps) /\ StepsAt(steps, o)
<1>1. Len(steps) \in Nat
  BY SeqFacts
<1>2. ASSUME NEW j \in 1..Len(steps), NEW k \in 1..Len(steps), j < k,
             IsAt(steps[k].o, steps[j].o)
      PROVE  FALSE
  <2>1. j \in Nat /\ k \in Nat
    BY <1>1
  <2>2. /\ Append(o, k) \in Paths
        /\ Append(o, k)[Len(o) + 1] = k
    BY <2>1, AppendLength
  <2>3. Append(o, k)[Len(o) + 1] = j
    BY <1>2, <2>1, <2>2, PartNumber
  <2> QED
    BY <1>2, <2>1, <2>2, <2>3
<1>3. StepsAt(steps, o)
  <2> SUFFICES ASSUME NEW k \in 1..Len(steps)
               PROVE  IsAt(steps[k].o, o) /\ steps[k].o \in Paths
    BY DEF StepsAt
  <2>1. k \in Nat /\ steps[k].o = Append(o, k)
    BY <1>1
  <2> QED
    BY <2>1, AppendIsIn, AppendPath
<1> QED
  BY <1>2, <1>3 DEF Apart

LEMMA ThenUnbindRead ==
  ASSUME NEW steps, IsSeq(steps), NEW u, u.op = "unbind"
  PROVE  /\ IsSeq(Append(steps, u))
         /\ Apart(steps) => Apart(Append(steps, u))
         /\ \A o : StepsAt(steps, o) => StepsAt(Append(steps, u), o)
         /\ \A s, o : ReadsAt(s, steps, o) => ReadsAt(s, Append(steps, u), o)
<1> DEFINE all == Append(steps, u)
<1>1. /\ IsSeq(all)
      /\ Len(all) = Len(steps) + 1
      /\ \A k \in 1..Len(steps) : all[k] = steps[k]
      /\ all[Len(steps) + 1] = u
      /\ Len(steps) \in Nat
  BY AppendFacts, SeqFacts
<1> HIDE DEF all
<1>2. \A k \in 1..Len(all) :
        all[k].op # "unbind" => k \in 1..Len(steps) /\ all[k] = steps[k]
  BY <1>1
<1>3. \A k \in 1..Len(steps) : k \in 1..Len(all) /\ all[k] = steps[k]
  BY <1>1
<1>4. Apart(steps) => Apart(all)
  BY <1>2 DEF Apart
<1>5. \A o : StepsAt(steps, o) => StepsAt(all, o)
  BY <1>2 DEF StepsAt
<1>6. ASSUME NEW s, NEW o, ReadsAt(s, steps, o)
      PROVE  ReadsAt(s, all, o)
  <2>1. Guided(s, all)
    BY <1>2, <1>6 DEF ReadsAt, Guided
  <2>2. \A y : WillTouch(steps, y) => WillTouch(all, y)
    BY <1>3 DEF WillTouch
  <2> QED
    BY <1>6, <2>1, <2>2 DEF ReadsAt
<1> QED
  BY <1>1, <1>4, <1>5, <1>6 DEF all

(* bind_complex_member, then steps for the parts, then unbind.             *)
LEMMA BindReading ==
  ASSUME InRead, Current.op = "get", NEW s, NEW steps, IsSeq(steps),
         Apart(steps), StepsAt(steps, Current.o), BindToGet(s, steps),
         DiffersIn(object, s, Current.o),
         ~s.mixed => ReadsAt(s, steps, Current.o)
  PROVE  Reading'
<1> DEFINE u == [Current EXCEPT !.op = "unbind"]
           all == Append(steps, u)
<1>1. /\ Continue(all)
      /\ object' = s
      /\ UNCHANGED <<root, instance, call>>
  BY DEF BindToGet, Bind
<1>2. u.op = "unbind"
  <2>1. Current \in Steps
    BY FirstStep DEF InRead
  <2> QED
    BY <2>1 DEF Steps
<1> HIDE DEF u
<1>3. /\ IsSeq(all)
      /\ Apart(all)
      /\ StepsAt(all, Current.o)
      /\ ~s.mixed => ReadsAt(s, all, Current.o)
  BY <1>2, ThenUnbindRead
<1> HIDE DEF all
<1> QED
  BY <1>1, <1>3, PlaceReading

-----------------------------------------------------------------------------
(* The overloads of get_member_value.                                      *)

LEMMA CurrentIn ==
  ASSUME InRead, Current.op # "unbind", NEW s, DiffersIn(object, s, Current.o),
         ~s.mixed
  PROVE  \E x \in SpotsRead(s) : MatchesGet(x, Current)
<1>1. ~object.mixed
  BY DEF DiffersIn
<1>2. PICK x \in SpotsRead(object) : MatchesGet(x, Current)
  BY <1>1, CurrentReads
<1>3. /\ root \in Types
      /\ Current.o \in Paths
      /\ x.path = Current.o
  BY <1>2, StackPaths DEF InRead, IsRoot, MatchesGet
<1>4. ~IsIn(x.path, Current.o)
  BY <1>3 DEF IsIn
<1>5. x \in SpotsRead(s)
  BY <1>3, <1>4, ReadOutside
<1> QED
  BY <1>2, <1>5

LEMMA GetMatches ==
  ASSUME NEW z, NEW e
  PROVE  /\ z.base = FALSE /\ e = Step("get", z.type, z.path, z.at) =>
              MatchesGet(z, e) /\ e.op \in {"get", "get_base"} /\ e.o = z.path
         /\ z.base = TRUE /\ e = Step("get_base", z.type, z.path, z.at) =>
              MatchesGet(z, e) /\ e.op \in {"get", "get_base"} /\ e.o = z.path
<1>1. ASSUME NEW op, e = Step(op, z.type, z.path, z.at)
      PROVE  /\ e.op = op
             /\ e.type = z.type
             /\ e.o = z.path
             /\ e.i = z.at
             /\ e.case = FALSE
  BY <1>1 DEF Step
<1> QED
  BY <1>1 DEF MatchesGet

LEMMA MembersAreSeq ==
  ASSUME NEW t \in Types, NEW o, NEW i
  PROVE  IsSeq(GetMembers(t, o, i))
<1>1. IsSeq(OwnMembers(t))
  BY OwnMembersFacts DEF IsSeq
<1>2. /\ DOMAIN OwnMembers(t) = 1..Len(OwnMembers(t))
      /\ Len(OwnMembers(t)) \in Nat
  BY OwnMembersFacts
<1> DEFINE shift == IF Inherits(t) THEN 1 ELSE 0
           first == IF Inherits(t)
                    THEN <<Step("get_base", Parts[t][1], Append(o, 1), i)>>
                    ELSE <<>>
           own == [k \in DOMAIN OwnMembers(t) |->
                     Step("get", OwnMembers(t)[k], Append(o, k + shift),
                          Append(i, MembersInBases[t] + k))]
<1>3. GetMembers(t, o, i) = first \o own
  BY DEF GetMembers, StepPerMember
<1>4. IsSeq(first)
  BY OneIsSeq, EmptyIsSeq
<1>5. IsSeq(own)
  <2>1. own = [k \in 1..Len(OwnMembers(t)) |-> own[k]]
    BY <1>2
  <2> HIDE DEF own
  <2> QED
    BY <1>2, <2>1, FunctionIsSeq
<1> HIDE DEF first, own
<1> QED
  BY <1>3, <1>4, <1>5, ConcatFacts

LEMMA MembersRead ==
  ASSUME NEW s, NEW x \in SpotsRead(s), Kind[x.type] \in Aggregates
  PROVE  LET steps == GetMembers(x.type, x.path, x.at)
         IN /\ ReadsParts(s, steps, x)
            /\ IsSeq(steps)
            /\ \A k \in 1..Len(steps) : steps[k].o = Append(x.path, k)
<1> DEFINE t == x.type
           steps == GetMembers(t, x.path, x.at)
<1>1. x \in Spots /\ t \in Types /\ x.path \in Paths
  BY ReadSpot
<1>2. /\ Len(steps) = Len(Parts[t])
      /\ \A k \in 1..Len(Parts[t]) :
           steps[k] = Step(IF IsBasePart(t, k) THEN "get_base" ELSE "get",
                           Parts[t][k], Append(x.path, k),
                           IF IsBasePart(t, k) THEN x.at
                           ELSE Append(x.at, IdOf(t, k)))
  BY <1>1, MemberStepsAre DEF GetMembers
<1>3. DOMAIN Parts[t] = 1..Len(Parts[t]) /\ Len(Parts[t]) \in Nat
  BY <1>1, TypesAreAdapted, LenProperties
<1>4. /\ Kind[t] \notin Leaves
      /\ Kind[t] \notin Wrappers
      /\ Kind[t] # "union"
      /\ ~IsPointer(t)
  BY DEF Aggregates, Leaves, Wrappers, IsPointer
<1>5. IsSeq(steps)
  BY <1>1, MembersAreSeq
<1> HIDE DEF steps
<1>6. ASSUME NEW k \in 1..Len(Parts[t])
      PROVE  /\ <<x, k>> \in PartsRead(s)
             /\ MatchesGet(PartSpot(x, k), steps[k])
             /\ steps[k].op \in {"get", "get_base"}
             /\ steps[k].o = Append(x.path, k)
  <2>1. <<x, k>> \in PartsRead(s)
    <3>1. HasPart(x, k)
      BY <1>3, <1>4 DEF HasPart
    <3>2. ReadsPart(s, x, k)
      BY <1>4 DEF ReadsPart, Wrappers
    <3> QED
      BY <1>1, <3>1, <3>2, PartRead
  <2>2. steps[k] = Step(IF IsBasePart(t, k) THEN "get_base" ELSE "get",
                        Parts[t][k], Append(x.path, k),
                        IF IsBasePart(t, k) THEN x.at
                        ELSE Append(x.at, IdOf(t, k)))
    BY <1>2
  <2>3. PartType(t, k) = Parts[t][k]
    BY DEF PartType
  <2> DEFINE z == PartSpot(x, k)
             i == IF IsBasePart(t, k) THEN x.at ELSE Append(x.at, IdOf(t, k))
  <2>4. /\ z.type = Parts[t][k]
        /\ z.path = Append(x.path, k)
        /\ z.at = i
        /\ IsBasePart(t, k) => z.base = TRUE
        /\ ~IsBasePart(t, k) => z.base = FALSE
    BY <1>4, <2>3, PartFields
  <2> HIDE DEF z, i
  <2>5. /\ IsBasePart(t, k) => steps[k] = Step("get_base", z.type, z.path, z.at)
        /\ ~IsBasePart(t, k) => steps[k] = Step("get", z.type, z.path, z.at)
    BY <2>2, <2>4 DEF i
  <2>6. /\ MatchesGet(z, steps[k])
        /\ steps[k].op \in {"get", "get_base"}
        /\ steps[k].o = Append(x.path, k)
    BY <2>4, <2>5, GetMatches
  <2> QED
    BY <2>1, <2>6 DEF z
<1>7. ASSUME NEW k \in Nat, <<x, k>> \in PartsRead(s)
      PROVE  k \in 1..Len(Parts[t])
  BY <1>1, <1>3, <1>7, PartRead DEF HasPart
<1>8. ASSUME NEW j \in 1..Len(steps)
      PROVE  j \in Nat /\ j \in 1..Len(Parts[t])
  BY <1>2, <1>3
<1>9. ReadsParts(s, steps, x)
  BY <1>2, <1>6, <1>7, <1>8 DEF ReadsParts
<1> QED
  BY <1>2, <1>5, <1>6, <1>9 DEF steps

(* The number of elements that are read.                                   *)
ElementsIn(x) == IF Kind[x.type] = "array" THEN ArrayLen ELSE At(instance, x.at)

LEMMA ElementsRead ==
  ASSUME NEW s, NEW x \in SpotsRead(s), Kind[x.type] \in Containers,
         NEW e, e.type = x.type, e.o = x.path, e.i = x.at,
         NEW n \in Nat, n = ElementsIn(x)
  PROVE  LET steps == StepPerElement("get", e, n)
         IN /\ ReadsParts(s, steps, x)
            /\ IsSeq(steps)
            /\ \A k \in 1..Len(steps) : steps[k].o = Append(x.path, k)
<1> DEFINE t == x.type
           steps == StepPerElement("get", e, n)
<1>1. x \in Spots /\ t \in Types
  BY ReadSpot
<1>2. /\ Len(steps) = n
      /\ \A k \in 1..n :
           steps[k] = Step("get", Parts[t][1], Append(x.path, k), Append(x.at, k))
  BY ElementStepsAre
<1>3. /\ Kind[t] \notin Leaves
      /\ Kind[t] \in Wrappers
      /\ Kind[t] \notin Aggregates
      /\ Kind[t] # "union"
      /\ Kind[t] # "derived"
      /\ Kind[t] # "optional"
      /\ ~IsPointer(t)
  BY DEF Aggregates, Leaves, Wrappers, IsPointer, Containers
<1>4. IsSeq(steps)
  <2>1. steps = [k \in 1..n |-> steps[k]]
    BY DEF StepPerElement
  <2> HIDE DEF steps
  <2> QED
    BY <2>1, FunctionIsSeq
<1> HIDE DEF steps
<1>5. ASSUME NEW k \in Nat
      PROVE  <<x, k>> \in PartsRead(s) <=> k \in 1..n
  BY <1>1, <1>3, PartRead DEF HasPart, ReadsPart, ElementsIn, Containers
<1>6. ASSUME NEW k \in 1..n
      PROVE  /\ <<x, k>> \in PartsRead(s)
             /\ MatchesGet(PartSpot(x, k), steps[k])
             /\ steps[k].op \in {"get", "get_base"}
             /\ steps[k].o = Append(x.path, k)
             /\ k \in Nat
  <2>1. <<x, k>> \in PartsRead(s)
    BY <1>5
  <2>2. steps[k] = Step("get", Parts[t][1], Append(x.path, k), Append(x.at, k))
    BY <1>2
  <2>3. /\ PartType(t, k) = Parts[t][1]
        /\ ~IsBasePart(t, k)
        /\ IdOf(t, k) = k
    BY <1>3 DEF PartType, IsBasePart, IdOf
  <2> DEFINE z == PartSpot(x, k)
  <2>4. /\ z.type = Parts[t][1]
        /\ z.path = Append(x.path, k)
        /\ z.at = Append(x.at, k)
        /\ z.base = FALSE
    <3>1. /\ z.type = PartType(t, k)
          /\ z.path = Append(x.path, k)
          /\ ~IsPointer(t) /\ ~IsBasePart(t, k) => z.at = Append(x.at, IdOf(t, k))
          /\ ~IsBasePart(t, k) => z.base = FALSE
      BY PartFields
    <3> HIDE DEF z
    <3> QED
      BY <1>3, <2>3, <3>1
  <2> HIDE DEF z
  <2>5. steps[k] = Step("get", z.type, z.path, z.at)
    BY <2>2, <2>4
  <2>6. /\ MatchesGet(z, steps[k])
        /\ steps[k].op \in {"get", "get_base"}
        /\ steps[k].o = Append(x.path, k)
    BY <2>4, <2>5, GetMatches
  <2> QED
    BY <2>1, <2>6 DEF z
<1>7. ReadsParts(s, steps, x)
  BY <1>2, <1>5, <1>6 DEF ReadsParts
<1> QED
  BY <1>2, <1>4, <1>6, <1>7 DEF steps

(* The elements of a container that are leaves.                            *)
LEMMA LeafPartRead ==
  ASSUME root \in Types, NEW s, NEW x \in SpotsRead(s),
         Kind[x.type] \in Containers, Kind[Parts[x.type][1]] \in Leaves,
         NEW k, <<x, k>> \in PartsRead(s)
  PROVE  LET z == PartSpot(x, k)
         IN /\ k \in 1..ElementsIn(x)
            /\ k \in Nat
            /\ z.path = Append(x.path, k)
            /\ z.at = Append(x.at, k)
            /\ z.type = Parts[x.type][1]
            /\ \A y \in SpotsRead(s) : IsAt(y.path, z.path) => y = z
<1> DEFINE z == PartSpot(x, k)
<1>1. /\ z \in SpotsRead(s)
      /\ x \in Spots
      /\ HasPart(x, k)
      /\ ReadsPart(s, x, k)
      /\ k \in Nat
  BY PartOfRead, ReadSpot
<1>2. /\ Kind[x.type] \notin Aggregates
      /\ Kind[x.type] # "union"
      /\ ~IsPointer(x.type)
      /\ ~IsBasePart(x.type, k)
      /\ IdOf(x.type, k) = k
  BY DEF Containers, Aggregates, IsPointer, IsBasePart, IdOf
<1>3. k \in 1..ElementsIn(x)
  BY <1>1 DEF ReadsPart, ElementsIn, Containers
<1>4. PartType(x.type, k) = Parts[x.type][1]
  BY <1>2 DEF PartType
<1>5. /\ z.path = Append(x.path, k)
      /\ z.at = Append(x.at, k)
      /\ z.type = Parts[x.type][1]
  BY <1>2, <1>4, PartFields
<1> HIDE DEF z
<1>6. ASSUME NEW y \in SpotsRead(s), IsAt(y.path, z.path), y # z
      PROVE  FALSE
  <2>1. PICK j \in Nat : <<z, j>> \in PartsRead(s)
    BY <1>1, <1>6, PartsInsideRead
  <2>2. HasPart(z, j)
    BY <1>1, <2>1, PartOfRead
  <2> QED
    BY <1>5, <2>2 DEF HasPart
<1> QED
  BY <1>1, <1>3, <1>5, <1>6 DEF z

LEMMA ReadState ==
  ASSUME InRead
  PROVE  /\ root \in Types
         /\ ObjectOK(object, root)
         /\ Shape(object)
         /\ Current.o \in Paths
         /\ Current.i \in Paths
         /\ Current.type \in Types
         /\ StepOK(Current)
         /\ Current \in Steps
         /\ Placed(root, Current.type, Current.o)
         /\ At(instance, Current.i) \in Nat
         /\ At(object.value, Current.o) \in Nat
BY StackPaths, CurrentOK, MemberNumber
   DEF InRead, IsRoot, Typing, ObjectOK, StepOK

LEMMA NoPartsRead ==
  ASSUME NEW s, NEW x, \A k \in Nat : <<x, k>> \notin PartsRead(s)
  PROVE  ReadsParts(s, <<>>, x)
BY EmptySeq DEF ReadsParts

LEMMA NoStepsApart ==
  ASSUME NEW o
  PROVE  IsSeq(<<>>) /\ Apart(<<>>) /\ StepsAt(<<>>, o)
<1>1. IsSeq(<<>>) /\ Len(<<>>) = 0
  BY EmptyIsSeq
<1> DEFINE none == <<>>
<1>2. IsSeq(none) /\ Len(none) = 0
  BY <1>1
<1> HIDE DEF none
<1>3. IsSeq(none) /\ Apart(none) /\ StepsAt(none, o)
  BY <1>2 DEF Apart, StepsAt
<1> QED
  BY <1>3 DEF none

LEMMA OneStepApart ==
  ASSUME NEW e, NEW o, IsAt(e.o, o), e.o \in Paths
  PROVE  IsSeq(<<e>>) /\ Apart(<<e>>) /\ StepsAt(<<e>>, o)
<1> DEFINE steps == <<e>>
<1>1. IsSeq(steps) /\ Len(steps) = 1 /\ steps[1] = e
  BY OneIsSeq
<1> HIDE DEF steps
<1>2. IsSeq(steps) /\ Apart(steps) /\ StepsAt(steps, o)
  BY <1>1 DEF Apart, StepsAt
<1> QED
  BY <1>2 DEF steps

(* Something is got and steps read its parts.                              *)
LEMMA PartsReading ==
  ASSUME InRead, Current.op \in {"get", "get_base"},
         NEW steps, IsSeq(steps), Continue(steps), Apart(steps),
         StepsAt(steps, Current.o), UNCHANGED <<root, instance, call>>,
         DiffersIn(object, object', Current.o),
         \A x \in SpotsRead(object') :
           MatchesGet(x, Current) /\ ~object'.mixed =>
             Got(object', x) /\ ReadsParts(object', steps, x)
  PROVE  Reading'
<1>1. ASSUME ~object'.mixed
      PROVE  ReadsAt(object', steps, Current.o)
  <2>1. PICK x \in SpotsRead(object') : MatchesGet(x, Current)
    BY <1>1, CurrentIn
  <2>2. Got(object', x) /\ ReadsParts(object', steps, x) /\ x.path = Current.o
    BY <1>1, <2>1 DEF MatchesGet
  <2> QED
    BY <2>2, PartsReadAt, ReadState
<1> QED
  BY <1>1, PlaceReading

LEMMA BindPartsReading ==
  ASSUME InRead, Current.op = "get", NEW s, NEW steps, IsSeq(steps),
         Apart(steps), StepsAt(steps, Current.o), BindToGet(s, steps),
         DiffersIn(object, s, Current.o),
         \A x \in SpotsRead(s) :
           MatchesGet(x, Current) /\ ~s.mixed =>
             Got(s, x) /\ ReadsParts(s, steps, x)
  PROVE  Reading'
<1>1. ASSUME ~s.mixed
      PROVE  ReadsAt(s, steps, Current.o)
  <2>1. PICK x \in SpotsRead(s) : MatchesGet(x, Current)
    BY <1>1, CurrentIn
  <2>2. Got(s, x) /\ ReadsParts(s, steps, x) /\ x.path = Current.o
    BY <1>1, <2>1 DEF MatchesGet
  <2> QED
    BY <2>2, PartsReadAt, ReadState
<1> QED
  BY <1>1, BindReading

LEMMA MatchesWhole ==
  ASSUME NEW x, NEW e, MatchesGet(x, e), e.op \in {"get", "get_base"}
  PROVE  /\ x.type = e.type
         /\ x.path = e.o
         /\ x.at = e.i
BY DEF MatchesGet

LEMMA LeafReading ==
  ASSUME InRead, Current.op = "get", Kind[Current.type] \in Leaves, GetLeaf
  PROVE  Reading'
<1> DEFINE v == At(instance, Current.i)
           s == Resized(object, Current.o, v)
           none == <<>>
<1>1. object' = s /\ Continue(none) /\ UNCHANGED <<root, instance, call>>
  BY DEF GetLeaf, Get
<1>2. DiffersIn(object, s, Current.o) /\ At(s.value, Current.o) = v
  BY ReadState, ResizedFields
<1> HIDE DEF s
<1>3. ASSUME NEW x \in SpotsRead(s), MatchesGet(x, Current)
      PROVE  Got(s, x) /\ ReadsParts(s, none, x)
  <2>1. x.type = Current.type /\ x.path = Current.o /\ x.at = Current.i
    BY <1>3, MatchesWhole
  <2>2. Got(s, x)
    BY <1>2, <2>1 DEF Got, Leaves
  <2>3. ASSUME NEW k \in Nat
        PROVE  <<x, k>> \notin PartsRead(s)
    BY <2>1, ReadSpot, PartRead DEF HasPart
  <2> QED
    BY <2>2, <2>3, NoPartsRead
<1>4. IsSeq(none) /\ Apart(none) /\ StepsAt(none, Current.o)
  BY NoStepsApart
<1> HIDE DEF none
<1> QED
  BY <1>1, <1>2, <1>3, <1>4, PartsReading

LEMMA MembersHere ==
  ASSUME InRead, Kind[Current.type] \in Aggregates,
         NEW s, NEW x \in SpotsRead(s), MatchesGet(x, Current),
         Current.op \in {"get", "get_base"}
  PROVE  LET steps == GetMembers(Current.type, Current.o, Current.i)
         IN /\ Got(s, x)
            /\ ReadsParts(s, steps, x)
<1>1. x.type = Current.type /\ x.path = Current.o /\ x.at = Current.i
  BY MatchesWhole
<1>2. Got(s, x)
  BY <1>1 DEF Got, Leaves, Aggregates
<1> QED
  BY <1>1, <1>2, MembersRead

LEMMA MembersHereApart ==
  ASSUME InRead, Kind[Current.type] \in Aggregates
  PROVE  LET steps == GetMembers(Current.type, Current.o, Current.i)
         IN IsSeq(steps) /\ Apart(steps) /\ StepsAt(steps, Current.o)
<1> DEFINE t == Current.type
           steps == GetMembers(t, Current.o, Current.i)
<1>1. t \in Types /\ Current.o \in Paths
  BY ReadState
<1>2. /\ Len(steps) = Len(Parts[t])
      /\ \A k \in 1..Len(Parts[t]) :
           steps[k] = Step(IF IsBasePart(t, k) THEN "get_base" ELSE "get",
                           Parts[t][k], Append(Current.o, k),
                           IF IsBasePart(t, k) THEN Current.i
                           ELSE Append(Current.i, IdOf(t, k)))
  BY <1>1, MemberStepsAre DEF GetMembers
<1>3. IsSeq(steps)
  BY <1>1, MembersAreSeq
<1> HIDE DEF steps
<1>4. ASSUME NEW k \in 1..Len(steps)
      PROVE  steps[k].o = Append(Current.o, k)
  <2>1. k \in 1..Len(Parts[t])
    BY <1>2
  <2>2. steps[k] = Step(IF IsBasePart(t, k) THEN "get_base" ELSE "get",
                        Parts[t][k], Append(Current.o, k),
                        IF IsBasePart(t, k) THEN Current.i
                        ELSE Append(Current.i, IdOf(t, k)))
    BY <1>2, <2>1
  <2> QED
    BY <2>2 DEF Step
<1>5. Apart(steps) /\ StepsAt(steps, Current.o)
  BY <1>1, <1>3, <1>4, PartsApart
<1> QED
  BY <1>3, <1>5 DEF steps

LEMMA ClassReading ==
  ASSUME InRead, GetBase \/ GetStruct \/ GetSparse
  PROVE  Reading'
<1> DEFINE steps == GetMembers(Current.type, Current.o, Current.i)
<1>1. Kind[Current.type] \in Aggregates
  BY DEF GetBase, GetStruct, GetSparse, Doing, Aggregates
<1>2. IsSeq(steps) /\ Apart(steps) /\ StepsAt(steps, Current.o)
  BY <1>1, MembersHereApart
<1>3. ASSUME NEW x \in SpotsRead(object), MatchesGet(x, Current),
             Current.op \in {"get", "get_base"}
      PROVE  Got(object, x) /\ ReadsParts(object, steps, x)
  BY <1>1, <1>3, MembersHere
<1>4. DiffersIn(object, object, Current.o)
  BY DiffersNowhere
<1>5. CASE GetBase
  <2>1. /\ Current.op = "get_base"
        /\ Continue(steps)
        /\ object' = object
        /\ UNCHANGED <<root, instance, call>>
    BY <1>5 DEF GetBase, Doing
  <2> HIDE DEF steps
  <2>2. \A x \in SpotsRead(object') :
           MatchesGet(x, Current) => Got(object', x) /\ ReadsParts(object', steps, x)
    BY <1>3, <2>1
  <2>3. DiffersIn(object, object', Current.o)
    BY <1>4, <2>1
  <2> QED
    BY <1>2, <2>1, <2>2, <2>3, PartsReading
<1>6. CASE GetStruct \/ GetSparse
  <2>1. Current.op = "get" /\ BindToGet(object, steps)
    BY <1>6 DEF GetStruct, GetSparse, Doing
  <2> HIDE DEF steps
  <2> QED
    BY <1>2, <1>3, <1>4, <2>1, BindPartsReading
<1> QED
  BY <1>5, <1>6

(* Elements that are read one by one.                                      *)
LEMMA ElementsReading ==
  ASSUME InRead, Current.op = "get", Kind[Current.type] \in Containers,
         NEW n \in Nat,
         n = IF Kind[Current.type] = "array" THEN ArrayLen
             ELSE At(instance, Current.i),
         NEW s, DiffersIn(object, s, Current.o),
         Kind[Current.type] \in {"sequence", "vector"} =>
           At(s.value, Current.o) = n,
         Kind[Current.type] = "range" => At(s.value, Current.o) >= n,
         BindToGet(s, StepPerElement("get", Current, n))
  PROVE  Reading'
<1> DEFINE steps == StepPerElement("get", Current, n)
<1>1. /\ Len(steps) = n
      /\ \A k \in 1..n :
           steps[k] = Step("get", Parts[Current.type][1], Append(Current.o, k),
                           Append(Current.i, k))
  BY ElementStepsAre
<1>2. IsSeq(steps)
  <2>1. steps = [k \in 1..n |-> steps[k]]
    BY DEF StepPerElement
  <2> HIDE DEF steps
  <2> QED
    BY <2>1, FunctionIsSeq
<1>3. ASSUME NEW x \in SpotsRead(s), MatchesGet(x, Current)
      PROVE  Got(s, x) /\ ReadsParts(s, steps, x)
  <2>1. /\ x.type = Current.type
        /\ x.path = Current.o
        /\ x.at = Current.i
        /\ n = ElementsIn(x)
    BY <1>3, MatchesWhole DEF ElementsIn
  <2>2. Got(s, x)
    BY <2>1 DEF Got, Leaves, Containers
  <2>3. ReadsParts(s, steps, x)
    BY <2>1, ElementsRead
  <2> QED
    BY <2>2, <2>3
<1>4. BindToGet(s, steps)
  OBVIOUS
<1> HIDE DEF steps
<1>5. ASSUME NEW k \in 1..Len(steps)
      PROVE  steps[k].o = Append(Current.o, k)
  <2>1. steps[k] = Step("get", Parts[Current.type][1], Append(Current.o, k),
                        Append(Current.i, k))
    BY <1>1
  <2> QED
    BY <2>1 DEF Step
<1>6. Apart(steps) /\ StepsAt(steps, Current.o)
  BY <1>2, <1>5, PartsApart, ReadState
<1> QED
  BY <1>2, <1>3, <1>4, <1>6, BindPartsReading

(* Elements that are leaves and read at once.                              *)
LEMMA AllElementsReading ==
  ASSUME InRead, Current.op = "get", Kind[Current.type] \in Containers,
         Kind[ElementType] \in Leaves, NEW n \in Nat,
         n = IF Kind[Current.type] = "array" THEN ArrayLen
             ELSE At(instance, Current.i),
         NEW s, Shape(s), DiffersIn(object, s, Current.o),
         Kind[Current.type] \in {"sequence", "vector"} =>
           At(s.value, Current.o) = n,
         Kind[Current.type] = "range" => At(s.value, Current.o) >= n,
         Get(WithElements(s, n))
  PROVE  Reading'
<1> DEFINE w == WithElements(s, n)
           none == <<>>
<1>1. object' = w /\ Continue(none) /\ UNCHANGED <<root, instance, call>>
  BY DEF Get
<1>2. /\ DiffersIn(s, w, Current.o)
      /\ At(w.value, Current.o) = At(s.value, Current.o)
      /\ \A k \in 1..n :
           At(w.value, Append(Current.o, k)) = At(instance, Append(Current.i, k))
  BY WithElementsFields, ReadState
<1> HIDE DEF w
<1>3. DiffersIn(object, w, Current.o)
  BY <1>2, DiffersTwice
<1>4. IsSeq(none) /\ Apart(none) /\ StepsAt(none, Current.o) /\ Len(none) = 0
  BY NoStepsApart, EmptyIsSeq
<1> HIDE DEF none
<1>5. ASSUME ~w.mixed
      PROVE  ReadsAt(w, none, Current.o)
  <2>1. PICK x \in SpotsRead(w) : MatchesGet(x, Current)
    BY <1>3, <1>5, CurrentIn
  <2>2. /\ x.type = Current.type
        /\ x.path = Current.o
        /\ x.at = Current.i
        /\ n = ElementsIn(x)
        /\ Kind[x.type] \in Containers
        /\ Kind[Parts[x.type][1]] \in Leaves
    BY <2>1, MatchesWhole DEF ElementsIn, ElementType
  <2>3. Got(w, x)
    BY <1>2, <2>2 DEF Got, Leaves, Containers
  <2>4. ASSUME NEW y \in SpotsRead(w), IsAt(y.path, x.path), y # x
        PROVE  Got(w, y)
    <3>1. PICK k \in Nat : /\ <<x, k>> \in PartsRead(w)
                           /\ IsAt(y.path, Append(x.path, k))
      BY <2>4, PartsInsideRead, ReadState
    <3> DEFINE z == PartSpot(x, k)
    <3>2. /\ k \in 1..n
          /\ z.path = Append(x.path, k)
          /\ z.at = Append(x.at, k)
          /\ z.type = Parts[x.type][1]
          /\ \A u \in SpotsRead(w) : IsAt(u.path, z.path) => u = z
      BY <2>2, <3>1, LeafPartRead, ReadState
    <3> HIDE DEF z
    <3>3. y = z
      BY <3>1, <3>2
    <3>4. At(w.value, z.path) = At(instance, z.at)
      BY <1>2, <2>2, <3>2
    <3> QED
      BY <2>2, <3>2, <3>3, <3>4 DEF Got, Leaves
  <2>5. Guided(w, none)
    BY <1>4 DEF Guided
  <2> QED
    BY <2>2, <2>3, <2>4, <2>5 DEF ReadsAt
<1> QED
  BY <1>1, <1>3, <1>4, <1>5, PlaceReading

(* A container, optional or pointer that was given n parts.                *)
LEMMA ResizedHere ==
  ASSUME InRead, Kind[Current.type] \in Wrappers \ {"array"}, NEW n \in Nat,
         Kind[Current.type] \in {"optional", "smart_ptr"} => n \in {0, 1}
  PROVE  LET s == Resized(object, Current.o, n)
         IN /\ Shape(s)
            /\ DiffersIn(object, s, Current.o)
            /\ At(s.value, Current.o) = n
<1> DEFINE s == Resized(object, Current.o, n)
<1>1. ObjectOK(s, root)
  BY ResizedTyping DEF InRead
<1>2. DiffersIn(object, s, Current.o) /\ At(s.value, Current.o) = n
  BY ReadState, ResizedFields
<1> QED
  BY <1>1, <1>2 DEF ObjectOK

LEMMA RightSizesHere ==
  ASSUME InRead, Kind[Current.type] = "sequence", NEW n \in Nat,
         NEW s \in RightSizes(n)
  PROVE  DiffersIn(object, s, Current.o) /\ At(s.value, Current.o) = n
<1> DEFINE w == Resized(object, Current.o, 0)
<1>1. Shape(w) /\ DiffersIn(object, w, Current.o)
  BY ResizedHere DEF Wrappers
<1>2. CASE s = Resized(object, Current.o, n)
  BY <1>2, ReadState, ResizedFields
<1>3. CASE s = Resized(w, Current.o, n)
  <2> HIDE DEF w
  <2>1. DiffersIn(w, s, Current.o) /\ At(s.value, Current.o) = n
    BY <1>1, <1>3, ReadState, ResizedFields
  <2> QED
    BY <1>1, <2>1, DiffersTwice
<1> QED
  BY <1>2, <1>3 DEF RightSizes

LEMMA SequenceReading ==
  ASSUME InRead, GetPrimitiveSequence \/ GetVector \/ GetSequence
  PROVE  Reading'
<1> DEFINE n == At(instance, Current.i)
<1>1. Current.op = "get" /\ Kind[Current.type] \in {"sequence", "vector"}
  BY DEF GetPrimitiveSequence, GetVector, GetSequence, Doing
<1>2. /\ n \in Nat
      /\ Kind[Current.type] \in Containers
      /\ Kind[Current.type] \in Wrappers \ {"array"}
      /\ Kind[Current.type] # "array"
      /\ Kind[Current.type] # "range"
      /\ Kind[Current.type] \notin {"optional", "smart_ptr"}
      /\ Current.type \in Types
  BY <1>1, ReadState DEF Containers, Wrappers
<1>3. ASSUME GetPrimitiveSequence \/ GetVector
      PROVE  Reading'
  <2> DEFINE s == Resized(object, Current.o, n)
  <2>1. Get(WithElements(s, n))
    BY <1>3 DEF GetPrimitiveSequence, GetVector, GetAll
  <2>2. Kind[ElementType] \in Leaves
    BY <1>2, <1>3, ElementKinds
       DEF GetPrimitiveSequence, GetVector, Doing, Primitive, Leaves, ElementType
  <2>3. /\ Shape(s)
        /\ DiffersIn(object, s, Current.o)
        /\ At(s.value, Current.o) = n
    BY <1>2, ResizedHere
  <2> HIDE DEF s
  <2> QED
    BY <1>1, <1>2, <2>1, <2>2, <2>3, AllElementsReading
<1>4. ASSUME GetSequence
      PROVE  Reading'
  <2>1. PICK s \in RightSizes(n) : BindToGet(s, StepPerElement("get", Current, n))
    BY <1>4 DEF GetSequence
  <2>2. Kind[Current.type] = "sequence"
    BY <1>4 DEF GetSequence, Doing
  <2>3. DiffersIn(object, s, Current.o) /\ At(s.value, Current.o) = n
    BY <1>2, <2>2, RightSizesHere
  <2> QED
    BY <1>1, <1>2, <2>1, <2>3, ElementsReading
<1> QED
  BY <1>3, <1>4

LEMMA ArrayReading ==
  ASSUME InRead, GetPrimitiveArray \/ GetArray
  PROVE  Reading'
<1>1. /\ Current.op = "get"
      /\ Kind[Current.type] = "array"
      /\ Kind[Current.type] \in Containers
      /\ ArrayLen \in Nat
  BY ConversionConstants DEF GetPrimitiveArray, GetArray, Doing, Containers
<1>2. DiffersIn(object, object, Current.o)
  BY DiffersNowhere
<1>3. ASSUME GetPrimitiveArray
      PROVE  Reading'
  <2>1. Get(WithElements(object, ArrayLen)) /\ Kind[ElementType] \in Leaves
    BY <1>3 DEF GetPrimitiveArray, Primitive, Leaves
  <2>2. Shape(object)
    BY ReadState
  <2> QED
    BY <1>1, <1>2, <2>1, <2>2, AllElementsReading
<1>4. ASSUME GetArray
      PROVE  Reading'
  <2>1. BindToGet(object, StepPerElement("get", Current, ArrayLen))
    BY <1>4 DEF GetArray
  <2> QED
    BY <1>1, <1>2, <2>1, ElementsReading
<1> QED
  BY <1>3, <1>4

LEMMA RangeReading ==
  ASSUME InRead, GetPrimitiveRange \/ GetRange
  PROVE  Reading'
<1> DEFINE n == At(instance, Current.i)
<1>1. /\ Current.op = "get"
      /\ Kind[Current.type] = "range"
      /\ Kind[Current.type] \in Containers
      /\ n \in Nat
      /\ At(object.value, Current.o) \in Nat
  BY ReadState DEF GetPrimitiveRange, GetRange, Doing, Containers
<1>2. At(object.value, Current.o) >= n
  BY <1>1 DEF GetPrimitiveRange, GetRange, Insufficient
<1>3. DiffersIn(object, object, Current.o) /\ Shape(object)
  BY DiffersNowhere, ReadState
<1>4. ASSUME GetPrimitiveRange
      PROVE  Reading'
  <2>1. Get(WithElements(object, n)) /\ Kind[ElementType] \in Leaves
    BY <1>4 DEF GetPrimitiveRange, Primitive, Leaves
  <2> QED
    BY <1>1, <1>2, <1>3, <2>1, AllElementsReading
<1>5. ASSUME GetRange
      PROVE  Reading'
  <2>1. BindToGet(object, StepPerElement("get", Current, n))
    BY <1>5 DEF GetRange
  <2> QED
    BY <1>1, <1>2, <1>3, <2>1, ElementsReading
<1> QED
  BY <1>4, <1>5

(* *opt and *val.                                                          *)
LEMMA PointedRead ==
  ASSUME InRead, NEW s, NEW x \in SpotsRead(s), MatchesGet(x, Current),
         Current.op = "get", IsPointer(x.type),
         Kind[x.type] = "optional" => x.at \in DOMAIN instance
  PROVE  ReadsParts(s, <<Pointed>>, x)
<1> DEFINE z == PartSpot(x, 1)
<1>1. /\ x \in Spots
      /\ x.type = Current.type
      /\ x.path = Current.o
      /\ x.at = Current.i
      /\ Current \in Steps
  BY ReadSpot, MatchesWhole, ReadState
<1>2. /\ Kind[x.type] \in Wrappers
      /\ Kind[x.type] \notin Aggregates
      /\ Kind[x.type] \notin Leaves
      /\ Kind[x.type] \notin {"sequence", "vector", "range", "array", "union"}
      /\ ~IsBasePart(x.type, 1)
  BY DEF IsPointer, IsBasePart, Wrappers, Aggregates, Leaves
<1>3. <<x, 1>> \in PartsRead(s)
  BY <1>1, <1>2, PartRead DEF HasPart, ReadsPart
<1>4. ASSUME NEW k \in Nat, <<x, k>> \in PartsRead(s)
      PROVE  k = 1
  BY <1>1, <1>4, PartRead DEF HasPart
<1>5. PartType(x.type, 1) = ElementType
  BY <1>1, <1>2 DEF PartType, ElementType
<1>6. /\ z.type = ElementType
      /\ z.path = Append(Current.o, 1)
      /\ z.at = Current.i
      /\ z.base = FALSE
  BY <1>1, <1>2, <1>5, PartFields
<1> DEFINE e == Pointed
<1>7. /\ e.op = "get"
      /\ e.type = ElementType
      /\ e.o = Append(Current.o, 1)
      /\ e.i = Current.i
  BY <1>1 DEF Pointed, Steps
<1> HIDE DEF e, z
<1>8. MatchesGet(z, e)
  BY <1>6, <1>7 DEF MatchesGet
<1> DEFINE steps == <<e>>
<1>9. Len(steps) = 1 /\ steps[1] = e
  BY OneIsSeq
<1> HIDE DEF steps
<1>10. ReadsParts(s, steps, x)
  <2>1. ASSUME NEW j \in 1..Len(steps), steps[j].op # "unbind"
        PROVE  \E k \in Nat : /\ <<x, k>> \in PartsRead(s)
                              /\ MatchesGet(PartSpot(x, k), steps[j])
    BY <1>3, <1>8, <1>9 DEF z
  <2>2. ASSUME NEW k \in Nat, <<x, k>> \in PartsRead(s)
        PROVE  \E j \in 1..Len(steps) : /\ steps[j].op \in {"get", "get_base"}
                                        /\ steps[j].o = Append(x.path, k)
    BY <1>1, <1>4, <1>7, <1>9, <2>2
  <2> QED
    BY <2>1, <2>2 DEF ReadsParts
<1> QED
  BY <1>10 DEF steps, e

LEMMA PointedReading ==
  ASSUME InRead, Current.op = "get", Kind[Current.type] \in {"optional", "smart_ptr"},
         GetPointed, UNCHANGED <<root, instance, call>>,
         Kind[Current.type] = "optional" => Current.i \in DOMAIN instance
  PROVE  Reading'
<1> DEFINE e == Pointed
           steps == <<e>>
<1>1. /\ DiffersIn(object, object', Current.o)
      /\ At(object'.value, Current.o) = 1
  <2>1. Kind[Current.type] \in Wrappers \ {"array"} /\ 1 \in Nat
    BY DEF Wrappers
  <2>2. CASE At(object.value, Current.o) = 1
    BY <2>2, DiffersNowhere DEF GetPointed
  <2>3. CASE At(object.value, Current.o) # 1
    <3>1. object' = Resized(object, Current.o, 1)
      BY <2>3 DEF GetPointed
    <3> QED
      BY <2>1, <3>1, ResizedHere
  <2> QED
    BY <2>2, <2>3
<1>2. Continue(steps)
  BY DEF GetPointed
<1>3. e.o = Append(Current.o, 1)
  BY ReadState DEF Pointed, Steps
<1>4. IsAt(e.o, Current.o) /\ e.o \in Paths
  BY <1>3, ReadState, AppendIsIn, AppendPath
<1>5. ASSUME NEW x \in SpotsRead(object'), MatchesGet(x, Current)
      PROVE  Got(object', x) /\ ReadsParts(object', steps, x)
  <2>1. /\ x.type = Current.type
        /\ x.path = Current.o
        /\ x.at = Current.i
        /\ IsPointer(x.type)
    BY <1>5, MatchesWhole DEF IsPointer
  <2>2. Got(object', x)
    BY <1>1, <2>1 DEF Got, Leaves
  <2>3. ReadsParts(object', steps, x)
    BY <1>5, <2>1, PointedRead
  <2> QED
    BY <2>2, <2>3
<1> HIDE DEF e
<1>6. IsSeq(steps) /\ Apart(steps) /\ StepsAt(steps, Current.o)
  BY <1>4, OneStepApart
<1> HIDE DEF steps
<1> QED
  BY <1>1, <1>2, <1>5, <1>6, PartsReading

LEMMA OptionalReading ==
  ASSUME InRead, GetOptional \/ GetSmartPtr
  PROVE  Reading'
<1>1. /\ Current.op = "get"
      /\ Kind[Current.type] \in {"optional", "smart_ptr"}
      /\ UNCHANGED <<root, instance, call>>
  BY DEF GetOptional, GetSmartPtr, Doing
<1>2. CASE GetPointed /\ (Kind[Current.type] = "optional" =>
                            Current.i \in DOMAIN instance)
  BY <1>1, <1>2, PointedReading
<1>3. CASE /\ Kind[Current.type] = "optional"
           /\ Current.i \notin DOMAIN instance
           /\ Continue(<<>>)
           /\ object' = object
  <2> DEFINE none == <<>>
  <2>1. IsSeq(none) /\ Apart(none) /\ StepsAt(none, Current.o)
    BY NoStepsApart
  <2>2. ASSUME NEW x \in SpotsRead(object), MatchesGet(x, Current)
        PROVE  Got(object, x) /\ ReadsParts(object, none, x)
    <3>1. x.type = Current.type /\ x.at = Current.i /\ x \in Spots
      BY <1>1, <2>2, MatchesWhole, ReadSpot
    <3>2. Got(object, x)
      BY <1>3, <3>1 DEF Got, Leaves
    <3>3. ASSUME NEW k \in Nat
          PROVE  <<x, k>> \notin PartsRead(object)
      BY <1>3, <3>1, PartRead DEF ReadsPart
    <3> QED
      BY <3>2, <3>3, NoPartsRead
  <2>3. DiffersIn(object, object', Current.o)
    BY <1>3, DiffersNowhere
  <2>4. Continue(none)
    BY <1>3
  <2> HIDE DEF none
  <2>5. \A x \in SpotsRead(object') :
          MatchesGet(x, Current) => Got(object', x) /\ ReadsParts(object', none, x)
    BY <1>3, <2>2
  <2> QED
    BY <1>1, <2>1, <2>3, <2>4, <2>5, PartsReading
<1> QED
  BY <1>2, <1>3 DEF GetOptional, GetSmartPtr, Doing

(* A union is bound, then get_union reads its case.                        *)
LEMMA UnionReading ==
  ASSUME InRead, GetUnion
  PROVE  Reading'
<1> DEFINE e == [Current EXCEPT !.op = "get_union", !.case = FALSE]
           steps == <<e>>
<1>1. /\ Current.op = "get"
      /\ Kind[Current.type] = "union"
      /\ BindToGet(object, steps)
  BY DEF GetUnion, Doing
<1>2. /\ e.op = "get_union"
      /\ e.type = Current.type
      /\ e.o = Current.o
      /\ e.i = Current.i
      /\ Current.o \in Paths
  BY ReadState DEF Steps
<1> HIDE DEF e
<1>3. IsSeq(steps) /\ Apart(steps) /\ StepsAt(steps, Current.o)
  BY <1>2, IsAtSame, OneStepApart
<1>4. Len(steps) = 1 /\ steps[1] = e
  BY OneIsSeq
<1> HIDE DEF steps
<1>5. DiffersIn(object, object, Current.o)
  BY DiffersNowhere
<1>6. ASSUME ~object.mixed
      PROVE  ReadsAt(object, steps, Current.o)
  <2>1. PICK x \in SpotsRead(object) : MatchesGet(x, Current)
    BY <1>1, <1>5, <1>6, CurrentIn
  <2>2. MatchesGet(x, e)
    BY <1>1, <1>2, <2>1 DEF MatchesGet
  <2>3. Guided(object, steps)
    BY <1>4, <2>2 DEF Guided
  <2>4. ASSUME NEW y, IsAt(y.path, Current.o)
        PROVE  WillTouch(steps, y)
    BY <1>2, <1>4, <2>4 DEF WillTouch, Touches
  <2> QED
    BY <2>3, <2>4 DEF ReadsAt
<1> QED
  BY <1>1, <1>3, <1>5, <1>6, BindReading

LEMMA CaseReadSame ==
  ASSUME NEW e, NEW f, e.type = f.type, e.i = f.i
  PROVE  CaseRead(e) = CaseRead(f)
BY DEF CaseRead, DiscriminatorValue, MemberId

LEMMA CaseReadIsCase ==
  ASSUME NEW e, CaseRead(e) # 0
  PROVE  CaseRead(e) \in 1..NCases(e.type)
<1>1. CaseRead(e) = CaseToGet(e.type, DiscriminatorValue(e))
  BY DEF CaseRead
<1> QED
  BY <1>1, FirstOfIsIn DEF CaseToGet

(* e reads part k, the only one, of x.                                     *)
OnlyPart(s, x, e, k) ==
  /\ <<x, k>> \in PartsRead(s)
  /\ MatchesGet(PartSpot(x, k), e)
  /\ e.o = Append(x.path, k)
  /\ \A j \in Nat : <<x, j>> \in PartsRead(s) => j = k

(* The part of a union that is read.                                       *)
LEMMA CasePart ==
  ASSUME NEW s, NEW x \in SpotsRead(s), Kind[x.type] = "union", NEW c,
         c = CaseIn(x), c \in 1..NCases(x.type), NEW e, e.op = "get",
         e.type = CaseType(x.type, c), e.o = DataOf(s, x.type, x.path, c),
         e.i = Append(x.at, c)
  PROVE  \E k \in Nat : OnlyPart(s, x, e, k)
<1> DEFINE t == x.type
<1>1. x \in Spots
  BY ReadSpot
<1>2. PICK k \in Nat : /\ HasPart(x, k)
                       /\ Append(x.path, k) = DataOf(s, t, x.path, c)
                       /\ CaseAt(t, k) = c
  BY <1>1, DataIsPart
<1>3. <<x, k>> \in PartsRead(s)
  BY <1>1, <1>2, PartRead DEF ReadsPart
<1> DEFINE z == PartSpot(x, k)
<1>4. /\ z.type = CaseType(t, c)
      /\ z.path = e.o
      /\ z.at = Append(x.at, c)
      /\ z.base = FALSE
  <2>1. ~IsBasePart(t, k) /\ ~IsPointer(t) /\ Kind[t] \notin Aggregates
    BY DEF IsBasePart, IsPointer, Aggregates
  <2>2. PartType(t, k) = CaseType(t, c) /\ IdOf(t, k) = c
    BY <1>2, <2>1 DEF PartType, IdOf
  <2>3. /\ z.type = PartType(x.type, k)
        /\ z.path = Append(x.path, k)
        /\ ~IsPointer(x.type) /\ ~IsBasePart(x.type, k) =>
             z.at = Append(x.at, IdOf(x.type, k))
        /\ ~IsBasePart(x.type, k) => z.base = FALSE
    BY PartFields
  <2> HIDE DEF z
  <2> QED
    BY <1>2, <2>1, <2>2, <2>3
<1> HIDE DEF z
<1>5. MatchesGet(z, e)
  BY <1>4 DEF MatchesGet
<1>6. ASSUME NEW j \in Nat, <<x, j>> \in PartsRead(s)
      PROVE  j = k
  BY <1>3, <1>6, ReadGuide DEF IsGuide
<1> QED
  BY <1>2, <1>3, <1>5, <1>6 DEF z, OnlyPart

LEMMA TwoSteps ==
  ASSUME NEW e, NEW f
  PROVE  /\ IsSeq(<<e, f>>)
         /\ Len(<<e, f>>) = 2
         /\ <<e, f>>[1] = e
         /\ <<e, f>>[2] = f
<1>1. <<e, f>> \in Seq({e, f})
  OBVIOUS
<1> QED
  BY <1>1 DEF IsSeq

(* A case is read through its pointer.                                     *)
LEMMA ThroughPointerReading ==
  ASSUME InRead, Current.op = "get_union", Kind[Current.type] = "union",
         NEW c, c = CaseRead(Current), c # 0,
         HasPointer(object, Current.type, Current.o, c),
         Continue(<<StepForCase("get", Pointee(Current.type, Current.o, c), c),
                    [Current EXCEPT !.op = "activate", !.i = Append(@, c)]>>),
         UNCHANGED <<root, object, instance, call>>
  PROVE  Reading'
<1> DEFINE t == Current.type
           o == Current.o
           e == StepForCase("get", Pointee(t, o, c), c)
           f == [Current EXCEPT !.op = "activate", !.i = Append(@, c)]
           steps == <<e, f>>
<1>1. /\ root \in Types /\ t \in Types /\ o \in Paths /\ Current \in Steps
      /\ c \in 1..NCases(t)
      /\ NCases(t) + c \in Nat
  BY ReadState, CaseReadIsCase, CaseFacts
<1>2. /\ e.op = "get"
      /\ e.type = CaseType(t, c)
      /\ e.o = Append(o, NCases(t) + c)
      /\ e.o = DataOf(object, t, o, c)
      /\ e.i = Append(Current.i, c)
  BY DEF StepForCase, DataOf, Pointee
<1>3. /\ f.op = "activate"
      /\ f.type = t
      /\ f.o = o
      /\ f.i = Append(Current.i, c)
  BY <1>1 DEF Steps
<1>4. Continue(steps)
  OBVIOUS
<1> HIDE DEF e, f
<1>5. IsSeq(steps) /\ Len(steps) = 2 /\ steps[1] = e /\ steps[2] = f
  BY TwoSteps
<1> HIDE DEF steps
<1>6. \A k \in 1..Len(steps) : k = 1 \/ k = 2
  BY <1>5
<1>7. IsAt(e.o, o) /\ e.o \in Paths /\ IsAt(o, o) /\ ~IsAt(o, e.o)
  <2>1. IsIn(e.o, o) /\ IsAt(e.o, o) /\ e.o \in Paths
    BY <1>1, <1>2, AppendIsIn, AppendPath
  <2>2. IsAt(o, o)
    BY <1>1, IsAtSame
  <2>3. ~IsAt(o, e.o)
    BY <1>1, <2>1, IsAtBoth DEF IsIn
  <2> QED
    BY <2>1, <2>2, <2>3
<1>8. Apart(steps)
  <2> SUFFICES ASSUME NEW j \in 1..Len(steps), NEW k \in 1..Len(steps), j < k
               PROVE  ~IsAt(steps[k].o, steps[j].o)
    BY DEF Apart
  <2>1. j = 1 /\ k = 2
    BY <1>6
  <2> QED
    BY <1>3, <1>5, <1>7, <2>1
<1>9. StepsAt(steps, o)
  BY <1>1, <1>3, <1>5, <1>6, <1>7 DEF StepsAt
<1>10. ASSUME ~object.mixed
       PROVE  ReadsAt(object, steps, o)
  <2>1. PICK x \in SpotsRead(object) : MatchesGet(x, Current)
    BY <1>10, CurrentReads
  <2>2. x.type = t /\ x.path = o /\ x.at = Current.i
    BY <2>1 DEF MatchesGet
  <2>3. c = CaseIn(x)
    BY <2>2, CaseReadSame DEF CaseIn
  <2>4. PICK k \in Nat : /\ <<x, k>> \in PartsRead(object)
                         /\ MatchesGet(PartSpot(x, k), e)
                         /\ e.o = Append(x.path, k)
                         /\ \A j \in Nat : <<x, j>> \in PartsRead(object) => j = k
    <3>1. \E k \in Nat : OnlyPart(object, x, e, k)
      <4>1. /\ Kind[x.type] = "union"
            /\ c \in 1..NCases(x.type)
            /\ e.type = CaseType(x.type, c)
            /\ e.o = DataOf(object, x.type, x.path, c)
            /\ e.i = Append(x.at, c)
        BY <1>1, <1>2, <2>2
      <4> HIDE DEF t, o
      <4> QED
        BY <1>2, <2>3, <4>1, CasePart
    <3> QED
      BY <3>1 DEF OnlyPart
  <2>5. PartSpot(x, k) \in SpotsRead(object)
    BY <2>4, PartOfRead
  <2>6. MatchesGet(x, f)
    BY <1>1, <1>3, <2>2, <2>3 DEF MatchesGet
  <2>7. Guided(object, steps)
    BY <1>5, <1>6, <2>4, <2>5, <2>6 DEF Guided
  <2>8. ASSUME NEW y \in SpotsRead(object), IsAt(y.path, o)
        PROVE  WillTouch(steps, y)
    <3>1. CASE y = x
      <4>1. Touches(f, y)
        BY <1>3, <2>2, <3>1 DEF Touches
      <4>2. 2 \in 1..Len(steps)
        BY <1>5
      <4> QED
        BY <1>5, <4>1, <4>2 DEF WillTouch
    <3>2. CASE y # x
      <4>1. PICK j \in Nat : /\ <<x, j>> \in PartsRead(object)
                             /\ IsAt(y.path, Append(x.path, j))
        BY <1>1, <2>2, <2>8, <3>2, PartsInsideRead
      <4>2. IsAt(y.path, e.o)
        BY <2>4, <4>1
      <4>3. Touches(e, y) /\ 1 \in 1..Len(steps)
        BY <1>2, <1>5, <4>2 DEF Touches
      <4> QED
        BY <1>5, <4>3 DEF WillTouch
    <3> QED
      BY <3>1, <3>2
  <2> QED
    BY <2>7, <2>8 DEF ReadsAt
<1>11. DiffersIn(object, object', o)
  BY DiffersNowhere
<1>12. ~object'.mixed => ReadsAt(object', steps, o)
  BY <1>10
<1> QED
  BY <1>4, <1>5, <1>8, <1>9, <1>11, <1>12, PlaceReading

(* A case is read into the variant.                                        *)
LEMMA IntoVariantReading ==
  ASSUME InRead, Current.op = "get_union", Kind[Current.type] = "union",
         NEW c, c = CaseRead(Current), c # 0,
         object' = WithVariant(object, Current.type, Current.o, c),
         Continue(<<StepForCase("get", Append(Current.o, c), c)>>),
         UNCHANGED <<root, instance, call>>
  PROVE  Reading'
<1> DEFINE t == Current.type
           o == Current.o
           e == StepForCase("get", Append(o, c), c)
           steps == <<e>>
<1>1. /\ root \in Types /\ t \in Types /\ o \in Paths
      /\ c \in 1..NCases(t)
      /\ c \in Nat /\ c # 0
  BY ReadState, CaseReadIsCase
<1>2. /\ e.op = "get"
      /\ e.type = CaseType(t, c)
      /\ e.o = Append(o, c)
      /\ e.i = Append(Current.i, c)
  BY DEF StepForCase
<1>3. Continue(steps)
  OBVIOUS
<1> HIDE DEF e
<1>4. Len(steps) = 1 /\ steps[1] = e
  BY OneIsSeq
<1>5. IsSeq(steps) /\ Apart(steps) /\ StepsAt(steps, o)
  BY <1>1, <1>2, AppendIsIn, AppendPath, OneStepApart
<1> HIDE DEF steps
<1>6. /\ DiffersIn(object, object', o)
      /\ Which(object', o) = c
      /\ ~object'.mixed => \A d \in 1..NCases(t) : ~HasPointer(object', t, o, d)
  BY <1>1, ReadState, WithVariantFields
<1>7. ASSUME ~object'.mixed
      PROVE  ReadsAt(object', steps, o)
  <2>1. PICK x \in SpotsRead(object') : MatchesGet(x, Current)
    BY <1>6, <1>7, CurrentIn
  <2>2. x.type = t /\ x.path = o /\ x.at = Current.i
    BY <2>1 DEF MatchesGet
  <2>3. c = CaseIn(x)
    BY <2>2, CaseReadSame DEF CaseIn
  <2>4. CaseHeld(object', t, o) = c
    BY <1>1, <1>6 DEF CaseHeld
  <2>5. Got(object', x)
    BY <1>1, <2>2, <2>3, <2>4 DEF Got, Leaves
  <2>6. e.o = DataOf(object', t, o, c)
    BY <1>1, <1>2, <1>6, <1>7 DEF DataOf
  <2>7. PICK k \in Nat : /\ <<x, k>> \in PartsRead(object')
                         /\ MatchesGet(PartSpot(x, k), e)
                         /\ e.o = Append(x.path, k)
                         /\ \A j \in Nat : <<x, j>> \in PartsRead(object') => j = k
    <3>1. \E k \in Nat : OnlyPart(object', x, e, k)
      <4>1. /\ Kind[x.type] = "union"
            /\ c \in 1..NCases(x.type)
            /\ e.type = CaseType(x.type, c)
            /\ e.o = DataOf(object', x.type, x.path, c)
            /\ e.i = Append(x.at, c)
        BY <1>1, <1>2, <2>2, <2>6
      <4> HIDE DEF t, o
      <4> QED
        BY <1>2, <2>3, <4>1, CasePart
    <3> QED
      BY <3>1 DEF OnlyPart
  <2>8. ReadsParts(object', steps, x)
    <3>1. ASSUME NEW j \in 1..Len(steps), steps[j].op # "unbind"
          PROVE  \E n \in Nat : /\ <<x, n>> \in PartsRead(object')
                                /\ MatchesGet(PartSpot(x, n), steps[j])
      <4>1. j = 1 /\ steps[j] = e
        BY <1>4
      <4> QED
        BY <2>7, <4>1
    <3>2. ASSUME NEW n \in Nat, <<x, n>> \in PartsRead(object')
          PROVE  \E j \in 1..Len(steps) : /\ steps[j].op \in {"get", "get_base"}
                                          /\ steps[j].o = Append(x.path, n)
      BY <1>2, <1>4, <2>7, <3>2
    <3> QED
      BY <3>1, <3>2 DEF ReadsParts
  <2> QED
    BY <1>1, <2>2, <2>5, <2>8, PartsReadAt
<1> QED
  BY <1>3, <1>5, <1>6, <1>7, PlaceReading

LEMMA UnionCaseReading ==
  ASSUME InRead, GetUnionCase
  PROVE  Reading'
BY ThroughPointerReading, IntoVariantReading DEF GetUnionCase, Doing

(* Objects that differ in an active index only hold the same data.         *)
LEMMA SamePointersRead ==
  ASSUME NEW s, NEW w, w.caseptr_tuple_ = s.caseptr_tuple_
  PROVE  SpotsRead(w) = SpotsRead(s)
<1>1. \A t, p, c : DataOf(w, t, p, c) = DataOf(s, t, p, c)
  BY DEF DataOf, HasPointer
<1>2. \A x, k : ReadsPart(w, x, k) <=> ReadsPart(s, x, k)
  BY <1>1 DEF ReadsPart
<1>3. PartsRead(w) = PartsRead(s)
  BY <1>2 DEF PartsRead
<1> QED
  BY <1>3 DEF SpotsRead

LEMMA SameHeld ==
  ASSUME NEW s, NEW w, NEW t, NEW p, Alike(s, w, p),
         w.caseptr_tuple_ = s.caseptr_tuple_
  PROVE  CaseHeld(w, t, p) = CaseHeld(s, t, p)
<1>1. \A c : HasPointer(w, t, p, c) <=> HasPointer(s, t, p, c)
  BY DEF HasPointer
<1>2. ActiveIndex(w, p) = ActiveIndex(s, p) /\ Which(w, p) = Which(s, p)
  BY DEF Alike, Which
<1>3. {c \in 1..NCases(t) : c - 1 = ActiveIndex(w, p) /\ HasPointer(w, t, p, c)}
        = {c \in 1..NCases(t) : c - 1 = ActiveIndex(s, p)
                                /\ HasPointer(s, t, p, c)}
  BY <1>1, <1>2
<1> QED
  BY <1>2, <1>3 DEF CaseHeld

LEMMA FirstOfOnly ==
  ASSUME NEW c \in Nat
  PROVE  FirstOf({c}) = c
BY DEF FirstOf

(* The case the active index says is in the union, if it is behind its     *)
(* pointer and nothing is in the variant.                                  *)
LEMMA ActiveHeld ==
  ASSUME NEW s, NEW t, NEW p, NEW c \in 1..NCases(t), Which(s, p) = 0,
         ActiveIndex(s, p) = c - 1, HasPointer(s, t, p, c)
  PROVE  CaseHeld(s, t, p) = c
<1>1. c \in Nat
  OBVIOUS
<1>2. {d \in 1..NCases(t) : d - 1 = ActiveIndex(s, p) /\ HasPointer(s, t, p, d)}
        = {c}
  OBVIOUS
<1> QED
  BY <1>1, <1>2, FirstOfOnly DEF CaseHeld

(* The index of a case that was read becomes the active one.               *)
LEMMA ActivateReading ==
  ASSUME InRead, Activate
  PROVE  Reading'
<1> DEFINE o == Current.o
           t == Current.type
           c == Last(Current.i)
           w == Activated(object, o, c)
           none == <<>>
<1>1. /\ Current.op = "activate"
      /\ object' = w
      /\ Continue(none)
      /\ UNCHANGED <<root, instance, call>>
  BY DEF Activate, Doing, Get, Activated
<1>2. /\ root \in Types
      /\ o \in Paths
      /\ Shape(object)
      /\ ObjectOK(object, root)
      /\ Placed(root, t, o)
  BY ReadState
<1>3. /\ IsSeq(todo)
      /\ \A k \in 1..Len(todo) : todo[k].o \in Paths
      /\ Current = todo[1]
      /\ 1 \in 1..Len(todo)
  BY StackPaths, FirstStep DEF InRead
<1>4. /\ Kind[t] = "union"
      /\ c \in 1..NCases(t)
      /\ HasPointer(object, t, o, c)
  <2>1. CasePending(object, Current)
    BY <1>1, <1>3 DEF InRead, Typing, CasesPending
  <2> QED
    BY <2>1 DEF CasePending, Through, HasPointer
<1>5. c \in Nat
  BY <1>4
<1>6. /\ w.value = object.value
      /\ w.caseptr_tuple_ = object.caseptr_tuple_
      /\ w.mixed = object.mixed
      /\ ActiveIndex(w, o) = c - 1
      /\ \A p : p # o => Alike(object, w, p)
  BY <1>2, <1>5, ActivatedFields
<1> HIDE DEF w
<1>7. IsSeq(none) /\ Apart(none) /\ Len(none) = 0
  BY NoStepsApart, EmptyIsSeq
<1> HIDE DEF none
<1>8. SpotsRead(w) = SpotsRead(object)
  BY <1>6, SamePointersRead
<1>9. ASSUME ~w.mixed
      PROVE  /\ Guided(w, none)
             /\ \A y \in SpotsRead(w) :
                  \/ Got(w, y)
                  \/ WillTouch(none, y)
                  \/ /\ y \in SpotsRead(object)
                     /\ ~Touches(Current, y)
                     /\ Got(object, y) => Got(w, y)
  <2>1. Guided(w, none)
    BY <1>7 DEF Guided
  <2>2. ~object.mixed
    BY <1>6, <1>9
  <2>3. PICK x \in SpotsRead(object) : MatchesGet(x, Current)
    BY <1>1, <2>2, CurrentReads
  <2>4. /\ x.type = t
        /\ x.path = o
        /\ x.at \in Paths
        /\ CaseIn(x) \in 1..NCases(t)
        /\ Current.i = Append(x.at, CaseIn(x))
    BY <1>1, <2>3, ReadSpot DEF MatchesGet
  <2>5. c = CaseIn(x)
    <3>1. IsSeq(x.at)
      BY <2>4, PathFacts
    <3> QED
      BY <2>4, <3>1, AppendFacts DEF Last
  <2>6. Which(w, o) = 0
    <3>1. UnionOK(object, t, o)
      BY <1>2, <1>4 DEF ObjectOK, NodeOK
    <3>2. Which(object, o) = 0
      BY <1>4, <2>2, <3>1 DEF UnionOK
    <3> QED
      BY <1>6, <3>2 DEF Which
  <2>7. CaseHeld(w, t, o) = c
    <3>1. HasPointer(w, t, o, c)
      BY <1>4, <1>6 DEF HasPointer
    <3> HIDE DEF c, t, o
    <3> QED
      BY <1>4, <1>6, <2>6, <3>1, ActiveHeld
  <2>8. Got(w, x)
    BY <1>4, <2>4, <2>5, <2>7 DEF Got, Leaves
  <2>9. ASSUME NEW y \in SpotsRead(object), y.path # o
        PROVE  ~Touches(Current, y) /\ (Got(object, y) => Got(w, y))
    <3>1. Alike(object, w, y.path)
      BY <1>6, <2>9
    <3>2. CaseHeld(w, y.type, y.path) = CaseHeld(object, y.type, y.path)
      BY <1>6, <3>1, SameHeld
    <3>3. At(w.value, y.path) = At(object.value, y.path)
      BY <1>6
    <3> QED
      BY <1>1, <2>9, <3>2, <3>3 DEF Touches, Got
  <2>10. ASSUME NEW y \in SpotsRead(object), y.path = o
         PROVE  y = x
    BY <1>2, <2>4, <2>10, ReadGuide, SpotUnique DEF SpotsRead
  <2> QED
    BY <1>8, <2>1, <2>8, <2>9, <2>10
<1>10. \A k \in 1..Len(none) :
         none[k].op # "unbind" =>
           Current.op # "unbind" /\ IsAt(none[k].o, Current.o)
             /\ none[k].o \in Paths
  BY <1>7
<1> QED
  BY <1>1, <1>2, <1>3, <1>6, <1>7, <1>8, <1>9, <1>10, ContinueReading DEF InRead

LEMMA GetMemberReading ==
  ASSUME InRead, GetMember
  PROVE  Reading'
<1>1. CASE GetPrimitive \/ GetString \/ GetEnum
  <2>1. /\ Current.op = "get"
        /\ Kind[Current.type] \in Leaves
        /\ GetLeaf
    BY <1>1 DEF GetPrimitive, GetString, GetEnum, Doing, Leaves
  <2> QED
    BY <2>1, LeafReading
<1>2. CASE GetBase \/ GetStruct \/ GetSparse
  BY <1>2, ClassReading
<1>3. CASE GetPrimitiveSequence \/ GetVector \/ GetSequence
  BY <1>3, SequenceReading
<1>4. CASE GetPrimitiveArray \/ GetArray
  BY <1>4, ArrayReading
<1>5. CASE GetPrimitiveRange \/ GetRange
  BY <1>5, RangeReading
<1>6. CASE GetOptional \/ GetSmartPtr
  BY <1>6, OptionalReading
<1>7. CASE GetUnion
  BY <1>7, UnionReading
<1>8. CASE GetUnionCase
  BY <1>8, UnionCaseReading
<1>9. CASE Activate
  BY <1>9, ActivateReading
<1> QED
  BY <1>1, <1>2, <1>3, <1>4, <1>5, <1>6, <1>7, <1>8, <1>9 DEF GetMember

-----------------------------------------------------------------------------
(* Every step of a read and of everything else.                            *)

LEMMA EverythingIsIn ==
  ASSUME NEW p \in Paths
  PROVE  IsAt(p, <<>>)
<1> DEFINE e == <<>>
<1>1. e \in Paths /\ Len(e) = 0 /\ Len(p) \in Nat
  BY EmptyPath DEF Paths
<1> HIDE DEF e
<1>2. IsAt(p, e)
  BY <1>1, IsAtFacts
<1> QED
  BY <1>2 DEF e

(* A read begins with the members of the root.                             *)
LEMMA ReadReading ==
  ASSUME IsRoot, Typing, Read
  PROVE  Reading'
<1> DEFINE e == <<>>
           steps == GetMembers(root, e, e)
           top == TopSpot(root)
           s == object'
<1>1. /\ todo' = steps
      /\ call'.what = "read"
      /\ call'.ended = "running"
      /\ UNCHANGED <<root, instance>>
  BY DEF Read
<1>2. top \in SpotsRead(s)
  BY TopIsReached DEF SpotsRead, IsRoot
<1>3. /\ top.type = root
      /\ top.path = e
      /\ top.at = e
      /\ top.base = TRUE
  BY DEF TopSpot
<1>4. Kind[root] \in Aggregates
  BY DEF IsRoot, Aggregates
<1>5. e \in Paths
  BY EmptyPath
<1>6. \A p \in Paths : IsAt(p, e)
  BY EverythingIsIn
<1> HIDE DEF top, e
<1>7. /\ ReadsParts(s, GetMembers(top.type, top.path, top.at), top)
      /\ IsSeq(GetMembers(top.type, top.path, top.at))
      /\ \A k \in 1..Len(GetMembers(top.type, top.path, top.at)) :
           GetMembers(top.type, top.path, top.at)[k].o = Append(top.path, k)
  BY <1>2, <1>3, <1>4, MembersRead
<1>8. /\ ReadsParts(s, steps, top)
      /\ IsSeq(steps)
      /\ \A k \in 1..Len(steps) : steps[k].o = Append(e, k)
  BY <1>3, <1>7
<1> HIDE DEF steps, s
<1>9. Apart(steps)
  BY <1>5, <1>8, PartsApart
<1>10. Got(s, top)
  BY <1>3, <1>4 DEF Got, Aggregates, Leaves
<1>11. ReadsAt(s, steps, top.path)
  BY <1>2, <1>8, <1>10, PartsReadAt DEF IsRoot
<1>12. Guided(s, steps) /\ AllGot(s, steps)
  <2>1. \A y \in SpotsRead(s) : IsAt(y.path, e)
    BY <1>6, ReadSpot
  <2> QED
    BY <1>3, <1>11, <2>1 DEF ReadsAt, AllGot
<1> QED
  BY <1>1, <1>9, <1>12, NewReading DEF s

LEMMA UnbindReading ==
  ASSUME InRead, Unbind
  PROVE  Reading'
<1> DEFINE none == <<>>
<1>1. /\ Current.op = "unbind"
      /\ Continue(none)
      /\ UNCHANGED <<root, object, instance, call>>
  BY DEF Unbind
<1>2. IsSeq(none) /\ Apart(none) /\ Len(none) = 0
  BY NoStepsApart, EmptyIsSeq
<1> HIDE DEF none
<1>3. /\ Current.o \in Paths
      /\ \A k \in 1..Len(todo) : todo[k].o \in Paths
      /\ IsSeq(todo)
  BY StackPaths DEF InRead
<1>4. \A y : ~Touches(Current, y)
  BY <1>1 DEF Touches
<1>5. \A k \in 1..Len(none) :
         none[k].op # "unbind" =>
           Current.op # "unbind" /\ IsAt(none[k].o, Current.o)
             /\ none[k].o \in Paths
  BY <1>2
<1>6. Guided(object', none)
  BY <1>2 DEF Guided
<1>7. /\ SpotsRead(object') = SpotsRead(object)
      /\ \A y : Got(object', y) <=> Got(object, y)
  BY <1>1
<1> QED
  BY <1>1, <1>2, <1>3, <1>4, <1>5, <1>6, <1>7, ContinueReading DEF InRead

(* Where neither the object nor the instance changes.                      *)
LEMMA SameReading ==
  ASSUME Reading, UNCHANGED <<root, object, instance>>,
         \/ UNCHANGED <<todo, call>>
         \/ call'.what # "read"
         \/ call'.ended = "thrown"
         \/ call'.ended = "returned" /\ UNCHANGED call
  PROVE  Reading'
<1>1. /\ SpotsRead(object)' = SpotsRead(object)
      /\ \A y : Got(object, y)' <=> Got(object, y)
      /\ \A y, e : MatchesGet(y, e)' <=> MatchesGet(y, e)
  BY SameRead
<1>2. CASE UNCHANGED <<todo, call>>
  <2>1. Guided(object, todo) => Guided(object, todo)'
    BY <1>1, <1>2 DEF Guided
  <2>2. AllGot(object, todo) => AllGot(object, todo)'
    BY <1>1, <1>2 DEF AllGot, WillTouch
  <2>3. Apart(todo) => Apart(todo)'
    BY <1>2 DEF Apart
  <2> QED
    BY <1>1, <1>2, <2>1, <2>2, <2>3 DEF Reading
<1>3. CASE call'.what # "read" \/ call'.ended = "thrown"
  BY <1>3 DEF Reading
<1>4. CASE call'.ended = "returned" /\ UNCHANGED call
  BY <1>1, <1>4 DEF Reading
<1> QED
  BY <1>2, <1>3, <1>4

(* A read that returns has read everything.                                *)
LEMMA ReturnReading ==
  ASSUME Typing, CallOK, Reading, Return
  PROVE  Reading'
<1>1. /\ todo = <<>>
      /\ call.ended = "running"
      /\ UNCHANGED <<root, object, instance, todo>>
      /\ call'.what = call.what
      /\ call'.ended = "returned"
  BY DEF Return, CallOK
<1>2. /\ SpotsRead(object)' = SpotsRead(object)
      /\ \A y : Got(object, y)' <=> Got(object, y)
  BY <1>1, SameRead
<1>3. \A y : ~WillTouch(todo, y)
  BY <1>1, EmptySeq DEF WillTouch
<1> QED
  BY <1>1, <1>2, <1>3 DEF Reading, AllGot

LEMMA StepReading ==
  IsRoot /\ Typing /\ Delivery /\ Reading /\ [Next]_vars => Reading'
<1> SUFFICES ASSUME IsRoot, Typing, Delivery, Reading, [Next]_vars
             PROVE  Reading'
  OBVIOUS
<1>1. CallOK
  BY DEF Delivery
<1>2. CASE Write
  BY <1>2 DEF Write, Reading
<1>3. CASE SetMember
  <2>1. call'.what = "write"
    BY <1>3, WriteIsRunning, SetMemberSteps
  <2> QED
    BY <2>1 DEF Reading
<1>4. CASE GetMember
  BY <1>4, ReadIsRunning, GetMemberSteps, GetMemberReading DEF InRead
<1>5. CASE Unbind
  <2>1. todo # <<>> /\ UNCHANGED <<root, object, instance, call>>
    BY <1>5 DEF Unbind
  <2>2. CASE call.what = "read" /\ call.ended = "running"
    BY <1>5, <2>1, <2>2, UnbindReading DEF InRead
  <2>3. CASE call.what # "read" \/ call.ended # "running"
    <3>1. call.ended \in {"running", "returned", "thrown"}
      BY <1>1 DEF CallOK
    <3> QED
      BY <2>1, <2>3, <3>1, SameReading
  <2> QED
    BY <2>2, <2>3
<1>6. CASE Read
  BY <1>6, ReadReading
<1>7. CASE Throw
  <2>1. call'.ended = "thrown" /\ UNCHANGED <<root, object, instance>>
    BY <1>1, <1>7 DEF Throw, CallOK
  <2> QED
    BY <2>1, SameReading
<1>8. CASE Return
  BY <1>1, <1>8, ReturnReading
<1>9. CASE Unwind
  <2>1. call'.ended = "thrown" /\ UNCHANGED <<root, object, instance>>
    BY <1>9 DEF Unwind
  <2> QED
    BY <2>1, SameReading
<1>10. CASE NewInstance \/ \E s : Change(s)
  BY <1>10 DEF NewInstance, Change, NoCall, Reading
<1>11. CASE UNCHANGED vars
  BY <1>11, SameReading DEF vars
<1>12. NewObject => \E s : Change(s)
  BY DEF NewObject
<1>13. ASSUME NEW n, NEW v, Assign(n, v)
       PROVE  \E s : Change(s)
  BY <1>13 DEF Assign
<1>14. ASSUME NEW t, NEW o, UseUnion(t, o)
       PROVE  \E s : Change(s)
  BY <1>14 DEF UseUnion
<1> QED
  BY <1>2, <1>3, <1>4, <1>5, <1>6, <1>7, <1>8, <1>9, <1>10, <1>11, <1>12,
     <1>13, <1>14 DEF Next

LEMMA InitReading == Init => Reading
BY DEF Init, NoCall, Reading

-----------------------------------------------------------------------------
(* What sets something.                                                    *)

IsSomething(F, s) ==
  F = [m \in Places |->
        /\ Kind[m.type] = "vector" => LengthOf(s, m) > 0
        /\ Kind[m.type] \in {"optional", "smart_ptr", "union"} =>
             \E k \in Inside(s, m) : F[k]]

LEMMA SetsBySomething ==
  ASSUME NEW s, NEW n
  PROVE  Sets(s, n) = (CHOOSE F : IsSomething(F, s))[n]
BY DEF Sets, IsSomething, Places

LEMMA SomethingExists ==
  ASSUME NEW s, Numbers(s.value)
  PROVE  \E F : IsSomething(F, s)
<1> DEFINE V == BOOLEAN
           rank == [n \in Places |-> Depth[n.type]]
           Given(g, m) ==
             /\ Kind[m.type] = "vector" => LengthOf(s, m) > 0
             /\ Kind[m.type] \in {"optional", "smart_ptr", "union"} =>
                  \E k \in Inside(s, m) : g[k]
           D == [g \in [Places -> V] |-> [m \in Places |-> Given(g, m)]]
           f == [n \in Places |-> TRUE]
<1>1. rank \in [Places -> Nat] /\ f \in [Places -> V]
  BY TypesAreNested DEF Places
<1>2. ASSUME NEW g, NEW m
      PROVE  Given(g, m) \in V
  OBVIOUS
<1>3. ASSUME NEW g \in [Places -> V], NEW h \in [Places -> V], NEW n \in Places,
             \A m \in Places : rank[m] < rank[n] => g[m] = h[m]
      PROVE  Given(g, n) = Given(h, n)
  <2>1. \A m \in Inside(s, n) : g[m] = h[m]
    BY <1>3, InsideIsLower
  <2>2. (\E k \in Inside(s, n) : g[k]) = (\E k \in Inside(s, n) : h[k])
    BY <2>1
  <2> QED
    BY <2>2
<1> HIDE DEF Given
<1>4. D \in [[Places -> V] -> [Places -> V]]
  <2> HIDE DEF V
  <2> QED
    BY <1>2
<1>5. ASSUME NEW g \in [Places -> V], NEW h \in [Places -> V], NEW n \in Places,
             \A m \in Places : rank[m] < rank[n] => g[m] = h[m]
      PROVE  D[g][n] = D[h][n]
  <2> HIDE DEF V, rank
  <2> QED
    BY <1>3, <1>5
<1>6. PICK F : IsFixpoint(F, D, Places, V)
  <2> HIDE DEF D, V, rank, f
  <2> QED
    BY <1>1, <1>4, <1>5, RankedRecursion
<1>7. F \in [Places -> V] /\ D[F] = F
  BY <1>6 DEF IsFixpoint
<1>8. F = [m \in Places |-> Given(F, m)]
  BY <1>7
<1>9. IsSomething(F, s)
  BY <1>8 DEF IsSomething, Given
<1> QED
  BY <1>9

LEMMA SetsFacts ==
  ASSUME NEW s, Numbers(s.value), NEW n \in Places
  PROVE  /\ Kind[n.type] = "vector" => (Sets(s, n) <=> LengthOf(s, n) > 0)
         /\ Kind[n.type] \in {"optional", "smart_ptr", "union"} =>
              (Sets(s, n) <=> \E k \in Inside(s, n) : Sets(s, k))
         /\ Kind[n.type] \notin {"vector", "optional", "smart_ptr", "union"} =>
              Sets(s, n)
<1> DEFINE F == CHOOSE F : IsSomething(F, s)
<1>1. IsSomething(F, s)
  BY SomethingExists
<1>2. \A m : Sets(s, m) = F[m]
  BY SetsBySomething
<1> HIDE DEF F
<1>3. F[n] = ( /\ Kind[n.type] = "vector" => LengthOf(s, n) > 0
               /\ Kind[n.type] \in {"optional", "smart_ptr", "union"} =>
                    \E k \in Inside(s, n) : F[k])
  BY <1>1 DEF IsSomething
<1> QED
  BY <1>2, <1>3

-----------------------------------------------------------------------------
(* Nodes and spots.                                                        *)

NodeOf(x) == Node(x.type, x.path, x.place)

LEMMA NodeOfIsPlace ==
  ASSUME NEW x \in Spots
  PROVE  /\ NodeOf(x) \in Places
         /\ NodeOf(x).type = x.type
         /\ NodeOf(x).path = x.path
         /\ NodeOf(x).place = x.place
BY SpotFacts DEF NodeOf, Node, Places

LEMMA SpotLength ==
  ASSUME NEW s, NEW x \in Spots
  PROVE  LengthOf(s, NodeOf(x)) = LengthOf(s, x)
BY NodeOfIsPlace DEF LengthOf

(* The part where the data of a case are is numbered as the case is.       *)
LEMMA CaseOfData ==
  ASSUME NEW s, NEW x \in Spots, Kind[x.type] = "union",
         NEW c \in 1..NCases(x.type), NEW k \in Nat,
         Append(x.path, k) = DataOf(s, x.type, x.path, c)
  PROVE  CaseAt(x.type, k) = c
<1>1. PICK j \in Nat : /\ HasPart(x, j)
                       /\ Append(x.path, j) = DataOf(s, x.type, x.path, c)
                       /\ CaseAt(x.type, j) = c
  BY DataIsPart
<1>2. j = k
  BY <1>1, AppendSame, SpotFacts
<1> QED
  BY <1>1, <1>2


LEMMA PartNode ==
  ASSUME NEW x, NEW k
  PROVE  NodeOf(PartSpot(x, k)) =
           Node(PartType(x.type, k), Append(x.path, k),
                Append(x.place, IF Kind[x.type] = "union"
                                THEN CaseAt(x.type, k) ELSE k))
<1> DEFINE z == PartSpot(x, k)
<1>1. /\ z.type = PartType(x.type, k)
      /\ z.path = Append(x.path, k)
      /\ z.place = Append(x.place, IF Kind[x.type] = "union"
                                   THEN CaseAt(x.type, k) ELSE k)
  BY DEF PartSpot
<1> HIDE DEF z
<1>2. NodeOf(z) = Node(PartType(x.type, k), Append(x.path, k),
                       Append(x.place, IF Kind[x.type] = "union"
                                       THEN CaseAt(x.type, k) ELSE k))
  BY <1>1 DEF NodeOf
<1> QED
  BY <1>2 DEF z

LEMMA SpotPlaced ==
  ASSUME NEW r \in Types, NEW K, IsGuide(K), NEW x \in Reached(r, K)
  PROVE  Placed(r, x.type, x.path)
<1> DEFINE S == {z \in Spots : Placed(r, z.type, z.path)}
<1>1. TopSpot(r) \in S
  <2>1. TopSpot(r) \in Spots
    BY TopIsReached, ReachedIsSpot
  <2>2. TopSpot(r).type = r /\ TopSpot(r).path = <<>>
    BY DEF TopSpot
  <2> QED
    BY <2>1, <2>2, PlacedTop
<1>2. ASSUME NEW z \in Reached(r, K), z \in S, NEW k, <<z, k>> \in K
      PROVE  PartSpot(z, k) \in S
  <2>1. HasPart(z, k) /\ z \in Spots
    BY <1>2, ReachedIsSpot DEF IsGuide
  <2>2. /\ PartSpot(z, k) \in Spots
        /\ k \in Nat
        /\ IsPart(z.type, k, PartType(z.type, k))
    BY <2>1, PartIsSpot, PartTypeIsPart
  <2>3. Placed(r, z.type, z.path)
    BY <1>2
  <2>4. Placed(r, PartType(z.type, k), Append(z.path, k))
    BY <2>2, <2>3, PlacedPart
  <2>5. /\ PartSpot(z, k).type = PartType(z.type, k)
        /\ PartSpot(z, k).path = Append(z.path, k)
    BY DEF PartSpot
  <2> QED
    BY <2>2, <2>4, <2>5
<1> HIDE DEF S
<1>3. Reached(r, K) \subseteq S
  BY <1>1, <1>2, ReachedInduction
<1> QED
  BY <1>3 DEF S

(* The sizes of what is in an object.                                      *)
LEMMA SpotSized ==
  ASSUME root \in Types, NEW s, ObjectOK(s, root), NEW K, IsGuide(K),
         NEW x \in Reached(root, K)
  PROVE  /\ Sized(x.type, At(s.value, x.path))
         /\ Kind[x.type] = "union" => UnionOK(s, x.type, x.path)
         /\ At(s.value, x.path) \in Nat
         /\ Numbers(s.value)
<1>1. Placed(root, x.type, x.path)
  BY SpotPlaced
<1>2. Numbers(s.value)
  BY DEF ObjectOK, Shape, GoodObject
<1> QED
  BY <1>1, <1>2 DEF ObjectOK, NodeOK, At, Numbers

(* What is inside of a node are the parts that are written.                *)
LEMMA PartIsInside ==
  ASSUME NEW s, NEW x \in Spots, NEW k \in Nat, <<x, k>> \in PartsWritten(s)
  PROVE  NodeOf(PartSpot(x, k)) \in Inside(s, NodeOf(x))
<1> DEFINE n == NodeOf(x)
           m == NodeOf(PartSpot(x, k))
           t == x.type
<1>1. HasPart(x, k) /\ WritesPart(s, x, k) /\ t \in Types
  BY PartWritten, SpotFacts
<1>2. n.type = t /\ n.path = x.path /\ n.place = x.place
  BY NodeOfIsPlace
<1>3. LengthOf(s, n) = LengthOf(s, x)
  BY SpotLength
<1>4. m = Node(PartType(t, k), Append(x.path, k),
               Append(x.place, IF Kind[t] = "union" THEN CaseAt(t, k) ELSE k))
  BY PartNode
<1> HIDE DEF m, n
<1>5. CASE Kind[t] \in Aggregates
  <2>1. k \in DOMAIN Parts[t] /\ PartType(t, k) = Parts[t][k]
    BY <1>1, <1>5 DEF HasPart, PartType
  <2>2. m = Part(n, k, k)
    BY <1>2, <1>4, <1>5, <2>1 DEF Part, Aggregates
  <2> QED
    BY <1>2, <1>5, <2>1, <2>2 DEF Inside, m, n, Aggregates, Leaves, Wrappers
<1>6. CASE Kind[t] \in Wrappers
  <2>1. k \in 1..LengthOf(s, n) /\ PartType(t, k) = Parts[t][1]
    BY <1>1, <1>3, <1>6 DEF WritesPart, PartType, Aggregates, Wrappers
  <2>2. m = Part(n, 1, k)
    BY <1>2, <1>4, <1>6, <2>1 DEF Part, Wrappers
  <2> QED
    BY <1>2, <1>6, <2>1, <2>2 DEF Inside, m, n, Aggregates, Leaves, Wrappers
<1>7. CASE Kind[t] = "union"
  <2> DEFINE c == CaseHeld(s, t, x.path)
  <2>1. c \in 1..NCases(t) /\ Append(x.path, k) = DataOf(s, t, x.path, c)
    BY <1>1, <1>7 DEF WritesPart
  <2>2. CaseAt(t, k) = c
    <3> HIDE DEF c
    <3> QED
      BY <1>7, <2>1, CaseOfData
  <2>3. PartType(t, k) = CaseType(t, c)
    BY <1>7, <2>2 DEF PartType, Aggregates
  <2>4. m = Node(CaseType(t, c), DataOf(s, t, x.path, c), Append(x.place, c))
    BY <1>4, <1>7, <2>1, <2>2, <2>3
  <2> QED
    BY <1>2, <1>7, <2>1, <2>4 DEF Inside, m, n, Aggregates, Leaves, Wrappers
<1> QED
  BY <1>1, <1>5, <1>6, <1>7, TypesAreAdapted DEF Kinds, HasPart, m, n

LEMMA InsideIsPart ==
  ASSUME NEW s, NEW x \in Spots, IsPointer(x.type) => LengthOf(s, x) \in {0, 1},
         LengthOf(s, x) \in Nat, NEW m \in Inside(s, NodeOf(x))
  PROVE  \E k \in Nat : /\ <<x, k>> \in PartsWritten(s)
                        /\ m = NodeOf(PartSpot(x, k))
<1> DEFINE n == NodeOf(x)
           t == x.type
<1>1. t \in Types
  BY SpotFacts
<1>2. n.type = t /\ n.path = x.path /\ n.place = x.place
  BY NodeOfIsPlace
<1>3. LengthOf(s, n) = LengthOf(s, x)
  BY SpotLength
<1>4. m \in Inside(s, n)
  OBVIOUS
<1>5. \A k : NodeOf(PartSpot(x, k)) =
               Node(PartType(t, k), Append(x.path, k),
                    Append(x.place,
                           IF Kind[t] = "union" THEN CaseAt(t, k) ELSE k))
  BY PartNode
<1> HIDE DEF n
<1>6. CASE Kind[t] \in Aggregates
  <2>1. PICK k \in DOMAIN Parts[t] : m = Part(n, k, k)
    BY <1>2, <1>4, <1>6 DEF Inside, Aggregates, Leaves, Wrappers
  <2>2. k \in Nat
    BY <1>1, TypesAreAdapted, LenProperties
  <2>3. <<x, k>> \in PartsWritten(s)
    <3>1. HasPart(x, k)
      BY <1>6, <2>1, <2>2 DEF HasPart, Aggregates, Leaves, IsPointer
    <3>2. WritesPart(s, x, k)
      BY <1>6 DEF WritesPart, Aggregates, Wrappers
    <3> QED
      BY <3>1, <3>2, PartWritten
  <2>4. PartType(t, k) = Parts[t][k] /\ Kind[t] # "union"
    BY <1>6 DEF PartType, Aggregates
  <2>5. m = NodeOf(PartSpot(x, k))
    BY <1>2, <1>5, <2>1, <2>4 DEF Part
  <2> QED
    BY <2>2, <2>3, <2>5
<1>7. CASE Kind[t] \in Wrappers
  <2>1. PICK k \in 1..LengthOf(s, x) : m = Part(n, 1, k)
    BY <1>2, <1>3, <1>4, <1>7 DEF Inside, Aggregates, Leaves, Wrappers
  <2>2. k \in Nat
    OBVIOUS
  <2>3. <<x, k>> \in PartsWritten(s)
    <3>1. HasPart(x, k)
      <4>1. IsPointer(t) => k = 1
        BY <2>1
      <4> QED
        BY <1>7, <2>2, <4>1 DEF HasPart, Aggregates, Leaves, Wrappers
    <3>2. WritesPart(s, x, k)
      BY <1>7, <2>1 DEF WritesPart, Wrappers
    <3> QED
      BY <3>1, <3>2, PartWritten
  <2>4. PartType(t, k) = Parts[t][1] /\ Kind[t] # "union"
    BY <1>7 DEF PartType, Aggregates, Wrappers
  <2>5. m = NodeOf(PartSpot(x, k))
    BY <1>2, <1>5, <2>1, <2>4 DEF Part
  <2> QED
    BY <2>2, <2>3, <2>5
<1>8. CASE Kind[t] = "union"
  <2>1. PICK c \in 1..NCases(t) :
          /\ c = CaseHeld(s, t, x.path)
          /\ m = Node(CaseType(t, c), DataOf(s, t, x.path, c),
                      Append(x.place, c))
    BY <1>2, <1>4, <1>8 DEF Inside, Aggregates, Leaves, Wrappers
  <2>2. PICK k \in Nat : /\ HasPart(x, k)
                         /\ Append(x.path, k) = DataOf(s, t, x.path, c)
                         /\ CaseAt(t, k) = c
    BY <1>8, DataIsPart
  <2>3. <<x, k>> \in PartsWritten(s)
    <3>1. WritesPart(s, x, k)
      BY <1>8, <2>1, <2>2 DEF WritesPart, Wrappers
    <3> QED
      BY <2>2, <3>1, PartWritten
  <2>4. PartType(t, k) = CaseType(t, c)
    BY <1>8, <2>2 DEF PartType, Aggregates
  <2>5. m = NodeOf(PartSpot(x, k))
    BY <1>5, <1>8, <2>1, <2>2, <2>4
  <2> QED
    BY <2>3, <2>5
<1> QED
  BY <1>1, <1>2, <1>4, <1>6, <1>7, <1>8, TypesAreAdapted DEF Kinds, Inside

LEMMA NodesClosed ==
  ASSUME NEW s, Numbers(s.value), root \in Types, NEW n \in Nodes(s),
         NEW m \in Inside(s, n)
  PROVE  m \in Nodes(s)
<1> DEFINE R == CHOOSE R : IsReach(R, s)
<1>1. IsReach(R, s)
  BY ReachExists
<1> HIDE DEF R
<1>2. \A p \in Places : R[p] = {p} \cup UNION {R[q] : q \in Inside(s, p)}
  BY <1>1 DEF IsReach
<1> DEFINE P == {d \in Nat :
                   \A p \in Places : Depth[p.type] < d =>
                     \A a \in R[p] \cap Places :
                       \A b \in Inside(s, a) : b \in R[p]}
<1>3. \A p \in Places : Depth[p.type] \in Nat
  BY TypesAreNested DEF Places
<1>4. 0 \in P
  BY <1>3
<1>5. ASSUME NEW d \in P
      PROVE  d + 1 \in P
  <2> SUFFICES ASSUME NEW p \in Places, Depth[p.type] < d + 1,
                      NEW a \in R[p] \cap Places, NEW b \in Inside(s, a)
               PROVE  b \in R[p]
    OBVIOUS
  <2>1. CASE a = p
    <3>1. b \in Places
      BY InsideIsLower
    <3>2. b \in R[b]
      BY <1>2, <3>1
    <3> QED
      BY <1>2, <2>1, <3>2
  <2>2. CASE a # p
    <3>1. PICK q \in Inside(s, p) : a \in R[q]
      BY <1>2, <2>2
    <3>2. q \in Places /\ Depth[q.type] < Depth[p.type]
      BY <3>1, InsideIsLower
    <3>3. Depth[q.type] < d
      BY <1>3, <3>2
    <3>4. b \in R[q]
      BY <3>1, <3>2, <3>3
    <3> QED
      BY <1>2, <3>1, <3>4
  <2> QED
    BY <2>1, <2>2
<1>6. P = Nat
  <2> HIDE DEF P
  <2>1. P \subseteq Nat
    BY DEF P
  <2> QED
    BY <1>4, <1>5, <2>1, SetInduction
<1>7. Nodes(s) = R[Top]
  BY NodesByReach DEF R
<1>8. Top \in Places /\ n \in Places
  <2>1. <<>> \in Paths
    BY EmptyPath
  <2>2. Top \in Places
    BY <2>1 DEF Top, Node, Places
  <2> QED
    BY <2>2, NodesPlaced
<1>9. Depth[Top.type] + 1 \in P /\ Depth[Top.type] < Depth[Top.type] + 1
  BY <1>3, <1>6, <1>8
<1>10. \A a \in R[Top] \cap Places : \A b \in Inside(s, a) : b \in R[Top]
  BY <1>8, <1>9
<1> QED
  BY <1>7, <1>8, <1>10

LEMMA TopIsNode ==
  ASSUME NEW s, Numbers(s.value), root \in Types
  PROVE  Top \in Nodes(s)
<1> DEFINE R == CHOOSE R : IsReach(R, s)
<1>1. IsReach(R, s)
  BY ReachExists
<1>2. Nodes(s) = R[Top]
  BY NodesByReach
<1> HIDE DEF R
<1>3. Top \in Places
  BY EmptyPath DEF Top, Node, Places
<1> QED
  BY <1>1, <1>2, <1>3 DEF IsReach

LEMMA TopNode == NodeOf(TopSpot(root)) = Top
<1> DEFINE z == TopSpot(root)
<1>1. z.type = root /\ z.path = <<>> /\ z.place = <<>>
  BY DEF TopSpot
<1> HIDE DEF z
<1>2. NodeOf(z) = Top
  BY <1>1 DEF NodeOf, Top
<1> QED
  BY <1>2 DEF z

LEMMA SpotLengths ==
  ASSUME root \in Types, NEW s, ObjectOK(s, root), NEW K, IsGuide(K),
         NEW x \in Reached(root, K)
  PROVE  /\ LengthOf(s, x) \in Nat
         /\ Kind[x.type] # "array" => LengthOf(s, x) = At(s.value, x.path)
         /\ IsPointer(x.type) => LengthOf(s, x) \in {0, 1}
<1>1. At(s.value, x.path) \in Nat /\ Sized(x.type, At(s.value, x.path))
  BY SpotSized
<1> QED
  BY <1>1, ConversionConstants DEF LengthOf, Sized, IsPointer

LEMMA SpotsAreNodes ==
  ASSUME root \in Types, NEW s, ObjectOK(s, root), NEW x \in SpotsWritten(s)
  PROVE  NodeOf(x) \in Nodes(s)
<1> DEFINE K == PartsWritten(s)
           S == {z \in Spots : NodeOf(z) \in Nodes(s)}
<1>1. IsGuide(K) /\ x \in Reached(root, K)
  BY WrittenGuide DEF SpotsWritten
<1>2. Numbers(s.value)
  BY DEF ObjectOK, Shape, GoodObject
<1>3. TopSpot(root) \in S
  <2>1. TopSpot(root) \in Spots
    BY TopIsReached, ReachedIsSpot
  <2> QED
    BY <1>2, <2>1, TopNode, TopIsNode
<1>4. ASSUME NEW z \in Reached(root, K), z \in S, NEW k, <<z, k>> \in K
      PROVE  PartSpot(z, k) \in S
  <2>1. HasPart(z, k) /\ k \in Nat /\ z \in Spots
    BY <1>1, <1>4, ReachedIsSpot DEF IsGuide, HasPart
  <2>2. NodeOf(PartSpot(z, k)) \in Inside(s, NodeOf(z))
    BY <1>4, <2>1, PartIsInside
  <2>3. NodeOf(z) \in Nodes(s)
    BY <1>4
  <2>4. NodeOf(PartSpot(z, k)) \in Nodes(s)
    BY <1>2, <2>2, <2>3, NodesClosed
  <2> QED
    BY <2>1, <2>4, PartIsSpot
<1> HIDE DEF S, K
<1>5. Reached(root, K) \subseteq S
  BY <1>1, <1>3, <1>4, ReachedInduction
<1> QED
  BY <1>1, <1>5 DEF S

LEMMA NodesAreSpots ==
  ASSUME root \in Types, NEW s, ObjectOK(s, root), NEW n \in Nodes(s)
  PROVE  \E x \in SpotsWritten(s) : n = NodeOf(x)
<1> DEFINE K == PartsWritten(s)
           G == {NodeOf(x) : x \in SpotsWritten(s)}
<1>1. IsGuide(K) /\ SpotsWritten(s) = Reached(root, K)
  BY WrittenGuide DEF SpotsWritten
<1>2. Numbers(s.value)
  BY DEF ObjectOK, Shape, GoodObject
<1> HIDE DEF K
<1>3. Top \in G
  BY <1>1, TopIsReached, TopNode
<1>4. G \subseteq Places
  BY <1>1, ReachedIsSpot, NodeOfIsPlace
<1>5. ASSUME NEW x \in SpotsWritten(s), NEW m \in Inside(s, NodeOf(x))
      PROVE  m \in G
  <2>1. x \in Spots
    BY <1>1, ReachedIsSpot
  <2>2. /\ LengthOf(s, x) \in Nat
        /\ IsPointer(x.type) => LengthOf(s, x) \in {0, 1}
    BY <1>1, SpotLengths
  <2>3. PICK k \in Nat : /\ <<x, k>> \in PartsWritten(s)
                         /\ m = NodeOf(PartSpot(x, k))
    BY <2>1, <2>2, InsideIsPart
  <2>4. PartSpot(x, k) \in SpotsWritten(s)
    BY <1>1, <2>3, PartIsReached DEF K
  <2> QED
    BY <2>3, <2>4
<1>6. \A p \in G : Inside(s, p) \subseteq G
  BY <1>5
<1>7. Nodes(s) \subseteq G
  <2> HIDE DEF G
  <2> QED
    BY <1>2, <1>3, <1>4, <1>6, NodesInduction
<1> QED
  BY <1>7

(* What was read is there to be written.                                   *)
AllRead == \A y \in SpotsRead(object) : Got(object, y)

LEMMA PartGot ==
  ASSUME root \in Types, ObjectOK(object, root), Numbers(instance),
         NEW y \in SpotsRead(object), Got(object, y), NEW k,
         <<y, k>> \in PartsRead(object)
  PROVE  <<y, k>> \in PartsWritten(object)
<1>1. /\ y \in Spots
      /\ HasPart(y, k)
      /\ ReadsPart(object, y, k)
      /\ k \in Nat
  BY ReadSpot, PartRead, PartOfRead
<1>2. /\ LengthOf(object, y) \in Nat
      /\ Kind[y.type] # "array" => LengthOf(object, y) = At(object.value, y.path)
  BY ReadGuide, SpotLengths DEF SpotsRead
<1>3. At(instance, y.at) \in Nat
  BY DEF At, Numbers
<1>4. ASSUME Kind[y.type] \in Wrappers
      PROVE  k \in 1..LengthOf(object, y)
  <2>1. CASE Kind[y.type] = "array"
    BY <1>1, <2>1 DEF ReadsPart, LengthOf
  <2>2. CASE IsPointer(y.type)
    <3>1. At(object.value, y.path) = 1 /\ k = 1
      BY <1>1, <2>2 DEF ReadsPart, Got, HasPart, IsPointer
    <3> QED
      BY <1>2, <2>2, <3>1 DEF IsPointer
  <2>3. CASE Kind[y.type] \in {"sequence", "vector", "range"}
    <3>1. /\ k \in 1..At(instance, y.at)
          /\ At(object.value, y.path) >= At(instance, y.at)
          /\ LengthOf(object, y) = At(object.value, y.path)
      BY <1>1, <1>2, <1>3, <2>3 DEF ReadsPart, Got
    <3> QED
      BY <1>2, <1>3, <3>1
  <2> QED
    BY <1>4, <2>1, <2>2, <2>3 DEF Wrappers, IsPointer
<1>5. ASSUME Kind[y.type] = "union"
      PROVE  LET c == CaseHeld(object, y.type, y.path)
             IN /\ c \in 1..NCases(y.type)
                /\ Append(y.path, k) = DataOf(object, y.type, y.path, c)
  BY <1>1, <1>5 DEF ReadsPart, Got
<1>6. WritesPart(object, y, k)
  BY <1>4, <1>5 DEF WritesPart
<1> QED
  BY <1>1, <1>6, PartWritten

LEMMA ReadIsWritten ==
  ASSUME root \in Types, ObjectOK(object, root), Numbers(instance), AllRead
  PROVE  SpotsRead(object) \subseteq SpotsWritten(object)
<1> DEFINE K == PartsRead(object)
           S == SpotsWritten(object)
<1>1. IsGuide(K) /\ SpotsRead(object) = Reached(root, K)
  BY ReadGuide DEF SpotsRead
<1>2. TopSpot(root) \in S
  BY TopIsReached DEF SpotsWritten
<1>3. ASSUME NEW y \in Reached(root, K), y \in S, NEW k, <<y, k>> \in K
      PROVE  PartSpot(y, k) \in S
  <2>1. y \in SpotsRead(object) /\ Got(object, y)
    BY <1>1 DEF AllRead
  <2>2. <<y, k>> \in PartsWritten(object)
    BY <1>3, <2>1, PartGot
  <2> QED
    BY <1>3, <2>2, WrittenGuide, PartIsReached DEF SpotsWritten
<1> HIDE DEF K, S
<1>4. Reached(root, K) \subseteq S
  BY <1>1, <1>2, <1>3, ReachedInduction
<1> QED
  BY <1>1, <1>4 DEF S

-----------------------------------------------------------------------------
(* What was written of s is in the instance, and is read back.             *)

(* Spots of two objects with the same place.                               *)
Same(x, y) ==
  /\ y.type = x.type
  /\ y.place = x.place
  /\ y.at = x.at
  /\ y.base = x.base
  /\ y.case = x.case

AllWritten(s) == \A y \in SpotsWritten(s) : Stored(instance, s, y)

(* Parts of spots with the same place have the same place if they are the  *)
(* same, or the same case of a union.                                      *)
LEMMA SameParts ==
  ASSUME NEW x, NEW y, Same(x, y), NEW k, NEW j,
         IF Kind[x.type] = "union" THEN CaseAt(x.type, j) = CaseAt(x.type, k)
         ELSE j = k
  PROVE  Same(PartSpot(x, k), PartSpot(y, j))
<1>1. CASE Kind[x.type] = "union"
  <2>1. /\ PartType(x.type, j) = PartType(x.type, k)
        /\ IdOf(x.type, j) = IdOf(x.type, k)
        /\ IsBasePart(x.type, j) = IsBasePart(x.type, k)
    BY <1>1 DEF PartType, IdOf, IsBasePart, Aggregates
  <2> QED
    BY <1>1, <2>1 DEF Same, PartSpot
<1>2. CASE Kind[x.type] # "union"
  BY <1>2 DEF Same, PartSpot
<1> QED
  BY <1>1, <1>2

LEMMA PointeeSpot ==
  ASSUME NEW x, IsPointer(x.type), NEW k
  PROVE  /\ PartSpot(x, k).at = x.at
         /\ PartSpot(x, k).base = FALSE
         /\ x.case \in BOOLEAN => PartSpot(x, k).case = x.case
<1>1. Kind[x.type] # "union" /\ ~IsBasePart(x.type, k)
  BY DEF IsPointer, IsBasePart
<1>2. IsBasePart(x.type, k) = FALSE
  BY <1>1 DEF IsBasePart
<1> QED
  BY <1>1, <1>2 DEF PartSpot

(* What sets something is there.                                           *)
LEMMA SetsIsStored ==
  ASSUME root \in Types, NEW s, ObjectOK(s, root), AllWritten(s),
         NEW x \in SpotsWritten(s), ~x.base, Sets(s, NodeOf(x))
  PROVE  x.at \in DOMAIN instance /\ OnlyCase(instance, x)
<1> DEFINE P == {d \in Nat : \A z \in SpotsWritten(s) :
                   Depth[z.type] < d /\ ~z.base /\ Sets(s, NodeOf(z)) =>
                     z.at \in DOMAIN instance /\ OnlyCase(instance, z)}
<1>1. \A z \in SpotsWritten(s) : z \in Spots /\ Depth[z.type] \in Nat
  BY ReachedIsSpot, SpotFacts, TypesAreNested DEF SpotsWritten
<1>2. 0 \in P
  BY <1>1
<1>3. Numbers(s.value)
  BY DEF ObjectOK, Shape, GoodObject
<1>4. ASSUME NEW d \in P
      PROVE  d + 1 \in P
  <2> SUFFICES ASSUME NEW z \in SpotsWritten(s), Depth[z.type] < d + 1,
                      ~z.base, Sets(s, NodeOf(z))
               PROVE  z.at \in DOMAIN instance /\ OnlyCase(instance, z)
    OBVIOUS
  <2>1. z \in Spots /\ NodeOf(z) \in Places /\ NodeOf(z).type = z.type
    BY <1>1, NodeOfIsPlace
  <2>2. LengthOf(s, z) \in Nat /\ (IsPointer(z.type) => LengthOf(s, z) \in {0, 1})
    BY WrittenGuide, SpotLengths DEF SpotsWritten
  <2>3. CASE ~IsPointer(z.type)
    <3>1. ~HasNothing(s, z)
      <4>1. Kind[z.type] = "vector" => LengthOf(s, NodeOf(z)) > 0
        BY <1>3, <2>1, SetsFacts
      <4> QED
        BY <2>1, <2>2, <4>1, SpotLength DEF HasNothing
    <3> QED
      BY <2>3, <3>1 DEF AllWritten, Stored, IsReal
  <2>4. CASE IsPointer(z.type)
    <3>1. PICK m \in Inside(s, NodeOf(z)) : Sets(s, m)
      BY <1>3, <2>1, <2>4, SetsFacts DEF IsPointer
    <3>2. PICK k \in Nat : /\ <<z, k>> \in PartsWritten(s)
                           /\ m = NodeOf(PartSpot(z, k))
      BY <2>1, <2>2, InsideIsPart
    <3> DEFINE w == PartSpot(z, k)
    <3>3. w \in SpotsWritten(s)
      BY <3>2, WrittenGuide, PartIsReached DEF SpotsWritten
    <3>4. w.at = z.at /\ w.base = FALSE /\ w.case = z.case
      BY <2>1, <2>4, PointeeSpot, SpotFacts
    <3>5. Depth[w.type] < Depth[z.type]
      <4>1. Depth[m.type] < Depth[NodeOf(z).type]
        BY <1>3, <2>1, InsideIsLower
      <4> HIDE DEF w
      <4>2. m.type = w.type
        BY <1>1, <3>2, <3>3, NodeOfIsPlace DEF w
      <4> QED
        BY <2>1, <4>1, <4>2
    <3> HIDE DEF w
    <3>6. Depth[w.type] < d
      BY <1>1, <3>3, <3>5
    <3>7. w.at \in DOMAIN instance /\ OnlyCase(instance, w)
      BY <3>1, <3>2, <3>3, <3>4, <3>6 DEF w
    <3> QED
      BY <3>4, <3>7 DEF OnlyCase
  <2> QED
    BY <2>3, <2>4
<1>5. P = Nat
  <2> HIDE DEF P
  <2>1. P \subseteq Nat
    BY DEF P
  <2> QED
    BY <1>2, <1>4, <2>1, SetInduction
<1>6. Depth[x.type] + 1 \in P /\ Depth[x.type] < Depth[x.type] + 1
  BY <1>1, <1>5
<1> QED
  BY <1>6

(* A case that sets something is the one selected.                         *)
LEMMA SelectedCase ==
  ASSUME root \in Types, NEW s, ObjectOK(s, root), AllWritten(s),
         NEW x \in SpotsWritten(s), Kind[x.type] = "union", NEW k,
         <<x, k>> \in PartsWritten(s), Sets(s, NodeOf(PartSpot(x, k)))
  PROVE  /\ Selected(x.type, x.at) = CaseAt(x.type, k)
         /\ CaseAt(x.type, k) \in 1..NCases(x.type)
         /\ CaseAt(x.type, k) = CaseHeld(s, x.type, x.path)
<1> DEFINE t == x.type
           c == CaseAt(t, k)
           z == PartSpot(x, k)
<1>1. x \in Spots /\ t \in Types /\ x.at \in Paths
  BY ReachedIsSpot, SpotFacts DEF SpotsWritten
<1>2. HasPart(x, k) /\ WritesPart(s, x, k) /\ k \in Nat
  BY <1>1, PartWritten DEF HasPart
<1>3. c \in 1..NCases(t) /\ c = CaseHeld(s, t, x.path)
  <2> DEFINE h == CaseHeld(s, t, x.path)
  <2>1. h \in 1..NCases(t) /\ Append(x.path, k) = DataOf(s, t, x.path, h)
    BY <1>2 DEF WritesPart
  <2> HIDE DEF h
  <2>2. c = h
    BY <1>1, <1>2, <2>1, CaseOfData
  <2> QED
    BY <2>1, <2>2 DEF h
<1>4. /\ z.at = Append(x.at, c)
      /\ z.base = FALSE
      /\ z.case = TRUE
  <2>1. ~IsPointer(t) /\ ~IsBasePart(t, k) /\ IdOf(t, k) = c
    BY DEF IsPointer, IsBasePart, IdOf
  <2> QED
    BY <2>1, PartFields
<1>5. z \in SpotsWritten(s)
  BY <1>2, WrittenGuide, PartIsReached DEF SpotsWritten
<1>6. Sets(s, NodeOf(z))
  OBVIOUS
<1> HIDE DEF z
<1>7. z.at \in DOMAIN instance /\ OnlyCase(instance, z)
  BY <1>4, <1>5, <1>6, SetsIsStored
<1>8. c \in Nat /\ Append(x.at, c) \in Paths /\ Front(Append(x.at, c)) = x.at
  <2>1. c \in Nat
    BY <1>3
  <2> HIDE DEF c
  <2> QED
    BY <1>1, <2>1, AppendLength
<1> HIDE DEF c
<1>9. ASSUME NEW d \in 1..NCases(t), Append(x.at, d) \in DOMAIN instance
      PROVE  d = c
  <2>1. d \in Nat /\ Append(x.at, d) \in Paths
    <3>1. d \in Nat
      OBVIOUS
    <3> QED
      BY <1>1, <3>1, AppendPath
  <2>2. IsIn(Append(x.at, d), x.at)
    BY <1>1, <2>1, AppendIsIn
  <2>3. IsAt(Append(x.at, d), Append(x.at, c))
    BY <1>4, <1>7, <1>8, <1>9, <2>2 DEF OnlyCase
  <2>4. Append(x.at, d)[Len(x.at) + 1] = c
    BY <1>1, <1>8, <2>1, <2>3, PartNumber
  <2> QED
    BY <1>1, <2>1, <2>4, AppendLength
<1>10. {d \in 1..NCases(t) : Append(x.at, d) \in DOMAIN instance} = {c}
  BY <1>3, <1>4, <1>7, <1>9
<1>11. Selected(t, x.at) = c
  BY <1>8, <1>10, FirstOfOnly DEF Selected
<1> QED
  BY <1>3, <1>11 DEF c

LEMMA CaseReadBack ==
  ASSUME NEW e, e.type \in Types, Kind[e.type] = "union",
         LabelsTellApart(e.type), CaseRead(e) # 0
  PROVE  CaseRead(e) = Selected(e.type, e.i)
<1> DEFINE t == e.type
           c == Selected(t, e.i)
<1>1. c # 0
  BY DEF CaseRead
<1>2. c \in 1..NCases(t)
  BY <1>1, FirstOfIsIn DEF Selected
<1> DEFINE d == IntCast(TagCast(t, Discriminator(t, c) % TagSize[t]))
<1>3. CaseRead(e) = CaseToGet(t, d)
  BY <1>1 DEF CaseRead, DiscriminatorValue, MemberId
<1> HIDE DEF c
<1>4. CaseToGet(t, d) \in {0, c}
  BY <1>2, TagOfCase
<1> QED
  BY <1>3, <1>4 DEF c

(* All of s was written and everything was read since.                     *)
ReadBack(s) ==
  /\ IsRoot
  /\ Numbers(instance)
  /\ ObjectOK(s, root)
  /\ ObjectOK(object, root)
  /\ AllWritten(s)
  /\ AllRead
  /\ \A t \in Types : Kind[t] = "union" => LabelsTellApart(t)

(* A part of a container that was written is read.                         *)
LEMMA ElementComesBack ==
  ASSUME NEW s, ReadBack(s), NEW x \in SpotsWritten(s),
         Kind[x.type] \in {"sequence", "vector", "range"}, NEW k \in Nat,
         WritesPart(s, x, k)
  PROVE  k \in 1..At(instance, x.at)
<1>1. /\ IsGuide(PartsWritten(s))
      /\ x \in Reached(root, PartsWritten(s))
      /\ root \in Types
      /\ Kind[root] \in {"struct", "derived"}
  BY WrittenGuide DEF SpotsWritten, ReadBack, IsRoot
<1>2. /\ LengthOf(s, x) \in Nat
      /\ LengthOf(s, x) = At(s.value, x.path)
  BY <1>1, SpotLengths DEF ReadBack
<1>3. k \in 1..LengthOf(s, x)
  BY DEF WritesPart, Wrappers
<1>4. IsReal(x)
  <2>1. ~IsPointer(x.type)
    BY DEF IsPointer
  <2>2. ~x.base
    BY <1>1, BaseIsClass
  <2> QED
    BY <2>1, <2>2 DEF IsReal
<1>5. ~HasNothing(s, x)
  BY <1>2, <1>3 DEF HasNothing
<1>6. HoldsValue(instance, s, x)
  BY <1>4, <1>5 DEF ReadBack, AllWritten, Stored
<1>7. At(instance, x.at) >= At(s.value, x.path) /\ At(instance, x.at) \in Nat
  BY <1>2, <1>6 DEF HoldsValue, ReadBack, Numbers, At
<1> QED
  BY <1>2, <1>3, <1>7

(* The case that was written is read.                                      *)
LEMMA CaseComesBack ==
  ASSUME NEW s, ReadBack(s), NEW x \in SpotsWritten(s), Kind[x.type] = "union",
         NEW y \in SpotsRead(object), Same(x, y), NEW k,
         <<x, k>> \in PartsWritten(s), Sets(s, NodeOf(PartSpot(x, k)))
  PROVE  /\ CaseIn(y) = CaseAt(x.type, k)
         /\ CaseAt(x.type, k) \in 1..NCases(x.type)
         /\ CaseAt(x.type, k) = CaseHeld(s, x.type, x.path)
         /\ CaseHeld(object, y.type, y.path) = CaseIn(y)
<1> DEFINE e == [type |-> y.type, i |-> y.at]
<1>1. e.type = x.type /\ e.i = x.at
  BY DEF Same
<1>2. CaseRead(e) = CaseIn(y)
  BY DEF CaseIn
<1> HIDE DEF e
<1>3. x.type \in Types
  BY ReachedIsSpot, SpotFacts DEF SpotsWritten
<1>4. /\ CaseIn(y) \in 1..NCases(x.type)
      /\ CaseHeld(object, y.type, y.path) = CaseIn(y)
  BY DEF ReadBack, AllRead, Got, Same
<1>5. CaseIn(y) # 0
  BY <1>4
<1>6. LabelsTellApart(x.type)
  BY <1>3 DEF ReadBack
<1>7. CaseRead(e) = Selected(x.type, x.at)
  BY <1>1, <1>2, <1>3, <1>5, <1>6, CaseReadBack
<1>8. /\ Selected(x.type, x.at) = CaseAt(x.type, k)
      /\ CaseAt(x.type, k) \in 1..NCases(x.type)
      /\ CaseAt(x.type, k) = CaseHeld(s, x.type, x.path)
  BY SelectedCase DEF ReadBack, IsRoot
<1> QED
  BY <1>2, <1>4, <1>7, <1>8

(* A part that sets something when it is written is read.                  *)
LEMMA PartComesBack ==
  ASSUME NEW s, ReadBack(s), NEW x \in SpotsWritten(s),
         NEW y \in SpotsRead(object), Same(x, y), NEW k,
         <<x, k>> \in PartsWritten(s), Sets(s, NodeOf(PartSpot(x, k)))
  PROVE  \E j \in Nat : /\ <<y, j>> \in PartsRead(object)
                        /\ Same(PartSpot(x, k), PartSpot(y, j))
<1> DEFINE t == x.type
<1>1. x \in Spots /\ y \in Spots /\ t \in Types /\ y.type = t /\ y.at = x.at
  BY ReachedIsSpot, ReadSpot, SpotFacts DEF SpotsWritten, Same
<1>2. HasPart(x, k) /\ WritesPart(s, x, k) /\ k \in Nat
  BY <1>1, PartWritten DEF HasPart
<1>3. CASE Kind[t] = "union"
  <2> DEFINE c == CaseAt(t, k)
  <2>1. CaseIn(y) = c /\ c \in 1..NCases(t)
    BY <1>3, CaseComesBack
  <2> HIDE DEF c
  <2> HIDE DEF t
  <2>a. Kind[y.type] = "union" /\ c \in 1..NCases(y.type)
    BY <1>1, <1>3, <2>1 DEF t
  <2>2. PICK j \in Nat : /\ HasPart(y, j)
                         /\ Append(y.path, j) = DataOf(object, y.type, y.path, c)
                         /\ CaseAt(y.type, j) = c
    BY <1>1, <2>a, DataIsPart
  <2>3. ReadsPart(object, y, j)
    BY <1>1, <1>3, <2>1, <2>2 DEF ReadsPart
  <2>4. <<y, j>> \in PartsRead(object)
    BY <1>1, <2>2, <2>3, PartRead
  <2>5. Same(PartSpot(x, k), PartSpot(y, j))
    BY <1>1, <1>3, <2>2, SameParts DEF c, t
  <2> QED
    BY <2>4, <2>5
<1>4. CASE Kind[t] # "union"
  <2>1. HasPart(y, k)
    BY <1>1, <1>2 DEF HasPart
  <2>2. Kind[t] \in {"sequence", "vector", "range"} =>
          k \in 1..At(instance, y.at)
    BY <1>1, <1>2, ElementComesBack
  <2>3. Kind[t] = "array" => k \in 1..ArrayLen
    BY <1>2 DEF WritesPart, Wrappers, LengthOf
  <2>4. Kind[t] = "optional" => y.at \in DOMAIN instance
    <3> SUFFICES ASSUME Kind[t] = "optional"
                 PROVE  x.at \in DOMAIN instance
      BY <1>1
    <3> DEFINE z == PartSpot(x, k)
    <3>0. IsPointer(x.type)
      BY DEF IsPointer
    <3>1. z.at = x.at /\ z.base = FALSE
      BY <3>0, PointeeSpot
    <3>2. z \in SpotsWritten(s)
      BY WrittenGuide, PartIsReached DEF SpotsWritten
    <3>3. Sets(s, NodeOf(z))
      OBVIOUS
    <3> HIDE DEF z
    <3>4. z.at \in DOMAIN instance
      BY <3>1, <3>2, <3>3, SetsIsStored DEF ReadBack, IsRoot
    <3> QED
      BY <3>1, <3>4
  <2>5. ReadsPart(object, y, k)
    BY <1>1, <1>4, <2>2, <2>3, <2>4 DEF ReadsPart
  <2>6. <<y, k>> \in PartsRead(object)
    BY <1>1, <2>1, <2>5, PartRead
  <2>7. Same(PartSpot(x, k), PartSpot(y, k))
    BY <1>4, SameParts
  <2> QED
    BY <1>2, <2>6, <2>7
<1> QED
  BY <1>3, <1>4

(* What sets something sets what it is in.                                 *)
LEMMA SetsAbove ==
  ASSUME root \in Types, NEW s, ObjectOK(s, root), NEW x \in SpotsWritten(s),
         NEW k, <<x, k>> \in PartsWritten(s), Sets(s, NodeOf(PartSpot(x, k)))
  PROVE  Sets(s, NodeOf(x))
<1> DEFINE n == NodeOf(x)
           m == NodeOf(PartSpot(x, k))
<1>1. x \in Spots
  BY ReachedIsSpot DEF SpotsWritten
<1>2. HasPart(x, k) /\ WritesPart(s, x, k) /\ k \in Nat
  BY <1>1, PartWritten DEF HasPart
<1>3. m \in Inside(s, n)
  BY <1>1, <1>2, PartIsInside
<1>4. /\ n \in Places
      /\ n.type = x.type
      /\ LengthOf(s, n) = LengthOf(s, x)
  BY <1>1, NodeOfIsPlace, SpotLength
<1>5. LengthOf(s, x) \in Nat
  BY WrittenGuide, SpotLengths DEF SpotsWritten
<1>6. Kind[n.type] = "vector" => LengthOf(s, n) > 0
  BY <1>2, <1>4, <1>5 DEF WritesPart, Wrappers
<1>7. Numbers(s.value)
  BY DEF ObjectOK, Shape, GoodObject
<1>8. Sets(s, m)
  OBVIOUS
<1> HIDE DEF n, m
<1>9. Sets(s, n)
  BY <1>3, <1>4, <1>6, <1>7, <1>8, SetsFacts
<1> QED
  BY <1>9 DEF n

(* What sets something when it is written is read into the same place.     *)
LEMMA ComesBack ==
  ASSUME NEW s, ReadBack(s), NEW x \in SpotsWritten(s), Sets(s, NodeOf(x))
  PROVE  \E y \in SpotsRead(object) : Same(x, y)
<1> DEFINE K == PartsWritten(s)
           S == {z \in Spots : Sets(s, NodeOf(z)) =>
                                 \E y \in SpotsRead(object) : Same(z, y)}
<1>1. IsGuide(K) /\ SpotsWritten(s) = Reached(root, K) /\ root \in Types
  BY WrittenGuide DEF SpotsWritten, ReadBack, IsRoot
<1>2. TopSpot(root) \in S
  <2>1. TopSpot(root) \in SpotsRead(object) /\ TopSpot(root) \in Spots
    BY <1>1, TopIsReached, ReachedIsSpot DEF SpotsRead
  <2> QED
    BY <2>1 DEF Same
<1>3. ASSUME NEW z \in Reached(root, K), z \in S, NEW k, <<z, k>> \in K
      PROVE  PartSpot(z, k) \in S
  <2>1. PartSpot(z, k) \in Spots
    BY <1>1, <1>3, PartIsReached, ReachedIsSpot
  <2> SUFFICES ASSUME Sets(s, NodeOf(PartSpot(z, k)))
               PROVE  \E y \in SpotsRead(object) : Same(PartSpot(z, k), y)
    BY <2>1
  <2>2. z \in SpotsWritten(s)
    BY <1>1
  <2>3. Sets(s, NodeOf(z))
    BY <1>1, <1>3, <2>2, SetsAbove DEF ReadBack
  <2>4. PICK y \in SpotsRead(object) : Same(z, y)
    BY <1>3, <2>3
  <2>5. PICK j \in Nat : /\ <<y, j>> \in PartsRead(object)
                         /\ Same(PartSpot(z, k), PartSpot(y, j))
    BY <1>3, <2>2, <2>4, PartComesBack
  <2> QED
    BY <2>5, PartOfRead
<1> HIDE DEF S, K
<1>4. Reached(root, K) \subseteq S
  BY <1>1, <1>2, <1>3, ReachedInduction
<1> QED
  BY <1>1, <1>4 DEF S

(* Where what was written of s is, and where it is read.                   *)
LEMMA WrittenFacts ==
  ASSUME root \in Types, NEW s, ObjectOK(s, root), NEW x \in SpotsWritten(s)
  PROVE  /\ x \in Spots
         /\ x.type \in Types
         /\ NodeOf(x) \in Places
         /\ NodeOf(x).type = x.type
         /\ NodeOf(x).path = x.path
         /\ NodeOf(x).place = x.place
         /\ LengthOf(s, NodeOf(x)) = LengthOf(s, x)
         /\ LengthOf(s, x) \in Nat
         /\ Kind[x.type] # "array" => LengthOf(s, x) = At(s.value, x.path)
         /\ IsPointer(x.type) => LengthOf(s, x) \in {0, 1}
         /\ At(s.value, x.path) \in Nat
         /\ Sized(x.type, At(s.value, x.path))
         /\ Numbers(s.value)
<1>1. /\ IsGuide(PartsWritten(s))
      /\ x \in Reached(root, PartsWritten(s))
  BY WrittenGuide DEF SpotsWritten
<1>2. x \in Spots
  BY <1>1, ReachedIsSpot
<1>3. /\ LengthOf(s, x) \in Nat
      /\ Kind[x.type] # "array" => LengthOf(s, x) = At(s.value, x.path)
      /\ IsPointer(x.type) => LengthOf(s, x) \in {0, 1}
  BY <1>1, SpotLengths
<1>4. /\ Sized(x.type, At(s.value, x.path))
      /\ At(s.value, x.path) \in Nat
      /\ Numbers(s.value)
  BY <1>1, SpotSized
<1> QED
  BY <1>2, <1>3, <1>4, SpotFacts, NodeOfIsPlace, SpotLength

LEMMA ReadFacts ==
  ASSUME NEW s, ReadBack(s), NEW y \in SpotsRead(object)
  PROVE  y \in SpotsWritten(object) /\ Got(object, y)
<1>1. SpotsRead(object) \subseteq SpotsWritten(object)
  BY ReadIsWritten DEF ReadBack, IsRoot
<1> QED
  BY <1>1 DEF ReadBack, AllRead

(* What a pointer or a union sets is a part of it.                         *)
LEMMA PartThatSets ==
  ASSUME root \in Types, NEW s, ObjectOK(s, root), NEW x \in SpotsWritten(s),
         Kind[x.type] \in {"optional", "smart_ptr", "union"},
         Sets(s, NodeOf(x))
  PROVE  \E k \in Nat : /\ <<x, k>> \in PartsWritten(s)
                        /\ PartSpot(x, k) \in SpotsWritten(s)
                        /\ Sets(s, NodeOf(PartSpot(x, k)))
                        /\ Depth[PartSpot(x, k).type] < Depth[x.type]
                        /\ IsPointer(x.type) => At(s.value, x.path) = 1
<1>1. /\ x \in Spots
      /\ NodeOf(x) \in Places
      /\ NodeOf(x).type = x.type
      /\ LengthOf(s, x) \in Nat
      /\ IsPointer(x.type) => LengthOf(s, x) \in {0, 1}
      /\ Kind[x.type] # "array" => LengthOf(s, x) = At(s.value, x.path)
      /\ Numbers(s.value)
  BY WrittenFacts
<1>2. PICK m \in Inside(s, NodeOf(x)) : Sets(s, m)
  BY <1>1, SetsFacts
<1>3. PICK k \in Nat : /\ <<x, k>> \in PartsWritten(s)
                       /\ m = NodeOf(PartSpot(x, k))
  BY <1>1, InsideIsPart
<1>4. PartSpot(x, k) \in SpotsWritten(s)
  BY <1>3, WrittenGuide, PartIsReached DEF SpotsWritten
<1>5. Depth[PartSpot(x, k).type] < Depth[x.type]
  <2>1. Depth[m.type] < Depth[NodeOf(x).type]
    BY <1>1, InsideIsLower
  <2>2. m.type = PartSpot(x, k).type
    BY <1>3, <1>4, WrittenFacts
  <2> QED
    BY <1>1, <2>1, <2>2
<1>6. IsPointer(x.type) => At(s.value, x.path) = 1
  <2> SUFFICES ASSUME IsPointer(x.type)
               PROVE  At(s.value, x.path) = 1
    OBVIOUS
  <2>1. WritesPart(s, x, k)
    BY <1>1, <1>3, PartWritten
  <2>2. k \in 1..LengthOf(s, x)
    BY <2>1 DEF WritesPart, IsPointer, Wrappers
  <2>3. LengthOf(s, x) = At(s.value, x.path)
    BY <1>1 DEF IsPointer
  <2> QED
    BY <1>1, <2>2, <2>3
<1> QED
  BY <1>2, <1>3, <1>4, <1>5, <1>6

(* Values of leaves and lengths come back.                                 *)
LEMMA ValueComesBack ==
  ASSUME NEW s, ReadBack(s), NEW x \in SpotsWritten(s),
         Kind[x.type] \in Leaves \cup {"sequence", "range", "vector"},
         Sets(s, NodeOf(x)), NEW y \in SpotsRead(object), Same(x, y)
  PROVE  IF Kind[x.type] \in {"sequence", "range"}
         THEN At(object.value, y.path) >= At(s.value, x.path)
         ELSE At(object.value, y.path) = At(s.value, x.path)
<1>1. root \in Types /\ ObjectOK(s, root) /\ ObjectOK(object, root)
  BY DEF ReadBack, IsRoot
<1>2. IsReal(x)
  <2>1. ~IsPointer(x.type)
    BY DEF IsPointer, Leaves
  <2>2. Kind[x.type] \notin {"struct", "derived"}
    BY DEF Leaves
  <2>3. ~x.base
    BY <2>2, WrittenGuide, BaseIsClass DEF SpotsWritten, ReadBack, IsRoot
  <2> QED
    BY <2>1, <2>3 DEF IsReal
<1>3. ~HasNothing(s, x)
  <2> SUFFICES ASSUME Kind[x.type] = "vector"
               PROVE  LengthOf(s, x) # 0
    BY DEF HasNothing
  <2>1. /\ NodeOf(x) \in Places
        /\ NodeOf(x).type = x.type
        /\ LengthOf(s, NodeOf(x)) = LengthOf(s, x)
        /\ LengthOf(s, x) \in Nat
        /\ Numbers(s.value)
    BY <1>1, WrittenFacts
  <2>2. LengthOf(s, NodeOf(x)) > 0
    BY <2>1, SetsFacts
  <2> QED
    BY <2>1, <2>2
<1>4. HoldsValue(instance, s, x)
  BY <1>2, <1>3 DEF ReadBack, AllWritten, Stored
<1>5. y.at = x.at /\ y.type = x.type
  BY DEF Same
<1>6. Got(object, y) /\ y \in SpotsWritten(object)
  BY ReadFacts
<1>7. At(s.value, x.path) \in Nat /\ At(object.value, y.path) \in Nat
  BY <1>1, <1>6, WrittenFacts
<1>8. At(instance, x.at) \in Nat
  BY DEF ReadBack, Numbers, At
<1>9. CASE Kind[x.type] \in {"sequence", "range"}
  <2>1. At(instance, x.at) >= At(s.value, x.path)
    BY <1>4, <1>9 DEF HoldsValue
  <2>2. At(object.value, y.path) >= At(instance, x.at)
    BY <1>5, <1>6, <1>7, <1>8, <1>9 DEF Got
  <2> QED
    BY <1>7, <1>8, <1>9, <2>1, <2>2
<1>10. CASE Kind[x.type] \in Leaves \cup {"vector"}
  <2>1. At(instance, x.at) = At(s.value, x.path)
    BY <1>4, <1>10 DEF HoldsValue
  <2>2. At(object.value, y.path) = At(instance, x.at)
    BY <1>5, <1>6, <1>10 DEF Got
  <2>3. Kind[x.type] \notin {"sequence", "range"}
    BY <1>10 DEF Leaves
  <2> QED
    BY <2>1, <2>2, <2>3
<1> QED
  BY <1>9, <1>10

(* What sets something when it is written does so when it is read.         *)
LEMMA SetsComeBack ==
  ASSUME NEW s, ReadBack(s), NEW x \in SpotsWritten(s), Sets(s, NodeOf(x)),
         NEW y \in SpotsRead(object), Same(x, y)
  PROVE  Sets(object, NodeOf(y))
<1> DEFINE P == {d \in Nat : \A z \in SpotsWritten(s), w \in SpotsRead(object) :
                   Depth[z.type] < d /\ Sets(s, NodeOf(z)) /\ Same(z, w) =>
                     Sets(object, NodeOf(w))}
<1>1. root \in Types /\ ObjectOK(s, root) /\ ObjectOK(object, root)
  BY DEF ReadBack, IsRoot
<1>2. \A z \in SpotsWritten(s) : z.type \in Types /\ Depth[z.type] \in Nat
  BY <1>1, WrittenFacts, TypesAreNested
<1>3. 0 \in P
  BY <1>2
<1>4. ASSUME NEW d \in P
      PROVE  d + 1 \in P
  <2> SUFFICES ASSUME NEW z \in SpotsWritten(s), NEW w \in SpotsRead(object),
                      Depth[z.type] < d + 1, Sets(s, NodeOf(z)), Same(z, w)
               PROVE  Sets(object, NodeOf(w))
    OBVIOUS
  <2>1. w \in SpotsWritten(object) /\ w.type = z.type
    BY ReadFacts DEF Same
  <2>2. /\ w \in Spots
        /\ NodeOf(w) \in Places
        /\ NodeOf(w).type = z.type
        /\ LengthOf(object, NodeOf(w)) = LengthOf(object, w)
        /\ Kind[z.type] # "array" =>
             LengthOf(object, w) = At(object.value, w.path)
        /\ Numbers(object.value)
    BY <1>1, <2>1, WrittenFacts
  <2>3. CASE Kind[z.type] = "vector"
    <3>1. /\ NodeOf(z) \in Places
          /\ NodeOf(z).type = z.type
          /\ LengthOf(s, NodeOf(z)) = LengthOf(s, z)
          /\ Kind[z.type] # "array" => LengthOf(s, z) = At(s.value, z.path)
          /\ Numbers(s.value)
      BY <1>1, WrittenFacts
    <3>2. At(s.value, z.path) > 0
      BY <2>3, <3>1, SetsFacts
    <3>3. At(object.value, w.path) = At(s.value, z.path)
      BY <2>3, ValueComesBack DEF Leaves
    <3> QED
      BY <2>2, <2>3, <3>2, <3>3, SetsFacts
  <2>4. CASE Kind[z.type] \in {"optional", "smart_ptr", "union"}
    <3>1. PICK k \in Nat : /\ <<z, k>> \in PartsWritten(s)
                           /\ PartSpot(z, k) \in SpotsWritten(s)
                           /\ Sets(s, NodeOf(PartSpot(z, k)))
                           /\ Depth[PartSpot(z, k).type] < Depth[z.type]
      BY <1>1, <2>4, PartThatSets
    <3>2. PICK j \in Nat : /\ <<w, j>> \in PartsRead(object)
                           /\ Same(PartSpot(z, k), PartSpot(w, j))
      BY <3>1, PartComesBack
    <3>3. PartSpot(w, j) \in SpotsRead(object)
      BY <3>2, PartOfRead
    <3>4. Depth[PartSpot(z, k).type] < d
      BY <1>2, <3>1
    <3>5. Sets(object, NodeOf(PartSpot(w, j)))
      BY <3>1, <3>2, <3>3, <3>4
    <3>6. <<w, j>> \in PartsWritten(object)
      BY <1>1, <3>2, ReadFacts, PartGot DEF ReadBack
    <3>7. NodeOf(PartSpot(w, j)) \in Inside(object, NodeOf(w))
      BY <2>2, <3>6, PartIsInside
    <3> QED
      BY <2>2, <2>4, <3>5, <3>7, SetsFacts
  <2>5. CASE Kind[z.type] \notin {"vector", "optional", "smart_ptr", "union"}
    BY <2>2, <2>5, SetsFacts
  <2> QED
    BY <2>3, <2>4, <2>5
<1>5. P = Nat
  <2> HIDE DEF P
  <2>1. P \subseteq Nat
    BY DEF P
  <2> QED
    BY <1>3, <1>4, <2>1, SetInduction
<1>6. Depth[x.type] + 1 \in P /\ Depth[x.type] < Depth[x.type] + 1
  BY <1>2, <1>5
<1> QED
  BY <1>6

LEMMA EntryComesBack ==
  ASSUME NEW s, ReadBack(s), NEW x \in SpotsWritten(s), Sets(s, NodeOf(x)),
         NEW y \in SpotsRead(object), Same(x, y)
  PROVE  IF Kind[x.type] \in {"sequence", "range"}
         THEN ValueOf(object, NodeOf(y)) >= ValueOf(s, NodeOf(x))
         ELSE ValueOf(object, NodeOf(y)) = ValueOf(s, NodeOf(x))
<1>1. root \in Types /\ ObjectOK(s, root) /\ ObjectOK(object, root)
  BY DEF ReadBack, IsRoot
<1>2. y \in SpotsWritten(object) /\ y.type = x.type
  BY ReadFacts DEF Same
<1>3. /\ x.type \in Types
      /\ NodeOf(x).type = x.type
      /\ NodeOf(x).path = x.path
      /\ Sized(x.type, At(s.value, x.path))
  BY <1>1, WrittenFacts
<1>4. /\ NodeOf(y).type = x.type
      /\ NodeOf(y).path = y.path
      /\ Sized(x.type, At(object.value, y.path))
  BY <1>1, <1>2, WrittenFacts
<1>5. Sets(object, NodeOf(y))
  BY SetsComeBack
<1>6. ValueOf(s, NodeOf(x)) =
        IF Kind[x.type] = "union" THEN CaseHeld(s, x.type, x.path)
        ELSE At(s.value, x.path)
  BY <1>3 DEF ValueOf
<1>7. ValueOf(object, NodeOf(y)) =
        IF Kind[x.type] = "union" THEN CaseHeld(object, x.type, y.path)
        ELSE At(object.value, y.path)
  BY <1>4, <1>5 DEF ValueOf
<1>8. CASE Kind[x.type] \in Leaves \cup {"sequence", "range", "vector"}
  <2>1. Kind[x.type] # "union"
    BY <1>8 DEF Leaves
  <2> QED
    BY <1>6, <1>7, <1>8, <2>1, ValueComesBack
<1>9. CASE Kind[x.type] \in {"optional", "smart_ptr"}
  <2>1. At(s.value, x.path) = 1
    BY <1>1, <1>9, PartThatSets DEF IsPointer
  <2>2. At(object.value, y.path) = 1
    BY <1>1, <1>2, <1>5, <1>9, PartThatSets DEF IsPointer
  <2> QED
    BY <1>6, <1>7, <1>9, <2>1, <2>2
<1>10. CASE Kind[x.type] = "union"
  <2>1. PICK k \in Nat : /\ <<x, k>> \in PartsWritten(s)
                         /\ Sets(s, NodeOf(PartSpot(x, k)))
    BY <1>1, <1>10, PartThatSets
  <2>2. /\ CaseIn(y) = CaseAt(x.type, k)
        /\ CaseAt(x.type, k) = CaseHeld(s, x.type, x.path)
        /\ CaseHeld(object, y.type, y.path) = CaseIn(y)
    BY <1>10, <2>1, CaseComesBack
  <2> QED
    BY <1>2, <1>6, <1>7, <1>10, <2>2
<1>11. CASE Kind[x.type] \in Aggregates \cup {"array"}
  <2>1. At(s.value, x.path) = 0 /\ At(object.value, y.path) = 0
    BY <1>3, <1>4, <1>11 DEF Sized
  <2>2. Kind[x.type] \notin {"union", "sequence", "range"}
    BY <1>11 DEF Aggregates
  <2> QED
    BY <1>6, <1>7, <2>1, <2>2
<1>12. Kind[x.type] \in Kinds
  BY <1>3, TypesAreAdapted
<1> QED
  BY <1>8, <1>9, <1>10, <1>11, <1>12 DEF Kinds, Wrappers

EntryOf(s, n) == [place |-> n.place, type |-> n.type, value |-> ValueOf(s, n)]

LEMMA NodeArrives ==
  ASSUME NEW s, ReadBack(s), NEW n \in Nodes(s)
  PROVE  Arrived(EntryOf(s, n), Contents(object))
<1> DEFINE e == EntryOf(s, n)
<1>1. root \in Types /\ ObjectOK(s, root) /\ ObjectOK(object, root)
  BY DEF ReadBack, IsRoot
<1>2. PICK x \in SpotsWritten(s) : n = NodeOf(x)
  BY <1>1, NodesAreSpots
<1>3. /\ n \in Places
      /\ n.type = x.type
      /\ n.place = x.place
      /\ Numbers(s.value)
  BY <1>1, <1>2, WrittenFacts
<1>4. e.place = x.place /\ e.type = x.type /\ e.value = ValueOf(s, n)
  BY <1>3 DEF EntryOf
<1>5. CASE ~Sets(s, n)
  <2>1. Kind[x.type] \in {"vector", "optional", "smart_ptr", "union"}
    BY <1>3, <1>5, SetsFacts
  <2>2. e.value = 0
    BY <1>4, <1>5 DEF ValueOf
  <2> HIDE DEF e
  <2>3. Arrived(e, Contents(object))
    BY <1>4, <2>1, <2>2 DEF Arrived
  <2> QED
    BY <2>3 DEF e
<1>6. CASE Sets(s, n)
  <2>1. Sets(s, NodeOf(x))
    BY <1>2, <1>6
  <2>2. PICK y \in SpotsRead(object) : Same(x, y)
    BY <2>1, ComesBack
  <2> DEFINE m == NodeOf(y)
             f == EntryOf(object, m)
  <2>3. y \in SpotsWritten(object) /\ y.type = x.type /\ y.place = x.place
    BY <2>2, ReadFacts DEF Same
  <2>4. m.type = x.type /\ m.place = x.place
    BY <1>1, <2>3, WrittenFacts
  <2>5. m \in Nodes(object)
    BY <1>1, <2>3, SpotsAreNodes
  <2>6. f \in Contents(object)
    BY <2>5 DEF Contents, EntryOf
  <2>7. IF Kind[x.type] \in {"sequence", "range"}
        THEN ValueOf(object, m) >= ValueOf(s, n)
        ELSE ValueOf(object, m) = ValueOf(s, n)
    BY <1>2, <2>1, <2>2, EntryComesBack
  <2>8. f.place = x.place /\ f.value = ValueOf(object, m)
    BY <2>4 DEF EntryOf
  <2>9. CASE Kind[x.type] \in {"sequence", "range"}
    <3>1. f.place = e.place /\ f.value >= e.value
      BY <1>4, <2>7, <2>8, <2>9
    <3> HIDE DEF e, f
    <3>2. Arrived(e, Contents(object))
      BY <1>4, <2>6, <2>9, <3>1 DEF Arrived
    <3> QED
      BY <3>2 DEF e
  <2>10. CASE Kind[x.type] \notin {"sequence", "range"}
    <3>1. f = e
      BY <1>3, <2>4, <2>7, <2>10 DEF EntryOf
    <3>2. e \in Contents(object)
      BY <2>6, <3>1
    <3> HIDE DEF e, f
    <3>3. Arrived(e, Contents(object))
      BY <1>4, <2>10, <3>2 DEF Arrived
    <3> QED
      BY <3>3 DEF e
  <2> QED
    BY <2>9, <2>10
<1> QED
  BY <1>5, <1>6

LEMMA ReadingArrives ==
  IInv /\ Typing /\ Delivery /\ Reading => AllArrives
<1> SUFFICES ASSUME IInv, Typing, Delivery, Reading, WholeRead
             PROVE  \A e \in message.written : Arrived(e, Contents(object))
  BY DEF AllArrives
<1>1. PICK s : WasWritten(s, instance, message)
  BY DEF WholeRead, Delivery, Delivered
<1>2. ReadBack(s)
  <2>1. IsRoot /\ Numbers(instance) /\ ObjectOK(object, root)
    BY DEF IInv, IsRoot, Typing
  <2>2. ObjectOK(s, root) /\ AllWritten(s)
    BY <1>1 DEF WasWritten, AllWritten
  <2>3. AllRead
    BY DEF WholeRead, Reading, AllRead
  <2> QED
    BY <2>1, <2>2, <2>3 DEF ReadBack, WholeRead
<1>3. message.written = {EntryOf(s, n) : n \in Nodes(s)}
  BY <1>1 DEF WasWritten, Contents, EntryOf
<1> QED
  BY <1>2, <1>3, NodeArrives

(* After a write_dynamicdata and a read_dynamicdata that both return, all  *)
(* that was written is where it was in the object, however the types are   *)
(* nested and whatever the DDS_DynamicData and the object held before:     *)
(* sequences and ranges are no shorter and everything else has the value   *)
(* it had, but for vectors, optionals, pointers and unions with nothing    *)
(* to set.                                                                 *)
THEOREM EverythingArrives == Spec => []AllArrives
<1> DEFINE Inv == IInv /\ Typing /\ Delivery /\ Reading
<1>1. Init => Inv
  BY InitInvariant, InitTyping, InitDelivery, InitReading
<1>2. Inv /\ [Next]_vars => Inv'
  <2>1. IInv => IsRoot
    BY DEF IInv, IsRoot
  <2> QED
    BY <2>1, StepInvariant, StepTyping, StepDelivery, StepReading
<1>3. Inv => AllArrives
  BY ReadingArrives
<1> QED
  BY <1>1, <1>2, <1>3, PTL DEF Spec

-----------------------------------------------------------------------------
(* What is in an instance that was blank: nothing but what was written.    *)

(* The length v of a sequence or range when n elements were written.       *)
LengthIs(v, n) == v = n \/ (n = 0 /\ v = 1)

OnlyWritten(s, w) ==
  /\ \A q \in DOMAIN w : \E z \in SpotsWritten(s) :
       z.at = q /\ IsReal(z) /\ ~HasNothing(s, z)
  /\ \A z \in SpotsWritten(s) :
       IsReal(z) /\ Kind[z.type] \in {"sequence", "range"} =>
         (z.at \in DOMAIN w => LengthIs(w[z.at], At(s.value, z.path)))

(* Two members are not in one place.                                       *)
LEMMA OneAtAPlace ==
  ASSUME IsRoot, NEW s, NEW x \in SpotsWritten(s), ~x.base,
         NEW z \in SpotsWritten(s), IsReal(z), z.at = x.at
  PROVE  IsAt(z.path, x.path) /\ (IsReal(x) => z = x)
<1> DEFINE K == PartsWritten(s)
<1>1. IsGuide(K) /\ root \in Types
  BY WrittenGuide DEF IsRoot
<1>2. x \in Reached(root, K) /\ z \in Reached(root, K)
  BY DEF SpotsWritten
<1>3. /\ x.at \in Paths
      /\ x.path \in Paths
      /\ z.path \in Paths
  BY WrittenSpot
<1>4. IsAt(z.at, x.at) /\ IsAt(x.at, z.at)
  BY <1>3, IsAtSame
<1> HIDE DEF K
<1>5. IsAt(z.path, x.path)
  BY <1>1, <1>2, <1>4, AtTellsPath DEF IsReal
<1>6. ASSUME IsReal(x)
      PROVE  z = x
  <2>1. IsAt(x.path, z.path)
    BY <1>1, <1>2, <1>4, <1>6, AtTellsPath DEF IsReal
  <2>2. x.path = z.path
    BY <1>3, <1>5, <2>1, IsAtBoth
  <2> QED
    BY <1>1, <1>2, <2>2, SpotUnique
<1> QED
  BY <1>5, <1>6

LEMMA WithMemberKeeps ==
  ASSUME NEW v, NEW q \in DOMAIN WithMember(v), q # Current.i
  PROVE  q \in DOMAIN instance /\ WithMember(v)[q] = instance[q]
<1> DEFINE others ==
             {p \in DOMAIN instance :
                Current.case /\ IsIn(p, Front(Current.i)) /\ ~IsAt(p, Current.i)}
           f == Only(instance, DOMAIN instance \ others)
<1>1. WithMember(v) = Put(f, Current.i, v)
  BY DEF WithMember
<1>2. /\ DOMAIN f = DOMAIN instance \cap (DOMAIN instance \ others)
      /\ \A p \in DOMAIN f : f[p] = instance[p]
  BY DEF Only
<1> HIDE DEF f, others
<1>3. q \in DOMAIN f /\ Put(f, Current.i, v)[q] = f[q]
  BY <1>1 DEF Put
<1> QED
  BY <1>1, <1>2, <1>3

(* What a step that sets a member leaves.                                  *)
LEMMA WithMemberIsWritten ==
  ASSUME IsRoot, OnlyWritten(object, instance), NEW x \in SpotsWritten(object),
         MatchesSet(x, Current), Current.op = "set", ~IsPointer(x.type),
         ~HasNothing(object, x), NEW v,
         Kind[x.type] \in {"sequence", "range"} =>
           LengthIs(v, At(object.value, x.path))
  PROVE  OnlyWritten(object, WithMember(v))
<1> DEFINE w == WithMember(v)
<1>1. IsReal(x) /\ w[x.at] = v
  BY WithMemberWrites
<1>2. x.at = Current.i
  BY DEF MatchesSet
<1>3. \A q \in DOMAIN w : q # x.at => q \in DOMAIN instance /\ w[q] = instance[q]
  BY <1>2, WithMemberKeeps
<1> HIDE DEF w
<1>4. ASSUME NEW q \in DOMAIN w
      PROVE  \E z \in SpotsWritten(object) :
               z.at = q /\ IsReal(z) /\ ~HasNothing(object, z)
  <2>1. CASE q = x.at
    BY <1>1, <2>1
  <2>2. CASE q # x.at
    BY <1>3, <2>2 DEF OnlyWritten
  <2> QED
    BY <2>1, <2>2
<1>5. ASSUME NEW z \in SpotsWritten(object), IsReal(z),
             Kind[z.type] \in {"sequence", "range"}, z.at \in DOMAIN w
      PROVE  LengthIs(w[z.at], At(object.value, z.path))
  <2>1. CASE z.at = x.at
    <3>1. z = x
      BY <1>1, <1>5, <2>1, OneAtAPlace DEF IsReal
    <3> QED
      BY <1>1, <1>5, <3>1
  <2>2. CASE z.at # x.at
    BY <1>3, <1>5, <2>2 DEF OnlyWritten
  <2> QED
    BY <2>1, <2>2
<1>6. OnlyWritten(object, w)
  BY <1>4, <1>5 DEF OnlyWritten
<1> QED
  BY <1>6 DEF w

LEMMA SetAllIsWritten ==
  ASSUME IsRoot, OnlyWritten(object, instance), NEW x \in SpotsWritten(object),
         MatchesSet(x, Current), Current.op = "set",
         Kind[x.type] \in Containers, Kind[Parts[x.type][1]] \in Leaves,
         ~HasNothing(object, x), NEW n \in Nat, n = LengthOf(object, x), SetAll(n)
  PROVE  OnlyWritten(object, instance')
<1> DEFINE m == WithMember(n)
           w == instance'
<1>1. /\ x \in Spots
      /\ x.path = Current.o
      /\ x.at = Current.i
      /\ x.at \in Paths
      /\ x.path \in Paths
      /\ root \in Types
  BY WrittenSpot DEF MatchesSet, IsRoot
<1>2. ~IsPointer(x.type) /\ Kind[x.type] \notin Leaves
  BY ContainersAre
<1>3. IsReal(x) /\ x.at \in DOMAIN m /\ m[x.at] = n
  BY <1>2, WithMemberWrites
<1>4. SetAllSet(w, x, n)
  BY <1>1, <1>3, WithMemberDomain, SetAllWrites
<1>5. Kind[x.type] \in {"sequence", "range"} =>
        LengthIs(n, At(object.value, x.path))
  BY DEF LengthOf, LengthIs
<1>6. OnlyWritten(object, m)
  BY <1>2, <1>5, WithMemberIsWritten
<1>7. ASSUME NEW k \in 1..n
      PROVE  LET z == PartSpot(x, k)
             IN /\ z \in SpotsWritten(object)
                /\ z.at = Append(x.at, k)
                /\ z.type = Parts[x.type][1]
                /\ ~z.base
  <2>1. k \in Nat
    OBVIOUS
  <2>2. HasPart(x, k) /\ WritesPart(object, x, k)
    BY <1>2, <1>7, <2>1
       DEF HasPart, WritesPart, Containers, Aggregates, IsPointer
  <2>3. <<x, k>> \in PartsWritten(object)
    BY <1>1, <2>1, <2>2, PartWritten
  <2> QED
    BY <1>1, <2>3, LeafPart
<1> HIDE DEF m, w
<1>8. ASSUME NEW q \in DOMAIN w
      PROVE  \E z \in SpotsWritten(object) :
               z.at = q /\ IsReal(z) /\ ~HasNothing(object, z)
  <2>1. CASE q \in DOMAIN m
    BY <1>6, <2>1 DEF OnlyWritten
  <2>2. CASE \E k \in 1..n : q = Append(x.at, k)
    <3>1. PICK k \in 1..n : q = Append(x.at, k)
      BY <2>2
    <3> DEFINE z == PartSpot(x, k)
    <3>2. z \in SpotsWritten(object) /\ z.at = q /\ z.type = Parts[x.type][1] /\ ~z.base
      BY <1>7, <3>1
    <3> HIDE DEF z
    <3>3. IsReal(z) /\ ~HasNothing(object, z)
      BY <3>2 DEF IsReal, IsPointer, HasNothing, Leaves
    <3> QED
      BY <3>2, <3>3
  <2> QED
    BY <1>4, <2>1, <2>2 DEF SetAllSet, m
<1>9. ASSUME NEW z \in SpotsWritten(object), IsReal(z),
             Kind[z.type] \in {"sequence", "range"}, z.at \in DOMAIN w
      PROVE  LengthIs(w[z.at], At(object.value, z.path))
  <2>1. CASE z = x
    BY <1>4, <1>5, <1>9, <2>1 DEF SetAllSet
  <2>2. CASE z # x /\ IsAt(z.at, x.at)
    <3>1. IsAt(z.path, x.path)
      <4>1. x \in Reached(root, PartsWritten(object))
        BY DEF SpotsWritten
      <4>2. z \in Reached(root, PartsWritten(object))
        BY DEF SpotsWritten
      <4> QED
        BY <1>1, <1>3, <1>9, <2>2, <4>1, <4>2, WrittenGuide, AtTellsPath DEF IsReal
    <3>2. PICK k \in Nat : /\ <<x, k>> \in PartsWritten(object)
                           /\ IsAt(z.path, Append(x.path, k))
      BY <1>1, <2>2, <3>1, PartsInside
    <3>3. /\ PartSpot(x, k).path = Append(x.path, k)
          /\ PartSpot(x, k).type = Parts[x.type][1]
          /\ \A y \in SpotsWritten(object) :
               IsAt(y.path, PartSpot(x, k).path) => y = PartSpot(x, k)
      BY <1>1, <3>2, LeafPart
    <3>4. z = PartSpot(x, k)
      BY <3>2, <3>3
    <3> QED
      BY <1>9, <3>3, <3>4 DEF Leaves
  <2>3. CASE ~IsAt(z.at, x.at)
    <3>1. z.at \in DOMAIN m
      <4>1. \A k \in 1..n : z.at # Append(x.at, k)
        <5> SUFFICES ASSUME NEW k \in 1..n, z.at = Append(x.at, k)
                     PROVE  FALSE
          OBVIOUS
        <5>1. k \in Nat
          OBVIOUS
        <5> QED
          BY <1>1, <2>3, <5>1, AppendIsIn
      <4> QED
        BY <1>4, <1>9, <4>1 DEF SetAllSet, m
    <3>2. w[z.at] = m[z.at]
      BY <1>4, <2>3, <3>1 DEF SetAllSet, m
    <3> QED
      BY <1>6, <1>9, <3>1, <3>2 DEF OnlyWritten
  <2> QED
    BY <2>1, <2>2, <2>3
<1>10. OnlyWritten(object, w)
  BY <1>8, <1>9 DEF OnlyWritten
<1> QED
  BY <1>10 DEF w

(* What the next step of a write sets, if anything.                        *)
SetsMember ==
  /\ Current.op = "set"
  /\ ~IsPointer(Current.type)
  /\ Kind[Current.type] # "vector"
  /\ \E v : /\ instance' = WithMember(v)
            /\ Kind[Current.type] \in {"sequence", "range"} =>
                 v \in LengthsFor(At(object.value, Current.o))

SetsElements ==
  /\ Current.op = "set"
  /\ Kind[Current.type] \in Containers
  /\ Kind[ElementType] \in Leaves
  /\ \E n \in Nat :
       /\ n = IF Kind[Current.type] = "array" THEN ArrayLen
              ELSE At(object.value, Current.o)
       /\ Kind[Current.type] = "vector" => n > 0
       /\ SetAll(n)

LEMMA SetMemberSets ==
  ASSUME Typing, SetMember
  PROVE  instance' = instance \/ SetsMember \/ SetsElements
<1> DEFINE n == At(object.value, Current.o)
<1>1. n \in Nat /\ ArrayLen \in Nat
  BY ConversionConstants DEF Typing, ObjectOK, Shape, GoodObject, Numbers, At
<1>2. \A t : Primitive(t) => Kind[t] \in Leaves
  BY DEF Primitive, Leaves
<1>3. CASE SetPrimitive \/ SetString \/ SetEnum
  BY <1>3 DEF SetPrimitive, SetString, SetEnum, Doing, SetLeaf, Set,
              SetsMember, IsPointer
<1>4. CASE SetStruct \/ SetSparse \/ SetArray \/ SetUnion
  BY <1>4 DEF SetStruct, SetSparse, SetArray, SetUnion, Doing, BindToSet,
              SetsMember, IsPointer
<1>5. CASE SetSequence \/ SetRange
  <2>1. PICK v \in LengthsFor(n) : instance' = WithMember(v)
    BY <1>5 DEF SetSequence, SetRange, SetElements
  <2> QED
    BY <1>5, <2>1 DEF SetSequence, SetRange, Doing, SetsMember, IsPointer
<1>6. CASE SetPrimitiveSequence \/ SetPrimitiveRange
  <2>1. /\ Current.op = "set"
        /\ Kind[Current.type] \in {"sequence", "range"}
        /\ Kind[ElementType] \in Leaves
        /\ SetAll(n)
    BY <1>2, <1>6 DEF SetPrimitiveSequence, SetPrimitiveRange, Doing
  <2> QED
    BY <1>1, <2>1 DEF SetsElements, Containers
<1>7. CASE SetPrimitiveArray
  <2>1. /\ Current.op = "set"
        /\ Kind[Current.type] = "array"
        /\ Kind[ElementType] \in Leaves
        /\ SetAll(ArrayLen)
    BY <1>2, <1>7 DEF SetPrimitiveArray, Doing
  <2> QED
    BY <1>1, <2>1 DEF SetsElements, Containers
<1>8. CASE SetVector
  <2>1. Current.op = "set" /\ Kind[Current.type] = "vector"
    BY <1>8 DEF SetVector, Doing
  <2>2. Kind[ElementType] \in Leaves
    <3>1. Current.type \in Types
      BY <1>8, CurrentOK DEF SetVector, Doing, StepOK, Steps
    <3> QED
      BY <2>1, <3>1, TypesAreAdapted DEF ElementType, Leaves
  <2>3. CASE n > 0
    <3>1. SetAll(n)
      BY <1>8, <2>3 DEF SetVector
    <3> QED
      BY <1>1, <2>1, <2>2, <2>3, <3>1 DEF SetsElements, Containers
  <2>4. CASE ~(n > 0)
    BY <1>8, <2>4 DEF SetVector
  <2> QED
    BY <2>3, <2>4
<1>9. CASE SetBase \/ SetOptional \/ SetSmartPtr \/ SetUnionCase
  BY <1>9 DEF SetBase, SetOptional, SetSmartPtr, SetUnionCase
<1> QED
  BY <1>3, <1>4, <1>5, <1>6, <1>7, <1>8, <1>9 DEF SetMember

(* A sequence does not become longer than what is written, but for one     *)
(* element that set_seq_length leaves.                                     *)
LEMMA LengthsAre ==
  ASSUME NEW n \in Nat, NEW v \in LengthsFor(n),
         Current.i \in DOMAIN instance => LengthIs(instance[Current.i], n)
  PROVE  LengthIs(v, n)
<1> DEFINE before == At(instance, Current.i)
<1>1. before = 0 \/ LengthIs(before, n)
  BY DEF At
<1>2. v \in IF n = 0 /\ before = 0 /\ Kind[ElementType] # "string" THEN {0, 1}
            ELSE {IF before > n THEN before ELSE n}
  BY DEF LengthsFor
<1> HIDE DEF before
<1> QED
  BY <1>1, <1>2 DEF LengthIs

LEMMA SetMemberIsWritten ==
  ASSUME IsRoot, Typing, Writing, call.what = "write", SetMember,
         ~object.mixed, OnlyWritten(object, instance)
  PROVE  OnlyWritten(object, instance')
<1>1. /\ todo # <<>>
      /\ call.ended = "running"
      /\ Current.op \in {"set", "set_base", "set_union"}
  BY SetMemberSteps
<1>2. PICK x \in SpotsWritten(object) : MatchesSet(x, Current)
  BY <1>1, CurrentWrites
<1>3. x.type = Current.type /\ x.path = Current.o /\ x.at = Current.i
  BY <1>2 DEF MatchesSet
<1>4. CASE SetsMember
  <2>1. PICK v : /\ instance' = WithMember(v)
                 /\ Kind[Current.type] \in {"sequence", "range"} =>
                      v \in LengthsFor(At(object.value, Current.o))
    BY <1>4 DEF SetsMember
  <2>2. ~IsPointer(x.type) /\ ~HasNothing(object, x) /\ Current.op = "set"
    BY <1>3, <1>4 DEF SetsMember, HasNothing
  <2>3. IsReal(x)
    BY <1>2, <2>2, WithMemberWrites
  <2>4. ASSUME Kind[x.type] \in {"sequence", "range"}
        PROVE  LengthIs(v, At(object.value, x.path))
    <3>1. x.at \in DOMAIN instance =>
            LengthIs(instance[x.at], At(object.value, x.path))
      BY <2>3, <2>4 DEF OnlyWritten
    <3>2. At(object.value, x.path) \in Nat
      BY DEF Typing, ObjectOK, Shape, GoodObject, Numbers, At
    <3> QED
      BY <1>3, <2>1, <2>4, <3>1, <3>2, LengthsAre
  <2> QED
    BY <1>2, <2>1, <2>2, <2>4, WithMemberIsWritten
<1>5. CASE SetsElements
  <2>1. PICK n \in Nat :
          /\ n = IF Kind[Current.type] = "array" THEN ArrayLen
                 ELSE At(object.value, Current.o)
          /\ Kind[Current.type] = "vector" => n > 0
          /\ SetAll(n)
    BY <1>5 DEF SetsElements
  <2>2. /\ Current.op = "set"
        /\ Kind[x.type] \in Containers
        /\ Kind[Parts[x.type][1]] \in Leaves
    BY <1>3, <1>5 DEF SetsElements, ElementType
  <2>3. n = LengthOf(object, x)
    BY <1>3, <2>1 DEF LengthOf
  <2>4. ~HasNothing(object, x)
    BY <1>3, <2>1, <2>3 DEF HasNothing
  <2> QED
    BY <1>2, <2>1, <2>2, <2>3, <2>4, SetAllIsWritten
<1> QED
  BY <1>4, <1>5, SetMemberSets

-----------------------------------------------------------------------------
(* A write to a blank instance.                                            *)

WasWrittenAlone(s, w, m) == WasWritten(s, w, m) /\ OnlyWritten(s, w)

Alone ==
  /\ /\ call.what = "write"
     /\ call.ended = "running"
     /\ message.blank
     /\ ~object.mixed
     => OnlyWritten(object, instance)
  /\ message.whole /\ ~message.mixed /\ message.blank =>
       \E s : WasWrittenAlone(s, instance, message)

(* Where nothing of the message or the instance changes.                   *)
LEMMA SameAlone ==
  ASSUME Alone, UNCHANGED <<root, instance, message>>
  PROVE  message'.whole /\ ~message'.mixed /\ message'.blank =>
           (\E s : WasWrittenAlone(s, instance, message))'
<1>1. \A s : /\ SpotsWritten(s)' = SpotsWritten(s)
             /\ Contents(s)' = Contents(s)
             /\ ObjectOK(s, root)' = ObjectOK(s, root)
  <2>1. \A s : PartsWritten(s)' = PartsWritten(s)
    BY DEF PartsWritten, WritesPart, LengthOf
  <2> QED
    BY <2>1 DEF SpotsWritten, Contents, Nodes
<1> QED
  BY <1>1 DEF Alone, WasWrittenAlone, WasWritten, OnlyWritten

LEMMA SameOnlyWritten ==
  ASSUME UNCHANGED <<root, object>>
  PROVE  OnlyWritten(object, instance)' <=> OnlyWritten(object, instance')
<1>1. SpotsWritten(object)' = SpotsWritten(object)
  <2>1. PartsWritten(object)' = PartsWritten(object)
    BY DEF PartsWritten, WritesPart, LengthOf
  <2> QED
    BY <2>1 DEF SpotsWritten
<1> QED
  BY <1>1 DEF OnlyWritten

LEMMA SetMemberAlone ==
  ASSUME IsRoot, Typing, Delivery, Alone, SetMember
  PROVE  Alone'
<1>1. /\ call.what = "write"
      /\ call.ended = "running"
      /\ UNCHANGED <<root, object, call, message>>
  BY SetMemberSteps, WriteIsRunning
<1>2. Writing /\ ~message.whole
  BY <1>1 DEF Delivery, Writing
<1>3. ASSUME message.blank, ~object.mixed
      PROVE  OnlyWritten(object, instance')
  <2>1. OnlyWritten(object, instance)
    BY <1>1, <1>3 DEF Alone
  <2> QED
    BY <1>1, <1>2, <1>3, <2>1, SetMemberIsWritten
<1> QED
  BY <1>1, <1>2, <1>3, SameOnlyWritten DEF Alone

(* A write that returns has written to a blank instance nothing but that.  *)
LEMMA ReturnAlone ==
  ASSUME Typing, Delivery, Alone, Return
  PROVE  Alone'
<1>1. /\ call.ended = "running"
      /\ UNCHANGED <<root, object, instance>>
  BY DEF Return
<1>2. call'.ended = "returned"
  BY DEF Return, Delivery, CallOK
<1>3. CASE call.what = "write"
  <2>1. message' = [message EXCEPT !.whole = TRUE]
    BY <1>3 DEF Return
  <2>2. message'.mixed = message.mixed /\ message'.blank = message.blank
    BY <2>1 DEF Delivery, CallOK
  <2>3. message.mixed = object.mixed
    BY <1>1, <1>3 DEF Delivery, Writing
  <2>4. ASSUME ~message.mixed, message.blank
        PROVE  WasWrittenAlone(object, instance, message)'
    <3>1. WasWritten(object, instance, message)'
      BY <1>3, <2>4, ReturnWrites
    <3>2. OnlyWritten(object, instance)
      BY <1>1, <1>3, <2>3, <2>4 DEF Alone
    <3>3. OnlyWritten(object, instance)'
      BY <1>1, <3>2, SameOnlyWritten
    <3> QED
      BY <3>1, <3>3 DEF WasWrittenAlone
  <2> QED
    BY <1>2, <2>2, <2>4 DEF Alone
<1>4. CASE call.what # "write"
  <2>1. UNCHANGED <<root, instance, message>>
    BY <1>4 DEF Return
  <2> QED
    BY <1>2, <2>1, SameAlone DEF Alone
<1> QED
  BY <1>3, <1>4

LEMMA StepAlone ==
  IsRoot /\ Typing /\ Delivery /\ Alone /\ [Next]_vars => Alone'
<1> SUFFICES ASSUME IsRoot, Typing, Delivery, Alone, [Next]_vars
             PROVE  Alone'
  OBVIOUS
<1>1. CallOK
  BY DEF Delivery
<1>2. CASE Write
  <2>1. /\ message'.whole = FALSE
        /\ message'.blank = (instance = <<>>)
        /\ UNCHANGED <<root, object, instance>>
    BY <1>2 DEF Write
  <2>2. instance = <<>> => OnlyWritten(object, instance)
    BY DEF OnlyWritten
  <2> QED
    BY <2>1, <2>2, SameOnlyWritten DEF Alone
<1>3. CASE SetMember
  BY <1>3, SetMemberAlone
<1>4. ASSUME UNCHANGED <<root, instance, message>>,
             ~(call'.what = "write" /\ call'.ended = "running")
      PROVE  Alone'
  BY <1>4, SameAlone DEF Alone
<1>5. CASE GetMember \/ Read
  <2>1. UNCHANGED <<root, instance, message>> /\ call'.what = "read"
    BY <1>5, ReadIsRunning, GetMemberSteps DEF Read
  <2> QED
    BY <1>4, <2>1
<1>6. CASE Unbind \/ Unwind \/ UNCHANGED vars
  <2>1. UNCHANGED <<root, object, instance, call, message>>
    BY <1>6 DEF Unbind, Unwind, vars
  <2> QED
    BY <2>1, SameAlone, SameOnlyWritten DEF Alone
<1>7. CASE Throw
  <2>1. call'.ended = "thrown"
    BY <1>1, <1>7 DEF Throw, CallOK
  <2>2. CASE call.what = "write"
    <3>1. message'.whole = FALSE
      BY <1>7, <2>2 DEF Throw, NoMessage
    <3> QED
      BY <2>1, <3>1 DEF Alone
  <2>3. CASE call.what # "write"
    <3>1. UNCHANGED <<root, instance, message>>
      BY <1>7, <2>3 DEF Throw
    <3> QED
      BY <1>4, <2>1, <3>1
  <2> QED
    BY <2>2, <2>3
<1>8. CASE Return
  BY <1>8, ReturnAlone
<1>9. CASE NewInstance
  <2>1. message'.whole = FALSE /\ call'.what = "none"
    BY <1>9 DEF NewInstance, NoMessage, NoCall
  <2> QED
    BY <2>1 DEF Alone
<1>10. CASE \E s : Change(s)
  <2>1. UNCHANGED <<root, instance, message>> /\ call'.what = "none"
    BY <1>10 DEF Change, NoCall
  <2> QED
    BY <1>4, <2>1
<1>11. NewObject => \E s : Change(s)
  BY DEF NewObject
<1>12. ASSUME NEW n, NEW v, Assign(n, v)
       PROVE  \E s : Change(s)
  BY <1>12 DEF Assign
<1>13. ASSUME NEW t, NEW o, UseUnion(t, o)
       PROVE  \E s : Change(s)
  BY <1>13 DEF UseUnion
<1> QED
  BY <1>2, <1>3, <1>5, <1>6, <1>7, <1>8, <1>9, <1>10, <1>11, <1>12, <1>13
     DEF Next

LEMMA InitAlone == Init => Alone
BY DEF Init, NoCall, NoMessage, Alone

-----------------------------------------------------------------------------
(* What a read puts into an object.                                        *)

(* Of two objects, w has something that s does not have only in G.         *)
PutsOnly(s, w, G) ==
  /\ \A p : p \notin G => At(w.value, p) \in {At(s.value, p), 0}
  /\ w.fresh => s.fresh
  /\ s.mixed => w.mixed

LEMMA PutsNothing ==
  ASSUME NEW s, NEW G
  PROVE  PutsOnly(s, s, G)
BY DEF PutsOnly

LEMMA PutsTwice ==
  ASSUME NEW s, NEW w, NEW x, NEW G, PutsOnly(s, w, G), PutsOnly(w, x, G)
  PROVE  PutsOnly(s, x, G)
BY DEF PutsOnly

LEMMA PutsMore ==
  ASSUME NEW s, NEW w, NEW G, NEW H, PutsOnly(s, w, G), G \subseteq H
  PROVE  PutsOnly(s, w, H)
BY DEF PutsOnly

LEMMA ResizedPuts ==
  ASSUME NEW s, Shape(s), NEW p \in Paths, NEW n \in Nat
  PROVE  PutsOnly(s, Resized(s, p, n), {p}) /\ Shape(Resized(s, p, n))
<1> DEFINE gone == {q \in Held(s) : IsIn(q, p) /\ q[Len(p) + 1] > n}
           w == Without(s, gone)
           v == IF n = 0 THEN Only(w.value, DOMAIN w.value \ {p})
                ELSE Put(w.value, p, n)
           x == Resized(s, p, n)
<1>1. Shape(w) /\ Lost(s, w, gone)
  BY WithoutLost
<1>2. x = [w EXCEPT !.value = v]
  BY DEF Resized
<1>3. GoodObject(x)
  BY ResizedIsGood DEF Shape
<1> HIDE DEF gone
<1>4. ASSUME NEW q, q # p
      PROVE  At(v, q) = At(w.value, q)
  <2> HIDE DEF w
  <2> QED
    BY <1>4 DEF At, Put, Only
<1>5. DOMAIN v \subseteq Paths
  <2> HIDE DEF w
  <2> QED
    BY <1>1 DEF Shape, Put, Only
<1> HIDE DEF w, v
<1>6. SameFields(w, x) /\ x.value = v
  BY <1>1, <1>2 DEF Shape, GoodObject, ObjectFields, SameFields
<1> HIDE DEF x
<1>7. Shape(x)
  BY <1>1, <1>3, <1>5, <1>6 DEF Shape, SameFields
<1>8. ASSUME NEW q, q # p
      PROVE  At(x.value, q) \in {At(s.value, q), 0}
  <2>1. At(x.value, q) = At(w.value, q)
    BY <1>4, <1>6, <1>8
  <2>2. Alike(s, w, q) \/ Cleared(w, q)
    BY <1>1 DEF Lost
  <2> QED
    BY <2>1, <2>2 DEF Alike, Cleared
<1> QED
  BY <1>1, <1>6, <1>7, <1>8 DEF PutsOnly, Lost, SameFields, x

LEMMA WithElementsPuts ==
  ASSUME NEW s, Shape(s), NEW n \in Nat
  PROVE  PutsOnly(s, WithElements(s, n),
                  {Append(Current.o, k) : k \in 1..n})
<1> DEFINE o == Current.o
           i == Current.i
           kept == {q \in DOMAIN s.value : ~IsIn(q, o) \/ q[Len(o) + 1] > n}
           elements == {Append(o, k) : k \in
                          {k \in 1..n : At(instance, Append(i, k)) # 0}}
           v == [q \in kept \cup elements |->
                   IF q \in elements THEN instance[Append(i, q[Len(q)])]
                   ELSE s.value[q]]
           x == WithElements(s, n)
<1>1. x = [s EXCEPT !.value = v]
  BY DEF WithElements
<1>2. elements \subseteq {Append(o, k) : k \in 1..n}
  OBVIOUS
<1> HIDE DEF elements
<1>3. ASSUME NEW q, q \notin elements
      PROVE  At(v, q) \in {At(s.value, q), 0}
  BY <1>3 DEF At
<1> HIDE DEF v
<1>4. x.value = v /\ x.fresh = s.fresh /\ x.mixed = s.mixed
  BY <1>1 DEF Shape, GoodObject, ObjectFields
<1> HIDE DEF x
<1>5. PutsOnly(s, x, {Append(o, k) : k \in 1..n})
  BY <1>2, <1>3, <1>4 DEF PutsOnly
<1> QED
  BY <1>5 DEF x

LEMMA WithVariantPuts ==
  ASSUME NEW s, Shape(s), NEW t, NEW o \in Paths, NEW c \in Nat
  PROVE  PutsOnly(s, WithVariant(s, t, o, c), {o})
         /\ ~WithVariant(s, t, o, c).fresh
<1> DEFINE old == {q \in Held(s) : IsIn(q, o) /\ q[Len(o) + 1] <= NCases(t)}
           w == Without(s, old)
           y == [w EXCEPT !.value = Put(w.value, o, c),
                          !.meant = Put(w.meant, o, c), !.fresh = FALSE]
           x == WithVariant(s, t, o, c)
<1>1. Shape(w) /\ Lost(s, w, old)
  BY WithoutLost
<1>2. x = Noted(y, t, o)
  BY DEF WithVariant
<1> HIDE DEF old, w
<1>3. /\ DOMAIN y = DOMAIN w
      /\ y.value = Put(w.value, o, c)
      /\ y.mixed = w.mixed
      /\ y.fresh = FALSE
  BY <1>1 DEF Shape, GoodObject, ObjectFields
<1>4. {"value", "mixed", "fresh"} \subseteq DOMAIN y
  BY <1>1, <1>3 DEF Shape, GoodObject, ObjectFields
<1> HIDE DEF y
<1>5. /\ x.value = y.value
      /\ x.fresh = FALSE
      /\ y.mixed => x.mixed
  BY <1>2, <1>3, <1>4 DEF Noted
<1> HIDE DEF x
<1>6. ASSUME NEW q, q # o
      PROVE  At(x.value, q) \in {At(s.value, q), 0}
  <2>1. At(x.value, q) = At(w.value, q)
    BY <1>3, <1>5, <1>6 DEF At, Put
  <2>2. Alike(s, w, q) \/ Cleared(w, q)
    BY <1>1 DEF Lost
  <2> QED
    BY <2>1, <2>2 DEF Alike, Cleared
<1>7. s.mixed => x.mixed
  BY <1>1, <1>3, <1>5 DEF Lost
<1> QED
  BY <1>5, <1>6, <1>7 DEF PutsOnly, x

Elements(o) == {Append(o, k) : k \in Nat}

(* Nothing is put into an object by a read but at the place of the next    *)
(* step, and the elements there that are leaves.                           *)
PutsHere ==
  \/ PutsOnly(object, object', {Current.o})
  \/ /\ Kind[Current.type] \in Containers
     /\ Kind[ElementType] \in Leaves
     /\ PutsOnly(object, object', {Current.o} \cup Elements(Current.o))

LEMMA ElementsPut ==
  ASSUME NEW s, Shape(s), PutsOnly(object, s, {Current.o}), NEW n \in Nat
  PROVE  PutsOnly(object, WithElements(s, n),
                  {Current.o} \cup Elements(Current.o))
<1> DEFINE G == {Current.o} \cup Elements(Current.o)
           E == {Append(Current.o, k) : k \in 1..n}
           w == WithElements(s, n)
<1>1. PutsOnly(s, w, E)
  BY WithElementsPuts
<1>2. E \subseteq G /\ {Current.o} \subseteq G
  BY DEF Elements
<1> HIDE DEF E, w, G
<1>3. PutsOnly(s, w, G) /\ PutsOnly(object, s, G)
  BY <1>1, <1>2, PutsMore
<1> QED
  BY <1>3, PutsTwice DEF w, G

LEMMA PrimitiveIsLeaf ==
  ASSUME NEW t, Primitive(t)
  PROVE  Kind[t] \in Leaves
BY DEF Primitive, Leaves

LEMMA GetMemberPuts ==
  ASSUME IsRoot, Typing, GetMember
  PROVE  PutsHere
<1> DEFINE o == Current.o
           n == At(instance, Current.i)
<1>1. /\ todo # <<>>
      /\ StepOK(Current)
      /\ Shape(object)
      /\ n \in Nat
      /\ o \in Paths
      /\ Current.type \in Types
  BY GetMemberSteps, CurrentOK, MemberNumber, PlacedIsType
     DEF Typing, ObjectOK, StepOK
<1>2. PutsOnly(object, object, {o})
  BY PutsNothing
<1>3. /\ PutsOnly(object, Resized(object, o, n), {o})
      /\ Shape(Resized(object, o, n))
  BY <1>1, ResizedPuts
<1>4. CASE GetPrimitive \/ GetString \/ GetEnum
  BY <1>3, <1>4 DEF GetPrimitive, GetString, GetEnum, GetLeaf, Get, PutsHere
<1>5. CASE GetBase \/ GetStruct \/ GetSparse \/ GetRange \/ GetArray \/ GetUnion
  BY <1>2, <1>5 DEF GetBase, GetStruct, GetSparse, GetRange, GetArray,
                    GetUnion, BindToGet, PutsHere
<1>6. CASE GetPrimitiveSequence \/ GetVector
  <2>1. object' = WithElements(Resized(object, o, n), n)
    BY <1>6 DEF GetPrimitiveSequence, GetVector, GetAll, Get
  <2>2. Kind[Current.type] \in Containers
    BY <1>6 DEF GetPrimitiveSequence, GetVector, Doing, Containers
  <2>3. Kind[ElementType] \in Leaves
    <3>1. CASE GetPrimitiveSequence
      BY <3>1, PrimitiveIsLeaf DEF GetPrimitiveSequence
    <3>2. CASE GetVector
      <4>1. Kind[Current.type] = "vector"
        BY <3>2 DEF GetVector, Doing
      <4> QED
        BY <1>1, <4>1, TypesAreAdapted DEF ElementType, Leaves
    <3> QED
      BY <1>6, <3>1, <3>2
  <2> QED
    BY <1>1, <1>3, <2>1, <2>2, <2>3, ElementsPut DEF PutsHere
<1>7. CASE GetPrimitiveArray \/ GetPrimitiveRange
  <2>1. PICK m \in Nat : object' = WithElements(object, m)
    BY <1>1, <1>7, ConversionConstants
       DEF GetPrimitiveArray, GetPrimitiveRange, Get
  <2>2. Kind[Current.type] \in Containers
    BY <1>7 DEF GetPrimitiveArray, GetPrimitiveRange, Doing, Containers
  <2>3. Kind[ElementType] \in Leaves
    BY <1>7, PrimitiveIsLeaf DEF GetPrimitiveArray, GetPrimitiveRange
  <2> QED
    BY <1>1, <1>2, <2>1, <2>2, <2>3, ElementsPut DEF PutsHere
<1>8. CASE GetSequence
  <2>1. PICK s \in RightSizes(n) : object' = s
    BY <1>8 DEF GetSequence, BindToGet
  <2> DEFINE w == Resized(object, o, 0)
  <2>2. PutsOnly(object, w, {o}) /\ Shape(w)
    BY <1>1, ResizedPuts
  <2>3. object' = Resized(object, o, n) \/ object' = Resized(w, o, n)
    BY <2>1 DEF RightSizes
  <2> HIDE DEF w
  <2>4. PutsOnly(w, Resized(w, o, n), {o})
    BY <1>1, <2>2, ResizedPuts
  <2> QED
    BY <1>3, <2>2, <2>3, <2>4, PutsTwice DEF PutsHere
<1>9. CASE GetOptional \/ GetSmartPtr
  <2>1. object' = object \/ object' = Resized(object, o, 1)
    BY <1>9 DEF GetOptional, GetSmartPtr, GetPointed
  <2>2. PutsOnly(object, Resized(object, o, 1), {o})
    BY <1>1, ResizedPuts
  <2> QED
    BY <1>2, <2>1, <2>2 DEF PutsHere
<1>10. CASE GetUnionCase
  <2> DEFINE t == Current.type
             c == CaseRead(Current)
  <2>1. object' = object \/ object' = WithVariant(object, t, o, c)
    BY <1>10 DEF GetUnionCase
  <2>2. c \in Nat
    <3>1. Kind[t] = "union"
      BY <1>10 DEF GetUnionCase, Doing
    <3>2. NCases(t) \in Nat
      BY <1>1, <3>1, CaseFacts
    <3>3. c = 0 \/ c \in 1..NCases(t)
      BY FirstOfIsIn DEF CaseRead, CaseToGet
    <3> QED
      BY <3>2, <3>3
  <2> HIDE DEF c
  <2>3. PutsOnly(object, WithVariant(object, t, o, c), {o})
    BY <1>1, <2>2, WithVariantPuts
  <2> QED
    BY <1>2, <2>1, <2>3 DEF PutsHere
<1>11. CASE Activate
  <2>1. /\ object'.value = object.value
        /\ object'.fresh = object.fresh
        /\ object'.mixed = object.mixed
    BY <1>1, <1>11 DEF Activate, Get, SetActiveIndex, Shape, GoodObject,
                       ObjectFields
  <2> QED
    BY <2>1 DEF PutsHere, PutsOnly
<1> QED
  BY <1>4, <1>5, <1>6, <1>7, <1>8, <1>9, <1>10, <1>11 DEF GetMember

(* An optional is only set if there is a member for it.                    *)
LEMMA OptionalPuts ==
  ASSUME GetMember, Kind[Current.type] = "optional", object' # object
  PROVE  Current.op = "get" /\ Current.i \in DOMAIN instance
<1>1. GetOptional
  BY DEF GetMember, GetPrimitive, GetString, GetEnum, GetBase, GetStruct,
         GetSparse, GetPrimitiveSequence, GetVector, GetPrimitiveRange,
         GetPrimitiveArray, GetSequence, GetRange, GetArray, GetSmartPtr,
         GetUnion, GetUnionCase, Activate, Doing
<1> QED
  BY <1>1 DEF GetOptional, Doing

(* Where optionals are set after a step of a read.                         *)
LEMMA GetMemberOptionals ==
  ASSUME IsRoot, Typing, GetMember, NEW t, NEW p, Placed(root, t, p),
         Kind[t] = "optional", At(object'.value, p) # 0
  PROVE  \/ At(object.value, p) # 0
         \/ /\ Current.op = "get"
            /\ p = Current.o
            /\ Current.i \in DOMAIN instance
<1> SUFFICES ASSUME At(object.value, p) = 0
             PROVE  /\ Current.op = "get"
                    /\ p = Current.o
                    /\ Current.i \in DOMAIN instance
  OBVIOUS
<1>1. PutsHere
  BY GetMemberPuts
<1>2. StepOK(Current)
  BY GetMemberSteps, CurrentOK
<1>3. Placed(root, Current.type, Current.o)
  BY <1>2 DEF StepOK
<1>4. ASSUME Kind[Current.type] \in Containers, Kind[ElementType] \in Leaves
      PROVE  p \notin Elements(Current.o)
  <2> SUFFICES ASSUME NEW k \in Nat, p = Append(Current.o, k)
               PROVE  FALSE
    BY DEF Elements
  <2>1. IsPart(Current.type, k, ElementType)
    BY <1>4 DEF IsPart, ElementType, Containers, Wrappers
  <2>2. Placed(root, ElementType, p)
    BY <1>3, <2>1, PlacedPart
  <2>3. t = ElementType
    BY <2>2, PlacedUnique
  <2> QED
    BY <1>4, <2>3 DEF Leaves
<1>5. p = Current.o
  BY <1>1, <1>4 DEF PutsHere, PutsOnly
<1>6. Kind[Current.type] = "optional"
  BY <1>3, <1>5, PlacedUnique
<1> QED
  BY <1>5, <1>6, OptionalPuts

-----------------------------------------------------------------------------
(* Reading into a fresh object.                                            *)

(* An optional that is set has a member, wherever parts may be.            *)
OptionalsThere(s, w) ==
  \A K : IsGuide(K) =>
    \A y \in Reached(root, K) :
      Kind[y.type] = "optional" /\ At(s.value, y.path) # 0 => y.at \in DOMAIN w

NoOptionals(s) ==
  \A t, p : Placed(root, t, p) /\ Kind[t] = "optional" => At(s.value, p) = 0

Plain ==
  /\ object.fresh => NoOptionals(object)
  /\ call.what = "read" /\ call.ended = "running" => ~object.fresh
  /\ /\ call.what = "read"
     /\ call.fresh
     /\ call.ended \in {"running", "returned"}
     /\ ~object.mixed
     => OptionalsThere(object, instance)

LEMMA NoneIsThere ==
  ASSUME IsRoot, NEW s, NoOptionals(s), NEW w
  PROVE  OptionalsThere(s, w)
BY SpotPlaced DEF OptionalsThere, NoOptionals, IsRoot

LEMMA GetMemberPlain ==
  ASSUME IsRoot, Typing, Delivery, Reading, Plain, GetMember
  PROVE  Plain'
<1>1. /\ todo # <<>>
      /\ call.what = "read"
      /\ call.ended = "running"
      /\ Current.op # "unbind"
      /\ UNCHANGED <<root, instance, call>>
  BY ReadIsRunning, GetMemberSteps
<1>2. InRead
  BY <1>1 DEF InRead
<1>3. (object'.fresh => object.fresh) /\ (object.mixed => object'.mixed)
  BY GetMemberPuts DEF PutsHere, PutsOnly
<1>4. ~object'.fresh
  BY <1>1, <1>3 DEF Plain
<1>5. ASSUME call.fresh, ~object'.mixed,
             NEW K, IsGuide(K), NEW y \in Reached(root, K),
             Kind[y.type] = "optional", At(object'.value, y.path) # 0
      PROVE  y.at \in DOMAIN instance
  <2>1. Placed(root, y.type, y.path)
    BY <1>5, SpotPlaced DEF IsRoot
  <2>2. ~object.mixed /\ OptionalsThere(object, instance)
    BY <1>1, <1>3, <1>5 DEF Plain
  <2>3. CASE At(object.value, y.path) # 0
    BY <1>5, <2>2, <2>3 DEF OptionalsThere
  <2>4. CASE /\ Current.op = "get"
             /\ y.path = Current.o
             /\ Current.i \in DOMAIN instance
    <3>1. PICK x \in SpotsRead(object) : MatchesGet(x, Current)
      BY <1>1, <1>2, <2>2, CurrentReads
    <3>2. x.path = y.path /\ x.at = Current.i
      BY <2>4, <3>1 DEF MatchesGet
    <3>3. x = y
      BY <1>5, <3>2, PathTellsSpot, ReadGuide DEF SpotsRead, IsRoot
    <3> QED
      BY <2>4, <3>2, <3>3
  <2> QED
    BY <1>5, <2>1, <2>3, <2>4, GetMemberOptionals
<1>6. call.fresh /\ ~object'.mixed => OptionalsThere(object', instance)
  BY <1>5 DEF OptionalsThere
<1>7. OptionalsThere(object, instance)' <=> OptionalsThere(object', instance)
  BY <1>1 DEF OptionalsThere
<1> QED
  BY <1>1, <1>4, <1>6, <1>7 DEF Plain

(* What the application does between calls.                                *)
LEMMA AssignPlain ==
  ASSUME IsRoot, Typing, Plain, NEW n, Placed(root, n.type, n.path),
         NEW v \in Nat, Assign(n, v)
  PROVE  Plain'
<1> DEFINE w == Resized(object, n.path, v)
<1>1. /\ object' = [w EXCEPT !.fresh = w.fresh /\ Kind[n.type] = "range"]
      /\ call' = NoCall
      /\ UNCHANGED root
  BY DEF Assign, Change
<1>2. PutsOnly(object, w, {n.path}) /\ Shape(w)
  BY ResizedPuts, PlacedIsType DEF Typing, ObjectOK
<1> HIDE DEF w
<1>3. /\ object'.value = w.value
      /\ object'.fresh => w.fresh /\ Kind[n.type] = "range"
  BY <1>1, <1>2 DEF Shape, GoodObject, ObjectFields
<1>4. ASSUME object'.fresh
      PROVE  NoOptionals(object')
  <2>1. object.fresh /\ NoOptionals(object)
    BY <1>2, <1>3, <1>4 DEF PutsOnly, Plain
  <2>2. ASSUME NEW t, NEW p, Placed(root, t, p), Kind[t] = "optional"
        PROVE  At(w.value, p) = 0
    <3>1. p # n.path
      BY <1>3, <1>4, <2>2, PlacedUnique
    <3> QED
      BY <1>2, <2>1, <2>2, <3>1 DEF PutsOnly, NoOptionals
  <2> QED
    BY <1>3, <2>2 DEF NoOptionals
<1>5. NoOptionals(object)' <=> NoOptionals(object')
  BY <1>1 DEF NoOptionals
<1> QED
  BY <1>1, <1>4, <1>5 DEF Plain, NoCall

LEMMA ChangePlain ==
  ASSUME Plain, NEW s, Change(s),
         s.fresh => object.fresh /\ s.value = object.value
  PROVE  Plain'
<1>1. object' = s /\ call' = NoCall /\ UNCHANGED root
  BY DEF Change
<1>2. s.fresh => NoOptionals(s)
  BY DEF Plain, NoOptionals
<1>3. NoOptionals(object)' <=> NoOptionals(object')
  BY <1>1 DEF NoOptionals
<1> QED
  BY <1>1, <1>2, <1>3 DEF Plain, NoCall

LEMMA UseUnionPlain ==
  ASSUME IsRoot, Typing, Plain, NEW t, NEW o, Placed(root, t, o),
         Kind[t] = "union", UseUnion(t, o)
  PROVE  Plain'
<1>1. /\ Shape(object)
      /\ o \in Paths
      /\ t \in Types
      /\ NCases(t) \in Nat
  BY PlacedIsType, CaseFacts DEF Typing, ObjectOK
<1>a. \A c \in 1..NCases(t) : c \in Nat
  BY <1>1
<1>2. CASE \E c \in 1..NCases(t) : Change(AssignVariant(object, t, o, c))
  <2>1. PICK c \in 1..NCases(t) : Change(AssignVariant(object, t, o, c))
    BY <1>2
  <2>2. ~AssignVariant(object, t, o, c).fresh
    BY <1>1, <1>a, WithVariantPuts DEF AssignVariant
  <2> QED
    BY <2>1, <2>2, ChangePlain
<1>3. CASE \E c \in 1..NCases(t) : \E a \in -1..NCases(t) - 1 :
             Change(AssignCase(object, t, o, c, a))
  <2>1. PICK c \in 1..NCases(t), a \in -1..NCases(t) - 1 :
          Change(AssignCase(object, t, o, c, a))
    BY <1>3
  <2> DEFINE w == WithPointers(object, t, o, {})
             x == [w EXCEPT !.active_index_ = Put(w.active_index_, o, a)]
  <2>2. AssignCase(object, t, o, c, a) = WithVariant(x, t, o, c)
    BY DEF AssignCase
  <2>3. Shape(w)
    BY <1>1, WithPointersFields DEF AreCases
  <2> HIDE DEF w
  <2>4. x = SetActiveIndex(w, o, a)
    BY DEF SetActiveIndex
  <2>5. Shape(x)
    BY <1>1, <2>3, <2>4, SetActiveIndexFields
  <2> HIDE DEF x
  <2>6. ~AssignCase(object, t, o, c, a).fresh
    BY <1>1, <1>a, <2>2, <2>5, WithVariantPuts
  <2> QED
    BY <2>1, <2>6, ChangePlain
<1>4. CASE \E c \in 1..NCases(t) : \E P \in SUBSET (1..NCases(t)) :
             c \in P /\ Change(SetCaseptrTupleForWriting(object, t, o, P, c))
  <2>1. PICK c \in 1..NCases(t), P \in SUBSET (1..NCases(t)) :
          Change(SetCaseptrTupleForWriting(object, t, o, P, c))
    BY <1>4
  <2> DEFINE w == WithPointers(object, t, o, P)
             x == SetActiveIndex(w, o, c - 1)
             y == [x EXCEPT !.meant = Put(x.meant, o, c), !.fresh = FALSE]
             z == SetCaseptrTupleForWriting(object, t, o, P, c)
  <2>2. Shape(w)
    BY <1>1, WithPointersFields DEF AreCases
  <2>3. z = Noted(y, t, o)
    BY DEF SetCaseptrTupleForWriting
  <2> HIDE DEF w
  <2>4. Shape(x)
    BY <1>1, <2>2, SetActiveIndexFields
  <2> HIDE DEF x
  <2>5. "fresh" \in DOMAIN y /\ "mixed" \in DOMAIN y /\ y.fresh = FALSE
    BY <2>4 DEF Shape, GoodObject, ObjectFields
  <2> HIDE DEF y
  <2>6. z.fresh = FALSE
    BY <2>3, <2>5 DEF Noted
  <2> HIDE DEF z
  <2>7. Change(z)
    BY <2>1 DEF z
  <2> QED
    BY <2>6, <2>7, ChangePlain
<1>5. CASE \E P \in SUBSET (1..NCases(t)) :
             Change(SetCaseptrTupleForReading(object, t, o, P))
  <2>1. PICK P \in SUBSET (1..NCases(t)) :
          Change(SetCaseptrTupleForReading(object, t, o, P))
    BY <1>5
  <2> DEFINE w == WithPointers(object, t, o, P)
             z == Noted(w, t, o)
  <2>2. Shape(w) /\ w.value = object.value /\ w.fresh = object.fresh
    BY <1>1, WithPointersFields DEF AreCases
  <2>3. Change(z)
    BY <2>1 DEF SetCaseptrTupleForReading
  <2> HIDE DEF w
  <2>4. z.value = w.value /\ z.fresh = w.fresh
    BY <2>2 DEF Noted, Shape, GoodObject, ObjectFields
  <2> HIDE DEF z
  <2> QED
    BY <2>2, <2>3, <2>4, ChangePlain
<1>6. CASE Change(ResetCaseptrTuple(object, o))
  <2>1. /\ ResetCaseptrTuple(object, o).value = object.value
        /\ ResetCaseptrTuple(object, o).fresh = object.fresh
    BY <1>1, SetActiveIndexFields DEF ResetCaseptrTuple
  <2> QED
    BY <1>6, <2>1, ChangePlain
<1> QED
  BY <1>2, <1>3, <1>4, <1>5, <1>6 DEF UseUnion

LEMMA StepPlain ==
  IsRoot /\ Typing /\ Delivery /\ Reading /\ Plain /\ [Next]_vars => Plain'
<1> SUFFICES ASSUME IsRoot, Typing, Delivery, Reading, Plain, [Next]_vars
             PROVE  Plain'
  OBVIOUS
<1>1. CallOK
  BY DEF Delivery
<1>2. ASSUME UNCHANGED <<root, object>>,
             \/ call'.what # "read"
             \/ UNCHANGED <<instance, call>>
             \/ call'.ended = "thrown"
             \/ /\ UNCHANGED instance
                /\ call'.ended = "returned"
                /\ call.what = "read"
                /\ call.ended = "running"
                /\ call'.fresh = call.fresh
      PROVE  Plain'
  <2>1. NoOptionals(object)' <=> NoOptionals(object)
    BY <1>2 DEF NoOptionals
  <2>2. UNCHANGED instance =>
          (OptionalsThere(object, instance)' <=> OptionalsThere(object, instance))
    BY <1>2 DEF OptionalsThere
  <2> QED
    BY <1>2, <2>1, <2>2 DEF Plain
<1>3. CASE Write \/ NewInstance
  <2>1. UNCHANGED <<root, object>> /\ call'.what # "read"
    BY <1>3 DEF Write, NewInstance, NoCall
  <2> QED
    BY <1>2, <2>1
<1>4. CASE SetMember
  <2>1. UNCHANGED <<root, object, call>> /\ call.what # "read"
    BY <1>4, WriteIsRunning, SetMemberSteps
  <2> QED
    BY <1>2, <2>1
<1>5. CASE Read
  <2>1. /\ object' = [object EXCEPT !.fresh = FALSE]
        /\ call' = [what |-> "read", fresh |-> object.fresh, ended |-> "running"]
        /\ UNCHANGED <<root, instance>>
    BY <1>5 DEF Read
  <2>2. object'.value = object.value /\ ~object'.fresh
    BY <2>1 DEF Typing, ObjectOK, Shape, GoodObject, ObjectFields
  <2>3. object.fresh => OptionalsThere(object, instance)
    BY NoneIsThere DEF Plain
  <2>4. OptionalsThere(object, instance)' <=> OptionalsThere(object, instance)
    BY <2>1, <2>2 DEF OptionalsThere
  <2> QED
    BY <2>1, <2>2, <2>3, <2>4 DEF Plain
<1>6. CASE GetMember
  BY <1>6, GetMemberPlain
<1>7. CASE Unbind \/ Unwind \/ UNCHANGED vars
  <2>1. UNCHANGED <<root, object, instance, call>>
    BY <1>7 DEF Unbind, Unwind, vars
  <2> QED
    BY <1>2, <2>1
<1>8. CASE Throw
  <2>1. UNCHANGED <<root, object>> /\ call'.ended = "thrown"
    BY <1>1, <1>8 DEF Throw, CallOK
  <2> QED
    BY <1>2, <2>1
<1>9. CASE Return
  <2>1. /\ UNCHANGED <<root, object, instance>>
        /\ call.ended = "running"
        /\ call'.ended = "returned"
        /\ call'.what = call.what
        /\ call'.fresh = call.fresh
    BY <1>1, <1>9 DEF Return, CallOK
  <2> QED
    BY <1>2, <2>1
<1>10. CASE NewObject
  <2>1. Change(Default)
    BY <1>10 DEF NewObject
  <2>2. NoOptionals(Default)
    BY DEF NoOptionals, Default, At
  <2>3. object' = Default /\ call' = NoCall /\ UNCHANGED root
    BY <2>1 DEF Change
  <2>4. NoOptionals(object)' <=> NoOptionals(object')
    BY <2>3 DEF NoOptionals
  <2> QED
    BY <2>2, <2>3, <2>4 DEF Plain, NoCall
<1>11. ASSUME NEW n \in Nodes(object), NEW t \in Types, n.type = t,
              \/ \E v \in Sizes(t) : Assign(n, v)
              \/ Kind[t] = "union" /\ UseUnion(t, n.path)
       PROVE  Plain'
  <2>1. Placed(root, t, n.path)
    BY <1>11, NodesPlaced DEF IsRoot, Typing, ObjectOK, Shape, GoodObject
  <2>2. CASE \E v \in Sizes(t) : Assign(n, v)
    BY <1>11, <2>1, <2>2, SizesAreNumbers, AssignPlain
  <2>3. CASE Kind[t] = "union" /\ UseUnion(t, n.path)
    BY <2>1, <2>3, UseUnionPlain
  <2> QED
    BY <1>11, <2>2, <2>3
<1> QED
  BY <1>3, <1>4, <1>5, <1>6, <1>7, <1>8, <1>9, <1>10, <1>11 DEF Next

LEMMA InitPlain == Init => Plain
<1>1. NoOptionals(Default)
  BY DEF NoOptionals, Default, At
<1> QED
  BY <1>1 DEF Init, Plain, NoCall

-----------------------------------------------------------------------------
(* What is read from an instance that was blank into a fresh object.       *)

(* s and nothing else was written, and nothing else is set since.          *)
ReadAlone(s) ==
  /\ ReadBack(s)
  /\ OnlyWritten(s, instance)
  /\ \A y \in SpotsRead(object) :
       Kind[y.type] = "optional" /\ y.at \notin DOMAIN instance =>
         At(object.value, y.path) = 0

LEMMA NotAClass ==
  ASSUME IsRoot, NEW s, NEW x \in SpotsWritten(s),
         Kind[x.type] \notin {"struct", "derived"}
  PROVE  ~x.base
BY WrittenGuide, BaseIsClass DEF SpotsWritten, IsRoot

(* What is in the place of something was written of it.                    *)
LEMMA PresentIsWritten ==
  ASSUME NEW s, ReadAlone(s), NEW x \in SpotsWritten(s), ~x.base,
         NEW q \in DOMAIN instance, IsAt(q, x.at)
  PROVE  \E z \in SpotsWritten(s) : /\ z.at = q
                                    /\ IsReal(z)
                                    /\ ~HasNothing(s, z)
                                    /\ IsAt(z.path, x.path)
<1>1. PICK z \in SpotsWritten(s) : z.at = q /\ IsReal(z) /\ ~HasNothing(s, z)
  BY DEF ReadAlone, OnlyWritten
<1> DEFINE K == PartsWritten(s)
<1>2. IsGuide(K) /\ root \in Types
  BY WrittenGuide DEF ReadAlone, ReadBack, IsRoot
<1>3. x \in Reached(root, K) /\ z \in Reached(root, K)
  BY DEF SpotsWritten
<1> HIDE DEF K
<1>4. IsAt(z.path, x.path)
  BY <1>1, <1>2, <1>3, AtTellsPath DEF IsReal
<1> QED
  BY <1>1, <1>4

(* The number of elements in the instance.                                 *)
LEMMA LengthThere ==
  ASSUME NEW s, ReadAlone(s), NEW x \in SpotsWritten(s),
         Kind[x.type] \in {"sequence", "vector"}
  PROVE  IF Kind[x.type] = "vector"
         THEN At(instance, x.at) = At(s.value, x.path)
         ELSE LengthIs(At(instance, x.at), At(s.value, x.path))
<1>1. IsRoot /\ root \in Types /\ ObjectOK(s, root)
  BY DEF ReadAlone, ReadBack, IsRoot
<1>2. ~x.base /\ IsReal(x) /\ x.at \in Paths
  BY <1>1, NotAClass, WrittenSpot DEF IsReal, IsPointer
<1>3. LengthOf(s, x) = At(s.value, x.path)
  BY DEF LengthOf
<1>4. Stored(instance, s, x)
  BY DEF ReadAlone, ReadBack, AllWritten
<1>5. CASE HasNothing(s, x)
  <2>1. x.at \notin DOMAIN instance
    <3> SUFFICES ASSUME x.at \in DOMAIN instance
                 PROVE  FALSE
      OBVIOUS
    <3>1. PICK z \in SpotsWritten(s) :
            z.at = x.at /\ IsReal(z) /\ ~HasNothing(s, z)
      BY DEF ReadAlone, OnlyWritten
    <3>2. z = x
      BY <1>1, <1>2, <3>1, OneAtAPlace
    <3> QED
      BY <1>5, <3>1, <3>2
  <2> QED
    BY <1>3, <1>5, <2>1 DEF HasNothing, At
<1>6. CASE ~HasNothing(s, x)
  <2>1. x.at \in DOMAIN instance /\ HoldsValue(instance, s, x)
    BY <1>2, <1>4, <1>6 DEF Stored
  <2>2. Kind[x.type] = "sequence" =>
          LengthIs(instance[x.at], At(s.value, x.path))
    BY <1>2, <2>1 DEF ReadAlone, OnlyWritten
  <2> QED
    BY <2>1, <2>2 DEF HoldsValue, At
<1> QED
  BY <1>5, <1>6

(* An optional that was read was written.                                  *)
LEMMA OptionalWritten ==
  ASSUME NEW s, ReadAlone(s), NEW x \in SpotsWritten(s),
         Kind[x.type] = "optional", x.at \in DOMAIN instance
  PROVE  <<x, 1>> \in PartsWritten(s)
<1>1. IsRoot /\ root \in Types /\ IsGuide(PartsWritten(s))
  BY WrittenGuide DEF ReadAlone, ReadBack, IsRoot
<1>2. ~x.base /\ x.at \in Paths /\ x.path \in Paths
  BY <1>1, NotAClass, WrittenSpot
<1>3. PICK z \in SpotsWritten(s) : IsReal(z) /\ IsAt(z.path, x.path)
  BY <1>2, IsAtSame, PresentIsWritten
<1>4. z.path # x.path
  <2> SUFFICES ASSUME z.path = x.path
               PROVE  FALSE
    OBVIOUS
  <2>1. z = x
    BY <1>1, SpotUnique DEF SpotsWritten
  <2> QED
    BY <1>3, <2>1 DEF IsReal, IsPointer
<1>5. PICK k \in Nat : <<x, k>> \in PartsWritten(s)
  BY <1>1, <1>3, <1>4, SpotBelow DEF SpotsWritten, IsIn
<1>6. HasPart(x, k)
  BY <1>1, <1>5 DEF IsGuide
<1>7. k = 1
  BY <1>6 DEF HasPart, IsPointer
<1> QED
  BY <1>5, <1>7

(* The case that was read was written.                                     *)
LEMMA CaseWritten ==
  ASSUME NEW s, ReadAlone(s), NEW x \in SpotsWritten(s),
         Kind[x.type] = "union", NEW c \in Nat,
         Append(x.at, c) \in DOMAIN instance
  PROVE  \E j \in Nat : <<x, j>> \in PartsWritten(s) /\ CaseAt(x.type, j) = c
<1> DEFINE K == PartsWritten(s)
           q == Append(x.at, c)
<1>1. IsRoot /\ root \in Types /\ IsGuide(K)
  BY WrittenGuide DEF ReadAlone, ReadBack, IsRoot
<1>2. ~x.base /\ x.at \in Paths /\ x.path \in Paths
  BY <1>1, NotAClass, WrittenSpot
<1>3. IsAt(q, x.at) /\ q # x.at /\ q[Len(x.at) + 1] = c
  BY <1>2, AppendIsIn, AppendLength DEF IsIn
<1> HIDE DEF q
<1>4. PICK z \in SpotsWritten(s) : z.at = q /\ IsAt(z.path, x.path)
  BY <1>2, <1>3, PresentIsWritten DEF q
<1>5. x \in Reached(root, K) /\ z \in Reached(root, K)
  BY DEF SpotsWritten
<1> HIDE DEF K
<1>6. z.path # x.path
  BY <1>1, <1>3, <1>4, <1>5, SpotUnique
<1>7. PICK j \in Nat : <<x, j>> \in K /\ IsAt(z.path, Append(x.path, j))
  BY <1>1, <1>4, <1>5, <1>6, SpotBelow DEF IsIn
<1>8. z.at[Len(x.at) + 1] = IdOf(x.type, j)
  BY <1>1, <1>5, <1>7, BelowPart DEF IsPointer, IsBasePart
<1>9. CaseAt(x.type, j) = c
  BY <1>3, <1>4, <1>8 DEF IdOf
<1> QED
  BY <1>7, <1>9 DEF K

(* What may be there that was not written: something in a range, or the    *)
(* element that set_seq_length leaves.                                     *)
MayBeMore(s, x) ==
  \/ Kind[x.type] = "range"
  \/ Kind[x.type] = "sequence" /\ At(s.value, x.path) = 0

(* The part k of y was read and written, as the part j of x.               *)
PartIsBack(s, x, j, y, k) ==
  /\ <<x, j>> \in PartsWritten(s)
  /\ <<y, k>> \in PartsRead(object)
  /\ Same(PartSpot(x, j), PartSpot(y, k))

LEMMA BackFacts ==
  ASSUME NEW s, ReadAlone(s), NEW x \in SpotsWritten(s),
         NEW y \in SpotsRead(object), Same(x, y), NEW k,
         <<y, k>> \in PartsWritten(object)
  PROVE  /\ IsRoot
         /\ root \in Types
         /\ x \in Spots
         /\ y \in Spots
         /\ y.type = x.type
         /\ y.at = x.at
         /\ HasPart(x, k)
         /\ HasPart(y, k)
         /\ k \in Nat
         /\ WritesPart(object, y, k)
         /\ Got(object, y)
         /\ Stored(instance, s, x)
         /\ At(s.value, x.path) \in Nat
         /\ LengthOf(s, x) \in Nat
<1>1. IsRoot /\ root \in Types /\ ReadBack(s) /\ ObjectOK(s, root)
  BY DEF ReadAlone, ReadBack, IsRoot
<1>2. x \in Spots /\ y \in Spots /\ y.type = x.type /\ y.at = x.at
  BY WrittenSpot, ReadSpot DEF Same
<1>3. HasPart(y, k) /\ WritesPart(object, y, k)
  BY <1>2, PartWritten
<1>4. HasPart(x, k) /\ k \in Nat
  BY <1>2, <1>3 DEF HasPart
<1>5. At(s.value, x.path) \in Nat /\ LengthOf(s, x) \in Nat
  BY <1>1, WrittenFacts
<1>6. Got(object, y) /\ Stored(instance, s, x)
  BY <1>1 DEF ReadBack, AllRead, AllWritten
<1> QED
  BY <1>1, <1>2, <1>3, <1>4, <1>5, <1>6

LEMMA SamePartIsBack ==
  ASSUME NEW s, NEW x \in Spots, NEW y \in Spots, Same(x, y),
         NEW k \in Nat, HasPart(x, k), HasPart(y, k), Kind[x.type] # "union",
         WritesPart(s, x, k), ReadsPart(object, y, k)
  PROVE  PartIsBack(s, x, k, y, k)
BY PartWritten, PartRead, SameParts DEF PartIsBack

LEMMA CaseGoesBack ==
  ASSUME NEW s, ReadAlone(s), NEW x \in SpotsWritten(s),
         NEW y \in SpotsRead(object), Same(x, y), NEW k,
         <<y, k>> \in PartsWritten(object), Kind[x.type] = "union"
  PROVE  \E j \in Nat : PartIsBack(s, x, j, y, k)
<1> DEFINE t == x.type
           c == CaseIn(y)
           e == [type |-> y.type, i |-> y.at]
<1>1. /\ x \in Spots
      /\ y \in Spots
      /\ y.type = t
      /\ y.at = x.at
      /\ t \in Types
      /\ HasPart(y, k)
      /\ k \in Nat
      /\ WritesPart(object, y, k)
      /\ Got(object, y)
  BY BackFacts, SpotFacts
<1>2. /\ c \in 1..NCases(t)
      /\ CaseHeld(object, t, y.path) = c
  BY <1>1 DEF Got
<1>3. Append(y.path, k) = DataOf(object, t, y.path, c)
  BY <1>1, <1>2 DEF WritesPart
<1>4. CaseAt(t, k) = c
  <2>1. Append(y.path, k) = DataOf(object, y.type, y.path, c)
    BY <1>1, <1>3
  <2>2. c \in 1..NCases(y.type) /\ Kind[y.type] = "union"
    BY <1>1, <1>2
  <2> HIDE DEF c, e
  <2>3. CaseAt(y.type, k) = c
    BY <1>1, <2>1, <2>2, CaseOfData
  <2> QED
    BY <1>1, <2>3
<1>5. c \in Nat /\ c # 0
  BY <1>1, <1>2, CaseFacts
<1>6. ReadsPart(object, y, k)
  BY <1>1, <1>2, <1>3 DEF ReadsPart
<1>7. Append(x.at, c) \in DOMAIN instance
  <2>1. e.type = t /\ e.i = x.at /\ CaseRead(e) = c
    BY <1>1 DEF CaseIn
  <2> HIDE DEF e, c
  <2>2. LabelsTellApart(t)
    BY <1>1 DEF ReadAlone, ReadBack
  <2>3. c = Selected(t, x.at)
    BY <1>1, <1>5, <2>1, <2>2, CaseReadBack
  <2>4. c \in {d \in 1..NCases(t) : Append(x.at, d) \in DOMAIN instance}
    BY <1>5, <2>3, FirstOfIsIn DEF Selected
  <2> QED
    BY <2>4
<1> HIDE DEF c, e
<1>8. PICK j \in Nat : <<x, j>> \in PartsWritten(s) /\ CaseAt(t, j) = c
  BY <1>5, <1>7, CaseWritten
<1>9. <<y, k>> \in PartsRead(object)
  BY <1>1, <1>6, PartRead
<1>10. Same(PartSpot(x, j), PartSpot(y, k))
  BY <1>4, <1>8, SameParts
<1> QED
  BY <1>8, <1>9, <1>10 DEF PartIsBack

(* What is in something that was written and read was so itself, or is in  *)
(* a place where there may be more.                                        *)
LEMMA PartGoesBack ==
  ASSUME NEW s, ReadAlone(s), NEW x \in SpotsWritten(s), ~MayBeMore(s, x),
         NEW y \in SpotsRead(object), Same(x, y), NEW k,
         <<y, k>> \in PartsWritten(object)
  PROVE  \E j \in Nat : PartIsBack(s, x, j, y, k)
<1> DEFINE t == x.type
<1>1. /\ x \in Spots
      /\ y \in Spots
      /\ y.type = t
      /\ y.at = x.at
      /\ HasPart(x, k)
      /\ HasPart(y, k)
      /\ k \in Nat
      /\ WritesPart(object, y, k)
      /\ Got(object, y)
      /\ Stored(instance, s, x)
      /\ At(s.value, x.path) \in Nat
  BY BackFacts
<1>2. CASE Kind[t] \in Aggregates \cup {"array"}
  <2>1. WritesPart(s, x, k) /\ ReadsPart(object, y, k)
    BY <1>1, <1>2 DEF WritesPart, ReadsPart, LengthOf, Aggregates, Wrappers
  <2>2. Kind[t] # "union"
    BY <1>2 DEF Aggregates
  <2> QED
    BY <1>1, <2>1, <2>2, SamePartIsBack
<1>3. CASE Kind[t] \in {"sequence", "vector"}
  <2>1. k \in 1..At(instance, x.at)
    BY <1>1, <1>3 DEF WritesPart, LengthOf, Wrappers, Got
  <2>2. At(instance, x.at) = At(s.value, x.path)
    BY <1>1, <1>3, LengthThere DEF LengthIs, MayBeMore
  <2>3. WritesPart(s, x, k) /\ ReadsPart(object, y, k)
    BY <1>1, <1>3, <2>1, <2>2 DEF WritesPart, ReadsPart, LengthOf
  <2> QED
    BY <1>1, <1>3, <2>3, SamePartIsBack
<1>4. CASE Kind[t] = "optional"
  <2>1. k = 1 /\ k \in 1..At(object.value, y.path)
    BY <1>1, <1>4 DEF HasPart, IsPointer, WritesPart, LengthOf, Wrappers
  <2>2. x.at \in DOMAIN instance
    BY <1>1, <1>4, <2>1 DEF ReadAlone
  <2>3. WritesPart(s, x, k)
    <3>1. <<x, 1>> \in PartsWritten(s)
      BY <1>4, <2>2, OptionalWritten
    <3> QED
      BY <1>1, <2>1, <3>1, PartWritten
  <2>4. ReadsPart(object, y, k)
    BY <1>1, <1>4, <2>2 DEF ReadsPart
  <2> QED
    BY <1>1, <1>4, <2>3, <2>4, SamePartIsBack
<1>5. CASE Kind[t] = "smart_ptr"
  <2>1. k = 1 /\ At(s.value, x.path) = 1
    BY <1>1, <1>5 DEF HasPart, IsPointer, Stored
  <2>2. WritesPart(s, x, k)
    BY <1>5, <2>1 DEF WritesPart, LengthOf
  <2>3. ReadsPart(object, y, k)
    BY <1>1, <1>5 DEF ReadsPart
  <2> QED
    BY <1>1, <1>5, <2>2, <2>3, SamePartIsBack
<1>6. CASE Kind[t] = "union"
  BY <1>6, CaseGoesBack
<1>7. Kind[t] \in Kinds \ Leaves
  BY <1>1, SpotFacts, TypesAreAdapted DEF HasPart
<1> QED
  BY <1>2, <1>3, <1>4, <1>5, <1>6, <1>7
     DEF Kinds, Wrappers, Aggregates, MayBeMore

LEMMA PartIsPlacedIn ==
  ASSUME NEW x \in Spots, NEW k, HasPart(x, k)
  PROVE  IsIn(PartSpot(x, k).place, x.place)
<1> DEFINE i == IF Kind[x.type] = "union" THEN CaseAt(x.type, k) ELSE k
<1>1. i \in Nat
  BY SpotFacts, CaseAtFacts DEF HasPart
<1>2. PartSpot(x, k).place = Append(x.place, i)
  BY DEF PartSpot
<1> HIDE DEF i
<1> QED
  BY <1>1, <1>2, SpotFacts, AppendIsIn

(* In a place where there may be more than was written.                    *)
InSlack(s, y) ==
  \E x \in SpotsWritten(s) :
    \/ Kind[x.type] = "range" /\ IsAt(y.place, x.place)
    \/ /\ Kind[x.type] = "sequence"
       /\ At(s.value, x.path) = 0
       /\ IsIn(y.place, x.place)

IsBack(s, y) ==
  y \in SpotsRead(object) /\ \E x \in SpotsWritten(s) : Same(x, y)

LEMMA SlackGoesDown ==
  ASSUME NEW s, ReadAlone(s), NEW y \in Spots, NEW k, HasPart(y, k),
         NEW x \in SpotsWritten(s), IsAt(y.place, x.place), MayBeMore(s, x)
  PROVE  InSlack(s, PartSpot(y, k))
<1> DEFINE z == PartSpot(y, k)
<1>1. IsIn(z.place, y.place)
  BY PartIsPlacedIn
<1>2. z.place \in Paths
  <2>1. (IF Kind[y.type] = "union" THEN CaseAt(y.type, k) ELSE k) \in Nat
    BY SpotFacts, CaseAtFacts DEF HasPart
  <2> QED
    BY <2>1, SpotFacts, AppendLength DEF PartSpot
<1>3. y.place \in Paths /\ x.place \in Paths
  BY SpotFacts, WrittenSpot
<1> HIDE DEF z
<1>4. IsIn(z.place, x.place)
  BY <1>1, <1>2, <1>3, IsInPart
<1>5. InSlack(s, z)
  BY <1>4 DEF InSlack, MayBeMore, IsIn
<1> QED
  BY <1>5 DEF z

(* Nothing else is in the object.                                          *)
LEMMA EverythingIsBack ==
  ASSUME NEW s, ReadAlone(s), NEW y \in SpotsWritten(object)
  PROVE  IsBack(s, y) \/ InSlack(s, y)
<1> DEFINE K == PartsWritten(object)
           S == {z \in Spots : IsBack(s, z) \/ InSlack(s, z)}
<1>1. IsGuide(K) /\ SpotsWritten(object) = Reached(root, K) /\ root \in Types
  BY WrittenGuide DEF SpotsWritten, ReadAlone, ReadBack, IsRoot
<1>2. TopSpot(root) \in S
  <2>1. /\ TopSpot(root) \in SpotsRead(object)
        /\ TopSpot(root) \in SpotsWritten(s)
        /\ TopSpot(root) \in Spots
    BY <1>1, TopIsReached, ReachedIsSpot DEF SpotsRead, SpotsWritten
  <2> QED
    BY <2>1 DEF Same, IsBack
<1>3. ASSUME NEW z \in Reached(root, K), z \in S, NEW k, <<z, k>> \in K
      PROVE  PartSpot(z, k) \in S
  <2>1. PartSpot(z, k) \in Spots
    BY <1>1, <1>3, PartIsReached, ReachedIsSpot
  <2>2. z \in Spots /\ HasPart(z, k)
    BY <1>1, <1>3 DEF IsGuide
  <2>3. ASSUME IsBack(s, z)
        PROVE  IsBack(s, PartSpot(z, k)) \/ InSlack(s, PartSpot(z, k))
    <3>1. PICK x \in SpotsWritten(s) : Same(x, z)
      BY <2>3 DEF IsBack
    <3>2. CASE MayBeMore(s, x)
      <4>1. IsAt(z.place, x.place)
        BY <2>2, <3>1, SpotFacts, IsAtSame DEF Same
      <4> QED
        BY <2>2, <3>2, <4>1, SlackGoesDown
    <3>3. CASE ~MayBeMore(s, x)
      <4>1. z \in SpotsRead(object)
        BY <2>3 DEF IsBack
      <4>2. PICK j \in Nat : PartIsBack(s, x, j, z, k)
        BY <1>3, <3>1, <3>3, <4>1, PartGoesBack
      <4>3. PartSpot(x, j) \in SpotsWritten(s)
        BY <4>2, WrittenGuide, PartIsReached DEF PartIsBack, SpotsWritten
      <4>4. PartSpot(z, k) \in SpotsRead(object)
        BY <4>1, <4>2, PartOfRead DEF PartIsBack
      <4> QED
        BY <4>2, <4>3, <4>4 DEF PartIsBack, IsBack
    <3> QED
      BY <3>2, <3>3
  <2>4. ASSUME InSlack(s, z)
        PROVE  InSlack(s, PartSpot(z, k))
    <3>1. PICK x \in SpotsWritten(s) : MayBeMore(s, x) /\ IsAt(z.place, x.place)
      BY <2>4 DEF InSlack, MayBeMore, IsIn
    <3> QED
      BY <2>2, <3>1, SlackGoesDown
  <2> QED
    BY <1>3, <2>1, <2>3, <2>4
<1> HIDE DEF S, K
<1>4. Reached(root, K) \subseteq S
  BY <1>1, <1>2, <1>3, ReachedInduction
<1> QED
  BY <1>1, <1>4 DEF S

(* What sets something was written by something that did.                  *)
LEMMA SetsGoBack ==
  ASSUME NEW s, ReadAlone(s), NEW x \in SpotsWritten(s),
         NEW y \in SpotsRead(object), Same(x, y), Sets(object, NodeOf(y))
  PROVE  Sets(s, NodeOf(x))
<1> DEFINE P == {d \in Nat : \A z \in SpotsWritten(s), w \in SpotsRead(object) :
                   Depth[z.type] < d /\ Sets(object, NodeOf(w)) /\ Same(z, w) =>
                     Sets(s, NodeOf(z))}
<1>1. /\ root \in Types
      /\ ReadBack(s)
      /\ ObjectOK(s, root)
      /\ ObjectOK(object, root)
  BY DEF ReadAlone, ReadBack, IsRoot
<1>2. \A z \in SpotsWritten(s) : z.type \in Types /\ Depth[z.type] \in Nat
  BY <1>1, WrittenFacts, TypesAreNested
<1>3. 0 \in P
  BY <1>2
<1>4. ASSUME NEW d \in P
      PROVE  d + 1 \in P
  <2> SUFFICES ASSUME NEW z \in SpotsWritten(s), NEW w \in SpotsRead(object),
                      Depth[z.type] < d + 1, Sets(object, NodeOf(w)), Same(z, w)
               PROVE  Sets(s, NodeOf(z))
    OBVIOUS
  <2>1. w \in SpotsWritten(object) /\ w.type = z.type
    BY <1>1, ReadFacts DEF Same
  <2>2. /\ NodeOf(z) \in Places
        /\ NodeOf(z).type = z.type
        /\ LengthOf(s, NodeOf(z)) = LengthOf(s, z)
        /\ Kind[z.type] # "array" => LengthOf(s, z) = At(s.value, z.path)
        /\ Numbers(s.value)
    BY <1>1, WrittenFacts
  <2>3. CASE Kind[z.type] = "vector"
    <3>1. /\ NodeOf(w) \in Places
          /\ NodeOf(w).type = z.type
          /\ LengthOf(object, NodeOf(w)) = LengthOf(object, w)
          /\ Kind[z.type] # "array" =>
               LengthOf(object, w) = At(object.value, w.path)
          /\ Numbers(object.value)
      BY <1>1, <2>1, WrittenFacts
    <3>2. At(object.value, w.path) > 0
      BY <2>3, <3>1, SetsFacts
    <3>3. At(object.value, w.path) = At(instance, w.at) /\ w.at = z.at
      BY <1>1, <2>1, <2>3, ReadFacts DEF Got, Same
    <3>4. At(instance, z.at) = At(s.value, z.path)
      BY <2>3, LengthThere
    <3> QED
      BY <2>2, <2>3, <3>2, <3>3, <3>4, SetsFacts
  <2>4. CASE Kind[z.type] \in {"optional", "smart_ptr", "union"}
    <3>1. PICK k \in Nat : /\ <<w, k>> \in PartsWritten(object)
                           /\ Sets(object, NodeOf(PartSpot(w, k)))
                           /\ Depth[PartSpot(w, k).type] < Depth[w.type]
      BY <1>1, <2>1, <2>4, PartThatSets
    <3>2. PICK j \in Nat : PartIsBack(s, z, j, w, k)
      BY <2>4, <3>1, PartGoesBack DEF MayBeMore
    <3>3. PartSpot(w, k) \in SpotsRead(object)
      BY <3>2, PartOfRead DEF PartIsBack
    <3>4. PartSpot(z, j) \in SpotsWritten(s)
      BY <3>2, WrittenGuide, PartIsReached DEF PartIsBack, SpotsWritten
    <3>5. Depth[PartSpot(z, j).type] < d
      <4>1. PartSpot(w, k).type = PartSpot(z, j).type
        BY <3>2 DEF PartIsBack, Same
      <4> QED
        BY <1>2, <2>1, <3>1, <3>4, <4>1
    <3>6. Sets(s, NodeOf(PartSpot(z, j)))
      BY <3>1, <3>2, <3>3, <3>4, <3>5 DEF PartIsBack
    <3> QED
      BY <1>1, <3>2, <3>6, SetsAbove DEF PartIsBack
  <2> QED
    BY <2>2, <2>3, <2>4, SetsFacts
<1>5. P = Nat
  <2> HIDE DEF P
  <2>1. P \subseteq Nat
    BY DEF P
  <2> QED
    BY <1>3, <1>4, <2>1, SetInduction
<1>6. Depth[x.type] + 1 \in P /\ Depth[x.type] < Depth[x.type] + 1
  BY <1>2, <1>5
<1> QED
  BY <1>6

LEMMA EntryFacts ==
  ASSUME root \in Types, NEW s, ObjectOK(s, root), NEW x \in SpotsWritten(s)
  PROVE  /\ EntryOf(s, NodeOf(x)) \in Contents(s)
         /\ EntryOf(s, NodeOf(x)).place = x.place
         /\ EntryOf(s, NodeOf(x)).type = x.type
         /\ EntryOf(s, NodeOf(x)).value = ValueOf(s, NodeOf(x))
         /\ Kind[x.type] = "sequence" =>
              ValueOf(s, NodeOf(x)) = At(s.value, x.path)
<1>1. /\ NodeOf(x) \in Places
      /\ NodeOf(x).type = x.type
      /\ NodeOf(x).path = x.path
      /\ NodeOf(x).place = x.place
      /\ Numbers(s.value)
  BY WrittenFacts
<1>2. NodeOf(x) \in Nodes(s)
  BY SpotsAreNodes
<1>3. Kind[x.type] = "sequence" => Sets(s, NodeOf(x))
  BY <1>1, SetsFacts
<1> QED
  BY <1>1, <1>2, <1>3 DEF EntryOf, Contents, ValueOf

LEMMA SlackIsWritten ==
  ASSUME NEW s, root \in Types, ObjectOK(s, root), NEW y \in Spots,
         InSlack(s, y), NEW v
  PROVE  \E e \in Contents(s) :
           Slack([place |-> y.place, type |-> y.type, value |-> v], e)
<1> DEFINE f == [place |-> y.place, type |-> y.type, value |-> v]
<1>1. PICK x \in SpotsWritten(s) :
        \/ Kind[x.type] = "range" /\ IsAt(y.place, x.place)
        \/ /\ Kind[x.type] = "sequence"
           /\ At(s.value, x.path) = 0
           /\ IsIn(y.place, x.place)
  BY DEF InSlack
<1> DEFINE e == EntryOf(s, NodeOf(x))
<1>2. /\ e \in Contents(s)
      /\ e.place = x.place
      /\ e.type = x.type
      /\ Kind[x.type] = "sequence" => e.value = At(s.value, x.path)
  BY EntryFacts
<1>3. f.place = y.place
  OBVIOUS
<1> HIDE DEF e, f
<1>4. Slack(f, e)
  BY <1>1, <1>2, <1>3 DEF Slack
<1>5. \E g \in Contents(s) : Slack(f, g)
  BY <1>2, <1>4
<1> QED
  BY <1>5 DEF f

LEMMA EntryGoesBack ==
  ASSUME NEW s, ReadAlone(s), NEW x \in SpotsWritten(s),
         NEW y \in SpotsRead(object), Same(x, y)
  PROVE  LET e == EntryOf(s, NodeOf(x))
             f == EntryOf(object, NodeOf(y))
         IN f = e \/ Slack(f, e)
<1> DEFINE e == EntryOf(s, NodeOf(x))
           f == EntryOf(object, NodeOf(y))
           a == ValueOf(s, NodeOf(x))
           b == ValueOf(object, NodeOf(y))
<1>1. /\ root \in Types
      /\ ReadBack(s)
      /\ ObjectOK(s, root)
      /\ ObjectOK(object, root)
  BY DEF ReadAlone, ReadBack, IsRoot
<1>2. /\ y \in SpotsWritten(object)
      /\ Got(object, y)
      /\ y.type = x.type
      /\ y.place = x.place
      /\ y.at = x.at
  BY <1>1, ReadFacts DEF Same
<1>3. /\ e.place = x.place
      /\ e.type = x.type
      /\ e.value = a
      /\ Kind[x.type] = "sequence" => a = At(s.value, x.path)
  BY <1>1, EntryFacts
<1>4. /\ f.place = x.place
      /\ f.type = x.type
      /\ f.value = b
      /\ Kind[x.type] = "sequence" => b = At(object.value, y.path)
  BY <1>1, <1>2, EntryFacts
<1>5. ASSUME a = b
      PROVE  f = e
  <2>1. NodeOf(x).place = x.place /\ NodeOf(x).type = x.type
    BY <1>1, WrittenFacts
  <2>2. NodeOf(y).place = x.place /\ NodeOf(y).type = x.type
    BY <1>1, <1>2, WrittenFacts
  <2> QED
    BY <1>5, <2>1, <2>2 DEF EntryOf
<1> HIDE DEF a, b, e, f
<1>6. IsAt(x.place, x.place)
  BY WrittenSpot, IsAtSame
<1>7. CASE Kind[x.type] = "range"
  <2>1. Slack(f, e)
    BY <1>3, <1>4, <1>6, <1>7 DEF Slack
  <2> QED
    BY <2>1 DEF e, f
<1>8. CASE Kind[x.type] = "sequence"
  <2>1. b = At(instance, x.at)
    BY <1>2, <1>4, <1>8 DEF Got
  <2>2. LengthIs(At(instance, x.at), a)
    BY <1>3, <1>8, LengthThere
  <2>3. b = a \/ (a = 0 /\ b = 1)
    BY <2>1, <2>2 DEF LengthIs
  <2>4. a = 0 /\ b = 1 => Slack(f, e)
    BY <1>3, <1>4, <1>8 DEF Slack
  <2> QED
    BY <1>5, <2>3, <2>4 DEF e, f
<1>9. CASE Kind[x.type] \notin {"range", "sequence"}
  <2>1. a = b
    <3>1. CASE Sets(s, NodeOf(x))
      BY <1>1, <1>9, <3>1, EntryComesBack DEF a, b
    <3>2. CASE ~Sets(s, NodeOf(x))
      <4>1. ~Sets(object, NodeOf(y))
        BY <3>2, SetsGoBack
      <4> QED
        BY <3>2, <4>1 DEF a, b, ValueOf
    <3> QED
      BY <3>1, <3>2
  <2> QED
    BY <1>5, <2>1 DEF e, f
<1> QED
  BY <1>7, <1>8, <1>9

LEMMA NodeGoesBack ==
  ASSUME NEW s, ReadAlone(s), NEW n \in Nodes(object)
  PROVE  \/ EntryOf(object, n) \in Contents(s)
         \/ \E e \in Contents(s) : Slack(EntryOf(object, n), e)
<1>1. /\ root \in Types
      /\ ObjectOK(s, root)
      /\ ObjectOK(object, root)
  BY DEF ReadAlone, ReadBack, IsRoot
<1>2. PICK y \in SpotsWritten(object) : n = NodeOf(y)
  BY <1>1, NodesAreSpots
<1>3. CASE IsBack(s, y)
  <2>1. PICK x \in SpotsWritten(s) : Same(x, y)
    BY <1>3 DEF IsBack
  <2>2. y \in SpotsRead(object)
    BY <1>3 DEF IsBack
  <2>3. EntryOf(s, NodeOf(x)) \in Contents(s)
    BY <1>1, EntryFacts
  <2> QED
    BY <1>2, <2>1, <2>2, <2>3, EntryGoesBack
<1>4. CASE InSlack(s, y)
  <2>1. y \in Spots /\ n.place = y.place /\ n.type = y.type
    BY <1>1, <1>2, WrittenFacts
  <2>2. \E e \in Contents(s) :
          Slack([place |-> y.place, type |-> y.type,
                 value |-> ValueOf(object, n)], e)
    BY <1>1, <1>4, <2>1, SlackIsWritten
  <2> QED
    BY <2>1, <2>2 DEF EntryOf
<1> QED
  BY <1>3, <1>4, EverythingIsBack

LEMMA ReadingAlone ==
  IInv /\ Typing /\ Delivery /\ Reading /\ Alone /\ Plain => NothingElseArrives
<1> SUFFICES ASSUME IInv, Typing, Delivery, Reading, Alone, Plain, WholeRead,
                    call.fresh, message.blank
             PROVE  \A e \in Contents(object) :
                      \/ e \in message.written
                      \/ \E f \in message.written : Slack(e, f)
  BY DEF NothingElseArrives
<1>1. PICK s : WasWritten(s, instance, message) /\ OnlyWritten(s, instance)
  BY DEF WholeRead, Alone, WasWrittenAlone
<1>2. ReadBack(s)
  <2>1. IsRoot /\ Numbers(instance) /\ ObjectOK(object, root)
    BY DEF IInv, IsRoot, Typing
  <2>2. ObjectOK(s, root) /\ AllWritten(s)
    BY <1>1 DEF WasWritten, AllWritten
  <2>3. AllRead
    BY DEF WholeRead, Reading, AllRead
  <2> QED
    BY <2>1, <2>2, <2>3 DEF ReadBack, WholeRead
<1>3. ASSUME NEW y \in SpotsRead(object), Kind[y.type] = "optional",
             y.at \notin DOMAIN instance
      PROVE  At(object.value, y.path) = 0
  <2>1. OptionalsThere(object, instance)
    BY DEF Plain, WholeRead
  <2> QED
    BY <1>3, <2>1, ReadGuide DEF OptionalsThere, SpotsRead
<1>4. ReadAlone(s)
  BY <1>1, <1>2, <1>3 DEF ReadAlone
<1>5. message.written = Contents(s)
  BY <1>1 DEF WasWritten
<1>6. Contents(object) = {EntryOf(object, n) : n \in Nodes(object)}
  BY DEF Contents, EntryOf
<1> QED
  BY <1>4, <1>5, <1>6, NodeGoesBack

(* After a write_dynamicdata to a blank DDS_DynamicData and a              *)
(* read_dynamicdata into a fresh object that both return, there is nothing *)
(* in the object that was not written, however the types are nested: but   *)
(* for what a range had behind its end, and the one element that           *)
(* set_seq_length may leave of a sequence that was empty.                  *)
THEOREM NothingElseComesBack == Spec => []NothingElseArrives
<1> DEFINE Inv == IInv /\ Typing /\ Delivery /\ Reading /\ Alone /\ Plain
<1>1. Init => Inv
  BY InitInvariant, InitTyping, InitDelivery, InitReading, InitAlone, InitPlain
<1>2. Inv /\ [Next]_vars => Inv'
  <2>1. IInv => IsRoot
    BY DEF IInv, IsRoot
  <2> QED
    BY <2>1, StepInvariant, StepTyping, StepDelivery, StepReading, StepAlone,
       StepPlain
<1>3. Inv => NothingElseArrives
  BY ReadingAlone
<1> QED
  BY <1>1, <1>2, <1>3, PTL DEF Spec
=============================================================================
