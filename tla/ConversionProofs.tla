-------------------------- MODULE ConversionProofs --------------------------
(***************************************************************************)
(* What module Conversion says of SafeBinder, proved for any types that    *)
(* can be adapted, however deep, any values and whichever calls may fail.  *)
(***************************************************************************)
EXTENDS ConversionLemmas

UsesMember == {"set", "get", "activate", "unbind"}

(* A step that is on the stack: its type exists, and a member has a place. *)
GoodStep(e) ==
  /\ {"op", "type", "o", "i"} \subseteq DOMAIN e
  /\ e.type \in Types
  /\ IsSeq(e.o)
  /\ IsSeq(e.i)
  /\ e.op \in UsesMember => e.i # <<>>

GoodSteps(s) == IsSeq(s) /\ \A k \in 1..Len(s) : GoodStep(s[k])

(* The innermost instance after a step.                                    *)
After(e) == IF e.op = "unbind" THEN Front(e.i) ELSE UsedBy(e)

(* The steps s can be taken when a is the innermost instance, and leave b. *)
Leads(s, a, b) ==
  IF s = <<>> THEN a = b
  ELSE /\ UsedBy(s[1]) = a
       /\ \A k \in 1..Len(s) - 1 : UsedBy(s[k + 1]) = After(s[k])
       /\ After(s[Len(s)]) = b

(* Steps that use the instance a, and none unbinds it.                     *)
AllUse(s, a) ==
  \A k \in 1..Len(s) : UsedBy(s[k]) = a /\ s[k].op # "unbind"

BoundOK ==
  /\ IsSeq(bound)
  /\ \A k \in 1..Len(bound) :
       /\ IsSeq(bound[k])
       /\ bound[k] # <<>>
       /\ Front(bound[k]) = IF k = 1 THEN <<>> ELSE bound[k - 1]

StackOK ==
  /\ GoodSteps(todo)
  /\ Leads(todo, Innermost, <<>>)
  /\ BoundOK

IInv ==
  /\ root \in Types
  /\ Kind[root] \in {"struct", "derived"}
  /\ GoodObject(object)
  /\ Numbers(instance)
  /\ StackOK

-----------------------------------------------------------------------------
(* Stacks of steps.                                                        *)

(* Steps that all use the innermost instance lead nowhere else.            *)
LEMMA AllUseLeads ==
  ASSUME NEW s, NEW a, IsSeq(s), AllUse(s, a)
  PROVE  Leads(s, a, a)
<1>1. CASE s = <<>>
  BY <1>1 DEF Leads
<1>2. CASE s # <<>>
  <2>1. Len(s) \in Nat /\ Len(s) > 0
    BY <1>2, SeqFacts
  <2>2. \A k \in 1..Len(s) : After(s[k]) = a
    BY DEF AllUse, After
  <2> QED
    BY <1>2, <2>1, <2>2 DEF AllUse, Leads
<1> QED
  BY <1>1, <1>2

LEMMA ConcatGoodSteps ==
  ASSUME NEW s, NEW r, GoodSteps(s), GoodSteps(r)
  PROVE  GoodSteps(s \o r)
<1> DEFINE u == s \o r
           m == Len(s)
           n == Len(r)
<1>1. /\ IsSeq(u)
      /\ Len(u) = m + n
      /\ \A k \in 1..m : u[k] = s[k]
      /\ \A k \in 1..n : u[m + k] = r[k]
      /\ m \in Nat
      /\ n \in Nat
  BY ConcatFacts, SeqFacts DEF GoodSteps
<1>2. ASSUME NEW k \in 1..Len(u)
      PROVE  GoodStep(u[k])
  <2>1. CASE k <= m
    BY <1>1, <2>1 DEF GoodSteps
  <2>2. CASE k > m
    <3>1. k - m \in 1..n /\ k = m + (k - m)
      BY <1>1, <2>2
    <3>2. u[k] = r[k - m]
      BY <1>1, <3>1
    <3> QED
      BY <3>1, <3>2 DEF GoodSteps
  <2> QED
    BY <1>1, <2>1, <2>2
<1> QED
  BY <1>1, <1>2 DEF GoodSteps

(* Steps that lead from a to b, then steps that lead from b to c.          *)
LEMMA ConcatLeads ==
  ASSUME NEW s, NEW r, NEW a, NEW b, NEW c, IsSeq(s), IsSeq(r),
         Leads(s, a, b), Leads(r, b, c)
  PROVE  Leads(s \o r, a, c)
<1> DEFINE u == s \o r
           m == Len(s)
           n == Len(r)
<1>1. /\ IsSeq(u)
      /\ Len(u) = m + n
      /\ \A k \in 1..m : u[k] = s[k]
      /\ \A k \in 1..n : u[m + k] = r[k]
      /\ s = <<>> => u = r
  BY ConcatFacts
<1>2. /\ m \in Nat
      /\ n \in Nat
      /\ s # <<>> => m > 0
      /\ r # <<>> => n > 0
      /\ r = <<>> => n = 0
      /\ u = <<>> => Len(u) = 0
  BY <1>1, SeqFacts
<1>3. CASE s = <<>>
  BY <1>1, <1>3 DEF Leads
<1>4. CASE s # <<>> /\ r = <<>>
  <2>1. n = 0 /\ Len(u) = m /\ u # <<>>
    BY <1>1, <1>2, <1>4
  <2>2. b = c
    BY <1>4 DEF Leads
  <2>3. /\ UsedBy(s[1]) = a
        /\ \A k \in 1..m - 1 : UsedBy(s[k + 1]) = After(s[k])
        /\ After(s[m]) = c
    BY <1>4, <2>2 DEF Leads
  <2>4. UsedBy(u[1]) = a /\ After(u[m]) = c
    BY <1>1, <1>2, <1>4, <2>3
  <2>5. \A k \in 1..m - 1 : UsedBy(u[k + 1]) = After(u[k])
    BY <1>1, <1>2, <2>3
  <2> QED
    BY <2>1, <2>4, <2>5 DEF Leads
<1>5. CASE s # <<>> /\ r # <<>>
  <2>1. m > 0 /\ n > 0 /\ u # <<>>
    BY <1>1, <1>2, <1>5
  <2>2. /\ UsedBy(s[1]) = a
        /\ \A k \in 1..m - 1 : UsedBy(s[k + 1]) = After(s[k])
        /\ After(s[m]) = b
    BY <1>5 DEF Leads
  <2>3. /\ UsedBy(r[1]) = b
        /\ \A k \in 1..n - 1 : UsedBy(r[k + 1]) = After(r[k])
        /\ After(r[n]) = c
    BY <1>5 DEF Leads
  <2>4. UsedBy(u[1]) = a
    BY <1>1, <1>2, <2>1, <2>2
  <2>5. After(u[m + n]) = c
    BY <1>1, <1>2, <2>1, <2>3
  <2>6. ASSUME NEW k \in 1..m + n - 1
        PROVE  UsedBy(u[k + 1]) = After(u[k])
    <3>1. CASE k < m
      BY <1>1, <1>2, <2>2, <3>1
    <3>2. CASE k = m
      <4>1. u[k] = s[m] /\ u[k + 1] = r[1]
        BY <1>1, <1>2, <2>1, <3>2
      <4> QED
        BY <2>2, <2>3, <4>1
    <3>3. CASE k > m
      <4>1. k - m \in 1..n - 1 /\ k = m + (k - m) /\ k + 1 = m + (k - m + 1)
        BY <1>2, <3>3
      <4>2. u[k] = r[k - m] /\ u[k + 1] = r[k - m + 1]
        BY <1>1, <1>2, <4>1
      <4> QED
        BY <2>3, <4>1, <4>2
    <3> QED
      BY <1>2, <3>1, <3>2, <3>3
  <2> QED
    BY <1>1, <2>1, <2>4, <2>5, <2>6 DEF Leads
<1> QED
  BY <1>3, <1>4, <1>5

(* What is left after the next step, and what that step uses.              *)
LEMMA TailLeads ==
  ASSUME NEW s, NEW a, NEW c, GoodSteps(s), Leads(s, a, c), s # <<>>
  PROVE  /\ GoodStep(Head(s))
         /\ UsedBy(Head(s)) = a
         /\ GoodSteps(Tail(s))
         /\ Leads(Tail(s), After(Head(s)), c)
<1> DEFINE r == Tail(s)
           n == Len(s)
<1>1. /\ Head(s) = s[1]
      /\ IsSeq(r)
      /\ Len(r) = n - 1
      /\ \A k \in 1..n - 1 : r[k] = s[k + 1]
      /\ n \in Nat
      /\ n > 0
  BY HeadTailFacts, SeqFacts DEF GoodSteps
<1>2. GoodStep(s[1]) /\ UsedBy(s[1]) = a
  BY <1>1 DEF GoodSteps, Leads
<1>3. \A k \in 1..Len(r) : GoodStep(r[k])
  BY <1>1 DEF GoodSteps
<1>4. /\ \A k \in 1..n - 1 : UsedBy(s[k + 1]) = After(s[k])
      /\ After(s[n]) = c
  BY DEF Leads
<1>5. CASE r = <<>>
  <2>1. n = 1
    BY <1>1, <1>5, EmptyIsSeq
  <2> QED
    BY <1>1, <1>2, <1>3, <1>4, <1>5, <2>1 DEF GoodSteps, Leads
<1>6. CASE r # <<>>
  <2>1. n > 1
    BY <1>1, <1>6, SeqFacts
  <2>2. UsedBy(r[1]) = After(s[1])
    BY <1>1, <1>4, <2>1
  <2>3. After(r[Len(r)]) = c
    BY <1>1, <1>4, <2>1
  <2>4. \A k \in 1..Len(r) - 1 : UsedBy(r[k + 1]) = After(r[k])
    BY <1>1, <1>4
  <2> QED
    BY <1>1, <1>2, <1>3, <1>6, <2>2, <2>3, <2>4 DEF GoodSteps, Leads
<1> QED
  BY <1>5, <1>6

LEMMA ConcatAllUse ==
  ASSUME NEW s, NEW r, NEW a, IsSeq(s), IsSeq(r), AllUse(s, a), AllUse(r, a)
  PROVE  AllUse(s \o r, a)
<1> DEFINE u == s \o r
           m == Len(s)
           n == Len(r)
<1>1. /\ Len(u) = m + n
      /\ \A k \in 1..m : u[k] = s[k]
      /\ \A k \in 1..n : u[m + k] = r[k]
      /\ m \in Nat
      /\ n \in Nat
  BY ConcatFacts, SeqFacts
<1>2. ASSUME NEW k \in 1..Len(u)
      PROVE  UsedBy(u[k]) = a /\ u[k].op # "unbind"
  <2>1. CASE k <= m
    BY <1>1, <2>1 DEF AllUse
  <2>2. CASE k > m
    <3>1. k - m \in 1..n /\ k = m + (k - m)
      BY <1>1, <2>2
    <3>2. u[k] = r[k - m]
      BY <1>1, <3>1
    <3> QED
      BY <3>1, <3>2 DEF AllUse
  <2> QED
    BY <1>1, <2>1, <2>2
<1> QED
  BY <1>2 DEF AllUse

LEMMA OneStep ==
  ASSUME NEW e, GoodStep(e)
  PROVE  /\ GoodSteps(<<e>>)
         /\ \A a : UsedBy(e) = a /\ e.op # "unbind" => AllUse(<<e>>, a)
         /\ Leads(<<e>>, UsedBy(e), After(e))
<1>1. IsSeq(<<e>>) /\ Len(<<e>>) = 1 /\ <<e>>[1] = e /\ <<e>> # <<>>
  BY OneIsSeq, EmptyIsSeq
<1>2. \A k \in 1..Len(<<e>>) : <<e>>[k] = e
  BY <1>1
<1>3. \A k \in 1..Len(<<e>>) - 1 : FALSE
  BY <1>1
<1>4. GoodSteps(<<e>>)
  BY <1>1, <1>2 DEF GoodSteps
<1>5. \A a : UsedBy(e) = a /\ e.op # "unbind" => AllUse(<<e>>, a)
  BY <1>2 DEF AllUse
<1>6. Leads(<<e>>, UsedBy(e), After(e))
  BY <1>1, <1>3 DEF Leads
<1> QED
  BY <1>4, <1>5, <1>6

LEMMA NoStep == GoodSteps(<<>>) /\ \A a : AllUse(<<>>, a)
  BY EmptyIsSeq DEF GoodSteps, AllUse

(* A step that pushes steps on the same instance keeps the stack in order. *)
LEMMA ContinueKeepsStack ==
  ASSUME StackOK, todo # <<>>, Current.op # "unbind",
         NEW steps, GoodSteps(steps), AllUse(steps, UsedBy(Current)),
         Continue(steps), bound' = bound
  PROVE  StackOK'
<1> DEFINE a == UsedBy(Current)
<1>1. /\ GoodStep(Current)
      /\ a = Innermost
      /\ GoodSteps(Tail(todo))
      /\ Leads(Tail(todo), a, <<>>)
  BY TailLeads DEF StackOK, Current, After
<1>2. IsSeq(steps) /\ IsSeq(Tail(todo))
  BY <1>1 DEF GoodSteps
<1>3. Leads(steps, a, a)
  BY <1>2, AllUseLeads
<1>4. GoodSteps(steps \o Tail(todo))
  BY <1>1, ConcatGoodSteps
<1>5. Leads(steps \o Tail(todo), a, <<>>)
  BY <1>1, <1>2, <1>3, ConcatLeads
<1>6. Innermost' = Innermost /\ BoundOK'
  BY DEF StackOK, BoundOK, Innermost
<1>7. todo' = steps \o Tail(todo)
  BY DEF Continue
<1> QED
  BY <1>1, <1>4, <1>5, <1>6, <1>7 DEF StackOK

(* A step that binds, and pushes steps on the instance it has bound.       *)
LEMMA BindKeepsStack ==
  ASSUME StackOK, todo # <<>>, Current.op \in {"set", "get"},
         NEW steps, GoodSteps(steps), AllUse(steps, Current.i),
         Bind(steps)
  PROVE  StackOK'
<1> DEFINE i == Current.i
           u == [Current EXCEPT !.op = "unbind"]
           b == Append(bound, i)
           all == Append(steps, u)
<1>1. /\ GoodStep(Current)
      /\ UsedBy(Current) = Innermost
      /\ GoodSteps(Tail(todo))
      /\ Leads(Tail(todo), Innermost, <<>>)
  BY TailLeads DEF StackOK, Current, After
<1>2. IsSeq(i) /\ i # <<>> /\ Front(i) = Innermost
  BY <1>1 DEF GoodStep, UsesMember, UsedBy
<1>3. u.op = "unbind" /\ u.i = i /\ GoodStep(u)
  BY <1>1, <1>2 DEF GoodStep
<1>4. bound' = b /\ todo' = all \o Tail(todo)
  BY DEF Bind, Continue
<1>5. /\ IsSeq(b)
      /\ Len(b) = Len(bound) + 1
      /\ \A k \in 1..Len(bound) : b[k] = bound[k]
      /\ b[Len(bound) + 1] = i
      /\ b # <<>>
      /\ Last(b) = i
      /\ IsSeq(bound)
      /\ Len(bound) \in Nat
      /\ bound = <<>> => Len(bound) = 0
      /\ bound # <<>> => Len(bound) > 0
  <2>1. IsSeq(bound)
    BY DEF StackOK, BoundOK
  <2> HIDE DEF i
  <2> QED
    BY <2>1, AppendFacts, SeqFacts, EmptyIsSeq
<1>6. Innermost' = i
  BY <1>4, <1>5 DEF Innermost
<1>7. ASSUME NEW k \in 1..Len(b)
      PROVE  IsSeq(b[k]) /\ b[k] # <<>>
               /\ Front(b[k]) = IF k = 1 THEN <<>> ELSE b[k - 1]
  <2>1. CASE k \in 1..Len(bound)
    <3>1. b[k] = bound[k] /\ (k # 1 => b[k - 1] = bound[k - 1])
      BY <1>5, <2>1
    <3> QED
      BY <2>1, <3>1 DEF StackOK, BoundOK
  <2>2. CASE k = Len(bound) + 1
    <3>1. b[k] = i
      BY <1>5, <2>2
    <3>2. Innermost = IF k = 1 THEN <<>> ELSE bound[k - 1]
      BY <1>5, <2>2 DEF Innermost, Last
    <3>3. k # 1 => b[k - 1] = bound[k - 1]
      BY <1>5, <2>2
    <3> QED
      BY <1>2, <3>1, <3>2, <3>3
  <2> QED
    BY <1>5, <2>1, <2>2
<1>8. BoundOK'
  BY <1>4, <1>5, <1>7 DEF BoundOK
<1>9. GoodSteps(all) /\ Leads(all, i, Innermost)
  <2>1. GoodSteps(steps \o <<u>>)
    BY <1>3, OneStep, ConcatGoodSteps
  <2>2. UsedBy(u) = i /\ After(u) = Innermost
    BY <1>2, <1>3 DEF UsedBy, After
  <2>3. Leads(<<u>>, i, Innermost) /\ IsSeq(<<u>>)
    BY <1>3, <2>2, OneStep, OneIsSeq
  <2>4. Leads(steps, i, i) /\ IsSeq(steps)
    BY AllUseLeads DEF GoodSteps
  <2>5. Leads(steps \o <<u>>, i, Innermost)
    BY <2>3, <2>4, ConcatLeads
  <2>6. all = steps \o <<u>>
    <3>1. PICK S : steps \in Seq(S)
      BY <2>4 DEF IsSeq
    <3>2. steps \in Seq(S \cup {u})
      BY <3>1, SeqMonotonic
    <3> HIDE DEF u
    <3> QED
      BY <3>2, AppendIsConcat
  <2> HIDE DEF all
  <2> QED
    BY <2>1, <2>5, <2>6
<1>10. GoodSteps(all \o Tail(todo)) /\ Leads(all \o Tail(todo), i, <<>>)
  <2> HIDE DEF all
  <2> QED
    BY <1>1, <1>9, ConcatGoodSteps, ConcatLeads DEF GoodSteps
<1> HIDE DEF all
<1> QED
  BY <1>4, <1>6, <1>8, <1>10 DEF StackOK

(* The destructor of the innermost SafeBinder.                             *)
LEMMA UnbindKeepsStack ==
  ASSUME StackOK, Unbind
  PROVE  StackOK'
<1>1. /\ GoodStep(Current)
      /\ Current.i = Innermost
      /\ GoodSteps(Tail(todo))
      /\ Leads(Tail(todo), Front(Current.i), <<>>)
      /\ Current.i # <<>>
  BY TailLeads DEF StackOK, Unbind, Current, After, UsedBy, GoodStep, UsesMember
<1>2. bound # <<>> /\ Last(bound) = Current.i
  BY <1>1 DEF Innermost
<1> DEFINE n == Len(bound)
           b == Front(bound)
<1>3. IsSeq(bound) /\ n \in Nat /\ n > 0
  BY <1>2, SeqFacts DEF StackOK, BoundOK
<1>4. /\ IsSeq(b)
      /\ Len(b) = n - 1
      /\ \A k \in 1..n - 1 : b[k] = bound[k]
  BY <1>2, <1>3, FrontFacts
<1>5. BoundOK'
  <2>1. bound' = b
    BY DEF Unbind
  <2>2. ASSUME NEW k \in 1..Len(b)
        PROVE  IsSeq(b[k]) /\ b[k] # <<>>
                 /\ Front(b[k]) = IF k = 1 THEN <<>> ELSE b[k - 1]
    <3>1. b[k] = bound[k] /\ (k # 1 => b[k - 1] = bound[k - 1]) /\ k \in 1..n
      BY <1>3, <1>4
    <3> QED
      BY <3>1 DEF StackOK, BoundOK
  <2> QED
    BY <1>4, <2>1, <2>2 DEF BoundOK
<1>6. Front(Current.i) = Innermost'
  <2>1. Current.i = bound[n] /\ bound' = b
    BY <1>2 DEF Last, Unbind
  <2>2. Front(Current.i) = IF n = 1 THEN <<>> ELSE bound[n - 1]
    <3>1. n \in 1..Len(bound)
      BY <1>3
    <3>2. Front(bound[n]) = IF n = 1 THEN <<>> ELSE bound[n - 1]
      BY <3>1 DEF StackOK, BoundOK
    <3> QED
      BY <2>1, <3>2
  <2>3. CASE n = 1
    <3>1. b = <<>>
      BY <1>3, <1>4, <2>3, SeqFacts
    <3> QED
      BY <2>1, <2>2, <2>3, <3>1 DEF Innermost
  <2>4. CASE n # 1
    <3>1. b # <<>> /\ Last(b) = bound[n - 1]
      BY <1>3, <1>4, <2>4, EmptyIsSeq DEF Last
    <3> QED
      BY <2>1, <2>2, <2>4, <3>1 DEF Innermost
  <2> QED
    BY <2>3, <2>4
<1>7. todo' = Tail(todo)
  <2>1. IsSeq(Tail(todo))
    BY <1>1 DEF GoodSteps
  <2> QED
    BY <2>1, EmptyIsSeq, ConcatFacts DEF Unbind, Continue
<1> QED
  BY <1>1, <1>5, <1>6, <1>7 DEF StackOK

-----------------------------------------------------------------------------
(* Steps that overloads push.                                              *)

(* The steps for the members of a class use one instance.                  *)
LEMMA MemberSteps ==
  ASSUME NEW t \in Types, Kind[t] \in Aggregates,
         NEW o, NEW i, IsSeq(o), IsSeq(i),
         NEW op \in {"set", "get"}, NEW base \in {"set_base", "get_base"}
  PROVE  /\ GoodSteps(StepPerMember(op, base, t, o, i))
         /\ AllUse(StepPerMember(op, base, t, o, i), i)
<1> DEFINE own == OwnMembers(t)
           shift == IF Inherits(t) THEN 1 ELSE 0
           E(k) == Step(op, own[k], Append(o, k + shift),
                        Append(i, MembersInBases[t] + k))
           s == [k \in DOMAIN own |-> E(k)]
           b == IF Inherits(t)
                THEN <<Step(base, Parts[t][1], Append(o, 1), i)>> ELSE <<>>
<1>1. Parts[t] \in Seq(Types) /\ (Inherits(t) => Parts[t] # <<>>)
  <2>1. Parts[t] \in Seq(Types) /\ (Inherits(t) => Len(Parts[t]) > 1)
    BY TypesAreAdapted DEF Inherits
  <2> QED
    BY <2>1, EmptyIsSeq
<1>2. own \in Seq(Types)
  BY <1>1, HeadTailProperties DEF OwnMembers
<1>3. DOMAIN own = 1..Len(own) /\ Len(own) \in Nat
  BY <1>2, LenProperties
<1>4. \A k \in 1..Len(own) : own[k] \in Types
  BY <1>2, ElementOfSeq
<1>5. ASSUME NEW k \in 1..Len(own)
      PROVE  GoodStep(E(k)) /\ UsedBy(E(k)) = i /\ E(k).op # "unbind"
  <2>1. /\ IsSeq(Append(i, MembersInBases[t] + k))
        /\ Append(i, MembersInBases[t] + k) # <<>>
        /\ Front(Append(i, MembersInBases[t] + k)) = i
        /\ IsSeq(Append(o, k + shift))
    BY AppendFacts
  <2>2. own[k] \in Types
    BY <1>4
  <2> HIDE DEF own
  <2> QED
    BY <2>1, <2>2 DEF Step, GoodStep, UsedBy, UsesMember
<1>6. IsSeq(s) /\ Len(s) = Len(own) /\ \A k \in 1..Len(own) : s[k] = E(k)
  <2> HIDE DEF own, E
  <2>1. s = [k \in 1..Len(own) |-> s[k]]
    BY <1>3
  <2>2. IsSeq(s) /\ Len(s) = Len(own)
    <3> HIDE DEF s
    <3> QED
      BY <1>3, <2>1, FunctionIsSeq
  <2> QED
    BY <1>3, <2>2
<1>7. GoodSteps(s) /\ AllUse(s, i)
  <2> HIDE DEF s, E
  <2> QED
    BY <1>5, <1>6 DEF GoodSteps, AllUse
<1>8. GoodSteps(b) /\ AllUse(b, i)
  <2>1. CASE ~Inherits(t)
    BY <2>1, NoStep
  <2>2. CASE Inherits(t)
    <3> DEFINE e == Step(base, Parts[t][1], Append(o, 1), i)
    <3>1. Parts[t][1] \in Types
      BY <1>1, <2>2, HeadTailProperties
    <3>2. GoodStep(e) /\ UsedBy(e) = i /\ e.op # "unbind"
      BY <3>1, AppendFacts DEF Step, GoodStep, UsedBy, UsesMember
    <3> HIDE DEF e
    <3>3. GoodSteps(<<e>>) /\ AllUse(<<e>>, i)
      BY <3>2, OneStep
    <3>4. b = <<e>>
      BY <2>2 DEF e
    <3> QED
      BY <3>3, <3>4
  <2> QED
    BY <2>1, <2>2
<1>9. StepPerMember(op, base, t, o, i) = b \o s
  BY DEF StepPerMember
<1> HIDE DEF b, s
<1>10. GoodSteps(b \o s)
  BY <1>7, <1>8, ConcatGoodSteps
<1>11. AllUse(b \o s, i)
  BY <1>7, <1>8, ConcatAllUse DEF GoodSteps
<1> QED
  BY <1>9, <1>10, <1>11

LEMMA PartOfWrapper ==
  ASSUME NEW t \in Types, Kind[t] \in Wrappers
  PROVE  Parts[t][1] \in Types
<1>1. Parts[t] \in Seq(Types) /\ Len(Parts[t]) = 1
  BY TypesAreAdapted
<1> QED
  BY <1>1, ElementOfSeq

(* So do those for the elements of a container.                            *)
LEMMA ElementSteps ==
  ASSUME NEW e, GoodStep(e), Kind[e.type] \in Wrappers,
         NEW op \in {"set", "get"}, NEW n \in Nat
  PROVE  /\ GoodSteps(StepPerElement(op, e, n))
         /\ AllUse(StepPerElement(op, e, n), e.i)
<1> DEFINE E(k) == Step(op, Parts[e.type][1], Append(e.o, k), Append(e.i, k))
           s == [k \in 1..n |-> E(k)]
<1>1. Parts[e.type][1] \in Types
  BY PartOfWrapper DEF GoodStep
<1>2. ASSUME NEW k \in 1..n
      PROVE  GoodStep(E(k)) /\ UsedBy(E(k)) = e.i /\ E(k).op # "unbind"
  <2>1. /\ IsSeq(Append(e.i, k))
        /\ Append(e.i, k) # <<>>
        /\ Front(Append(e.i, k)) = e.i
        /\ IsSeq(Append(e.o, k))
    BY AppendFacts DEF GoodStep
  <2> QED
    BY <1>1, <2>1 DEF Step, GoodStep, UsedBy, UsesMember
<1>3. IsSeq(s) /\ Len(s) = n /\ \A k \in 1..n : s[k] = E(k)
  <2> HIDE DEF E
  <2>1. s = [k \in 1..n |-> s[k]]
    OBVIOUS
  <2>2. IsSeq(s) /\ Len(s) = n
    <3> HIDE DEF s
    <3> QED
      BY <2>1, FunctionIsSeq
  <2> QED
    BY <2>2
<1>4. StepPerElement(op, e, n) = s
  BY DEF StepPerElement
<1> HIDE DEF s, E
<1> QED
  BY <1>2, <1>3, <1>4 DEF GoodSteps, AllUse

(* The current step with other op, type or place, on the same instance.    *)
LEMMA PointedStep ==
  ASSUME GoodStep(Current), Kind[Current.type] \in Wrappers,
         Current.op \in {"set", "get"}
  PROVE  GoodSteps(<<Pointed>>) /\ AllUse(<<Pointed>>, UsedBy(Current))
<1>1. ElementType \in Types
  BY PartOfWrapper DEF GoodStep, ElementType
<1>2. /\ GoodStep(Pointed)
      /\ UsedBy(Pointed) = UsedBy(Current)
      /\ Pointed.op # "unbind"
  BY <1>1, AppendFacts DEF GoodStep, Pointed, UsedBy
<1> QED
  BY <1>2, OneStep

(* Those for a union, and for its case, use the instance of the union.     *)
LEMMA UnionStep ==
  ASSUME GoodStep(Current), NEW op \in {"set_union", "get_union"}
  PROVE  LET s == <<[Current EXCEPT !.op = op, !.case = FALSE]>>
         IN GoodSteps(s) /\ AllUse(s, Current.i)
<1> DEFINE e == [Current EXCEPT !.op = op, !.case = FALSE]
<1>1. GoodStep(e) /\ UsedBy(e) = Current.i /\ e.op # "unbind"
  BY DEF GoodStep, UsedBy, UsesMember
<1> HIDE DEF e
<1>2. GoodSteps(<<e>>) /\ AllUse(<<e>>, Current.i)
  BY <1>1, OneStep
<1> QED
  BY <1>2 DEF e

LEMMA CaseStep ==
  ASSUME GoodStep(Current), Kind[Current.type] = "union",
         NEW op \in {"set", "get"}, NEW o, IsSeq(o),
         NEW c \in 1..NCases(Current.type)
  PROVE  LET e == StepForCase(op, o, c)
         IN GoodStep(e) /\ UsedBy(e) = Current.i /\ e.op # "unbind"
<1>1. CaseType(Current.type, c) \in Types
  <2>1. Current.type \in Types
    BY DEF GoodStep
  <2>2. Parts[Current.type] \in Seq(Types)
    BY <2>1, TypesAreAdapted
  <2>3. Len(Parts[Current.type]) \in Nat
    BY <2>2, LenProperties
  <2>4. c + 1 \in 1..Len(Parts[Current.type])
    BY <2>3 DEF NCases
  <2> QED
    BY <2>2, <2>4, ElementOfSeq DEF CaseType
<1>2. /\ IsSeq(Append(Current.i, c))
      /\ Append(Current.i, c) # <<>>
      /\ Front(Append(Current.i, c)) = Current.i
  BY AppendFacts DEF GoodStep
<1> QED
  BY <1>1, <1>2 DEF StepForCase, GoodStep, UsedBy, UsesMember

-----------------------------------------------------------------------------
(* Actions.                                                                *)

(* The next step of the conversion.                                        *)
LEMMA CurrentIsGood ==
  ASSUME IInv, todo # <<>>
  PROVE  GoodStep(Current)
  BY TailLeads DEF IInv, StackOK, Current

(* A step that goes on in the same instance.                               *)
LEMMA ContinueStep ==
  ASSUME IInv, todo # <<>>, Current.op # "unbind",
         NEW steps, GoodSteps(steps), AllUse(steps, UsedBy(Current)),
         Continue(steps), UNCHANGED <<root, bound>>,
         GoodObject(object'), Numbers(instance')
  PROVE  IInv'
<1>1. StackOK'
  BY ContinueKeepsStack DEF IInv
<1> QED
  BY <1>1 DEF IInv, GoodObject, Numbers

(* A step that binds its member: the steps in between use that member, and *)
(* the last one unbinds it.                                                *)
LEMMA BindStep ==
  ASSUME IInv, todo # <<>>, Current.op \in {"set", "get"},
         NEW steps, GoodSteps(steps), AllUse(steps, Current.i),
         Bind(steps), root' = root, GoodObject(object'), Numbers(instance')
  PROVE  IInv'
<1>1. StackOK'
  BY BindKeepsStack DEF IInv
<1> QED
  BY <1>1 DEF IInv, GoodObject, Numbers

LEMMA BindToSetStep ==
  ASSUME IInv, todo # <<>>, Current.op = "set",
         NEW steps, GoodSteps(steps), AllUse(steps, Current.i),
         BindToSet(steps)
  PROVE  IInv'
<1>1. Numbers(instance') /\ GoodObject(object')
  BY AtIsNumber, WithMemberIsGood DEF IInv, BindToSet
<1> QED
  BY <1>1, BindStep DEF BindToSet

LEMMA SetStep ==
  ASSUME IInv, todo # <<>>, Current.op = "set", NEW i, Numbers(i), Set(i)
  PROVE  IInv'
  BY NoStep, ContinueStep DEF IInv, Set

LEMMA GetStep ==
  ASSUME IInv, todo # <<>>, Current.op # "unbind", NEW s, GoodObject(s), Get(s)
  PROVE  IInv'
  BY NoStep, ContinueStep DEF IInv, Get

LEMMA SkipStep ==
  ASSUME IInv, todo # <<>>, Current.op # "unbind", Continue(<<>>),
         UNCHANGED <<root, object, instance, bound>>
  PROVE  IInv'
  BY NoStep, ContinueStep DEF IInv

LEMMA ObjectNumber ==
  ASSUME IInv, NEW p
  PROVE  At(object.value, p) \in Nat /\ At(instance, p) \in Nat
  BY AtIsNumber DEF IInv, GoodObject

(* The overloads of set_member_value.                                      *)
LEMMA SetLeafStep ==
  ASSUME IInv, todo # <<>>, Current.op = "set", SetLeaf
  PROVE  IInv'
<1>1. Numbers(WithMember(At(object.value, Current.o)))
  BY ObjectNumber, WithMemberIsGood DEF IInv
<1> QED
  BY <1>1, SetStep DEF SetLeaf

LEMMA SetAllStep ==
  ASSUME IInv, todo # <<>>, Current.op = "set", NEW n \in Nat, SetAll(n)
  PROVE  IInv'
<1> DEFINE i == Current.i
           kept == {q \in DOMAIN instance : ~IsIn(q, i)}
           whole == Only(WithMember(n), kept \cup {i})
           elements == {Append(i, k) : k \in 1..n}
           new == [q \in DOMAIN whole \cup elements |->
                     IF q \in elements
                     THEN At(object.value, Append(Current.o, q[Len(q)]))
                     ELSE whole[q]]
<1>1. Numbers(whole)
  BY WithMemberIsGood, OnlyNumbers DEF IInv
<1>2. Set(new)
  BY DEF SetAll
<1> HIDE DEF whole, elements
<1>3. Numbers(new)
  BY <1>1, ObjectNumber DEF Numbers
<1> HIDE DEF new
<1> QED
  BY <1>2, <1>3, SetStep

LEMMA SetElementsStep ==
  ASSUME IInv, todo # <<>>, Current.op = "set", Kind[Current.type] \in Wrappers,
         SetElements
  PROVE  IInv'
<1> DEFINE n == At(object.value, Current.o)
           steps == StepPerElement("set", Current, n)
<1>1. n \in Nat /\ At(instance, Current.i) \in Nat
  BY ObjectNumber
<1>2. GoodSteps(steps) /\ AllUse(steps, Current.i)
  BY <1>1, CurrentIsGood, ElementSteps
<1>3. LengthsFor(n) \subseteq Nat
  BY <1>1 DEF LengthsFor
<1>4. Bind(steps) /\ root' = root /\ object' = object
  BY DEF SetElements
<1>5. PICK length \in LengthsFor(n) : instance' = WithMember(length)
  BY DEF SetElements
<1>6. Numbers(instance') /\ GoodObject(object')
  BY <1>3, <1>4, <1>5, WithMemberIsGood DEF IInv
<1> HIDE DEF steps
<1> QED
  BY <1>2, <1>4, <1>6, BindStep

LEMMA SetMemberStep ==
  ASSUME IInv, SetMember
  PROVE  IInv'
<1> USE DEF Doing
<1>1. CASE SetPrimitive \/ SetString \/ SetEnum
  BY <1>1, SetLeafStep DEF SetPrimitive, SetString, SetEnum
<1>2. CASE SetBase
  <2>1. GoodStep(Current)
    BY <1>2, CurrentIsGood DEF SetBase
  <2> DEFINE steps == SetMembers(Current.type, Current.o, Current.i)
  <2>2. GoodSteps(steps) /\ AllUse(steps, Current.i)
    BY <1>2, <2>1, MemberSteps DEF SetBase, SetMembers, GoodStep, Aggregates
  <2>3. UsedBy(Current) = Current.i
    BY <1>2 DEF SetBase, UsedBy
  <2> HIDE DEF steps
  <2>4. Continue(steps) /\ UNCHANGED <<root, object, instance, bound>>
    BY <1>2 DEF SetBase, steps
  <2> QED
    BY <1>2, <2>2, <2>3, <2>4, ContinueStep DEF SetBase, IInv
<1>3. CASE SetStruct \/ SetSparse
  <2>1. /\ todo # <<>>
        /\ Current.op = "set"
        /\ Kind[Current.type] \in Aggregates
        /\ BindToSet(SetMembers(Current.type, Current.o, Current.i))
    BY <1>3 DEF SetStruct, SetSparse, Aggregates
  <2> DEFINE steps == SetMembers(Current.type, Current.o, Current.i)
  <2>2. GoodSteps(steps) /\ AllUse(steps, Current.i)
    BY <2>1, CurrentIsGood, MemberSteps DEF SetMembers, GoodStep
  <2> HIDE DEF steps
  <2>3. BindToSet(steps)
    BY <2>1 DEF steps
  <2> QED
    BY <2>1, <2>2, <2>3, BindToSetStep
<1>4. CASE SetPrimitiveSequence \/ SetPrimitiveRange
  <2>1. At(object.value, Current.o) \in Nat
    BY ObjectNumber
  <2> QED
    BY <1>4, <2>1, SetAllStep DEF SetPrimitiveSequence, SetPrimitiveRange
<1>5. CASE SetVector
  <2>1. At(object.value, Current.o) \in Nat
    BY ObjectNumber
  <2> QED
    BY <1>5, <2>1, SetAllStep, SkipStep DEF SetVector
<1>6. CASE SetPrimitiveArray
  BY <1>6, SetAllStep, ConversionConstants DEF SetPrimitiveArray
<1>7. CASE SetSequence \/ SetRange
  BY <1>7, SetElementsStep DEF SetSequence, SetRange, Wrappers
<1>8. CASE SetArray
  <2> DEFINE steps == StepPerElement("set", Current, ArrayLen)
  <2>1. GoodSteps(steps) /\ AllUse(steps, Current.i)
    BY <1>8, CurrentIsGood, ElementSteps, ConversionConstants
       DEF SetArray, Wrappers
  <2> HIDE DEF steps
  <2>2. BindToSet(steps)
    BY <1>8 DEF SetArray, steps
  <2> QED
    BY <1>8, <2>1, <2>2, BindToSetStep DEF SetArray
<1>9. CASE SetOptional \/ SetSmartPtr
  <2>1. /\ todo # <<>>
        /\ Current.op = "set"
        /\ Kind[Current.type] \in Wrappers
        /\ Continue(<<Pointed>>) \/ Continue(<<>>)
        /\ UNCHANGED <<root, object, instance, bound>>
    BY <1>9 DEF SetOptional, SetSmartPtr, Wrappers
  <2>2. GoodSteps(<<Pointed>>) /\ AllUse(<<Pointed>>, UsedBy(Current))
    BY <2>1, CurrentIsGood, PointedStep
  <2> QED
    BY <2>1, <2>2, SkipStep, ContinueStep DEF IInv
<1>10. CASE SetUnion
  <2> DEFINE s == <<[Current EXCEPT !.op = "set_union", !.case = FALSE]>>
  <2>1. GoodSteps(s) /\ AllUse(s, Current.i)
    BY <1>10, CurrentIsGood, UnionStep DEF SetUnion
  <2> HIDE DEF s
  <2>2. BindToSet(s) \/ BindToSet(<<>>)
    BY <1>10 DEF SetUnion, s
  <2> QED
    BY <1>10, <2>1, <2>2, NoStep, BindToSetStep DEF SetUnion
<1>11. CASE SetUnionCase
  <2> DEFINE t == Current.type
             c == CaseToSet(object, t, Current.o)
             e == StepForCase("set", DataOf(object, t, Current.o, c), c)
  <2>1. GoodStep(Current) /\ Kind[t] = "union" /\ Current.op = "set_union"
        /\ todo # <<>>
    BY <1>11, CurrentIsGood DEF SetUnionCase
  <2>2. c # 0
    BY <1>11 DEF SetUnionCase, SetUnionThrows
  <2>3. c \in 1..NCases(t)
    BY <2>2, FirstOfIsIn DEF CaseToSet
  <2>4. IsSeq(DataOf(object, t, Current.o, c))
    BY <2>1, AppendFacts DEF DataOf, Pointee, GoodStep
  <2>5. GoodStep(e) /\ UsedBy(e) = Current.i /\ e.op # "unbind"
    <3> HIDE DEF c
    <3> QED
      BY <2>1, <2>3, <2>4, CaseStep
  <2>6. Continue(<<e>>) /\ UNCHANGED <<root, object, instance, bound>>
    BY <1>11 DEF SetUnionCase
  <2> HIDE DEF e
  <2>7. UsedBy(Current) = Current.i
    BY <2>1 DEF UsedBy
  <2>8. GoodSteps(<<e>>) /\ AllUse(<<e>>, UsedBy(Current))
    BY <2>5, <2>7, OneStep
  <2> QED
    BY <2>1, <2>6, <2>8, ContinueStep DEF IInv
<1> QED
  BY <1>1, <1>2, <1>3, <1>4, <1>5, <1>6, <1>7, <1>8, <1>9, <1>10, <1>11
     DEF SetMember

(* The overloads of get_member_value.                                      *)
LEMMA GetLeafStep ==
  ASSUME IInv, todo # <<>>, Current.op = "get", GetLeaf
  PROVE  IInv'
<1>1. GoodObject(Resized(object, Current.o, At(instance, Current.i)))
  BY ObjectNumber, ResizedIsGood DEF IInv
<1> QED
  BY <1>1, GetStep DEF GetLeaf

(* The elements of a sequence, read one by one or at once.                 *)
LEMMA ElementsAreGood ==
  ASSUME IInv, todo # <<>>, NEW n \in Nat
  PROVE  /\ GoodObject(WithElements(object, n))
         /\ GoodObject(WithElements(Resized(object, Current.o, n), n))
         /\ \A s \in RightSizes(n) : GoodObject(s)
<1>1. GoodObject(object) /\ Numbers(instance) /\ IsSeq(Current.o)
  BY CurrentIsGood DEF IInv, GoodStep
<1>2. GoodObject(Resized(object, Current.o, n))
  BY <1>1, ResizedIsGood
<1>3. GoodObject(Resized(Resized(object, Current.o, 0), Current.o, n))
  BY <1>1, ResizedIsGood
<1> QED
  BY <1>1, <1>2, <1>3, WithElementsIsGood DEF RightSizes

LEMMA BindToGetStep ==
  ASSUME IInv, todo # <<>>, Current.op = "get", NEW s, GoodObject(s),
         NEW steps, GoodSteps(steps), AllUse(steps, Current.i),
         BindToGet(s, steps)
  PROVE  IInv'
  BY BindStep DEF BindToGet, IInv

LEMMA GetMemberStep ==
  ASSUME IInv, GetMember
  PROVE  IInv'
<1> USE DEF Doing
<1>1. CASE GetPrimitive \/ GetString \/ GetEnum
  BY <1>1, GetLeafStep DEF GetPrimitive, GetString, GetEnum
<1>2. CASE GetBase
  <2>1. GoodStep(Current)
    BY <1>2, CurrentIsGood DEF GetBase
  <2> DEFINE steps == GetMembers(Current.type, Current.o, Current.i)
  <2>2. GoodSteps(steps) /\ AllUse(steps, Current.i)
    BY <1>2, <2>1, MemberSteps DEF GetBase, GetMembers, GoodStep, Aggregates
  <2>3. UsedBy(Current) = Current.i
    BY <1>2 DEF GetBase, UsedBy
  <2> HIDE DEF steps
  <2>4. Continue(steps) /\ UNCHANGED <<root, object, instance, bound>>
    BY <1>2 DEF GetBase, steps
  <2> QED
    BY <1>2, <2>2, <2>3, <2>4, ContinueStep DEF GetBase, IInv
<1>3. CASE GetStruct \/ GetSparse
  <2>1. /\ todo # <<>>
        /\ Current.op = "get"
        /\ Kind[Current.type] \in Aggregates
        /\ BindToGet(object, GetMembers(Current.type, Current.o, Current.i))
    BY <1>3 DEF GetStruct, GetSparse, Aggregates
  <2> DEFINE steps == GetMembers(Current.type, Current.o, Current.i)
  <2>2. GoodSteps(steps) /\ AllUse(steps, Current.i)
    BY <2>1, CurrentIsGood, MemberSteps DEF GetMembers, GoodStep
  <2> HIDE DEF steps
  <2>3. BindToGet(object, steps)
    BY <2>1 DEF steps
  <2> QED
    BY <2>1, <2>2, <2>3, BindToGetStep DEF IInv
<1>4. CASE GetPrimitiveSequence \/ GetVector \/ GetPrimitiveArray
             \/ GetPrimitiveRange
  <2>1. At(instance, Current.i) \in Nat /\ ArrayLen \in Nat
    BY ObjectNumber, ConversionConstants
  <2> QED
    BY <1>4, <2>1, ElementsAreGood, GetStep
       DEF GetPrimitiveSequence, GetVector, GetPrimitiveArray,
           GetPrimitiveRange, GetAll
<1>5. CASE GetSequence \/ GetRange
  <2> DEFINE n == At(instance, Current.i)
             steps == StepPerElement("get", Current, n)
  <2>1. n \in Nat
    BY ObjectNumber
  <2>2. GoodSteps(steps) /\ AllUse(steps, Current.i)
    BY <1>5, <2>1, CurrentIsGood, ElementSteps
       DEF GetSequence, GetRange, Wrappers
  <2>3. \A s \in RightSizes(n) : GoodObject(s)
    BY <1>5, <2>1, ElementsAreGood DEF GetSequence, GetRange
  <2>4. PICK s : GoodObject(s) /\ BindToGet(s, steps)
    <3> HIDE DEF steps
    <3>1. CASE GetSequence
      BY <2>3, <3>1 DEF GetSequence, steps
    <3>2. CASE GetRange
      BY <3>2 DEF GetRange, steps, IInv
    <3> QED
      BY <1>5, <3>1, <3>2
  <2> HIDE DEF steps
  <2> QED
    BY <1>5, <2>2, <2>4, BindToGetStep DEF GetSequence, GetRange
<1>6. CASE GetArray
  <2> DEFINE steps == StepPerElement("get", Current, ArrayLen)
  <2>1. GoodSteps(steps) /\ AllUse(steps, Current.i)
    BY <1>6, CurrentIsGood, ElementSteps, ConversionConstants
       DEF GetArray, Wrappers
  <2> HIDE DEF steps
  <2>2. BindToGet(object, steps)
    BY <1>6 DEF GetArray, steps
  <2> QED
    BY <1>6, <2>1, <2>2, BindToGetStep DEF GetArray, IInv
<1>7. CASE GetOptional \/ GetSmartPtr
  <2>1. /\ todo # <<>>
        /\ Current.op = "get"
        /\ Kind[Current.type] \in Wrappers
        /\ GetPointed \/ (Continue(<<>>) /\ UNCHANGED object)
        /\ UNCHANGED <<root, instance, bound>>
    BY <1>7 DEF GetOptional, GetSmartPtr, Wrappers
  <2>2. GoodSteps(<<Pointed>>) /\ AllUse(<<Pointed>>, UsedBy(Current))
    BY <2>1, CurrentIsGood, PointedStep
  <2>3. CASE GetPointed
    <3>1. GoodObject(object')
      BY <2>3, ResizedIsGood DEF GetPointed, IInv
    <3> QED
      BY <2>1, <2>2, <2>3, <3>1, ContinueStep DEF GetPointed, IInv
  <2> QED
    BY <2>1, <2>3, SkipStep
<1>8. CASE GetUnion
  <2> DEFINE s == <<[Current EXCEPT !.op = "get_union", !.case = FALSE]>>
  <2>1. GoodSteps(s) /\ AllUse(s, Current.i)
    BY <1>8, CurrentIsGood, UnionStep DEF GetUnion
  <2> HIDE DEF s
  <2>2. BindToGet(object, s)
    BY <1>8 DEF GetUnion, s
  <2> QED
    BY <1>8, <2>1, <2>2, BindToGetStep DEF GetUnion, IInv
<1>9. CASE GetUnionCase
  <2> DEFINE t == Current.type
             o == Current.o
             c == CaseRead(Current)
             d == [Current EXCEPT !.op = "activate", !.i = Append(@, c)]
  <2>1. GoodStep(Current) /\ Kind[t] = "union" /\ Current.op = "get_union"
        /\ todo # <<>> /\ c # 0
    BY <1>9, CurrentIsGood DEF GetUnionCase
  <2>2. c \in 1..NCases(t)
    BY <2>1, FirstOfIsIn DEF CaseRead, CaseToGet
  <2> HIDE DEF c
  <2>3. c \in Nat
    BY <2>2
  <2>4. UsedBy(Current) = Current.i
    BY <2>1 DEF UsedBy
  <2>5. IsSeq(Pointee(t, o, c)) /\ IsSeq(Append(o, c))
    BY <2>1, AppendFacts DEF Pointee, GoodStep
  <2>6. CASE HasPointer(object, t, o, c)
    <3> DEFINE e == StepForCase("get", Pointee(t, o, c), c)
    <3>1. GoodStep(e) /\ UsedBy(e) = Current.i /\ e.op # "unbind"
      BY <2>1, <2>2, <2>5, CaseStep
    <3>2. /\ IsSeq(Append(Current.i, c))
          /\ Append(Current.i, c) # <<>>
          /\ Front(Append(Current.i, c)) = Current.i
      BY <2>1, AppendFacts DEF GoodStep
    <3>3. GoodStep(d) /\ UsedBy(d) = Current.i /\ d.op # "unbind"
      BY <2>1, <3>2 DEF GoodStep, UsedBy
    <3>4. Continue(<<e, d>>) /\ UNCHANGED <<root, object, instance, bound>>
      BY <1>9, <2>6 DEF GetUnionCase, c
    <3> HIDE DEF e, d
    <3>5. /\ GoodSteps(<<e>>)
          /\ GoodSteps(<<d>>)
          /\ AllUse(<<e>>, Current.i)
          /\ AllUse(<<d>>, Current.i)
      BY <3>1, <3>3, OneStep
    <3>6. <<e, d>> = <<e>> \o <<d>>
      OBVIOUS
    <3>7. GoodSteps(<<e, d>>) /\ AllUse(<<e, d>>, Current.i)
      <4> HIDE DEF d
      <4> QED
        BY <3>5, <3>6, ConcatGoodSteps, ConcatAllUse DEF GoodSteps
    <3> QED
      BY <2>1, <2>4, <3>4, <3>7, ContinueStep DEF IInv
  <2>7. CASE ~HasPointer(object, t, o, c)
    <3> DEFINE e == StepForCase("get", Append(o, c), c)
    <3>1. GoodStep(e) /\ UsedBy(e) = Current.i /\ e.op # "unbind"
      BY <2>1, <2>2, <2>5, CaseStep
    <3>2. /\ Continue(<<e>>)
          /\ object' = WithVariant(object, t, o, c)
          /\ UNCHANGED <<root, instance, bound>>
      BY <1>9, <2>7 DEF GetUnionCase, c
    <3>3. GoodObject(object')
      BY <2>3, <3>2, WithVariantIsGood DEF IInv
    <3> HIDE DEF e
    <3>4. GoodSteps(<<e>>) /\ AllUse(<<e>>, UsedBy(Current))
      BY <2>4, <3>1, OneStep
    <3> QED
      BY <2>1, <3>2, <3>3, <3>4, ContinueStep DEF IInv
  <2> QED
    BY <2>6, <2>7
<1>10. CASE Activate
  <2> DEFINE c == Last(Current.i)
             w == SetActiveIndex(object, Current.o, c - 1)
             s == [w EXCEPT !.meant = Put(w.meant, Current.o, c)]
  <2>1. GoodObject(w)
    BY SetActiveIndexIsGood DEF IInv
  <2>2. Get(s) /\ todo # <<>> /\ Current.op # "unbind"
    BY <1>10 DEF Activate
  <2> HIDE DEF w
  <2>3. DOMAIN s = DOMAIN w /\ s.value = w.value
    BY <2>1 DEF GoodObject, ObjectFields
  <2>4. GoodObject(s)
    BY <2>1, <2>3, SameValueIsGood DEF GoodObject
  <2> HIDE DEF s
  <2> QED
    BY <2>2, <2>4, GetStep
<1> QED
  BY <1>1, <1>2, <1>3, <1>4, <1>5, <1>6, <1>7, <1>8, <1>9, <1>10
     DEF GetMember

(* An exception drops the steps that are no destructors.                   *)
LEMMA UnwindStep ==
  ASSUME IInv, Throw \/ Unwind
  PROVE  IInv'
<1>1. CASE Throw
  <2>1. Current.op # "unbind"
    BY <1>1 DEF Throw, CallFails, CodeThrows, Doing
  <2> QED
    BY <1>1, <2>1, SkipStep DEF Throw
<1>2. CASE Unwind
  BY <1>2, SkipStep DEF Unwind
<1> QED
  BY <1>1, <1>2

(* Between two calls of the application nothing is bound.                  *)
LEMMA BetweenCalls ==
  ASSUME IInv, todo = <<>>
  PROVE  bound = <<>> /\ Innermost = <<>>
<1>1. Innermost = <<>>
  BY DEF IInv, StackOK, Leads
<1>2. bound # <<>> => Last(bound) # <<>>
  <2>1. bound # <<>> => Len(bound) \in Nat /\ Len(bound) > 0
    BY SeqFacts DEF IInv, StackOK, BoundOK
  <2>2. bound # <<>> => Len(bound) \in 1..Len(bound)
    BY <2>1
  <2> QED
    BY <2>2 DEF IInv, StackOK, BoundOK, Last
<1> QED
  BY <1>1, <1>2 DEF Innermost

(* A call begins when nothing is bound; its first step is on the root.     *)
LEMMA CallStep ==
  ASSUME IInv, Write \/ Read
  PROVE  IInv'
<1>1. todo = <<>> /\ UNCHANGED <<root, instance, bound>>
  BY DEF Write, Read, Idle
<1>2. bound = <<>> /\ Innermost = <<>>
  BY <1>1, BetweenCalls
<1>3. /\ root \in Types
      /\ Kind[root] \in Aggregates
      /\ IsSeq(<<>>)
  BY EmptyIsSeq DEF IInv, Aggregates
<1>4. GoodSteps(todo') /\ AllUse(todo', <<>>)
  BY <1>3, MemberSteps DEF Write, Read, SetMembers, GetMembers
<1>5. Leads(todo', <<>>, <<>>)
  BY <1>4, AllUseLeads DEF GoodSteps
<1>6. GoodObject(object')
  <2>1. CASE Write
    BY <2>1 DEF Write, IInv
  <2>2. CASE Read
    <3>1. object' = [object EXCEPT !.fresh = FALSE]
      BY <2>2 DEF Read
    <3>2. DOMAIN object' = DOMAIN object /\ object'.value = object.value
      BY <3>1 DEF IInv, GoodObject, ObjectFields
    <3> QED
      BY <3>2 DEF IInv, GoodObject
  <2> QED
    BY <2>1, <2>2
<1>7. Innermost' = <<>> /\ BoundOK'
  BY <1>1, <1>2 DEF Innermost, IInv, StackOK, BoundOK
<1> QED
  BY <1>1, <1>4, <1>5, <1>6, <1>7 DEF IInv, StackOK, Numbers

(* What the application does to its object and to the instance.            *)
LEMMA ApplicationStep ==
  ASSUME IInv, UNCHANGED <<root, todo, bound>>,
         GoodObject(object'), Numbers(instance')
  PROVE  IInv'
<1>1. StackOK'
  BY DEF IInv, StackOK, BoundOK, Innermost
<1> QED
  BY <1>1 DEF IInv, GoodObject, Numbers

LEMMA ChangeStep ==
  ASSUME IInv, NEW s, GoodObject(s), Change(s)
  PROVE  IInv'
  BY ApplicationStep DEF Change, IInv

LEMMA AssignStep ==
  ASSUME IInv, NEW n, NEW v \in Nat, Assign(n, v)
  PROVE  IInv'
<1> DEFINE w == Resized(object, n.path, v)
           s == [w EXCEPT !.fresh = w.fresh /\ Kind[n.type] = "range"]
<1>1. GoodObject(w)
  BY ResizedIsGood DEF IInv
<1>2. Change(s)
  BY DEF Assign
<1> HIDE DEF w
<1>3. DOMAIN s = DOMAIN w /\ s.value = w.value
  BY <1>1 DEF GoodObject, ObjectFields
<1>4. GoodObject(s)
  BY <1>1, <1>3, SameValueIsGood DEF GoodObject
<1> HIDE DEF s
<1> QED
  BY <1>2, <1>4, ChangeStep

LEMMA SizesAreNumbers ==
  ASSUME NEW t \in Types, NEW v \in Sizes(t)
  PROVE  v \in Nat
  BY ConversionConstants DEF Sizes

LEMMA UseUnionStep ==
  ASSUME IInv, NEW t, NEW o, UseUnion(t, o)
  PROVE  IInv'
<1> DEFINE cases == 1..NCases(t)
<1>1. GoodObject(object)
  BY DEF IInv
<1>2. \/ \E c \in cases :
           \/ Change(AssignVariant(object, t, o, c))
           \/ \E a \in -1..NCases(t) - 1 :
                Change(AssignCase(object, t, o, c, a))
           \/ \E P \in SUBSET cases :
                c \in P /\ Change(SetCaseptrTupleForWriting(object, t, o, P, c))
      \/ \E P \in SUBSET cases :
           Change(SetCaseptrTupleForReading(object, t, o, P))
      \/ Change(ResetCaseptrTuple(object, o))
  BY DEF UseUnion
<1>3. cases \subseteq Int
  OBVIOUS
<1>4. \A c \in cases : c \in Nat
  OBVIOUS
<1> HIDE DEF cases
<1>5. CASE \E c \in cases : Change(AssignVariant(object, t, o, c))
  BY <1>1, <1>4, <1>5, UnionOperationsAreGood, ChangeStep
<1>6. CASE \E c \in cases : \E a \in -1..NCases(t) - 1 :
             Change(AssignCase(object, t, o, c, a))
  BY <1>1, <1>4, <1>6, UnionOperationsAreGood, ChangeStep
<1>7. CASE \E c \in cases : \E P \in SUBSET cases :
             Change(SetCaseptrTupleForWriting(object, t, o, P, c))
  BY <1>1, <1>4, <1>7, UnionOperationsAreGood, ChangeStep
<1>8. CASE \E P \in SUBSET cases :
             Change(SetCaseptrTupleForReading(object, t, o, P))
  <2>1. PICK P : Change(SetCaseptrTupleForReading(object, t, o, P))
    BY <1>8
  <2>2. GoodObject(SetCaseptrTupleForReading(object, t, o, P))
    BY <1>1, UnionOperationsAreGood
  <2> QED
    BY <2>1, <2>2, ChangeStep
<1>9. CASE Change(ResetCaseptrTuple(object, o))
  <2>1. GoodObject(ResetCaseptrTuple(object, o))
    BY <1>1, UnionOperationsAreGood
  <2> QED
    BY <1>9, <2>1, ChangeStep
<1> QED
  BY <1>2, <1>5, <1>6, <1>7, <1>8, <1>9

-----------------------------------------------------------------------------

LEMMA InitInvariant == Init => IInv
<1> SUFFICES ASSUME Init PROVE IInv
  OBVIOUS
<1>1. root \in Types /\ Kind[root] \in {"struct", "derived"}
  BY ConversionConstants DEF Init
<1>2. GoodObject(object) /\ Numbers(instance)
  BY EmptyNumbers DEF Init
<1>3. GoodSteps(todo) /\ Leads(todo, Innermost, <<>>)
  BY NoStep DEF Init, Leads, Innermost
<1>4. BoundOK
  BY EmptyIsSeq DEF Init, BoundOK
<1> QED
  BY <1>1, <1>2, <1>3, <1>4 DEF IInv, StackOK

(* Every action keeps the invariant.                                       *)
LEMMA StepInvariant == IInv /\ [Next]_vars => IInv'
<1> SUFFICES ASSUME IInv, [Next]_vars PROVE IInv'
  OBVIOUS
<1>1. CASE Write \/ Read
  BY <1>1, CallStep
<1>2. CASE SetMember
  BY <1>2, SetMemberStep
<1>3. CASE GetMember
  BY <1>3, GetMemberStep
<1>4. CASE Unbind
  <2>1. StackOK'
    BY <1>4, UnbindKeepsStack DEF IInv
  <2> QED
    BY <1>4, <2>1 DEF IInv, Unbind, GoodObject, Numbers
<1>5. CASE Throw \/ Unwind
  BY <1>5, UnwindStep
<1>6. CASE Return
  BY <1>6, ApplicationStep DEF Return, IInv
<1>7. CASE NewInstance
  BY <1>7, EmptyNumbers, ApplicationStep DEF NewInstance, IInv
<1>8. CASE NewObject
  BY <1>8, EmptyNumbers, ChangeStep DEF NewObject
<1>9. ASSUME NEW n \in Nodes(object), NEW t \in Types,
             \/ \E v \in Sizes(t) : Assign(n, v)
             \/ UseUnion(t, n.path)
      PROVE  IInv'
  <2>1. CASE \E v \in Sizes(t) : Assign(n, v)
    <3>1. PICK v \in Sizes(t) : Assign(n, v)
      BY <2>1
    <3> QED
      BY <3>1, SizesAreNumbers, AssignStep
  <2>2. CASE UseUnion(t, n.path)
    BY <2>2, UseUnionStep
  <2> QED
    BY <1>9, <2>1, <2>2
<1>10. CASE UNCHANGED vars
  BY <1>10, ApplicationStep DEF vars, IInv
<1> QED
  BY <1>1, <1>2, <1>3, <1>4, <1>5, <1>6, <1>7, <1>8, <1>9, <1>10 DEF Next

(* The invariant implies the property.                                     *)
LEMMA InvariantImpliesDiscipline == IInv => BindDiscipline
<1> SUFFICES ASSUME IInv PROVE BindDiscipline
  OBVIOUS
<1>1. \A k \in DOMAIN bound :
        Front(bound[k]) = IF k = 1 THEN <<>> ELSE bound[k - 1]
  <2>1. DOMAIN bound = 1..Len(bound)
    BY SeqFacts DEF IInv, StackOK, BoundOK
  <2> QED
    BY <2>1 DEF IInv, StackOK, BoundOK
<1>2. todo # <<>> => UsedBy(Current) = Innermost
  BY TailLeads DEF IInv, StackOK, Current
<1>3. todo = <<>> => bound = <<>>
  BY BetweenCalls
<1> QED
  BY <1>1, <1>2, <1>3 DEF BindDiscipline

(* Whatever the type, the values and the failures: bound instances are     *)
(* members of each other, set_member_value and get_member_value only use   *)
(* the innermost one, and when a conversion is over, by a return or by an  *)
(* exception, its SafeBinders have unbound all of them, the last first.    *)
THEOREM BindersNest == Spec => []BindDiscipline
<1>1. Init => IInv
  BY InitInvariant
<1>2. IInv /\ [Next]_vars => IInv'
  BY StepInvariant
<1>3. IInv => BindDiscipline
  BY InvariantImpliesDiscipline
<1> QED
  BY <1>1, <1>2, <1>3, PTL DEF Spec

-----------------------------------------------------------------------------
(* What objects, instances and steps are, for UnionTruth and TypeOK.       *)

Steps == [op : Ops, type : Types, o : Paths, i : Paths, case : BOOLEAN]

(* A step is for what may be at its places in the object and the instance. *)
StepOK(e) ==
  /\ e \in Steps
  /\ Placed(root, e.type, e.o)
  /\ e.op # "activate" => Lies(root, e.type, e.i)
  /\ e.op \in {"set_union", "get_union"} => Kind[e.type] = "union"

StepsOK(s) == s \in Seq(Steps) /\ \A k \in 1..Len(s) : StepOK(s[k])

(* The case pointer through which a case is being read.                    *)
Through(e) == Pointee(e.type, e.o, Last(e.i))

(* Cases that are read through a pointer and not made the active one yet:  *)
(* no step before that removes what the pointer is in.                     *)
CasePending(x, e) ==
  /\ Kind[e.type] = "union"
  /\ Last(e.i) \in 1..NCases(e.type)
  /\ Through(e) \in x.caseptr_tuple_

CasesPending(x, s) ==
  \A k \in 1..Len(s) :
    s[k].op = "activate" =>
      /\ CasePending(x, s[k])
      /\ \A j \in 1..k - 1 : ~IsIn(Through(s[k]), s[j].o)

Typing ==
  /\ ObjectOK(object, root)
  /\ InstanceOK(instance, root)
  /\ StepsOK(todo)
  /\ CasesPending(object, todo)
  /\ bound \in Seq(Paths)

(* Steps for what is in p.                                                 *)
StepsIn(s, p) == StepsOK(s) /\ \A k \in 1..Len(s) : IsAt(s[k].o, p)

LEMMA ConcatStepsIn ==
  ASSUME NEW s, NEW r, NEW p, StepsIn(s, p), StepsIn(r, p)
  PROVE  StepsIn(s \o r, p)
<1>1. s \in Seq(Steps) /\ r \in Seq(Steps)
  BY DEF StepsIn, StepsOK
<1>2. IsSeq(s) /\ IsSeq(r)
  BY <1>1 DEF IsSeq
<1>3. /\ s \o r \in Seq(Steps)
      /\ Len(s) \in Nat
      /\ Len(r) \in Nat
      /\ Len(s \o r) = Len(s) + Len(r)
      /\ \A k \in 1..Len(s) : (s \o r)[k] = s[k]
      /\ \A k \in 1..Len(r) : (s \o r)[Len(s) + k] = r[k]
  BY <1>1, <1>2, ConcatProperties, ConcatFacts, LenProperties
<1> DEFINE u == s \o r
<1> HIDE DEF u
<1>4. ASSUME NEW k \in 1..Len(u)
      PROVE  StepOK(u[k]) /\ IsAt(u[k].o, p)
  <2>1. CASE k \in 1..Len(s)
    BY <1>3, <2>1 DEF u, StepsIn, StepsOK
  <2>2. CASE k \notin 1..Len(s)
    <3>1. k - Len(s) \in 1..Len(r) /\ k = Len(s) + (k - Len(s))
      BY <1>3, <2>2 DEF u
    <3>2. u[k] = r[k - Len(s)]
      BY <1>3, <3>1 DEF u
    <3> QED
      BY <3>1, <3>2 DEF StepsIn, StepsOK
  <2> QED
    BY <2>1, <2>2
<1> QED
  BY <1>3, <1>4 DEF StepsIn, StepsOK, u

LEMMA OneStepIn ==
  ASSUME NEW e, NEW p, StepOK(e), IsAt(e.o, p)
  PROVE  StepsIn(<<e>>, p)
<1>1. <<e>> \in Seq(Steps) /\ Len(<<e>>) = 1 /\ <<e>>[1] = e
  BY DEF StepOK
<1> QED
  BY <1>1 DEF StepsIn, StepsOK

LEMMA NoStepIn ==
  ASSUME NEW p, NEW x
  PROVE  StepsIn(<<>>, p) /\ CasesPending(x, <<>>)
<1>1. <<>> \in Seq(Steps) /\ Len(<<>>) = 0
  BY EmptySeq
<1> QED
  BY <1>1 DEF StepsIn, StepsOK, CasesPending

(* Steps that activate no case.                                            *)
Passive(s) == \A k \in 1..Len(s) : s[k].op # "activate"

LEMMA PassivePending ==
  ASSUME NEW s, Passive(s), NEW x
  PROVE  CasesPending(x, s)
BY DEF Passive, CasesPending

(* The next step is replaced by steps for what is in its place.            *)
LEMMA ContinueTyping ==
  ASSUME Typing, todo # <<>>, NEW steps, StepsIn(steps, Current.o),
         CasesPending(object', steps), Continue(steps), root' = root,
         bound' \in Seq(Paths), ObjectOK(object', root),
         KeepsPointers(object, object', Current.o), InstanceOK(instance', root)
  PROVE  Typing'
<1> DEFINE r == Tail(todo)
           m == Len(steps)
           n == Len(r)
           s == steps \o r
           p == Current.o
<1>1. /\ todo \in Seq(Steps)
      /\ steps \in Seq(Steps)
      /\ \A k \in 1..Len(todo) : StepOK(todo[k])
      /\ \A k \in 1..m : StepOK(steps[k]) /\ IsAt(steps[k].o, p)
  BY DEF Typing, StepsOK, StepsIn
<1>2. /\ Current = todo[1]
      /\ r \in Seq(Steps)
      /\ n = Len(todo) - 1
      /\ \A l \in 1..n : r[l] = todo[l + 1]
      /\ n \in Nat
      /\ m \in Nat
      /\ Len(todo) >= 1
      /\ Len(todo) \in Nat
  <2>1. IsSeq(todo)
    BY <1>1 DEF IsSeq
  <2>2. r \in Seq(Steps)
    BY <1>1, HeadTailProperties
  <2>3. Len(todo) \in Nat /\ Len(todo) > 0
    BY <2>1, SeqFacts
  <2>4. Current = todo[1] /\ n = Len(todo) - 1 /\ \A l \in 1..n : r[l] = todo[l + 1]
    BY <2>1, HeadTailFacts DEF Current
  <2> QED
    BY <1>1, <2>2, <2>3, <2>4, LenProperties
<1>3. /\ s \in Seq(Steps)
      /\ Len(s) = m + n
      /\ \A k \in 1..m : s[k] = steps[k]
      /\ \A l \in 1..n : s[m + l] = r[l]
  <2>1. IsSeq(steps) /\ IsSeq(r)
    BY <1>1, <1>2 DEF IsSeq
  <2> QED
    BY <1>1, <1>2, <2>1, ConcatProperties, ConcatFacts
<1>4. todo' = s
  BY DEF Continue
<1> HIDE DEF s, r, m, n
<1>5. ASSUME NEW k \in 1..Len(s)
      PROVE  \/ k \in 1..m /\ s[k] = steps[k]
             \/ \E l \in 1..n : k = m + l /\ s[k] = todo[l + 1]
                                /\ l + 1 \in 1..Len(todo)
  <2>1. CASE k \in 1..m
    BY <1>3, <2>1
  <2>2. CASE k \notin 1..m
    <3>1. k - m \in 1..n /\ k = m + (k - m)
      BY <1>2, <1>3, <2>2
    <3>2. s[k] = r[k - m] /\ r[k - m] = todo[(k - m) + 1]
      BY <1>2, <1>3, <3>1
    <3>3. (k - m) + 1 \in 1..Len(todo)
      BY <1>2, <3>1
    <3> QED
      BY <3>1, <3>2, <3>3
  <2> QED
    BY <2>1, <2>2
<1>6. StepsOK(s)
  BY <1>1, <1>3, <1>5 DEF StepsOK
<1>7. ASSUME NEW k \in 1..Len(s), s[k].op = "activate"
      PROVE  /\ CasePending(object', s[k])
             /\ \A j \in 1..k - 1 : ~IsIn(Through(s[k]), s[j].o)
  <2>1. CASE k \in 1..m /\ s[k] = steps[k]
    <3>1. /\ CasePending(object', steps[k])
          /\ \A j \in 1..k - 1 : ~IsIn(Through(steps[k]), steps[j].o)
      BY <1>7, <2>1 DEF CasesPending, m
    <3>2. \A j \in 1..k - 1 : j \in 1..m
      BY <1>2, <2>1
    <3>3. \A j \in 1..k - 1 : s[j] = steps[j]
      BY <1>3, <3>2
    <3> QED
      BY <2>1, <3>1, <3>3
  <2>2. CASE \E l \in 1..n : k = m + l /\ s[k] = todo[l + 1]
                             /\ l + 1 \in 1..Len(todo)
    <3>1. PICK l \in 1..n : k = m + l /\ s[k] = todo[l + 1]
                            /\ l + 1 \in 1..Len(todo)
      BY <2>2
    <3> DEFINE e == todo[l + 1]
               q == Through(e)
    <3>2. /\ CasePending(object, e)
          /\ \A j \in 1..(l + 1) - 1 : ~IsIn(q, todo[j].o)
      BY <1>7, <3>1 DEF Typing, CasesPending
    <3>3. ~IsIn(q, p)
      <4>1. 1 \in 1..(l + 1) - 1
        OBVIOUS
      <4> HIDE DEF q, e
      <4> QED
        BY <1>2, <3>2, <4>1
    <3>4. q \in object.caseptr_tuple_ /\ q \in Paths
      BY <3>2 DEF CasePending, Typing, ObjectOK, Shape
    <3>5. CasePending(object', e)
      BY <3>2, <3>3, <3>4 DEF CasePending, KeepsPointers
    <3>6. ASSUME NEW j \in 1..k - 1
          PROVE  ~IsIn(q, s[j].o)
      <4>0. j \in 1..Len(s)
        OBVIOUS
      <4>1. CASE j \in 1..m /\ s[j] = steps[j]
        <5>1. IsAt(s[j].o, p) /\ s[j].o \in Paths /\ p \in Paths
          BY <1>1, <1>2, <4>1 DEF StepOK, Steps
        <5> HIDE DEF q, e
        <5> QED
          BY <3>3, <3>4, <5>1, IsInPart
      <4>2. CASE \E h \in 1..n : j = m + h /\ s[j] = todo[h + 1]
                                 /\ h + 1 \in 1..Len(todo)
        <5>1. PICK h \in 1..n : j = m + h /\ s[j] = todo[h + 1]
          BY <4>2
        <5>2. h + 1 \in 1..(l + 1) - 1
          BY <1>2, <3>1, <5>1
        <5> HIDE DEF q, e
        <5> QED
          BY <3>2, <5>1, <5>2
      <4> QED
        BY <1>5, <4>0, <4>1, <4>2
    <3> QED
      BY <3>1, <3>5, <3>6
  <2> QED
    BY <1>5, <2>1, <2>2
<1>8. CasesPending(object', s)
  BY <1>7 DEF CasesPending
<1>9. StepsOK(todo)'
  BY <1>4, <1>6 DEF StepsOK, StepOK
<1>10. CasesPending(object, todo)'
  BY <1>4, <1>8 DEF CasesPending
<1> QED
  BY <1>9, <1>10 DEF Typing

LEMMA CurrentOK ==
  ASSUME Typing, todo # <<>>
  PROVE  StepOK(Current)
<1>1. todo \in Seq(Steps) /\ IsSeq(todo)
  BY DEF Typing, StepsOK, IsSeq
<1>2. Len(todo) \in Nat /\ Len(todo) > 0 /\ Current = todo[1]
  BY <1>1, SeqFacts, HeadTailFacts DEF Current
<1> QED
  BY <1>2 DEF Typing, StepsOK

(* A step of which nothing is left.                                        *)
LEMMA DoneTyping ==
  ASSUME Typing, todo # <<>>, Continue(<<>>), UNCHANGED <<root, bound>>,
         ObjectOK(object', root), KeepsPointers(object, object', Current.o),
         InstanceOK(instance', root)
  PROVE  Typing'
<1>1. StepsIn(<<>>, Current.o) /\ CasesPending(object', <<>>)
  BY NoStepIn
<1>2. bound' \in Seq(Paths)
  BY DEF Typing
<1> QED
  BY <1>1, <1>2, ContinueTyping

LEMMA SamePointers ==
  ASSUME NEW s, NEW p
  PROVE  KeepsPointers(s, s, p)
BY DEF KeepsPointers

(* A SafeBinder around steps.                                              *)
LEMMA BindTyping ==
  ASSUME Typing, todo # <<>>, Current.op \in {"set", "get"},
         NEW steps, StepsIn(steps, Current.o), Passive(steps), Bind(steps),
         root' = root, ObjectOK(object', root),
         KeepsPointers(object, object', Current.o), InstanceOK(instance', root)
  PROVE  Typing'
<1> DEFINE u == [Current EXCEPT !.op = "unbind"]
           all == Append(steps, u)
<1>1. StepOK(Current)
  BY CurrentOK
<1>2. StepOK(u) /\ IsAt(u.o, Current.o) /\ u.op = "unbind" /\ Current.i \in Paths
  BY <1>1, IsAtSame DEF StepOK, Steps, Ops
<1> HIDE DEF u
<1>3. steps \in Seq(Steps) /\ IsSeq(steps) /\ u \in Steps
  BY <1>2 DEF StepsIn, StepsOK, StepOK, IsSeq
<1>4. all = steps \o <<u>>
  BY <1>3, AppendIsConcat
<1>5. StepsIn(all, Current.o)
  BY <1>2, <1>4, OneStepIn, ConcatStepsIn
<1>6. Passive(all)
  <2>1. /\ Len(all) = Len(steps) + 1
        /\ \A k \in 1..Len(steps) : all[k] = steps[k]
        /\ all[Len(steps) + 1] = u
        /\ Len(steps) \in Nat
    BY <1>3, AppendFacts, SeqFacts
  <2> HIDE DEF all
  <2> QED
    BY <1>2, <2>1 DEF Passive
<1>7. bound' \in Seq(Paths)
  <2>1. bound' = Append(bound, Current.i) /\ bound \in Seq(Paths)
    BY DEF Bind, Typing
  <2> QED
    BY <1>2, <2>1, AppendProperties
<1>8. Continue(all)
  BY DEF Bind, u
<1> HIDE DEF all
<1> QED
  BY <1>5, <1>6, <1>7, <1>8, PassivePending, ContinueTyping

-----------------------------------------------------------------------------
(* Steps for the parts of something are for what is in it.                 *)

LEMMA ConcatPassive ==
  ASSUME NEW s, NEW r, IsSeq(s), IsSeq(r), Passive(s), Passive(r)
  PROVE  Passive(s \o r)
<1> DEFINE u == s \o r
<1>1. /\ Len(u) = Len(s) + Len(r)
      /\ \A k \in 1..Len(s) : u[k] = s[k]
      /\ \A k \in 1..Len(r) : u[Len(s) + k] = r[k]
      /\ Len(s) \in Nat
      /\ Len(r) \in Nat
  BY ConcatFacts, SeqFacts
<1> HIDE DEF u
<1>2. ASSUME NEW k \in 1..Len(u)
      PROVE  u[k].op # "activate"
  <2>1. CASE k \in 1..Len(s)
    BY <1>1, <2>1 DEF Passive
  <2>2. CASE k \notin 1..Len(s)
    <3>1. k - Len(s) \in 1..Len(r) /\ k = Len(s) + (k - Len(s))
      BY <1>1, <2>2
    <3>2. u[k] = r[k - Len(s)]
      BY <1>1, <3>1
    <3> QED
      BY <3>1, <3>2 DEF Passive
  <2> QED
    BY <2>1, <2>2
<1> QED
  BY <1>2 DEF Passive, u

LEMMA MemberStepsIn ==
  ASSUME NEW t, NEW o, NEW i, Kind[t] \in Aggregates,
         Placed(root, t, o), Lies(root, t, i),
         NEW op \in {"set", "get"}, NEW base \in {"set_base", "get_base"}
  PROVE  /\ StepsIn(StepPerMember(op, base, t, o, i), o)
         /\ Passive(StepPerMember(op, base, t, o, i))
<1> DEFINE own == OwnMembers(t)
           shift == IF Inherits(t) THEN 1 ELSE 0
           E(k) == Step(op, own[k], Append(o, k + shift),
                        Append(i, MembersInBases[t] + k))
           s == [k \in DOMAIN own |-> E(k)]
           first == Step(base, Parts[t][1], Append(o, 1), i)
           b == IF Inherits(t) THEN <<first>> ELSE <<>>
<1>1. t \in Types /\ o \in Paths /\ i \in Paths
  BY PlacedIsType, LiesIsType
<1>2. own \in Seq(Types) /\ Len(own) \in Nat /\ DOMAIN own = 1..Len(own)
  BY <1>1, OwnMembersFacts
<1>3. MembersInBases[t] \in Nat
  BY <1>1, MembersInBasesFacts
<1>4. Parts[t] \in Seq(Types) /\ (Inherits(t) => Len(Parts[t]) > 1)
  BY <1>1, TypesAreAdapted DEF Inherits
<1>5. ASSUME NEW k \in 1..Len(own)
      PROVE  StepOK(E(k)) /\ IsAt(E(k).o, o) /\ E(k).op # "activate"
  <2>1. own[k] \in Types
    BY <1>2, ElementOfSeq
  <2>2. k + shift \in Nat /\ MembersInBases[t] + k \in Nat
    BY <1>3
  <2>3. /\ Append(o, k + shift) \in Paths
        /\ Append(i, MembersInBases[t] + k) \in Paths
        /\ IsAt(Append(o, k + shift), o)
    BY <1>1, <2>2, AppendPath, AppendIsIn
  <2>4. /\ k + shift \in DOMAIN Parts[t]
        /\ own[k] = Parts[t][k + shift]
    <3>1. CASE Inherits(t)
      <4>1. /\ Len(own) = Len(Parts[t]) - 1
            /\ \A j \in 1..Len(Parts[t]) - 1 : own[j] = Parts[t][j + 1]
        <5>1. IsSeq(Parts[t]) /\ Parts[t] # <<>>
          BY <1>4, <3>1, EmptyIsSeq DEF IsSeq
        <5> QED
          BY <3>1, <5>1, HeadTailFacts DEF OwnMembers
      <4>2. DOMAIN Parts[t] = 1..Len(Parts[t]) /\ Len(Parts[t]) \in Nat
        BY <1>4, LenProperties
      <4> HIDE DEF own
      <4> QED
        BY <3>1, <4>1, <4>2
    <3>2. CASE ~Inherits(t)
      BY <1>2, <3>2 DEF OwnMembers
    <3> QED
      BY <3>1, <3>2
  <2>5. Placed(root, own[k], Append(o, k + shift))
    <3>1. IsPart(t, k + shift, own[k])
      BY <2>4 DEF IsPart
    <3> HIDE DEF own, shift
    <3> QED
      BY <2>2, <3>1, PlacedPart
  <2>6. Lies(root, own[k], Append(i, MembersInBases[t] + k))
    <3>1. IsMember(t, MembersInBases[t] + k, own[k])
      BY <1>2, <2>2 DEF IsMember
    <3> HIDE DEF own
    <3> QED
      BY <3>1, LiesMember
  <2> HIDE DEF own, shift
  <2> QED
    BY <2>1, <2>3, <2>5, <2>6 DEF Step, StepOK, Steps, Ops
<1>6. IsSeq(s) /\ Len(s) = Len(own) /\ \A k \in 1..Len(own) : s[k] = E(k)
  <2> HIDE DEF own, E
  <2>1. s = [k \in 1..Len(own) |-> s[k]]
    BY <1>2
  <2>2. IsSeq(s) /\ Len(s) = Len(own)
    <3> HIDE DEF s
    <3> QED
      BY <1>2, <2>1, FunctionIsSeq
  <2> QED
    BY <1>2, <2>2
<1>7. StepsIn(s, o) /\ Passive(s)
  <2>1. s \in Seq(Steps)
    <3>1. s \in [1..Len(own) -> Steps]
      <4>1. \A k \in 1..Len(own) : E(k) \in Steps
        BY <1>5 DEF StepOK
      <4> HIDE DEF own, E
      <4> QED
        BY <1>2, <4>1
    <3> HIDE DEF s, own
    <3> QED
      BY <1>2, <3>1, SeqDef
  <2> HIDE DEF s, E
  <2> QED
    BY <1>5, <1>6, <2>1 DEF StepsIn, StepsOK, Passive
<1>8. StepsIn(b, o) /\ Passive(b)
  <2>1. CASE ~Inherits(t)
    BY <2>1, NoStepIn, EmptySeq DEF Passive
  <2>2. CASE Inherits(t)
    <3>1. 1 \in DOMAIN Parts[t]
      BY <1>4, <2>2, LenProperties
    <3>2. Parts[t][1] \in Types /\ IsPart(t, 1, Parts[t][1])
      BY <1>1, <3>1, PartFacts DEF IsPart
    <3>3. Placed(root, Parts[t][1], Append(o, 1))
      BY <3>2, PlacedPart
    <3>4. Lies(root, Parts[t][1], i)
      BY <2>2, LiesShared DEF Shares, Inherits
    <3>5. Append(o, 1) \in Paths /\ IsAt(Append(o, 1), o)
      BY <1>1, AppendPath, AppendIsIn
    <3>6. StepOK(first) /\ IsAt(first.o, o) /\ first.op # "activate"
      BY <1>1, <3>2, <3>3, <3>4, <3>5 DEF Step, StepOK, Steps, Ops
    <3> HIDE DEF first
    <3>7. StepsIn(<<first>>, o) /\ Len(<<first>>) = 1 /\ <<first>>[1] = first
      BY <3>6, OneStepIn, OneIsSeq
    <3>8. b = <<first>>
      BY <2>2
    <3> HIDE DEF b
    <3> QED
      BY <3>6, <3>7, <3>8 DEF Passive
  <2> QED
    BY <2>1, <2>2
<1>9. StepPerMember(op, base, t, o, i) = b \o s
  BY DEF StepPerMember
<1> HIDE DEF b, s
<1>10. Passive(b \o s)
  BY <1>7, <1>8, ConcatPassive DEF StepsIn, StepsOK, IsSeq
<1> QED
  BY <1>7, <1>8, <1>9, <1>10, ConcatStepsIn

LEMMA ElementStepsIn ==
  ASSUME NEW e, StepOK(e), Kind[e.type] \in {"sequence", "vector", "range", "array"},
         Lies(root, e.type, e.i), NEW op \in {"set", "get"}, NEW n \in Nat
  PROVE  /\ StepsIn(StepPerElement(op, e, n), e.o)
         /\ Passive(StepPerElement(op, e, n))
<1> DEFINE u == Parts[e.type][1]
           E(k) == Step(op, u, Append(e.o, k), Append(e.i, k))
           s == StepPerElement(op, e, n)
<1>1. e.type \in Types /\ e.o \in Paths /\ e.i \in Paths /\ Placed(root, e.type, e.o)
  BY DEF StepOK, Steps
<1>2. u \in Types
  BY <1>1, PartOfWrapper DEF Wrappers
<1>3. ASSUME NEW k \in 1..n
      PROVE  StepOK(E(k)) /\ IsAt(E(k).o, e.o) /\ E(k).op # "activate"
  <2>1. k \in Nat
    OBVIOUS
  <2>2. /\ Append(e.o, k) \in Paths
        /\ Append(e.i, k) \in Paths
        /\ IsAt(Append(e.o, k), e.o)
    BY <1>1, <2>1, AppendPath, AppendIsIn
  <2>3. IsPart(e.type, k, u)
    BY DEF IsPart, Wrappers
  <2>4. IsMember(e.type, k, u)
    BY <2>1 DEF IsMember
  <2> HIDE DEF u
  <2>5. Placed(root, u, Append(e.o, k)) /\ Lies(root, u, Append(e.i, k))
    BY <1>1, <2>1, <2>3, <2>4, PlacedPart, LiesMember
  <2> QED
    BY <1>2, <2>2, <2>5 DEF Step, StepOK, Steps, Ops
<1>4. s = [k \in 1..n |-> E(k)]
  BY DEF StepPerElement
<1>5. IsSeq(s) /\ Len(s) = n /\ \A k \in 1..n : s[k] = E(k)
  <2> HIDE DEF E
  <2>1. s = [k \in 1..n |-> s[k]] /\ \A k \in 1..n : s[k] = E(k)
    BY <1>4
  <2> HIDE DEF s
  <2> QED
    BY <2>1, FunctionIsSeq
<1>6. s \in Seq(Steps)
  <2>1. \A k \in 1..n : E(k) \in Steps
    BY <1>3 DEF StepOK
  <2>2. s \in [1..n -> Steps]
    <3> HIDE DEF E, s
    <3> QED
      BY <1>4, <2>1
  <2> HIDE DEF s
  <2> QED
    BY <2>2, SeqDef
<1> HIDE DEF s, E
<1>7. StepsIn(s, e.o)
  BY <1>3, <1>5, <1>6 DEF StepsIn, StepsOK
<1>8. Passive(s)
  BY <1>3, <1>5 DEF Passive
<1> QED
  BY <1>7, <1>8 DEF s

LEMMA OnePassive ==
  ASSUME NEW e, e.op # "activate"
  PROVE  Passive(<<e>>)
<1>1. Len(<<e>>) = 1 /\ <<e>>[1] = e
  BY OneIsSeq
<1> QED
  BY <1>1 DEF Passive

LEMMA PointedIn ==
  ASSUME StepOK(Current), Current.op \in {"set", "get"},
         Kind[Current.type] \in {"optional", "smart_ptr"}
  PROVE  StepsIn(<<Pointed>>, Current.o) /\ Passive(<<Pointed>>)
<1> DEFINE t == Current.type
           o == Current.o
           i == Current.i
           e == Pointed
<1>1. /\ Current \in Steps
      /\ t \in Types
      /\ o \in Paths
      /\ i \in Paths
      /\ Placed(root, t, o)
      /\ Lies(root, t, i)
  BY DEF StepOK, Steps
<1>2. ElementType \in Types /\ IsPart(t, 1, ElementType)
  BY <1>1, PartOfWrapper DEF Wrappers, ElementType, IsPart
<1>3. Placed(root, ElementType, Append(o, 1))
  BY <1>1, <1>2, PlacedPart
<1>4. Lies(root, ElementType, i)
  BY <1>1, LiesShared DEF Shares, ElementType
<1>5. Append(o, 1) \in Paths /\ IsAt(Append(o, 1), o)
  BY <1>1, AppendPath, AppendIsIn
<1>6. /\ e \in Steps
      /\ e.type = ElementType
      /\ e.o = Append(o, 1)
      /\ e.i = i
      /\ e.op = Current.op
  BY <1>1, <1>2, <1>5 DEF Pointed, Steps
<1> HIDE DEF e
<1>7. StepOK(e) /\ IsAt(e.o, o) /\ e.op # "activate"
  BY <1>3, <1>4, <1>5, <1>6 DEF StepOK
<1> QED
  BY <1>7, OneStepIn, OnePassive DEF e

LEMMA UnionStepIn ==
  ASSUME StepOK(Current), Current.op # "activate",
         Kind[Current.type] = "union", NEW op \in {"set_union", "get_union"}
  PROVE  LET s == <<[Current EXCEPT !.op = op, !.case = FALSE]>>
         IN StepsIn(s, Current.o) /\ Passive(s)
<1> DEFINE e == [Current EXCEPT !.op = op, !.case = FALSE]
<1>1. Current \in Steps /\ Current.o \in Paths /\ Placed(root, Current.type, Current.o)
      /\ Lies(root, Current.type, Current.i)
  BY DEF StepOK, Steps
<1>2. /\ e \in Steps
      /\ e.type = Current.type
      /\ e.o = Current.o
      /\ e.i = Current.i
      /\ e.op = op
  BY <1>1 DEF Steps, Ops
<1> HIDE DEF e
<1>3. StepOK(e) /\ IsAt(e.o, Current.o) /\ e.op # "activate"
  BY <1>1, <1>2, IsAtSame DEF StepOK
<1>4. StepsIn(<<e>>, Current.o) /\ Passive(<<e>>)
  BY <1>3, OneStepIn, OnePassive
<1> QED
  BY <1>4 DEF e

LEMMA CaseStepOK ==
  ASSUME StepOK(Current), Current.op # "activate", Kind[Current.type] = "union",
         NEW op \in {"set", "get"}, NEW c \in 1..NCases(Current.type),
         NEW o, Placed(root, CaseType(Current.type, c), o)
  PROVE  LET e == StepForCase(op, o, c)
         IN StepOK(e) /\ e.o = o /\ e.op = op
<1> DEFINE e == StepForCase(op, o, c)
           t == Current.type
           u == CaseType(t, c)
           j == Append(Current.i, c)
<1>1. t \in Types /\ Current.i \in Paths /\ Lies(root, t, Current.i)
  BY DEF StepOK, Steps
<1>2. NCases(t) \in Nat
  BY <1>1, CaseFacts
<1>3. c \in Nat
  BY <1>2
<1>4. IsMember(t, c, u)
  BY <1>3 DEF IsMember
<1>5. u \in Types /\ o \in Paths
  BY PlacedIsType
<1>6. Lies(root, u, j) /\ j \in Paths
  <2> HIDE DEF u, t
  <2> QED
    BY <1>1, <1>3, <1>4, LiesMember, AppendPath
<1>7. /\ e \in Steps
      /\ e.type = u
      /\ e.o = o
      /\ e.i = j
      /\ e.op = op
  <2> HIDE DEF u, j
  <2>1. e = [op |-> op, type |-> u, o |-> o, i |-> j, case |-> TRUE]
    BY DEF StepForCase, u, j
  <2> HIDE DEF e
  <2> QED
    BY <1>5, <1>6, <2>1 DEF Steps, Ops
<1> HIDE DEF e, u, j
<1>8. StepOK(e)
  BY <1>6, <1>7 DEF StepOK, u
<1> QED
  BY <1>7, <1>8 DEF e

-----------------------------------------------------------------------------
(* The overloads of set_member_value.                                      *)

LEMMA SetTyping ==
  ASSUME Typing, todo # <<>>, NEW w, Set(w), InstanceOK(w, root)
  PROVE  Typing'
<1>1. ObjectOK(object', root) /\ KeepsPointers(object, object', Current.o)
  BY SamePointers DEF Set, Typing
<1> QED
  BY <1>1, DoneTyping DEF Set

LEMMA SetElsewhere ==
  ASSUME Typing, todo # <<>>, NEW steps, StepsIn(steps, Current.o),
         Passive(steps), Continue(steps),
         UNCHANGED <<root, object, instance, bound>>
  PROVE  Typing'
<1>1. /\ ObjectOK(object', root)
      /\ KeepsPointers(object, object', Current.o)
      /\ InstanceOK(instance', root)
      /\ bound' \in Seq(Paths)
  BY SamePointers DEF Typing
<1>2. CasesPending(object', steps)
  BY PassivePending
<1> QED
  BY <1>1, <1>2, ContinueTyping

LEMMA NothingLeft == \A p : StepsIn(<<>>, p) /\ Passive(<<>>)
BY NoStepIn, EmptySeq DEF Passive

LEMMA MemberNumber ==
  ASSUME Typing
  PROVE  /\ \A p : At(object.value, p) \in Nat
         /\ \A i : At(instance, i) \in Nat
BY AtIsNumber DEF Typing, ObjectOK, InstanceOK, Shape, GoodObject

LEMMA SetLeafTyping ==
  ASSUME Typing, todo # <<>>, Current.op = "set", Kind[Current.type] \in Leaves,
         SetLeaf
  PROVE  Typing'
<1>1. /\ StepOK(Current)
      /\ Lies(root, Current.type, Current.i)
      /\ Placed(root, Current.type, Current.o)
  BY CurrentOK DEF StepOK
<1>2. NodeOK(object, Current.type, Current.o)
  BY <1>1 DEF Typing, ObjectOK
<1> DEFINE v == At(object.value, Current.o)
<1>3. v \in Nat /\ Fits(Current.type, v)
  BY <1>2, MemberNumber DEF NodeOK, Sized
<1>4. ~Shares(Current.type)
  BY DEF Shares, Leaves
<1>5. Set(WithMember(v))
  BY DEF SetLeaf
<1> HIDE DEF v
<1>6. InstanceOK(WithMember(v), root)
  BY <1>1, <1>3, <1>4, WithMemberOK DEF Typing
<1> QED
  BY <1>5, <1>6, SetTyping

LEMMA BindToSetTyping ==
  ASSUME Typing, todo # <<>>, Current.op = "set",
         NEW steps, StepsIn(steps, Current.o), Passive(steps), BindToSet(steps)
  PROVE  Typing'
<1>1. Lies(root, Current.type, Current.i)
  BY CurrentOK DEF StepOK
<1> DEFINE v == At(instance, Current.i)
<1>2. v \in Nat
  BY MemberNumber
<1>3. instance' = WithMember(v) /\ Bind(steps) /\ UNCHANGED <<root, object>>
  BY DEF BindToSet
<1>4. InstanceOK(WithMember(v), root)
  BY <1>1, <1>2, WithMemberOK DEF Typing
<1> HIDE DEF v
<1>5. InstanceOK(instance', root)
  BY <1>3, <1>4
<1>6. ObjectOK(object', root) /\ KeepsPointers(object, object', Current.o)
  BY <1>3, SamePointers DEF Typing
<1> QED
  BY <1>3, <1>5, <1>6, BindTyping

(* Containers with elements in the DDS_DynamicData.                        *)
Containers == {"sequence", "vector", "range", "array"}

LEMMA SetAllTyping ==
  ASSUME Typing, todo # <<>>, Current.op = "set",
         Kind[Current.type] \in Containers, Kind[ElementType] \in Leaves,
         NEW n \in Nat, SetAll(n)
  PROVE  Typing'
<1>1. Lies(root, Current.type, Current.i) /\ Placed(root, Current.type, Current.o)
  BY CurrentOK DEF StepOK
<1>2. InstanceOK(instance', root)
  BY <1>1, SetAllOK DEF Typing, Containers
<1>3. Continue(<<>>) /\ UNCHANGED <<root, object, bound>>
  BY DEF SetAll, Set
<1>4. ObjectOK(object', root) /\ KeepsPointers(object, object', Current.o)
  BY <1>3, SamePointers DEF Typing
<1> QED
  BY <1>2, <1>3, <1>4, DoneTyping

LEMMA ContainerSteps ==
  ASSUME Typing, todo # <<>>, Current.op \in {"set", "get"},
         Kind[Current.type] \in Containers, NEW n \in Nat
  PROVE  /\ StepsIn(StepPerElement(Current.op, Current, n), Current.o)
         /\ Passive(StepPerElement(Current.op, Current, n))
<1>1. StepOK(Current) /\ Lies(root, Current.type, Current.i)
  BY CurrentOK DEF StepOK
<1> DEFINE e == Current
           op == Current.op
<1>2. /\ StepOK(e)
      /\ Kind[e.type] \in {"sequence", "vector", "range", "array"}
      /\ Lies(root, e.type, e.i)
      /\ op \in {"set", "get"}
  BY <1>1 DEF Containers
<1> HIDE DEF e, op
<1>3. /\ StepsIn(StepPerElement(op, e, n), e.o)
      /\ Passive(StepPerElement(op, e, n))
  BY <1>2, ElementStepsIn
<1> QED
  BY <1>3 DEF e, op

LEMMA SetElementsTyping ==
  ASSUME Typing, todo # <<>>, Current.op = "set",
         Kind[Current.type] \in Containers, SetElements
  PROVE  Typing'
<1> DEFINE n == At(object.value, Current.o)
           steps == StepPerElement("set", Current, n)
<1>1. n \in Nat
  BY MemberNumber
<1>2. StepsIn(steps, Current.o) /\ Passive(steps)
  BY <1>1, ContainerSteps
<1>3. PICK v \in LengthsFor(n) : instance' = WithMember(v)
  BY DEF SetElements
<1>4. v \in Nat
  BY <1>1, <1>3, MemberNumber DEF LengthsFor
<1>5. Bind(steps) /\ UNCHANGED <<root, object>>
  BY DEF SetElements
<1>6. ~Shares(Current.type) /\ Fits(Current.type, v)
  BY DEF Containers, Shares, Fits, Leaves
<1>7. Lies(root, Current.type, Current.i)
  BY CurrentOK DEF StepOK
<1>8. InstanceOK(instance', root)
  BY <1>3, <1>4, <1>6, <1>7, WithMemberOK DEF Typing
<1>9. ObjectOK(object', root) /\ KeepsPointers(object, object', Current.o)
  BY <1>5, SamePointers DEF Typing
<1> HIDE DEF steps, n
<1> QED
  BY <1>2, <1>5, <1>8, <1>9, BindTyping

LEMMA MemberStepsHere ==
  ASSUME Typing, todo # <<>>, Kind[Current.type] \in Aggregates,
         Current.op # "activate"
  PROVE  LET t == Current.type
             s == SetMembers(t, Current.o, Current.i)
             g == GetMembers(t, Current.o, Current.i)
         IN /\ StepsIn(s, Current.o) /\ Passive(s)
            /\ StepsIn(g, Current.o) /\ Passive(g)
<1>1. Placed(root, Current.type, Current.o) /\ Lies(root, Current.type, Current.i)
  BY CurrentOK DEF StepOK
<1> QED
  BY <1>1, MemberStepsIn DEF SetMembers, GetMembers

LEMMA ElementKinds ==
  ASSUME NEW t \in Types
  PROVE  /\ Primitive(t) => Kind[t] \in Leaves
         /\ Kind[t] = "vector" => Kind[Parts[t][1]] \in Leaves
BY TypesAreAdapted DEF Primitive, Leaves

LEMMA SetMemberTyping ==
  ASSUME Typing, SetMember
  PROVE  Typing'
<1>1. /\ todo # <<>>
      /\ Current.op \in {"set", "set_base", "set_union"}
  BY DEF SetMember, SetPrimitive, SetString, SetEnum, SetBase, SetStruct,
         SetSparse, SetPrimitiveSequence, SetVector, SetPrimitiveRange,
         SetPrimitiveArray, SetSequence, SetRange, SetArray, SetOptional,
         SetSmartPtr, SetUnion, SetUnionCase, Doing
<1>2. /\ StepOK(Current)
      /\ Current.type \in Types
      /\ Placed(root, Current.type, Current.o)
      /\ Lies(root, Current.type, Current.i)
  BY <1>1, CurrentOK, PlacedIsType DEF StepOK
<1>3. /\ At(object.value, Current.o) \in Nat
      /\ ArrayLen \in Nat
  BY MemberNumber, ConversionConstants
<1>4. CASE SetPrimitive \/ SetString \/ SetEnum
  BY <1>1, <1>4, SetLeafTyping
     DEF SetPrimitive, SetString, SetEnum, Doing, Leaves
<1>5. CASE SetBase
  <2>1. /\ Kind[Current.type] \in Aggregates
        /\ Current.op # "activate"
        /\ Continue(SetMembers(Current.type, Current.o, Current.i))
        /\ UNCHANGED <<root, object, instance, bound>>
    BY <1>5 DEF SetBase, Doing, Aggregates
  <2>2. LET s == SetMembers(Current.type, Current.o, Current.i)
        IN StepsIn(s, Current.o) /\ Passive(s)
    BY <1>1, <2>1, MemberStepsHere
  <2> QED
    BY <1>1, <2>1, <2>2, SetElsewhere
<1>6. CASE SetStruct \/ SetSparse
  <2>1. /\ Kind[Current.type] \in Aggregates
        /\ Current.op = "set"
        /\ BindToSet(SetMembers(Current.type, Current.o, Current.i))
    BY <1>6 DEF SetStruct, SetSparse, Doing, Aggregates
  <2>2. LET s == SetMembers(Current.type, Current.o, Current.i)
        IN StepsIn(s, Current.o) /\ Passive(s)
    BY <1>1, <2>1, MemberStepsHere
  <2> QED
    BY <1>1, <2>1, <2>2, BindToSetTyping
<1>7. CASE SetPrimitiveSequence \/ SetPrimitiveRange
  <2>1. /\ Current.op = "set"
        /\ Kind[Current.type] \in Containers
        /\ Kind[ElementType] \in Leaves
        /\ SetAll(At(object.value, Current.o))
    BY <1>7 DEF SetPrimitiveSequence, SetPrimitiveRange, Doing, Containers,
                Primitive, Leaves
  <2> QED
    BY <1>1, <1>3, <2>1, SetAllTyping
<1>8. CASE SetPrimitiveArray
  <2>1. /\ Current.op = "set"
        /\ Kind[Current.type] \in Containers
        /\ Kind[ElementType] \in Leaves
        /\ SetAll(ArrayLen)
    BY <1>8 DEF SetPrimitiveArray, Doing, Containers, Primitive, Leaves
  <2> QED
    BY <1>1, <1>3, <2>1, SetAllTyping
<1>9. CASE SetVector
  <2>1. /\ Current.op = "set"
        /\ Kind[Current.type] \in Containers
        /\ Kind[ElementType] \in Leaves
    BY <1>2, <1>9, ElementKinds DEF SetVector, Doing, Containers, ElementType
  <2>2. CASE At(object.value, Current.o) > 0
    <3>1. SetAll(At(object.value, Current.o))
      BY <1>9, <2>2 DEF SetVector
    <3> QED
      BY <1>1, <1>3, <2>1, <3>1, SetAllTyping
  <2>3. CASE ~(At(object.value, Current.o) > 0)
    <3>1. Continue(<<>>) /\ UNCHANGED <<root, object, instance, bound>>
      BY <1>9, <2>3 DEF SetVector
    <3> QED
      BY <1>1, <3>1, NothingLeft, SetElsewhere
  <2> QED
    BY <2>2, <2>3
<1>10. CASE SetSequence \/ SetRange
  <2>1. Current.op = "set" /\ Kind[Current.type] \in Containers /\ SetElements
    BY <1>10 DEF SetSequence, SetRange, Doing, Containers
  <2> QED
    BY <1>1, <2>1, SetElementsTyping
<1>11. CASE SetArray
  <2>1. /\ Current.op = "set"
        /\ Kind[Current.type] \in Containers
        /\ BindToSet(StepPerElement("set", Current, ArrayLen))
    BY <1>11 DEF SetArray, Doing, Containers
  <2>2. LET s == StepPerElement("set", Current, ArrayLen)
        IN StepsIn(s, Current.o) /\ Passive(s)
    BY <1>1, <1>3, <2>1, ContainerSteps
  <2> QED
    BY <1>1, <2>1, <2>2, BindToSetTyping
<1>12. CASE SetOptional \/ SetSmartPtr
  <2>1. /\ Current.op \in {"set", "get"}
        /\ Kind[Current.type] \in {"optional", "smart_ptr"}
        /\ Continue(<<Pointed>>) \/ Continue(<<>>)
        /\ UNCHANGED <<root, object, instance, bound>>
    BY <1>12 DEF SetOptional, SetSmartPtr, Doing
  <2>2. StepsIn(<<Pointed>>, Current.o) /\ Passive(<<Pointed>>)
    BY <1>2, <2>1, PointedIn
  <2> QED
    BY <1>1, <2>1, <2>2, NothingLeft, SetElsewhere
<1>13. CASE SetUnion
  <2> DEFINE s == <<[Current EXCEPT !.op = "set_union", !.case = FALSE]>>
  <2>1. /\ Current.op = "set"
        /\ Kind[Current.type] = "union"
        /\ BindToSet(<<>>) \/ BindToSet(s)
    BY <1>13 DEF SetUnion, Doing
  <2>2. StepsIn(s, Current.o) /\ Passive(s)
    BY <1>2, <2>1, UnionStepIn
  <2> HIDE DEF s
  <2> QED
    BY <1>1, <2>1, <2>2, NothingLeft, BindToSetTyping
<1>14. CASE SetUnionCase
  <2> DEFINE t == Current.type
             c == CaseToSet(object, t, Current.o)
             o == DataOf(object, t, Current.o, c)
             e == StepForCase("set", o, c)
  <2>1. /\ Kind[t] = "union"
        /\ Current.op # "activate"
        /\ c # 0
        /\ Continue(<<e>>)
        /\ UNCHANGED <<root, object, instance, bound>>
    BY <1>14 DEF SetUnionCase, Doing, SetUnionThrows
  <2>2. c \in 1..NCases(t)
    BY <2>1, FirstOfIsIn DEF CaseToSet
  <2>3. /\ Placed(root, CaseType(t, c), o)
        /\ Placed(root, t, Current.o)
        /\ c \in Nat
    <3>1. NCases(t) \in Nat
      BY <1>2, <2>1, CaseFacts
    <3>2. c \in Nat
      BY <2>2, <3>1
    <3> HIDE DEF t, c
    <3> QED
      BY <1>2, <2>1, <2>2, <3>2, CasePlaced DEF t
  <2>4. IsAt(o, Current.o)
    <3>1. NCases(t) + c \in Nat /\ Current.o \in Paths
      BY <1>2, <2>1, <2>3, CaseFacts, PlacedIsType
    <3>2. /\ IsAt(Append(Current.o, c), Current.o)
          /\ IsAt(Append(Current.o, NCases(t) + c), Current.o)
      BY <2>3, <3>1, AppendIsIn
    <3> QED
      BY <3>2 DEF DataOf, Pointee
  <2> HIDE DEF o, c
  <2>5. StepOK(e) /\ e.o = o /\ e.op = "set"
    BY <1>2, <2>1, <2>2, <2>3, CaseStepOK
  <2> HIDE DEF e
  <2>6. StepsIn(<<e>>, Current.o) /\ Passive(<<e>>)
    BY <2>4, <2>5, OneStepIn, OnePassive
  <2> QED
    BY <1>1, <2>1, <2>6, SetElsewhere
<1> QED
  BY <1>4, <1>5, <1>6, <1>7, <1>8, <1>9, <1>10, <1>11, <1>12, <1>13, <1>14
     DEF SetMember

-----------------------------------------------------------------------------
(* The overloads of get_member_value.                                      *)

LEMMA GetTyping ==
  ASSUME Typing, todo # <<>>, NEW s, Get(s), ObjectOK(s, root),
         KeepsPointers(object, s, Current.o)
  PROVE  Typing'
<1>1. InstanceOK(instance', root) /\ ObjectOK(object', root)
      /\ KeepsPointers(object, object', Current.o)
  BY DEF Get, Typing
<1> QED
  BY <1>1, DoneTyping DEF Get

LEMMA BindToGetTyping ==
  ASSUME Typing, todo # <<>>, Current.op = "get", NEW s, ObjectOK(s, root),
         KeepsPointers(object, s, Current.o), NEW steps,
         StepsIn(steps, Current.o), Passive(steps), BindToGet(s, steps)
  PROVE  Typing'
<1>1. InstanceOK(instance', root) /\ ObjectOK(object', root)
      /\ KeepsPointers(object, object', Current.o) /\ root' = root /\ Bind(steps)
  BY DEF BindToGet, Typing
<1> QED
  BY <1>1, BindTyping

LEMMA KeepsPointersTwice ==
  ASSUME NEW s, NEW w, NEW x, NEW p, KeepsPointers(s, w, p), KeepsPointers(w, x, p)
  PROVE  KeepsPointers(s, x, p)
BY DEF KeepsPointers

LEMMA GetLeafTyping ==
  ASSUME Typing, todo # <<>>, Current.op = "get", Kind[Current.type] \in Leaves,
         GetLeaf
  PROVE  Typing'
<1> DEFINE v == At(instance, Current.i)
           s == Resized(object, Current.o, v)
<1>1. /\ Lies(root, Current.type, Current.i)
      /\ Placed(root, Current.type, Current.o)
  BY CurrentOK DEF StepOK
<1>2. v \in Nat /\ Fits(Current.type, v) /\ ObjectOK(object, root)
  BY <1>1, MemberNumber DEF Typing, InstanceOK
<1>3. Kind[Current.type] # "union" /\ Get(s)
  BY DEF Leaves, GetLeaf
<1> HIDE DEF v
<1>5. Sized(Current.type, v)
  BY <1>2 DEF Sized, Leaves, Aggregates
<1>4. ObjectOK(s, root) /\ KeepsPointers(object, s, Current.o)
  BY <1>1, <1>2, <1>3, <1>5, ResizedOK
<1> HIDE DEF s
<1> QED
  BY <1>3, <1>4, GetTyping

(* Containers, optionals and pointers whose parts are counted anew.        *)
LEMMA ResizedTyping ==
  ASSUME Typing, todo # <<>>, Kind[Current.type] \in Wrappers \ {"array"},
         NEW n \in Nat, Kind[Current.type] \in {"optional", "smart_ptr"} => n \in {0, 1}
  PROVE  LET s == Resized(object, Current.o, n)
         IN ObjectOK(s, root) /\ KeepsPointers(object, s, Current.o)
<1>1. Placed(root, Current.type, Current.o) /\ ObjectOK(object, root)
  BY CurrentOK DEF StepOK, Typing
<1>2. Kind[Current.type] # "union" /\ Sized(Current.type, n)
  BY DEF Wrappers, Sized, Fits, Leaves, Aggregates
<1> QED
  BY <1>1, <1>2, ResizedOK

LEMMA RightSizesTyping ==
  ASSUME Typing, todo # <<>>, Kind[Current.type] \in {"sequence", "vector", "range"},
         NEW n \in Nat, NEW s \in RightSizes(n)
  PROVE  ObjectOK(s, root) /\ KeepsPointers(object, s, Current.o)
<1> DEFINE w == Resized(object, Current.o, 0)
           x == Resized(w, Current.o, n)
<1>1. Placed(root, Current.type, Current.o)
  BY CurrentOK DEF StepOK
<1>2. /\ Kind[Current.type] # "union"
      /\ Kind[Current.type] \in Wrappers \ {"array"}
      /\ Kind[Current.type] \notin {"optional", "smart_ptr"}
      /\ Sized(Current.type, n)
  BY DEF Wrappers, Sized, Fits, Leaves, Aggregates
<1>3. ObjectOK(w, root) /\ KeepsPointers(object, w, Current.o)
  BY <1>2, ResizedTyping
<1> HIDE DEF w
<1>4. ObjectOK(x, root) /\ KeepsPointers(w, x, Current.o)
  BY <1>1, <1>2, <1>3, ResizedOK
<1>5. s = Resized(object, Current.o, n) \/ s = x
  BY DEF RightSizes, w
<1> HIDE DEF x
<1> QED
  BY <1>2, <1>3, <1>4, <1>5, ResizedTyping, KeepsPointersTwice

LEMMA ElementsFit ==
  ASSUME Typing, todo # <<>>, Current.op = "get", Kind[Current.type] \in Containers,
         NEW n \in Nat
  PROVE  \A k \in 1..n : Fits(ElementType, At(instance, Append(Current.i, k)))
<1>1. Lies(root, Current.type, Current.i) /\ InstanceOK(instance, root)
  BY CurrentOK DEF StepOK, Typing
<1>2. ASSUME NEW k \in 1..n
      PROVE  Lies(root, ElementType, Append(Current.i, k))
  <2>1. IsMember(Current.type, k, ElementType)
    BY DEF IsMember, Containers, ElementType
  <2> QED
    BY <1>1, <2>1, LiesMember
<1> QED
  BY <1>1, <1>2 DEF InstanceOK

LEMMA GetElementsTyping ==
  ASSUME Typing, todo # <<>>, Current.op = "get", Kind[Current.type] \in Containers,
         Kind[ElementType] \in Leaves, NEW n \in Nat, NEW s, ObjectOK(s, root),
         KeepsPointers(object, s, Current.o), Get(WithElements(s, n))
  PROVE  Typing'
<1>1. Placed(root, Current.type, Current.o) /\ Numbers(instance)
  BY CurrentOK DEF StepOK, Typing, InstanceOK
<1>2. \A k \in 1..n : Fits(ElementType, At(instance, Append(Current.i, k)))
  BY ElementsFit
<1>3. Kind[Current.type] \in Wrappers
  BY DEF Containers, Wrappers
<1> DEFINE x == WithElements(s, n)
<1>4. ObjectOK(x, root) /\ KeepsPointers(s, x, Current.o)
  BY <1>1, <1>2, <1>3, WithElementsOK
<1> HIDE DEF x
<1>5. KeepsPointers(object, x, Current.o)
  BY <1>4, KeepsPointersTwice
<1> QED
  BY <1>4, <1>5, GetTyping DEF x

LEMMA GetPointedTyping ==
  ASSUME Typing, todo # <<>>, Current.op = "get",
         Kind[Current.type] \in {"optional", "smart_ptr"},
         GetPointed, UNCHANGED <<root, instance, bound>>
  PROVE  Typing'
<1>1. StepsIn(<<Pointed>>, Current.o) /\ Passive(<<Pointed>>)
  BY CurrentOK, PointedIn
<1>2. ObjectOK(object, root) /\ KeepsPointers(object, object, Current.o)
  BY SamePointers DEF Typing
<1>3. LET s == Resized(object, Current.o, 1)
      IN ObjectOK(s, root) /\ KeepsPointers(object, s, Current.o)
  <2>1. Kind[Current.type] \in Wrappers \ {"array"}
    BY DEF Wrappers
  <2> QED
    BY <2>1, ResizedTyping
<1>4. \/ object' = object
      \/ object' = Resized(object, Current.o, 1)
  BY DEF GetPointed
<1>5. ObjectOK(object', root) /\ KeepsPointers(object, object', Current.o)
  BY <1>2, <1>3, <1>4
<1>6. InstanceOK(instance', root) /\ bound' \in Seq(Paths) /\ Continue(<<Pointed>>)
  BY DEF Typing, GetPointed
<1>7. CasesPending(object', <<Pointed>>)
  BY <1>1, PassivePending
<1> QED
  BY <1>1, <1>5, <1>6, <1>7, ContinueTyping

(* A case that is read through its pointer is made the active one then.    *)
LEMMA ThroughPointerTyping ==
  ASSUME Typing, todo # <<>>, Current.op = "get_union",
         Kind[Current.type] = "union", NEW c \in 1..NCases(Current.type),
         HasPointer(object, Current.type, Current.o, c),
         Continue(<<StepForCase("get", Pointee(Current.type, Current.o, c), c),
                    [Current EXCEPT !.op = "activate", !.i = Append(@, c)]>>),
         UNCHANGED <<root, object, instance, bound>>
  PROVE  Typing'
<1> DEFINE t == Current.type
           q == Pointee(t, Current.o, c)
           a == StepForCase("get", q, c)
           b == [Current EXCEPT !.op = "activate", !.i = Append(@, c)]
           s == <<a, b>>
<1>1. /\ StepOK(Current)
      /\ Current \in Steps
      /\ t \in Types
      /\ Current.o \in Paths
      /\ Current.i \in Paths
      /\ Placed(root, t, Current.o)
  BY CurrentOK DEF StepOK, Steps
<1>2. c \in Nat /\ NCases(t) + c \in Nat
  BY <1>1, CaseFacts
<1>3. Placed(root, CaseType(t, c), q) /\ q \in Paths /\ IsAt(q, Current.o)
  <2>1. Placed(root, CaseType(t, c), q)
    BY <1>1, <1>2, CasePlaced
  <2>2. IsAt(q, Current.o)
    BY <1>1, <1>2, AppendIsIn DEF Pointee
  <2> QED
    BY <2>1, <2>2, PlacedIsType
<1>4. StepOK(a) /\ a.o = q /\ a.op = "get"
  <2> HIDE DEF q
  <2> QED
    BY <1>1, <1>3, CaseStepOK
<1>5. /\ b \in Steps
      /\ b.type = t
      /\ b.o = Current.o
      /\ b.i = Append(Current.i, c)
      /\ b.op = "activate"
  <2>1. Append(Current.i, c) \in Paths
    BY <1>1, <1>2, AppendPath
  <2> QED
    BY <1>1, <2>1 DEF Steps, Ops
<1>6. StepOK(b) /\ IsAt(b.o, Current.o)
  <2> HIDE DEF b
  <2> QED
    BY <1>1, <1>5, IsAtSame DEF StepOK
<1>7. Last(b.i) = c
  <2>1. IsSeq(Current.i)
    BY <1>1 DEF IsSeq, Paths
  <2> QED
    BY <1>5, <2>1, AppendFacts
<1> HIDE DEF a, b
<1>8. StepsIn(s, Current.o)
  <2>1. a \in Steps /\ b \in Steps
    BY <1>4, <1>5 DEF StepOK
  <2>2. /\ s \in Seq(Steps)
        /\ \A k \in 1..Len(s) : (k = 1 /\ s[k] = a) \/ (k = 2 /\ s[k] = b)
    BY <2>1
  <2> HIDE DEF s
  <2> QED
    BY <1>3, <1>4, <1>6, <2>2 DEF StepsIn, StepsOK
<1>9. CasesPending(object', s)
  <2>1. Len(s) = 2 /\ s[1] = a /\ s[2] = b
    OBVIOUS
  <2> HIDE DEF s
  <2>2. Through(b) = q
    BY <1>5, <1>7 DEF Through
  <2>3. CasePending(object', b)
    BY <1>5, <1>7, <2>2 DEF CasePending, HasPointer
  <2>4. ~IsIn(q, a.o)
    BY <1>4 DEF IsIn
  <2> QED
    BY <1>4, <2>1, <2>2, <2>3, <2>4 DEF CasesPending
<1>10. /\ ObjectOK(object', root)
       /\ KeepsPointers(object, object', Current.o)
       /\ InstanceOK(instance', root)
       /\ bound' \in Seq(Paths)
       /\ Continue(s)
  BY SamePointers DEF Typing, a, b
<1> HIDE DEF s
<1> QED
  BY <1>8, <1>9, <1>10, ContinueTyping

LEMMA IntoVariantTyping ==
  ASSUME Typing, todo # <<>>, Current.op = "get_union",
         Kind[Current.type] = "union", NEW c \in 1..NCases(Current.type),
         object' = WithVariant(object, Current.type, Current.o, c),
         Continue(<<StepForCase("get", Append(Current.o, c), c)>>),
         UNCHANGED <<root, instance, bound>>
  PROVE  Typing'
<1> DEFINE t == Current.type
           o == Append(Current.o, c)
           e == StepForCase("get", o, c)
<1>1. /\ StepOK(Current)
      /\ t \in Types
      /\ Current.o \in Paths
      /\ Placed(root, t, Current.o)
  BY CurrentOK, PlacedIsType DEF StepOK
<1>2. c \in Nat
  BY <1>1, CaseFacts
<1>3. Placed(root, CaseType(t, c), o) /\ IsAt(o, Current.o)
  BY <1>1, <1>2, CasePlaced, AppendIsIn
<1>4. StepOK(e) /\ e.o = o /\ e.op = "get"
  <2> HIDE DEF o
  <2> QED
    BY <1>1, <1>3, CaseStepOK
<1> HIDE DEF e
<1>5. StepsIn(<<e>>, Current.o) /\ Passive(<<e>>)
  BY <1>3, <1>4, OneStepIn, OnePassive
<1>6. ElsewhereOK(object, root, Current.o)
  BY DEF Typing, ObjectOK, ElsewhereOK
<1>7. ObjectOK(object', root) /\ KeepsPointers(object, object', Current.o)
  BY <1>1, <1>6, WithVariantOK
<1>8. InstanceOK(instance', root) /\ bound' \in Seq(Paths) /\ Continue(<<e>>)
  BY DEF Typing, e
<1>9. CasesPending(object', <<e>>)
  BY <1>5, PassivePending
<1> QED
  BY <1>5, <1>7, <1>8, <1>9, ContinueTyping

LEMMA ActivateTyping ==
  ASSUME Typing, Activate
  PROVE  Typing'
<1> DEFINE t == Current.type
           o == Current.o
           c == Last(Current.i)
           s == Activated(object, o, c)
<1>1. /\ todo # <<>>
      /\ Current.op = "activate"
      /\ Kind[t] = "union"
      /\ Get(s)
  BY DEF Activate, Doing, Activated
<1>2. Placed(root, t, o) /\ ObjectOK(object, root)
  BY <1>1, CurrentOK DEF StepOK, Typing
<1>3. c \in 1..NCases(t) /\ HasPointer(object, t, o, c)
  <2>1. IsSeq(todo)
    BY DEF Typing, StepsOK, IsSeq
  <2>2. Len(todo) \in Nat /\ Len(todo) > 0 /\ Current = todo[1]
    BY <1>1, <2>1, SeqFacts, HeadTailFacts DEF Current
  <2>3. CasePending(object, Current)
    BY <1>1, <2>2 DEF Typing, CasesPending
  <2> QED
    BY <2>3 DEF CasePending, Through, HasPointer
<1> HIDE DEF t, o, c
<1>4. ObjectOK(s, root) /\ KeepsPointers(object, s, o)
  BY <1>1, <1>2, <1>3, ActivatedOK
<1> HIDE DEF s
<1> QED
  BY <1>1, <1>4, GetTyping DEF o

LEMMA GetMemberTyping ==
  ASSUME Typing, GetMember
  PROVE  Typing'
<1>1. /\ todo # <<>>
      /\ Current.op \in {"get", "get_base", "get_union", "activate"}
  BY DEF GetMember, GetPrimitive, GetString, GetEnum, GetBase, GetStruct,
         GetSparse, GetPrimitiveSequence, GetVector, GetPrimitiveRange,
         GetPrimitiveArray, GetSequence, GetRange, GetArray, GetOptional,
         GetSmartPtr, GetUnion, GetUnionCase, Activate, Doing
<1>2. StepOK(Current) /\ Current.type \in Types
  BY <1>1, CurrentOK, PlacedIsType DEF StepOK
<1> DEFINE n == At(instance, Current.i)
<1>3. n \in Nat /\ ArrayLen \in Nat
  BY MemberNumber, ConversionConstants
<1>4. ObjectOK(object, root) /\ KeepsPointers(object, object, Current.o)
  BY SamePointers DEF Typing
<1>5. CASE GetPrimitive \/ GetString \/ GetEnum
  BY <1>1, <1>5, GetLeafTyping
     DEF GetPrimitive, GetString, GetEnum, Doing, Leaves
<1>6. CASE GetBase
  <2>1. /\ Kind[Current.type] \in Aggregates
        /\ Current.op # "activate"
        /\ Continue(GetMembers(Current.type, Current.o, Current.i))
        /\ UNCHANGED <<root, object, instance, bound>>
    BY <1>6 DEF GetBase, Doing, Aggregates
  <2>2. LET s == GetMembers(Current.type, Current.o, Current.i)
        IN StepsIn(s, Current.o) /\ Passive(s)
    BY <1>1, <2>1, MemberStepsHere
  <2> QED
    BY <1>1, <2>1, <2>2, SetElsewhere
<1>7. CASE GetStruct \/ GetSparse
  <2>1. /\ Kind[Current.type] \in Aggregates
        /\ Current.op = "get"
        /\ BindToGet(object, GetMembers(Current.type, Current.o, Current.i))
    BY <1>7 DEF GetStruct, GetSparse, Doing, Aggregates
  <2>2. LET s == GetMembers(Current.type, Current.o, Current.i)
        IN StepsIn(s, Current.o) /\ Passive(s)
    BY <1>1, <2>1, MemberStepsHere
  <2> QED
    BY <1>1, <1>4, <2>1, <2>2, BindToGetTyping
<1>8. CASE GetPrimitiveSequence \/ GetVector
  <2>1. /\ Current.op = "get"
        /\ Kind[Current.type] \in Containers
        /\ Kind[ElementType] \in Leaves
        /\ GetAll(n)
    <3>1. CASE GetPrimitiveSequence
      BY <3>1 DEF GetPrimitiveSequence, Doing, Containers, Primitive, Leaves
    <3>2. CASE GetVector
      BY <1>2, <3>2, ElementKinds
         DEF GetVector, Doing, Containers, ElementType
    <3> QED
      BY <1>8, <3>1, <3>2
  <2>2. /\ Kind[Current.type] \in Wrappers \ {"array"}
        /\ Kind[Current.type] \notin {"optional", "smart_ptr"}
    BY <1>8, <2>1 DEF Containers, Wrappers, GetPrimitiveSequence, GetVector, Doing
  <2> DEFINE s == Resized(object, Current.o, n)
  <2> HIDE DEF n
  <2>3. ObjectOK(s, root) /\ KeepsPointers(object, s, Current.o)
    BY <1>1, <1>3, <2>2, ResizedTyping
  <2>4. Get(WithElements(s, n))
    BY <2>1 DEF GetAll
  <2> HIDE DEF s
  <2> QED
    BY <1>1, <1>3, <2>1, <2>3, <2>4, GetElementsTyping
<1>9. CASE GetPrimitiveArray
  <2>1. /\ Current.op = "get"
        /\ Kind[Current.type] \in Containers
        /\ Kind[ElementType] \in Leaves
        /\ Get(WithElements(object, ArrayLen))
    BY <1>9 DEF GetPrimitiveArray, Doing, Containers, Primitive, Leaves
  <2> QED
    BY <1>1, <1>3, <1>4, <2>1, GetElementsTyping
<1>10. CASE GetPrimitiveRange
  <2>1. /\ Current.op = "get"
        /\ Kind[Current.type] \in Containers
        /\ Kind[ElementType] \in Leaves
        /\ Get(WithElements(object, n))
    BY <1>10 DEF GetPrimitiveRange, Doing, Containers, Primitive, Leaves
  <2> HIDE DEF n
  <2> QED
    BY <1>1, <1>3, <1>4, <2>1, GetElementsTyping
<1>11. CASE GetSequence
  <2>1. /\ Current.op = "get"
        /\ Kind[Current.type] \in Containers
        /\ Kind[Current.type] \in {"sequence", "vector", "range"}
    BY <1>11 DEF GetSequence, Doing, Containers
  <2>2. PICK s \in RightSizes(n) :
          BindToGet(s, StepPerElement("get", Current, n))
    BY <1>11 DEF GetSequence
  <2> HIDE DEF n
  <2>3. ObjectOK(s, root) /\ KeepsPointers(object, s, Current.o)
    BY <1>1, <1>3, <2>1, RightSizesTyping
  <2>4. LET e == StepPerElement("get", Current, n)
        IN StepsIn(e, Current.o) /\ Passive(e)
    BY <1>1, <1>3, <2>1, ContainerSteps
  <2> QED
    BY <1>1, <2>1, <2>2, <2>3, <2>4, BindToGetTyping
<1>12. CASE GetRange \/ GetArray
  <2>1. /\ Current.op = "get"
        /\ Kind[Current.type] \in Containers
        /\ \E k \in {n, ArrayLen} :
             BindToGet(object, StepPerElement("get", Current, k))
    BY <1>12 DEF GetRange, GetArray, Doing, Containers
  <2> HIDE DEF n
  <2>2. PICK k \in Nat : BindToGet(object, StepPerElement("get", Current, k))
    BY <1>3, <2>1
  <2>3. LET e == StepPerElement("get", Current, k)
        IN StepsIn(e, Current.o) /\ Passive(e)
    BY <1>1, <2>1, ContainerSteps
  <2> QED
    BY <1>1, <1>4, <2>1, <2>2, <2>3, BindToGetTyping
<1>13. CASE GetOptional \/ GetSmartPtr
  <2>1. /\ Current.op = "get"
        /\ Kind[Current.type] \in {"optional", "smart_ptr"}
        /\ GetPointed \/ (Continue(<<>>) /\ UNCHANGED object)
        /\ UNCHANGED <<root, instance, bound>>
    BY <1>13 DEF GetOptional, GetSmartPtr, Doing
  <2> QED
    BY <1>1, <2>1, GetPointedTyping, NothingLeft, SetElsewhere
<1>14. CASE GetUnion
  <2> DEFINE s == <<[Current EXCEPT !.op = "get_union", !.case = FALSE]>>
  <2>1. /\ Current.op = "get"
        /\ Kind[Current.type] = "union"
        /\ BindToGet(object, s)
    BY <1>14 DEF GetUnion, Doing
  <2>2. StepsIn(s, Current.o) /\ Passive(s)
    BY <1>2, <2>1, UnionStepIn
  <2> HIDE DEF s
  <2> QED
    BY <1>1, <1>4, <2>1, <2>2, BindToGetTyping
<1>15. CASE GetUnionCase
  <2> DEFINE t == Current.type
             c == CaseRead(Current)
  <2>1. /\ Kind[t] = "union"
        /\ Current.op = "get_union"
        /\ c # 0
        /\ UNCHANGED <<root, instance, bound>>
    BY <1>15 DEF GetUnionCase, Doing
  <2>2. c \in 1..NCases(t)
    <3>1. c = CaseToGet(t, DiscriminatorValue(Current))
      BY <2>1 DEF CaseRead
    <3> QED
      BY <2>1, <3>1, FirstOfIsIn DEF CaseToGet
  <2>3. CASE HasPointer(object, t, Current.o, c)
    <3>1. /\ Continue(<<StepForCase("get", Pointee(t, Current.o, c), c),
                        [Current EXCEPT !.op = "activate",
                                        !.i = Append(@, c)]>>)
          /\ UNCHANGED object
      BY <1>15, <2>3 DEF GetUnionCase
    <3> HIDE DEF c
    <3> QED
      BY <1>1, <2>1, <2>2, <2>3, <3>1, ThroughPointerTyping
  <2>4. CASE ~HasPointer(object, t, Current.o, c)
    <3>1. /\ object' = WithVariant(object, t, Current.o, c)
          /\ Continue(<<StepForCase("get", Append(Current.o, c), c)>>)
      BY <1>15, <2>4 DEF GetUnionCase
    <3> HIDE DEF c
    <3> QED
      BY <1>1, <2>1, <2>2, <3>1, IntoVariantTyping
  <2> QED
    BY <2>3, <2>4
<1> QED
  BY <1>5, <1>6, <1>7, <1>8, <1>9, <1>10, <1>11, <1>12, <1>13, <1>14, <1>15,
     ActivateTyping DEF GetMember

-----------------------------------------------------------------------------
(* Exceptions, calls and what the application does between them.           *)

LEMMA UnbindTyping ==
  ASSUME IInv, Typing, Unbind
  PROVE  Typing'
<1>1. /\ todo # <<>>
      /\ Current.op = "unbind"
      /\ Continue(<<>>)
      /\ UNCHANGED <<root, object, instance>>
      /\ bound' = Front(bound)
  BY DEF Unbind
<1>2. bound # <<>>
  <2>1. GoodStep(Current) /\ UsedBy(Current) = Innermost
    BY <1>1, TailLeads DEF IInv, StackOK, Current
  <2>2. Current.i # <<>> /\ UsedBy(Current) = Current.i
    BY <1>1, <2>1 DEF GoodStep, UsesMember, UsedBy
  <2> QED
    BY <2>1, <2>2 DEF Innermost
<1>3. bound' \in Seq(Paths)
  <2>1. bound \in Seq(Paths)
    BY DEF Typing
  <2>2. /\ Len(bound) \in Nat
        /\ Len(bound) > 0
    BY <1>2, <2>1, SeqFacts DEF IsSeq
  <2>3. 1 \in 1..Len(bound) + 1 /\ Len(bound) - 1 \in 0..Len(bound)
    BY <2>2
  <2> QED
    BY <1>1, <2>1, <2>2, <2>3, SubSeqProperties DEF Front
<1>4. /\ ObjectOK(object', root)
      /\ KeepsPointers(object, object', Current.o)
      /\ InstanceOK(instance', root)
      /\ root' = root
      /\ StepsIn(<<>>, Current.o)
      /\ CasesPending(object', <<>>)
  BY <1>1, SamePointers, NoStepIn DEF Typing
<1> QED
  BY <1>1, <1>3, <1>4, ContinueTyping

LEMMA UnwindTyping ==
  ASSUME Typing, Throw \/ Unwind
  PROVE  Typing'
BY NothingLeft, SetElsewhere DEF Throw, Unwind

LEMMA BetweenTyping ==
  ASSUME Typing, UNCHANGED <<root, bound>>, todo = <<>>, NEW steps, NEW p,
         StepsIn(steps, p), Passive(steps), todo' = steps,
         ObjectOK(object', root), InstanceOK(instance', root)
  PROVE  Typing'
<1>1. StepsOK(steps) /\ CasesPending(object', steps)
  BY PassivePending DEF StepsIn
<1>2. StepsOK(todo)' /\ CasesPending(object, todo)'
  BY <1>1 DEF StepsOK, StepOK, CasesPending
<1> QED
  BY <1>2 DEF Typing

LEMMA FreshOK ==
  ASSUME NEW s, NEW r, ObjectOK(s, r), NEW b \in BOOLEAN
  PROVE  ObjectOK([s EXCEPT !.fresh = b], r)
<1> DEFINE x == [s EXCEPT !.fresh = b]
<1>1. Shape(s) /\ \A t, p : Placed(r, t, p) => NodeOK(s, t, p)
  BY DEF ObjectOK
<1>2. /\ DOMAIN x = DOMAIN s
      /\ x.value = s.value
      /\ x.active_index_ = s.active_index_
      /\ x.caseptr_tuple_ = s.caseptr_tuple_
      /\ x.meant = s.meant
      /\ x.mixed = s.mixed
      /\ x.fresh = b
  BY <1>1 DEF Shape, GoodObject, ObjectFields
<1> HIDE DEF x
<1>3. Shape(x)
  BY <1>1, <1>2 DEF Shape, GoodObject
<1>4. ASSUME NEW t, NEW p, Placed(r, t, p)
      PROVE  NodeOK(x, t, p)
  <2>1. NodeOK(s, t, p)
    BY <1>1, <1>4
  <2>2. Keeps(s, x, t, p)
    BY <1>2 DEF Keeps, Alike, ActiveIndex, HasPointer
  <2> QED
    BY <2>1, <2>2, KeepsNode
<1>5. ObjectOK(x, r)
  BY <1>3, <1>4 DEF ObjectOK
<1> QED
  BY <1>5 DEF x

LEMMA CallTyping ==
  ASSUME IInv, Typing, Write \/ Read
  PROVE  Typing'
<1>1. /\ root \in Types
      /\ Kind[root] \in Aggregates
  BY DEF IInv, Aggregates
<1>2. Placed(root, root, <<>>) /\ Lies(root, root, <<>>)
  BY <1>1, PlacedTop, LiesTop
<1>3. PICK steps \in {SetMembers(root, <<>>, <<>>), GetMembers(root, <<>>, <<>>)} :
        todo' = steps
  BY DEF Write, Read
<1>4. StepsIn(steps, <<>>) /\ Passive(steps)
  BY <1>1, <1>2, <1>3, MemberStepsIn DEF SetMembers, GetMembers
<1>5. ObjectOK(object', root)
  <2>1. object' \in {object, [object EXCEPT !.fresh = FALSE]}
    BY DEF Write, Read
  <2> QED
    BY <2>1, FreshOK DEF Typing
<1>6. InstanceOK(instance', root)
  BY DEF Write, Read, Typing
<1>7. todo = <<>> /\ UNCHANGED <<root, bound>>
  BY DEF Write, Read, Idle
<1> QED
  BY <1>3, <1>4, <1>5, <1>6, <1>7, BetweenTyping

LEMMA IdleTyping ==
  ASSUME Typing, UNCHANGED <<root, todo, bound>>, todo = <<>>,
         ObjectOK(object', root), InstanceOK(instance', root)
  PROVE  Typing'
BY NothingLeft, BetweenTyping

LEMMA ChangeTyping ==
  ASSUME Typing, Idle, NEW s, ObjectOK(s, root), Change(s)
  PROVE  Typing'
<1>1. InstanceOK(instance', root) /\ ObjectOK(object', root)
  BY DEF Change, Typing
<1> QED
  BY <1>1, IdleTyping DEF Change, Idle

LEMMA AssignTyping ==
  ASSUME Typing, Idle, root \in Types, NEW n \in Nodes(object),
         NEW v \in Sizes(n.type), Assign(n, v)
  PROVE  Typing'
<1> DEFINE t == n.type
           w == Resized(object, n.path, v)
           b == w.fresh /\ Kind[t] = "range"
           s == [w EXCEPT !.fresh = b]
<1>1. Placed(root, t, n.path)
  <2>1. Numbers(object.value)
    BY DEF Typing, ObjectOK, Shape, GoodObject
  <2> QED
    BY <2>1, NodesPlaced
<1>2. t \in Types /\ v \in Nat
  BY <1>1, PlacedIsType, SizesAreNumbers
<1>3. Sized(t, v) /\ Kind[t] # "union"
  <2>1. CASE Kind[t] \in Leaves
    BY <2>1 DEF Sizes, Sized, Fits, Leaves, Aggregates
  <2>2. CASE Kind[t] \notin Leaves
    <3>1. /\ Kind[t] \in Aggregates \cup {"array", "union"} => v \in {}
          /\ Kind[t] \in {"optional", "smart_ptr"} => v \in {0, 1}
      BY <2>2 DEF Sizes, Leaves, Aggregates
    <3> QED
      BY <2>2, <3>1 DEF Sized, Fits
  <2> QED
    BY <2>1, <2>2
<1>4. ObjectOK(w, root)
  BY <1>1, <1>2, <1>3, ResizedOK DEF Typing
<1>5. b \in BOOLEAN
  OBVIOUS
<1>6. Change(s)
  BY DEF Assign
<1> HIDE DEF w, b
<1>7. ObjectOK(s, root)
  BY <1>4, <1>5, FreshOK
<1> HIDE DEF s
<1> QED
  BY <1>6, <1>7, ChangeTyping

LEMMA UseUnionTyping ==
  ASSUME Typing, Idle, root \in Types, NEW n \in Nodes(object),
         Kind[n.type] = "union", UseUnion(n.type, n.path)
  PROVE  Typing'
<1> DEFINE t == n.type
           o == n.path
<1>1. Placed(root, t, o)
  <2>1. Numbers(object.value)
    BY DEF Typing, ObjectOK, Shape, GoodObject
  <2> QED
    BY <2>1, NodesPlaced
<1>2. 1 \in 1..NCases(t)
  BY <1>1, PlacedIsType, TypesAreAdapted DEF NCases
<1>3. ObjectOK(object, root)
  BY DEF Typing
<1>4. AreCases(t, {})
  BY DEF AreCases
<1>5. CASE \E c \in 1..NCases(t) : Change(AssignVariant(object, t, o, c))
  <2>1. PICK c \in 1..NCases(t) : Change(AssignVariant(object, t, o, c))
    BY <1>5
  <2>2. ObjectOK(AssignVariant(object, t, o, c), root)
    BY <1>1, <1>3, <1>4, UnionOperationsOK
  <2> QED
    BY <2>1, <2>2, ChangeTyping
<1>6. CASE \E c \in 1..NCases(t) : \E a \in -1..NCases(t) - 1 :
             Change(AssignCase(object, t, o, c, a))
  <2>1. PICK c \in 1..NCases(t), a \in -1..NCases(t) - 1 :
          Change(AssignCase(object, t, o, c, a))
    BY <1>6
  <2>2. ObjectOK(AssignCase(object, t, o, c, a), root)
    BY <1>1, <1>3, <1>4, UnionOperationsOK
  <2> QED
    BY <2>1, <2>2, ChangeTyping
<1>7. CASE \E c \in 1..NCases(t) : \E P \in SUBSET (1..NCases(t)) :
             c \in P /\ Change(SetCaseptrTupleForWriting(object, t, o, P, c))
  <2>1. PICK c \in 1..NCases(t), P \in SUBSET (1..NCases(t)) :
          c \in P /\ Change(SetCaseptrTupleForWriting(object, t, o, P, c))
    BY <1>7
  <2>2. AreCases(t, P)
    BY DEF AreCases
  <2>3. ObjectOK(SetCaseptrTupleForWriting(object, t, o, P, c), root)
    BY <1>1, <1>3, <2>1, <2>2, UnionOperationsOK
  <2> QED
    BY <2>1, <2>3, ChangeTyping
<1>8. CASE \E P \in SUBSET (1..NCases(t)) :
             Change(SetCaseptrTupleForReading(object, t, o, P))
  <2>1. PICK P \in SUBSET (1..NCases(t)) :
          Change(SetCaseptrTupleForReading(object, t, o, P))
    BY <1>8
  <2>2. AreCases(t, P)
    BY DEF AreCases
  <2>3. ObjectOK(SetCaseptrTupleForReading(object, t, o, P), root)
    BY <1>1, <1>2, <1>3, <2>2, UnionOperationsOK
  <2> QED
    BY <2>1, <2>3, ChangeTyping
<1>9. CASE Change(ResetCaseptrTuple(object, o))
  <2>1. ObjectOK(ResetCaseptrTuple(object, o), root)
    BY <1>1, <1>2, <1>3, <1>4, UnionOperationsOK
  <2> QED
    BY <1>9, <2>1, ChangeTyping
<1> QED
  BY <1>5, <1>6, <1>7, <1>8, <1>9 DEF UseUnion

LEMMA InitTyping == Init => Typing
<1> SUFFICES ASSUME Init
             PROVE  Typing
  OBVIOUS
<1>1. StepsOK(<<>>) /\ CasesPending(object, <<>>)
  BY NoStepIn DEF StepsIn
<1>2. ObjectOK(object, root) /\ InstanceOK(instance, root)
  BY DefaultOK, EmptyInstanceOK DEF Init
<1> QED
  BY <1>1, <1>2 DEF Init, Typing

LEMMA StepTyping == IInv /\ Typing /\ [Next]_vars => Typing'
<1> SUFFICES ASSUME IInv, Typing, [Next]_vars
             PROVE  Typing'
  OBVIOUS
<1>1. CASE Write \/ Read
  BY <1>1, CallTyping
<1>2. CASE SetMember
  BY <1>2, SetMemberTyping
<1>3. CASE GetMember
  BY <1>3, GetMemberTyping
<1>4. CASE Unbind
  BY <1>4, UnbindTyping
<1>5. CASE Throw \/ Unwind
  BY <1>5, UnwindTyping
<1>6. CASE Return
  <2>1. ObjectOK(object', root) /\ InstanceOK(instance', root)
    BY <1>6 DEF Return, Typing
  <2> QED
    BY <1>6, <2>1, IdleTyping DEF Return
<1>7. CASE NewInstance
  <2>1. ObjectOK(object', root) /\ InstanceOK(instance', root)
    BY <1>7, EmptyInstanceOK DEF NewInstance, Typing
  <2> QED
    BY <1>7, <2>1, IdleTyping DEF NewInstance, Idle
<1>8. CASE NewObject
  BY <1>8, DefaultOK, ChangeTyping DEF NewObject
<1>9. CASE Idle /\ \E n \in Nodes(object), t \in Types :
             /\ n.type = t
             /\ \/ \E v \in Sizes(t) : Assign(n, v)
                \/ Kind[t] = "union" /\ UseUnion(t, n.path)
  BY <1>9, AssignTyping, UseUnionTyping DEF IInv
<1>10. CASE UNCHANGED vars
  <2>1. UNCHANGED <<root, object, instance, todo, bound>>
    BY <1>10 DEF vars
  <2> QED
    BY <2>1 DEF Typing, StepsOK, StepOK, CasesPending
<1> QED
  BY <1>1, <1>2, <1>3, <1>4, <1>5, <1>6, <1>7, <1>8, <1>9, <1>10 DEF Next

-----------------------------------------------------------------------------
(* The history of calls.                                                   *)

CallOK ==
  /\ root \in Roots
  /\ call \in [what : {"none", "write", "read"}, fresh : BOOLEAN,
               ended : {"running", "returned", "thrown"}]
  /\ DOMAIN message = {"written", "whole", "blank", "mixed"}
  /\ message.whole \in BOOLEAN
  /\ message.blank \in BOOLEAN
  /\ message.mixed \in BOOLEAN

LEMMA InitCall == Init => CallOK
BY DEF Init, CallOK, NoCall, NoMessage

(* Overloads and destructors do not change it.                             *)
LEMMA QuietCall ==
  ASSUME CallOK, UNCHANGED <<root, call, message>>
  PROVE  CallOK'
BY DEF CallOK

LEMMA StepCall == Typing /\ CallOK /\ [Next]_vars => CallOK'
<1> SUFFICES ASSUME Typing, CallOK, [Next]_vars
             PROVE  CallOK'
  OBVIOUS
<1>1. object.mixed \in BOOLEAN /\ object.fresh \in BOOLEAN
  BY DEF Typing, ObjectOK, Shape
<1>2. CASE Write
  BY <1>1, <1>2 DEF Write, CallOK
<1>3. CASE Read
  BY <1>1, <1>3 DEF Read, CallOK
<1>4. CASE SetMember
  <2>1. UNCHANGED <<root, call, message>>
    BY <1>4
       DEF SetMember, SetPrimitive, SetString, SetEnum, SetBase, SetStruct,
           SetSparse, SetPrimitiveSequence, SetVector, SetPrimitiveRange,
           SetPrimitiveArray, SetSequence, SetRange, SetArray, SetOptional,
           SetSmartPtr, SetUnion, SetUnionCase, SetLeaf, SetAll, SetElements,
           Set, BindToSet
  <2> QED
    BY <2>1, QuietCall
<1>5. CASE GetMember
  <2>1. UNCHANGED <<root, call, message>>
    BY <1>5
       DEF GetMember, GetPrimitive, GetString, GetEnum, GetBase, GetStruct,
           GetSparse, GetPrimitiveSequence, GetVector, GetPrimitiveRange,
           GetPrimitiveArray, GetSequence, GetRange, GetArray, GetOptional,
           GetSmartPtr, GetUnion, GetUnionCase, Activate, GetLeaf, GetAll,
           Get, BindToGet
  <2> QED
    BY <2>1, QuietCall
<1>6. CASE Unbind \/ Unwind
  BY <1>6, QuietCall DEF Unbind, Unwind
<1>7. CASE Throw
  BY <1>7 DEF Throw, CallOK, NoMessage
<1>8. CASE Return
  BY <1>8 DEF Return, CallOK
<1>9. CASE NewInstance
  BY <1>9 DEF NewInstance, CallOK, NoCall, NoMessage
<1>10. CASE \E s : Change(s)
  BY <1>10 DEF Change, CallOK, NoCall
<1>11. CASE UNCHANGED vars
  BY <1>11, QuietCall DEF vars
<1>12. NewObject => \E s : Change(s)
  BY DEF NewObject
<1>13. ASSUME NEW n, NEW v, Assign(n, v)
       PROVE  \E s : Change(s)
  BY <1>13 DEF Assign
<1>14. ASSUME NEW t, NEW o, UseUnion(t, o)
       PROVE  \E s : Change(s)
  BY <1>14 DEF UseUnion
<1> QED
  BY <1>2, <1>3, <1>4, <1>5, <1>6, <1>7, <1>8, <1>9, <1>10, <1>11, <1>12,
     <1>13, <1>14 DEF Next

-----------------------------------------------------------------------------
(* What follows from it.                                                   *)

LEMMA TypingImpliesTypeOK == IInv /\ Typing /\ CallOK => TypeOK
<1> SUFFICES ASSUME IInv, Typing, CallOK
             PROVE  TypeOK
  OBVIOUS
<1>1. /\ root \in Roots
      /\ call \in [what : {"none", "write", "read"}, fresh : BOOLEAN,
                   ended : {"running", "returned", "thrown"}]
      /\ message.whole \in BOOLEAN
      /\ message.blank \in BOOLEAN
      /\ message.mixed \in BOOLEAN
  BY DEF CallOK
<1>2. Shape(object) /\ DOMAIN instance \subseteq Paths
  BY DEF Typing, ObjectOK, InstanceOK
<1>3. /\ DOMAIN object.value \subseteq Paths
      /\ DOMAIN object.active_index_ \subseteq Paths
      /\ DOMAIN object.meant \subseteq Paths
      /\ object.caseptr_tuple_ \subseteq Paths
      /\ object.mixed \in BOOLEAN
      /\ object.fresh \in BOOLEAN
  BY <1>2 DEF Shape
<1>4. ASSUME NEW n \in Nodes(object), Kind[n.type] \in Leaves
      PROVE  At(object.value, n.path) \in Values[n.type] \cup {0}
  <2>1. Placed(root, n.type, n.path)
    BY <1>2, NodesPlaced DEF IInv, Shape, GoodObject
  <2>2. Fits(n.type, At(object.value, n.path))
    BY <2>1 DEF Typing, ObjectOK, NodeOK, Sized
  <2> QED
    BY <1>4, <2>2 DEF Fits
<1>5. todo \in Seq([op : Ops, type : Types, o : Paths, i : Paths,
                    case : BOOLEAN])
  BY DEF Typing, StepsOK, Steps
<1>6. bound \in Seq(Paths)
  BY DEF Typing
<1> QED
  BY <1>1, <1>2, <1>3, <1>4, <1>5, <1>6 DEF TypeOK

LEMMA TypingImpliesUnionTruth == IInv /\ Typing => UnionTruth
<1> SUFFICES ASSUME IInv, Typing, ~object.mixed, NEW n \in Nodes(object),
                    Kind[n.type] = "union",
                    ~SetUnionThrows(object, n.type, n.path)
             PROVE  object.meant[n.path] = CaseToSet(object, n.type, n.path)
  BY DEF UnionTruth
<1>1. Numbers(object.value)
  BY DEF Typing, ObjectOK, Shape, GoodObject
<1>2. Placed(root, n.type, n.path) /\ n.type \in Types
  BY <1>1, NodesPlaced, PlacedIsType DEF IInv
<1>3. UnionOK(object, n.type, n.path)
  BY <1>2 DEF Typing, ObjectOK, NodeOK
<1> QED
  BY <1>2, <1>3, UnionWritesItsMeaning

-----------------------------------------------------------------------------
(* Objects and instances hold values of their types only, at any place a   *)
(* conversion of any of the Roots can reach, and every step left to do is  *)
(* for a member that is there: in whatever order the overloads write into  *)
(* an object and a DDS_DynamicData that were used before, throw, or are    *)
(* unwound.                                                                *)
THEOREM ConversionIsTyped == Spec => []TypeOK
<1>1. Init => IInv /\ Typing /\ CallOK
  BY InitInvariant, InitTyping, InitCall
<1>2. (IInv /\ Typing /\ CallOK) /\ [Next]_vars => (IInv /\ Typing /\ CallOK)'
  BY StepInvariant, StepTyping, StepCall
<1> QED
  BY <1>1, <1>2, TypingImpliesTypeOK, PTL DEF Spec

(* As long as no union was mixed, a union that is written writes the case  *)
(* that was last put into it: match::Union::set_union visits the right     *)
(* case or throws, whatever active_index_ was left behind.                 *)
THEOREM UnionsWriteWhatWasMeant == Spec => []UnionTruth
<1>1. Init => IInv /\ Typing
  BY InitInvariant, InitTyping
<1>2. (IInv /\ Typing) /\ [Next]_vars => (IInv /\ Typing)'
  BY StepInvariant, StepTyping
<1> QED
  BY <1>1, <1>2, TypingImpliesUnionTruth, PTL DEF Spec

LEMMA TypingImpliesReadsBack == Typing => UnionReadsBack
<1> SUFFICES ASSUME Typing, todo # <<>>, Current.op = "get_union",
                    LabelsTellApart(Current.type)
             PROVE  LET c == Selected(Current.type, Current.i)
                    IN CaseRead(Current) =
                         IF c # 0 /\ (Labels[Current.type][c] = <<>>
                                        => DefaultSurvives(Current.type))
                         THEN c ELSE 0
  BY DEF UnionReadsBack
<1> DEFINE t == Current.type
           c == Selected(t, Current.i)
<1>1. t \in Types /\ Kind[t] = "union"
  BY CurrentOK, PlacedIsType DEF StepOK
<1>2. CASE c = 0
  BY <1>2 DEF CaseRead
<1>3. CASE c # 0
  <2>1. c \in 1..NCases(t)
    BY <1>3, FirstOfIsIn DEF Selected
  <2>2. CaseRead(Current) =
          CaseToGet(t, IntCast(TagCast(t, Discriminator(t, c) % TagSize[t])))
    BY <1>3 DEF CaseRead, DiscriminatorValue, MemberId
  <2> HIDE DEF c
  <2> QED
    BY <1>1, <1>3, <2>1, <2>2, TagOfCase DEF c
<1> QED
  BY <1>2, <1>3

(* get_member_value of a union takes the case that was selected when it    *)
(* was written, whatever the width and the sign of its tag and the width   *)
(* of int, if its labels tell the cases apart; only the default case of a  *)
(* tag that is unsigned and narrower than an int is refused.               *)
THEOREM UnionsReadWhatWasWritten == Spec => []UnionReadsBack
<1>1. Init => IInv /\ Typing
  BY InitInvariant, InitTyping
<1>2. (IInv /\ Typing) /\ [Next]_vars => (IInv /\ Typing)'
  BY StepInvariant, StepTyping
<1> QED
  BY <1>1, <1>2, TypingImpliesReadsBack, PTL DEF Spec
=============================================================================
