-------------------------- MODULE EventContentProofs --------------------------
(***************************************************************************)
(* Proofs about EventContent, for values and variables of any depth and    *)
(* width: what the recursions of prepareContentVariable and                *)
(* contentVariableNeedsUpdate compute, and what follows for the content.   *)
(***************************************************************************)
EXTENDS EventContent, FiniteSetTheorems, SequenceTheorems, TLAPS

-----------------------------------------------------------------------------
(* Paths.                                                                  *)

\* The first k names of a path.
LEMMA Cut ==
  ASSUME NEW p \in Seq(Name), NEW k \in 0..Len(p)
  PROVE  /\ SubSeq(p, 1, k) \in Seq(Name) /\ Len(SubSeq(p, 1, k)) = k
         /\ \A i \in 1..k : SubSeq(p, 1, k)[i] = p[i]
<1>1. \A i \in 1..k : p[i] \in Name
  BY ElementOfSeq, LenProperties
<1>2. k \in Nat /\ (1 <= k => k - 1 + 1 = k)
  BY LenProperties
<1> QED BY <1>1, <1>2, SubSeqProperties

LEMMA CutNone ==
  ASSUME NEW p \in Seq(Name)
  PROVE  SubSeq(p, 1, 0) = <<>>
BY SubSeqEmpty

LEMMA CutCut ==
  ASSUME NEW p \in Seq(Name), NEW k \in 0..Len(p), NEW j \in 0..k
  PROVE  SubSeq(SubSeq(p, 1, k), 1, j) = SubSeq(p, 1, j)
<1> DEFINE q == SubSeq(p, 1, k)
           a == SubSeq(q, 1, j)
           b == SubSeq(p, 1, j)
<1>1. /\ q \in Seq(Name) /\ Len(q) = k /\ \A i \in 1..k : q[i] = p[i]
      /\ j \in 0..Len(q) /\ j \in 0..Len(p) /\ Len(p) \in Nat
  BY Cut, LenProperties
<1>2. a \in Seq(Name) /\ Len(a) = j /\ \A i \in 1..j : a[i] = q[i]
  BY <1>1, Cut
<1>3. b \in Seq(Name) /\ Len(b) = j /\ \A i \in 1..j : b[i] = p[i]
  BY <1>1, Cut
<1> HIDE DEF q, a, b
<1>4. \A i \in 1..Len(a) : a[i] = b[i]
  BY <1>1, <1>2, <1>3
<1>5. a = b
  BY <1>2, <1>3, <1>4, SeqEqual
<1> QED BY <1>5 DEF a, b, q

\* A path has one path of each smaller length above it.
LEMMA AboveOK ==
  ASSUME NEW p \in Seq(Name)
  PROVE  /\ Len(p) \in Nat
         /\ \A a \in Above(p) :
              /\ a \in Seq(Name) /\ Len(a) \in Nat /\ Len(a) < Len(p)
              /\ a = SubSeq(p, 1, Len(a))
         /\ \A k \in 0..Len(p) - 1 : SubSeq(p, 1, k) \in Above(p)
         /\ p # <<>> => <<>> \in Above(p)
         /\ Above(<<>>) = {}
<1>1. Len(p) \in Nat /\ (p # <<>> => Len(p) > 0)
  BY EmptySeq, LenProperties
<1>2. ASSUME NEW a \in Above(p)
      PROVE  a \in Seq(Name) /\ Len(a) \in Nat /\ Len(a) < Len(p) /\ a = SubSeq(p, 1, Len(a))
  <2>1. PICK k \in 0..Len(p) - 1 : a = SubSeq(p, 1, k)
    BY DEF Above
  <2> QED BY <1>1, <2>1, Cut
<1>3. \A k \in 0..Len(p) - 1 : SubSeq(p, 1, k) \in Above(p)
  BY DEF Above
<1>4. p # <<>> => <<>> \in Above(p)
  <2>1. 0 \in 0..Len(p) - 1 \/ p = <<>>
    BY <1>1
  <2> QED BY <1>3, <2>1, CutNone
<1>5. Above(<<>>) = {}
  BY EmptySeq DEF Above
<1> QED BY <1>1, <1>2, <1>3, <1>4, <1>5

\* The paths above p are ordered.
LEMMA AboveOrder ==
  ASSUME NEW p \in Seq(Name), NEW a \in Above(p), NEW b \in Seq(Name)
  PROVE  /\ b \in Above(a) => b \in Above(p)
         /\ b \in Above(p) /\ Len(b) < Len(a) => b \in Above(a)
         /\ b \in Above(p) /\ Len(b) = Len(a) => b = a
<1>1. /\ a \in Seq(Name) /\ Len(a) \in Nat /\ Len(a) < Len(p) /\ Len(p) \in Nat
      /\ a = SubSeq(p, 1, Len(a)) /\ Len(b) \in Nat
  BY AboveOK, LenProperties
<1>2. ASSUME b \in Above(a) PROVE b \in Above(p)
  <2>1. Len(b) < Len(a) /\ b = SubSeq(a, 1, Len(b))
    BY <1>1, <1>2, AboveOK
  <2>2. Len(b) \in 0..Len(a) /\ Len(a) \in 0..Len(p) /\ Len(b) \in 0..Len(p) - 1
    BY <1>1, <2>1
  <2>3. b = SubSeq(p, 1, Len(b))
    BY <1>1, <2>1, <2>2, CutCut
  <2> QED BY <2>2, <2>3, AboveOK
<1>3. ASSUME b \in Above(p), Len(b) < Len(a) PROVE b \in Above(a)
  <2>1. b = SubSeq(p, 1, Len(b))
    BY <1>3, AboveOK
  <2>2. Len(b) \in 0..Len(a) /\ Len(a) \in 0..Len(p) /\ Len(b) \in 0..Len(a) - 1
    BY <1>1, <1>3
  <2>3. b = SubSeq(a, 1, Len(b))
    BY <1>1, <2>1, <2>2, CutCut
  <2> QED BY <1>1, <2>2, <2>3, AboveOK
<1>4. ASSUME b \in Above(p), Len(b) = Len(a) PROVE b = a
  BY <1>1, <1>4, AboveOK
<1> QED BY <1>2, <1>3, <1>4

\* Whatever is below p is, or is below, a path with one name more than p.
LEMMA ChildBetween ==
  ASSUME NEW q \in Seq(Name), NEW p \in Above(q)
  PROVE  \E c \in Seq(Name) :
           /\ Len(c) = Len(p) + 1 /\ p \in Above(c)
           /\ c = q \/ c \in Above(q)
<1>1. /\ p \in Seq(Name) /\ Len(p) \in Nat /\ Len(p) < Len(q) /\ Len(q) \in Nat
  BY AboveOK
<1>2. CASE Len(q) = Len(p) + 1
  BY <1>2
<1>3. CASE Len(q) # Len(p) + 1
  <2> DEFINE c == SubSeq(q, 1, Len(p) + 1)
  <2>1. Len(p) + 1 \in 0..Len(q) /\ Len(p) + 1 \in 0..Len(q) - 1
    BY <1>1, <1>3
  <2>2. c \in Seq(Name) /\ Len(c) = Len(p) + 1 /\ c \in Above(q)
    BY <2>1, Cut, AboveOK
  <2> HIDE DEF c
  <2>3. p \in Above(c)
    <3>1. Len(p) < Len(c)
      BY <1>1, <2>2
    <3> QED BY <1>1, <2>2, <3>1, AboveOrder
  <2> QED BY <2>2, <2>3
<1> QED BY <1>2, <1>3

-----------------------------------------------------------------------------
(* Induction over trees: of any paths of a finite tree one has none of them *)
(* below it.                                                               *)

LEMMA Deepest ==
  ASSUME NEW B, B \subseteq Seq(Name), IsFiniteSet(B), B # {}
  PROVE  \E p \in B : \A q \in B : p \notin Above(q)
<1> DEFINE Deeper(p) == {q \in B : p \in Above(q)}
           T == {Deeper(p) : p \in B}
<1>1. T \subseteq FiniteSubsetsOf(B) /\ T # {}
  <2>1. ASSUME NEW p \in B PROVE Deeper(p) \subseteq B /\ IsFiniteSet(Deeper(p))
    <3>1. Deeper(p) \subseteq B
      OBVIOUS
    <3> HIDE DEF Deeper
    <3> QED BY <3>1, FS_Subset
  <2> HIDE DEF Deeper
  <2> QED BY <2>1 DEF FiniteSubsetsOf
<1>2. PICK G \in T : \A H \in T : <<H, G>> \notin StrictSubsetOrdering(B)
  <2> HIDE DEF T
  <2> QED BY <1>1, FS_StrictSubsetOrderingWellFounded, WFMin
<1>3. PICK p \in B : G = Deeper(p)
  OBVIOUS
<1>4. ASSUME NEW q \in B, p \in Above(q) PROVE FALSE
  <2>1. Deeper(q) \in T /\ Deeper(q) \subseteq B /\ G \subseteq B
    BY <1>3
  <2>2. \A r \in Deeper(q) : r \in G
    BY <1>3, <1>4, AboveOrder
  <2>3. q \in G /\ q \notin Deeper(q)
    BY <1>3, <1>4, AboveOK
  <2>4. <<Deeper(q), G>> \in StrictSubsetOrdering(B)
    <3>1. IsFiniteSet(G) /\ IsFiniteSet(Deeper(q))
      BY <1>1, <2>1 DEF FiniteSubsetsOf
    <3> HIDE DEF Deeper
    <3> QED BY <2>1, <2>2, <2>3, <3>1 DEF StrictSubsetOrdering, FiniteSubsetsOf
  <2> QED BY <1>2, <2>1, <2>4
<1> QED BY <1>4

-----------------------------------------------------------------------------
(* prepareContentVariable.                                                 *)

\* The content that a device type can have.
IsContent(cv) == cv = Nothing \/ IsVariable(cv)

\* What trees have to offer.
LEMMA ValueOK ==
  ASSUME NEW t, IsValue(t)
  PROVE  /\ DOMAIN t \subseteq Seq(Name) /\ IsFiniteSet(DOMAIN t)
         /\ <<>> \in DOMAIN t
         /\ \A p \in DOMAIN t : t[p] \in Type \cup {Null}
         /\ \A p \in DOMAIN t : \A a \in Above(p) : a \in DOMAIN t /\ t[a] \in Nested
BY DEF IsValue

LEMMA ContentOK ==
  ASSUME NEW cv, IsContent(cv)
  PROVE  /\ DOMAIN cv \subseteq Seq(Name) /\ IsFiniteSet(DOMAIN cv)
         /\ \A p \in DOMAIN cv :
              /\ cv[p] \in [type : Type, note : BOOLEAN]
              /\ \A a \in Above(p) : a \in DOMAIN cv /\ cv[a].type \in Nested
<1>1. CASE cv = Nothing
  BY <1>1, FS_EmptySet DEF Nothing
<1>2. CASE IsVariable(cv)
  <2> DEFINE t == [p \in DOMAIN cv |-> cv[p].type]
  <2>1. IsValue(t) /\ DOMAIN t = DOMAIN cv
    BY <1>2 DEF IsVariable
  <2>2. \A p \in DOMAIN cv : \A a \in Above(p) : a \in DOMAIN cv /\ t[a] \in Nested
    <3> HIDE DEF t
    <3> QED BY <2>1, ValueOK
  <2>3. DOMAIN cv \subseteq Seq(Name) /\ IsFiniteSet(DOMAIN cv)
    <3> HIDE DEF t
    <3> QED BY <2>1, ValueOK
  <2> QED BY <1>2, <2>2, <2>3 DEF IsVariable
<1> QED BY <1>1, <1>2 DEF IsContent

LEMMA Types ==
  /\ Null \notin Nested /\ None \notin Nested /\ Nested \subseteq Type
  /\ \A t \in Type \cup {Null} : /\ Infer(t) # None <=> t # Null
                                 /\ Infer(t) \in Nested <=> t \in Nested
                                 /\ t # Null => Infer(t) = t
BY NullAssumption DEF Infer, Type

\* The paths that the merge should leave.
Left(val, base) ==
  {p \in DOMAIN val \cup DOMAIN base : Describes(val, p) \/ Keeps(val, base, p)}

\* One call of prepareContentVariable, its recursive calls given.
Given(val, p) == {c \in Children(val, p) : Infer(val[c]) # None}
Kept(val, base, p) ==
  IF Infer(val[p]) \in Nested THEN Children(base, p) \ Children(val, p) ELSE {}
Call(val, base, f) ==
  [p \in DOMAIN val |->
     {p} \cup (UNION {f[c] : c \in Given(val, p)})
         \cup {q \in DOMAIN base :
                 q \in Kept(val, base, p) \/ \E c \in Kept(val, base, p) : c \in Above(q)}]
Below(val, base) ==
  [p \in DOMAIN val |-> {p} \cup {q \in Left(val, base) : p \in Above(q)}]

LEMMA CallBelow ==
  ASSUME NEW val, IsValue(val), NEW base, IsContent(base)
  PROVE  Below(val, base) = Call(val, base, Below(val, base))
<1> DEFINE W == Below(val, base)
           L == Left(val, base)
           R(p) == {p} \cup (UNION {W[c] : c \in Given(val, p)})
                       \cup {q \in DOMAIN base :
                               \/ q \in Kept(val, base, p)
                               \/ \E c \in Kept(val, base, p) : c \in Above(q)}
<1>a. /\ DOMAIN val \subseteq Seq(Name) /\ DOMAIN base \subseteq Seq(Name)
      /\ \A p \in DOMAIN val : val[p] \in Type \cup {Null}
      /\ \A p \in DOMAIN val : \A a \in Above(p) : a \in DOMAIN val /\ val[a] \in Nested
      /\ \A p \in DOMAIN base : \A a \in Above(p) : a \in DOMAIN base
  BY ValueOK, ContentOK
<1>b. \A p \in DOMAIN val : W[p] = {p} \cup {q \in L : p \in Above(q)}
  BY DEF Below
<1> SUFFICES ASSUME NEW p \in DOMAIN val PROVE W[p] = R(p)
  BY DEF Below, Call
<1>1. ASSUME NEW c \in Given(val, p), NEW q \in W[c] PROVE q \in W[p]
  <2>1. c \in DOMAIN val /\ p \in Above(c) /\ val[c] # Null /\ c \in L
    BY <1>1, <1>a, Types DEF Given, Children, Left, Describes
  <2>2. q = c \/ (q \in L /\ c \in Above(q))
    BY <1>b, <1>1, <2>1
  <2>3. CASE q = c
    BY <1>b, <2>1, <2>3
  <2>4. CASE q \in L /\ c \in Above(q)
    <3>1. q \in Seq(Name) /\ p \in Seq(Name)
      BY <1>a, <2>4 DEF Left
    <3>2. p \in Above(q)
      BY <2>1, <2>4, <3>1, AboveOrder
    <3> QED BY <1>b, <2>4, <3>2
  <2> QED BY <2>2, <2>3, <2>4
<1>2. ASSUME NEW c \in Kept(val, base, p), NEW q \in DOMAIN base, q = c \/ c \in Above(q)
      PROVE  q \in W[p]
  <2>1. /\ c \in DOMAIN base /\ c \notin DOMAIN val /\ p \in Above(c)
        /\ Len(c) = Len(p) + 1 /\ val[p] \in Nested
    BY <1>2, <1>a, Types DEF Kept, Children
  <2>2. q \in Seq(Name) /\ c \in Seq(Name) /\ p \in Seq(Name) /\ Len(p) \in Nat
    BY <1>a, <2>1, LenProperties
  <2>3. p \in Above(q)
    BY <1>2, <2>1, <2>2, AboveOrder
  <2>4. q \notin DOMAIN val
    BY <1>2, <1>a, <2>1
  <2>5. ASSUME NEW a \in Above(q), a \in DOMAIN val PROVE val[a] \in Nested
    <3>1. a \in Seq(Name) /\ Len(a) \in Nat
      BY <1>a, <2>5, LenProperties
    <3>2. ~(c \in Above(a)) /\ a # c
      BY <1>a, <2>1, <2>5
    <3>3. ~(Len(c) < Len(a)) /\ Len(a) # Len(c)
      <4>1. CASE q = c
        BY <2>2, <2>5, <4>1, AboveOK
      <4>2. CASE c \in Above(q)
        BY <2>2, <2>5, <3>1, <3>2, <4>2, AboveOrder
      <4> QED BY <1>2, <4>1, <4>2
    <3>4. Len(a) < Len(p) \/ Len(a) = Len(p)
      BY <2>1, <2>2, <3>1, <3>3
    <3>5. a = p \/ a \in Above(p)
      BY <2>2, <2>3, <2>5, <3>1, <3>4, AboveOrder
    <3> QED BY <1>a, <2>1, <3>5
  <2>6. q \in L
    BY <2>4, <2>5 DEF Left, Keeps, Overruled
  <2> QED BY <1>b, <2>3, <2>6
<1>3. ASSUME NEW q \in L, p \in Above(q) PROVE q \in R(p)
  <2>1. q \in Seq(Name) /\ p \in Seq(Name)
    BY <1>a DEF Left
  <2>2. PICK c \in Seq(Name) : /\ Len(c) = Len(p) + 1 /\ p \in Above(c)
                               /\ c = q \/ c \in Above(q)
    BY <1>3, <2>1, ChildBetween
  <2>3. ASSUME c \in DOMAIN val, val[c] # Null PROVE q \in R(p)
    <3>1. c \in Given(val, p)
      BY <1>a, <2>2, <2>3, Types DEF Given, Children
    <3>2. q \in W[c]
      BY <1>b, <2>2, <2>3
    <3> QED BY <3>1, <3>2
  <2>4. CASE Describes(val, q)
    <3>1. c \in DOMAIN val /\ val[c] # Null
      BY <1>a, <2>2, <2>4, Types DEF Describes
    <3> QED BY <2>3, <3>1
  <2>5. CASE Keeps(val, base, q) /\ c \in DOMAIN val
    <3>1. c # q /\ val[c] \in Nested
      BY <2>2, <2>5 DEF Keeps, Overruled
    <3> QED BY <2>3, <2>5, <3>1, Types
  <2>6. CASE Keeps(val, base, q) /\ c \notin DOMAIN val
    <3>1. val[p] \in Nested /\ q \in DOMAIN base /\ c \in DOMAIN base
      BY <1>3, <1>a, <2>2, <2>6 DEF Keeps, Overruled
    <3>2. c \in Kept(val, base, p)
      BY <1>a, <2>2, <2>6, <3>1, Types DEF Kept, Children
    <3> HIDE DEF W
    <3>3. q \in {r \in DOMAIN base : \/ r \in Kept(val, base, p)
                                  \/ \E d \in Kept(val, base, p) : d \in Above(r)}
      BY <2>2, <3>1, <3>2
    <3> QED BY <3>3
  <2> QED BY <2>4, <2>5, <2>6 DEF Left
<1>4. ASSUME NEW q \in R(p) PROVE q \in W[p]
  <2>1. p \in W[p]
    BY <1>b
  <2> HIDE DEF W
  <2>2. CASE \E c \in Given(val, p) : q \in W[c]
    BY <1>1, <2>2
  <2>3. CASE q \in DOMAIN base /\ \E c \in Kept(val, base, p) : q = c \/ c \in Above(q)
    BY <1>2, <2>3
  <2> QED BY <1>4, <2>1, <2>2, <2>3
<1>5. \A q \in W[p] : q \in R(p)
  BY <1>b, <1>3
<1> HIDE DEF R, W
<1> QED BY <1>4, <1>5

\* The recursion has no other solution, as no value is infinitely deep.
LEMMA CallUnique ==
  ASSUME NEW val, IsValue(val), NEW base, NEW f, NEW g,
         f = Call(val, base, f), g = Call(val, base, g)
  PROVE  f = g
<1> DEFINE Wrong == {p \in DOMAIN val : f[p] # g[p]}
<1>a. DOMAIN val \subseteq Seq(Name) /\ IsFiniteSet(DOMAIN val)
  BY ValueOK
<1>1. ASSUME Wrong # {} PROVE FALSE
  <2>1. Wrong \subseteq Seq(Name) /\ IsFiniteSet(Wrong)
    <3>1. Wrong \subseteq DOMAIN val
      OBVIOUS
    <3> HIDE DEF Wrong
    <3> QED BY <1>a, <3>1, FS_Subset
  <2>2. PICK p \in Wrong : \A q \in Wrong : p \notin Above(q)
    <3> HIDE DEF Wrong
    <3> QED BY <1>1, <2>1, Deepest
  <2>3. \A c \in Given(val, p) : f[c] = g[c]
    BY <2>2 DEF Given, Children
  <2>4. {f[c] : c \in Given(val, p)} = {g[c] : c \in Given(val, p)}
    BY <2>3
  <2>5. Call(val, base, f)[p] = Call(val, base, g)[p]
    BY <2>2, <2>4 DEF Call
  <2> QED BY <2>2, <2>5
<1>2. f = [p \in DOMAIN val |-> f[p]] /\ g = [p \in DOMAIN val |-> g[p]]
  BY DEF Call
<1> QED BY <1>1, <1>2

\* However prepareContentVariable runs through the value, it ends up with the
\* paths that the definition without recursion has.
LEMMA VariablesLeft ==
  ASSUME NEW val, IsValue(val), val[<<>>] # Null, NEW base, IsContent(base)
  PROVE  Variables(val, base, Nested) = Left(val, base)
<1> DEFINE P(f) == f = [p \in DOMAIN val |->
                LET given == {c \in Children(val, p) : Infer(val[c]) # None}
                    kept == IF Infer(val[p]) \in Nested
                            THEN Children(base, p) \ Children(val, p) ELSE {}
                IN {p} \cup (UNION {f[c] : c \in given})
                       \cup {q \in DOMAIN base : q \in kept \/ \E c \in kept : c \in Above(q)}]
           r == CHOOSE f : P(f)
           W == Below(val, base)
<1>1. \A f : P(f) <=> f = Call(val, base, f)
  BY DEF Call, Given, Kept
<1>2. Variables(val, base, Nested) = r[<<>>]
  BY Zenon DEF Variables
<1>3. P(W)
  BY <1>1, CallBelow
<1>4. P(r)
  <2> HIDE DEF P
  <2> QED BY <1>3, Zenon
<1>5. r = W
  <2> HIDE DEF P, r, W
  <2>1. r = Call(val, base, r) /\ W = Call(val, base, W)
    BY <1>1, <1>3, <1>4
  <2> QED BY <2>1, CallUnique
<1>6. <<>> \in DOMAIN val /\ DOMAIN val \subseteq Seq(Name) /\ DOMAIN base \subseteq Seq(Name)
  BY ValueOK, ContentOK
<1>7. W[<<>>] = {<<>>} \cup {q \in Left(val, base) : <<>> \in Above(q)}
  BY <1>6 DEF Below
<1>8. <<>> \in Left(val, base)
  BY <1>6 DEF Left, Describes
<1>9. \A q \in Left(val, base) : q = <<>> \/ <<>> \in Above(q)
  BY <1>6, AboveOK DEF Left
<1> HIDE DEF P, r, W
<1> QED BY <1>2, <1>5, <1>7, <1>8, <1>9

\* What an event makes of the variables that are known, for all values and
\* variables: prepareContentVariable computes what the definition of Learned
\* says path by path.
THEOREM PrepareCorrect ==
  ASSUME NEW val, IsValue(val), val[<<>>] # Null, NEW base, IsContent(base)
  PROVE  Learned(val, base, Prepare(val, base))
<1>1. Variables(val, base, Nested) = Left(val, base)
  BY VariablesLeft
<1>2. \A p \in Left(val, base) : p \in DOMAIN val => Infer(val[p]) = val[p]
  BY ValueOK, Types DEF Left, Describes, Keeps
<1> QED BY <1>1, <1>2 DEF Prepare, Merged, Learned, Left

\* The result is again a finite tree in which scalars have none below them.
LEMMA PrepareType ==
  ASSUME NEW val, IsValue(val), val[<<>>] # Null, NEW base, IsContent(base)
  PROVE  IsVariable(Prepare(val, base))
<1> DEFINE cv == Prepare(val, base)
           t == [p \in DOMAIN cv |-> cv[p].type]
<1>a. /\ DOMAIN val \subseteq Seq(Name) /\ IsFiniteSet(DOMAIN val)
      /\ <<>> \in DOMAIN val
      /\ \A p \in DOMAIN val : val[p] \in Type \cup {Null}
      /\ \A p \in DOMAIN val : \A a \in Above(p) : a \in DOMAIN val /\ val[a] \in Nested
  BY ValueOK
<1>b. /\ DOMAIN base \subseteq Seq(Name) /\ IsFiniteSet(DOMAIN base)
      /\ \A p \in DOMAIN base :
           /\ base[p] \in [type : Type, note : BOOLEAN]
           /\ \A a \in Above(p) : a \in DOMAIN base /\ base[a].type \in Nested
  BY ContentOK
<1>c. Learned(val, base, cv) /\ Null \notin Nested
  BY PrepareCorrect, Types
<1>d. cv = [p \in DOMAIN cv |-> cv[p]]
  BY DEF Prepare, Merged
<1> HIDE DEF cv
<1>1. ASSUME NEW p \in DOMAIN cv PROVE cv[p] \in [type : Type, note : BOOLEAN]
  <2>1. CASE p \in DOMAIN val
    <3>1. Note(base, p) \in BOOLEAN
      BY <1>b DEF Note
    <3>2. val[p] \in Type
      BY <1>a, <1>c, <2>1 DEF Learned, Describes, Keeps
    <3>3. cv[p] = [type |-> val[p], note |-> Note(base, p)]
      BY <1>c, <2>1 DEF Learned
    <3> QED BY <3>1, <3>2, <3>3
  <2>2. CASE p \notin DOMAIN val
    BY <1>b, <1>c, <2>2 DEF Learned, Describes, Keeps
  <2> QED BY <2>1, <2>2
<1>2. DOMAIN cv \subseteq Seq(Name) /\ IsFiniteSet(DOMAIN cv)
  <2>1. DOMAIN cv \subseteq DOMAIN val \cup DOMAIN base
    BY <1>c DEF Learned
  <2>2. IsFiniteSet(DOMAIN val \cup DOMAIN base)
    BY <1>a, <1>b, FS_Union
  <2> QED BY <1>a, <1>b, <2>1, <2>2, FS_Subset
<1>3. <<>> \in DOMAIN cv
  BY <1>a, <1>c DEF Learned, Describes
<1>4. ASSUME NEW p \in DOMAIN cv, NEW a \in Above(p)
      PROVE  a \in DOMAIN cv /\ cv[a].type \in Nested
  <2>1. CASE a \in DOMAIN val
    <3>1. val[a] \in Nested
      BY <1>a, <1>c, <1>4, <2>1 DEF Learned, Describes, Keeps, Overruled
    <3>2. a \in DOMAIN cv
      BY <1>c, <2>1, <3>1 DEF Learned, Describes
    <3>3. cv[a] = [type |-> val[a], note |-> Note(base, a)]
      BY <1>c, <2>1, <3>2 DEF Learned
    <3> QED BY <3>1, <3>2, <3>3
  <2>2. CASE a \notin DOMAIN val
    <3>1. p \in DOMAIN base /\ ~Overruled(val, p)
      BY <1>a, <1>c, <1>4, <2>2 DEF Learned, Describes, Keeps
    <3>2. a \in DOMAIN base /\ base[a].type \in Nested
      BY <1>b, <1>4, <3>1
    <3>3. ~Overruled(val, a)
      <4>1. \A b \in Above(a) : b \in Above(p)
        BY <1>4, <1>b, <3>1, <3>2, AboveOrder, AboveOK
      <4> QED BY <3>1, <4>1 DEF Overruled
    <3> QED BY <1>c, <2>2, <3>2, <3>3 DEF Learned, Keeps
  <2> QED BY <2>1, <2>2
<1>5. IsValue(t)
  BY <1>1, <1>2, <1>3, <1>4 DEF IsValue
<1> QED BY <1>1, <1>5, <1>d DEF IsVariable, cv

\* An event that comes again teaches nothing more: the write that it may still
\* cause changes no variable (ensureSyncedService compares before it writes).
THEOREM RepeatedEvent ==
  ASSUME NEW val, IsValue(val), val[<<>>] # Null, NEW base, IsContent(base)
  PROVE  Prepare(val, Prepare(val, base)) = Prepare(val, base)
<1> DEFINE one == Prepare(val, base)
           two == Prepare(val, one)
<1>1. Learned(val, base, one) /\ IsContent(one)
  BY PrepareCorrect, PrepareType DEF IsContent
<1>2. Learned(val, one, two)
  BY <1>1, PrepareCorrect
<1>3. one = [p \in DOMAIN one |-> one[p]] /\ two = [p \in DOMAIN two |-> two[p]]
  BY DEF Prepare, Merged
<1>a. \A p \in DOMAIN one : one[p] \in [type : Type, note : BOOLEAN]
  BY <1>1, ContentOK
<1> HIDE DEF one, two
<1>4. DOMAIN two = DOMAIN one
  BY <1>1, <1>2 DEF Learned, Describes, Keeps
<1>5. ASSUME NEW p \in DOMAIN one PROVE two[p] = one[p]
  <2>1. CASE p \in DOMAIN val
    <3>1. /\ one[p] = [type |-> val[p], note |-> Note(base, p)]
          /\ two[p] = [type |-> val[p], note |-> Note(one, p)]
      BY <1>1, <1>2, <1>4, <2>1 DEF Learned
    <3>2. Note(one, p) = one[p].note
      <4>1. one[p].note \in BOOLEAN
        BY <1>a
      <4> QED BY <4>1, <1>5 DEF Note
    <3> QED BY <3>1, <3>2
  <2>2. CASE p \notin DOMAIN val
    BY <1>2, <1>4, <2>2 DEF Learned
  <2> QED BY <2>1, <2>2
<1>6. two = one
  BY <1>3, <1>4, <1>5
<1> QED BY <1>6 DEF one, two

-----------------------------------------------------------------------------
(* contentVariableNeedsUpdate.                                             *)

\* One call of contentVariableNeedsUpdate, its recursive calls given.
Differ(existing, new, p) ==
  existing[p].type # new[p].type \/ existing[p].note # new[p].note
Compare(existing, new, f) ==
  [p \in DOMAIN new |->
     \/ Differ(existing, new, p)
     \/ \E c \in Children(new, p) :
          \/ c \notin DOMAIN existing \/ existing[c].type # new[c].type
          \/ f[c]]
Foreign(existing, new) ==
  {p \in DOMAIN new : p \notin DOMAIN existing \/ Differ(existing, new, p)}
Deviates(existing, new) ==
  [p \in DOMAIN new |->
     Differ(existing, new, p) \/ \E q \in Foreign(existing, new) : p \in Above(q)]

LEMMA CompareDeviates ==
  ASSUME NEW existing, NEW new, IsContent(new)
  PROVE  Deviates(existing, new) = Compare(existing, new, Deviates(existing, new))
<1> DEFINE W == Deviates(existing, new)
           F == Foreign(existing, new)
<1>a. /\ DOMAIN new \subseteq Seq(Name) /\ F \subseteq DOMAIN new
      /\ \A p \in DOMAIN new : \A a \in Above(p) : a \in DOMAIN new
  BY ContentOK DEF Foreign
<1>b. \A p \in DOMAIN new :
        W[p] <=> Differ(existing, new, p) \/ \E q \in F : p \in Above(q)
  BY DEF Deviates
<1> SUFFICES ASSUME NEW p \in DOMAIN new
             PROVE  (Differ(existing, new, p) \/ \E q \in F : p \in Above(q)) <=>
                    \/ Differ(existing, new, p)
                    \/ \E c \in Children(new, p) :
                         \/ c \notin DOMAIN existing \/ existing[c].type # new[c].type
                         \/ W[c]
  BY DEF Deviates, Compare
<1>1. ASSUME NEW q \in F, p \in Above(q)
      PROVE  \E c \in Children(new, p) : c \notin DOMAIN existing \/ W[c]
  <2>1. q \in Seq(Name) /\ p \in Seq(Name)
    BY <1>a
  <2>2. PICK c \in Seq(Name) : /\ Len(c) = Len(p) + 1 /\ p \in Above(c)
                               /\ c = q \/ c \in Above(q)
    BY <1>1, <2>1, ChildBetween
  <2>3. c \in Children(new, p)
    BY <1>a, <2>2 DEF Children
  <2>4. c \in DOMAIN new
    BY <2>3 DEF Children
  <2>5. CASE c = q
    BY <1>b, <2>3, <2>4, <2>5 DEF Foreign
  <2>6. CASE c \in Above(q)
    BY <1>b, <2>3, <2>4, <2>6
  <2> QED BY <2>2, <2>5, <2>6
<1>2. ASSUME NEW c \in Children(new, p),
             c \notin DOMAIN existing \/ existing[c].type # new[c].type \/ W[c]
      PROVE  \E q \in F : p \in Above(q)
  <2>1. c \in DOMAIN new /\ p \in Above(c)
    BY DEF Children
  <2>2. CASE c \in F
    BY <2>1, <2>2
  <2>3. CASE c \notin F
    <3>1. W[c] /\ ~Differ(existing, new, c)
      BY <1>2, <2>1, <2>3 DEF Foreign, Differ
    <3>2. PICK q \in F : c \in Above(q)
      BY <1>b, <2>1, <3>1
    <3>3. p \in Above(q)
      BY <1>a, <2>1, <3>2, AboveOrder
    <3> QED BY <3>3
  <2> QED BY <2>2, <2>3
<1> HIDE DEF W
<1> QED BY <1>1, <1>2

LEMMA CompareUnique ==
  ASSUME NEW existing, NEW new, IsContent(new), NEW f, NEW g,
         f = Compare(existing, new, f), g = Compare(existing, new, g)
  PROVE  f = g
<1> DEFINE Wrong == {p \in DOMAIN new : f[p] # g[p]}
<1>a. DOMAIN new \subseteq Seq(Name) /\ IsFiniteSet(DOMAIN new)
  BY ContentOK
<1>1. ASSUME Wrong # {} PROVE FALSE
  <2>1. Wrong \subseteq Seq(Name) /\ IsFiniteSet(Wrong)
    <3>1. Wrong \subseteq DOMAIN new
      OBVIOUS
    <3> HIDE DEF Wrong
    <3> QED BY <1>a, <3>1, FS_Subset
  <2>2. PICK p \in Wrong : \A q \in Wrong : p \notin Above(q)
    <3> HIDE DEF Wrong
    <3> QED BY <1>1, <2>1, Deepest
  <2>3. \A c \in Children(new, p) : f[c] = g[c]
    BY <2>2 DEF Children
  <2>4. Compare(existing, new, f)[p] = Compare(existing, new, g)[p]
    <3>1. (\E c \in Children(new, p) :
             c \notin DOMAIN existing \/ existing[c].type # new[c].type \/ f[c])
          <=> (\E c \in Children(new, p) :
             c \notin DOMAIN existing \/ existing[c].type # new[c].type \/ g[c])
      BY <2>3
    <3> QED BY <2>2, <3>1 DEF Compare
  <2> QED BY <2>2, <2>4
<1>2. f = [p \in DOMAIN new |-> f[p]] /\ g = [p \in DOMAIN new |-> g[p]]
  BY DEF Compare
<1> QED BY <1>1, <1>2

\* The comparison finds every variable of "new", however deep, that "existing"
\* lacks or has otherwise, and nothing else; it does not see what only
\* "existing" has.
THEOREM NeedsUpdateCorrect ==
  ASSUME NEW existing, IsVariable(existing), NEW new, IsVariable(new)
  PROVE  NeedsUpdate(existing, new) <=>
           \E p \in DOMAIN new : p \notin DOMAIN existing \/ existing[p] # new[p]
<1> DEFINE P(f) == f = [p \in DOMAIN new |->
                     \/ existing[p].type # new[p].type \/ existing[p].note # new[p].note
                     \/ \E c \in Children(new, p) :
                          \/ c \notin DOMAIN existing \/ existing[c].type # new[c].type
                          \/ f[c]]
           r == CHOOSE f : P(f)
           W == Deviates(existing, new)
<1>a. IsContent(new) /\ IsContent(existing)
  BY DEF IsContent
<1>1. \A f : P(f) <=> f = Compare(existing, new, f)
  BY DEF Compare, Differ
<1>2. NeedsUpdate(existing, new) = r[<<>>]
  BY Zenon DEF NeedsUpdate
<1>3. P(W)
  BY <1>a, <1>1, CompareDeviates
<1>4. P(r)
  <2> HIDE DEF P
  <2> QED BY <1>3, Zenon
<1>5. r = W
  <2> HIDE DEF P, r, W
  <2>1. r = Compare(existing, new, r) /\ W = Compare(existing, new, W)
    BY <1>1, <1>3, <1>4
  <2> QED BY <1>a, <2>1, CompareUnique
<1>6. /\ <<>> \in DOMAIN new /\ <<>> \in DOMAIN existing
      /\ DOMAIN new \subseteq Seq(Name)
      /\ \A p \in DOMAIN new : new[p] \in [type : Type, note : BOOLEAN]
      /\ \A p \in DOMAIN existing : existing[p] \in [type : Type, note : BOOLEAN]
  BY <1>a, ContentOK DEF IsVariable, IsValue
<1>7. W[<<>>] <=> \/ Differ(existing, new, <<>>)
                  \/ \E q \in Foreign(existing, new) : <<>> \in Above(q)
  BY <1>6 DEF Deviates
<1>8. \A q \in Foreign(existing, new) : q = <<>> \/ <<>> \in Above(q)
  BY <1>6, AboveOK DEF Foreign
<1>9. W[<<>>] <=> Foreign(existing, new) # {}
  BY <1>6, <1>7, <1>8 DEF Foreign
<1>10. ASSUME NEW p \in DOMAIN new, p \in DOMAIN existing
       PROVE  Differ(existing, new, p) <=> existing[p] # new[p]
  BY <1>6, <1>10 DEF Differ
<1>11. Foreign(existing, new) # {} <=>
         \E p \in DOMAIN new : p \notin DOMAIN existing \/ existing[p] # new[p]
  BY <1>10 DEF Foreign
<1> HIDE DEF P, r, W
<1> QED BY <1>2, <1>5, <1>9, <1>11

-----------------------------------------------------------------------------
(* The content of a service.                                               *)

\* A user's edit leaves a variable with the rest in its place.
LEMMA EditType ==
  ASSUME NEW cv, IsVariable(cv), NEW path \in DOMAIN cv
  PROVE  /\ IsVariable([cv EXCEPT ![path].note = ~@])
         /\ path # <<>> =>
              IsVariable([p \in {q \in DOMAIN cv : q # path /\ path \notin Above(q)} |-> cv[p]])
<1>a. /\ DOMAIN cv \subseteq Seq(Name) /\ IsFiniteSet(DOMAIN cv)
      /\ \A p \in DOMAIN cv :
           /\ cv[p] \in [type : Type, note : BOOLEAN]
           /\ \A a \in Above(p) : a \in DOMAIN cv /\ cv[a].type \in Nested
      /\ <<>> \in DOMAIN cv
  BY ContentOK DEF IsContent, IsVariable, IsValue
<1>1. IsVariable([cv EXCEPT ![path].note = ~@])
  <2> DEFINE new == [cv EXCEPT ![path].note = ~@]
             t == [p \in DOMAIN new |-> new[p].type]
  <2>1. /\ DOMAIN new = DOMAIN cv /\ new = [p \in DOMAIN new |-> new[p]]
        /\ \A p \in DOMAIN cv : /\ new[p] \in [type : Type, note : BOOLEAN]
                                /\ new[p].type = cv[p].type
    BY <1>a
  <2> HIDE DEF new
  <2>2. IsValue(t)
    BY <1>a, <2>1 DEF IsValue
  <2>3. IsVariable(new)
    BY <2>1, <2>2 DEF IsVariable
  <2> QED BY <2>3 DEF new
<1>2. ASSUME path # <<>>
      PROVE  IsVariable([p \in {q \in DOMAIN cv : q # path /\ path \notin Above(q)} |-> cv[p]])
  <2> DEFINE D == {q \in DOMAIN cv : q # path /\ path \notin Above(q)}
             new == [p \in D |-> cv[p]]
             t == [p \in DOMAIN new |-> new[p].type]
  <2>1. /\ DOMAIN new = D /\ new = [p \in DOMAIN new |-> new[p]]
        /\ D \subseteq DOMAIN cv /\ \A p \in D : new[p] = cv[p]
    OBVIOUS
  <2>2. <<>> \in D
    BY <1>2, <1>a, AboveOK
  <2>3. ASSUME NEW p \in D, NEW a \in Above(p) PROVE a \in D
    <3>1. a \in DOMAIN cv /\ a # path /\ p \in Seq(Name) /\ path \in Seq(Name)
      BY <1>a, <2>3
    <3>2. path \notin Above(a)
      BY <2>3, <3>1, AboveOrder
    <3> QED BY <3>1, <3>2
  <2>4. IsFiniteSet(D)
    BY <1>a, <2>1, FS_Subset
  <2> HIDE DEF D
  <2>5. IsValue(t)
    BY <1>a, <2>1, <2>2, <2>3, <2>4 DEF IsValue
  <2> HIDE DEF new
  <2>6. IsVariable(new)
    BY <1>a, <2>1, <2>5 DEF IsVariable
  <2> QED BY <2>6 DEF new, D
<1> QED BY <1>1, <1>2

LEMMA StepType ==
  ASSUME TypeOK, [Next]_vars
  PROVE  TypeOK'
<1>a. /\ IsContent(content) /\ (event = None \/ IsValue(event))
      /\ IsVariable(Template) /\ MaxEdits \in Nat
      /\ \A v \in Value \cup StatusValue : IsValue(v)
  BY ContentAssumption DEF TypeOK, IsContent
<1>1. CASE HandleEvent
  BY <1>1, <1>a DEF HandleEvent, TypeOK
<1>2. CASE EnsureSyncedService
  <2>1. IsContent(content')
    <3>1. CASE Infer(event[<<>>]) = None
      BY <1>2, <1>a, <3>1 DEF EnsureSyncedService
    <3>2. CASE Infer(event[<<>>]) # None
      <4>1. IsValue(event) /\ event[<<>>] # Null
        BY <1>2, <1>a, <3>2, ValueOK, Types DEF EnsureSyncedService
      <4>2. IsVariable(Prepare(event, content))
        BY <1>a, <4>1, PrepareType
      <4> QED BY <1>2, <3>2, <4>2 DEF EnsureSyncedService, IsContent
    <3> QED BY <3>1, <3>2
  <2> QED BY <1>2, <2>1 DEF EnsureSyncedService, TypeOK, IsContent
<1>3. ASSUME NEW differs \in BOOLEAN, SyncProfile(differs) PROVE TypeOK'
  <2>1. content' = Template \/ content' = content
    BY <1>3 DEF SyncProfile
  <2> QED BY <1>3, <1>a, <2>1 DEF SyncProfile, TypeOK
<1>4. ASSUME NEW path \in DOMAIN content, NEW drop \in BOOLEAN, EditVariable(path, drop)
      PROVE  TypeOK'
  <2>1. IsVariable(content)
    BY <1>a DEF IsContent, Nothing
  <2>2. IsVariable(content')
    BY <1>4, <2>1, EditType DEF EditVariable
  <2>3. edits' \in 0..MaxEdits
    BY <1>4, <1>a DEF EditVariable, TypeOK
  <2> QED BY <1>4, <1>a, <2>2, <2>3 DEF EditVariable, TypeOK
<1>5. CASE UNCHANGED vars
  BY <1>5 DEF vars, TypeOK
<1> QED BY <1>1, <1>2, <1>3, <1>4, <1>5 DEF Next

LEMMA InitType == Init => TypeOK
<1>1. MaxEdits \in Nat
  BY ContentAssumption
<1>2. 0 \in 0..MaxEdits
  BY <1>1
<1>3. synced = FALSE => synced \in BOOLEAN
  OBVIOUS
<1> QED BY <1>2, <1>3 DEF Init, TypeOK

\* Whatever values come, whoever edits and syncs: the content of a service is a
\* finite tree in which only objects and lists have variables in them.
THEOREM TypeCorrect == Spec => []TypeOK
BY InitType, StepType, PTL DEF Spec

\* A sync is over before the next event is learnt, so that nothing is added to
\* what the sync has compared.
SyncInv == SyncCleansStatus /\ (event # None => ~synced)

LEMMA StepSync ==
  ASSUME TypeOK, SyncInv, [Next]_vars
  PROVE  SyncInv'
<1>1. CASE HandleEvent
  BY <1>1 DEF HandleEvent, SyncInv, SyncCleansStatus
<1>2. CASE EnsureSyncedService
  BY <1>2 DEF EnsureSyncedService, SyncInv, SyncCleansStatus
<1>3. ASSUME NEW differs \in BOOLEAN, SyncProfile(differs) PROVE SyncInv'
  <2>1. CASE content' = Template
    BY <1>3, <2>1 DEF SyncProfile, SyncInv, SyncCleansStatus
  <2>2. CASE content' # Template
    <3>1. content' = content /\ content # Nothing /\ ~NeedsUpdate(Template, content)
      BY <1>3, <2>2 DEF SyncProfile
    <3>2. \A p \in DOMAIN content : p \in DOMAIN Template /\ content[p] = Template[p]
      BY <3>1, NeedsUpdateCorrect, ContentAssumption DEF TypeOK
    <3> QED BY <1>3, <3>1, <3>2 DEF SyncProfile, SyncInv, SyncCleansStatus
  <2> QED BY <2>1, <2>2
<1>4. ASSUME NEW path \in DOMAIN content, NEW drop \in BOOLEAN, EditVariable(path, drop)
      PROVE  SyncInv'
  BY <1>4 DEF EditVariable, SyncInv, SyncCleansStatus
<1>5. CASE UNCHANGED vars
  BY <1>5 DEF vars, SyncInv, SyncCleansStatus
<1> QED BY <1>1, <1>2, <1>3, <1>4, <1>5 DEF Next

\* After a profile sync the "status" service has no variable, at any depth, that
\* the template does not have with the same type and notes
\* (deviceTypeNeedsUpdate with its arguments swapped).
THEOREM SyncCleansCorrect == Spec => []SyncCleansStatus
<1>1. Init => SyncInv
  BY DEF Init, SyncInv, SyncCleansStatus
<1>2. TypeOK /\ SyncInv /\ [Next]_vars => SyncInv'
  BY StepSync
<1>3. SyncInv => SyncCleansStatus
  BY DEF SyncInv
<1> QED BY <1>1, <1>2, <1>3, TypeCorrect, PTL DEF Spec

\* Every event that is no null describes itself: its parts get their types and
\* keep their notes, and what it does not speak about stays (ensureSyncedService).
THEOREM EventDescribedCorrect == Spec => EventDescribed
<1> DEFINE A == event # None /\ event' = None /\ event[<<>>] # Null =>
                  Learned(event, content, content')
<1>1. ASSUME TypeOK, Next, event # None, event' = None, event[<<>>] # Null
      PROVE  Learned(event, content, content')
  <2>1. EnsureSyncedService
    BY <1>1 DEF Next, HandleEvent, SyncProfile, EditVariable
  <2>2. IsValue(event) /\ IsContent(content)
    BY <1>1 DEF TypeOK, IsContent
  <2>3. Infer(event[<<>>]) # None
    BY <1>1, <2>2, ValueOK, Types
  <2>4. content' = Prepare(event, content)
    BY <2>1, <2>3 DEF EnsureSyncedService
  <2>5. Learned(event, content, Prepare(event, content))
    BY <1>1, <2>2, PrepareCorrect
  <2> QED BY <2>4, <2>5
<1>2. TypeOK /\ [Next]_vars => [A]_vars
  BY <1>1
<1> QED BY <1>2, TypeCorrect, PTL DEF Spec, EventDescribed
================================================================================
