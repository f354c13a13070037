------------------------------ MODULE SumTheorems ------------------------------
(***************************************************************************)
(* Facts about SumFunctionOnSet, the sum of a function over a finite set,  *)
(* for the proofs about quantities that several documents add to.  The     *)
(* operator is a recursive function over subsets, taken in an order that   *)
(* CHOOSE fixes: the order is shown not to matter.  Induction over finite  *)
(* sets is by a minimal set that refutes the claim.                        *)
(* The last section is about orders: a finite set can be sorted.           *)
(***************************************************************************)
EXTENDS Integers, FiniteSets, Functions, FiniteSetTheorems, TLAPS

Pick(s) == CHOOSE x \in s : TRUE

Partial(f, g, s) == IF s = {} THEN 0 ELSE f[Pick(s)] + g[s \ {Pick(s)}]

\* g is the recursive function that sums f over the subsets of S.
SumsUp(f, S, g) == g = [s \in SUBSET S |-> Partial(f, g, s)]

\* The library's fold, as the recursive function over subsets it is made of.
LEMMA SumIsIteration ==
  ASSUME NEW f, NEW S
  PROVE  SumFunctionOnSet(f, S) = (CHOOSE g : SumsUp(f, S, g))[S]
BY DEF SumFunctionOnSet, FoldFunctionOnSet, MapThenFoldSet, SumsUp, Partial, Pick

\* A family of subsets of a finite set has a smallest member.
LEMMA MinimalSubset ==
  ASSUME NEW S, IsFiniteSet(S), NEW C \in SUBSET SUBSET S, C # {}
  PROVE  \E T \in C : \A U \in C : U \subseteq T => U = T
<1>1. FiniteSubsetsOf(S) = SUBSET S
  BY FS_FiniteSubsetsOfFinite
<1>2. IsWellFoundedOn(StrictSubsetOrdering(S), SUBSET S)
  BY <1>1, FS_StrictSubsetOrderingWellFounded
<1>3. PICK T \in C : \A U \in C : ~ (<<U, T>> \in StrictSubsetOrdering(S))
  BY <1>2, WFMin
<1>. QED
  BY <1>3 DEF StrictSubsetOrdering

\* On the subsets of both, two such functions agree.
LEMMA SumsAgree ==
  ASSUME NEW f, NEW S, IsFiniteSet(S), NEW T \in SUBSET S,
         NEW g, SumsUp(f, S, g), NEW h, SumsUp(f, T, h)
  PROVE  \A U \in SUBSET T : g[U] = h[U]
<1>. DEFINE C == {U \in SUBSET T : g[U] # h[U]}
<1>. SUFFICES ASSUME C # {} PROVE FALSE
  OBVIOUS
<1>1. IsFiniteSet(T)
  BY FS_Subset
<1>2. PICK U \in C : \A V \in C : V \subseteq U => V = U
  <2>1. C \in SUBSET SUBSET T
    OBVIOUS
  <2>. HIDE DEF C
  <2>. QED
    BY <1>1, <2>1, MinimalSubset
<1>3. U # {} => Pick(U) \in U
  BY DEF Pick
<1>4. U # {} => g[U \ {Pick(U)}] = h[U \ {Pick(U)}]
  BY <1>2, <1>3
<1>5. g[U] = Partial(f, g, U) /\ h[U] = Partial(f, h, U)
  BY <1>2 DEF SumsUp
<1>. QED
  BY <1>2, <1>4, <1>5 DEF Partial

\* There is a function that sums f up over every subset of a finite set.
LEMMA SumExists ==
  ASSUME NEW f, NEW S, IsFiniteSet(S)
  PROVE  \E g : SumsUp(f, S, g)
<1>. DEFINE C == {T \in SUBSET S : ~ \E g : SumsUp(f, T, g)}
<1>. SUFFICES ASSUME C # {} PROVE FALSE
  OBVIOUS
<1>1. PICK T \in C : \A U \in C : U \subseteq T => U = T
  <2>1. C \in SUBSET SUBSET S
    OBVIOUS
  <2>. HIDE DEF C
  <2>. QED
    BY <2>1, MinimalSubset
<1>. DEFINE G(U) == CHOOSE g : SumsUp(f, U, g)
            h == [U \in SUBSET T |->
                   IF U = T THEN IF T = {} THEN 0 ELSE f[Pick(T)] + G(T \ {Pick(T)})[T \ {Pick(T)}]
                   ELSE G(U)[U]]
<1>2. \A U \in SUBSET T : U # T => SumsUp(f, U, G(U))
  <2>. SUFFICES ASSUME NEW U \in SUBSET T, U # T PROVE \E g : SumsUp(f, U, g)
    OBVIOUS
  <2>. QED
    BY <1>1
<1>3. ASSUME NEW U \in SUBSET T PROVE h[U] = Partial(f, h, U)
  <2>1. CASE U = {}
    <3>1. CASE T = {}
      BY <2>1, <3>1 DEF Partial
    <3>2. CASE T # {}
      <4>1. SumsUp(f, U, G(U))
        BY <1>2, <2>1, <3>2
      <4>2. G(U)[U] = Partial(f, G(U), U)
        BY <4>1 DEF SumsUp
      <4>. QED
        BY <2>1, <3>2, <4>2 DEF Partial
    <3>. QED
      BY <3>1, <3>2
  <2>2. CASE U # {}
    <3>. DEFINE V == U \ {Pick(U)}
    <3>1. Pick(U) \in U
      BY <2>2 DEF Pick
    <3>2. V \in SUBSET U /\ V # U /\ V # T
      BY <3>1
    <3>3. h[V] = G(V)[V]
      BY <3>2
    <3>4. CASE U = T
      BY <2>2, <3>3, <3>4 DEF Partial
    <3>5. CASE U # T
      <4>1. SumsUp(f, U, G(U)) /\ SumsUp(f, V, G(V))
        BY <1>2, <3>2, <3>5
      <4>2. IsFiniteSet(U)
        BY FS_Subset
      <4>3. G(U)[V] = G(V)[V]
        <5>. HIDE DEF G, V
        <5>. QED
          BY <3>2, <4>1, <4>2, SumsAgree
      <4>4. G(U)[U] = Partial(f, G(U), U)
        BY <4>1 DEF SumsUp
      <4>5. h[U] = G(U)[U]
        BY <3>5
      <4>. HIDE DEF h, G
      <4>. QED
        BY <2>2, <3>3, <4>3, <4>4, <4>5 DEF Partial
    <3>. QED
      BY <3>4, <3>5
  <2>. QED
    BY <2>1, <2>2
<1>4. SumsUp(f, T, h)
  <2>1. h = [U \in SUBSET T |-> h[U]]
    OBVIOUS
  <2>. HIDE DEF h
  <2>. QED
    BY <1>3, <2>1 DEF SumsUp
<1>. QED
  BY <1>1, <1>4

\* The recursive equation of the sum.
LEMMA SumDef ==
  ASSUME NEW f, NEW S, IsFiniteSet(S)
  PROVE  SumFunctionOnSet(f, S) =
           IF S = {} THEN 0 ELSE f[Pick(S)] + SumFunctionOnSet(f, S \ {Pick(S)})
<1>. DEFINE G(U) == CHOOSE g : SumsUp(f, U, g)
            T == S \ {Pick(S)}
<1>1. IsFiniteSet(T)
  BY FS_Subset
<1>2. SumsUp(f, S, G(S)) /\ SumsUp(f, T, G(T))
  <2>1. (\E g : SumsUp(f, S, g)) /\ (\E g : SumsUp(f, T, g))
    BY <1>1, SumExists
  <2>. QED
    BY <2>1
<1>3. SumFunctionOnSet(f, S) = G(S)[S] /\ SumFunctionOnSet(f, T) = G(T)[T]
  BY SumIsIteration
<1>4. G(S)[T] = G(T)[T]
  <2>1. T \in SUBSET S /\ T \in SUBSET T
    OBVIOUS
  <2>. HIDE DEF G, T
  <2>. QED
    BY <1>2, <2>1, SumsAgree
<1>5. G(S)[S] = Partial(f, G(S), S)
  <2>. HIDE DEF G
  <2>. QED
    BY <1>2 DEF SumsUp
<1>. QED
  BY <1>3, <1>4, <1>5 DEF Partial

\* The sum over nothing is zero.
THEOREM SumEmpty == \A f : SumFunctionOnSet(f, {}) = 0
BY SumDef, FS_EmptySet

\* A sum of integers is an integer.
THEOREM SumInt ==
  ASSUME NEW S, IsFiniteSet(S), NEW f, \A x \in S : f[x] \in Int
  PROVE  SumFunctionOnSet(f, S) \in Int
<1>. DEFINE C == {T \in SUBSET S : SumFunctionOnSet(f, T) \notin Int}
<1>. SUFFICES ASSUME C # {} PROVE FALSE
  OBVIOUS
<1>1. PICK T \in C : \A U \in C : U \subseteq T => U = T
  <2>1. C \in SUBSET SUBSET S
    OBVIOUS
  <2>. HIDE DEF C
  <2>. QED
    BY <2>1, MinimalSubset
<1>2. IsFiniteSet(T)
  BY FS_Subset
<1>3. T # {} => Pick(T) \in T
  BY DEF Pick
<1>4. T # {} => SumFunctionOnSet(f, T \ {Pick(T)}) \in Int /\ f[Pick(T)] \in Int
  BY <1>1, <1>3
<1>. QED
  BY <1>2, <1>4, SumDef

\* Any member may be taken out of the sum first.
THEOREM SumTakeOut ==
  ASSUME NEW S, IsFiniteSet(S), NEW f, \A x \in S : f[x] \in Int, NEW x \in S
  PROVE  SumFunctionOnSet(f, S) = f[x] + SumFunctionOnSet(f, S \ {x})
<1>. DEFINE Good(T) == \A y \in T : SumFunctionOnSet(f, T) = f[y] + SumFunctionOnSet(f, T \ {y})
            C == {T \in SUBSET S : ~ Good(T)}
<1>. SUFFICES ASSUME C # {} PROVE FALSE
  OBVIOUS
<1>1. PICK T \in C : \A U \in C : U \subseteq T => U = T
  <2>1. C \in SUBSET SUBSET S
    OBVIOUS
  <2>. HIDE DEF C
  <2>. QED
    BY <2>1, MinimalSubset
<1>2. PICK y \in T : SumFunctionOnSet(f, T) # f[y] + SumFunctionOnSet(f, T \ {y})
  BY <1>1
<1>. DEFINE p == Pick(T)
            U == T \ {p}
<1>3. p \in T
  BY DEF Pick
<1>4. IsFiniteSet(T) /\ IsFiniteSet(U) /\ IsFiniteSet(T \ {y}) /\ IsFiniteSet(T \ {y, p})
  BY FS_Subset
<1>5. SumFunctionOnSet(f, T) = f[p] + SumFunctionOnSet(f, U)
  BY <1>3, <1>4, SumDef
<1>6. y # p
  BY <1>2, <1>5
<1>7. Good(U) /\ Good(T \ {y})
  BY <1>1, <1>2, <1>3
<1>8. SumFunctionOnSet(f, U) = f[y] + SumFunctionOnSet(f, T \ {y, p})
  <2>1. U \ {y} = T \ {y, p} /\ y \in U
    BY <1>6
  <2>. QED
    BY <1>7, <2>1
<1>9. SumFunctionOnSet(f, T \ {y}) = f[p] + SumFunctionOnSet(f, T \ {y, p})
  <2>1. (T \ {y}) \ {p} = T \ {y, p} /\ p \in T \ {y}
    BY <1>3, <1>6
  <2>. QED
    BY <1>7, <2>1
<1>10. f[p] \in Int /\ f[y] \in Int /\ SumFunctionOnSet(f, T \ {y, p}) \in Int
  <2>1. \A z \in T \ {y, p} : f[z] \in Int
    OBVIOUS
  <2>. QED
    BY <1>2, <1>3, <1>4, <2>1, SumInt
<1>. QED
  BY <1>2, <1>5, <1>8, <1>9, <1>10

\* A member that is put in adds its value.
THEOREM SumPutIn ==
  ASSUME NEW S, IsFiniteSet(S), NEW x, x \notin S, NEW f, \A y \in S \cup {x} : f[y] \in Int
  PROVE  SumFunctionOnSet(f, S \cup {x}) = SumFunctionOnSet(f, S) + f[x]
<1>1. IsFiniteSet(S \cup {x}) /\ x \in S \cup {x} /\ (S \cup {x}) \ {x} = S
  BY FS_AddElement
<1>2. SumFunctionOnSet(f, S \cup {x}) = f[x] + SumFunctionOnSet(f, S)
  BY <1>1, SumTakeOut
<1>3. SumFunctionOnSet(f, S) \in Int /\ f[x] \in Int
  BY SumInt
<1>. QED
  BY <1>2, <1>3

\* The sum depends on the values over the set alone.
THEOREM SumSame ==
  ASSUME NEW S, IsFiniteSet(S), NEW f, NEW g, \A x \in S : f[x] = g[x]
  PROVE  SumFunctionOnSet(f, S) = SumFunctionOnSet(g, S)
<1>. DEFINE C == {T \in SUBSET S : SumFunctionOnSet(f, T) # SumFunctionOnSet(g, T)}
<1>. SUFFICES ASSUME C # {} PROVE FALSE
  OBVIOUS
<1>1. PICK T \in C : \A U \in C : U \subseteq T => U = T
  <2>1. C \in SUBSET SUBSET S
    OBVIOUS
  <2>. HIDE DEF C
  <2>. QED
    BY <2>1, MinimalSubset
<1>2. IsFiniteSet(T)
  BY FS_Subset
<1>3. T # {} => Pick(T) \in T
  BY DEF Pick
<1>4. T # {} => SumFunctionOnSet(f, T \ {Pick(T)}) = SumFunctionOnSet(g, T \ {Pick(T)})
                  /\ f[Pick(T)] = g[Pick(T)]
  BY <1>1, <1>3
<1>. QED
  BY <1>1, <1>2, <1>4, SumDef

\* The sum of what is added at each member.
THEOREM SumPlus ==
  ASSUME NEW S, IsFiniteSet(S), NEW f, NEW g, NEW h,
         \A x \in S : f[x] \in Int /\ g[x] \in Int /\ h[x] = f[x] + g[x]
  PROVE  SumFunctionOnSet(h, S) = SumFunctionOnSet(f, S) + SumFunctionOnSet(g, S)
<1>. DEFINE C == {T \in SUBSET S :
                   SumFunctionOnSet(h, T) # SumFunctionOnSet(f, T) + SumFunctionOnSet(g, T)}
<1>. SUFFICES ASSUME C # {} PROVE FALSE
  OBVIOUS
<1>1. PICK T \in C : \A U \in C : U \subseteq T => U = T
  <2>1. C \in SUBSET SUBSET S
    OBVIOUS
  <2>. HIDE DEF C
  <2>. QED
    BY <2>1, MinimalSubset
<1>2. IsFiniteSet(T)
  BY FS_Subset
<1>3. T # {} => Pick(T) \in T
  BY DEF Pick
<1>4. T # {} => LET p == Pick(T) U == T \ {p} IN
        /\ SumFunctionOnSet(h, U) = SumFunctionOnSet(f, U) + SumFunctionOnSet(g, U)
        /\ h[p] = f[p] + g[p] /\ f[p] \in Int /\ g[p] \in Int
        /\ SumFunctionOnSet(f, U) \in Int /\ SumFunctionOnSet(g, U) \in Int
  <2>. SUFFICES ASSUME T # {}
       PROVE LET p == Pick(T) U == T \ {p} IN
         /\ SumFunctionOnSet(h, U) = SumFunctionOnSet(f, U) + SumFunctionOnSet(g, U)
         /\ h[p] = f[p] + g[p] /\ f[p] \in Int /\ g[p] \in Int
         /\ SumFunctionOnSet(f, U) \in Int /\ SumFunctionOnSet(g, U) \in Int
    OBVIOUS
  <2>. DEFINE U == T \ {Pick(T)}
  <2>1. IsFiniteSet(U) /\ \A x \in U : f[x] \in Int /\ g[x] \in Int
    BY <1>2, FS_Subset
  <2>2. SumFunctionOnSet(f, U) \in Int /\ SumFunctionOnSet(g, U) \in Int
    BY <2>1, SumInt
  <2>. QED
    BY <1>1, <1>3, <2>2
<1>5. \A i \in {f, g, h} :
        T # {} => SumFunctionOnSet(i, T) = i[Pick(T)] + SumFunctionOnSet(i, T \ {Pick(T)})
  BY <1>2, SumDef
<1>6. SumFunctionOnSet(h, T) = SumFunctionOnSet(f, T) + SumFunctionOnSet(g, T)
  <2>. HIDE DEF C
  <2>1. \A k, l, m, n \in Int : (k + l) + (m + n) = (k + m) + (l + n)
    OBVIOUS
  <2>2. CASE T = {}
    BY <2>2, SumEmpty
  <2>3. CASE T # {}
    BY <1>4, <1>5, <2>1, <2>3
  <2>. QED
    BY <2>2, <2>3
<1>. QED
  BY <1>6

\* A sum of zeros is zero.
THEOREM SumZero ==
  ASSUME NEW S, IsFiniteSet(S), NEW f, \A x \in S : f[x] = 0
  PROVE  SumFunctionOnSet(f, S) = 0
<1>1. SumFunctionOnSet(f, S) = SumFunctionOnSet(f, S) + SumFunctionOnSet(f, S)
  BY SumPlus
<1>2. SumFunctionOnSet(f, S) \in Int
  BY SumInt
<1>3. \A n \in Int : n = n + n => n = 0
  OBVIOUS
<1>. QED
  BY <1>1, <1>2, <1>3

\* The sum of the negatives is the negative of the sum.
THEOREM SumNegative ==
  ASSUME NEW S, IsFiniteSet(S), NEW f, NEW g, \A x \in S : f[x] \in Int /\ g[x] = 0 - f[x]
  PROVE  SumFunctionOnSet(g, S) = 0 - SumFunctionOnSet(f, S)
<1>. DEFINE zero == [x \in S |-> 0]
<1>1. \A x \in S : f[x] \in Int /\ g[x] \in Int /\ zero[x] = 0 /\ zero[x] = f[x] + g[x]
  OBVIOUS
<1>. HIDE DEF zero
<1>2. SumFunctionOnSet(zero, S) = SumFunctionOnSet(f, S) + SumFunctionOnSet(g, S)
  BY <1>1, SumPlus
<1>3. SumFunctionOnSet(zero, S) = 0
  BY <1>1, SumZero
<1>4. SumFunctionOnSet(f, S) \in Int /\ SumFunctionOnSet(g, S) \in Int
  BY <1>1, SumInt
<1>. QED
  BY <1>2, <1>3, <1>4

\* A common factor may be taken out of a sum.
THEOREM SumTimes ==
  ASSUME NEW S, IsFiniteSet(S), NEW c \in Int, NEW f, NEW g,
         \A x \in S : f[x] \in Int /\ g[x] = c * f[x]
  PROVE  SumFunctionOnSet(g, S) = c * SumFunctionOnSet(f, S)
<1>. DEFINE C == {T \in SUBSET S : SumFunctionOnSet(g, T) # c * SumFunctionOnSet(f, T)}
<1>. SUFFICES ASSUME C # {} PROVE FALSE
  OBVIOUS
<1>1. PICK T \in C : \A U \in C : U \subseteq T => U = T
  <2>1. C \in SUBSET SUBSET S
    OBVIOUS
  <2>. HIDE DEF C
  <2>. QED
    BY <2>1, MinimalSubset
<1>2. T # {}
  <2>1. c * 0 = 0
    OBVIOUS
  <2>. QED
    BY <1>1, <2>1, SumEmpty
<1>3. PICK x \in T : TRUE
  BY <1>2
<1>. DEFINE U == T \ {x}
<1>4. IsFiniteSet(T) /\ IsFiniteSet(U) /\ U \in SUBSET S /\ T \in SUBSET S
  BY FS_Subset
<1>5. SumFunctionOnSet(g, U) = c * SumFunctionOnSet(f, U)
  BY <1>1, <1>3
<1>6. \A y \in T : f[y] \in Int /\ g[y] \in Int
  BY <1>4
<1>7. SumFunctionOnSet(f, T) = f[x] + SumFunctionOnSet(f, U)
  BY <1>3, <1>4, <1>6, SumTakeOut
<1>8. SumFunctionOnSet(g, T) = g[x] + SumFunctionOnSet(g, U)
  BY <1>3, <1>4, <1>6, SumTakeOut
<1>9. SumFunctionOnSet(f, U) \in Int /\ f[x] \in Int /\ g[x] = c * f[x]
  <2>1. \A y \in U : f[y] \in Int
    BY <1>6
  <2>. QED
    BY <1>3, <1>4, <2>1, SumInt
<1>10. \A a, b \in Int : c * a + c * b = c * (a + b)
  OBVIOUS
<1>11. SumFunctionOnSet(g, T) # c * SumFunctionOnSet(f, T)
  BY <1>1
<1>. HIDE DEF C, U
<1>. QED
  BY <1>5, <1>7, <1>8, <1>9, <1>10, <1>11

\* A sum of naturals is a natural.
THEOREM SumNat ==
  ASSUME NEW S, IsFiniteSet(S), NEW f, \A x \in S : f[x] \in Nat
  PROVE  SumFunctionOnSet(f, S) \in Nat
<1>. DEFINE C == {T \in SUBSET S : SumFunctionOnSet(f, T) \notin Nat}
<1>. SUFFICES ASSUME C # {} PROVE FALSE
  OBVIOUS
<1>1. PICK T \in C : \A U \in C : U \subseteq T => U = T
  <2>1. C \in SUBSET SUBSET S
    OBVIOUS
  <2>. HIDE DEF C
  <2>. QED
    BY <2>1, MinimalSubset
<1>2. IsFiniteSet(T)
  BY FS_Subset
<1>3. T # {} => Pick(T) \in T
  BY DEF Pick
<1>4. T # {} => SumFunctionOnSet(f, T \ {Pick(T)}) \in Nat /\ f[Pick(T)] \in Nat
  BY <1>1, <1>3
<1>5. T # {} => SumFunctionOnSet(f, T) = f[Pick(T)] + SumFunctionOnSet(f, T \ {Pick(T)})
  BY <1>2, SumDef
<1>6. SumFunctionOnSet(f, T) \in Nat
  <2>. HIDE DEF C
  <2>1. \A m, n \in Nat : m + n \in Nat
    OBVIOUS
  <2>. QED
    BY <1>4, <1>5, <2>1, SumEmpty
<1>. QED
  BY <1>6

\* Members worth nothing may be left out.
THEOREM SumLeaveOut ==
  ASSUME NEW S, IsFiniteSet(S), NEW T \in SUBSET S, NEW f,
         \A x \in S : f[x] \in Int, \A x \in S \ T : f[x] = 0
  PROVE  SumFunctionOnSet(f, S) = SumFunctionOnSet(f, T)
<1>. DEFINE C == {U \in SUBSET (S \ T) : SumFunctionOnSet(f, T \cup U) # SumFunctionOnSet(f, T)}
<1>0. S \ T \notin C => SumFunctionOnSet(f, S) = SumFunctionOnSet(f, T)
  <2>1. T \cup (S \ T) = S
    OBVIOUS
  <2>. QED
    BY <2>1
<1>. SUFFICES ASSUME C # {} PROVE FALSE
  BY <1>0
<1>1. PICK U \in C : \A V \in C : V \subseteq U => V = U
  <2>1. C \in SUBSET SUBSET (S \ T) /\ IsFiniteSet(S \ T)
    BY FS_Subset
  <2>. HIDE DEF C
  <2>. QED
    BY <2>1, MinimalSubset
<1>2. PICK x \in U : TRUE
  <2>1. U # {}
    OBVIOUS
  <2>. QED
    BY <2>1
<1>. DEFINE V == U \ {x}
<1>3. SumFunctionOnSet(f, T \cup V) = SumFunctionOnSet(f, T)
  <2>1. V \in SUBSET (S \ T) /\ V \subseteq U /\ x \notin V
    OBVIOUS
  <2>2. V \notin C
    <3>. HIDE DEF C, V
    <3>. QED
      BY <1>1, <1>2, <2>1
  <2>. QED
    BY <2>1, <2>2
<1>4. SumFunctionOnSet(f, T \cup U) = SumFunctionOnSet(f, T \cup V) + f[x]
  <2>1. T \cup U = (T \cup V) \cup {x} /\ x \notin T \cup V /\ T \cup U \subseteq S
    BY <1>2
  <2>2. IsFiniteSet(T \cup V)
    BY FS_Subset
  <2>. HIDE DEF V
  <2>. QED
    BY <2>1, <2>2, SumPutIn
<1>5. SumFunctionOnSet(f, T) \in Int
  <2>1. IsFiniteSet(T)
    BY FS_Subset
  <2>. QED
    BY <2>1, SumInt
<1>6. f[x] = 0
  BY <1>2
<1>. QED
  BY <1>1, <1>3, <1>4, <1>5, <1>6

\* One member's value changes.
THEOREM SumChange ==
  ASSUME NEW S, IsFiniteSet(S), NEW x \in S, NEW f, NEW g,
         \A y \in S : f[y] \in Int /\ g[y] \in Int, \A y \in S \ {x} : g[y] = f[y]
  PROVE  SumFunctionOnSet(g, S) = SumFunctionOnSet(f, S) + (g[x] - f[x])
<1>1. IsFiniteSet(S \ {x})
  BY FS_Subset
<1>2. SumFunctionOnSet(g, S \ {x}) = SumFunctionOnSet(f, S \ {x})
  BY <1>1, SumSame
<1>3. SumFunctionOnSet(f, S) = f[x] + SumFunctionOnSet(f, S \ {x})
  BY SumTakeOut
<1>4. SumFunctionOnSet(g, S) = g[x] + SumFunctionOnSet(g, S \ {x})
  BY SumTakeOut
<1>5. SumFunctionOnSet(f, S \ {x}) \in Int
  BY <1>1, SumInt
<1>. QED
  BY <1>2, <1>3, <1>4, <1>5

\* No member of a sum of naturals exceeds it.
THEOREM SumBounds ==
  ASSUME NEW S, IsFiniteSet(S), NEW f, \A y \in S : f[y] \in Nat, NEW x \in S
  PROVE  f[x] <= SumFunctionOnSet(f, S)
<1>1. IsFiniteSet(S \ {x})
  BY FS_Subset
<1>2. SumFunctionOnSet(f, S \ {x}) \in Nat
  BY <1>1, SumNat
<1>3. SumFunctionOnSet(f, S) = f[x] + SumFunctionOnSet(f, S \ {x})
  BY SumTakeOut
<1>. QED
  BY <1>2, <1>3

\* A sum grows with its terms.
THEOREM SumAtMost ==
  ASSUME NEW S, IsFiniteSet(S), NEW f, NEW g,
         \A x \in S : f[x] \in Nat /\ g[x] \in Nat /\ f[x] <= g[x]
  PROVE  SumFunctionOnSet(f, S) <= SumFunctionOnSet(g, S)
<1>. DEFINE d == [x \in S |-> g[x] - f[x]]
<1>1. \A x \in S : d[x] \in Nat /\ f[x] \in Int /\ g[x] = f[x] + d[x]
  OBVIOUS
<1>. HIDE DEF d
<1>2. SumFunctionOnSet(g, S) = SumFunctionOnSet(f, S) + SumFunctionOnSet(d, S)
  <2>1. \A x \in S : f[x] \in Int /\ d[x] \in Int /\ g[x] = f[x] + d[x]
    BY <1>1
  <2>. QED
    BY <2>1, SumPlus
<1>3. SumFunctionOnSet(d, S) \in Nat /\ SumFunctionOnSet(f, S) \in Nat
  BY <1>1, SumNat
<1>. QED
  BY <1>2, <1>3

------------------------------------------------------------------------------
\* A function defined on one member more sums to that member's value more.
THEOREM SumExtends ==
  ASSUME NEW S, IsFiniteSet(S), NEW x, x \notin S,
         NEW f, DOMAIN f = S, NEW g, DOMAIN g = S \cup {x},
         \A y \in S : f[y] \in Int /\ g[y] = f[y], g[x] \in Int
  PROVE  SumFunction(g) = SumFunction(f) + g[x]
<1>1. SumFunctionOnSet(g, S \cup {x}) = SumFunctionOnSet(g, S) + g[x]
  BY SumPutIn
<1>2. SumFunctionOnSet(g, S) = SumFunctionOnSet(f, S)
  BY SumSame
<1>. QED
  BY <1>1, <1>2 DEF SumFunction

\* Over a finite set, some member's value is the greatest.
LEMMA GreatestExists ==
  ASSUME NEW S, IsFiniteSet(S), S # {}, NEW f, \A x \in S : f[x] \in Nat
  PROVE  \E m \in S : \A x \in S : f[x] <= f[m]
<1>. DEFINE Greatest(T) == \E m \in T : \A x \in T : f[x] <= f[m]
            C == {T \in SUBSET S : T # {} /\ ~ Greatest(T)}
<1>. SUFFICES ASSUME C # {} PROVE FALSE
  OBVIOUS
<1>1. PICK T \in C : \A U \in C : U \subseteq T => U = T
  <2>1. C \in SUBSET SUBSET S
    OBVIOUS
  <2>. HIDE DEF C
  <2>. QED
    BY <2>1, MinimalSubset
<1>2. PICK p \in T : TRUE
  OBVIOUS
<1>3. \A x \in T : f[x] \in Nat
  OBVIOUS
<1>4. T \ {p} # {}
  <2>. SUFFICES ASSUME T = {p} PROVE FALSE
    BY <1>2
  <2>1. f[p] <= f[p]
    BY <1>2, <1>3
  <2>. QED
    BY <1>2, <2>1
<1>5. PICK m \in T \ {p} : \A x \in T \ {p} : f[x] <= f[m]
  <2>1. T \ {p} \notin C
    <3>. HIDE DEF C
    <3>. QED
      BY <1>1, <1>2
  <2>. QED
    BY <1>4, <2>1
<1>6. CASE f[p] <= f[m]
  <2>1. \A x \in T : f[x] <= f[m]
    BY <1>5, <1>6
  <2>. QED
    BY <2>1
<1>7. CASE ~(f[p] <= f[m])
  <2>1. \A x \in T \ {p} : f[x] <= f[p]
    <3>. SUFFICES ASSUME NEW x \in T \ {p} PROVE f[x] <= f[p]
      OBVIOUS
    <3>1. f[x] \in Nat /\ f[p] \in Nat /\ f[m] \in Nat /\ f[x] <= f[m]
      BY <1>2, <1>3, <1>5
    <3>. HIDE DEF C
    <3>. QED
      BY <1>7, <3>1
  <2>2. f[p] <= f[p]
    BY <1>2, <1>3
  <2>3. \A x \in T : f[x] <= f[p]
    BY <2>1, <2>2
  <2>. QED
    BY <1>2, <2>3
<1>. QED
  BY <1>6, <1>7

\* Multiplying by a natural keeps the order.
LEMMA TimesGrows ==
  ASSUME NEW a \in Nat, NEW b \in Nat, NEW c \in Nat, b <= c
  PROVE  a * b <= a * c
<1>1. PICK d \in Nat : c = b + d
  <2>1. c - b \in Nat /\ c = b + (c - b)
    OBVIOUS
  <2>. QED
    BY <2>1
<1>2. a * c = a * b + a * d /\ a * d \in Nat /\ a * b \in Nat
  BY <1>1
<1>. QED
  BY <1>2

\* A sum over two sets that have nothing in common.
THEOREM SumSplit ==
  ASSUME NEW S, IsFiniteSet(S), NEW T, IsFiniteSet(T), S \cap T = {},
         NEW f, \A x \in S \cup T : f[x] \in Int
  PROVE  SumFunctionOnSet(f, S \cup T) = SumFunctionOnSet(f, S) + SumFunctionOnSet(f, T)
<1>. DEFINE A == S \cup T
            g == [x \in A |-> IF x \in S THEN f[x] ELSE 0]
            h == [x \in A |-> IF x \in T THEN f[x] ELSE 0]
<1>1. IsFiniteSet(A) /\ S \in SUBSET A /\ T \in SUBSET A
  BY FS_Union
<1>2. /\ \A x \in A : g[x] \in Int /\ h[x] \in Int /\ f[x] = g[x] + h[x]
      /\ \A x \in S : g[x] = f[x]
      /\ \A x \in T : h[x] = f[x]
      /\ \A x \in A \ S : g[x] = 0
      /\ \A x \in A \ T : h[x] = 0
  OBVIOUS
<1>. HIDE DEF A, g, h
<1>3. SumFunctionOnSet(f, A) = SumFunctionOnSet(g, A) + SumFunctionOnSet(h, A)
  BY <1>1, <1>2, SumPlus
<1>4. SumFunctionOnSet(g, A) = SumFunctionOnSet(g, S) /\ SumFunctionOnSet(h, A) = SumFunctionOnSet(h, T)
  BY <1>1, <1>2, SumLeaveOut
<1>5. SumFunctionOnSet(g, S) = SumFunctionOnSet(f, S) /\ SumFunctionOnSet(h, T) = SumFunctionOnSet(f, T)
  BY <1>2, SumSame
<1>. QED
  BY <1>3, <1>4, <1>5 DEF A

\* A sum over the members that pass a filter, written over them all.
THEOREM SumFiltered ==
  ASSUME NEW S, IsFiniteSet(S), NEW T \in SUBSET S, NEW f, DOMAIN f = T,
         NEW g, \A x \in S : g[x] \in Int, \A x \in T : g[x] = f[x], \A x \in S \ T : g[x] = 0
  PROVE  SumFunction(f) = SumFunctionOnSet(g, S)
<1>1. SumFunctionOnSet(g, S) = SumFunctionOnSet(g, T)
  BY SumLeaveOut
<1>2. SumFunctionOnSet(g, T) = SumFunctionOnSet(f, T)
  BY FS_Subset, SumSame
<1>. QED
  BY <1>1, <1>2 DEF SumFunction

\* A sum over another index: every member of S is at a place of its own in T,
\* and what is at no member's place is worth nothing.
THEOREM SumReindex ==
  ASSUME NEW S, IsFiniteSet(S), NEW T, IsFiniteSet(T),
         NEW at, \A x \in S : at[x] \in T, \A x, y \in S : at[x] = at[y] => x = y,
         NEW f, NEW g, \A y \in T : g[y] \in Int, \A x \in S : f[x] = g[at[x]],
         \A y \in T : (\A x \in S : at[x] # y) => g[y] = 0
  PROVE  SumFunctionOnSet(f, S) = SumFunctionOnSet(g, T)
<1>. DEFINE Image(U) == {at[x] : x \in U}
            C == {U \in SUBSET S : SumFunctionOnSet(f, U) # SumFunctionOnSet(g, Image(U))}
<1>1. SumFunctionOnSet(f, S) = SumFunctionOnSet(g, Image(S))
  <2>. SUFFICES ASSUME C # {} PROVE FALSE
    OBVIOUS
  <2>1. PICK U \in C : \A V \in C : V \subseteq U => V = U
    <3>1. C \in SUBSET SUBSET S
      OBVIOUS
    <3>. HIDE DEF C
    <3>. QED
      BY <3>1, MinimalSubset
  <2>2. U \subseteq S /\ SumFunctionOnSet(f, U) # SumFunctionOnSet(g, Image(U))
    OBVIOUS
  <2>3. U # {}
    <3>. SUFFICES ASSUME U = {} PROVE FALSE
      OBVIOUS
    <3>1. Image(U) = {}
      OBVIOUS
    <3>. QED
      BY <2>2, <3>1, SumEmpty
  <2>4. PICK p \in U : TRUE
    BY <2>3
  <2>. DEFINE V == U \ {p}
  <2>5. SumFunctionOnSet(f, V) = SumFunctionOnSet(g, Image(V))
    <3>1. V \in SUBSET S /\ V \subseteq U /\ V # U
      BY <2>4
    <3>2. V \notin C
      <4>. HIDE DEF C, V
      <4>. QED
        BY <2>1, <3>1
    <3>. QED
      BY <3>1, <3>2
  <2>6. /\ U = V \cup {p} /\ p \notin V /\ IsFiniteSet(V) /\ V \subseteq S
        /\ \A x \in U : f[x] \in Int
    BY <2>2, <2>4, FS_Subset
  <2>7. SumFunctionOnSet(f, U) = SumFunctionOnSet(f, V) + f[p]
    <3>. HIDE DEF V, C, Image
    <3>. QED
      BY <2>6, SumPutIn
  <2>8. /\ Image(U) = Image(V) \cup {at[p]} /\ at[p] \notin Image(V)
        /\ Image(U) \subseteq T /\ Image(V) \subseteq T
    <3>. HIDE DEF C
    <3>. QED
      BY <2>2, <2>4, <2>6
  <2>9. SumFunctionOnSet(g, Image(U)) = SumFunctionOnSet(g, Image(V)) + g[at[p]]
    <3>1. IsFiniteSet(Image(V)) /\ \A y \in Image(V) \cup {at[p]} : g[y] \in Int
      BY <2>8, FS_Subset
    <3>2. Image(V) \cup {at[p]} = Image(U) /\ at[p] \notin Image(V)
      BY <2>8
    <3>. DEFINE W == Image(V)
                q == at[p]
    <3>3. IsFiniteSet(W) /\ q \notin W /\ \A y \in W \cup {q} : g[y] \in Int
      BY <3>1, <3>2
    <3>4. SumFunctionOnSet(g, W \cup {q}) = SumFunctionOnSet(g, W) + g[q]
      <4>. HIDE DEF W, q, C
      <4>. QED
        BY <3>3, SumPutIn
    <3>. QED
      BY <3>2, <3>4
  <2>10. f[p] = g[at[p]]
    BY <2>2, <2>4
  <2>. HIDE DEF V, C, Image
  <2>. QED
    BY <2>2, <2>5, <2>7, <2>9, <2>10
<1>2. SumFunctionOnSet(g, T) = SumFunctionOnSet(g, Image(S))
  <2>1. Image(S) \in SUBSET T /\ \A y \in T \ Image(S) : g[y] = 0
    OBVIOUS
  <2>. HIDE DEF Image
  <2>. QED
    BY <2>1, SumLeaveOut
<1>. QED
  BY <1>1, <1>2

\* A sum with at most one member worth anything.
THEOREM SumOfOne ==
  ASSUME NEW S, IsFiniteSet(S), NEW x \in S, NEW f, f[x] \in Int, \A y \in S \ {x} : f[y] = 0
  PROVE  SumFunctionOnSet(f, S) = f[x]
<1>1. SumFunctionOnSet(f, S) = f[x] + SumFunctionOnSet(f, S \ {x})
  <2>1. \A y \in S : f[y] \in Int
    OBVIOUS
  <2>. QED
    BY <2>1, SumTakeOut
<1>2. SumFunctionOnSet(f, S \ {x}) = 0
  BY FS_Subset, SumZero
<1>. QED
  BY <1>1, <1>2

------------------------------------------------------------------------------
(* Sorting: a finite set that is ordered can be listed in that order.      *)

\* R holds the pairs of members of S of which the first comes before the
\* second, and tells any two members apart.
TotalOrder(R, S) ==
  /\ \A x \in S : <<x, x>> \notin R
  /\ \A x, y \in S : x # y => <<x, y>> \in R \/ <<y, x>> \in R
  /\ \A x, y, z \in S : <<x, y>> \in R /\ <<y, z>> \in R => <<x, z>> \in R

SortedBy(s, R, S) ==
  /\ s \in [1 .. Cardinality(S) -> S]
  /\ \A i, j \in 1 .. Cardinality(S) : i < j => <<s[i], s[j]>> \in R

\* Some member comes after all the others.
LEMMA LastExists ==
  ASSUME NEW S, IsFiniteSet(S), S # {}, NEW R, TotalOrder(R, S)
  PROVE  \E m \in S : \A x \in S \ {m} : <<x, m>> \in R
<1>. DEFINE HasLast(T) == \E m \in T : \A x \in T \ {m} : <<x, m>> \in R
            C == {T \in SUBSET S : T # {} /\ ~ HasLast(T)}
<1>. SUFFICES ASSUME C # {} PROVE FALSE
  OBVIOUS
<1>1. PICK T \in C : \A U \in C : U \subseteq T => U = T
  <2>1. C \in SUBSET SUBSET S
    OBVIOUS
  <2>. HIDE DEF C
  <2>. QED
    BY <2>1, MinimalSubset
<1>2. PICK p \in T : TRUE
  OBVIOUS
<1>3. T \ {p} # {}
  BY <1>2
<1>4. PICK m \in T \ {p} : \A x \in (T \ {p}) \ {m} : <<x, m>> \in R
  <2>1. T \ {p} \notin C
    <3>. HIDE DEF C
    <3>. QED
      BY <1>1, <1>2
  <2>. QED
    BY <1>3, <2>1
<1>5. p \in S /\ m \in S /\ p # m /\ T \subseteq S
  BY <1>2, <1>4
<1>6. CASE <<p, m>> \in R
  BY <1>4, <1>6
<1>7. CASE <<m, p>> \in R
  <2>1. \A x \in T \ {p} : <<x, p>> \in R
    BY <1>4, <1>5, <1>7 DEF TotalOrder
  <2>. QED
    BY <1>2, <2>1
<1>. QED
  BY <1>5, <1>6, <1>7 DEF TotalOrder

\* What orders a set orders its subsets.
LEMMA OrderOfSubset ==
  ASSUME NEW S, NEW R, TotalOrder(R, S), NEW T \in SUBSET S
  PROVE  TotalOrder(R, T)
BY DEF TotalOrder

LEMMA SortExists ==
  ASSUME NEW S, IsFiniteSet(S), NEW R, TotalOrder(R, S)
  PROVE  \E s : SortedBy(s, R, S)
<1>. DEFINE C == {T \in SUBSET S : ~ \E s : SortedBy(s, R, T)}
<1>. SUFFICES ASSUME C # {} PROVE FALSE
  OBVIOUS
<1>1. PICK T \in C : \A U \in C : U \subseteq T => U = T
  <2>1. C \in SUBSET SUBSET S
    OBVIOUS
  <2>. HIDE DEF C
  <2>. QED
    BY <2>1, MinimalSubset
<1>2. T \in SUBSET S /\ IsFiniteSet(T) /\ TotalOrder(R, T) /\ ~ \E s : SortedBy(s, R, T)
  BY <1>1, FS_Subset, OrderOfSubset
<1>3. T # {}
  <2>. SUFFICES ASSUME T = {} PROVE SortedBy(<<>>, R, T)
    BY <1>2
  <2>. QED
    BY FS_EmptySet DEF SortedBy
<1>4. PICK m \in T : \A x \in T \ {m} : <<x, m>> \in R
  BY <1>2, <1>3, LastExists
<1>. DEFINE U == T \ {m}
            n == Cardinality(T)
<1>5. IsFiniteSet(U) /\ n \in Nat /\ n > 0 /\ Cardinality(U) = n - 1
  BY <1>2, <1>3, FS_RemoveElement, FS_CardinalityType, FS_EmptySet
<1>6. PICK s : SortedBy(s, R, U)
  <2>1. U \notin C
    <3>. HIDE DEF C
    <3>. QED
      BY <1>1
  <2>. QED
    BY <1>2, <2>1
<1>. DEFINE r == [i \in 1 .. n |-> IF i = n THEN m ELSE s[i]]
<1>7. \A i \in 1 .. n : i # n => i \in 1 .. Cardinality(U) /\ s[i] \in U
  <2>. HIDE DEF C, U, n
  <2>1. \A i \in 1 .. n : i # n => i \in 1 .. Cardinality(U)
    BY <1>5
  <2>. QED
    BY <1>6, <2>1 DEF SortedBy
<1>8. r \in [1 .. n -> T]
  BY <1>7
<1>9. ASSUME NEW i \in 1 .. n, NEW j \in 1 .. n, i < j PROVE <<r[i], r[j]>> \in R
  <2>1. i # n
    BY <1>5, <1>9
  <2>2. CASE j = n
    BY <1>4, <1>7, <2>1, <2>2
  <2>3. CASE j # n
    BY <1>6, <1>7, <1>9, <2>1, <2>3 DEF SortedBy
  <2>. QED
    BY <2>2, <2>3
<1>10. SortedBy(r, R, T)
  <2>. HIDE DEF r
  <2>. QED
    BY <1>8, <1>9 DEF SortedBy
<1>. QED
  BY <1>2, <1>10

\* Such a list misses no member, and orders its members as R does.
LEMMA SortCovers ==
  ASSUME NEW S, IsFiniteSet(S), NEW R, TotalOrder(R, S), NEW s, SortedBy(s, R, S)
  PROVE  \A x \in S : \E i \in 1 .. Cardinality(S) : s[i] = x
<1>. DEFINE n == Cardinality(S)
<1>1. n \in Nat
  BY FS_CardinalityType
<1>2. \A i, j \in 1 .. n : s[i] = s[j] => i = j
  <2>. SUFFICES ASSUME NEW i \in 1 .. n, NEW j \in 1 .. n, i < j PROVE s[i] # s[j]
    BY <1>1
  <2>. QED
    BY DEF SortedBy, TotalOrder
<1>3. s \in Injection(1 .. n, S)
  BY <1>2 DEF Injection, IsInjective, SortedBy
<1>4. Cardinality(1 .. n) = n
  BY <1>1, FS_Interval
<1>5. s \in Surjection(1 .. n, S)
  BY <1>3, <1>4, FS_Injection
<1>. QED
  BY <1>5 DEF Surjection
=============================================================================
