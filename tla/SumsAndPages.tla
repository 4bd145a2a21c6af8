----------------------------- MODULE SumsAndPages -----------------------------
(***************************************************************************)
(* Lemmas about sums over finite sets (MapThenSumSet), with the summands   *)
(* given as a function, and about the pages that a list is cut into and    *)
(* joined from again (SubSeq, FlattenSeq).                                 *)
(***************************************************************************)
EXTENDS Integers, SequencesExt, SequenceTheorems, FiniteSetTheorems, WellFoundedInduction, TLAPS

(***************************************************************************)
(* Sums.                                                                   *)
(***************************************************************************)

\* The sum of F[x] over S.
Total(F, S) == MapThenSumSet(LAMBDA x : F[x], S)

\* The recursive function behind it: f[s] is the sum over the subset s.
Chosen(s) == CHOOSE x \in s : TRUE
Summing(f, F, S) ==
  f = [s \in SUBSET S |-> IF s = {} THEN 0 ELSE F[Chosen(s)] + f[s \ {Chosen(s)}]]

LEMMA ChosenIn == \A s : s # {} => Chosen(s) \in s
BY DEF Chosen

\* A set of numbers that is not empty has a least one.
LEMMA LeastNumber ==
  ASSUME NEW N \in SUBSET Nat, N # {}
  PROVE  \E n \in N : \A m \in N : ~ (m < n)
<1>1. IsWellFoundedOn(OpToRel(<, Nat), Nat)
  BY NatLessThanWellFounded
<1>2. PICK n \in N : \A m \in N : ~ (<<m, n>> \in OpToRel(<, Nat))
  BY <1>1, WFMin
<1>3. \A m \in N : ~ (m < n)
  BY <1>2 DEF OpToRel
<1>4. QED
  BY <1>3

\* Of the finite sets in a collection, one is smallest.
LEMMA Smallest ==
  ASSUME NEW C, C # {}, \A s \in C : IsFiniteSet(s)
  PROVE  \E s \in C : \A t \in C : ~ (Cardinality(t) < Cardinality(s))
<1> DEFINE N == {Cardinality(s) : s \in C}
<1>1. N \in SUBSET Nat /\ N # {}
  BY FS_CardinalityType
<1> HIDE DEF N
<1>2. PICK n \in N : \A m \in N : ~ (m < n)
  BY <1>1, LeastNumber
<1>3. QED
  BY <1>2 DEF N

\* Removing an element makes a finite set smaller.
LEMMA Smaller ==
  ASSUME NEW S, IsFiniteSet(S), NEW x \in S
  PROVE  /\ IsFiniteSet(S \ {x}) /\ Cardinality(S \ {x}) < Cardinality(S)
         /\ S \ {x} \subseteq S /\ x \notin S \ {x}
<1>1. /\ IsFiniteSet(S \ {x}) /\ Cardinality(S \ {x}) = Cardinality(S) - 1
      /\ Cardinality(S) \in Nat
  BY FS_RemoveElement, FS_CardinalityType
<1>2. QED
  BY <1>1

-----------------------------------------------------------------------------
\* The recursion has at most one solution, whatever the set it is taken over.
LEMMA SummingUnique ==
  ASSUME NEW F, NEW A, NEW B, NEW f, NEW g, Summing(f, F, A), Summing(g, F, B),
         NEW S \in SUBSET A, S \in SUBSET B, IsFiniteSet(S)
  PROVE  f[S] = g[S]
<1> DEFINE C == {s \in SUBSET S : f[s] # g[s]}
<1>1. SUFFICES ASSUME C # {} PROVE FALSE
  OBVIOUS
<1>2. \A s \in C : IsFiniteSet(s)
  BY FS_Subset
<1> HIDE DEF C
<1>3. PICK s \in C : \A t \in C : ~ (Cardinality(t) < Cardinality(s))
  BY <1>1, <1>2, Smallest
<1>4. s \in SUBSET S /\ s \in SUBSET A /\ s \in SUBSET B /\ f[s] # g[s]
  BY DEF C
<1>5. /\ f[s] = IF s = {} THEN 0 ELSE F[Chosen(s)] + f[s \ {Chosen(s)}]
      /\ g[s] = IF s = {} THEN 0 ELSE F[Chosen(s)] + g[s \ {Chosen(s)}]
  BY <1>4 DEF Summing
<1>6. s # {}
  BY <1>4, <1>5
<1> PICK t : t = s \ {Chosen(s)}
  OBVIOUS
<1>7. Cardinality(t) < Cardinality(s) /\ t \in SUBSET S
  BY <1>2, <1>4, <1>6, ChosenIn, Smaller
<1>8. f[t] = g[t]
  BY <1>3, <1>7 DEF C
<1>9. QED
  BY <1>4, <1>5, <1>6, <1>8

\* It has one over every finite set.
LEMMA SummingExists ==
  ASSUME NEW F, NEW S, IsFiniteSet(S)
  PROVE  \E f : Summing(f, F, S)
<1> DEFINE C == {s \in SUBSET S : ~ \E f : Summing(f, F, s)}
<1>1. SUFFICES ASSUME C # {} PROVE FALSE
  OBVIOUS
<1>2. \A s \in SUBSET S : IsFiniteSet(s)
  BY FS_Subset
<1> HIDE DEF C
<1>3. PICK s \in C : \A t \in C : ~ (Cardinality(t) < Cardinality(s))
  <2>1. \A t \in C : IsFiniteSet(t)
    BY <1>2 DEF C
  <2>2. QED
    BY <1>1, <2>1, Smallest
<1>4. s \in SUBSET S /\ ~ \E f : Summing(f, F, s)
  BY DEF C
<1> DEFINE part(t) == CHOOSE f : Summing(f, F, t)
           value(t) == IF t = {} THEN 0 ELSE F[Chosen(t)] + part(t \ {Chosen(t)})[t \ {Chosen(t)}]
           sum == [t \in SUBSET s |-> value(t)]
<1>5. ASSUME NEW t \in SUBSET s, t # s
      PROVE  Summing(part(t), F, t)
  <2>1. Cardinality(t) < Cardinality(s)
    <3>1. IsFiniteSet(s) /\ IsFiniteSet(t)
      BY <1>2, <1>4
    <3>2. /\ Cardinality(t) <= Cardinality(s) /\ Cardinality(t) # Cardinality(s)
          /\ Cardinality(t) \in Nat /\ Cardinality(s) \in Nat
      BY <1>5, <3>1, FS_Subset, FS_CardinalityType
    <3>3. QED
      BY <3>2
  <2>2. \E f : Summing(f, F, t)
    BY <1>3, <1>4, <2>1 DEF C
  <2>3. QED
    BY <2>2
<1> HIDE DEF part
<1>6. ASSUME NEW t \in SUBSET s, t # {}
      PROVE  /\ t \ {Chosen(t)} \in SUBSET s /\ t \ {Chosen(t)} # s
             /\ IsFiniteSet(t \ {Chosen(t)})
  BY <1>2, <1>4, <1>6, ChosenIn
<1>7. ASSUME NEW t \in SUBSET s, t # s
      PROVE  value(t) = part(t)[t]
  <2> PICK p : p = part(t)
    OBVIOUS
  <2>1. Summing(p, F, t)
    BY <1>5, <1>7
  <2>2. p[t] = IF t = {} THEN 0 ELSE F[Chosen(t)] + p[t \ {Chosen(t)}]
    BY <2>1 DEF Summing
  <2>3. CASE t = {}
    BY <2>2, <2>3
  <2>4. CASE t # {}
    <3> PICK r : r = t \ {Chosen(t)}
      OBVIOUS
    <3> PICK q : q = part(r)
      OBVIOUS
    <3>1. r \in SUBSET s /\ r # s /\ IsFiniteSet(r) /\ r \in SUBSET t
      BY <1>6, <2>4
    <3>2. Summing(q, F, r)
      BY <1>5, <3>1
    <3>3. p[r] = q[r]
      BY <2>1, <3>1, <3>2, SummingUnique
    <3>4. QED
      BY <2>2, <2>4, <3>3
  <2>5. QED
    BY <2>3, <2>4
<1>8. \A t \in SUBSET s : value(t) = IF t = {} THEN 0 ELSE F[Chosen(t)] + sum[t \ {Chosen(t)}]
  <2> SUFFICES ASSUME NEW t \in SUBSET s, t # {}
               PROVE  part(t \ {Chosen(t)})[t \ {Chosen(t)}] = sum[t \ {Chosen(t)}]
    OBVIOUS
  <2> PICK r : r = t \ {Chosen(t)}
    OBVIOUS
  <2>1. r \in SUBSET s /\ r # s
    BY <1>6
  <2>2. part(r)[r] = value(r) /\ sum[r] = value(r)
    BY <1>7, <2>1
  <2>3. QED
    BY <2>2
<1> HIDE DEF value
<1>9. sum = [t \in SUBSET s |-> IF t = {} THEN 0 ELSE F[Chosen(t)] + sum[t \ {Chosen(t)}]]
  BY <1>8
<1>10. Summing(sum, F, s)
  BY <1>9 DEF Summing
<1>11. QED
  BY <1>4, <1>10

\* What a sum is, in terms of any solution over a larger set.
LEMMA TotalIs ==
  ASSUME NEW F, NEW A, NEW f, Summing(f, F, A), NEW S \in SUBSET A, IsFiniteSet(S)
  PROVE  Total(F, S) = f[S]
<1> DEFINE G == CHOOSE h : h = [s \in SUBSET S |->
      IF s = {} THEN 0 ELSE F[CHOOSE x \in s : TRUE] + h[s \ {CHOOSE x \in s : TRUE}]]
<1>1. Total(F, S) = G[S]
  BY DEF Total, MapThenSumSet, MapThenFoldSet
<1> PICK g : g = G
  OBVIOUS
<1> PICK k : Summing(k, F, S)
  BY SummingExists
<1>2. k = [s \in SUBSET S |->
      IF s = {} THEN 0 ELSE F[CHOOSE x \in s : TRUE] + k[s \ {CHOOSE x \in s : TRUE}]]
  BY DEF Summing, Chosen
<1>3. g = [s \in SUBSET S |->
      IF s = {} THEN 0 ELSE F[CHOOSE x \in s : TRUE] + g[s \ {CHOOSE x \in s : TRUE}]]
  BY <1>2
<1> HIDE DEF G
<1>4. Summing(g, F, S)
  BY <1>3 DEF Summing, Chosen
<1>5. QED
  BY <1>1, <1>4, SummingUnique

-----------------------------------------------------------------------------
LEMMA TotalEmpty == \A F : Total(F, {}) = 0
<1> SUFFICES ASSUME NEW F PROVE Total(F, {}) = 0
  OBVIOUS
<1>1. IsFiniteSet({})
  BY FS_EmptySet
<1> PICK f : Summing(f, F, {})
  BY <1>1, SummingExists
<1>2. {} \in SUBSET {}
  OBVIOUS
<1>3. f[{}] = 0
  BY <1>2 DEF Summing
<1>4. QED
  BY <1>1, <1>2, <1>3, TotalIs

LEMMA TotalChosen ==
  ASSUME NEW F, NEW S, IsFiniteSet(S), S # {}
  PROVE  Total(F, S) = F[Chosen(S)] + Total(F, S \ {Chosen(S)})
<1> PICK f : Summing(f, F, S)
  BY SummingExists
<1> PICK r : r = S \ {Chosen(S)}
  OBVIOUS
<1>1. r \in SUBSET S /\ IsFiniteSet(r) /\ S \in SUBSET S
  BY FS_Subset
<1>2. f[S] = F[Chosen(S)] + f[r]
  BY <1>1 DEF Summing
<1>3. Total(F, S) = f[S] /\ Total(F, r) = f[r]
  BY <1>1, TotalIs
<1>4. QED
  BY <1>2, <1>3

LEMMA TotalType ==
  ASSUME NEW F, NEW S, IsFiniteSet(S), \A x \in S : F[x] \in Int
  PROVE  Total(F, S) \in Int
<1> DEFINE C == {s \in SUBSET S : Total(F, s) \notin Int}
<1>1. SUFFICES ASSUME C # {} PROVE FALSE
  OBVIOUS
<1>2. \A s \in C : IsFiniteSet(s)
  BY FS_Subset
<1> HIDE DEF C
<1>3. PICK s \in C : \A t \in C : ~ (Cardinality(t) < Cardinality(s))
  BY <1>1, <1>2, Smallest
<1>4. s \in SUBSET S /\ Total(F, s) \notin Int /\ IsFiniteSet(s)
  BY <1>2 DEF C
<1>5. s # {}
  BY <1>4, TotalEmpty
<1> PICK t : t = s \ {Chosen(s)}
  OBVIOUS
<1>6. Chosen(s) \in s /\ Cardinality(t) < Cardinality(s) /\ t \in SUBSET S
  BY <1>4, <1>5, ChosenIn, Smaller
<1>7. Total(F, t) \in Int
  BY <1>3, <1>6 DEF C
<1>8. Total(F, s) = F[Chosen(s)] + Total(F, t)
  BY <1>4, <1>5, TotalChosen
<1>9. F[Chosen(s)] \in Int
  BY <1>4, <1>6
<1> PICK a \in Int : a = F[Chosen(s)]
  BY <1>9
<1>10. QED
  BY <1>4, <1>7, <1>8

\* The order of the summands does not matter: any element may be taken first.
LEMMA TotalRemove ==
  ASSUME NEW F, NEW S, IsFiniteSet(S), \A x \in S : F[x] \in Int, NEW y \in S
  PROVE  Total(F, S) = F[y] + Total(F, S \ {y})
<1> DEFINE Wrong(s, z) == Total(F, s) # F[z] + Total(F, s \ {z})
           C == {s \in SUBSET S : \E z \in s : Wrong(s, z)}
<1>1. SUFFICES ASSUME C # {} PROVE FALSE
  OBVIOUS
<1>2. \A s \in SUBSET S : IsFiniteSet(s)
  BY FS_Subset
<1>3. \A s \in SUBSET S : Total(F, s) \in Int
  BY <1>2, TotalType
<1> HIDE DEF C
<1>4. PICK s \in C : \A t \in C : ~ (Cardinality(t) < Cardinality(s))
  <2>1. \A s \in C : IsFiniteSet(s)
    BY <1>2 DEF C
  <2>2. QED
    BY <1>1, <2>1, Smallest
<1>5. s \in SUBSET S /\ IsFiniteSet(s)
  BY <1>2 DEF C
<1> PICK z \in s : Wrong(s, z)
  BY DEF C
<1> PICK x : x = Chosen(s)
  OBVIOUS
<1>6. x \in s /\ Total(F, s) = F[x] + Total(F, s \ {x})
  BY <1>5, ChosenIn, TotalChosen
<1>7. x # z
  BY <1>6
<1>8. /\ s \ {x} \in SUBSET S /\ s \ {z} \in SUBSET S
      /\ z \in s \ {x} /\ x \in s \ {z} /\ (s \ {x}) \ {z} = (s \ {z}) \ {x}
      /\ (s \ {x}) \ {z} \in SUBSET S
  BY <1>5, <1>6, <1>7
<1> PICK sx : sx = s \ {x}
  OBVIOUS
<1> PICK sz : sz = s \ {z}
  OBVIOUS
<1> PICK r : r = sx \ {z}
  OBVIOUS
<1>9. Cardinality(sx) < Cardinality(s) /\ Cardinality(sz) < Cardinality(s)
  BY <1>5, <1>6, Smaller
<1>10. Total(F, sx) = F[z] + Total(F, r)
  BY <1>4, <1>8, <1>9 DEF C
<1>11. Total(F, sz) = F[x] + Total(F, r)
  BY <1>4, <1>8, <1>9 DEF C
<1>12. Total(F, r) \in Int /\ F[x] \in Int /\ F[z] \in Int
  BY <1>3, <1>5, <1>6, <1>8
<1> PICK a \in Int : a = F[x]
  BY <1>12
<1> PICK b \in Int : b = F[z]
  BY <1>12
<1> PICK c \in Int : c = Total(F, r)
  BY <1>12
<1>13. Total(F, s) = a + (b + c)
  BY <1>6, <1>10
<1>14. F[z] + Total(F, sz) = b + (a + c)
  BY <1>11
<1>15. QED
  BY <1>13, <1>14

LEMMA TotalAdd ==
  ASSUME NEW F, NEW S, IsFiniteSet(S), NEW x, x \notin S, \A y \in S \cup {x} : F[y] \in Int
  PROVE  Total(F, S \cup {x}) = Total(F, S) + F[x]
<1> PICK T : T = S \cup {x}
  OBVIOUS
<1>1. IsFiniteSet(T) /\ x \in T /\ T \ {x} = S
  BY FS_AddElement
<1>2. Total(F, T) = F[x] + Total(F, S)
  BY <1>1, TotalRemove
<1>3. F[x] \in Int /\ Total(F, S) \in Int
  BY TotalType
<1> PICK a \in Int : a = F[x]
  BY <1>3
<1>4. QED
  BY <1>2, <1>3

\* Equal summands, equal sums.
LEMMA TotalSame ==
  ASSUME NEW F, NEW G, NEW S, IsFiniteSet(S), \A x \in S : F[x] = G[x]
  PROVE  Total(F, S) = Total(G, S)
<1> DEFINE C == {s \in SUBSET S : Total(F, s) # Total(G, s)}
<1>1. SUFFICES ASSUME C # {} PROVE FALSE
  OBVIOUS
<1>2. \A s \in C : IsFiniteSet(s)
  BY FS_Subset
<1> HIDE DEF C
<1>3. PICK s \in C : \A t \in C : ~ (Cardinality(t) < Cardinality(s))
  BY <1>1, <1>2, Smallest
<1>4. s \in SUBSET S /\ Total(F, s) # Total(G, s) /\ IsFiniteSet(s)
  BY <1>2 DEF C
<1>5. s # {}
  BY <1>4, TotalEmpty
<1> PICK t : t = s \ {Chosen(s)}
  OBVIOUS
<1>6. Chosen(s) \in S /\ Cardinality(t) < Cardinality(s) /\ t \in SUBSET S
  BY <1>4, <1>5, ChosenIn, Smaller
<1>7. Total(F, t) = Total(G, t)
  BY <1>3, <1>6 DEF C
<1>8. /\ Total(F, s) = F[Chosen(s)] + Total(F, t)
      /\ Total(G, s) = G[Chosen(s)] + Total(G, t)
  BY <1>4, <1>5, TotalChosen
<1>9. QED
  BY <1>4, <1>6, <1>7, <1>8

LEMMA TotalMonotone ==
  ASSUME NEW F, NEW G, NEW S, IsFiniteSet(S),
         \A x \in S : F[x] \in Int /\ G[x] \in Int /\ F[x] <= G[x]
  PROVE  Total(F, S) <= Total(G, S)
<1> DEFINE C == {s \in SUBSET S : ~ (Total(F, s) <= Total(G, s))}
<1>1. SUFFICES ASSUME C # {} PROVE FALSE
  OBVIOUS
<1>2. \A s \in SUBSET S : IsFiniteSet(s) /\ Total(F, s) \in Int /\ Total(G, s) \in Int
  BY FS_Subset, TotalType
<1> HIDE DEF C
<1>3. PICK s \in C : \A t \in C : ~ (Cardinality(t) < Cardinality(s))
  <2>1. \A s \in C : IsFiniteSet(s)
    BY <1>2 DEF C
  <2>2. QED
    BY <1>1, <2>1, Smallest
<1>4. s \in SUBSET S /\ ~ (Total(F, s) <= Total(G, s)) /\ IsFiniteSet(s)
  BY <1>2 DEF C
<1>5. s # {}
  BY <1>4, TotalEmpty
<1> PICK t : t = s \ {Chosen(s)}
  OBVIOUS
<1>6. Chosen(s) \in S /\ Cardinality(t) < Cardinality(s) /\ t \in SUBSET S
  BY <1>4, <1>5, ChosenIn, Smaller
<1>7. Total(F, t) <= Total(G, t)
  BY <1>3, <1>6 DEF C
<1>8. /\ Total(F, s) = F[Chosen(s)] + Total(F, t)
      /\ Total(G, s) = G[Chosen(s)] + Total(G, t)
  BY <1>4, <1>5, TotalChosen
<1> PICK a \in Int : a = F[Chosen(s)]
  BY <1>6
<1> PICK b \in Int : b = G[Chosen(s)]
  BY <1>6
<1>9. a <= b
  BY <1>6
<1>10. QED
  BY <1>2, <1>4, <1>6, <1>7, <1>8, <1>9

\* The sum of differences is the difference of the sums.
LEMMA TotalMinus ==
  ASSUME NEW F, NEW G, NEW H, NEW S, IsFiniteSet(S),
         \A x \in S : F[x] \in Int /\ G[x] \in Int /\ H[x] = F[x] - G[x]
  PROVE  Total(H, S) = Total(F, S) - Total(G, S)
<1> DEFINE C == {s \in SUBSET S : Total(H, s) # Total(F, s) - Total(G, s)}
<1>1. SUFFICES ASSUME C # {} PROVE FALSE
  OBVIOUS
<1>2. \A s \in SUBSET S : IsFiniteSet(s) /\ Total(F, s) \in Int /\ Total(G, s) \in Int
  BY FS_Subset, TotalType
<1> HIDE DEF C
<1>3. PICK s \in C : \A t \in C : ~ (Cardinality(t) < Cardinality(s))
  <2>1. \A s \in C : IsFiniteSet(s)
    BY <1>2 DEF C
  <2>2. QED
    BY <1>1, <2>1, Smallest
<1>4. s \in SUBSET S /\ Total(H, s) # Total(F, s) - Total(G, s) /\ IsFiniteSet(s)
  BY <1>2 DEF C
<1>5. s # {}
  BY <1>4, TotalEmpty
<1> PICK t : t = s \ {Chosen(s)}
  OBVIOUS
<1>6. Chosen(s) \in S /\ Cardinality(t) < Cardinality(s) /\ t \in SUBSET S
  BY <1>4, <1>5, ChosenIn, Smaller
<1>7. Total(H, t) = Total(F, t) - Total(G, t)
  BY <1>3, <1>6 DEF C
<1>8. /\ Total(F, s) = F[Chosen(s)] + Total(F, t)
      /\ Total(G, s) = G[Chosen(s)] + Total(G, t)
      /\ Total(H, s) = H[Chosen(s)] + Total(H, t)
  BY <1>4, <1>5, TotalChosen
<1> PICK a \in Int : a = F[Chosen(s)]
  BY <1>6
<1> PICK b \in Int : b = G[Chosen(s)]
  BY <1>6
<1>9. H[Chosen(s)] = a - b
  BY <1>6
<1>10. QED
  BY <1>2, <1>4, <1>6, <1>7, <1>8, <1>9

LEMMA TotalNat ==
  ASSUME NEW F, NEW S, IsFiniteSet(S), \A x \in S : F[x] \in Nat
  PROVE  Total(F, S) \in Nat
<1> DEFINE C == {s \in SUBSET S : Total(F, s) \notin Nat}
<1>1. SUFFICES ASSUME C # {} PROVE FALSE
  OBVIOUS
<1>2. \A s \in C : IsFiniteSet(s)
  BY FS_Subset
<1> HIDE DEF C
<1>3. PICK s \in C : \A t \in C : ~ (Cardinality(t) < Cardinality(s))
  BY <1>1, <1>2, Smallest
<1>4. s \in SUBSET S /\ Total(F, s) \notin Nat /\ IsFiniteSet(s)
  BY <1>2 DEF C
<1>5. s # {}
  BY <1>4, TotalEmpty
<1> PICK t : t = s \ {Chosen(s)}
  OBVIOUS
<1>6. Chosen(s) \in s /\ Cardinality(t) < Cardinality(s) /\ t \in SUBSET S
  BY <1>4, <1>5, ChosenIn, Smaller
<1>7. Total(F, t) \in Nat
  BY <1>3, <1>6 DEF C
<1>8. Total(F, s) = F[Chosen(s)] + Total(F, t)
  BY <1>4, <1>5, TotalChosen
<1> PICK a \in Nat : a = F[Chosen(s)]
  BY <1>4, <1>6
<1>9. QED
  BY <1>4, <1>7, <1>8

LEMMA TotalUnion ==
  ASSUME NEW F, NEW A, NEW B, IsFiniteSet(A), IsFiniteSet(B), A \cap B = {},
         \A x \in A \cup B : F[x] \in Int
  PROVE  Total(F, A \cup B) = Total(F, A) + Total(F, B)
<1> DEFINE C == {s \in SUBSET B : Total(F, A \cup s) # Total(F, A) + Total(F, s)}
<1>1. SUFFICES ASSUME C # {} PROVE FALSE
  OBVIOUS
<1>2. \A s \in SUBSET B : IsFiniteSet(s) /\ Total(F, s) \in Int
  BY FS_Subset, TotalType
<1>3. Total(F, A) \in Int
  BY TotalType
<1> HIDE DEF C
<1>4. PICK s \in C : \A t \in C : ~ (Cardinality(t) < Cardinality(s))
  <2>1. \A s \in C : IsFiniteSet(s)
    BY <1>2 DEF C
  <2>2. QED
    BY <1>1, <2>1, Smallest
<1>5. s \in SUBSET B /\ Total(F, A \cup s) # Total(F, A) + Total(F, s) /\ IsFiniteSet(s)
  BY <1>2 DEF C
<1>6. s # {}
  <2>1. A \cup {} = A
    OBVIOUS
  <2>2. QED
    BY <1>3, <1>5, <2>1, TotalEmpty
<1> PICK x : x = Chosen(s)
  OBVIOUS
<1> PICK t : t = s \ {x}
  OBVIOUS
<1>7. x \in B /\ x \notin A /\ Cardinality(t) < Cardinality(s) /\ t \in SUBSET B
  BY <1>5, <1>6, ChosenIn, Smaller
<1>8. Total(F, A \cup t) = Total(F, A) + Total(F, t)
  BY <1>4, <1>7 DEF C
<1> PICK U : U = A \cup t
  OBVIOUS
<1>9. A \cup s = U \cup {x} /\ x \notin U /\ IsFiniteSet(U) /\ \A y \in U \cup {x} : F[y] \in Int
  BY <1>2, <1>5, <1>6, <1>7, ChosenIn, FS_Union
<1>10. Total(F, A \cup s) = Total(F, U) + F[x]
  BY <1>9, TotalAdd
<1>11. Total(F, s) = F[x] + Total(F, t)
  BY <1>5, <1>6, TotalChosen
<1> PICK a \in Int : a = F[x]
  BY <1>7
<1>12. QED
  BY <1>2, <1>3, <1>5, <1>7, <1>8, <1>10, <1>11

LEMMA TotalSubset ==
  ASSUME NEW F, NEW B, IsFiniteSet(B), NEW A \in SUBSET B, \A x \in B : F[x] \in Nat
  PROVE  Total(F, A) <= Total(F, B)
<1> PICK R : R = B \ A
  OBVIOUS
<1>1. IsFiniteSet(A) /\ IsFiniteSet(R) /\ A \cap R = {} /\ A \cup R = B
  BY FS_Subset
<1>2. Total(F, A) \in Nat /\ Total(F, R) \in Nat
  BY <1>1, TotalNat
<1>3. \A x \in A \cup R : F[x] \in Int
  BY <1>1
<1>4. Total(F, B) = Total(F, A) + Total(F, R)
  BY <1>1, <1>3, TotalUnion
<1>5. QED
  BY <1>2, <1>4

\* The sum over a union of disjoint parts is the sum of the sums over the parts.
Joined(X, U, s) == {x \in U : \E a \in s : x \in X[a]}

LEMMA TotalParts ==
  ASSUME NEW F, NEW U, IsFiniteSet(U), \A x \in U : F[x] \in Int,
         NEW A, IsFiniteSet(A), NEW X, \A a \in A : X[a] \in SUBSET U,
         \A a, b \in A : a # b => X[a] \cap X[b] = {},
         NEW P, \A a \in A : P[a] = Total(F, X[a])
  PROVE  Total(P, A) = Total(F, Joined(X, U, A))
<1> DEFINE C == {s \in SUBSET A : Total(P, s) # Total(F, Joined(X, U, s))}
<1>1. SUFFICES ASSUME C # {} PROVE FALSE
  OBVIOUS
<1>2. \A s \in SUBSET A : IsFiniteSet(s)
  BY FS_Subset
<1> HIDE DEF C
<1>3. PICK s \in C : \A t \in C : ~ (Cardinality(t) < Cardinality(s))
  <2>1. \A s \in C : IsFiniteSet(s)
    BY <1>2 DEF C
  <2>2. QED
    BY <1>1, <2>1, Smallest
<1>4. s \in SUBSET A /\ Total(P, s) # Total(F, Joined(X, U, s)) /\ IsFiniteSet(s)
  BY <1>2 DEF C
<1>5. s # {}
  <2>1. Joined(X, U, {}) = {}
    BY DEF Joined
  <2>2. QED
    BY <1>4, <2>1, TotalEmpty
<1> PICK a : a = Chosen(s)
  OBVIOUS
<1> PICK t : t = s \ {a}
  OBVIOUS
<1>6. /\ a \in s /\ a \in A /\ a \notin t /\ s = t \cup {a}
      /\ Cardinality(t) < Cardinality(s) /\ t \in SUBSET A
  BY <1>4, <1>5, ChosenIn, Smaller
<1>7. Total(P, t) = Total(F, Joined(X, U, t))
  BY <1>3, <1>6 DEF C
<1> PICK J : J = Joined(X, U, t)
  OBVIOUS
<1> PICK Y : Y = X[a]
  OBVIOUS
<1>8. /\ Joined(X, U, s) = J \cup Y /\ J \cap Y = {} /\ J \in SUBSET U /\ Y \in SUBSET U
  <2>1. Y \in SUBSET U
    BY <1>6
  <2>2. \A x \in U : x \in Joined(X, U, s) <=> x \in J \/ x \in Y
    BY <1>6 DEF Joined
  <2>3. \A x \in U : x \in J => x \notin Y
    BY <1>6 DEF Joined
  <2>4. Joined(X, U, s) \subseteq U /\ J \subseteq U
    BY DEF Joined
  <2>5. QED
    BY <2>1, <2>2, <2>3, <2>4
<1>9. IsFiniteSet(J) /\ IsFiniteSet(Y) /\ \A x \in J \cup Y : F[x] \in Int
  BY <1>8, FS_Subset
<1>10. Total(F, J \cup Y) = Total(F, J) + Total(F, Y)
  BY <1>8, <1>9, TotalUnion
<1>11. Total(P, s) = P[a] + Total(P, t)
  BY <1>4, <1>5, TotalChosen
<1>12. Total(F, J) \in Int /\ Total(F, Y) \in Int /\ P[a] = Total(F, Y)
  BY <1>6, <1>9, TotalType
<1>13. QED
  BY <1>4, <1>7, <1>8, <1>10, <1>11, <1>12

-----------------------------------------------------------------------------
(***************************************************************************)
(* Pages.                                                                  *)
(***************************************************************************)

\* The recursive function behind FlattenSeq: flat[i] is the first i pages, joined.
Joins(flat, pages) ==
  flat = [i \in 1..Len(pages) |-> IF i = 1 THEN pages[i] ELSE flat[i - 1] \o pages[i]]

\* The recursion has at most one solution.
LEMMA JoinsUnique ==
  ASSUME NEW pages, Len(pages) \in Nat, NEW f, NEW g, Joins(f, pages), Joins(g, pages),
         NEW i \in 1..Len(pages)
  PROVE  f[i] = g[i]
<1> DEFINE C == {j \in 1..Len(pages) : f[j] # g[j]}
<1>1. SUFFICES ASSUME C # {} PROVE FALSE
  OBVIOUS
<1>2. C \in SUBSET Nat
  OBVIOUS
<1> HIDE DEF C
<1>3. PICK j \in C : \A m \in C : ~ (m < j)
  BY <1>1, <1>2, LeastNumber
<1>4. j \in 1..Len(pages) /\ f[j] # g[j]
  BY DEF C
<1>5. /\ f[j] = IF j = 1 THEN pages[j] ELSE f[j - 1] \o pages[j]
      /\ g[j] = IF j = 1 THEN pages[j] ELSE g[j - 1] \o pages[j]
  BY <1>4 DEF Joins
<1>6. j # 1 /\ f[j - 1] # g[j - 1]
  BY <1>4, <1>5
<1>7. j - 1 \in 1..Len(pages) /\ j - 1 < j
  BY <1>4, <1>6
<1>8. j - 1 \in C
  BY <1>6, <1>7 DEF C
<1>9. QED
  BY <1>3, <1>7, <1>8

\* What FlattenSeq is, in terms of any solution.
LEMMA FlattenIs ==
  ASSUME NEW pages, Len(pages) \in Nat \ {0}, NEW f, Joins(f, pages)
  PROVE  FlattenSeq(pages) = f[Len(pages)]
<1> PICK n : n = Len(pages)
  OBVIOUS
<1> DEFINE G == CHOOSE h : h = [i \in 1..Len(pages) |->
                              IF i = 1 THEN pages[i] ELSE h[i - 1] \o pages[i]]
<1>1. FlattenSeq(pages) = G[Len(pages)]
  BY DEF FlattenSeq
<1> PICK g : g = G
  OBVIOUS
<1>2. f = [i \in 1..Len(pages) |-> IF i = 1 THEN pages[i] ELSE f[i - 1] \o pages[i]]
  BY DEF Joins
<1>3. g = [i \in 1..Len(pages) |-> IF i = 1 THEN pages[i] ELSE g[i - 1] \o pages[i]]
  BY <1>2
<1> HIDE DEF G
<1>4. Joins(g, pages)
  BY <1>3 DEF Joins
<1>5. g[Len(pages)] = f[Len(pages)]
  BY <1>4, JoinsUnique
<1>6. QED
  BY <1>1, <1>5

\* The n pages are the slices between the cuts of a list.
Sliced(pages, n, list, cut) ==
  /\ Len(pages) = n /\ cut[0] = 0 /\ cut[n] = Len(list)
  /\ \A p \in 0..n : cut[p] \in 0..Len(list)
  /\ \A p \in 1..n : cut[p - 1] <= cut[p] /\ pages[p] = SubSeq(list, cut[p - 1] + 1, cut[p])

\* Joined, they are the list.
LEMMA SlicesJoin ==
  ASSUME NEW S, NEW list \in Seq(S), NEW n \in Nat \ {0},
         NEW cut, NEW pages, Sliced(pages, n, list, cut)
  PROVE  FlattenSeq(pages) = list
<1> USE DEF Sliced
<1> DEFINE flat == [p \in 1..n |-> SubSeq(list, 1, cut[p])]
<1>1. ASSUME NEW p \in 1..n
      PROVE  flat[p] = IF p = 1 THEN pages[p] ELSE flat[p - 1] \o pages[p]
  <2>1. CASE p = 1
    <3>1. p - 1 = 0 /\ cut[0] + 1 = 1
      BY <2>1
    <3>2. QED
      BY <2>1, <3>1
  <2>2. CASE p # 1
    <3>1. p - 1 \in 1..n /\ p - 1 \in 0..n /\ p \in 0..n /\ Len(list) \in Nat
      BY <2>2
    <3> PICK k : k = cut[p - 1]
      OBVIOUS
    <3> PICK m : m = cut[p]
      OBVIOUS
    <3>2. k \in 0..Len(list) /\ m \in 0..Len(list) /\ k <= m
      BY <3>1
    <3>3. 1 \in 1..Len(list) + 1 /\ k \in 1 - 1..Len(list) /\ m \in k..Len(list)
      BY <3>1, <3>2
    <3>4. SubSeq(list, 1, k) \o SubSeq(list, k + 1, m) = SubSeq(list, 1, m)
      BY <3>3, ConcatAdjacentSubSeq
    <3>5. flat[p - 1] = SubSeq(list, 1, k) /\ flat[p] = SubSeq(list, 1, m)
      BY <3>1
    <3>6. pages[p] = SubSeq(list, k + 1, m)
      OBVIOUS
    <3>7. QED
      BY <2>2, <3>4, <3>5, <3>6
  <2>3. QED
    BY <2>1, <2>2
<1>2. flat = [p \in 1..n |-> IF p = 1 THEN pages[p] ELSE flat[p - 1] \o pages[p]]
  BY <1>1
<1>3. n \in 1..n /\ flat[n] = SubSeq(list, 1, Len(list))
  OBVIOUS
<1> HIDE DEF flat
<1>4. Joins(flat, pages)
  BY <1>2 DEF Joins
<1>5. QED
  BY <1>3, <1>4, FlattenIs, SubSeqFull

\* The first n pages of a list, OFFSET (p - 1) * size LIMIT size.
Paged(pages, n, list, size) ==
  /\ pages = [p \in 1..n |-> pages[p]]
  /\ \A p \in 1..n : pages[p] = SubSeq(list, (p - 1) * size + 1,
                                      IF p * size < Len(list) THEN p * size ELSE Len(list))

\* If they are enough, they are the list when joined, whatever the size.
LEMMA PagesJoin ==
  ASSUME NEW S, NEW list \in Seq(S), NEW n \in Nat, Len(list) <= n, NEW size \in Nat \ {0},
         NEW pages, Paged(pages, n, list, size)
  PROVE  FlattenSeq(pages) = list
<1> USE DEF Paged
<1> DEFINE Cut(p) == IF p * size < Len(list) THEN p * size ELSE Len(list)
           cut == [p \in 0..n |-> Cut(p)]
<1>1. Len(list) \in Nat /\ Len(pages) = n
  OBVIOUS
<1>2. CASE n = 0
  <2>1. list = <<>> /\ pages = <<>>
    BY <1>1, <1>2
  <2>2. QED
    BY <1>1, <1>2, <2>1 DEF FlattenSeq
<1>3. CASE n # 0
  <2>1. \A p \in 0..n : p * size \in Nat /\ p <= p * size /\ Cut(p) \in 0..Len(list)
    BY <1>1
  <2>2. cut[0] = 0 /\ cut[n] = Len(list)
    <3>1. 0 * size = 0 /\ 0 \in 0..n /\ n \in 0..n
      OBVIOUS
    <3>2. Cut(0) = 0 /\ Cut(n) = Len(list)
      BY <1>1, <2>1, <3>1
    <3>3. QED
      BY <3>1, <3>2
  <2>3. ASSUME NEW p \in 1..n
        PROVE  /\ cut[p - 1] <= cut[p]
               /\ pages[p] = SubSeq(list, cut[p - 1] + 1, cut[p])
    <3>1. p - 1 \in 0..n /\ p \in 0..n
      OBVIOUS
    <3> PICK a : a = (p - 1) * size
      OBVIOUS
    <3> PICK b : b = p * size
      OBVIOUS
    <3>2. a \in Nat /\ b \in Nat /\ b = a + size
      BY <2>1, <3>1
    <3>3. Cut(p - 1) = (IF a < Len(list) THEN a ELSE Len(list))
          /\ Cut(p) = (IF b < Len(list) THEN b ELSE Len(list))
      OBVIOUS
    <3>4. cut[p - 1] = Cut(p - 1) /\ cut[p] = Cut(p)
      BY <3>1
    <3>5. pages[p] = SubSeq(list, a + 1, cut[p])
      BY <3>3, <3>4
    <3> HIDE DEF cut, Cut
    <3>6. CASE a < Len(list)
      <4>1. cut[p - 1] = a
        BY <3>3, <3>4, <3>6
      <4>2. a <= cut[p]
        BY <1>1, <3>2, <3>3, <3>4, <3>6
      <4>3. QED
        BY <3>5, <4>1, <4>2
    <3>7. CASE ~ (a < Len(list))
      <4>1. cut[p - 1] = Len(list) /\ cut[p] = Len(list)
        BY <1>1, <3>2, <3>3, <3>4, <3>7
      <4>2. pages[p] = SubSeq(list, a + 1, Len(list)) /\ Len(list) < a + 1
        BY <1>1, <3>2, <3>5, <3>7
      <4>3. a + 1 \in Int /\ Len(list) \in Int /\ Len(list) + 1 \in Int
            /\ Len(list) < Len(list) + 1
        BY <1>1, <3>2
      <4>4. SubSeq(list, a + 1, Len(list)) = <<>>
        BY <4>2, <4>3, SubSeqEmpty
      <4>5. SubSeq(list, Len(list) + 1, Len(list)) = <<>>
        BY <4>3, SubSeqEmpty
      <4>6. QED
        BY <1>1, <4>1, <4>2, <4>4, <4>5
    <3>8. QED
      BY <3>6, <3>7
  <2>4. \A p \in 0..n : cut[p] \in 0..Len(list)
    BY <2>1
  <2> HIDE DEF cut, Cut
  <2>5. Sliced(pages, n, list, cut)
    BY <1>1, <2>2, <2>3, <2>4 DEF Sliced
  <2>6. n \in Nat \ {0}
    BY <1>3
  <2>7. QED
    BY <2>5, <2>6, SlicesJoin
<1>4. QED
  BY <1>2, <1>3
=============================================================================
