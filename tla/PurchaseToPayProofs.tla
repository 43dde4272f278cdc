------------------------ MODULE PurchaseToPayProofs ------------------------
(***************************************************************************)
(* Proofs about Finance, about Procurement with the Inventory it posts to, *)
(* and about Contracts (documents and commercial records), for any number  *)
(* of documents, vendors, lines, receipts, movements and records.          *)
(*                                                                         *)
(* All add amounts up.  The sum of a finite set is a fold, a function      *)
(* defined by recursion on subsets; that the function exists, and that the *)
(* order it takes the elements in does not matter, follows from the well-  *)
(* foundedness of strict inclusion among finite sets, used in the form "a  *)
(* nonempty set of subsets of a finite set has a minimal member".  The     *)
(* first section says so, the others use it.                               *)
(*                                                                         *)
(* Finance: its types, that the ledger agrees with the documents, that     *)
(* posting into the document's own period is fenced, and that the books of *)
(* the invoice close.  The balance of a source is a sum over its entries.  *)
(* InvoiceInv and PaymentInv say what those entries are while the document *)
(* can still be reversed; that they and their reversals cancel out is      *)
(* SumOfPairs.                                                             *)
(*                                                                         *)
(* Procurement: Sound says of any books what StockIsLedger and             *)
(* ValueIsConserved say of the current ones: one posting of a movement     *)
(* preserves it, so the fold of them over the lines of a receipt does.     *)
(*                                                                         *)
(* Contracts: every transition locks the one policy row, so at most one    *)
(* transaction is open, and what it has read (RevisionTxOK, VariationTxOK) *)
(* is still the table at its commit.  A document names an issued revision  *)
(* of its own (Controlled); a contract's value is its original value and   *)
(* what its variations added, each as often as it was approved (Agreed,    *)
(* Varied); in a policy that approves for good a variation that was        *)
(* approved is at a status it cannot be approved from again (Spent).       *)
(***************************************************************************)
EXTENDS Finance, Procurement, Contracts, Functions, FiniteSetTheorems, SequenceTheorems, TLAPS

-----------------------------------------------------------------------------
(* Sums: SumFunctionOnSet adds f[x] for the x in a finite set.             *)

Pick(s) == CHOOSE x \in s : TRUE

\* g computes the sum of f for every subset of S.
Sums(f, S, g) ==
  g = [s \in SUBSET S |-> IF s = {} THEN 0 ELSE f[Pick(s)] + g[s \ {Pick(s)}]]

LEMMA MinimalSubset ==
  ASSUME NEW S, IsFiniteSet(S), NEW F \in SUBSET (SUBSET S), F # {}
  PROVE  \E T \in F : \A U \in F : U \subseteq T => U = T
<1> DEFINE R == StrictSubsetOrdering(S)
<1>1. IsWellFoundedOn(R, FiniteSubsetsOf(S)) /\ FiniteSubsetsOf(S) = SUBSET S
  BY FS_StrictSubsetOrderingWellFounded, FS_FiniteSubsetsOfFinite
<1> HIDE DEF R
<1>2. PICK T \in F : \A U \in F : ~(<<U, T>> \in R)
  BY <1>1, WFMin
<1>3. ASSUME NEW U \in F, U \subseteq T, U # T PROVE FALSE
  <2>1. <<U, T>> \in R
    BY <1>3 DEF R, StrictSubsetOrdering
  <2>2. QED BY <1>2, <2>1
<1>4. QED BY <1>3

LEMMA SumIsVal ==
  ASSUME NEW f, NEW S
  PROVE  SumFunctionOnSet(f, S) = (CHOOSE g : Sums(f, S, g))[S]
BY DEF SumFunctionOnSet, FoldFunctionOnSet, MapThenFoldSet, Sums, Pick

LEMMA PickIn == \A s : s # {} => Pick(s) \in s
BY DEF Pick

LEMMA SumsStep ==
  ASSUME NEW f, NEW S, NEW g, Sums(f, S, g), NEW s \in SUBSET S
  PROVE  g[s] = IF s = {} THEN 0 ELSE f[Pick(s)] + g[s \ {Pick(s)}]
BY DEF Sums

LEMMA SumsUnique ==
  ASSUME NEW f, NEW S, NEW T, IsFiniteSet(S), NEW g, NEW h, Sums(f, S, g), Sums(f, T, h),
         NEW r, r \subseteq S, r \subseteq T
  PROVE  g[r] = h[r]
<1> DEFINE F == {s \in SUBSET S : s \subseteq T /\ g[s] # h[s]}
<1> SUFFICES ASSUME F # {} PROVE FALSE
  OBVIOUS
<1>0. F \in SUBSET (SUBSET S) /\ F # {}
  OBVIOUS
<1>1. PICK s \in F : \A u \in F : u \subseteq s => u = s
  <2> HIDE DEF F
  <2>1. QED BY <1>0, MinimalSubset
<1>2. s \in SUBSET S /\ s \in SUBSET T /\ g[s] # h[s]
  OBVIOUS
<1>3. /\ g[s] = IF s = {} THEN 0 ELSE f[Pick(s)] + g[s \ {Pick(s)}]
      /\ h[s] = IF s = {} THEN 0 ELSE f[Pick(s)] + h[s \ {Pick(s)}]
  BY <1>2, SumsStep
<1>4. s # {}
  BY <1>2, <1>3
<1> DEFINE u == s \ {Pick(s)}
<1>5. u \subseteq s /\ u # s /\ u \in SUBSET S /\ u \subseteq T
  BY <1>2, <1>4, PickIn
<1>6. g[u] = h[u]
  BY <1>1, <1>5
<1>7. QED BY <1>2, <1>3, <1>4, <1>6

LEMMA SumsExist ==
  ASSUME NEW f, NEW S, IsFiniteSet(S)
  PROVE  \E g : Sums(f, S, g)
<1> DEFINE F == {T \in SUBSET S : ~\E g : Sums(f, T, g)}
<1> SUFFICES ASSUME F # {} PROVE FALSE
  OBVIOUS
<1>0. F \in SUBSET (SUBSET S) /\ F # {}
  OBVIOUS
<1>1. PICK T \in F : \A U \in F : U \subseteq T => U = T
  <2> HIDE DEF F
  <2>1. QED BY <1>0, MinimalSubset
<1>2. T \in SUBSET S /\ ~\E g : Sums(f, T, g)
  OBVIOUS
<1> DEFINE Val(s) == (CHOOSE g : Sums(f, s, g))[s]
           Best(s) == CHOOSE g : Sums(f, s, g)
<1>3. ASSUME NEW s \in SUBSET T, s # T
      PROVE  Sums(f, s, Best(s)) /\ IsFiniteSet(s)
  <2>1. s \in SUBSET S /\ s \notin F
    BY <1>1, <1>2, <1>3
  <2>2. \E g : Sums(f, s, g)
    BY <2>1
  <2>3. Sums(f, s, Best(s))
    BY <2>2
  <2>4. IsFiniteSet(s)
    BY <2>1, FS_Subset
  <2>5. QED BY <2>3, <2>4
<1> DEFINE g == [s \in SUBSET T |-> IF s = {} THEN 0
                                    ELSE f[Pick(s)] + Val(s \ {Pick(s)})]
<1>4. \A s \in SUBSET T : s # T => Val(s) = g[s]
  <2> SUFFICES ASSUME NEW s \in SUBSET T, s # T PROVE Val(s) = g[s]
    OBVIOUS
  <2> DEFINE u == s \ {Pick(s)}
  <2>1. Sums(f, s, Best(s)) /\ IsFiniteSet(s)
    BY <1>3
  <2>2. s \in SUBSET s
    OBVIOUS
  <2>3. Val(s) = Best(s)[s]
    OBVIOUS
  <2> HIDE DEF Best, Val
  <2>4. Val(s) = IF s = {} THEN 0 ELSE f[Pick(s)] + Best(s)[u]
    BY <2>1, <2>2, <2>3, SumsStep
  <2>5. CASE s = {}
    BY <2>4, <2>5
  <2>6. CASE s # {}
    <3>1. u \in SUBSET T /\ u # T /\ u \subseteq s
      BY <2>6, PickIn
    <3>2. Sums(f, u, Best(u))
      BY <1>3, <3>1
    <3>3. Best(s)[u] = Best(u)[u]
      BY <2>1, <3>1, <3>2, SumsUnique
    <3>4. Best(u)[u] = Val(u)
      BY DEF Best, Val
    <3>5. QED BY <2>4, <2>6, <3>3, <3>4
  <2>7. QED BY <2>5, <2>6
<1> HIDE DEF Val
<1>5. \A s \in SUBSET T : s # {} => Val(s \ {Pick(s)}) = g[s \ {Pick(s)}]
  <2> SUFFICES ASSUME NEW s \in SUBSET T, s # {}
               PROVE  Val(s \ {Pick(s)}) = g[s \ {Pick(s)}]
    OBVIOUS
  <2>1. s \ {Pick(s)} \in SUBSET T /\ s \ {Pick(s)} # T
    BY PickIn
  <2> HIDE DEF g
  <2>2. QED BY <1>4, <2>1
<1>6. g = [s \in SUBSET T |-> IF s = {} THEN 0 ELSE f[Pick(s)] + g[s \ {Pick(s)}]]
  BY <1>5
<1>7. Sums(f, T, g)
  <2> HIDE DEF g
  <2>1. QED BY <1>6 DEF Sums
<1> HIDE DEF g
<1>8. QED BY <1>2, <1>7

LEMMA SumIsSums ==
  ASSUME NEW f, NEW S, IsFiniteSet(S)
  PROVE  \E g : Sums(f, S, g) /\ SumFunctionOnSet(f, S) = g[S]
BY SumsExist, SumIsVal

LEMMA SumOfSubset ==
  ASSUME NEW f, NEW S, IsFiniteSet(S), NEW g, Sums(f, S, g), NEW s \in SUBSET S
  PROVE  g[s] = SumFunctionOnSet(f, s)
<1>1. IsFiniteSet(s)
  BY FS_Subset
<1>2. PICK h : Sums(f, s, h) /\ SumFunctionOnSet(f, s) = h[s]
  BY <1>1, SumIsSums
<1>3. g[s] = h[s]
  BY <1>2, SumsUnique
<1>4. QED BY <1>2, <1>3

\* The empty sum is 0.
LEMMA SumEmpty == \A f : SumFunctionOnSet(f, {}) = 0
<1> SUFFICES ASSUME NEW f PROVE SumFunctionOnSet(f, {}) = 0
  OBVIOUS
<1>1. PICK g : Sums(f, {}, g) /\ SumFunctionOnSet(f, {}) = g[{}]
  BY SumIsSums, FS_EmptySet
<1>2. g[{}] = 0
  BY <1>1, SumsStep
<1>3. QED BY <1>1, <1>2

LEMMA SumUnfold ==
  ASSUME NEW f, NEW S, IsFiniteSet(S), S # {}
  PROVE  SumFunctionOnSet(f, S) = f[Pick(S)] + SumFunctionOnSet(f, S \ {Pick(S)})
<1>1. PICK g : Sums(f, S, g) /\ SumFunctionOnSet(f, S) = g[S]
  BY SumIsSums
<1>2. g[S] = f[Pick(S)] + g[S \ {Pick(S)}]
  <2>1. S \in SUBSET S
    OBVIOUS
  <2>2. g[S] = IF S = {} THEN 0 ELSE f[Pick(S)] + g[S \ {Pick(S)}]
    BY <1>1, <2>1, SumsStep
  <2>3. QED BY <2>2
<1>3. g[S \ {Pick(S)}] = SumFunctionOnSet(f, S \ {Pick(S)})
  <2>1. Sums(f, S, g)
    BY <1>1
  <2>2. \A s \in SUBSET S : g[s] = SumFunctionOnSet(f, s)
    BY <2>1, SumOfSubset
  <2>3. S \ {Pick(S)} \in SUBSET S
    OBVIOUS
  <2>4. QED BY <2>2, <2>3
<1>4. QED BY <1>1, <1>2, <1>3

\* A sum of integers is an integer.
LEMMA SumTyped ==
  ASSUME NEW f, NEW S, IsFiniteSet(S), \A x \in S : f[x] \in Int
  PROVE  SumFunctionOnSet(f, S) \in Int
<1> DEFINE F == {T \in SUBSET S : SumFunctionOnSet(f, T) \notin Int}
<1> SUFFICES ASSUME F # {} PROVE FALSE
  OBVIOUS
<1>1. F \in SUBSET (SUBSET S) /\ F # {}
  OBVIOUS
<1>2. PICK T \in F : \A U \in F : U \subseteq T => U = T
  <2> HIDE DEF F
  <2>1. QED BY <1>1, MinimalSubset
<1>3. T \in SUBSET S /\ SumFunctionOnSet(f, T) \notin Int
  OBVIOUS
<1>4. T # {}
  BY <1>3, SumEmpty
<1>5. IsFiniteSet(T) /\ Pick(T) \in T
  BY <1>3, <1>4, FS_Subset, PickIn
<1> DEFINE U == T \ {Pick(T)}
<1>6. SumFunctionOnSet(f, T) = f[Pick(T)] + SumFunctionOnSet(f, U)
  BY <1>4, <1>5, SumUnfold
<1>7. SumFunctionOnSet(f, U) \in Int
  BY <1>2, <1>3, <1>5
<1>8. f[Pick(T)] \in Int
  BY <1>3, <1>5
<1>9. QED BY <1>3, <1>6, <1>7, <1>8

\* Any element can be taken out first.
LEMMA SumRemove ==
  ASSUME NEW f, NEW S, IsFiniteSet(S), \A x \in S : f[x] \in Int, NEW z \in S
  PROVE  SumFunctionOnSet(f, S) = f[z] + SumFunctionOnSet(f, S \ {z})
<1> DEFINE F == {T \in SUBSET S : \E x \in T :
                   SumFunctionOnSet(f, T) # f[x] + SumFunctionOnSet(f, T \ {x})}
<1> SUFFICES ASSUME F # {} PROVE FALSE
  <2>1. S \in SUBSET S
    OBVIOUS
  <2>2. QED BY <2>1
<1>1. F \in SUBSET (SUBSET S) /\ F # {}
  OBVIOUS
<1>2. PICK T \in F : \A U \in F : U \subseteq T => U = T
  <2> HIDE DEF F
  <2>1. QED BY <1>1, MinimalSubset
<1>3. PICK x \in T : SumFunctionOnSet(f, T) # f[x] + SumFunctionOnSet(f, T \ {x})
  OBVIOUS
<1>4. ASSUME NEW U, U \subseteq T, U # T, NEW u \in U
      PROVE  SumFunctionOnSet(f, U) = f[u] + SumFunctionOnSet(f, U \ {u})
  <2>1. U \in SUBSET S /\ U \notin F
    BY <1>2, <1>4
  <2>2. QED BY <2>1, <1>4
<1>5. T \in SUBSET S /\ T # {}
  OBVIOUS
<1> HIDE DEF F
<1> DEFINE y == Pick(T)
           R == T \ {x, y}
<1>6. IsFiniteSet(T) /\ y \in T
  BY <1>5, FS_Subset, PickIn
<1>7. SumFunctionOnSet(f, T) = f[y] + SumFunctionOnSet(f, T \ {y})
  BY <1>5, <1>6, SumUnfold
<1> HIDE DEF y
<1>8. x # y
  BY <1>3, <1>7
<1>9. SumFunctionOnSet(f, T \ {y}) = f[x] + SumFunctionOnSet(f, R)
  <2>1. T \ {y} \subseteq T /\ T \ {y} # T /\ x \in T \ {y} /\ (T \ {y}) \ {x} = R
    BY <1>6, <1>8
  <2>2. QED BY <1>4, <2>1
<1>10. SumFunctionOnSet(f, T \ {x}) = f[y] + SumFunctionOnSet(f, R)
  <2>1. T \ {x} \subseteq T /\ T \ {x} # T /\ y \in T \ {x} /\ (T \ {x}) \ {y} = R
    BY <1>6, <1>8
  <2>2. QED BY <1>4, <2>1
<1>11. f[x] \in Int /\ f[y] \in Int /\ SumFunctionOnSet(f, R) \in Int
  <2>1. R \subseteq S /\ IsFiniteSet(R)
    BY <1>5, FS_Subset
  <2>2. SumFunctionOnSet(f, R) \in Int
    BY <2>1, SumTyped
  <2>3. QED BY <2>2, <1>5, <1>6
<1>12. QED BY <1>3, <1>7, <1>9, <1>10, <1>11

\* An element is added.
LEMMA SumAdd ==
  ASSUME NEW f, NEW S, IsFiniteSet(S), NEW z, z \notin S,
         f[z] \in Int, \A x \in S : f[x] \in Int
  PROVE  SumFunctionOnSet(f, S \cup {z}) = f[z] + SumFunctionOnSet(f, S)
<1>1. IsFiniteSet(S \cup {z}) /\ (S \cup {z}) \ {z} = S /\ z \in S \cup {z}
  BY FS_AddElement
<1>2. \A x \in S \cup {z} : f[x] \in Int
  OBVIOUS
<1>3. QED BY <1>1, <1>2, SumRemove

LEMMA SumOfOne ==
  ASSUME NEW f, NEW z, f[z] \in Int
  PROVE  SumFunctionOnSet(f, {z}) = f[z]
<1>1. SumFunctionOnSet(f, {} \cup {z}) = f[z] + SumFunctionOnSet(f, {})
  BY SumAdd, FS_EmptySet
<1>2. {} \cup {z} = {z} /\ SumFunctionOnSet(f, {}) = 0
  BY SumEmpty
<1>3. QED BY <1>1, <1>2

\* The sum depends on the values on the set only.
LEMMA SumSame ==
  ASSUME NEW f, NEW g, NEW S, IsFiniteSet(S), \A x \in S : f[x] = g[x]
  PROVE  SumFunctionOnSet(f, S) = SumFunctionOnSet(g, S)
<1> DEFINE F == {T \in SUBSET S : SumFunctionOnSet(f, T) # SumFunctionOnSet(g, T)}
<1> SUFFICES ASSUME F # {} PROVE FALSE
  <2>1. S \in SUBSET S
    OBVIOUS
  <2>2. QED BY <2>1
<1>1. F \in SUBSET (SUBSET S) /\ F # {}
  OBVIOUS
<1>2. PICK T \in F : \A U \in F : U \subseteq T => U = T
  <2> HIDE DEF F
  <2>1. QED BY <1>1, MinimalSubset
<1>3. T \in SUBSET S /\ SumFunctionOnSet(f, T) # SumFunctionOnSet(g, T)
  OBVIOUS
<1>4. T # {}
  <2>1. SumFunctionOnSet(f, {}) = 0 /\ SumFunctionOnSet(g, {}) = 0
    BY SumEmpty
  <2>2. QED BY <1>3, <2>1
<1>5. IsFiniteSet(T) /\ Pick(T) \in T
  BY <1>3, <1>4, FS_Subset, PickIn
<1> DEFINE U == T \ {Pick(T)}
<1>6. /\ SumFunctionOnSet(f, T) = f[Pick(T)] + SumFunctionOnSet(f, U)
      /\ SumFunctionOnSet(g, T) = g[Pick(T)] + SumFunctionOnSet(g, U)
  BY <1>4, <1>5, SumUnfold
<1>7. U \subseteq T /\ U # T /\ U \in SUBSET S
  BY <1>3, <1>5
<1>8. SumFunctionOnSet(f, U) = SumFunctionOnSet(g, U)
  BY <1>2, <1>7
<1>9. f[Pick(T)] = g[Pick(T)]
  BY <1>3, <1>5
<1>10. QED BY <1>3, <1>6, <1>8, <1>9

\* What comes in pairs of opposite worth sums to 0: mirror takes each element
\* to the other one of its pair.
LEMMA SumOfPairs ==
  ASSUME NEW f, NEW S, IsFiniteSet(S), \A x \in S : f[x] \in Int, NEW mirror,
         \A x \in S : /\ mirror[x] \in S \ {x} /\ mirror[mirror[x]] = x
                      /\ f[mirror[x]] = -f[x]
  PROVE  SumFunctionOnSet(f, S) = 0
<1> DEFINE F == {T \in SUBSET S : /\ \A x \in T : mirror[x] \in T
                                  /\ SumFunctionOnSet(f, T) # 0}
<1> SUFFICES ASSUME F # {} PROVE FALSE
  <2>1. S \in SUBSET S /\ \A x \in S : mirror[x] \in S
    OBVIOUS
  <2>2. QED BY <2>1
<1>1. F \in SUBSET (SUBSET S) /\ F # {}
  OBVIOUS
<1>2. PICK T \in F : \A U \in F : U \subseteq T => U = T
  <2> HIDE DEF F
  <2>1. QED BY <1>1, MinimalSubset
<1>3. /\ T \in SUBSET S /\ SumFunctionOnSet(f, T) # 0
      /\ \A x \in T : mirror[x] \in T
  OBVIOUS
<1>4. PICK x \in T : TRUE
  BY <1>3, SumEmpty
<1> DEFINE y == mirror[x]
           U == (T \ {x}) \ {y}
<1>5. x \in S /\ y \in T /\ y # x /\ f[y] = -f[x] /\ f[x] \in Int
  BY <1>3, <1>4
<1>6. IsFiniteSet(T) /\ IsFiniteSet(T \ {x}) /\ IsFiniteSet(U)
  BY <1>3, FS_Subset
<1>7. \A u \in U : mirror[u] \in U
  <2> SUFFICES ASSUME NEW u \in U PROVE mirror[u] \in U
    OBVIOUS
  <2>1. u \in S /\ mirror[u] \in T /\ mirror[mirror[u]] = u /\ mirror[y] = x
    BY <1>3, <1>5
  <2>2. mirror[u] # x /\ mirror[u] # y
    BY <2>1
  <2>3. QED BY <2>1, <2>2
<1>8. SumFunctionOnSet(f, U) = 0
  BY <1>2, <1>3, <1>4, <1>7
<1> HIDE DEF F
<1>9. SumFunctionOnSet(f, T) = f[x] + SumFunctionOnSet(f, T \ {x})
  BY <1>3, <1>4, <1>6, SumRemove
<1>10. SumFunctionOnSet(f, T \ {x}) = f[y] + SumFunctionOnSet(f, U)
  <2>1. y \in T \ {x} /\ \A z \in T \ {x} : f[z] \in Int
    BY <1>3, <1>5
  <2> HIDE DEF y
  <2>2. QED BY <1>6, <2>1, SumRemove
<1>11. QED BY <1>3, <1>5, <1>8, <1>9, <1>10

-----------------------------------------------------------------------------
(* The same for the fold of any step function: it exists.                  *)

Folds(step, pick, base, S, g) ==
  g = [s \in SUBSET S |->
         IF s = {} THEN base ELSE step[<<pick[s], g[s \ {pick[s]}]>>]]

LEMMA FoldsStep ==
  ASSUME NEW step, NEW pick, NEW base, NEW S, NEW g, Folds(step, pick, base, S, g),
         NEW s \in SUBSET S
  PROVE  g[s] = IF s = {} THEN base ELSE step[<<pick[s], g[s \ {pick[s]}]>>]
BY DEF Folds

LEMMA FoldsUnique ==
  ASSUME NEW step, NEW pick, NEW base, NEW S, NEW T, IsFiniteSet(S), NEW g, NEW h,
         \A s \in SUBSET S : s # {} => pick[s] \in s,
         Folds(step, pick, base, S, g), Folds(step, pick, base, T, h),
         NEW r, r \subseteq S, r \subseteq T
  PROVE  g[r] = h[r]
<1> DEFINE F == {s \in SUBSET S : s \subseteq T /\ g[s] # h[s]}
<1> SUFFICES ASSUME F # {} PROVE FALSE
  OBVIOUS
<1>1. F \in SUBSET (SUBSET S) /\ F # {}
  OBVIOUS
<1>2. PICK s \in F : \A u \in F : u \subseteq s => u = s
  <2> HIDE DEF F
  <2>1. QED BY <1>1, MinimalSubset
<1>3. s \in SUBSET S /\ s \in SUBSET T /\ g[s] # h[s]
  OBVIOUS
<1>4. /\ g[s] = IF s = {} THEN base ELSE step[<<pick[s], g[s \ {pick[s]}]>>]
      /\ h[s] = IF s = {} THEN base ELSE step[<<pick[s], h[s \ {pick[s]}]>>]
  <2>1. \A t \in SUBSET S : g[t] = IF t = {} THEN base ELSE step[<<pick[t], g[t \ {pick[t]}]>>]
    BY FoldsStep
  <2>2. \A t \in SUBSET T : h[t] = IF t = {} THEN base ELSE step[<<pick[t], h[t \ {pick[t]}]>>]
    BY FoldsStep
  <2>3. QED BY <1>3, <2>1, <2>2
<1> DEFINE u == s \ {pick[s]}
<1>5. s # {} /\ pick[s] \in s
  BY <1>3, <1>4
<1>6. g[u] = h[u]
  BY <1>2, <1>3, <1>5
<1>7. QED BY <1>3, <1>4, <1>6

LEMMA FoldsExist ==
  ASSUME NEW step, NEW pick, NEW base, NEW S, IsFiniteSet(S),
         \A s \in SUBSET S : s # {} => pick[s] \in s
  PROVE  \E g : Folds(step, pick, base, S, g)
<1> DEFINE F == {T \in SUBSET S : ~\E g : Folds(step, pick, base, T, g)}
<1> SUFFICES ASSUME F # {} PROVE FALSE
  OBVIOUS
<1>1. F \in SUBSET (SUBSET S) /\ F # {}
  OBVIOUS
<1>2. PICK T \in F : \A U \in F : U \subseteq T => U = T
  <2> HIDE DEF F
  <2>1. QED BY <1>1, MinimalSubset
<1>3. T \in SUBSET S /\ ~\E g : Folds(step, pick, base, T, g)
  OBVIOUS
<1> DEFINE Best(s) == CHOOSE g : Folds(step, pick, base, s, g)
           Val(s) == Best(s)[s]
<1>4. ASSUME NEW s \in SUBSET T, s # T
      PROVE  Folds(step, pick, base, s, Best(s)) /\ IsFiniteSet(s)
  <2>1. s \in SUBSET S /\ s \notin F
    BY <1>2, <1>3, <1>4
  <2>2. \E g : Folds(step, pick, base, s, g)
    BY <2>1
  <2>3. IsFiniteSet(s)
    BY <2>1, FS_Subset
  <2>4. QED BY <2>2, <2>3
<1> HIDE DEF Best
<1>5. ASSUME NEW s \in SUBSET T, s # T
      PROVE  Val(s) = IF s = {} THEN base ELSE step[<<pick[s], Val(s \ {pick[s]})>>]
  <2> DEFINE u == s \ {pick[s]}
  <2>1. Folds(step, pick, base, s, Best(s)) /\ IsFiniteSet(s) /\ s \in SUBSET s
    BY <1>4, <1>5
  <2>2. Best(s)[s] = IF s = {} THEN base ELSE step[<<pick[s], Best(s)[u]>>]
    BY <2>1, FoldsStep
  <2>3. CASE s = {}
    BY <2>2, <2>3
  <2>4. CASE s # {}
    <3>1. pick[s] \in s
      BY <1>3, <2>4
    <3>2. u \in SUBSET T /\ u # T /\ u \subseteq s /\ u \subseteq u
      BY <1>5, <3>1
    <3>3. Folds(step, pick, base, u, Best(u))
      BY <1>4, <3>2
    <3>4. \A t \in SUBSET s : t # {} => pick[t] \in t
      BY <1>3
    <3> HIDE DEF u
    <3>5. Best(s)[u] = Best(u)[u]
      BY <2>1, <3>2, <3>3, <3>4, FoldsUnique
    <3>6. QED BY <2>2, <2>4, <3>5 DEF u
  <2>5. QED BY <2>3, <2>4
<1> HIDE DEF Val
<1> DEFINE g == [s \in SUBSET T |->
                   IF s = {} THEN base ELSE step[<<pick[s], Val(s \ {pick[s]})>>]]
<1>6. \A s \in SUBSET T : s # {} => Val(s \ {pick[s]}) = g[s \ {pick[s]}]
  <2> SUFFICES ASSUME NEW s \in SUBSET T, s # {}
               PROVE  Val(s \ {pick[s]}) = g[s \ {pick[s]}]
    OBVIOUS
  <2> DEFINE u == s \ {pick[s]}
  <2>1. pick[s] \in s
    BY <1>3
  <2>2. u \in SUBSET T /\ u # T
    BY <2>1
  <2> HIDE DEF u
  <2>3. Val(u) = g[u]
    BY <1>5, <2>2
  <2>4. QED BY <2>3 DEF u
<1>7. g = [s \in SUBSET T |->
             IF s = {} THEN base ELSE step[<<pick[s], g[s \ {pick[s]}]>>]]
  BY <1>6
<1> HIDE DEF g
<1>8. Folds(step, pick, base, T, g)
  BY <1>7 DEF Folds
<1>9. QED BY <1>3, <1>8

\* A nonempty finite set of integers has a greatest element.
LEMMA GreatestExists ==
  ASSUME NEW S, IsFiniteSet(S), S # {}, \A x \in S : x \in Int
  PROVE  \E x \in S : \A y \in S : x >= y
<1> DEFINE F == {T \in SUBSET S : T # {} /\ ~\E x \in T : \A y \in T : x >= y}
<1> SUFFICES ASSUME F # {} PROVE FALSE
  OBVIOUS
<1>1. F \in SUBSET (SUBSET S) /\ F # {}
  OBVIOUS
<1>2. PICK T \in F : \A U \in F : U \subseteq T => U = T
  <2> HIDE DEF F
  <2>1. QED BY <1>1, MinimalSubset
<1>3. PICK z \in T : z \in Int
  OBVIOUS
<1> DEFINE U == T \ {z}
<1>4. U # {}
  OBVIOUS
<1>5. PICK x \in U : \A y \in U : x >= y
  <2>1. U \notin F /\ U \in SUBSET S
    BY <1>2
  <2>2. QED BY <1>4, <2>1
<1>6. T = U \cup {z} /\ x \in Int /\ U \subseteq Int /\ T \subseteq S
  OBVIOUS
<1>7. CASE x >= z
  BY <1>5, <1>6, <1>7
<1>8. CASE z >= x
  <2>1. \A y \in U : z >= y
    BY <1>3, <1>5, <1>6, <1>8
  <2>2. \A y \in T : z >= y
    BY <1>3, <1>6, <2>1
  <2>3. QED BY <2>2
<1>9. QED BY <1>3, <1>6, <1>7, <1>8

\* A one-to-one map of one set onto another carries the sum over.
LEMMA SumOfImage ==
  ASSUME NEW f, NEW g, NEW h, NEW S, IsFiniteSet(S),
         \A x, y \in S : h[x] = h[y] => x = y,
         \A x \in S : f[h[x]] = g[x] /\ g[x] \in Int
  PROVE  SumFunctionOnSet(f, {h[x] : x \in S}) = SumFunctionOnSet(g, S)
<1> DEFINE Im(T) == {h[x] : x \in T}
           F == {T \in SUBSET S : SumFunctionOnSet(f, Im(T)) # SumFunctionOnSet(g, T)}
<1> SUFFICES ASSUME F # {} PROVE FALSE
  <2>1. S \in SUBSET S
    OBVIOUS
  <2>2. QED BY <2>1
<1>1. F \in SUBSET (SUBSET S) /\ F # {}
  OBVIOUS
<1>2. PICK T \in F : \A U \in F : U \subseteq T => U = T
  <2> HIDE DEF F
  <2>1. QED BY <1>1, MinimalSubset
<1>3. T \in SUBSET S /\ SumFunctionOnSet(f, Im(T)) # SumFunctionOnSet(g, T)
  OBVIOUS
<1>4. T # {}
  <2>1. Im({}) = {} /\ SumFunctionOnSet(f, {}) = 0 /\ SumFunctionOnSet(g, {}) = 0
    BY SumEmpty
  <2>2. ASSUME T = {} PROVE FALSE
    BY <1>3, <2>1, <2>2
  <2>3. QED BY <2>2
<1> DEFINE z == Pick(T)
           U == T \ {z}
<1>5. z \in T /\ IsFiniteSet(T) /\ IsFiniteSet(U) /\ U \in SUBSET S
  BY <1>3, <1>4, FS_Subset, PickIn
<1>6. SumFunctionOnSet(f, Im(U)) = SumFunctionOnSet(g, U)
  <2>1. U \subseteq T /\ U # T
    BY <1>5
  <2>2. U \notin F
    BY <1>2, <2>1
  <2>3. QED BY <2>2, <1>5
<1> HIDE DEF F, z
<1>7. Im(T) = Im(U) \cup {h[z]} /\ h[z] \notin Im(U)
  BY <1>3, <1>5
<1>8. IsFiniteSet(Im(U))
  <2> DEFINE k == [x \in U |-> h[x]]
  <2>1. k \in Surjection(U, Im(U))
    BY DEF Surjection
  <2> HIDE DEF k, U
  <2>2. QED BY <1>5, <2>1, FS_Surjection
<1>9. f[h[z]] = g[z] /\ g[z] \in Int /\ (\A x \in T : g[x] \in Int)
      /\ \A y \in Im(U) : f[y] \in Int
  BY <1>3, <1>5
<1> HIDE DEF Im
<1>10. SumFunctionOnSet(f, Im(T)) = f[h[z]] + SumFunctionOnSet(f, Im(U))
  BY <1>7, <1>8, <1>9, SumAdd
<1>11. SumFunctionOnSet(g, T) = g[z] + SumFunctionOnSet(g, U)
  BY <1>5, <1>9, SumRemove
<1>12. QED BY <1>3, <1>6, <1>9, <1>10, <1>11

-----------------------------------------------------------------------------
(* Finance.                                                                *)

Sources == {Invoice} \cup Payment \cup Adjustment

EntryRow ==
  [source : Sources, fact : Facts, key : InvoiceLine \cup Keys, period : Period, amount : Int,
   late : BOOLEAN]

BaseInv == TypeOK /\ IsFiniteSet(ledger)

WorthOf(S) == SumFunctionOnSet([e \in S |-> e.amount], S)

\* The entries of the invoice, by its stage: while it can be reversed, one for
\* each line and one for what is withheld, told apart by fact and key.
InvoiceInv ==
  /\ withheld \in Int
  /\ posted <=> stage \in {"posted", "paid", "reversed"}
  /\ reversed <=> stage = "reversed"
  /\ ~posted => Entries(Invoice) = {}
  /\ stage \in {"posted", "paid"} =>
       /\ WorthOf(Entries(Invoice)) = Total + withheld
       /\ \A d, e \in Entries(Invoice) :
            /\ d.fact \in {"line", "retention"}
            /\ d.fact = e.fact /\ d.key = e.key => d = e
  /\ reversed => WorthOf(Entries(Invoice)) = 0

\* The entries of a payment, by its stage.
PaymentInv(p) ==
  /\ pay[p].stage \notin {"posted", "reversed"} => Entries(p) = {}
  /\ pay[p].stage = "posted" =>
       \E e \in ledger : /\ Entries(p) = {e} /\ e.fact = "posted"
                         /\ e.amount = -pay[p].amount
  /\ pay[p].stage = "reversed" =>
       WorthOf(Entries(p)) = 0 /\ Cardinality(Entries(p)) = 2

DocumentInv == BaseInv /\ InvoiceInv /\ \A p \in Payment : PaymentInv(p)

-----------------------------------------------------------------------------
(* The stage table.                                                        *)

LEMMA StageMoves ==
  /\ \A s \in DOMAIN NextStages : NextStages[s] \subseteq DOMAIN NextStages
  /\ {"draft", "posted", "paid", "reversed"} \subseteq DOMAIN NextStages
  /\ \A s \in DOMAIN NextStages :
       /\ "posted" \in NextStages[s] => s = "approved"
       /\ "paid" \in NextStages[s] => s = "posted"
       /\ "reversed" \in NextStages[s] => s = "posted"
       /\ NextStages[s] \ {"posted", "paid", "reversed"} # {} =>
            s \notin {"posted", "paid", "reversed"}
BY DEF NextStages

LEMMA ReversalFacts ==
  /\ DOMAIN ReversalOf = {"line", "retention", "posted"}
  /\ ReversalOf["line"] = "reversal of line"
  /\ ReversalOf["retention"] = "reversal of retention"
  /\ ReversalOf["posted"] = "reversal of posted"
BY DEF ReversalOf

-----------------------------------------------------------------------------
(* Entries and their worth.                                                *)

\* The balance is the worth of the entries of the source, whatever else the
\* ledger holds.
LEMMA BalanceOfEntries ==
  ASSUME NEW L, NEW E \in SUBSET L, IsFiniteSet(L)
  PROVE  SumFunctionOnSet([e \in L |-> e.amount], E) = WorthOf(E)
<1>1. IsFiniteSet(E)
  BY FS_Subset
<1> DEFINE f == [e \in L |-> e.amount]
           g == [e \in E |-> e.amount]
<1>2. \A x \in E : f[x] = g[x]
  OBVIOUS
<1> HIDE DEF f, g
<1>3. SumFunctionOnSet(f, E) = SumFunctionOnSet(g, E)
  BY <1>1, <1>2, SumSame
<1>4. QED BY <1>3 DEF f, g, WorthOf

LEMMA WorthOfOne ==
  ASSUME NEW e, e.amount \in Int
  PROVE  WorthOf({e}) = e.amount
<1> DEFINE g == [d \in {e} |-> d.amount]
<1>1. g[e] = e.amount
  OBVIOUS
<1> HIDE DEF g
<1>2. SumFunctionOnSet(g, {e}) = g[e]
  BY <1>1, SumOfOne
<1>3. QED BY <1>1, <1>2 DEF g, WorthOf

Distinct(S) == \A d, e \in S : d.fact = e.fact /\ d.key = e.key => d = e

Opposite(Rev, S) ==
  \A e \in S : /\ Rev[e].fact = ReversalOf[e.fact] /\ Rev[e].key = e.key
               /\ Rev[e].amount = -e.amount

\* Entries with distinct facts or keys and their reversals are worth nothing together.
LEMMA ReversalsCancel ==
  ASSUME NEW S, IsFiniteSet(S), NEW R, NEW Rev,
         \A e \in S : e.fact \in DOMAIN ReversalOf /\ e.amount \in Int,
         Distinct(S), Opposite(Rev, S), R = {Rev[e] : e \in S}
  PROVE  IsFiniteSet(S \cup R) /\ WorthOf(S \cup R) = 0
<1> USE DEF Distinct, Opposite
<1>1. IsFiniteSet(S \cup R)
  <2> DEFINE h == [e \in S |-> Rev[e]]
  <2>1. h \in Surjection(S, R)
    BY DEF Surjection
  <2> HIDE DEF h
  <2>2. IsFiniteSet(R)
    BY <2>1, FS_Surjection
  <2>3. QED BY <2>2, FS_Union
<1>2. \A d, e \in S : /\ Rev[d] = Rev[e] => d = e
                      /\ Rev[d] # e
  <2>1. \A a, b \in DOMAIN ReversalOf :
          /\ ReversalOf[a] = ReversalOf[b] => a = b
          /\ ReversalOf[a] # b
    BY ReversalFacts
  <2>2. QED BY <2>1
<1> DEFINE back == [r \in R |-> CHOOSE e \in S : Rev[e] = r]
           mirror == [x \in S \cup R |-> IF x \in S THEN Rev[x] ELSE back[x]]
           f == [e \in S \cup R |-> e.amount]
<1>3. \A e \in S : back[Rev[e]] = e
  BY <1>2
<1> HIDE DEF back
<1>4. \A x \in S \cup R : /\ mirror[x] \in (S \cup R) \ {x} /\ mirror[mirror[x]] = x
                          /\ f[mirror[x]] = -f[x]
  <2> SUFFICES ASSUME NEW e \in S
               PROVE  /\ mirror[e] = Rev[e] /\ mirror[Rev[e]] = e /\ Rev[e] # e
                      /\ f[Rev[e]] = -f[e] /\ f[e] = -f[Rev[e]] /\ Rev[e] \in R
    <3>1. \A x \in S \cup R : x \in S \/ \E e \in S : x = Rev[e]
      OBVIOUS
    <3> HIDE DEF mirror, f
    <3>2. QED BY <3>1
  <2>1. Rev[e] \in R /\ Rev[e] \notin S
    BY <1>2
  <2>2. mirror[e] = Rev[e] /\ mirror[Rev[e]] = e
    BY <2>1, <1>3
  <2>3. f[e] = e.amount /\ f[Rev[e]] = -e.amount /\ e.amount \in Int
    BY <2>1
  <2>4. QED BY <2>1, <2>2, <2>3
<1>5. \A x \in S \cup R : f[x] \in Int
  OBVIOUS
<1> HIDE DEF mirror, f
<1>6. SumFunctionOnSet(f, S \cup R) = 0
  BY <1>1, <1>4, <1>5, SumOfPairs
<1>7. QED BY <1>1, <1>6 DEF f, WorthOf

LEMMA BalanceNow ==
  IsFiniteSet(ledger) => \A s : Balance(s) = WorthOf(Entries(s))
<1> SUFFICES ASSUME IsFiniteSet(ledger), NEW s PROVE Balance(s) = WorthOf(Entries(s))
  OBVIOUS
<1>1. Entries(s) \in SUBSET ledger
  BY DEF Entries
<1>2. QED BY <1>1, BalanceOfEntries DEF Balance

\* What a step writes for one source leaves the entries of the others alone.
LEMMA Writes ==
  ASSUME NEW s, NEW N, ledger' = ledger \cup N, \A e \in N : e.source = s
  PROVE  /\ Entries(s)' = Entries(s) \cup N
         /\ \A t : t # s => Entries(t)' = Entries(t)
BY DEF Entries

LEMMA PaymentKept ==
  ASSUME NEW p \in Payment, PaymentInv(p), Entries(p)' = Entries(p), pay'[p] = pay[p]
  PROVE  PaymentInv(p)'
<1>1. \A e : Entries(p) = {e} => e \in ledger'
  BY DEF Entries
<1>2. QED BY <1>1 DEF PaymentInv

LEMMA EntriesFinite ==
  ASSUME BaseInv, NEW s
  PROVE  IsFiniteSet(Entries(s)) /\ \A e \in Entries(s) : e \in ledger /\ e.amount \in Int
<1>1. Entries(s) \in SUBSET ledger
  BY DEF Entries
<1>2. IsFiniteSet(Entries(s))
  BY <1>1, FS_Subset DEF BaseInv
<1>3. QED BY <1>1, <1>2 DEF BaseInv, TypeOK

\* Reversing the entries of a source adds one entry for each, and all of them
\* together are worth nothing.
LEMMA ReversalStep ==
  ASSUME BaseInv, NEW s \in Sources, NEW q \in Period,
         \A e \in Entries(s) : e.fact \in DOMAIN ReversalOf,
         \A d, e \in Entries(s) : d.fact = e.fact /\ d.key = e.key => d = e
  PROVE  /\ IsFiniteSet(Entries(s) \cup Reversals(s, q))
         /\ WorthOf(Entries(s) \cup Reversals(s, q)) = 0
         /\ Reversals(s, q) \subseteq EntryRow
         /\ \A e \in Reversals(s, q) : /\ e.source = s /\ e.period = q
                                       /\ e.late = locked[q]
<1> DEFINE Rev == [e \in Entries(s) |-> Entry(s, ReversalOf[e.fact], e.key, q, -e.amount)]
<1>1. \A e \in Entries(s) : /\ Rev[e].fact = ReversalOf[e.fact] /\ Rev[e].key = e.key
                            /\ Rev[e].amount = -e.amount
                            /\ Rev[e].source = s /\ Rev[e].period = q
                            /\ Rev[e].late = locked[q]
  BY DEF Entry
<1>2. Reversals(s, q) = {Rev[e] : e \in Entries(s)}
  BY DEF Reversals
<1>3. IsFiniteSet(Entries(s)) /\ \A e \in Entries(s) : e \in ledger /\ e.amount \in Int
  BY EntriesFinite
<1>4. \A e \in Entries(s) : Rev[e] \in EntryRow
  <2>1. \A x \in DOMAIN ReversalOf : ReversalOf[x] \in Facts
    BY ReversalFacts DEF Facts
  <2>2. locked[q] \in BOOLEAN
    BY DEF BaseInv, TypeOK
  <2>3. \A e \in Entries(s) : e.key \in InvoiceLine \cup Keys
    BY <1>3 DEF BaseInv, TypeOK
  <2>4. QED BY <2>1, <2>2, <2>3, <1>3 DEF Entry, EntryRow
<1> HIDE DEF Rev
<1>5. IsFiniteSet(Entries(s) \cup Reversals(s, q))
      /\ WorthOf(Entries(s) \cup Reversals(s, q)) = 0
  <2> DEFINE S == Entries(s)
             R == Reversals(s, q)
  <2>1. /\ IsFiniteSet(S) /\ R = {Rev[e] : e \in S}
        /\ \A e \in S : e.fact \in DOMAIN ReversalOf /\ e.amount \in Int
        /\ Distinct(S) /\ Opposite(Rev, S)
    BY <1>1, <1>2, <1>3 DEF Distinct, Opposite
  <2> HIDE DEF S, R
  <2>2. IsFiniteSet(S \cup R) /\ WorthOf(S \cup R) = 0
    BY <2>1, ReversalsCancel
  <2>3. QED BY <2>2 DEF S, R
<1>6. QED BY <1>1, <1>2, <1>4, <1>5

-----------------------------------------------------------------------------
(* Steps that leave the ledger alone.                                      *)

LEMMA Kept ==
  ASSUME DocumentInv, ledger' = ledger, pay' = pay
  PROVE  /\ IsFiniteSet(ledger') /\ \A p \in Payment : PaymentInv(p)'
         /\ \A s : Entries(s)' = Entries(s)
<1>1. \A s : Entries(s)' = Entries(s)
  BY DEF Entries
<1>2. \A p \in Payment : PaymentInv(p)'
  <2> SUFFICES ASSUME NEW p \in Payment PROVE PaymentInv(p)'
    OBVIOUS
  <2>1. PaymentInv(p) /\ pay'[p] = pay[p] /\ Entries(p)' = Entries(p)
    BY <1>1 DEF DocumentInv
  <2>2. QED BY <2>1, PaymentKept
<1>3. QED BY <1>1, <1>2 DEF DocumentInv, BaseInv

LEMMA InvoiceKept ==
  ASSUME InvoiceInv, Entries(Invoice)' = Entries(Invoice),
         stage' = stage, posted' = posted, reversed' = reversed, withheld' = withheld
  PROVE  InvoiceInv'
BY DEF InvoiceInv

LEMMA PeriodSteps ==
  ASSUME DocumentInv, NEW q \in Period,
         LockPeriod(q) \/ \E s \in Sources : CheckPeriod(s, q)
  PROVE  DocumentInv'
<1>1. /\ UNCHANGED <<invoiceVars, pay, ledger>>
      /\ locked' \in [Period -> BOOLEAN]
      /\ checked' \subseteq Sources \X Period
  <2>1. /\ locked \in [Period -> BOOLEAN] /\ checked \subseteq Sources \X Period
    BY DEF DocumentInv, BaseInv, TypeOK, Sources, EntryRow
  <2>2. CASE LockPeriod(q)
    BY <2>1, <2>2 DEF LockPeriod
  <2>3. CASE \E s \in Sources : CheckPeriod(s, q)
    <3>1. PICK s \in Sources : CheckPeriod(s, q)
      BY <2>3
    <3>2. /\ UNCHANGED <<invoiceVars, pay, ledger>> /\ locked' = locked
          /\ checked' = checked \cup {<<s, q>>}
      BY <3>1 DEF CheckPeriod
    <3>3. QED BY <2>1, <3>2
  <2>4. QED BY <2>2, <2>3
<1>2. TypeOK'
  BY <1>1 DEF DocumentInv, BaseInv, TypeOK, invoiceVars, Sources
<1>3. InvoiceInv'
  BY <1>1, Kept, InvoiceKept DEF DocumentInv, invoiceVars
<1>4. QED BY <1>1, <1>2, <1>3, Kept DEF DocumentInv, BaseInv

LEMMA MoveStep ==
  ASSUME DocumentInv, NEW target \in DOMAIN NextStages, MoveInvoice(target)
  PROVE  DocumentInv'
<1>1. /\ stage \in DOMAIN NextStages /\ stage' = target
      /\ target \notin {"posted", "paid", "reversed"}
      /\ UNCHANGED <<locked, posted, reversed, retention, outstanding, withheld, pay,
                   ledger, checked>>
  BY DEF MoveInvoice, DocumentInv, BaseInv, TypeOK
<1>2. stage \notin {"posted", "paid", "reversed"}
  BY <1>1, StageMoves DEF MoveInvoice
<1>3. TypeOK'
  BY <1>1 DEF DocumentInv, BaseInv, TypeOK
<1>4. InvoiceInv'
  BY <1>1, <1>2, Kept DEF DocumentInv, InvoiceInv
<1>5. QED BY <1>1, <1>3, <1>4, Kept DEF DocumentInv, BaseInv

LEMMA PaidStep ==
  ASSUME DocumentInv, MarkPaid
  PROVE  DocumentInv'
<1>1. /\ stage \in DOMAIN NextStages /\ stage' = "paid"
      /\ UNCHANGED <<locked, posted, reversed, retention, outstanding, withheld, pay,
                   ledger, checked>>
  BY DEF MarkPaid, DocumentInv, BaseInv, TypeOK
<1>2. stage = "posted" /\ stage' \in DOMAIN NextStages
  BY <1>1, StageMoves DEF MarkPaid
<1>3. TypeOK'
  BY <1>1, <1>2 DEF DocumentInv, BaseInv, TypeOK
<1>4. InvoiceInv'
  BY <1>1, <1>2, Kept DEF DocumentInv, InvoiceInv
<1>5. QED BY <1>1, <1>3, <1>4, Kept DEF DocumentInv, BaseInv

LEMMA DraftSteps ==
  ASSUME DocumentInv, NEW p \in Payment,
         \/ \E kind \in {"standard", "release"}, amount \in 1..Total, q \in Period :
              CreatePayment(p, kind, amount, q)
         \/ CancelPayment(p)
  PROVE  DocumentInv'
<1>1. /\ UNCHANGED <<locked, invoiceVars, ledger, checked>>
      /\ pay[p].stage \in {"none", "draft"}
      /\ \E r \in [stage : {"draft", "cancelled"}, kind : {"standard", "release"},
                   amount : 0..Total, period : Period] : pay' = [pay EXCEPT ![p] = r]
  <2>1. CASE CancelPayment(p)
    <3> DEFINE r == [pay[p] EXCEPT !.stage = "cancelled"]
    <3>1. r \in [stage : {"draft", "cancelled"}, kind : {"standard", "release"},
                 amount : 0..Total, period : Period]
      BY DEF DocumentInv, BaseInv, TypeOK
    <3>2. pay' = [pay EXCEPT ![p] = r]
      BY <2>1 DEF CancelPayment
    <3>3. QED BY <2>1, <3>1, <3>2 DEF CancelPayment
  <2>2. CASE \E kind \in {"standard", "release"}, amount \in 1..Total, q \in Period :
              CreatePayment(p, kind, amount, q)
    <3>1. Total \in Nat
      BY FinanceAssumption
    <3>2. PICK kind \in {"standard", "release"}, amount \in 1..Total, q \in Period :
                CreatePayment(p, kind, amount, q)
      BY <2>2
    <3> DEFINE r == [stage |-> "draft", kind |-> kind, amount |-> amount, period |-> q]
    <3>3. r \in [stage : {"draft", "cancelled"}, kind : {"standard", "release"},
                 amount : 0..Total, period : Period]
      BY <3>1
    <3>4. pay' = [pay EXCEPT ![p] = r]
      BY <3>2 DEF CreatePayment
    <3> HIDE DEF r
    <3>5. QED BY <3>2, <3>3, <3>4 DEF CreatePayment
  <2>3. QED BY <2>1, <2>2
<1>2. PICK r \in [stage : {"draft", "cancelled"}, kind : {"standard", "release"},
                  amount : 0..Total, period : Period] : pay' = [pay EXCEPT ![p] = r]
  BY <1>1
<1>3. TypeOK'
  BY <1>1, <1>2 DEF DocumentInv, BaseInv, TypeOK, invoiceVars
<1>4. \A s : Entries(s)' = Entries(s)
  BY <1>1 DEF Entries
<1>5. InvoiceInv'
  BY <1>1, <1>4, InvoiceKept DEF DocumentInv, invoiceVars
<1>6. \A x \in Payment : PaymentInv(x)'
  <2> SUFFICES ASSUME NEW x \in Payment PROVE PaymentInv(x)'
    OBVIOUS
  <2>1. CASE x # p
    <3>1. pay'[x] = pay[x]
      BY <1>2, <2>1 DEF DocumentInv, BaseInv, TypeOK
    <3>2. QED BY <3>1, <1>4, PaymentKept DEF DocumentInv
  <2>2. CASE x = p
    <3>1. pay'[p] = r /\ Entries(p)' = {}
      BY <1>1, <1>2, <1>4 DEF DocumentInv, PaymentInv, BaseInv, TypeOK
    <3>2. QED BY <2>2, <3>1 DEF PaymentInv
  <2>3. QED BY <2>1, <2>2
<1>7. QED BY <1>1, <1>3, <1>5, <1>6 DEF DocumentInv, BaseInv

-----------------------------------------------------------------------------
(* Steps that write the ledger.                                            *)

\* What holds of the payments that a step does not move.
LEMMA OthersKept ==
  ASSUME DocumentInv, NEW s \in Sources, NEW p \in Payment, p # s,
         \A t : t # s => Entries(t)' = Entries(t), pay'[p] = pay[p]
  PROVE  PaymentInv(p)'
BY PaymentKept DEF DocumentInv

\* The entries of the lines: one each, worth what the lines are worth.
LEMMA LinesWorth ==
  ASSUME DocumentInv
  PROVE  /\ LineEntries \subseteq EntryRow /\ IsFiniteSet(LineEntries)
         /\ \A e \in LineEntries : e.source = Invoice /\ e.fact = "line"
         /\ \A d, e \in LineEntries : d.key = e.key => d = e
         /\ WorthOf(LineEntries) = Total
<1> DEFINE h == [l \in InvoiceLine |-> Entry(Invoice, "line", l, Home, Charged[l])]
           f == [e \in LineEntries |-> e.amount]
<1>1. Home \in Period /\ IsFiniteSet(InvoiceLine) /\ Charged \in [InvoiceLine -> Nat]
      /\ Total = SumFunctionOnSet(Charged, InvoiceLine)
  <2> HIDE DEF h, f
  <2>1. QED BY FinanceAssumption
<1>2. locked[Home] \in BOOLEAN
  BY <1>1 DEF DocumentInv, BaseInv, TypeOK
<1>3. /\ LineEntries = {h[l] : l \in InvoiceLine}
      /\ \A l \in InvoiceLine : /\ h[l].source = Invoice /\ h[l].fact = "line" /\ h[l].key = l
                         /\ h[l].amount = Charged[l] /\ h[l].period = Home
                         /\ h[l].late = locked[Home]
  <2>1. LineEntries = {h[l] : l \in InvoiceLine}
    BY DEF LineEntries
  <2>2. ASSUME NEW l \in InvoiceLine
        PROVE  /\ h[l].source = Invoice /\ h[l].fact = "line" /\ h[l].key = l
               /\ h[l].amount = Charged[l] /\ h[l].period = Home
               /\ h[l].late = locked[Home]
    BY DEF Entry
  <2> HIDE DEF h, f
  <2>3. QED BY <2>1, <2>2
<1>4. \A l \in InvoiceLine : h[l] \in EntryRow
  BY <1>1, <1>2 DEF Entry, EntryRow, Sources, Facts
<1> HIDE DEF h
<1>5. \A k, l \in InvoiceLine : h[k] = h[l] => k = l
  BY <1>3
<1>6. IsFiniteSet(LineEntries)
  <2> DEFINE g == [l \in InvoiceLine |-> h[l]]
  <2>1. g \in Surjection(InvoiceLine, LineEntries)
    BY <1>3 DEF Surjection
  <2> HIDE DEF g
  <2>2. QED BY <1>1, <2>1, FS_Surjection
<1>7. \A l \in InvoiceLine : f[h[l]] = Charged[l] /\ Charged[l] \in Int
  BY <1>1, <1>3
<1> HIDE DEF f
<1>8. SumFunctionOnSet(f, {h[l] : l \in InvoiceLine}) = SumFunctionOnSet(Charged, InvoiceLine)
  BY <1>1, <1>5, <1>7, SumOfImage
<1>9. WorthOf(LineEntries) = Total
  BY <1>1, <1>3, <1>8 DEF f, WorthOf
<1>10. QED BY <1>3, <1>4, <1>5, <1>6, <1>9

LEMMA PostInvoiceStep ==
  ASSUME DocumentInv, PostInvoice
  PROVE  DocumentInv'
<1> DEFINE Ret(r) == Entry(Invoice, "retention", "retention", Home, r)
           N == LineEntries \cup {Ret(r) : r \in {retention} \ {0}}
<1>1. /\ stage = "approved" /\ stage' = "posted" /\ posted' = TRUE
      /\ withheld' = retention
      /\ UNCHANGED <<locked, reversed, retention, outstanding, pay, checked>>
  BY StageMoves DEF PostInvoice, DocumentInv, BaseInv, TypeOK
<1>2. ledger' = ledger \cup N
  BY DEF PostInvoice
<1>a. retention \in Int /\ retention \in 0..Total
  BY FinanceAssumption DEF DocumentInv, BaseInv, TypeOK
<1>b. /\ Ret(retention) \in EntryRow /\ Ret(retention).source = Invoice
      /\ Ret(retention).fact = "retention" /\ Ret(retention).amount = retention
  <2>1. locked[Home] \in BOOLEAN /\ Home \in Period
    BY FinanceAssumption DEF DocumentInv, BaseInv, TypeOK
  <2>2. "retention" \in Facts /\ "retention" \in Keys /\ Invoice \in Sources
    BY DEF Facts, Keys, Sources
  <2>3. QED BY <2>1, <2>2, <1>a DEF Entry, EntryRow
<1>c. \/ N = LineEntries /\ retention = 0
      \/ N = LineEntries \cup {Ret(retention)}
  OBVIOUS
<1> HIDE DEF Ret, N
<1>3. /\ N \subseteq EntryRow
      /\ \A e \in N : e.source = Invoice /\ e.fact \in {"line", "retention"}
      /\ \A d, e \in N : d.fact = e.fact /\ d.key = e.key => d = e
  BY <1>b, <1>c, LinesWorth
<1>4. IsFiniteSet(N) /\ WorthOf(N) = Total + retention
  <2>1. CASE N = LineEntries /\ retention = 0
    BY <2>1, LinesWorth, FinanceAssumption
  <2>2. CASE N = LineEntries \cup {Ret(retention)}
    <3> DEFINE f == [e \in N |-> e.amount]
    <3>1. /\ IsFiniteSet(LineEntries) /\ Ret(retention) \notin LineEntries
          /\ f[Ret(retention)] = retention /\ f[Ret(retention)] \in Int
          /\ \A e \in LineEntries : f[e] \in Int /\ f[e] = e.amount
      BY <2>2, <1>a, <1>b, LinesWorth DEF EntryRow
    <3> DEFINE g == [e \in LineEntries |-> e.amount]
    <3>2. \A e \in LineEntries : f[e] = g[e]
      BY <3>1
    <3>3. WorthOf(N) = SumFunctionOnSet(f, N) /\ WorthOf(LineEntries) = SumFunctionOnSet(g, LineEntries)
      BY DEF WorthOf
    <3> HIDE DEF f, g
    <3>4. SumFunctionOnSet(f, LineEntries) = SumFunctionOnSet(g, LineEntries)
      BY <3>1, <3>2, SumSame
    <3>5. SumFunctionOnSet(f, N) = retention + SumFunctionOnSet(f, LineEntries)
      BY <2>2, <3>1, SumAdd
    <3>6. IsFiniteSet(N)
      BY <2>2, <3>1, FS_AddElement
    <3>7. QED BY <3>3, <3>4, <3>5, <3>6, <1>a, LinesWorth, FinanceAssumption
  <2>3. QED BY <1>c, <2>1, <2>2
<1>5. /\ Entries(Invoice)' = N
      /\ \A t : t # Invoice => Entries(t)' = Entries(t)
  <2>1. Entries(Invoice) = {}
    BY <1>1 DEF DocumentInv, InvoiceInv
  <2>2. \A e \in N : e.source = Invoice
    BY <1>3
  <2>3. /\ Entries(Invoice)' = Entries(Invoice) \cup N
        /\ \A t : t # Invoice => Entries(t)' = Entries(t)
    BY <1>2, <2>2, Writes
  <2>4. QED BY <2>1, <2>3
<1>6. IsFiniteSet(ledger')
  BY <1>2, <1>4, FS_Union DEF DocumentInv, BaseInv
<1>7. TypeOK'
  BY <1>1, <1>2, <1>3, <1>a, StageMoves DEF DocumentInv, BaseInv, TypeOK, Sources, EntryRow
<1>8. InvoiceInv'
  BY <1>1, <1>3, <1>4, <1>5, <1>a DEF DocumentInv, InvoiceInv
<1>9. \A p \in Payment : PaymentInv(p)'
  <2>1. \A p \in Payment : p # Invoice /\ pay'[p] = pay[p] /\ Invoice \in Sources
    BY <1>1, FinanceAssumption DEF Sources
  <2>2. QED BY <1>5, <2>1, OthersKept
<1>10. QED BY <1>6, <1>7, <1>8, <1>9 DEF DocumentInv, BaseInv

LEMMA ReverseInvoiceStep ==
  ASSUME DocumentInv, NEW q \in Period, ReverseInvoice(q)
  PROVE  DocumentInv'
<1> DEFINE R == Reversals(Invoice, q)
<1>1. /\ stage = "posted" /\ stage' = "reversed" /\ posted /\ reversed' = TRUE
      /\ outstanding' = 0 /\ ledger' = ledger \cup R /\ checked' \subseteq checked
      /\ UNCHANGED <<locked, posted, retention, withheld, pay>>
  BY StageMoves DEF ReverseInvoice, DocumentInv, BaseInv, TypeOK
<1>2. Invoice \in Sources
  BY DEF Sources
<1>3. /\ \A e \in Entries(Invoice) : e.fact \in DOMAIN ReversalOf
      /\ \A d, e \in Entries(Invoice) : d.fact = e.fact /\ d.key = e.key => d = e
  BY <1>1, ReversalFacts DEF DocumentInv, InvoiceInv
<1>4. /\ IsFiniteSet(Entries(Invoice) \cup R) /\ WorthOf(Entries(Invoice) \cup R) = 0
      /\ R \subseteq EntryRow
      /\ \A e \in R : e.source = Invoice
  BY <1>2, <1>3, ReversalStep DEF DocumentInv
<1> HIDE DEF R
<1>5. /\ Entries(Invoice)' = Entries(Invoice) \cup R
      /\ \A t : t # Invoice => Entries(t)' = Entries(t)
  BY <1>1, <1>4, Writes
<1>6. IsFiniteSet(ledger')
  <2>1. IsFiniteSet(ledger \cup (Entries(Invoice) \cup R))
    BY <1>4, FS_Union DEF DocumentInv, BaseInv
  <2>2. ledger' = ledger \cup (Entries(Invoice) \cup R)
    BY <1>1 DEF Entries
  <2>3. QED BY <2>1, <2>2
<1>7. TypeOK'
  <2>1. 0 \in 0..Total
    BY FinanceAssumption
  <2>2. QED BY <1>1, <1>4, <2>1, StageMoves DEF DocumentInv, BaseInv, TypeOK, Sources, EntryRow
<1>8. InvoiceInv'
  BY <1>1, <1>4, <1>5 DEF DocumentInv, InvoiceInv
<1>9. \A p \in Payment : PaymentInv(p)'
  <2>1. \A p \in Payment : p # Invoice /\ pay'[p] = pay[p]
    BY <1>1, FinanceAssumption
  <2>2. QED BY <1>2, <1>5, <2>1, OthersKept
<1>10. QED BY <1>6, <1>7, <1>8, <1>9 DEF DocumentInv, BaseInv

LEMMA PostPaymentStep ==
  ASSUME DocumentInv, NEW p \in Payment, PostPayment(p)
  PROVE  DocumentInv'
<1> DEFINE e == Entry(p, "posted", "posted", pay[p].period, -pay[p].amount)
           r == [pay[p] EXCEPT !.stage = "posted"]
<1>1. /\ pay[p].stage = "draft" /\ pay' = [pay EXCEPT ![p] = r]
      /\ retention' \in 0..Total /\ outstanding' \in 0..Total
      /\ ledger' = ledger \cup {e}
      /\ UNCHANGED <<locked, stage, posted, reversed, withheld, checked>>
  BY DEF PostPayment, InvoiceValid
<1>2. /\ pay[p] \in [stage : {"none", "draft", "cancelled", "posted", "reversed"},
                     kind : {"standard", "release"}, amount : 0..Total, period : Period]
      /\ pay[p].amount \in Int
  BY FinanceAssumption DEF DocumentInv, BaseInv, TypeOK
<1>3. /\ r \in [stage : {"none", "draft", "cancelled", "posted", "reversed"},
                kind : {"standard", "release"}, amount : 0..Total, period : Period]
      /\ r.stage = "posted" /\ r.amount = pay[p].amount
  BY <1>2
<1>4. /\ e \in EntryRow
      /\ e.source = p /\ e.fact = "posted" /\ e.amount = -pay[p].amount
  <2>1. "posted" \in Facts /\ "posted" \in Keys /\ p \in Sources
    BY DEF Facts, Keys, Sources
  <2>2. locked[pay[p].period] \in BOOLEAN
    BY <1>2 DEF DocumentInv, BaseInv, TypeOK
  <2>3. QED BY <1>2, <2>1, <2>2 DEF Entry, EntryRow
<1> HIDE DEF e, r
<1>5. /\ Entries(p)' = {e}
      /\ \A t : t # p => Entries(t)' = Entries(t)
  <2>1. Entries(p) = {}
    BY <1>1 DEF DocumentInv, PaymentInv
  <2> DEFINE N == {e}
  <2>2. ledger' = ledger \cup N /\ \A d \in N : d.source = p
    BY <1>1, <1>4
  <2> HIDE DEF N
  <2>3. /\ Entries(p)' = Entries(p) \cup N
        /\ \A t : t # p => Entries(t)' = Entries(t)
    BY <2>2, Writes
  <2>4. QED BY <2>1, <2>3 DEF N
<1>6. IsFiniteSet(ledger')
  BY <1>1, FS_AddElement DEF DocumentInv, BaseInv
<1>7. TypeOK'
  BY <1>1, <1>3, <1>4 DEF DocumentInv, BaseInv, TypeOK, Sources, EntryRow
<1>8. InvoiceInv'
  <2>1. p # Invoice
    BY FinanceAssumption
  <2>2. QED BY <1>1, <1>5, <2>1, InvoiceKept DEF DocumentInv
<1>9. pay'[p] = r /\ \A x \in Payment \ {p} : pay'[x] = pay[x]
  BY <1>1 DEF DocumentInv, BaseInv, TypeOK
<1>10. \A x \in Payment : PaymentInv(x)'
  <2> SUFFICES ASSUME NEW x \in Payment PROVE PaymentInv(x)'
    OBVIOUS
  <2>1. CASE x # p
    <3>1. p \in Sources
      BY DEF Sources
    <3>2. QED BY <1>5, <1>9, <2>1, <3>1, OthersKept
  <2>2. CASE x = p
    <3>1. e \in ledger'
      BY <1>1
    <3>2. QED BY <1>3, <1>4, <1>5, <1>9, <2>2, <3>1 DEF PaymentInv
  <2>3. QED BY <2>1, <2>2
<1>11. QED BY <1>6, <1>7, <1>8, <1>10 DEF DocumentInv, BaseInv

LEMMA ReversePaymentStep ==
  ASSUME DocumentInv, NEW p \in Payment, NEW q \in Period, ReversePayment(p, q)
  PROVE  DocumentInv'
<1> DEFINE R == Reversals(p, q)
           r == [pay[p] EXCEPT !.stage = "reversed"]
<1>1. /\ pay[p].stage = "posted" /\ pay' = [pay EXCEPT ![p] = r]
      /\ retention' \in 0..Total /\ outstanding' \in 0..Total
      /\ ledger' = ledger \cup R /\ checked' \subseteq checked
      /\ UNCHANGED <<locked, stage, posted, reversed, withheld>>
  BY DEF ReversePayment, InvoiceValid
<1>2. p \in Sources /\ p # Invoice
  BY FinanceAssumption DEF Sources
<1>3. /\ r \in [stage : {"none", "draft", "cancelled", "posted", "reversed"},
                kind : {"standard", "release"}, amount : 0..Total, period : Period]
      /\ r.stage = "reversed"
  BY DEF DocumentInv, BaseInv, TypeOK
<1>4. PICK e \in ledger : Entries(p) = {e} /\ e.fact = "posted"
  BY <1>1 DEF DocumentInv, PaymentInv
<1> DEFINE d == Entry(p, ReversalOf[e.fact], e.key, q, -e.amount)
<1>5. R = {d} /\ d # e
  <2>1. R = {Entry(p, ReversalOf[x.fact], x.key, q, -x.amount) : x \in {e}}
    BY <1>4 DEF Reversals
  <2>2. d.fact = "reversal of posted"
    BY <1>4, ReversalFacts DEF Entry
  <2>3. QED BY <1>4, <2>1, <2>2
<1>6. /\ \A x \in Entries(p) : x.fact \in DOMAIN ReversalOf
      /\ \A x, y \in Entries(p) : x.fact = y.fact /\ x.key = y.key => x = y
  BY <1>4, ReversalFacts
<1>7. /\ WorthOf(Entries(p) \cup R) = 0
      /\ R \subseteq EntryRow
      /\ \A x \in R : x.source = p
  BY <1>2, <1>6, ReversalStep DEF DocumentInv
<1> HIDE DEF R, r, d
<1>8. Cardinality(Entries(p) \cup R) = 2
  <2>1. IsFiniteSet({e}) /\ Cardinality({e}) = 1
    BY FS_Singleton
  <2>2. Cardinality({e} \cup {d}) = 1 + 1
    BY <1>5, <2>1, FS_AddElement
  <2>3. QED BY <1>4, <1>5, <2>2
<1>9. /\ Entries(p)' = Entries(p) \cup R
      /\ \A t : t # p => Entries(t)' = Entries(t)
  BY <1>1, <1>7, Writes
<1>10. IsFiniteSet(ledger')
  BY <1>1, <1>5, FS_AddElement DEF DocumentInv, BaseInv
<1>11. TypeOK'
  BY <1>1, <1>3, <1>7 DEF DocumentInv, BaseInv, TypeOK, Sources, EntryRow
<1>12. InvoiceInv'
  BY <1>1, <1>2, <1>9, InvoiceKept DEF DocumentInv
<1>13. pay'[p] = r /\ \A x \in Payment \ {p} : pay'[x] = pay[x]
  BY <1>1 DEF DocumentInv, BaseInv, TypeOK
<1>14. \A x \in Payment : PaymentInv(x)'
  <2> SUFFICES ASSUME NEW x \in Payment PROVE PaymentInv(x)'
    OBVIOUS
  <2>1. CASE x # p
    BY <1>2, <1>9, <1>13, <2>1, OthersKept
  <2>2. CASE x = p
    BY <1>3, <1>7, <1>8, <1>9, <1>13, <2>2 DEF PaymentInv
  <2>3. QED BY <2>1, <2>2
<1>15. QED BY <1>10, <1>11, <1>12, <1>14 DEF DocumentInv, BaseInv

LEMMA AdjustmentStep ==
  ASSUME DocumentInv, NEW a \in Adjustment, NEW q \in Period, PostAdjustment(a, q)
  PROVE  DocumentInv'
<1> DEFINE e == Entry(a, "adjustment", "adjustment", q, 1)
<1>1. /\ ledger' = ledger \cup {e} /\ checked' \subseteq checked
      /\ UNCHANGED <<locked, invoiceVars, pay>>
  BY DEF PostAdjustment
<1>2. a \in Sources /\ a # Invoice /\ a \notin Payment
  BY FinanceAssumption DEF Sources
<1>3. e \in EntryRow /\ e.source = a
  <2>1. "adjustment" \in Facts /\ "adjustment" \in Keys
    BY DEF Facts, Keys
  <2>2. locked[q] \in BOOLEAN
    BY DEF DocumentInv, BaseInv, TypeOK
  <2>3. QED BY <1>2, <2>1, <2>2 DEF Entry, EntryRow
<1> HIDE DEF e
<1>4. \A t : t # a => Entries(t)' = Entries(t)
  BY <1>1, <1>3 DEF Entries
<1>5. IsFiniteSet(ledger')
  BY <1>1, FS_AddElement DEF DocumentInv, BaseInv
<1>6. TypeOK'
  BY <1>1, <1>3 DEF DocumentInv, BaseInv, TypeOK, Sources, EntryRow, invoiceVars
<1>7. InvoiceInv'
  BY <1>1, <1>2, <1>4, InvoiceKept DEF DocumentInv, invoiceVars
<1>8. \A p \in Payment : PaymentInv(p)'
  <2>1. \A p \in Payment : p # a /\ pay'[p] = pay[p]
    BY <1>1, <1>2
  <2>2. QED BY <1>2, <1>4, <2>1, OthersKept
<1>9. QED BY <1>5, <1>6, <1>7, <1>8 DEF DocumentInv, BaseInv

-----------------------------------------------------------------------------
LEMMA DocumentStart == Init => DocumentInv
<1> SUFFICES ASSUME Init PROVE DocumentInv
  OBVIOUS
<1>1. ledger = {} /\ IsFiniteSet(ledger) /\ \A s : Entries(s) = {}
  BY FS_EmptySet DEF Init, Entries
<1>2. retention \in 0..Total /\ outstanding \in 0..Total /\ withheld \in 0..Total
      /\ withheld \in Int
  BY FinanceAssumption DEF Init
<1>3. pay \in [Payment -> [stage : {"none", "draft", "cancelled", "posted", "reversed"},
                           kind : {"standard", "release"}, amount : 0..Total,
                           period : Period]]
      /\ \A p \in Payment : pay[p].stage = "none"
  <2>1. Home \in Period /\ 0 \in 0..Total
    BY FinanceAssumption
  <2>2. QED BY <2>1 DEF Init, NoPayment
<1>4. TypeOK
  <2>1. locked \in [Period -> BOOLEAN] /\ stage \in DOMAIN NextStages
        /\ posted \in BOOLEAN /\ reversed \in BOOLEAN /\ checked = {}
    BY StageMoves DEF Init
  <2>2. QED BY <1>1, <1>2, <1>3, <2>1 DEF TypeOK
<1>5. InvoiceInv
  BY <1>1, <1>2 DEF Init, InvoiceInv
<1>6. \A p \in Payment : PaymentInv(p)
  BY <1>1, <1>3 DEF PaymentInv
<1>7. QED BY <1>1, <1>4, <1>5, <1>6 DEF DocumentInv, BaseInv

LEMMA DocumentStep == DocumentInv /\ [Next]_vars => DocumentInv'
<1> SUFFICES ASSUME DocumentInv, [Next]_vars PROVE DocumentInv'
  OBVIOUS
<1>1. ASSUME NEW q \in Period, LockPeriod(q) \/ \E s \in Sources : CheckPeriod(s, q)
      PROVE  DocumentInv'
  BY <1>1, PeriodSteps
<1>2. ASSUME NEW q \in Period, ReverseInvoice(q) PROVE DocumentInv'
  BY <1>2, ReverseInvoiceStep
<1>3. ASSUME NEW target \in DOMAIN NextStages, MoveInvoice(target) PROVE DocumentInv'
  BY <1>3, MoveStep
<1>4. CASE PostInvoice
  BY <1>4, PostInvoiceStep
<1>5. CASE MarkPaid
  BY <1>5, PaidStep
<1>6. ASSUME NEW p \in Payment,
             \/ \E kind \in {"standard", "release"}, amount \in 1..Total, q \in Period :
                  CreatePayment(p, kind, amount, q)
             \/ CancelPayment(p)
      PROVE  DocumentInv'
  BY <1>6, DraftSteps
<1>7. ASSUME NEW p \in Payment, PostPayment(p) PROVE DocumentInv'
  BY <1>7, PostPaymentStep
<1>8. ASSUME NEW p \in Payment, NEW q \in Period, ReversePayment(p, q) PROVE DocumentInv'
  BY <1>8, ReversePaymentStep
<1>9. ASSUME NEW a \in Adjustment, NEW q \in Period, PostAdjustment(a, q)
      PROVE  DocumentInv'
  BY <1>9, AdjustmentStep
<1>10. CASE UNCHANGED vars
  <2>1. UNCHANGED <<locked, stage, posted, reversed, retention, outstanding, withheld, pay,
                    ledger, checked>>
    BY <1>10 DEF vars, invoiceVars
  <2>2. TypeOK' /\ InvoiceInv'
    BY <2>1, Kept, InvoiceKept DEF DocumentInv, BaseInv, TypeOK
  <2>3. QED BY <2>1, <2>2, Kept DEF DocumentInv, BaseInv
<1>11. QED
  BY <1>1, <1>2, <1>3, <1>4, <1>5, <1>6, <1>7, <1>8, <1>9, <1>10 DEF Next, Sources

LEMMA DocumentAlways == Spec => []DocumentInv
BY DocumentStart, DocumentStep, PTL DEF Spec

\* Rows keep their types, and neither the retained nor the outstanding amount
\* ever leaves the range of the invoice's total.
THEOREM FinanceTypeCorrect == Spec => []TypeOK
BY DocumentAlways, PTL DEF DocumentInv, BaseInv

\* The ledger agrees with the invoice and its payments, whatever was drafted,
\* posted and reversed: all lines, each once, and what was withheld.
THEOREM FinanceLedgerAgrees == Spec => []LedgerAgrees
<1>1. DocumentInv => LedgerAgrees
  <2> SUFFICES ASSUME DocumentInv PROVE LedgerAgrees
    OBVIOUS
  <2>1. \A s : Balance(s) = WorthOf(Entries(s))
    BY BalanceNow DEF DocumentInv, BaseInv
  <2>2. ASSUME NEW p \in Payment
        PROVE  CASE pay[p].stage = "posted" -> Balance(p) = -pay[p].amount
                 [] pay[p].stage = "reversed" -> Balance(p) = 0 /\ Cardinality(Entries(p)) = 2
                 [] OTHER -> Entries(p) = {}
    <3>1. CASE pay[p].stage = "posted"
      <4>1. PICK e \in ledger : Entries(p) = {e} /\ e.amount = -pay[p].amount
        BY <3>1 DEF DocumentInv, PaymentInv
      <4>2. e.amount \in Int
        BY DEF DocumentInv, BaseInv, TypeOK
      <4>3. Balance(p) = -pay[p].amount
        BY <2>1, <4>1, <4>2, WorthOfOne
      <4>4. QED BY <3>1, <4>3
    <3>2. CASE pay[p].stage = "reversed"
      BY <2>1, <3>2 DEF DocumentInv, PaymentInv
    <3>3. CASE pay[p].stage \notin {"posted", "reversed"}
      BY <3>3 DEF DocumentInv, PaymentInv
    <3>4. QED BY <3>1, <3>2, <3>3
  <2>3. /\ posted /\ ~reversed => Balance(Invoice) = Total + withheld
        /\ reversed => posted /\ Balance(Invoice) = 0
        /\ ~posted => Entries(Invoice) = {}
    BY <2>1 DEF DocumentInv, InvoiceInv
  <2>4. QED BY <2>2, <2>3 DEF LedgerAgrees
<1>2. QED BY <1>1, DocumentAlways, PTL

-----------------------------------------------------------------------------
(* Posting into the document's own period.                                 *)

Fenced(e) ==
  e.late => \/ e.source \in Adjustment
            \/ e.source = Invoice /\ e.period # Home
            \/ e.source \in Payment /\ e.period # pay[e.source].period

\* The period of a payment that has left an entry does not change.
LEMMA PeriodFixed ==
  ASSUME DocumentInv, [Next]_vars
  PROVE  \A e \in ledger : e.source \in Payment =>
           pay'[e.source].period = pay[e.source].period
<1> SUFFICES ASSUME NEW p \in Payment, NEW e \in ledger, e.source = p
             PROVE  pay'[p].period = pay[p].period
  OBVIOUS
<1>1. pay[p].stage \in {"posted", "reversed"}
  BY DEF DocumentInv, PaymentInv, Entries
<1>2. pay \in [Payment -> [stage : {"none", "draft", "cancelled", "posted", "reversed"},
                           kind : {"standard", "release"}, amount : 0..Total,
                           period : Period]]
  BY DEF DocumentInv, BaseInv, TypeOK
<1>3. CASE pay' = pay
  BY <1>3
<1>4. ASSUME NEW x \in Payment, NEW s, pay' = [pay EXCEPT ![x].stage = s]
      PROVE  pay'[p].period = pay[p].period
  BY <1>2, <1>4
<1>5. ASSUME NEW x \in Payment, NEW r, pay[x].stage = "none", pay' = [pay EXCEPT ![x] = r]
      PROVE  pay'[p].period = pay[p].period
  BY <1>1, <1>2, <1>5
<1>6. ASSUME NEW x \in Payment, CancelPayment(x) \/ PostPayment(x)
      PROVE  pay'[p].period = pay[p].period
  BY <1>4, <1>6 DEF CancelPayment, PostPayment
<1>7. ASSUME NEW x \in Payment, NEW q \in Period, ReversePayment(x, q)
      PROVE  pay'[p].period = pay[p].period
  BY <1>4, <1>7 DEF ReversePayment
<1>8. ASSUME NEW x \in Payment, NEW kind, NEW amount, NEW q,
             CreatePayment(x, kind, amount, q)
      PROVE  pay'[p].period = pay[p].period
  BY <1>5, <1>8 DEF CreatePayment
<1>9. \/ pay' = pay
      \/ \E x \in Payment : CancelPayment(x) \/ PostPayment(x)
      \/ \E x \in Payment, q \in Period : ReversePayment(x, q)
      \/ \E x \in Payment, kind \in {"standard", "release"}, amount \in 1..Total, q \in Period :
           CreatePayment(x, kind, amount, q)
  BY DEF Next, vars, LockPeriod, ReverseInvoice, CheckPeriod, MoveInvoice, PostInvoice,
         MarkPaid, PostAdjustment
<1>10. QED BY <1>3, <1>6, <1>7, <1>8, <1>9

\* Whoever posts into the document's own period holds its row.
LEMMA NewEntriesFenced ==
  ASSUME DocumentInv, Next, NEW e \in ledger' \ ledger
  PROVE  Fenced(e)'
<1>1. CASE PostInvoice
  <2>1. e \in LineEntries
              \cup {Entry(Invoice, "retention", "retention", Home, r) : r \in {retention} \ {0}}
    BY <1>1 DEF PostInvoice
  <2>2. e.late = FALSE
    BY <1>1, <2>1 DEF PostInvoice, LineEntries, FoundOpen, Entry, DocumentInv, BaseInv, TypeOK
  <2>3. QED BY <2>2 DEF Fenced
<1>2. ASSUME NEW q \in Period, ReverseInvoice(q) PROVE Fenced(e)'
  <2>1. e \in Reversals(Invoice, q)
    BY <1>2 DEF ReverseInvoice
  <2>2. e.source = Invoice /\ e.period = q /\ e.late = locked[q]
    BY <2>1 DEF Reversals, Entry
  <2>3. q = Home => ~locked[q]
    BY <1>2 DEF ReverseInvoice, FoundOpen
  <2>4. QED BY <2>2, <2>3 DEF Fenced
<1>3. ASSUME NEW p \in Payment, PostPayment(p) PROVE Fenced(e)'
  <2>1. e = Entry(p, "posted", "posted", pay[p].period, -pay[p].amount)
    BY <1>3 DEF PostPayment
  <2>2. e.late = locked[pay[p].period] /\ ~locked[pay[p].period]
    BY <1>3, <2>1 DEF PostPayment, FoundOpen, Entry
  <2>3. QED BY <2>2 DEF Fenced
<1>4. ASSUME NEW p \in Payment, NEW q \in Period, ReversePayment(p, q) PROVE Fenced(e)'
  <2>1. e \in Reversals(p, q)
    BY <1>4 DEF ReversePayment
  <2>2. e.source = p /\ e.period = q /\ e.late = locked[q]
    BY <2>1 DEF Reversals, Entry
  <2>3. q = pay[p].period => ~locked[q]
    BY <1>4 DEF ReversePayment, FoundOpen
  <2>4. pay'[p].period = pay[p].period
    BY <1>4 DEF ReversePayment, DocumentInv, BaseInv, TypeOK
  <2>5. QED BY <2>2, <2>3, <2>4 DEF Fenced
<1>5. ASSUME NEW a \in Adjustment, NEW q \in Period, PostAdjustment(a, q)
      PROVE  Fenced(e)'
  <2>1. e.source = a
    BY <1>5 DEF PostAdjustment, Entry
  <2>2. QED BY <2>1 DEF Fenced
<1>6. \/ PostInvoice
      \/ \E q \in Period : ReverseInvoice(q)
      \/ \E p \in Payment : PostPayment(p)
      \/ \E p \in Payment, q \in Period : ReversePayment(p, q)
      \/ \E a \in Adjustment, q \in Period : PostAdjustment(a, q)
  <2>1. ledger' # ledger
    OBVIOUS
  <2>2. QED BY <2>1 DEF Next, LockPeriod, CheckPeriod, MoveInvoice, MarkPaid,
                        CreatePayment, CancelPayment
<1>7. QED BY <1>1, <1>2, <1>3, <1>4, <1>5, <1>6

\* An invoice or a payment is never posted into a period that is locked, nor
\* reversed into its own one: the row of the period is held until commit.
THEOREM FinanceOwnPeriodFenced == Spec => []OwnPeriodFenced
<1>1. Init => OwnPeriodFenced
  BY DEF Init, OwnPeriodFenced
<1>2. DocumentInv /\ OwnPeriodFenced /\ [Next]_vars => OwnPeriodFenced'
  <2> SUFFICES ASSUME DocumentInv, OwnPeriodFenced, [Next]_vars, NEW e \in ledger'
               PROVE  Fenced(e)'
    BY DEF OwnPeriodFenced, Fenced
  <2>1. CASE e \in ledger
    <3>1. e.source \in Payment => pay'[e.source].period = pay[e.source].period
      BY <2>1, PeriodFixed
    <3>2. QED BY <2>1, <3>1 DEF OwnPeriodFenced, Fenced
  <2>2. CASE e \notin ledger
    <3>1. Next
      BY <2>2 DEF vars
    <3>2. QED BY <2>2, <3>1, NewEntriesFenced
  <2>3. QED BY <2>1, <2>2
<1>3. QED BY <1>1, <1>2, DocumentAlways, PTL DEF Spec

-----------------------------------------------------------------------------
(* The books of the invoice.                                               *)

Settled == InState("standard", "posted")

PaymentRow ==
  [stage : {"none", "draft", "cancelled", "posted", "reversed"},
   kind : {"standard", "release"}, amount : 0..Total, period : Period]

LEMMA PaymentRows ==
  ASSUME DocumentInv
  PROVE  /\ pay \in [Payment -> PaymentRow] /\ IsFiniteSet(Payment)
         /\ \A p \in Payment : pay[p].amount \in Int
         /\ IsFiniteSet(Settled) /\ Settled \subseteq Payment
         /\ outstanding \in Int /\ retention \in Int /\ Paid \in Int
<1>1. pay \in [Payment -> PaymentRow]
  BY DEF DocumentInv, BaseInv, TypeOK, PaymentRow
<1>2. \A p \in Payment : pay[p].amount \in Int
  BY <1>1, FinanceAssumption DEF PaymentRow
<1>3. Settled \in SUBSET Payment /\ IsFiniteSet(Payment)
  BY FinanceAssumption DEF Settled, InState
<1>4. IsFiniteSet(Settled)
  BY <1>3, FS_Subset
<1>5. Paid \in Int
  <2> DEFINE f == [p \in Payment |-> pay[p].amount]
  <2>1. \A p \in Settled : f[p] \in Int
    BY <1>2, <1>3
  <2> HIDE DEF f
  <2>2. SumFunctionOnSet(f, Settled) \in Int
    BY <1>4, <2>1, SumTyped
  <2>3. QED BY <2>2 DEF f, Paid, Settled
<1>6. QED BY <1>1, <1>2, <1>3, <1>4, <1>5, FinanceAssumption DEF DocumentInv, BaseInv, TypeOK

\* The payments that count are the same, with the same amounts.
LEMMA PaidKept ==
  ASSUME DocumentInv, Settled' = Settled, \A p \in Settled : pay'[p].amount = pay[p].amount
  PROVE  Paid' = Paid
<1> DEFINE f == [p \in Payment |-> pay[p].amount]
           g == [p \in Payment |-> pay'[p].amount]
<1>1. IsFiniteSet(Settled) /\ \A p \in Settled : f[p] = g[p]
  BY PaymentRows
<1>2. Paid = SumFunctionOnSet(f, Settled) /\ Paid' = SumFunctionOnSet(g, Settled)
  BY DEF Paid, Settled
<1> HIDE DEF f, g
<1>3. QED BY <1>1, <1>2, SumSame

\* One more payment counts.
LEMMA PaidMore ==
  ASSUME DocumentInv, NEW p \in Payment, p \notin Settled, Settled' = Settled \cup {p},
         \A x \in Payment : pay'[x].amount = pay[x].amount
  PROVE  Paid' = Paid + pay[p].amount
<1> DEFINE f == [x \in Payment |-> pay[x].amount]
<1>1. f = [x \in Payment |-> pay'[x].amount]
  OBVIOUS
<1>2. Paid = SumFunctionOnSet(f, Settled) /\ Paid' = SumFunctionOnSet(f, Settled \cup {p})
  BY <1>1 DEF Paid, Settled
<1>3. f[p] \in Int /\ f[p] = pay[p].amount /\ IsFiniteSet(Settled)
      /\ \A x \in Settled : f[x] \in Int
  BY PaymentRows
<1> HIDE DEF f
<1>4. Paid' = f[p] + Paid
  BY <1>2, <1>3, SumAdd
<1>5. QED BY <1>3, <1>4, PaymentRows

\* One payment less counts.
LEMMA PaidLess ==
  ASSUME DocumentInv, NEW p \in Settled, Settled' = Settled \ {p},
         \A x \in Payment : pay'[x].amount = pay[x].amount
  PROVE  Paid' = Paid - pay[p].amount /\ Paid' \in Int
<1> DEFINE f == [x \in Payment |-> pay[x].amount]
<1>1. f = [x \in Payment |-> pay'[x].amount]
  OBVIOUS
<1>2. Paid = SumFunctionOnSet(f, Settled) /\ Paid' = SumFunctionOnSet(f, Settled \ {p})
  BY <1>1 DEF Paid, Settled
<1>3. /\ f[p] \in Int /\ f[p] = pay[p].amount /\ IsFiniteSet(Settled)
      /\ IsFiniteSet(Settled \ {p}) /\ \A x \in Settled : f[x] \in Int
  BY PaymentRows, FS_Subset
<1> HIDE DEF f
<1>4. Paid = f[p] + Paid' /\ Paid' \in Int
  BY <1>2, <1>3, SumRemove, SumTyped
<1>5. QED BY <1>3, <1>4

\* A payment changes its stage and nothing else.
LEMMA StageChange ==
  ASSUME DocumentInv, NEW p \in Payment, NEW s \in {"cancelled", "posted", "reversed"},
         pay' = [pay EXCEPT ![p].stage = s]
  PROVE  /\ \A x \in Payment : pay'[x].amount = pay[x].amount /\ pay'[x].kind = pay[x].kind
         /\ pay'[p].stage = s /\ \A x \in Payment \ {p} : pay'[x].stage = pay[x].stage
BY PaymentRows DEF PaymentRow

\* Nothing that counts changes.
LEMMA BooksKept ==
  ASSUME DocumentInv, BooksClose, UNCHANGED <<reversed, retention, outstanding>>,
         Settled' = Settled, \A p \in Settled : pay'[p].amount = pay[p].amount,
         InState("release", "reversed")' = InState("release", "reversed")
  PROVE  BooksClose'
<1>1. Paid' = Paid
  BY PaidKept
<1>2. QED BY <1>1 DEF BooksClose

LEMMA BooksDraft ==
  ASSUME DocumentInv, BooksClose, NEW p \in Payment, NEW kind, NEW amount, NEW q,
         CreatePayment(p, kind, amount, q)
  PROVE  BooksClose'
<1>1. \A x \in Payment \ {p} : pay'[x] = pay[x]
  BY PaymentRows DEF CreatePayment
<1>2. pay[p].stage = "none" /\ pay'[p].stage = "draft"
  BY PaymentRows DEF CreatePayment
<1>3. /\ Settled' = Settled
      /\ InState("release", "reversed")' = InState("release", "reversed")
      /\ p \notin Settled
  BY <1>1, <1>2 DEF Settled, InState
<1>4. \A x \in Settled : pay'[x].amount = pay[x].amount
  BY <1>1, <1>3, PaymentRows
<1>5. UNCHANGED <<reversed, retention, outstanding>>
  BY DEF CreatePayment, invoiceVars
<1>6. QED BY <1>3, <1>4, <1>5, BooksKept

LEMMA BooksCancel ==
  ASSUME DocumentInv, BooksClose, NEW p \in Payment, CancelPayment(p)
  PROVE  BooksClose'
<1>1. /\ pay[p].stage = "draft" /\ pay'[p].stage = "cancelled"
      /\ \A x \in Payment : pay'[x].amount = pay[x].amount /\ pay'[x].kind = pay[x].kind
      /\ \A x \in Payment \ {p} : pay'[x].stage = pay[x].stage
  BY StageChange DEF CancelPayment
<1>2. /\ Settled' = Settled
      /\ InState("release", "reversed")' = InState("release", "reversed")
  BY <1>1 DEF Settled, InState
<1>3. UNCHANGED <<reversed, retention, outstanding>>
  BY DEF CancelPayment, invoiceVars
<1>4. QED BY <1>1, <1>2, <1>3, PaymentRows, BooksKept

LEMMA BooksPost ==
  ASSUME DocumentInv, BooksClose, NEW p \in Payment, PostPayment(p)
  PROVE  BooksClose'
<1>1. /\ pay[p].stage = "draft" /\ pay'[p].stage = "posted" /\ reversed' = reversed
      /\ \A x \in Payment : pay'[x].amount = pay[x].amount /\ pay'[x].kind = pay[x].kind
      /\ \A x \in Payment \ {p} : pay'[x].stage = pay[x].stage
  BY StageChange DEF PostPayment
<1>2. InState("release", "reversed")' = InState("release", "reversed")
  BY <1>1 DEF InState
<1>3. /\ pay[p].amount \in Int /\ Paid \in Int /\ outstanding \in Int /\ retention \in Int
      /\ pay[p].kind \in {"standard", "release"} /\ Total \in Int
  BY PaymentRows, FinanceAssumption DEF PaymentRow
<1>4. CASE pay[p].kind = "standard"
  <2>1. p \notin Settled /\ Settled' = Settled \cup {p}
    BY <1>1, <1>4 DEF Settled, InState
  <2>2. Paid' = Paid + pay[p].amount
    BY <1>1, <2>1, PaidMore
  <2>3. outstanding' = outstanding - pay[p].amount /\ retention' = retention
    BY <1>4 DEF PostPayment, Settle
  <2>4. outstanding' + retention' + Paid' = outstanding + retention + Paid
    BY <1>3, <2>2, <2>3
  <2>5. QED BY <1>1, <1>2, <2>4 DEF BooksClose
<1>5. CASE pay[p].kind = "release"
  <2>1. Settled' = Settled
    BY <1>1, <1>5 DEF Settled, InState
  <2>2. Paid' = Paid
    BY <1>1, <2>1, PaymentRows, PaidKept
  <2>3. outstanding' = outstanding + pay[p].amount /\ retention' = retention - pay[p].amount
    BY <1>5 DEF PostPayment, Settle
  <2>4. outstanding' + retention' + Paid' = outstanding + retention + Paid
    BY <1>3, <2>2, <2>3
  <2>5. QED BY <1>1, <1>2, <2>4 DEF BooksClose
<1>6. QED BY <1>3, <1>4, <1>5

LEMMA BooksReverse ==
  ASSUME DocumentInv, BooksClose, NEW p \in Payment, NEW q, ReversePayment(p, q)
  PROVE  BooksClose'
<1>1. /\ pay[p].stage = "posted" /\ pay'[p].stage = "reversed" /\ reversed' = reversed
      /\ \A x \in Payment : pay'[x].amount = pay[x].amount /\ pay'[x].kind = pay[x].kind
      /\ \A x \in Payment \ {p} : pay'[x].stage = pay[x].stage
  BY StageChange DEF ReversePayment
<1>2. /\ pay[p].amount \in Int /\ Paid \in Int /\ outstanding \in Int /\ retention \in Int
      /\ pay[p].kind \in {"standard", "release"} /\ Total \in Int
  BY PaymentRows, FinanceAssumption DEF PaymentRow
<1>3. CASE pay[p].kind = "standard"
  <2>1. p \in Settled /\ Settled' = Settled \ {p}
    BY <1>1, <1>3 DEF Settled, InState
  <2>2. Paid' = Paid - pay[p].amount
    BY <1>1, <2>1, PaidLess
  <2>3. outstanding' = outstanding + pay[p].amount /\ retention' = retention
    BY <1>3 DEF ReversePayment, Unsettle
  <2>4. outstanding' + retention' + Paid' = outstanding + retention + Paid
    BY <1>2, <2>2, <2>3
  <2>5. InState("release", "reversed")' = InState("release", "reversed")
    BY <1>1, <1>3 DEF InState
  <2>6. QED BY <1>1, <2>4, <2>5 DEF BooksClose
<1>4. CASE pay[p].kind = "release"
  <2>1. Settled' = Settled
    BY <1>1, <1>4 DEF Settled, InState
  <2>2. Paid' = Paid
    BY <1>1, <2>1, PaymentRows, PaidKept
  <2>3. /\ retention' = retention + pay[p].amount
        /\ outstanding' = IF outstanding > pay[p].amount
                          THEN outstanding - pay[p].amount ELSE 0
    BY <1>4 DEF ReversePayment, Unsettle
  <2>4. outstanding' + retention' + Paid' >= outstanding + retention + Paid
    BY <1>2, <2>2, <2>3
  <2>5. p \in InState("release", "reversed")'
    BY <1>1, <1>4 DEF InState
  <2>6. ~reversed => outstanding' + retention' + Paid' >= Total
    BY <1>2, <2>2, <2>3, <2>4 DEF BooksClose
  <2>7. QED BY <1>1, <2>5, <2>6 DEF BooksClose
<1>5. QED BY <1>2, <1>3, <1>4

\* The books of the invoice close in whatever order payments are drafted,
\* posted and reversed: until the invoice is reversed every unit of its total
\* is outstanding, retained or paid, counted once unless a release of
\* retention was reversed.
THEOREM FinanceBooksClose == Spec => []BooksClose
<1>1. Init => BooksClose
  <2> SUFFICES ASSUME Init PROVE BooksClose
    OBVIOUS
  <2>1. InState("standard", "posted") = {}
    BY DEF Init, InState, NoPayment
  <2>2. Paid = 0
    BY <2>1, SumEmpty DEF Paid
  <2>3. outstanding = Total - Retained /\ retention = Retained
        /\ Total \in Int /\ Retained \in Int
    BY FinanceAssumption DEF Init
  <2>4. QED BY <2>2, <2>3 DEF BooksClose
<1>2. DocumentInv /\ BooksClose /\ [Next]_vars => BooksClose'
  <2> SUFFICES ASSUME DocumentInv, BooksClose, [Next]_vars PROVE BooksClose'
    OBVIOUS
  <2>1. CASE UNCHANGED <<reversed, retention, outstanding, pay>>
    BY <2>1, BooksKept DEF Settled, InState
  <2>2. ASSUME NEW q \in Period, ReverseInvoice(q) PROVE BooksClose'
    BY <2>2 DEF ReverseInvoice, BooksClose
  <2>3. \/ UNCHANGED <<reversed, retention, outstanding, pay>>
        \/ \E q \in Period : ReverseInvoice(q)
        \/ \E p \in Payment : CancelPayment(p) \/ PostPayment(p)
        \/ \E p \in Payment, q \in Period : ReversePayment(p, q)
        \/ \E p \in Payment, kind \in {"standard", "release"}, amount \in 1..Total,
              q \in Period : CreatePayment(p, kind, amount, q)
    BY DEF Next, vars, invoiceVars, LockPeriod, CheckPeriod, MoveInvoice, PostInvoice,
           MarkPaid, PostAdjustment
  <2>4. QED BY <2>1, <2>2, <2>3, BooksDraft, BooksCancel, BooksPost, BooksReverse
<1>3. QED BY <1>1, <1>2, DocumentAlways, PTL DEF Spec

-----------------------------------------------------------------------------
(* Procurement and its stock.                                              *)

EntryType == [source : Source, quantity : Int, after : Nat, worth : Int]
BookType == [onHand : Nat, average : Nat, entries : Seq(EntryType)]
MovementType == [item : Item, source : Source, quantity : Int \ {0}, cost : Nat]

\* StockIsLedger, of one book and of all of them.
Runs(book) ==
  /\ \A k \in 1..Len(book.entries) :
       /\ book.entries[k].after =
            (IF k = 1 THEN 0 ELSE book.entries[k - 1].after) + book.entries[k].quantity
       /\ book.entries[k].after >= 0
  /\ book.onHand = IF book.entries = <<>> THEN 0 ELSE Last(book.entries).after

Once(b) ==
  \A i, j \in Item : \A k \in 1..Len(b[i].entries), n \in 1..Len(b[j].entries) :
    b[i].entries[k].source = b[j].entries[n].source => i = j /\ k = n

Sound(b) ==
  /\ b \in [Item -> BookType]
  /\ \A i \in Item : Runs(b[i]) /\ b[i].onHand * b[i].average = Worth(b[i])
  /\ Once(b)

\* The entries of a source, as Booked has them for the current books.
EntriesOf(b, source) ==
  UNION {{e \in {b[i].entries[k] : k \in DOMAIN b[i].entries} : e.source = source} :
         i \in Item}

-----------------------------------------------------------------------------
(* One movement.                                                           *)

LEMMA NotRefused ==
  ASSUME NEW b \in [Item -> BookType]
  PROVE  b # Refused
<1>1. DOMAIN b = Item /\ Item # {}
  BY ProcurementAssumption
<1>2. DOMAIN <<>> = {}
  OBVIOUS
<1>3. QED BY <1>1, <1>2 DEF Refused

LEMMA EntriesTyped ==
  ASSUME NEW book \in BookType
  PROVE  /\ book.onHand \in Nat /\ book.average \in Nat /\ book.entries \in Seq(EntryType)
         /\ Len(book.entries) \in Nat /\ DOMAIN book.entries = 1..Len(book.entries)
         /\ \A k \in 1..Len(book.entries) : book.entries[k] \in EntryType
         /\ book.entries = <<>> <=> Len(book.entries) = 0
         /\ Worth(book) \in Int
<1>1. book.onHand \in Nat /\ book.average \in Nat /\ book.entries \in Seq(EntryType)
  BY DEF BookType
<1> DEFINE s == book.entries
<1>2. s \in Seq(EntryType)
  BY <1>1
<1> HIDE DEF s
<1>3. /\ Len(s) \in Nat /\ DOMAIN s = 1..Len(s) /\ (s = <<>> <=> Len(s) = 0)
      /\ \A k \in 1..Len(s) : s[k] \in EntryType
  BY <1>2, LenProperties, ElementOfSeq, EmptySeq
<1>4. Worth(book) \in Int
  <2>1. Worth(book) = IF s = <<>> THEN 0 ELSE s[Len(s)].worth
    BY DEF Worth, Last, s
  <2>2. s # <<>> => s[Len(s)] \in EntryType
    BY <1>3
  <2>3. QED BY <2>1, <2>2 DEF EntryType
<1>5. QED BY <1>1, <1>3, <1>4 DEF s

\* What comes in at its cost and goes out at the average keeps the product of
\* quantity and average equal to the worth.
LEMMA AverageKeepsValue ==
  ASSUME NEW a \in Nat, NEW h \in Nat, NEW q \in Int \ {0}, NEW c \in Nat, h + q >= 0,
         q > 0 => (h * a + q * c) % (h + q) = 0,
         NEW n, n = IF q < 0 THEN a ELSE (h * a + q * c) \div (h + q)
  PROVE  n \in Nat /\ (h + q) * n = h * a + q * (IF q > 0 THEN c ELSE a)
<1>1. CASE q < 0
  BY <1>1
<1>2. CASE q > 0
  <2> DEFINE x == h * a + q * c
             d == h + q
  <2>1. h * a \in Nat /\ q * c \in Nat
    BY <1>2
  <2>2. x \in Nat /\ d \in Nat /\ d > 0
    BY <1>2, <2>1
  <2>3. x % d = 0 /\ n = x \div d
    BY <1>2
  <2> HIDE DEF x, d
  <2>4. x = d * (x \div d) + (x % d) /\ x \div d \in Nat
    BY <2>2
  <2>5. n \in Nat /\ d * n = x
    BY <2>2, <2>3, <2>4
  <2>6. QED BY <1>2, <2>5 DEF x, d
<1>3. QED BY <1>1, <1>2

\* What an accepted movement makes of its book.
BookAfter(book, mv) ==
  [onHand |-> book.onHand + mv.quantity, average |-> NewAverage(book, mv),
   entries |-> Append(book.entries, StockEntry(book, mv))]

LEMMA PostStep ==
  ASSUME NEW b \in [Item -> BookType], NEW mv \in MovementType,
         mv.source \notin Posted(b), Post(mv, b) # Refused
  PROVE  /\ Post(mv, b) = [b EXCEPT ![mv.item] = BookAfter(b[mv.item], mv)]
         /\ Admissible(b[mv.item], mv)
BY NotRefused DEF Post, BookAfter

LEMMA MovedTyped ==
  ASSUME NEW book \in BookType, NEW mv \in MovementType, Admissible(book, mv)
  PROVE  /\ NewAverage(book, mv) \in Nat
         /\ (book.onHand + mv.quantity) * NewAverage(book, mv) =
              book.onHand * book.average
                + mv.quantity * (IF mv.quantity > 0 THEN mv.cost ELSE book.average)
         /\ StockEntry(book, mv) \in EntryType
         /\ BookAfter(book, mv) \in BookType
<1> DEFINE h == book.onHand
           a == book.average
           q == mv.quantity
           c == mv.cost
           n == NewAverage(book, mv)
<1>1. h \in Nat /\ a \in Nat /\ q \in Int \ {0} /\ c \in Nat /\ mv.source \in Source
      /\ book.entries \in Seq(EntryType) /\ Worth(book) \in Int
  BY EntriesTyped DEF MovementType
<1>2. /\ h + q >= 0
      /\ q > 0 => (h * a + q * c) % (h + q) = 0
      /\ n = IF q < 0 THEN a ELSE (h * a + q * c) \div (h + q)
  BY DEF Admissible, NewAverage
<1> DEFINE w == IF q > 0 THEN c ELSE a
<1>3. StockEntry(book, mv) = [source |-> mv.source, quantity |-> q, after |-> h + q,
                         worth |-> Worth(book) + q * w]
  BY DEF StockEntry
<1>4. BookAfter(book, mv) = [onHand |-> h + q, average |-> n,
                         entries |-> Append(book.entries, StockEntry(book, mv))]
  BY DEF BookAfter
<1> HIDE DEF h, a, q, c, n
<1>5. n \in Nat /\ (h + q) * n = h * a + q * w
  BY <1>1, <1>2, AverageKeepsValue
<1>6. Worth(book) + q * w \in Int /\ h + q \in Nat
  BY <1>1, <1>2
<1>7. StockEntry(book, mv) \in EntryType
  <2> HIDE DEF w
  <2>1. QED BY <1>1, <1>3, <1>6 DEF EntryType
<1>8. Append(book.entries, StockEntry(book, mv)) \in Seq(EntryType)
  BY <1>1, <1>7, AppendProperties
<1>9. BookAfter(book, mv) \in BookType
  BY <1>4, <1>5, <1>6, <1>8 DEF BookType
<1>10. QED BY <1>5, <1>7, <1>9 DEF h, a, q, c, n, w

\* The new entry closes the book.
LEMMA MovedRuns ==
  ASSUME NEW book \in BookType, NEW mv \in MovementType, Admissible(book, mv),
         Runs(book), book.onHand * book.average = Worth(book)
  PROVE  /\ Runs(BookAfter(book, mv))
         /\ LET m == BookAfter(book, mv) IN m.onHand * m.average = Worth(m)
         /\ Len(BookAfter(book, mv).entries) = Len(book.entries) + 1
         /\ \A k \in 1..Len(book.entries) : BookAfter(book, mv).entries[k] = book.entries[k]
         /\ BookAfter(book, mv).entries[Len(book.entries) + 1] = StockEntry(book, mv)
<1> DEFINE e == book.entries
           x == StockEntry(book, mv)
           m == BookAfter(book, mv)
           n == Len(e)
<1>1. /\ e \in Seq(EntryType) /\ x \in EntryType /\ m \in BookType
      /\ n \in Nat /\ \A k \in 1..n : e[k] \in EntryType
      /\ e = <<>> <=> n = 0
  BY EntriesTyped, MovedTyped
<1>2. /\ m.entries = Append(e, x) /\ m.onHand = book.onHand + mv.quantity
      /\ m.average = NewAverage(book, mv)
  BY DEF BookAfter
<1>3. /\ Len(m.entries) = n + 1 /\ m.entries[n + 1] = x
      /\ \A k \in 1..n : m.entries[k] = e[k]
  <2> HIDE DEF e, x, m, n
  <2>1. Len(Append(e, x)) = Len(e) + 1 /\ Append(e, x)[Len(e) + 1] = x
        /\ \A k \in 1..Len(e) : Append(e, x)[k] = e[k]
    BY <1>1, AppendProperties
  <2>2. QED BY <1>2, <2>1 DEF n
<1>4. /\ x.after = book.onHand + mv.quantity /\ x.quantity = mv.quantity
      /\ x.worth = Worth(book) + mv.quantity *
                     (IF mv.quantity > 0 THEN mv.cost ELSE book.average)
  BY DEF StockEntry
<1>5. x.after >= 0 /\ x.after \in Int
  BY <1>1 DEF EntryType
<1>6. book.onHand = (IF n = 0 THEN 0 ELSE e[n].after)
  BY <1>1 DEF Runs, Last
<1>7. m.entries # <<>> /\ Last(m.entries) = x
  <2>1. m.entries # <<>>
    BY <1>1, <1>3, EntriesTyped
  <2>2. QED BY <1>3, <2>1 DEF Last
<1>8. ASSUME NEW k \in 1..n + 1
      PROVE  /\ m.entries[k].after =
                  (IF k = 1 THEN 0 ELSE m.entries[k - 1].after) + m.entries[k].quantity
             /\ m.entries[k].after >= 0
  <2>1. CASE k \in 1..n
    <3>1. /\ e[k].after = (IF k = 1 THEN 0 ELSE e[k - 1].after) + e[k].quantity
          /\ e[k].after >= 0
      BY <2>1 DEF Runs
    <3>2. m.entries[k] = e[k] /\ (k # 1 => m.entries[k - 1] = e[k - 1])
      <4> HIDE DEF e, m, n
      <4>1. k # 1 => k - 1 \in 1..n
        BY <2>1, <1>1
      <4>2. QED BY <1>3, <2>1, <4>1
    <3> HIDE DEF e, m, n
    <3>3. QED BY <3>1, <3>2
  <2>2. CASE k = n + 1
    <3>1. m.entries[k] = x /\ (k # 1 => m.entries[k - 1] = e[n])
      <4> HIDE DEF e, m, n, x
      <4>1. k # 1 => n \in 1..n /\ k - 1 = n
        BY <2>2, <1>1
      <4>2. QED BY <1>3, <2>2, <4>1
    <3>2. k = 1 <=> n = 0
      BY <1>1, <2>2
    <3> HIDE DEF e, m, n, x
    <3>3. QED BY <1>4, <1>5, <1>6, <2>2, <3>1, <3>2
  <2>3. QED BY <1>1, <2>1, <2>2
<1>9. Runs(m)
  BY <1>2, <1>3, <1>4, <1>7, <1>8 DEF Runs
<1>10. m.onHand * m.average = Worth(m)
  <2>1. Worth(m) = x.worth
    BY <1>7 DEF Worth
  <2>2. QED BY <1>2, <1>4, <2>1, MovedTyped
<1>11. QED BY <1>3, <1>9, <1>10

\* Books in which a fresh movement was accepted.
LEMMA PostAccepted ==
  ASSUME NEW b, Sound(b), NEW mv \in MovementType, mv.source \notin Posted(b),
         Post(mv, b) # Refused
  PROVE  /\ Post(mv, b) \in [Item -> BookType]
         /\ \A i \in Item : i # mv.item => Post(mv, b)[i] = b[i]
         /\ LET old == b[mv.item].entries
                new == Post(mv, b)[mv.item].entries
            IN /\ Len(new) = Len(old) + 1
               /\ \A k \in 1..Len(old) : new[k] = old[k]
               /\ new[Len(old) + 1] = StockEntry(b[mv.item], mv)
         /\ \A i \in Item : /\ Runs(Post(mv, b)[i])
                            /\ Post(mv, b)[i].onHand * Post(mv, b)[i].average
                                 = Worth(Post(mv, b)[i])
<1> DEFINE i == mv.item
           m == BookAfter(b[i], mv)
           c == Post(mv, b)
<1>1. i \in Item /\ b \in [Item -> BookType] /\ b[i] \in BookType
  BY DEF Sound, MovementType
<1>2. c = [b EXCEPT ![i] = m] /\ Admissible(b[i], mv)
  BY <1>1, PostStep
<1>3. Runs(b[i]) /\ b[i].onHand * b[i].average = Worth(b[i])
  BY <1>1 DEF Sound
<1>4. m \in BookType
  BY <1>1, <1>2, MovedTyped
<1>5. /\ Runs(m) /\ m.onHand * m.average = Worth(m)
      /\ Len(m.entries) = Len(b[i].entries) + 1
      /\ \A k \in 1..Len(b[i].entries) : m.entries[k] = b[i].entries[k]
      /\ m.entries[Len(b[i].entries) + 1] = StockEntry(b[i], mv)
  BY <1>1, <1>2, <1>3, MovedRuns
<1> HIDE DEF m, c, i
<1>6. c \in [Item -> BookType] /\ c[i] = m /\ \A j \in Item : j # i => c[j] = b[j]
  BY <1>1, <1>2, <1>4
<1>7. ASSUME NEW j \in Item PROVE Runs(c[j]) /\ c[j].onHand * c[j].average = Worth(c[j])
  <2>1. CASE j = i
    BY <1>5, <1>6, <2>1
  <2>2. CASE j # i
    BY <1>6, <2>2 DEF Sound
  <2>3. QED BY <2>1, <2>2
<1>8. QED BY <1>5, <1>6, <1>7 DEF c, i

LEMMA PostOnce ==
  ASSUME NEW b, Sound(b), NEW mv \in MovementType, mv.source \notin Posted(b),
         Post(mv, b) # Refused
  PROVE  Once(Post(mv, b))
<1> DEFINE c == Post(mv, b)
           a == mv.item
<1>1. /\ c \in [Item -> BookType] /\ a \in Item /\ b \in [Item -> BookType]
      /\ \A i \in Item : i # a => c[i] = b[i]
      /\ Len(c[a].entries) = Len(b[a].entries) + 1
      /\ \A k \in 1..Len(b[a].entries) : c[a].entries[k] = b[a].entries[k]
      /\ c[a].entries[Len(b[a].entries) + 1] = StockEntry(b[a], mv)
  BY PostAccepted DEF Sound, MovementType
<1>2. StockEntry(b[a], mv).source = mv.source
  BY DEF StockEntry
<1>3. \A i \in Item : \A k \in 1..Len(b[i].entries) : b[i].entries[k].source # mv.source
  <2> SUFFICES ASSUME NEW i \in Item, NEW k \in 1..Len(b[i].entries),
                      b[i].entries[k].source = mv.source
               PROVE  FALSE
    OBVIOUS
  <2>1. k \in DOMAIN b[i].entries
    BY <1>1, EntriesTyped
  <2>2. mv.source \in Source
    BY DEF MovementType
  <2>3. QED BY <2>1, <2>2 DEF Posted
<1>4. \A i \in Item : Len(b[i].entries) \in Nat
  BY <1>1, EntriesTyped
<1> HIDE DEF c, a
\* A place in the new books is an old place with its old entry, or the new one.
<1>5. ASSUME NEW i \in Item, NEW k \in 1..Len(c[i].entries)
      PROVE  \/ /\ k \in 1..Len(b[i].entries)
                /\ c[i].entries[k].source = b[i].entries[k].source
             \/ /\ i = a /\ k = Len(b[a].entries) + 1
                /\ c[i].entries[k].source = mv.source
  <2>1. CASE i # a
    BY <1>1, <2>1
  <2>2. CASE i = a /\ k = Len(b[a].entries) + 1
    BY <1>1, <1>2, <2>2
  <2>3. CASE i = a /\ k # Len(b[a].entries) + 1
    <3>1. k \in 1..Len(b[a].entries)
      BY <1>1, <1>4, <2>3
    <3>2. QED BY <1>1, <2>3, <3>1
  <2>4. QED BY <2>1, <2>2, <2>3
<1>6. Once(b)
  BY DEF Sound
<1>7. Once(c)
  <2> SUFFICES ASSUME NEW i \in Item, NEW j \in Item,
                      NEW k \in 1..Len(c[i].entries), NEW n \in 1..Len(c[j].entries),
                      c[i].entries[k].source = c[j].entries[n].source
               PROVE  i = j /\ k = n
    BY DEF Once
  <2>1. \/ /\ k \in 1..Len(b[i].entries)
           /\ c[i].entries[k].source = b[i].entries[k].source
        \/ /\ i = a /\ k = Len(b[a].entries) + 1
           /\ c[i].entries[k].source = mv.source
    BY <1>5
  <2>2. \/ /\ n \in 1..Len(b[j].entries)
           /\ c[j].entries[n].source = b[j].entries[n].source
        \/ /\ j = a /\ n = Len(b[a].entries) + 1
           /\ c[j].entries[n].source = mv.source
    BY <1>5
  <2>3. QED BY <2>1, <2>2, <1>3, <1>6 DEF Once
<1>8. QED BY <1>7 DEF c

\* Post keeps the books sound, whatever it is given.
LEMMA PostSound ==
  ASSUME NEW b, Sound(b), NEW mv \in MovementType, Post(mv, b) # Refused
  PROVE  Sound(Post(mv, b))
<1>1. CASE mv.source \in Posted(b)
  BY <1>1 DEF Post
<1>2. CASE mv.source \notin Posted(b)
  BY <1>2, PostAccepted, PostOnce DEF Sound
<1>3. QED BY <1>1, <1>2

\* A fresh movement leaves one entry for its source and none for another.
LEMMA PostEntries ==
  ASSUME NEW b, Sound(b), NEW mv \in MovementType, Post(mv, b) # Refused,
         EntriesOf(b, mv.source) = {}
  PROVE  /\ \E e : EntriesOf(Post(mv, b), mv.source) = {e} /\ e.quantity = mv.quantity
         /\ \A source : source # mv.source =>
              EntriesOf(Post(mv, b), source) = EntriesOf(b, source)
<1> DEFINE c == Post(mv, b)
           a == mv.item
           x == StockEntry(b[a], mv)
<1>1. mv.source \notin Posted(b)
  BY DEF Posted, EntriesOf
<1>2. /\ c \in [Item -> BookType] /\ a \in Item /\ b \in [Item -> BookType]
      /\ \A i \in Item : i # a => c[i] = b[i]
      /\ Len(c[a].entries) = Len(b[a].entries) + 1
      /\ \A k \in 1..Len(b[a].entries) : c[a].entries[k] = b[a].entries[k]
      /\ c[a].entries[Len(b[a].entries) + 1] = x
  BY <1>1, PostAccepted DEF Sound, MovementType
<1>3. x.source = mv.source /\ x.quantity = mv.quantity
  BY DEF StockEntry
<1>4. \A i \in Item : /\ Len(b[i].entries) \in Nat
                      /\ DOMAIN b[i].entries = 1..Len(b[i].entries)
                      /\ DOMAIN c[i].entries = 1..Len(c[i].entries)
  BY <1>2, EntriesTyped
<1> HIDE DEF c, a, x
<1> DEFINE All(d) == UNION {{d[i].entries[k] : k \in DOMAIN d[i].entries} : i \in Item}
<1>5. All(c) = All(b) \cup {x}
  <2>1. \A i \in Item : i # a =>
          {c[i].entries[k] : k \in DOMAIN c[i].entries}
            = {b[i].entries[k] : k \in DOMAIN b[i].entries}
    BY <1>2
  <2>2. {c[a].entries[k] : k \in DOMAIN c[a].entries}
          = {b[a].entries[k] : k \in DOMAIN b[a].entries} \cup {x}
    <3>1. 1..Len(b[a].entries) + 1 = 1..Len(b[a].entries) \cup {Len(b[a].entries) + 1}
      BY <1>2, <1>4
    <3>2. DOMAIN c[a].entries = DOMAIN b[a].entries \cup {Len(b[a].entries) + 1}
      BY <1>2, <1>4, <3>1
    <3>3. QED BY <1>2, <1>4, <3>2
  <2>3. QED BY <1>2, <2>1, <2>2
<1>6. \A d, source : EntriesOf(d, source) = {e \in All(d) : e.source = source}
  BY DEF EntriesOf
<1> HIDE DEF All
<1>7. EntriesOf(c, mv.source) = {x}
  BY <1>3, <1>5, <1>6
<1>8. \A source : source # mv.source => EntriesOf(c, source) = EntriesOf(b, source)
  BY <1>3, <1>5, <1>6
<1>9. QED BY <1>3, <1>7, <1>8 DEF c

-----------------------------------------------------------------------------
(* The lines of a receipt, one after the other.                            *)

\* it[s] are the books after the lines s.
Run(g, it) ==
  it = [s \in SUBSET Lines |->
          IF s = {} THEN books
          ELSE ReceiveLine(g, [l \in Lines |-> l][Max(s)], it[s \ {Max(s)}])]

LEMMA ReceiveLinesIsVal ==
  ASSUME NEW g
  PROVE  ReceiveLines(g) = (CHOOSE it : Run(g, it))[Lines]
<1>1. DOMAIN [l \in Lines |-> l] = Lines
  OBVIOUS
<1>2. QED BY <1>1 DEF ReceiveLines, FoldLeft, MapThenFoldSet, Run

LEMMA LinesFinite ==
  /\ Len(Line) \in Nat /\ Lines = 1..Len(Line) /\ IsFiniteSet(Lines)
  /\ \A l \in Lines : /\ Line[l].item \in Item \cup {NoItem}
                      /\ Line[l].quantity \in Nat \ {0} /\ Line[l].rate \in Nat
<1>1. Line \in Seq([item : Item \cup {NoItem}, quantity : Nat \ {0}, rate : Nat])
  BY ProcurementAssumption
<1>2. Len(Line) \in Nat /\ Lines = 1..Len(Line)
  BY <1>1, LenProperties DEF Lines
<1>3. \A l \in Lines : Line[l] \in [item : Item \cup {NoItem}, quantity : Nat \ {0}, rate : Nat]
  BY <1>1, <1>2, ElementOfSeq
<1>4. IsFiniteSet(1..Len(Line))
  BY <1>2, FS_Interval
<1>5. QED BY <1>2, <1>3, <1>4

LEMMA LastLine ==
  \A s \in SUBSET Lines : s # {} => Max(s) \in s
<1> SUFFICES ASSUME NEW s \in SUBSET Lines, s # {} PROVE Max(s) \in s
  OBVIOUS
<1>1. IsFiniteSet(s) /\ \A x \in s : x \in Int
  <2>1. IsFiniteSet(Lines) /\ \A x \in Lines : x \in Int
    BY LinesFinite
  <2>2. QED BY <2>1, FS_Subset
<1>2. \E x \in s : \A y \in s : x >= y
  BY <1>1, GreatestExists
<1>3. QED BY <1>2 DEF Max

LEMMA RunStep ==
  ASSUME NEW g, NEW it, Run(g, it), NEW s \in SUBSET Lines
  PROVE  it[s] = IF s = {} THEN books ELSE ReceiveLine(g, Max(s), it[s \ {Max(s)}])
<1>1. it[s] = IF s = {} THEN books
              ELSE ReceiveLine(g, [l \in Lines |-> l][Max(s)], it[s \ {Max(s)}])
  BY DEF Run
<1>2. s # {} => Max(s) \in Lines
  BY LastLine
<1>3. QED BY <1>1, <1>2

-----------------------------------------------------------------------------
(* A receipt that is posted.                                               *)

\* The line of a receipt that nobody names by hand.
ByLine(g, l) == <<g, l>> \notin Manual

GoodReceipt(g) ==
  /\ g \in Receipt
  /\ receipt[g] \in [vendor : Vendor, accepted : [Lines -> Nat], posted : BOOLEAN]
  /\ Sound(books)
  /\ \A l \in Lines : ByLine(g, l) => EntriesOf(books, <<g, l>>) = {}

LEMMA MovementTyped ==
  ASSUME NEW g, GoodReceipt(g), NEW l \in Lines, Stocked(g, l)
  PROVE  /\ Movement(g, l) \in MovementType
         /\ Movement(g, l).source = <<g, l>>
         /\ Movement(g, l).quantity = receipt[g].accepted[l]
<1>1. Line[l].item \in Item /\ Line[l].rate \in Nat
  BY LinesFinite DEF Stocked
<1>2. receipt[g].accepted[l] \in Int \ {0}
  BY DEF Stocked, GoodReceipt
<1>3. <<g, l>> \in Source
  BY ProcurementAssumption DEF GoodReceipt
<1>4. QED BY <1>1, <1>2, <1>3 DEF Movement, MovementType

\* What the books b are after the lines s.
After(g, s, b) ==
  \/ b = Refused
  \/ /\ Sound(b)
     /\ \A source : (\A l \in s : source # <<g, l>>) =>
          EntriesOf(b, source) = EntriesOf(books, source)
     /\ \A l \in s : ByLine(g, l) =>
          IF Stocked(g, l)
          THEN \E e : /\ EntriesOf(b, <<g, l>>) = {e}
                      /\ e.quantity = receipt[g].accepted[l]
          ELSE EntriesOf(b, <<g, l>>) = {}

LEMMA LineStep ==
  ASSUME NEW g, GoodReceipt(g), NEW s \in SUBSET Lines, NEW l \in Lines, l \notin s,
         NEW b, After(g, s, b)
  PROVE  After(g, s \cup {l}, ReceiveLine(g, l, b))
<1> DEFINE c == ReceiveLine(g, l, b)
<1>1. CASE b = Refused
  BY <1>1 DEF After, ReceiveLine, Post
<1>2. ASSUME b # Refused
      PROVE  /\ Sound(b)
             /\ \A source : (\A k \in s : source # <<g, k>>) =>
                  EntriesOf(b, source) = EntriesOf(books, source)
             /\ \A k \in s : ByLine(g, k) =>
                  IF Stocked(g, k)
                  THEN \E e : /\ EntriesOf(b, <<g, k>>) = {e}
                              /\ e.quantity = receipt[g].accepted[k]
                  ELSE EntriesOf(b, <<g, k>>) = {}
  BY <1>2 DEF After
<1>3. b # Refused /\ ByLine(g, l) => EntriesOf(b, <<g, l>>) = {}
  <2>1. \A k \in s : <<g, l>> # <<g, k>>
    OBVIOUS
  <2>2. QED BY <1>2, <2>1 DEF GoodReceipt
<1>4. CASE b # Refused /\ ~Stocked(g, l)
  <2>1. c = b
    BY <1>4 DEF ReceiveLine
  <2>2. \A source : (\A k \in s \cup {l} : source # <<g, k>>) =>
          EntriesOf(c, source) = EntriesOf(books, source)
    BY <1>2, <1>4, <2>1
  <2>3. QED BY <1>2, <1>3, <1>4, <2>1, <2>2 DEF After
<1>5. CASE b # Refused /\ Stocked(g, l) /\ c # Refused
  <2> DEFINE mv == Movement(g, l)
  <2>1. /\ mv \in MovementType /\ mv.source = <<g, l>>
        /\ mv.quantity = receipt[g].accepted[l]
    BY <1>5, MovementTyped
  <2>2. c = Post(mv, b)
    BY <1>5 DEF ReceiveLine
  <2> HIDE DEF mv, c
  <2>3. Sound(c)
    BY <1>2, <1>5, <2>1, <2>2, PostSound
  <2>4. /\ ByLine(g, l) =>
             \E e : EntriesOf(c, <<g, l>>) = {e} /\ e.quantity = receipt[g].accepted[l]
        /\ \A source : source # <<g, l>> => EntriesOf(c, source) = EntriesOf(b, source)
    <3>1. CASE EntriesOf(b, <<g, l>>) = {}
      BY <1>2, <1>5, <2>1, <2>2, <3>1, PostEntries
    <3>2. CASE EntriesOf(b, <<g, l>>) # {}
      <4>1. mv.source \in Posted(b)
        BY <2>1, <3>2 DEF EntriesOf, Posted, MovementType
      <4>2. c = b
        BY <2>2, <4>1 DEF Post
      <4>3. QED BY <1>3, <1>5, <3>2, <4>2
    <3>3. QED BY <3>1, <3>2
  <2>5. \A source : (\A k \in s \cup {l} : source # <<g, k>>) =>
          EntriesOf(c, source) = EntriesOf(books, source)
    BY <1>2, <1>5, <2>4
  <2>6. \A k \in s : EntriesOf(c, <<g, k>>) = EntriesOf(b, <<g, k>>)
    BY <2>4
  <2>7. \A k \in s \cup {l} : ByLine(g, k) =>
          IF Stocked(g, k)
          THEN \E e : /\ EntriesOf(c, <<g, k>>) = {e}
                      /\ e.quantity = receipt[g].accepted[k]
          ELSE EntriesOf(c, <<g, k>>) = {}
    BY <1>2, <1>5, <2>4, <2>6
  <2>8. After(g, s \cup {l}, c)
    BY <2>3, <2>5, <2>7 DEF After
  <2>9. QED BY <2>8 DEF c
<1>6. CASE c = Refused
  BY <1>6 DEF After
<1>7. QED BY <1>1, <1>4, <1>5, <1>6

LEMMA AfterLines ==
  ASSUME NEW g, GoodReceipt(g), NEW it, Run(g, it)
  PROVE  \A s \in SUBSET Lines : After(g, s, it[s])
<1> DEFINE F == {s \in SUBSET Lines : ~After(g, s, it[s])}
<1> SUFFICES ASSUME F # {} PROVE FALSE
  OBVIOUS
<1>1. F \in SUBSET (SUBSET Lines) /\ F # {}
  OBVIOUS
<1>2. PICK s \in F : \A u \in F : u \subseteq s => u = s
  <2> HIDE DEF F
  <2>1. IsFiniteSet(Lines)
    BY LinesFinite
  <2>2. QED BY <1>1, <2>1, MinimalSubset
<1>3. s \in SUBSET Lines /\ ~After(g, s, it[s])
  OBVIOUS
<1>4. it[s] = IF s = {} THEN books ELSE ReceiveLine(g, Max(s), it[s \ {Max(s)}])
  BY <1>3, RunStep
<1>5. CASE s = {}
  <2>1. After(g, {}, books)
    BY DEF After, GoodReceipt
  <2>2. QED BY <1>3, <1>4, <1>5, <2>1
<1>6. CASE s # {}
  <2> DEFINE l == Max(s)
             u == s \ {l}
  <2>1. l \in s
    BY <1>3, <1>6, LastLine
  <2> HIDE DEF l
  <2>2. u \in SUBSET Lines /\ u # s /\ u \subseteq s /\ l \in Lines /\ l \notin u
        /\ u \cup {l} = s
    BY <1>3, <2>1
  <2>3. After(g, u, it[u])
    BY <1>2, <2>2
  <2> HIDE DEF u
  <2>4. After(g, s, ReceiveLine(g, l, it[u]))
    BY <2>2, <2>3, LineStep
  <2>5. QED BY <1>3, <1>4, <1>6, <2>4 DEF l, u
<1>7. QED BY <1>5, <1>6

\* The fold is there to be had: the books after some lines are books or Refused.
LEMMA RunExists ==
  ASSUME NEW g, GoodReceipt(g)
  PROVE  \E it : Run(g, it)
<1> DEFINE V == [Item -> BookType] \cup {Refused}
           pick == [s \in SUBSET Lines |-> Max(s)]
           step == [x \in Lines \X V |-> ReceiveLine(g, x[1], x[2])]
<1>1. books \in V
  BY DEF GoodReceipt, Sound
<1>2. ASSUME NEW l \in Lines, NEW b \in V PROVE ReceiveLine(g, l, b) \in V
  <2>1. CASE b = Refused \/ ~Stocked(g, l)
    BY <2>1 DEF ReceiveLine, Post
  <2>2. CASE b # Refused /\ Stocked(g, l)
    <3> DEFINE mv == Movement(g, l)
    <3>1. mv \in MovementType /\ b \in [Item -> BookType]
      BY <2>2, MovementTyped
    <3>2. ReceiveLine(g, l, b) = Post(mv, b)
      BY <2>2 DEF ReceiveLine
    <3> HIDE DEF mv
    <3>3. CASE mv.source \in Posted(b) \/ Post(mv, b) = Refused
      BY <3>1, <3>2, <3>3 DEF Post
    <3>4. CASE mv.source \notin Posted(b) /\ Post(mv, b) # Refused
      <4>1. /\ Post(mv, b) = [b EXCEPT ![mv.item] = BookAfter(b[mv.item], mv)]
            /\ Admissible(b[mv.item], mv)
        BY <3>1, <3>4, PostStep
      <4>2. mv.item \in Item /\ b[mv.item] \in BookType
        BY <3>1 DEF MovementType
      <4>3. BookAfter(b[mv.item], mv) \in BookType
        BY <3>1, <4>1, <4>2, MovedTyped
      <4>4. QED BY <3>1, <3>2, <4>1, <4>3
    <3>5. QED BY <3>3, <3>4
  <2>3. QED BY <2>1, <2>2
<1>3. \A s \in SUBSET Lines : s # {} => pick[s] \in s /\ pick[s] = Max(s)
  BY LastLine
<1>4. \A l \in Lines, b \in V : step[<<l, b>>] = ReceiveLine(g, l, b)
  OBVIOUS
<1>5. IsFiniteSet(Lines)
  BY LinesFinite
<1> HIDE DEF V, pick, step
<1>6. PICK h : Folds(step, pick, books, Lines, h)
  BY <1>3, <1>5, FoldsExist
<1>7. ASSUME NEW s \in SUBSET Lines
      PROVE  h[s] = IF s = {} THEN books ELSE step[<<pick[s], h[s \ {pick[s]}]>>]
  BY <1>6, <1>7, FoldsStep
<1>8. \A s \in SUBSET Lines : h[s] \in V
  <2> DEFINE F == {s \in SUBSET Lines : h[s] \notin V}
  <2> SUFFICES ASSUME F # {} PROVE FALSE
    OBVIOUS
  <2>1. F \in SUBSET (SUBSET Lines) /\ F # {}
    OBVIOUS
  <2>2. PICK s \in F : \A u \in F : u \subseteq s => u = s
    <3> HIDE DEF F
    <3>1. QED BY <1>5, <2>1, MinimalSubset
  <2>3. s \in SUBSET Lines /\ h[s] \notin V
    OBVIOUS
  <2>4. s # {}
    BY <1>1, <1>7, <2>3
  <2> DEFINE u == s \ {pick[s]}
  <2>5. pick[s] \in s /\ u \in SUBSET Lines /\ u # s /\ u \subseteq s /\ pick[s] \in Lines
    BY <1>3, <2>3, <2>4
  <2>6. h[u] \in V
    BY <2>2, <2>5
  <2>7. h[s] = step[<<pick[s], h[u]>>]
    BY <1>7, <2>3, <2>4
  <2>8. QED BY <1>2, <1>4, <2>3, <2>5, <2>6, <2>7
<1>9. ASSUME NEW s \in SUBSET Lines, s # {}
      PROVE  step[<<pick[s], h[s \ {pick[s]}]>>] =
               ReceiveLine(g, [l \in Lines |-> l][Max(s)], h[s \ {Max(s)}])
  <2>1. pick[s] = Max(s) /\ pick[s] \in Lines /\ s \ {pick[s]} \in SUBSET Lines
    BY <1>3, <1>9
  <2>2. h[s \ {pick[s]}] \in V
    BY <1>8, <2>1
  <2>3. [l \in Lines |-> l][pick[s]] = pick[s]
    BY <2>1
  <2>4. QED BY <1>4, <2>1, <2>2, <2>3
<1>10. Run(g, h)
  BY <1>6, <1>9 DEF Folds, Run
<1>11. QED BY <1>10

\* A receipt is posted line by line, or not at all.
LEMMA ReceiptPosted ==
  ASSUME NEW g, GoodReceipt(g), ReceiveLines(g) # Refused
  PROVE  /\ Sound(ReceiveLines(g))
         /\ \A source : (\A l \in Lines : source # <<g, l>>) =>
              EntriesOf(ReceiveLines(g), source) = EntriesOf(books, source)
         /\ \A l \in Lines : ByLine(g, l) =>
              IF Stocked(g, l)
              THEN \E e : /\ EntriesOf(ReceiveLines(g), <<g, l>>) = {e}
                          /\ e.quantity = receipt[g].accepted[l]
              ELSE EntriesOf(ReceiveLines(g), <<g, l>>) = {}
<1>1. PICK it : Run(g, it) /\ ReceiveLines(g) = it[Lines]
  BY RunExists, ReceiveLinesIsVal
<1>2. Lines \in SUBSET Lines
  OBVIOUS
<1>3. After(g, Lines, ReceiveLines(g))
  BY <1>1, <1>2, AfterLines
<1>4. QED BY <1>3 DEF After

\* A movement by hand leaves what the receipts booked alone.
LEMMA ByHand ==
  ASSUME Sound(books), NEW mv \in [item : Item, source : Manual, quantity : Quantity, cost : Cost],
         PostMovement(mv)
  PROVE  /\ Sound(books')
         /\ \A source : source \notin Manual =>
              EntriesOf(books', source) = EntriesOf(books, source)
<1>1. mv \in MovementType /\ mv.source \in Manual
  BY ProcurementAssumption DEF MovementType
<1>2. books' = Post(mv, books) /\ Post(mv, books) # Refused
  BY DEF PostMovement
<1>3. Sound(books')
  BY <1>1, <1>2, PostSound
<1>4. CASE mv.source \in Posted(books)
  BY <1>2, <1>3, <1>4 DEF Post
<1>5. CASE mv.source \notin Posted(books)
  <2>1. EntriesOf(books, mv.source) = {}
    BY <1>1, <1>5 DEF EntriesOf, Posted, MovementType
  <2>2. \A source : source # mv.source =>
          EntriesOf(books', source) = EntriesOf(books, source)
    BY <1>1, <1>2, <2>1, PostEntries
  <2>3. QED BY <1>1, <1>3, <2>2
<1>6. QED BY <1>4, <1>5

-----------------------------------------------------------------------------
(* From request to order.                                                  *)

PurchaseType ==
  /\ request \in DOMAIN RequestStages /\ rfq \in DOMAIN RfqStages
  /\ quoting \subseteq Vendor
  /\ quote \in [Vendor -> {"none", "submitted", "accepted", "rejected"}]
  /\ order \in [Vendor -> DOMAIN OrderStages]

\* A vendor that is about to quote has not; a receipt is for an order.
AwardInv ==
  /\ OneAward
  /\ \A v \in quoting : quote[v] = "none"
  /\ \A g \in DOMAIN receipt : order[receipt[g].vendor] # "none"

ReceiptType ==
  /\ DOMAIN receipt \subseteq Receipt /\ IsFiniteSet(DOMAIN receipt)
  /\ \A g \in DOMAIN receipt :
       receipt[g] \in [vendor : Vendor, accepted : [Lines -> Nat], posted : BOOLEAN]
  /\ received \in [Vendor -> [Lines -> Nat]]

\* What is not on a posted receipt has not been booked as one.
Unbooked ==
  \A g \in Receipt \ DOMAIN receipt, l \in Lines :
    ByLine(g, l) => EntriesOf(books, <<g, l>>) = {}

PurchaseInv == PurchaseType /\ AwardInv /\ ReceiptType
StockInv == Sound(books) /\ ReceivedIsBooked /\ Unbooked

LEMMA StageTables ==
  /\ {"draft", "approved", "rfq_created", "ordered"} \subseteq DOMAIN RequestStages
  /\ {"none", "draft", "awarded"} \subseteq DOMAIN RfqStages
  /\ {"none", "draft", "received", "partially_received"} \subseteq DOMAIN OrderStages
  /\ \A s \in DOMAIN RequestStages : RequestStages[s] \subseteq DOMAIN RequestStages
  /\ \A s \in DOMAIN RfqStages : RfqStages[s] \subseteq DOMAIN RfqStages
  /\ \A s \in DOMAIN OrderStages : OrderStages[s] \subseteq DOMAIN OrderStages \ {"none"}
  /\ OrderStages["none"] = {} /\ RfqStages["awarded"] = {}
  /\ RequestStages["ordered"] = {"closed"} /\ RequestStages["closed"] = {}
BY DEF RequestStages, RfqStages, OrderStages

\* Steps of request and RFQ.
LEMMA StageSteps ==
  ASSUME PurchaseInv, TransitionRequest \/ CreateRfq \/ TransitionRfq
  PROVE  PurchaseInv'
<1>1. /\ UNCHANGED <<quoting, quote, order, received, receipt>>
      /\ request' \in DOMAIN RequestStages /\ rfq' \in DOMAIN RfqStages
      /\ request \in {"ordered", "closed"} => request' \in {"ordered", "closed"}
      /\ rfq = "awarded" /\ request \in {"ordered", "closed"} => rfq' = rfq
  <2>1. request \in DOMAIN RequestStages /\ rfq \in DOMAIN RfqStages
    BY DEF PurchaseInv, PurchaseType
  <2>2. CASE TransitionRequest
    BY <2>1, <2>2, StageTables DEF TransitionRequest, orderVars
  <2>3. CASE CreateRfq
    BY <2>1, <2>3, StageTables DEF CreateRfq, orderVars
  <2>4. CASE TransitionRfq
    BY <2>1, <2>4, StageTables DEF TransitionRfq, orderVars
  <2>5. QED BY <2>2, <2>3, <2>4
<1>2. PurchaseType' /\ ReceiptType'
  BY <1>1 DEF PurchaseInv, PurchaseType, ReceiptType
<1>3. AwardInv'
  BY <1>1 DEF PurchaseInv, AwardInv, OneAward
<1>4. QED BY <1>2, <1>3 DEF PurchaseInv

LEMMA QuoteSteps ==
  ASSUME PurchaseInv, NEW v \in Vendor, BeginQuote(v) \/ CommitQuote(v)
  PROVE  PurchaseInv'
<1>1. /\ UNCHANGED <<request, rfq, order, received, receipt>>
      /\ quoting' \subseteq Vendor
      /\ quote' \in [Vendor -> {"none", "submitted", "accepted", "rejected"}]
      /\ \A u \in Vendor : quote'[u] = "accepted" <=> quote[u] = "accepted"
      /\ \A u \in quoting' : quote'[u] = "none"
  <2>1. /\ quoting \subseteq Vendor
        /\ quote \in [Vendor -> {"none", "submitted", "accepted", "rejected"}]
        /\ \A u \in quoting : quote[u] = "none"
    BY DEF PurchaseInv, PurchaseType, AwardInv
  <2>2. CASE BeginQuote(v)
    BY <2>1, <2>2 DEF BeginQuote, orderVars
  <2>3. CASE CommitQuote(v)
    BY <2>1, <2>3 DEF CommitQuote, orderVars
  <2>4. QED BY <2>2, <2>3
<1>2. PurchaseType' /\ ReceiptType'
  BY <1>1 DEF PurchaseInv, PurchaseType, ReceiptType
<1>3. AwardInv'
  BY <1>1 DEF PurchaseInv, AwardInv, OneAward
<1>4. QED BY <1>2, <1>3 DEF PurchaseInv

\* While the RFQ is closed nobody has been awarded an order.
LEMMA AwardStep ==
  ASSUME PurchaseInv, NEW v \in Vendor, AwardQuote(v)
  PROVE  PurchaseInv'
<1>1. /\ rfq = "closed" /\ quote[v] = "submitted"
      /\ order' = [order EXCEPT ![v] = "draft"]
      /\ quote' = [u \in Vendor |-> IF u = v THEN "accepted"
                                    ELSE IF quote[u] = "submitted" THEN "rejected"
                                    ELSE quote[u]]
      /\ rfq' = "awarded" /\ request' = "ordered"
      /\ UNCHANGED <<quoting, received, receipt>>
  BY DEF AwardQuote, MayAward
<1>2. /\ \A u \in Vendor : order[u] = "none" /\ quote[u] # "accepted"
      /\ v \notin quoting /\ DOMAIN receipt = {}
  <2>1. \A u \in Vendor : order[u] = "none" /\ quote[u] # "accepted"
    BY <1>1 DEF PurchaseInv, AwardInv, OneAward
  <2>2. \A g \in DOMAIN receipt : receipt[g].vendor \in Vendor
    BY DEF PurchaseInv, ReceiptType
  <2>3. QED BY <1>1, <2>1, <2>2 DEF PurchaseInv, AwardInv
<1>3. /\ order \in [Vendor -> DOMAIN OrderStages]
      /\ quote \in [Vendor -> {"none", "submitted", "accepted", "rejected"}]
      /\ quoting \subseteq Vendor
  BY DEF PurchaseInv, PurchaseType
<1>4. PurchaseType' /\ ReceiptType'
  BY <1>1, <1>3, StageTables DEF PurchaseInv, PurchaseType, ReceiptType
<1>5. /\ \A u \in Vendor : (order'[u] # "none" <=> u = v) /\ (quote'[u] = "accepted" <=> u = v)
      /\ \A u \in quoting' : quote'[u] = "none"
  BY <1>1, <1>2, <1>3 DEF PurchaseInv, AwardInv
<1>6. AwardInv'
  BY <1>1, <1>2, <1>5 DEF AwardInv, OneAward
<1>7. QED BY <1>4, <1>6 DEF PurchaseInv

\* Whatever becomes of an order, it stays one.
LEMMA OrderKept ==
  ASSUME PurchaseInv, UNCHANGED <<request, rfq, quoting, quote>>,
         order' \in [Vendor -> DOMAIN OrderStages],
         \A v \in Vendor : order[v] = "none" <=> order'[v] = "none"
  PROVE  PurchaseType' /\ OneAward' /\ \A v \in quoting' : quote'[v] = "none"
<1>1. PurchaseType'
  BY DEF PurchaseInv, PurchaseType
<1>2. OneAward'
  BY DEF PurchaseInv, AwardInv, OneAward
<1>3. QED BY <1>1, <1>2 DEF PurchaseInv, AwardInv

LEMMA OrderStep ==
  ASSUME PurchaseInv, NEW v \in Vendor, TransitionOrder(v)
  PROVE  PurchaseInv'
<1>1. /\ UNCHANGED <<request, rfq, quoting, quote, received, receipt>>
      /\ \E s \in OrderStages[order[v]] : order' = [order EXCEPT ![v] = s]
  BY DEF TransitionOrder, rfqVars
<1>2. order \in [Vendor -> DOMAIN OrderStages]
  BY DEF PurchaseInv, PurchaseType
<1>3. PICK s \in OrderStages[order[v]] : order' = [order EXCEPT ![v] = s]
  BY <1>1
<1>4. order[v] # "none" /\ s \in DOMAIN OrderStages /\ s # "none"
  BY <1>2, <1>3, StageTables
<1>5. order' \in [Vendor -> DOMAIN OrderStages]
      /\ \A u \in Vendor : order[u] = "none" <=> order'[u] = "none"
  BY <1>2, <1>3, <1>4
<1>6. PurchaseType' /\ OneAward' /\ \A u \in quoting' : quote'[u] = "none"
  BY <1>1, <1>5, OrderKept
<1>7. ReceiptType'
  BY <1>1 DEF PurchaseInv, ReceiptType
<1>8. AwardInv'
  <2>1. \A g \in DOMAIN receipt : receipt[g].vendor \in Vendor
    BY DEF PurchaseInv, ReceiptType
  <2>2. QED BY <1>1, <1>5, <1>6, <2>1 DEF PurchaseInv, AwardInv
<1>9. QED BY <1>6, <1>7, <1>8 DEF PurchaseInv

LEMMA DraftReceiptStep ==
  ASSUME PurchaseInv, NEW g \in Receipt, NEW v \in Vendor, NEW accepted \in [Lines -> Nat],
         CreateReceipt(g, v, accepted)
  PROVE  PurchaseInv'
<1>1. /\ g \notin DOMAIN receipt /\ order[v] # "none"
      /\ UNCHANGED <<request, rfq, quoting, quote, order, received>>
      /\ DOMAIN receipt' = DOMAIN receipt \cup {g}
      /\ receipt'[g] = [vendor |-> v, accepted |-> accepted, posted |-> FALSE]
      /\ \A h \in DOMAIN receipt : receipt'[h] = receipt[h]
  BY DEF CreateReceipt, rfqVars
<1>2. PurchaseType' /\ OneAward' /\ \A u \in quoting' : quote'[u] = "none"
  BY <1>1, OrderKept DEF PurchaseInv, PurchaseType
<1>3. ReceiptType'
  <2>1. IsFiniteSet(DOMAIN receipt')
    BY <1>1, FS_AddElement DEF PurchaseInv, ReceiptType
  <2>2. receipt'[g] \in [vendor : Vendor, accepted : [Lines -> Nat], posted : BOOLEAN]
    BY <1>1
  <2>3. \A h \in DOMAIN receipt :
          receipt'[h] \in [vendor : Vendor, accepted : [Lines -> Nat], posted : BOOLEAN]
    BY <1>1 DEF PurchaseInv, ReceiptType
  <2>4. DOMAIN receipt' \subseteq Receipt /\ received' \in [Vendor -> [Lines -> Nat]]
    BY <1>1 DEF PurchaseInv, ReceiptType
  <2>5. \A h \in DOMAIN receipt' : h = g \/ h \in DOMAIN receipt
    BY <1>1
  <2>6. QED BY <2>1, <2>2, <2>3, <2>4, <2>5 DEF ReceiptType
<1>4. AwardInv'
  BY <1>1, <1>2 DEF PurchaseInv, AwardInv
<1>5. QED BY <1>2, <1>3, <1>4 DEF PurchaseInv

\* What posting a receipt does to rows.
LEMMA PostingStep ==
  ASSUME PurchaseInv, NEW g \in Receipt, PostReceipt(g)
  PROVE  /\ g \in DOMAIN receipt /\ ~receipt[g].posted /\ receipt[g].vendor \in Vendor
         /\ receipt[g].accepted \in [Lines -> Nat]
         /\ UNCHANGED <<request, rfq, quoting, quote>>
         /\ DOMAIN receipt' = DOMAIN receipt
         /\ \A h \in DOMAIN receipt :
              receipt'[h] \in [vendor : Vendor, accepted : [Lines -> Nat], posted : BOOLEAN]
         /\ \A h \in DOMAIN receipt : /\ receipt'[h].vendor = receipt[h].vendor
                                      /\ receipt'[h].accepted = receipt[h].accepted
         /\ receipt'[g].posted
         /\ \A h \in DOMAIN receipt \ {g} : receipt'[h] = receipt[h]
         /\ received' \in [Vendor -> [Lines -> Nat]]
         /\ \A l \in Lines : received'[receipt[g].vendor][l] =
              received[receipt[g].vendor][l] + receipt[g].accepted[l]
         /\ \A u \in Vendor : u # receipt[g].vendor => received'[u] = received[u]
         /\ \E s \in {"received", "partially_received"} :
              order' = [order EXCEPT ![receipt[g].vendor] = s]
<1> DEFINE v == receipt[g].vendor
           a == receipt[g].accepted
           r == [receipt[g] EXCEPT !.posted = TRUE]
<1>1. g \in DOMAIN receipt /\ ~receipt[g].posted
      /\ UNCHANGED <<request, rfq, quoting, quote>>
  BY DEF PostReceipt, rfqVars
<1>2. receipt[g] \in [vendor : Vendor, accepted : [Lines -> Nat], posted : BOOLEAN]
      /\ received \in [Vendor -> [Lines -> Nat]]
  BY <1>1 DEF PurchaseInv, ReceiptType
<1>3. v \in Vendor /\ a \in [Lines -> Nat]
  BY <1>2
<1>4. receipt' = [receipt EXCEPT ![g] = r]
  BY DEF PostReceipt
<1>5. /\ r \in [vendor : Vendor, accepted : [Lines -> Nat], posted : BOOLEAN]
      /\ r.vendor = v /\ r.accepted = a /\ r.posted
  BY <1>2
<1> HIDE DEF r
<1>6. /\ DOMAIN receipt' = DOMAIN receipt /\ receipt'[g] = r
      /\ \A h \in DOMAIN receipt \ {g} : receipt'[h] = receipt[h]
  BY <1>1, <1>4
<1>7. \A h \in DOMAIN receipt :
        /\ receipt'[h] \in [vendor : Vendor, accepted : [Lines -> Nat], posted : BOOLEAN]
        /\ receipt'[h].vendor = receipt[h].vendor /\ receipt'[h].accepted = receipt[h].accepted
  <2> SUFFICES ASSUME NEW h \in DOMAIN receipt
               PROVE  /\ receipt'[h] \in [vendor : Vendor, accepted : [Lines -> Nat],
                                          posted : BOOLEAN]
                      /\ receipt'[h].vendor = receipt[h].vendor
                      /\ receipt'[h].accepted = receipt[h].accepted
    OBVIOUS
  <2>1. CASE h = g
    BY <1>5, <1>6, <2>1
  <2>2. CASE h # g
    BY <1>6, <2>2 DEF PurchaseInv, ReceiptType
  <2>3. QED BY <2>1, <2>2
<1>8. received' = [received EXCEPT ![v] = [l \in Lines |-> received[v][l] + a[l]]]
  BY DEF PostReceipt
<1>9. \E s \in {"received", "partially_received"} : order' = [order EXCEPT ![v] = s]
  BY DEF PostReceipt
<1> HIDE DEF v, a
<1>10. /\ received' \in [Vendor -> [Lines -> Nat]]
       /\ \A l \in Lines : received'[v][l] = received[v][l] + a[l]
       /\ \A u \in Vendor : u # v => received'[u] = received[u]
  <2> DEFINE n == [l \in Lines |-> received[v][l] + a[l]]
  <2>1. n \in [Lines -> Nat] /\ \A l \in Lines : n[l] = received[v][l] + a[l]
    BY <1>2, <1>3
  <2> HIDE DEF n
  <2>2. received' = [received EXCEPT ![v] = n]
    BY <1>8 DEF n
  <2>3. QED BY <1>2, <1>3, <2>1, <2>2
<1>11. QED BY <1>1, <1>3, <1>5, <1>6, <1>7, <1>9, <1>10 DEF v, a

LEMMA PostReceiptStep ==
  ASSUME PurchaseInv, NEW g \in Receipt, PostReceipt(g)
  PROVE  PurchaseInv'
<1> DEFINE v == receipt[g].vendor
<1>1. /\ g \in DOMAIN receipt /\ v \in Vendor
      /\ UNCHANGED <<request, rfq, quoting, quote>>
      /\ DOMAIN receipt' = DOMAIN receipt
      /\ \A h \in DOMAIN receipt :
           receipt'[h] \in [vendor : Vendor, accepted : [Lines -> Nat], posted : BOOLEAN]
      /\ \A h \in DOMAIN receipt : receipt'[h].vendor = receipt[h].vendor
      /\ received' \in [Vendor -> [Lines -> Nat]]
      /\ \E s \in {"received", "partially_received"} : order' = [order EXCEPT ![v] = s]
  BY PostingStep
<1>2. ReceiptType'
  BY <1>1 DEF PurchaseInv, ReceiptType
<1>3. order[v] # "none" /\ order \in [Vendor -> DOMAIN OrderStages]
  BY <1>1 DEF PurchaseInv, AwardInv, PurchaseType
<1> HIDE DEF v
<1>4. PICK s \in {"received", "partially_received"} : order' = [order EXCEPT ![v] = s]
  BY <1>1
<1>5. order' \in [Vendor -> DOMAIN OrderStages]
      /\ \A u \in Vendor : order[u] = "none" <=> order'[u] = "none"
  BY <1>1, <1>3, <1>4, StageTables
<1>6. PurchaseType' /\ OneAward' /\ \A u \in quoting' : quote'[u] = "none"
  BY <1>1, <1>5, OrderKept
<1>7. AwardInv'
  <2>1. \A h \in DOMAIN receipt : receipt[h].vendor \in Vendor
    BY DEF PurchaseInv, ReceiptType
  <2>2. QED BY <1>1, <1>5, <1>6, <2>1 DEF PurchaseInv, AwardInv
<1>8. QED BY <1>2, <1>6, <1>7 DEF PurchaseInv

LEMMA AcceptedTyped ==
  [Lines -> 0..Max({Line[l].quantity : l \in Lines})] \subseteq [Lines -> Nat]
<1> DEFINE Q == {Line[l].quantity : l \in Lines}
           m == Max(Q)
<1>1. Lines # {} => m \in Nat
  <2>1. Q \subseteq Nat /\ IsFiniteSet(Lines)
    BY LinesFinite
  <2> DEFINE h == [l \in Lines |-> Line[l].quantity]
  <2>2. h \in Surjection(Lines, Q)
    BY DEF Surjection
  <2> HIDE DEF h
  <2>3. IsFiniteSet(Q)
    BY <2>1, <2>2, FS_Surjection
  <2>4. Lines # {} => Q # {}
    OBVIOUS
  <2> HIDE DEF Q
  <2>5. \A x \in Q : x \in Int
    BY <2>1
  <2>6. Q # {} => \E x \in Q : \A y \in Q : x >= y
    BY <2>3, <2>5, GreatestExists
  <2>7. QED BY <2>1, <2>4, <2>6 DEF Max
<1> HIDE DEF m
<1>2. \A f \in [Lines -> 0..m] : \A l \in Lines : f[l] \in Nat
  BY <1>1
<1>3. QED BY <1>2 DEF m

LEMMA PurchaseStep == PurchaseInv /\ [ProcurementNext]_procurementVars => PurchaseInv'
<1> SUFFICES ASSUME PurchaseInv, [ProcurementNext]_procurementVars PROVE PurchaseInv'
  OBVIOUS
<1>1. CASE TransitionRequest \/ CreateRfq \/ TransitionRfq
  BY <1>1, StageSteps
<1>2. ASSUME NEW v \in Vendor, BeginQuote(v) \/ CommitQuote(v) PROVE PurchaseInv'
  BY <1>2, QuoteSteps
<1>3. ASSUME NEW v \in Vendor, AwardQuote(v) PROVE PurchaseInv'
  BY <1>3, AwardStep
<1>4. ASSUME NEW v \in Vendor, TransitionOrder(v) PROVE PurchaseInv'
  BY <1>4, OrderStep
<1>5. ASSUME NEW g \in Receipt, NEW v \in Vendor,
             NEW accepted \in [Lines -> 0..Max({Line[l].quantity : l \in Lines})],
             CreateReceipt(g, v, accepted)
      PROVE  PurchaseInv'
  BY <1>5, AcceptedTyped, DraftReceiptStep
<1>6. ASSUME NEW g \in Receipt, PostReceipt(g) PROVE PurchaseInv'
  BY <1>6, PostReceiptStep
<1>7. CASE UNCHANGED <<rfqVars, orderVars>>
  BY <1>7 DEF rfqVars, orderVars, PurchaseInv, PurchaseType, ReceiptType, AwardInv, OneAward
<1>8. \/ TransitionRequest \/ CreateRfq \/ TransitionRfq
      \/ \E v \in Vendor : \/ BeginQuote(v) \/ CommitQuote(v) \/ AwardQuote(v)
                           \/ TransitionOrder(v)
      \/ \E g \in Receipt, v \in Vendor :
           \E accepted \in [Lines -> 0..Max({Line[l].quantity : l \in Lines})] :
             CreateReceipt(g, v, accepted)
      \/ \E g \in Receipt : PostReceipt(g)
      \/ UNCHANGED <<rfqVars, orderVars>>
  BY DEF ProcurementNext, MoveByHand, procurementVars
<1>9. QED BY <1>1, <1>2, <1>3, <1>4, <1>5, <1>6, <1>7, <1>8

LEMMA PurchaseStart == ProcurementInit => PurchaseInv
<1> SUFFICES ASSUME ProcurementInit PROVE PurchaseInv
  OBVIOUS
<1>1. DOMAIN receipt = {} /\ IsFiniteSet(DOMAIN receipt)
  <2>1. DOMAIN <<>> = {}
    OBVIOUS
  <2>2. QED BY <2>1, FS_EmptySet DEF ProcurementInit
<1>2. received \in [Vendor -> [Lines -> Nat]]
  BY DEF ProcurementInit, Nothing
<1>3. ReceiptType
  BY <1>1, <1>2 DEF ReceiptType
<1>4. PurchaseType
  BY StageTables DEF ProcurementInit, PurchaseType
<1>5. AwardInv
  BY <1>1 DEF ProcurementInit, AwardInv, OneAward
<1>6. QED BY <1>3, <1>4, <1>5 DEF PurchaseInv

\* At most one vendor is awarded the order, whatever is quoted, awarded and
\* moved on at once, and RFQ and request say so.
THEOREM ProcurementOneAward == ProcurementSpec => []OneAward
<1>1. PurchaseInv => OneAward
  BY DEF PurchaseInv, AwardInv
<1>2. QED BY <1>1, PurchaseStart, PurchaseStep, PTL DEF ProcurementSpec

-----------------------------------------------------------------------------
(* From order to stock.                                                    *)

\* The two parts of ReceivedIsBooked.
Accepted(l) == [g \in DOMAIN receipt |-> receipt[g].accepted[l]]
Totals ==
  \A v \in Vendor, l \in Lines :
    /\ received[v][l] = SumFunctionOnSet(Accepted(l), PostedFor(v))
    /\ received[v][l] <= Line[l].quantity
BookedAs(g, l) ==
  IF receipt[g].posted /\ Stocked(g, l)
  THEN \E e : /\ EntriesOf(books, <<g, l>>) = {e}
              /\ e.quantity = receipt[g].accepted[l]
  ELSE EntriesOf(books, <<g, l>>) = {}

AllBooked == \A g \in DOMAIN receipt, l \in Lines : ByLine(g, l) => BookedAs(g, l)

LEMMA Parts == ReceivedIsBooked <=> Totals /\ AllBooked
<1>1. \A g, l : Booked(g, l) = EntriesOf(books, <<g, l>>)
  BY DEF Booked, EntriesOf
<1>2. \A g, l : BookedAs(g, l) <=>
        IF receipt[g].posted /\ Stocked(g, l)
        THEN \E e \in Booked(g, l) : /\ Booked(g, l) = {e}
                                     /\ e.quantity = receipt[g].accepted[l]
        ELSE Booked(g, l) = {}
  BY <1>1 DEF BookedAs
<1>3. QED BY <1>2 DEF ReceivedIsBooked, Totals, AllBooked, Accepted, ByLine

LEMMA PartsNext == ReceivedIsBooked' <=> Totals' /\ AllBooked'
BY Parts, PTL

LEMMA PostedFinite ==
  ASSUME ReceiptType, NEW v, NEW l \in Lines
  PROVE  /\ PostedFor(v) \subseteq DOMAIN receipt /\ IsFiniteSet(PostedFor(v))
         /\ \A g \in DOMAIN receipt : Accepted(l)[g] = receipt[g].accepted[l]
                                      /\ Accepted(l)[g] \in Int
<1>1. PostedFor(v) \in SUBSET (DOMAIN receipt) /\ IsFiniteSet(DOMAIN receipt)
  BY DEF PostedFor, ReceiptType
<1>2. IsFiniteSet(PostedFor(v))
  BY <1>1, FS_Subset
<1>3. QED BY <1>1, <1>2 DEF Accepted, ReceiptType

\* A draft of a receipt counts for nothing.
LEMMA DraftStock ==
  ASSUME PurchaseInv, StockInv, NEW g \in Receipt, NEW v \in Vendor,
         NEW accepted \in [Lines -> Nat], CreateReceipt(g, v, accepted)
  PROVE  StockInv'
<1>1. /\ g \notin DOMAIN receipt /\ UNCHANGED <<received, books>>
      /\ DOMAIN receipt' = DOMAIN receipt \cup {g}
      /\ receipt'[g] = [vendor |-> v, accepted |-> accepted, posted |-> FALSE]
      /\ \A h \in DOMAIN receipt : receipt'[h] = receipt[h]
  BY DEF CreateReceipt
<1>2. Totals /\ \A h \in DOMAIN receipt, l \in Lines : ByLine(h, l) => BookedAs(h, l)
  BY Parts DEF StockInv, AllBooked
<1>3. \A u : PostedFor(u)' = PostedFor(u)
  BY <1>1 DEF PostedFor
<1>4. Totals'
  <2> SUFFICES ASSUME NEW u \in Vendor, NEW l \in Lines
               PROVE  SumFunctionOnSet(Accepted(l)', PostedFor(u))
                        = SumFunctionOnSet(Accepted(l), PostedFor(u))
    BY <1>1, <1>2, <1>3 DEF Totals
  <2> DEFINE f == Accepted(l)
             h == [x \in DOMAIN receipt' |-> receipt'[x].accepted[l]]
             S == PostedFor(u)
  <2>1. IsFiniteSet(S) /\ S \subseteq DOMAIN receipt
    BY PostedFinite DEF PurchaseInv
  <2>2. \A x \in S : h[x] = f[x]
    BY <1>1, <2>1 DEF Accepted
  <2>3. Accepted(l)' = h
    BY DEF Accepted
  <2> HIDE DEF f, h, S
  <2>4. SumFunctionOnSet(h, S) = SumFunctionOnSet(f, S)
    BY <2>1, <2>2, SumSame
  <2>5. QED BY <2>3, <2>4 DEF f, S
<1>5. AllBooked'
  <2> SUFFICES ASSUME NEW h \in DOMAIN receipt', NEW l \in Lines, ByLine(h, l)
               PROVE  BookedAs(h, l)'
    BY DEF AllBooked, ByLine
  <2>1. CASE h = g
    <3>1. EntriesOf(books', <<g, l>>) = {}
      BY <1>1, <2>1 DEF StockInv, Unbooked, ByLine
    <3>2. ~receipt'[g].posted
      BY <1>1
    <3>3. QED BY <2>1, <3>1, <3>2 DEF BookedAs
  <2>2. CASE h # g
    <3>1. h \in DOMAIN receipt /\ receipt'[h] = receipt[h] /\ BookedAs(h, l)
      BY <1>1, <1>2, <2>2
    <3>2. QED BY <1>1, <3>1 DEF BookedAs, Stocked
  <2>3. QED BY <2>1, <2>2
<1>6. ReceivedIsBooked'
  BY <1>4, <1>5, PartsNext
<1>7. Unbooked' /\ Sound(books')
  BY <1>1 DEF StockInv, Unbooked, ByLine
<1>8. QED BY <1>6, <1>7 DEF StockInv

LEMMA HandStock ==
  ASSUME PurchaseInv, StockInv,
         NEW mv \in [item : Item, source : Manual, quantity : Quantity, cost : Cost],
         MoveByHand(mv)
  PROVE  StockInv'
<1>1. UNCHANGED <<received, receipt>> /\ PostMovement(mv)
  BY DEF MoveByHand, orderVars
<1>2. Sound(books') /\ \A source : source \notin Manual =>
        EntriesOf(books', source) = EntriesOf(books, source)
  BY <1>1, ByHand DEF StockInv
<1>3. \A g, l : ByLine(g, l) => EntriesOf(books', <<g, l>>) = EntriesOf(books, <<g, l>>)
  BY <1>2 DEF ByLine
<1>4. Totals /\ \A g \in DOMAIN receipt, l \in Lines : ByLine(g, l) => BookedAs(g, l)
  BY Parts DEF StockInv, AllBooked
<1>5. Totals'
  BY <1>1, <1>4 DEF Totals, Accepted, PostedFor
<1>6. AllBooked'
  <2> SUFFICES ASSUME NEW g \in DOMAIN receipt, NEW l \in Lines, ByLine(g, l)
               PROVE  BookedAs(g, l)'
    BY <1>1 DEF AllBooked, ByLine
  <2>1. EntriesOf(books', <<g, l>>) = EntriesOf(books, <<g, l>>) /\ BookedAs(g, l)
    BY <1>3, <1>4 DEF PurchaseInv, ReceiptType
  <2>2. QED BY <1>1, <2>1 DEF BookedAs, Stocked
<1>7. ReceivedIsBooked'
  BY <1>5, <1>6, PartsNext
<1>8. Unbooked'
  BY <1>1, <1>3 DEF StockInv, Unbooked, ByLine
<1>9. QED BY <1>2, <1>7, <1>8 DEF StockInv

\* Posting a receipt adds to its order what it adds to the stock.
LEMMA PostedStock ==
  ASSUME PurchaseInv, StockInv, NEW g \in Receipt, PostReceipt(g)
  PROVE  StockInv'
<1> DEFINE v == receipt[g].vendor
<1>1. /\ g \in DOMAIN receipt /\ ~receipt[g].posted /\ v \in Vendor
      /\ receipt[g].accepted \in [Lines -> Nat]
      /\ DOMAIN receipt' = DOMAIN receipt
      /\ \A h \in DOMAIN receipt : /\ receipt'[h].vendor = receipt[h].vendor
                                   /\ receipt'[h].accepted = receipt[h].accepted
      /\ receipt'[g].posted
      /\ \A h \in DOMAIN receipt \ {g} : receipt'[h] = receipt[h]
      /\ \A l \in Lines : received'[v][l] = received[v][l] + receipt[g].accepted[l]
      /\ \A u \in Vendor : u # v => received'[u] = received[u]
  BY PostingStep
<1>2. Totals /\ \A h \in DOMAIN receipt, l \in Lines : ByLine(h, l) => BookedAs(h, l)
  BY Parts DEF StockInv, AllBooked
<1>3. GoodReceipt(g)
  <2>1. \A l \in Lines : ByLine(g, l) => EntriesOf(books, <<g, l>>) = {}
    BY <1>1, <1>2 DEF BookedAs
  <2>2. QED BY <1>1, <2>1 DEF GoodReceipt, StockInv, PurchaseInv, ReceiptType
<1>4. books' = ReceiveLines(g) /\ ReceiveLines(g) # Refused
  BY DEF PostReceipt
<1>5. /\ Sound(books')
      /\ \A source : (\A l \in Lines : source # <<g, l>>) =>
           EntriesOf(books', source) = EntriesOf(books, source)
      /\ \A l \in Lines : ByLine(g, l) =>
           IF Stocked(g, l)
           THEN \E e : /\ EntriesOf(books', <<g, l>>) = {e}
                       /\ e.quantity = receipt[g].accepted[l]
           ELSE EntriesOf(books', <<g, l>>) = {}
  BY <1>3, <1>4, ReceiptPosted
<1>6. \A h, l : h # g => EntriesOf(books', <<h, l>>) = EntriesOf(books, <<h, l>>)
  <2> SUFFICES ASSUME NEW h, NEW l, h # g
               PROVE  EntriesOf(books', <<h, l>>) = EntriesOf(books, <<h, l>>)
    OBVIOUS
  <2>1. \A k \in Lines : <<h, l>> # <<g, k>>
    OBVIOUS
  <2>2. QED BY <1>5, <2>1
<1>7. AllBooked'
  <2> SUFFICES ASSUME NEW h \in DOMAIN receipt, NEW l \in Lines, ByLine(h, l)
               PROVE  BookedAs(h, l)'
    BY <1>1 DEF AllBooked, ByLine
  <2>1. Stocked(h, l)' <=> Stocked(h, l)
    BY <1>1 DEF Stocked
  <2>2. CASE h = g
    <3>1. /\ receipt'[g].posted /\ receipt'[g].accepted = receipt[g].accepted
          /\ IF Stocked(g, l)
             THEN \E e : /\ EntriesOf(books', <<g, l>>) = {e}
                         /\ e.quantity = receipt[g].accepted[l]
             ELSE EntriesOf(books', <<g, l>>) = {}
      BY <1>1, <1>5, <2>2
    <3>2. QED BY <2>1, <2>2, <3>1 DEF BookedAs
  <2>3. CASE h # g
    <3>1. /\ EntriesOf(books', <<h, l>>) = EntriesOf(books, <<h, l>>)
          /\ receipt'[h] = receipt[h] /\ BookedAs(h, l)
      BY <1>1, <1>2, <1>6, <2>3
    <3>2. QED BY <2>1, <3>1 DEF BookedAs
  <2>4. QED BY <2>2, <2>3
<1> HIDE DEF v
<1>8. /\ g \notin PostedFor(v)
      /\ \A u \in Vendor : PostedFor(u)' = IF u = v THEN PostedFor(u) \cup {g}
                                            ELSE PostedFor(u)
  <2>1. \A u : PostedFor(u)' = {h \in DOMAIN receipt : receipt[h].vendor = u /\ receipt'[h].posted}
    BY <1>1 DEF PostedFor
  <2>2. \A h \in DOMAIN receipt : receipt'[h].posted <=> receipt[h].posted \/ h = g
    BY <1>1
  <2>3. QED BY <1>1, <2>1, <2>2 DEF PostedFor, v
<1>9. \A l \in Lines : Accepted(l)' = Accepted(l)
  BY <1>1 DEF Accepted
<1>10. Totals'
  <2> SUFFICES ASSUME NEW u \in Vendor, NEW l \in Lines
               PROVE  /\ received'[u][l] = SumFunctionOnSet(Accepted(l)', PostedFor(u)')
                      /\ received'[u][l] <= Line[l].quantity
    BY DEF Totals
  <2>1. CASE u # v
    BY <1>1, <1>2, <1>8, <1>9, <2>1 DEF Totals
  <2>2. CASE u = v
    <3> DEFINE f == Accepted(l)
               S == PostedFor(v)
    <3>1. /\ IsFiniteSet(S) /\ S \subseteq DOMAIN receipt
          /\ \A h \in DOMAIN receipt : f[h] \in Int
          /\ f[g] = receipt[g].accepted[l]
      BY <1>1, PostedFinite DEF PurchaseInv
    <3>2. received[v][l] = SumFunctionOnSet(f, S)
      BY <1>1, <1>2 DEF Totals
    <3>3. received[v][l] + receipt[g].accepted[l] <= Line[l].quantity
      BY DEF PostReceipt, WithinOrder, v
    <3>4. received[v][l] \in Int
      BY <1>1 DEF PurchaseInv, ReceiptType
    <3> HIDE DEF f, S
    <3>5. g \notin S
      BY <1>8 DEF S
    <3>6. f[g] \in Int /\ \A x \in S : f[x] \in Int
      BY <1>1, <3>1
    <3>7. SumFunctionOnSet(f, S \cup {g}) = f[g] + SumFunctionOnSet(f, S)
      BY <3>1, <3>5, <3>6, SumAdd
    <3>8. received'[v][l] = received[v][l] + receipt[g].accepted[l]
      BY <1>1
    <3>9. received'[v][l] = SumFunctionOnSet(f, S \cup {g})
      BY <3>1, <3>2, <3>4, <3>6, <3>7, <3>8
    <3>10. PostedFor(u)' = S \cup {g} /\ Accepted(l)' = f
      BY <1>8, <1>9, <2>2 DEF f, S
    <3>11. received'[u][l] = received'[v][l]
      BY <2>2
    <3>12. QED BY <3>3, <3>8, <3>9, <3>10, <3>11
  <2>3. QED BY <2>1, <2>2
<1>11. ReceivedIsBooked'
  BY <1>7, <1>10, PartsNext
<1>12. Unbooked'
  BY <1>1, <1>6 DEF StockInv, Unbooked, ByLine
<1>13. QED BY <1>5, <1>11, <1>12 DEF StockInv

\* Everything else leaves the receipts and the stock alone.
LEMMA StockKept ==
  ASSUME PurchaseInv, StockInv, UNCHANGED <<received, receipt, books>>
  PROVE  StockInv'
<1>1. Totals /\ AllBooked
  BY Parts DEF StockInv
<1>2. Totals' /\ AllBooked'
  BY <1>1 DEF Totals, Accepted, PostedFor, AllBooked, BookedAs, Stocked
<1>3. ReceivedIsBooked'
  BY <1>2, PartsNext
<1>4. QED BY <1>3 DEF StockInv, Unbooked, ByLine

LEMMA StockStep == PurchaseInv /\ StockInv /\ [ProcurementNext]_procurementVars => StockInv'
<1> SUFFICES ASSUME PurchaseInv, StockInv, [ProcurementNext]_procurementVars PROVE StockInv'
  OBVIOUS
<1>1. CASE UNCHANGED <<received, receipt, books>>
  BY <1>1, StockKept
<1>2. ASSUME NEW g \in Receipt, NEW v \in Vendor,
             NEW accepted \in [Lines -> 0..Max({Line[l].quantity : l \in Lines})],
             CreateReceipt(g, v, accepted)
      PROVE  StockInv'
  BY <1>2, AcceptedTyped, DraftStock
<1>3. ASSUME NEW g \in Receipt, PostReceipt(g) PROVE StockInv'
  BY <1>3, PostedStock
<1>4. ASSUME NEW mv \in [item : Item, source : Manual, quantity : Quantity, cost : Cost],
             MoveByHand(mv)
      PROVE  StockInv'
  BY <1>4, HandStock
<1>5. \/ UNCHANGED <<received, receipt, books>>
      \/ \E g \in Receipt, v \in Vendor :
           \E accepted \in [Lines -> 0..Max({Line[l].quantity : l \in Lines})] :
             CreateReceipt(g, v, accepted)
      \/ \E g \in Receipt : PostReceipt(g)
      \/ \E mv \in [item : Item, source : Manual, quantity : Quantity, cost : Cost] :
           MoveByHand(mv)
  BY DEF ProcurementNext, procurementVars, orderVars, TransitionRequest, CreateRfq, TransitionRfq, BeginQuote,
         CommitQuote, AwardQuote, TransitionOrder
<1>6. QED BY <1>1, <1>2, <1>3, <1>4, <1>5

LEMMA StockStart == ProcurementInit => StockInv
<1> SUFFICES ASSUME ProcurementInit PROVE StockInv
  OBVIOUS
<1> DEFINE none == [onHand |-> 0, average |-> 0, entries |-> <<>>]
<1>1. books = [i \in Item |-> none]
  BY DEF ProcurementInit, EmptyBooks
<1>2. /\ none.onHand = 0 /\ none.average = 0 /\ none.entries = <<>>
      /\ Len(none.entries) = 0 /\ none.entries \in Seq(EntryType) /\ DOMAIN none.entries = {}
  BY EmptySeq
<1>3. none \in BookType /\ Worth(none) = 0
  BY <1>2 DEF BookType, Worth
<1> HIDE DEF none
<1>4. 1..0 = {}
  OBVIOUS
<1>5. Runs(none)
  BY <1>2, <1>4 DEF Runs
<1>6. Sound(books)
  <2>1. \A i \in Item : books[i] = none
    BY <1>1
  <2>2. Once(books)
    BY <1>2, <1>4, <2>1 DEF Once
  <2>3. books \in [Item -> BookType]
    BY <1>1, <1>3
  <2>4. 0 * 0 = 0
    OBVIOUS
  <2>5. QED BY <1>2, <1>3, <1>5, <2>1, <2>2, <2>3, <2>4 DEF Sound
<1>7. \A source : EntriesOf(books, source) = {}
  BY <1>1, <1>2 DEF EntriesOf
<1>8. DOMAIN receipt = {}
  <2>1. DOMAIN <<>> = {}
    OBVIOUS
  <2>2. QED BY <2>1 DEF ProcurementInit
<1>9. Totals
  <2> SUFFICES ASSUME NEW v \in Vendor, NEW l \in Lines
               PROVE  /\ received[v][l] = SumFunctionOnSet(Accepted(l), PostedFor(v))
                      /\ received[v][l] <= Line[l].quantity
    BY DEF Totals
  <2>1. received[v][l] = 0
    BY DEF ProcurementInit, Nothing
  <2>2. PostedFor(v) = {}
    BY <1>8 DEF PostedFor
  <2>3. Line[l].quantity \in Nat
    BY LinesFinite
  <2>4. QED BY <2>1, <2>2, <2>3, SumEmpty
<1>10. ReceivedIsBooked
  BY <1>8, <1>9, Parts DEF AllBooked
<1>11. Unbooked
  BY <1>7 DEF Unbooked
<1>12. QED BY <1>6, <1>10, <1>11 DEF StockInv

LEMMA SupplyAlways == ProcurementSpec => [](PurchaseInv /\ StockInv)
BY PurchaseStart, PurchaseStep, StockStart, StockStep, PTL DEF ProcurementSpec

-----------------------------------------------------------------------------
\* Rows and books keep their types.
THEOREM ProcurementTypeCorrect == ProcurementSpec => []ProcurementTypeOK
<1>1. PurchaseInv /\ StockInv => ProcurementTypeOK
  BY DEF PurchaseInv, PurchaseType, ReceiptType, StockInv, Sound, BookType, EntryType,
         BooksTypeOK, ProcurementTypeOK
<1>2. QED BY <1>1, SupplyAlways, PTL

\* What an order has received is what its posted receipts accepted, never more
\* than was ordered, and exactly that is on the stock ledger, line by line.
THEOREM ProcurementReceivedIsBooked == ProcurementSpec => []ReceivedIsBooked
<1>1. StockInv => ReceivedIsBooked
  BY DEF StockInv
<1>2. QED BY <1>1, SupplyAlways, PTL

\* The balance is what the ledger says, entry after entry, and no source is
\* booked twice.
THEOREM InventoryStockIsLedger == ProcurementSpec => []StockIsLedger
<1>1. Sound(books) => StockIsLedger
  <2> SUFFICES ASSUME Sound(books), NEW i \in Item
               PROVE  LET e == books[i].entries IN
                        /\ \A k \in DOMAIN e :
                             /\ e[k].after = (IF k = 1 THEN 0 ELSE e[k - 1].after) + e[k].quantity
                             /\ e[k].after >= 0
                             /\ \A j \in Item : \A n \in DOMAIN books[j].entries :
                                  books[j].entries[n].source = e[k].source => i = j /\ k = n
                        /\ books[i].onHand = IF e = <<>> THEN 0 ELSE Last(e).after
    BY DEF StockIsLedger
  <2>1. \A j \in Item : DOMAIN books[j].entries = 1..Len(books[j].entries)
    BY EntriesTyped DEF Sound
  <2>2. Runs(books[i]) /\ Once(books)
    BY DEF Sound
  <2> DEFINE e == books[i].entries
  <2>3. \A k \in DOMAIN e :
          /\ e[k].after = (IF k = 1 THEN 0 ELSE e[k - 1].after) + e[k].quantity
          /\ e[k].after >= 0
    BY <2>1, <2>2 DEF Runs
  <2>4. \A k \in DOMAIN e : \A j \in Item : \A n \in DOMAIN books[j].entries :
          books[j].entries[n].source = e[k].source => i = j /\ k = n
    <3> SUFFICES ASSUME NEW k \in DOMAIN e, NEW j \in Item, NEW n \in DOMAIN books[j].entries,
                        books[j].entries[n].source = e[k].source
                 PROVE  i = j /\ k = n
      OBVIOUS
    <3>1. k \in 1..Len(books[i].entries) /\ n \in 1..Len(books[j].entries)
      BY <2>1
    <3>2. QED BY <2>2, <3>1 DEF Once
  <2>5. books[i].onHand = IF e = <<>> THEN 0 ELSE Last(e).after
    BY <2>2 DEF Runs
  <2> HIDE DEF e
  <2>6. QED BY <2>3, <2>4, <2>5 DEF e
<1>2. QED BY <1>1, SupplyAlways, PTL DEF StockInv

\* Quantity times average cost is what came in, at its cost, less what went
\* out, at the average it went out at: the average loses nothing.
THEOREM InventoryValueIsConserved == ProcurementSpec => []ValueIsConserved
<1>1. Sound(books) => ValueIsConserved
  BY DEF Sound, ValueIsConserved
<1>2. QED BY <1>1, SupplyAlways, PTL DEF StockInv

-----------------------------------------------------------------------------
(* Controlled documents.                                                   *)

\* What an open transaction has read and holds: its revision, the document as it
\* is, and the policy, which all transitions lock.
RevisionTxOK(x) ==
  /\ x.revision \in Record /\ Kind[x.revision] = "REVISION" /\ Has(item, x.revision)
  /\ x.rule \in Rules["REVISION"]
  /\ x.document = item[DocumentOf[x.revision]]
  /\ "policy" \in x.locks

\* The revision that a document names is there, is its own and was issued.
CurrentIsIssued(r, i) ==
  /\ r \in Record /\ Kind[r] = "REVISION" /\ Has(item, r)
  /\ DocumentOf[r] = i /\ "issued" \in item[r].stamps

Controlled(i) ==
  /\ Kind[i] = "DOCUMENT" /\ item[i].current # NoRevision => CurrentIsIssued(item[i].current, i)
  /\ Kind[i] = "REVISION" => Has(item, DocumentOf[i])
  /\ Kind[i] = "DISTRIBUTION" => Has(item, DocumentOf[i]) /\ "issued" \in item[DocumentOf[i]].stamps
  /\ Kind[i] = "RFI" /\ "closed" \in item[i].stamps => item[i].response

ControlledInv ==
  /\ DOMAIN item = Record /\ \A i \in Record : item[i] \in DocumentRowOf(i) \cup {Absent}
  /\ approval \subseteq DocumentApprovalRow
  /\ \A i \in Record : Has(item, i) => Controlled(i)
  /\ \A x \in tx : RevisionTxOK(x)
  /\ \A x, y \in tx : x = y

\* The row that a rule leaves.
RowAfter(row, t) == [row EXCEPT !.status = t.to, !.stamps = @ \cup ({t.milestone} \ {"none"})]

LEMMA SteppedIsRowAfter ==
  ASSUME NEW i \in DOMAIN item, NEW t
  PROVE  Stepped(item, i, t) = [item EXCEPT ![i] = RowAfter(item[i], t)]
BY DEF Stepped, RowAfter

LEMMA PapersOfKind ==
  ASSUME NEW i
  PROVE  /\ Kind[i] = "DOCUMENT" => DocumentRowOf(i) = DocumentRow
         /\ Kind[i] = "RFI" => DocumentRowOf(i) = RfiRow
         /\ Kind[i] \in {"REVISION", "TRANSMITTAL", "SUBMITTAL"} => DocumentRowOf(i) = PaperRow(Kind[i])
         /\ Kind[i] = "DISTRIBUTION" => DocumentRowOf(i) = DistributionRow
         /\ Kind[i] = "RISK" => DocumentRowOf(i) = DocumentRiskRow
BY DEF DocumentRowOf, RevisionRow, TransmittalRow, SubmittalRow

LEMMA PaperIsThere ==
  ASSUME DocumentsAssumption, NEW i \in Record, NEW row \in DocumentRowOf(i)
  PROVE  row.status # "ABSENT"
<1>1. Kind[i] \in DocumentKinds
  BY DEF DocumentsAssumption
<1>2. \A k \in DocumentKinds : "ABSENT" \notin Status(k)
  BY DEF DocumentsAssumption, DocumentPolicy, IsPolicy, Status
<1>3. CASE Kind[i] = "DOCUMENT"
  <2>1. row \in DocumentRow
    BY <1>3, PapersOfKind
  <2>2. row.status \in Status("DOCUMENT")
    BY <2>1 DEF DocumentRow
  <2>3. QED BY <1>2, <2>2 DEF DocumentKinds
<1>4. CASE Kind[i] = "RFI"
  <2>1. row \in RfiRow
    BY <1>4, PapersOfKind
  <2>2. row.status \in Status("RFI")
    BY <2>1 DEF RfiRow
  <2>3. QED BY <1>2, <2>2 DEF DocumentKinds
<1>5. CASE Kind[i] \in {"REVISION", "TRANSMITTAL", "SUBMITTAL"}
  <2>1. row \in PaperRow(Kind[i])
    BY <1>5, PapersOfKind
  <2>2. row.status \in Status(Kind[i])
    BY <2>1 DEF PaperRow
  <2>3. QED BY <1>1, <1>2, <2>2
<1>6. CASE Kind[i] = "DISTRIBUTION"
  <2>1. row \in DistributionRow
    BY <1>6, PapersOfKind
  <2>2. QED BY <2>1 DEF DistributionRow
<1>7. CASE Kind[i] = "RISK"
  <2>1. row \in DocumentRiskRow
    BY <1>7, PapersOfKind
  <2>2. QED BY <2>1 DEF DocumentRiskRow
<1>8. QED BY <1>1, <1>3, <1>4, <1>5, <1>6, <1>7 DEF DocumentKinds

\* The policy row is locked by every transaction: nobody else has it.
LEMMA NoRevisionOpen ==
  ASSUME ControlledInv, NEW rows, Unlocked(tx, rows), "policy" \in rows
  PROVE  tx = {}
BY DEF ControlledInv, RevisionTxOK, Unlocked

LEMMA ControlledInitOK == ASSUME DocumentInit PROVE ControlledInv
<1>1. \A i \in Record : ~Has(item, i)
  BY DEF DocumentInit, Has, Absent
<1>2. QED BY <1>1 DEF DocumentInit, ControlledInv

\* One record is written: a new one, or one that no open transaction has read.
PaperWritten(i, row) ==
  /\ item' = [item EXCEPT ![i] = row] /\ UNCHANGED <<approval, tx>>
  /\ row \in DocumentRowOf(i)
  /\ ~Has(item, i) \/ tx = {} \/ Kind[i] = "DISTRIBUTION"
  /\ Kind[i] = "DOCUMENT" /\ Has(item, i) =>
       /\ row.current = item[i].current
       /\ \E t \in Rules["DOCUMENT"] : t.from = item[i].status /\ t.to = row.status
  /\ Kind[i] = "DOCUMENT" /\ ~Has(item, i) => row.current = NoRevision
  /\ Kind[i] = "REVISION" => ~Has(item, i) /\ Has(item, DocumentOf[i])
  /\ Kind[i] = "DISTRIBUTION" => Has(item, DocumentOf[i]) /\ "issued" \in item[DocumentOf[i]].stamps
  /\ Kind[i] = "RFI" /\ "closed" \in row.stamps => row.response

LEMMA PaperWrittenOK ==
  ASSUME DocumentsAssumption, ControlledInv, NEW i \in Record, NEW row, PaperWritten(i, row)
  PROVE  ControlledInv' /\ NoStatusIsLost
<1>1. /\ DOMAIN item' = Record /\ item'[i] = row /\ Has(item', i)
      /\ \A j \in Record : j # i => item'[j] = item[j]
      /\ approval' = approval /\ tx' = tx
  <2>1. row.status # "ABSENT"
    BY PaperIsThere DEF PaperWritten
  <2>2. QED BY <2>1 DEF ControlledInv, PaperWritten, Has
<1>2. \A j \in Record : Has(item, j) => Has(item', j)
  BY <1>1 DEF Has
<1>3. \A j \in Record : Kind[j] = "REVISION" /\ Has(item, j) => item'[j] = item[j]
  BY <1>1 DEF PaperWritten
<1>4. \A j \in Record : item'[j] \in DocumentRowOf(j) \cup {Absent}
  BY <1>1 DEF ControlledInv, PaperWritten
<1>5. \A r \in Record : \A j : CurrentIsIssued(r, j) => CurrentIsIssued(r, j)'
  BY <1>2, <1>3 DEF CurrentIsIssued
<1>6. ASSUME NEW j \in Record, Has(item', j) PROVE Controlled(j)'
  <2>1. CASE j # i
    <3>1. Has(item, j) /\ item'[j] = item[j]
      BY <1>1, <1>6, <2>1 DEF Has
    <3>2. Controlled(j)
      BY <3>1 DEF ControlledInv
    <3>3. Kind[j] = "DOCUMENT" /\ item[j].current # NoRevision => CurrentIsIssued(item[j].current, j)'
      <4> SUFFICES ASSUME Kind[j] = "DOCUMENT", item[j].current # NoRevision
                   PROVE  CurrentIsIssued(item[j].current, j)'
        OBVIOUS
      <4>1. CurrentIsIssued(item[j].current, j) /\ item[j].current \in Record
        BY <3>2 DEF Controlled, CurrentIsIssued
      <4>2. PICK r \in Record : r = item[j].current
        BY <4>1
      <4>3. CurrentIsIssued(r, j)'
        BY <1>5, <4>1, <4>2
      <4>4. item'[j].current = r
        BY <3>1, <4>2
      <4>5. QED BY <4>3, <4>4
    <3>4. Kind[j] = "REVISION" => Has(item', DocumentOf[j])
      BY <1>2, <3>2 DEF Controlled, DocumentsAssumption
    <3>5. Kind[j] = "DISTRIBUTION" => Has(item', DocumentOf[j]) /\ "issued" \in item'[DocumentOf[j]].stamps
      BY <1>2, <1>3, <3>2 DEF Controlled, DocumentsAssumption
    <3>6. QED BY <3>1, <3>2, <3>3, <3>4, <3>5 DEF Controlled
  <2>2. CASE j = i
    <3>1. Kind[i] = "DOCUMENT" /\ row.current # NoRevision => CurrentIsIssued(row.current, i)'
      <4> SUFFICES ASSUME Kind[i] = "DOCUMENT", row.current # NoRevision
                   PROVE  CurrentIsIssued(row.current, i)'
        OBVIOUS
      <4>1. Has(item, i) /\ row.current = item[i].current
        BY DEF PaperWritten
      <4>2. CurrentIsIssued(row.current, i)
        BY <4>1 DEF ControlledInv, Controlled
      <4>3. row.current \in Record
        BY <4>2 DEF CurrentIsIssued
      <4>4. QED BY <1>5, <4>2, <4>3
    <3>2. Kind[i] = "REVISION" => Has(item', DocumentOf[i])
      BY <1>2 DEF PaperWritten, DocumentsAssumption
    <3>3. Kind[i] = "DISTRIBUTION" => Has(item', DocumentOf[i]) /\ "issued" \in item'[DocumentOf[i]].stamps
      BY <1>2, <1>3 DEF PaperWritten, DocumentsAssumption
    <3>4. Kind[i] = "RFI" /\ "closed" \in row.stamps => row.response
      BY DEF PaperWritten
    <3>5. QED BY <1>1, <2>2, <3>1, <3>2, <3>3, <3>4 DEF Controlled
  <2>3. QED BY <2>1, <2>2
<1>7. ASSUME NEW x \in tx PROVE RevisionTxOK(x)'
  <2>1. RevisionTxOK(x)
    BY DEF ControlledInv
  <2>2. /\ x.revision \in Record /\ Kind[x.revision] = "REVISION" /\ Has(item, x.revision)
        /\ DocumentOf[x.revision] \in Record /\ Kind[DocumentOf[x.revision]] = "DOCUMENT"
        /\ Has(item, DocumentOf[x.revision])
    BY <2>1 DEF RevisionTxOK, DocumentsAssumption, ControlledInv, Controlled
  <2>3. i # x.revision /\ i # DocumentOf[x.revision]
    BY <2>2 DEF PaperWritten
  <2>4. item'[x.revision] = item[x.revision] /\ item'[DocumentOf[x.revision]] = item[DocumentOf[x.revision]]
    BY <1>1, <2>2, <2>3
  <2>5. QED BY <2>1, <2>4 DEF RevisionTxOK, Has
<1>8. ControlledInv'
  BY <1>1, <1>4, <1>6, <1>7 DEF ControlledInv, DocumentApprovalRow, DocumentRowOf, DocumentRow, RevisionRow,
    TransmittalRow, RfiRow, SubmittalRow, DistributionRow, DocumentRiskRow, PaperRow, Status
<1>9. NoStatusIsLost
  BY <1>1 DEF NoStatusIsLost, PaperWritten
<1>10. QED BY <1>8, <1>9

LEMMA PaperCreations ==
  ASSUME DocumentsAssumption, ControlledInv, NEW i \in Record,
         \/ CreateDocument(i) \/ CreateRevision(i) \/ CreateTransmittal(i) \/ CreateRfi(i)
         \/ CreateSubmittal(i) \/ DocumentCreateRisk(i) \/ RecordDistribution(i)
  PROVE  ControlledInv' /\ NoStatusIsLost
<1>1. ASSUME NEW k \in {"TRANSMITTAL", "SUBMITTAL", "REVISION"}, DocumentCreated(k, i, Fresh(k)),
             k = "REVISION" => Has(item, DocumentOf[i])
      PROVE  ControlledInv' /\ NoStatusIsLost
  <2>1. Fresh(k) \in PaperRow(k)
    BY DEF Fresh, PaperRow, Status
  <2>2. PaperWritten(i, Fresh(k))
    BY <1>1, <2>1, PapersOfKind DEF DocumentCreated, PaperWritten
  <2>3. QED BY <2>2, PaperWrittenOK
<1>2. CASE CreateDocument(i)
  <2> DEFINE row == [status |-> Initial["DOCUMENT"], stamps |-> {}, current |-> NoRevision]
  <2>1. row \in DocumentRow /\ row.current = NoRevision
    BY DEF DocumentRow, Status
  <2>2. DocumentCreated("DOCUMENT", i, row)
    BY <1>2 DEF CreateDocument
  <2> HIDE DEF row
  <2>3. PaperWritten(i, row)
    BY <2>1, <2>2, PapersOfKind DEF DocumentCreated, PaperWritten
  <2>4. QED BY <2>3, PaperWrittenOK
<1>3. CASE CreateRfi(i)
  <2> DEFINE row == [status |-> Initial["RFI"], stamps |-> {}, response |-> FALSE]
  <2>1. row \in RfiRow /\ "closed" \notin row.stamps
    BY DEF RfiRow, Status
  <2>2. DocumentCreated("RFI", i, row)
    BY <1>3 DEF CreateRfi
  <2> HIDE DEF row
  <2>3. PaperWritten(i, row)
    BY <2>1, <2>2, PapersOfKind DEF DocumentCreated, PaperWritten
  <2>4. QED BY <2>3, PaperWrittenOK
<1>4. CASE DocumentCreateRisk(i)
  <2> DEFINE row == [status |-> "OPEN", stamps |-> {}]
  <2>1. row \in DocumentRiskRow
    BY DEF DocumentRiskRow
  <2>2. DocumentCreated("RISK", i, row)
    BY <1>4 DEF DocumentCreateRisk
  <2> HIDE DEF row
  <2>3. PaperWritten(i, row)
    BY <2>1, <2>2, PapersOfKind DEF DocumentCreated, PaperWritten
  <2>4. QED BY <2>3, PaperWrittenOK
<1>5. CASE RecordDistribution(i)
  <2> DEFINE row == [status |-> "DISTRIBUTED", stamps |-> {}]
  <2>1. row \in DistributionRow
    BY DEF DistributionRow
  <2>2. DocumentCreated("DISTRIBUTION", i, row) /\ MayDistribute(DocumentOf[i])
    BY <1>5 DEF RecordDistribution
  <2> HIDE DEF row
  <2>3. PaperWritten(i, row)
    BY <2>1, <2>2, PapersOfKind DEF DocumentCreated, PaperWritten, MayDistribute
  <2>4. QED BY <2>3, PaperWrittenOK
<1>6. QED BY <1>1, <1>2, <1>3, <1>4, <1>5 DEF CreateTransmittal, CreateSubmittal, CreateRevision

LEMMA PaperAcknowledged ==
  ASSUME DocumentsAssumption, ControlledInv, NEW i \in Record,
         AcknowledgeDistribution(i) \/ DocumentResolveRisk(i)
  PROVE  ControlledInv' /\ NoStatusIsLost
<1>1. CASE AcknowledgeDistribution(i)
  <2> DEFINE row == [item[i] EXCEPT !.status = "ACKNOWLEDGED"]
  <2>1. /\ Kind[i] = "DISTRIBUTION" /\ item[i].status = "DISTRIBUTED"
        /\ item' = [item EXCEPT ![i] = row] /\ UNCHANGED <<approval, tx>>
    BY <1>1 DEF AcknowledgeDistribution, In, Moved
  <2>2. item[i] \in DistributionRow /\ Controlled(i)
    BY <2>1, PapersOfKind DEF ControlledInv, Absent, Has
  <2>3. row \in DistributionRow
    BY <2>2 DEF DistributionRow
  <2> HIDE DEF row
  <2>4. PaperWritten(i, row)
    BY <2>1, <2>2, <2>3, PapersOfKind DEF PaperWritten, Controlled
  <2>5. QED BY <2>4, PaperWrittenOK
<1>2. CASE DocumentResolveRisk(i)
  <2> DEFINE row == [item[i] EXCEPT !.status = "RESOLVED"]
  <2>1. /\ Kind[i] = "RISK" /\ item[i].status = "OPEN" /\ Unlocked(tx, {"policy"})
        /\ item' = [item EXCEPT ![i] = row] /\ UNCHANGED <<approval, tx>>
    BY <1>2 DEF DocumentResolveRisk, In, Moved
  <2>2. item[i] \in DocumentRiskRow /\ tx = {}
    BY <2>1, PapersOfKind, NoRevisionOpen DEF ControlledInv, Absent
  <2>3. row \in DocumentRiskRow
    BY <2>2 DEF DocumentRiskRow
  <2> HIDE DEF row
  <2>4. PaperWritten(i, row)
    BY <2>1, <2>2, <2>3, PapersOfKind DEF PaperWritten
  <2>5. QED BY <2>4, PaperWrittenOK
<1>3. QED BY <1>1, <1>2

\* What a transition of record i of kind k finds.
LEMMA PaperRuleApplies ==
  ASSUME DocumentsAssumption, ControlledInv, NEW i \in Record, NEW k, NEW t \in DocumentApplicable(k, i)
  PROVE  /\ Kind[i] = k /\ Has(item, i) /\ t \in Rules[k] /\ t.from = item[i].status /\ tx = {}
         /\ item[i] \in DocumentRowOf(i) /\ Controlled(i)
         /\ Stepped(item, i, t) = [item EXCEPT ![i] = RowAfter(item[i], t)]
<1>1. /\ Kind[i] = k /\ Has(item, i) /\ t \in Rules[k] /\ t.from = item[i].status
      /\ Unlocked(tx, {i, "policy"})
  BY DEF DocumentApplicable, Allowed
<1>2. tx = {}
  BY <1>1, NoRevisionOpen
<1>3. item[i] \in DocumentRowOf(i) /\ Controlled(i) /\ i \in DOMAIN item
  BY <1>1 DEF ControlledInv, Has, Absent
<1>4. QED BY <1>1, <1>2, <1>3, SteppedIsRowAfter

LEMMA DocumentTransitioned ==
  ASSUME DocumentsAssumption, ControlledInv, NEW i \in Record, TransitionDocument(i)
  PROVE  ControlledInv' /\ NoStatusIsLost
<1>1. PICK t \in DocumentApplicable("DOCUMENT", i) : item' = Stepped(item, i, t)
  BY DEF TransitionDocument
<1> DEFINE row == RowAfter(item[i], t)
<1>2. /\ Kind[i] = "DOCUMENT" /\ Has(item, i) /\ t \in Rules["DOCUMENT"] /\ t.from = item[i].status
      /\ item[i] \in DocumentRow /\ tx = {} /\ item' = [item EXCEPT ![i] = row]
  BY <1>1, PaperRuleApplies, PapersOfKind
<1>3. row \in DocumentRow /\ row.status = t.to /\ row.current = item[i].current
  BY <1>2 DEF RowAfter, DocumentRow, Status
<1> HIDE DEF row
<1>4. PaperWritten(i, row)
  BY <1>2, <1>3, PapersOfKind DEF PaperWritten, TransitionDocument
<1>5. QED BY <1>4, PaperWrittenOK

LEMMA LetterTransitioned ==
  ASSUME DocumentsAssumption, ControlledInv, NEW i \in Record, TransitionTransmittal(i) \/ TransitionSubmittal(i)
  PROVE  ControlledInv' /\ NoStatusIsLost
<1>1. ASSUME NEW k \in {"TRANSMITTAL", "SUBMITTAL"}, NEW t \in DocumentApplicable(k, i),
             NEW row \in PaperRow(k), item' = [item EXCEPT ![i] = row], UNCHANGED <<approval, tx>>
      PROVE  ControlledInv' /\ NoStatusIsLost
  <2>1. Kind[i] = k /\ tx = {}
    BY <1>1, PaperRuleApplies
  <2>2. PaperWritten(i, row)
    BY <1>1, <2>1, PapersOfKind DEF PaperWritten
  <2>3. QED BY <2>2, PaperWrittenOK
<1>2. CASE TransitionTransmittal(i)
  <2>1. PICK t \in DocumentApplicable("TRANSMITTAL", i) :
          item' = [Stepped(item, i, t) EXCEPT
            ![i].stamps = @ \cup IF t.milestone = "closed" THEN {"acknowledged"} ELSE {}]
    BY <1>2 DEF TransitionTransmittal
  <2> DEFINE next == RowAfter(item[i], t)
             more == IF t.milestone = "closed" THEN {"acknowledged"} ELSE {}
             row == [next EXCEPT !.stamps = @ \cup more]
  <2>2. /\ t \in Rules["TRANSMITTAL"] /\ item[i] \in PaperRow("TRANSMITTAL")
        /\ Stepped(item, i, t) = [item EXCEPT ![i] = next]
    BY <2>1, PaperRuleApplies, PapersOfKind
  <2>3. next \in PaperRow("TRANSMITTAL")
    BY <2>2 DEF RowAfter, PaperRow, Status
  <2>4. item' = [item EXCEPT ![i] = row]
    <3>1. item' = [[item EXCEPT ![i] = next] EXCEPT ![i].stamps = @ \cup more]
      BY <2>1, <2>2
    <3> HIDE DEF next, more
    <3>2. QED BY <3>1 DEF ControlledInv
  <2>5. row \in PaperRow("TRANSMITTAL")
    BY <2>3 DEF PaperRow
  <2> HIDE DEF row
  <2>6. QED BY <1>1, <1>2, <2>1, <2>4, <2>5 DEF TransitionTransmittal
<1>3. CASE TransitionSubmittal(i)
  <2>1. PICK t \in DocumentApplicable("SUBMITTAL", i) : item' = Stepped(item, i, t)
    BY <1>3 DEF TransitionSubmittal
  <2> DEFINE row == RowAfter(item[i], t)
  <2>2. /\ t \in Rules["SUBMITTAL"] /\ item[i] \in PaperRow("SUBMITTAL")
        /\ item' = [item EXCEPT ![i] = row]
    BY <2>1, PaperRuleApplies, PapersOfKind
  <2>3. row \in PaperRow("SUBMITTAL")
    BY <2>2 DEF RowAfter, PaperRow, Status
  <2> HIDE DEF row
  <2>4. QED BY <1>1, <1>3, <2>1, <2>2, <2>3 DEF TransitionSubmittal
<1>4. QED BY <1>2, <1>3

LEMMA RfiTransitioned ==
  ASSUME DocumentsAssumption, ControlledInv, NEW i \in Record, TransitionRfi(i)
  PROVE  ControlledInv' /\ NoStatusIsLost
<1>1. PICK t \in DocumentApplicable("RFI", i) :
        IF Answers(t)
        THEN item' = [Stepped(item, i, t) EXCEPT ![i].response = TRUE, ![i].stamps = @ \cup {"responded"}]
        ELSE item' = Stepped(item, i, t)
  BY DEF TransitionRfi
<1> DEFINE next == RowAfter(item[i], t)
           answered == [next EXCEPT !.response = TRUE, !.stamps = @ \cup {"responded"}]
<1>2. /\ Kind[i] = "RFI" /\ t \in Rules["RFI"] /\ item[i] \in RfiRow /\ tx = {}
      /\ "closed" \in item[i].stamps => item[i].response
      /\ Stepped(item, i, t) = [item EXCEPT ![i] = next]
  BY <1>1, PaperRuleApplies, PapersOfKind DEF Controlled
<1>3. /\ next \in RfiRow /\ next.response = item[i].response
      /\ next.stamps = item[i].stamps \cup ({t.milestone} \ {"none"})
  BY <1>2 DEF RowAfter, RfiRow, Status
<1>4. PICK row \in {next, answered} :
        item' = [item EXCEPT ![i] = row] /\ (Answers(t) => row = answered)
  <2>1. CASE Answers(t)
    <3>1. item' = [[item EXCEPT ![i] = next] EXCEPT ![i].response = TRUE, ![i].stamps = @ \cup {"responded"}]
      BY <1>1, <1>2, <2>1
    <3> HIDE DEF next
    <3>2. item' = [item EXCEPT ![i] = answered]
      BY <1>3, <3>1 DEF ControlledInv, RfiRow
    <3> HIDE DEF answered
    <3>3. QED BY <3>2
  <2>2. CASE ~Answers(t)
    BY <1>1, <1>2, <2>2
  <2>3. QED BY <2>1, <2>2
<1> HIDE DEF next
<1>5. answered \in RfiRow /\ answered.response = TRUE
  BY <1>3 DEF RfiRow
<1>6. row \in RfiRow /\ ("closed" \in row.stamps => row.response)
  BY <1>2, <1>3, <1>4, <1>5 DEF Answers
<1>7. PaperWritten(i, row)
  BY <1>2, <1>4, <1>6, PapersOfKind DEF PaperWritten, TransitionRfi
<1>8. QED BY <1>7, PaperWrittenOK

\* The records as they were, whatever else is asked for, decided, begun or ended.
LEMMA PapersUntouched ==
  ASSUME ControlledInv, UNCHANGED item, approval' \subseteq DocumentApprovalRow,
         \A x \in tx' : RevisionTxOK(x), \A x, y \in tx' : x = y
  PROVE  ControlledInv' /\ NoStatusIsLost
<1>1. \A i \in Record : Controlled(i) => Controlled(i)'
  BY DEF Controlled, CurrentIsIssued, Has
<1>2. \A i \in Record : Has(item', i) => Controlled(i)'
  BY <1>1 DEF ControlledInv, Has
<1>3. \A x \in tx' : RevisionTxOK(x)'
  BY DEF RevisionTxOK, Has
<1>4. ControlledInv'
  BY <1>2, <1>3 DEF ControlledInv, DocumentApprovalRow, DocumentRowOf, DocumentRow, RevisionRow,
    TransmittalRow, RfiRow, SubmittalRow, DistributionRow, DocumentRiskRow, PaperRow, Status
<1>5. QED BY <1>4 DEF NoStatusIsLost

LEMMA RevisionOpened ==
  ASSUME DocumentsAssumption, ControlledInv, NEW i \in Record, CheckRevision(i)
  PROVE  ControlledInv' /\ NoStatusIsLost /\ tx = {} /\ \E x : tx' = {x}
<1>1. tx = {} /\ Kind[i] = "REVISION" /\ UNCHANGED <<item, approval>>
  BY NoRevisionOpen DEF CheckRevision, LocksOfRevision
<1>2. PICK t \in Allowed(Rules["REVISION"], item, i) :
        tx' = tx \cup {[revision |-> i, rule |-> t, document |-> item[DocumentOf[i]],
                        locks |-> LocksOfRevision(i)]}
  BY DEF CheckRevision
<1> DEFINE x == [revision |-> i, rule |-> t, document |-> item[DocumentOf[i]], locks |-> LocksOfRevision(i)]
<1>3. RevisionTxOK(x)
  BY <1>1, <1>2 DEF RevisionTxOK, Allowed, LocksOfRevision
<1>4. tx' = {x}
  BY <1>1, <1>2
<1> HIDE DEF x
<1>5. approval' \subseteq DocumentApprovalRow
  BY <1>1 DEF ControlledInv
<1>6. QED BY <1>1, <1>3, <1>4, <1>5, PapersUntouched

\* The revision is stamped; if it is issued, its document names it and is otherwise
\* as it is.
LEMMA RevisionCommitted ==
  ASSUME DocumentsAssumption, ControlledInv, NEW x \in tx, CommitRevision(x)
  PROVE  ControlledInv' /\ NoStatusIsLost /\ tx' = {}
<1> DEFINE r == x.revision
           d == DocumentOf[r]
           next == RowAfter(item[r], x.rule)
           doc == IF x.rule.milestone = "issued" THEN [item[d] EXCEPT !.current = r] ELSE item[d]
<1>1. /\ r \in Record /\ Kind[r] = "REVISION" /\ Has(item, r) /\ x.rule \in Rules["REVISION"]
      /\ x.document = item[d]
  BY DEF ControlledInv, RevisionTxOK
<1>2. tx' = {} /\ approval' = approval
  BY DEF CommitRevision, ControlledInv
<1>3. d \in Record /\ Kind[d] = "DOCUMENT" /\ Has(item, d) /\ r # d
  BY <1>1 DEF DocumentsAssumption, ControlledInv, Controlled
<1>4. item[r] \in PaperRow("REVISION") /\ item[d] \in DocumentRow /\ Controlled(d) /\ Controlled(r)
  BY <1>1, <1>3, PapersOfKind DEF ControlledInv, Has, Absent
<1>5. /\ next \in PaperRow("REVISION") /\ item[r].stamps \subseteq next.stamps
      /\ x.rule.milestone = "issued" => "issued" \in next.stamps
  BY <1>1, <1>4 DEF RowAfter, PaperRow, Status
<1>6. /\ doc \in DocumentRow /\ doc.status = item[d].status
      /\ x.rule.milestone = "issued" => doc.current = r
      /\ x.rule.milestone # "issued" => doc.current = item[d].current
  BY <1>1, <1>4 DEF DocumentRow
<1>7. /\ DOMAIN item' = Record /\ item'[r] = next /\ item'[d] = doc
      /\ \A j \in Record \ {r, d} : item'[j] = item[j]
  <2>1. Stepped(item, r, x.rule) = [item EXCEPT ![r] = next]
    BY <1>1, SteppedIsRowAfter DEF ControlledInv
  <2>2. item' = IF x.rule.milestone = "issued"
                THEN [[item EXCEPT ![r] = next] EXCEPT ![d] = [x.document EXCEPT !.current = r]]
                ELSE [item EXCEPT ![r] = next]
    BY <2>1 DEF CommitRevision
  <2> HIDE DEF next
  <2>3. QED BY <1>1, <1>3, <2>2 DEF ControlledInv
<1> HIDE DEF next, doc
<1>8. next \in DocumentRowOf(r) /\ doc \in DocumentRowOf(d) /\ next.status # "ABSENT" /\ doc.status # "ABSENT"
  BY <1>1, <1>3, <1>5, <1>6, PapersOfKind, PaperIsThere
<1>9. \A j \in Record : item'[j] \in DocumentRowOf(j) \cup {Absent}
  BY <1>7, <1>8 DEF ControlledInv
<1>10. \A j \in Record : Has(item', j) <=> Has(item, j)
  BY <1>1, <1>3, <1>7, <1>8 DEF Has
<1>11. \A j \in Record : Kind[j] = "REVISION" /\ Has(item, j) /\ "issued" \in item[j].stamps =>
         "issued" \in item'[j].stamps
  BY <1>3, <1>5, <1>7
<1>12. \A q \in Record : \A j : CurrentIsIssued(q, j) => CurrentIsIssued(q, j)'
  BY <1>10, <1>11 DEF CurrentIsIssued
<1>13. ASSUME NEW j \in Record, Has(item', j) PROVE Controlled(j)'
  <2>1. Controlled(j) /\ Has(item, j)
    BY <1>10, <1>13 DEF ControlledInv
  <2>2. Kind[j] = "DOCUMENT" /\ item'[j].current # NoRevision => CurrentIsIssued(item[j].current, j)'
    <3> SUFFICES ASSUME Kind[j] = "DOCUMENT", item'[j].current # NoRevision
                 PROVE  CurrentIsIssued(item[j].current, j)'
      OBVIOUS
    <3>1. CASE j = d /\ x.rule.milestone = "issued"
      <4>1. item'[j].current = r
        BY <1>6, <1>7, <3>1
      <4>2. CurrentIsIssued(r, j)'
        BY <1>1, <1>5, <1>7, <1>10, <3>1 DEF CurrentIsIssued
      <4>3. QED BY <4>1, <4>2
    <3>2. CASE ~(j = d /\ x.rule.milestone = "issued")
      <4>1. j # r /\ item'[j].current = item[j].current
        BY <1>1, <1>6, <1>7, <3>2
      <4>2. CurrentIsIssued(item[j].current, j) /\ item[j].current \in Record
        BY <2>1, <4>1 DEF Controlled, CurrentIsIssued
      <4>3. PICK q \in Record : q = item[j].current
        BY <4>2
      <4>4. CurrentIsIssued(q, j)'
        BY <1>12, <4>2, <4>3
      <4>5. item'[j].current = q
        BY <4>1, <4>3
      <4>6. QED BY <4>4, <4>5
    <3>3. QED BY <3>1, <3>2
  <2>3. Kind[j] = "REVISION" => Has(item', DocumentOf[j])
    BY <1>10, <2>1 DEF Controlled, DocumentsAssumption
  <2>4. Kind[j] = "DISTRIBUTION" => Has(item', DocumentOf[j]) /\ "issued" \in item'[DocumentOf[j]].stamps
    BY <1>10, <1>11, <2>1 DEF Controlled, DocumentsAssumption
  <2>5. Kind[j] = "RFI" => item'[j] = item[j]
    BY <1>1, <1>3, <1>7
  <2>6. QED BY <2>1, <2>2, <2>3, <2>4, <2>5 DEF Controlled
<1>14. ControlledInv'
  BY <1>2, <1>7, <1>9, <1>13 DEF ControlledInv, DocumentApprovalRow, DocumentRowOf, DocumentRow, RevisionRow,
    TransmittalRow, RfiRow, SubmittalRow, DistributionRow, DocumentRiskRow, PaperRow, Status
<1>15. NoStatusIsLost
  BY <1>1, <1>3, <1>6, <1>7 DEF NoStatusIsLost
<1>16. QED BY <1>2, <1>14, <1>15

LEMMA PapersReviewed ==
  ASSUME ControlledInv,
         \/ \E i \in Record, s \in Step, m, from \in Member : DocumentRequestApproval(i, s, m, from)
         \/ \E x \in approval, m \in Member : DocumentDecideApproval(x, m)
  PROVE  ControlledInv' /\ NoStatusIsLost /\ tx' = tx
<1>1. /\ UNCHANGED <<item, tx>> /\ \A x \in tx : RevisionTxOK(x)
      /\ \A x, y \in tx : x = y
  BY DEF ControlledInv, DocumentRequestApproval, DocumentDecideApproval
<1>2. approval' \subseteq DocumentApprovalRow
  <2>1. CASE \E i \in Record, s \in Step, m, from \in Member : DocumentRequestApproval(i, s, m, from)
    BY <2>1 DEF DocumentRequestApproval, Requested, DocumentApprovalRow, ApprovalRow, ControlledInv
  <2>2. CASE \E x \in approval, m \in Member : DocumentDecideApproval(x, m)
    <3>1. PICK x \in approval, m \in Member, verdict \in Verdicts : approval' = Decided(approval, x, verdict, m)
      BY <2>2 DEF DocumentDecideApproval
    <3>2. [x EXCEPT !.status = verdict, !.decider = m] \in DocumentApprovalRow
      BY DEF ControlledInv, DocumentApprovalRow, ApprovalRow
    <3>3. QED BY <3>1, <3>2 DEF Decided, ControlledInv
  <2>3. QED BY <2>1, <2>2
<1>3. QED BY <1>1, <1>2, PapersUntouched

LEMMA DocumentStepOK ==
  ASSUME DocumentsAssumption, ControlledInv, Cardinality(tx) <= MaxOpen, [DocumentNext]_documentVars
  PROVE  ControlledInv' /\ [NoStatusIsLost]_documentVars /\ Cardinality(tx') <= MaxOpen
<1>1. CASE UNCHANGED documentVars
  <2>1. /\ UNCHANGED <<item, approval, tx>> /\ approval' \subseteq DocumentApprovalRow
        /\ \A x \in tx' : RevisionTxOK(x)
        /\ \A x, y \in tx' : x = y
    BY <1>1 DEF documentVars, ControlledInv
  <2>2. QED BY <2>1, PapersUntouched
<1>2. ASSUME NEW i \in Record,
             \/ CreateDocument(i) \/ CreateRevision(i) \/ CreateTransmittal(i) \/ CreateRfi(i)
             \/ CreateSubmittal(i) \/ DocumentCreateRisk(i) \/ RecordDistribution(i)
      PROVE  ControlledInv' /\ NoStatusIsLost /\ tx' = tx
  BY <1>2, PaperCreations DEF CreateDocument, CreateRevision, CreateTransmittal, CreateRfi, CreateSubmittal,
    DocumentCreateRisk, RecordDistribution, DocumentCreated
<1>3. ASSUME NEW i \in Record,
             \/ AcknowledgeDistribution(i) \/ DocumentResolveRisk(i) \/ TransitionDocument(i)
             \/ TransitionTransmittal(i) \/ TransitionRfi(i) \/ TransitionSubmittal(i)
      PROVE  ControlledInv' /\ NoStatusIsLost /\ tx' = tx
  <2>1. tx' = tx
    BY <1>3 DEF AcknowledgeDistribution, DocumentResolveRisk, TransitionDocument, TransitionTransmittal,
      TransitionRfi, TransitionSubmittal
  <2>2. QED BY <1>3, <2>1, PaperAcknowledged, DocumentTransitioned, LetterTransitioned, RfiTransitioned
<1>4. ASSUME NEW i \in Record, CheckRevision(i)
      PROVE  ControlledInv' /\ NoStatusIsLost /\ Cardinality(tx') <= MaxOpen
  <2>1. ControlledInv' /\ NoStatusIsLost /\ tx = {} /\ \E x : tx' = {x}
    BY <1>4, RevisionOpened
  <2>2. Cardinality({}) < MaxOpen /\ Cardinality({}) = 0
    BY <1>4, <2>1, FS_EmptySet DEF CheckRevision
  <2>3. Cardinality(tx') = 1
    BY <2>1, FS_Singleton
  <2>4. QED BY <2>1, <2>2, <2>3 DEF DocumentsAssumption
<1>5. ASSUME NEW x \in tx, CommitRevision(x) \/ RollbackRevision(x)
      PROVE  ControlledInv' /\ NoStatusIsLost /\ Cardinality(tx') <= MaxOpen
  <2>1. ControlledInv' /\ NoStatusIsLost /\ tx' = {}
    <3>1. CASE CommitRevision(x)
      BY <3>1, RevisionCommitted
    <3>2. CASE RollbackRevision(x)
      <4>1. tx' = {} /\ UNCHANGED <<item, approval>> /\ approval' \subseteq DocumentApprovalRow
        BY <3>2 DEF RollbackRevision, ControlledInv
      <4>2. QED BY <4>1, PapersUntouched
    <3>3. QED BY <1>5, <3>1, <3>2
  <2>2. QED BY <2>1, FS_EmptySet DEF DocumentsAssumption
<1>6. QED BY <1>1, <1>2, <1>3, <1>4, <1>5, PapersReviewed DEF DocumentNext

LEMMA ControlledInvariance ==
  ASSUME DocumentsAssumption
  PROVE  DocumentSpec => [](ControlledInv /\ Cardinality(tx) <= MaxOpen) /\ [][NoStatusIsLost]_documentVars
<1> DEFINE Inv == ControlledInv /\ Cardinality(tx) <= MaxOpen
<1>1. DocumentInit => Inv
  BY ControlledInitOK, FS_EmptySet DEF DocumentInit, DocumentsAssumption
<1>2. Inv /\ [DocumentNext]_documentVars => Inv' /\ [NoStatusIsLost]_documentVars
  BY DocumentStepOK
<1>3. QED BY <1>1, <1>2, PTL DEF DocumentSpec

\* Rows of documentops keep their types, and no more transactions are open than may be.
THEOREM DocumentTypeCorrect == ASSUME DocumentsAssumption PROVE DocumentSpec => []DocumentTypeOK
<1>1. ControlledInv /\ Cardinality(tx) <= MaxOpen => DocumentTypeOK
  BY DEF ControlledInv, DocumentTypeOK
<1>2. QED BY <1>1, ControlledInvariance, PTL

\* The current revision of a document is one of its own that was issued, only issued
\* revisions were handed out, and no request for information is closed without an
\* answer, for any policy and records.
THEOREM DocumentOnlyIssuedIsCurrent ==
  ASSUME DocumentsAssumption PROVE DocumentSpec => []OnlyIssuedIsCurrent
<1>1. ControlledInv => OnlyIssuedIsCurrent
  BY DEF ControlledInv, Controlled, CurrentIsIssued, OnlyIssuedIsCurrent
<1>2. QED BY <1>1, ControlledInvariance, PTL

\* A document leaves its status by its own rules alone, although issuing a revision
\* saves all of it as it was read.
THEOREM DocumentNoStatusIsLost ==
  ASSUME DocumentsAssumption PROVE DocumentSpec => [][NoStatusIsLost]_documentVars
<1>1. QED BY ControlledInvariance, PTL

-----------------------------------------------------------------------------
(* Contracts.                                                              *)

\* What the variations of contract c have added, in any table of records.
Varied(table, c) == MapThenSumSet(LAMBDA v : Added(table, v), VariationsOf(c))

Value(table) == [v \in Record |-> Added(table, v)]

\* A status that a variation has only after it was approved.
Spent(status) ==
  \E t \in Rules["VARIATION"] : t.milestone = "approved" /\
    \/ status = t.to
    \/ \E u \in Rules["VARIATION"] : u.from = t.to /\ status = u.to

Agreed(i) ==
  /\ Kind[i] = "CONTRACT" => /\ item[i].current = item[i].original + item[i].varied
                             /\ item[i].varied = Varied(item, i)
  /\ Kind[i] = "VARIATION" => /\ Has(item, ContractOf[i])
                              /\ "approved" \in item[i].stamps <=> item[i].times > 0
                              /\ ApprovedForGood => /\ item[i].times <= 1
                                                    /\ item[i].times > 0 => Spent(item[i].status)
  /\ Kind[i] = "PAYMENT" /\ "certified" \in item[i].stamps => item[i].net = "computed"

\* What an open transaction has read and holds: its variation, the contract as it is,
\* and the policy, which all transitions lock.
VariationTxOK(x) ==
  /\ x.variation \in Record /\ Kind[x.variation] = "VARIATION" /\ Has(item, x.variation)
  /\ x.rule \in Rules["VARIATION"] /\ x.rule.from = item[x.variation].status
  /\ x.rule.milestone = "approved" => item[x.variation].value # Unset
  /\ x.contract = item[ContractOf[x.variation]]
  /\ "policy" \in x.locks

AgreedInv ==
  /\ DOMAIN item = Record /\ \A i \in Record : item[i] \in CommercialRowOf(i) \cup {Absent}
  /\ approval \subseteq CommercialApprovalRow
  /\ \A i \in Record : Has(item, i) => Agreed(i)
  /\ \A x \in tx : VariationTxOK(x)
  /\ \A x, y \in tx : x = y

LEMMA SpentStays ==
  ASSUME ApprovedForGood, NEW t \in Rules["VARIATION"], Spent(t.from)
  PROVE  t.milestone # "approved" /\ Spent(t.to)
<1>1. PICK a \in Rules["VARIATION"] : a.milestone = "approved" /\
        \/ t.from = a.to
        \/ \E u \in Rules["VARIATION"] : u.from = a.to /\ t.from = u.to
  BY DEF Spent
<1>2. t.from = a.to
  BY <1>1 DEF ApprovedForGood
<1>3. QED BY <1>1, <1>2 DEF ApprovedForGood, Spent

-----------------------------------------------------------------------------
(* Sums of variations.                                                     *)

\* Adding up what variations add is adding up a function.
LEMMA VariedIsSum ==
  ASSUME IsFiniteSet(Record), NEW table, NEW c
  PROVE  Varied(table, c) = SumFunctionOnSet(Value(table), VariationsOf(c))
<1> DEFINE S == VariationsOf(c)
           Folded(g) == g = [s \in SUBSET S |-> IF s = {} THEN 0 ELSE Added(table, Pick(s)) + g[s \ {Pick(s)}]]
<1>1. Varied(table, c) = (CHOOSE g : Folded(g))[S]
  BY DEF Varied, MapThenSumSet, MapThenFoldSet, Pick
<1>2. S \subseteq Record /\ IsFiniteSet(S)
  <2>1. S \subseteq Record
    BY DEF VariationsOf
  <2>2. QED BY <2>1, FS_Subset
<1> HIDE DEF S
<1>3. \A s \in SUBSET S : s # {} => Value(table)[Pick(s)] = Added(table, Pick(s))
  BY <1>2, PickIn DEF Value
<1>4. \A g : Sums(Value(table), S, g) => Folded(g)
  <2> SUFFICES ASSUME NEW g, Sums(Value(table), S, g) PROVE Folded(g)
    OBVIOUS
  <2> DEFINE F == [s \in SUBSET S |-> IF s = {} THEN 0 ELSE Value(table)[Pick(s)] + g[s \ {Pick(s)}]]
             G == [s \in SUBSET S |-> IF s = {} THEN 0 ELSE Added(table, Pick(s)) + g[s \ {Pick(s)}]]
  <2>1. F = G
    BY <1>3
  <2>2. g = F
    BY DEF Sums
  <2>3. QED BY <2>1, <2>2
<1>5. \A g : Folded(g) => Sums(Value(table), S, g)
  <2> SUFFICES ASSUME NEW g, Folded(g) PROVE Sums(Value(table), S, g)
    OBVIOUS
  <2> DEFINE F == [s \in SUBSET S |-> IF s = {} THEN 0 ELSE Value(table)[Pick(s)] + g[s \ {Pick(s)}]]
             G == [s \in SUBSET S |-> IF s = {} THEN 0 ELSE Added(table, Pick(s)) + g[s \ {Pick(s)}]]
  <2>1. F = G
    BY <1>3
  <2>2. g = G
    OBVIOUS
  <2>3. g = F
    BY <2>1, <2>2
  <2>4. QED BY <2>3 DEF Sums
<1>6. \E g : Folded(g)
  BY <1>2, <1>4, SumsExist
<1> DEFINE h == CHOOSE g : Folded(g)
<1>7. Folded(h)
  <2> HIDE DEF Folded
  <2>1. QED BY <1>6
<1>8. Sums(Value(table), S, h)
  BY <1>5, <1>7
<1>9. S \in SUBSET S
  OBVIOUS
<1> HIDE DEF h, Folded
<1>10. h[S] = SumFunctionOnSet(Value(table), S)
  BY <1>2, <1>8, <1>9, SumOfSubset
<1>11. QED BY <1>1, <1>10 DEF h, S

LEMMA VariationsAreFinite ==
  ASSUME IsFiniteSet(Record), NEW c
  PROVE  VariationsOf(c) \subseteq Record /\ IsFiniteSet(VariationsOf(c))
<1>1. VariationsOf(c) \subseteq Record
  BY DEF VariationsOf
<1>2. QED BY <1>1, FS_Subset

\* A table in which every variation added the same has the same sum.
LEMMA VariedSame ==
  ASSUME IsFiniteSet(Record), NEW table, NEW other, NEW c,
         \A v \in VariationsOf(c) : Added(other, v) = Added(table, v)
  PROVE  Varied(other, c) = Varied(table, c)
<1>1. \A v \in VariationsOf(c) : Value(other)[v] = Value(table)[v]
  BY VariationsAreFinite DEF Value
<1>2. SumFunctionOnSet(Value(other), VariationsOf(c)) = SumFunctionOnSet(Value(table), VariationsOf(c))
  BY <1>1, VariationsAreFinite, SumSame
<1>3. QED BY <1>2, VariedIsSum

\* What one variation adds is added to the sum.
LEMMA VariedMore ==
  ASSUME IsFiniteSet(Record), NEW table, NEW other, NEW c, NEW z \in VariationsOf(c), NEW n \in Int,
         \A v \in VariationsOf(c) : Added(table, v) \in Int,
         \A v \in VariationsOf(c) \ {z} : Added(other, v) = Added(table, v),
         Added(other, z) = Added(table, z) + n
  PROVE  Varied(other, c) = Varied(table, c) + n
<1> DEFINE S == VariationsOf(c)
           f == Value(table)
           g == Value(other)
<1>1. IsFiniteSet(S) /\ IsFiniteSet(S \ {z}) /\ z \in S /\ S \subseteq Record
  BY VariationsAreFinite, FS_Subset
<1>2. /\ \A v \in S : f[v] \in Int /\ g[v] \in Int
      /\ \A v \in S \ {z} : g[v] = f[v]
      /\ g[z] = f[z] + n
  BY <1>1 DEF Value
<1>3. Varied(other, c) = SumFunctionOnSet(g, S) /\ Varied(table, c) = SumFunctionOnSet(f, S)
  BY VariedIsSum
<1> HIDE DEF S, f, g
<1>4. /\ SumFunctionOnSet(f, S) = f[z] + SumFunctionOnSet(f, S \ {z})
      /\ SumFunctionOnSet(g, S) = g[z] + SumFunctionOnSet(g, S \ {z})
  BY <1>1, <1>2, SumRemove
<1>5. SumFunctionOnSet(g, S \ {z}) = SumFunctionOnSet(f, S \ {z})
  BY <1>1, <1>2, SumSame
<1>6. SumFunctionOnSet(f, S \ {z}) \in Int /\ f[z] \in Int
  BY <1>1, <1>2, SumTyped
<1>7. QED BY <1>2, <1>3, <1>4, <1>5, <1>6

\* A sum of zeros is 0.
LEMMA SumOfZeros ==
  ASSUME NEW f, NEW S, IsFiniteSet(S), \A x \in S : f[x] = 0
  PROVE  SumFunctionOnSet(f, S) = 0
<1> DEFINE F == {T \in SUBSET S : SumFunctionOnSet(f, T) # 0}
<1> SUFFICES ASSUME F # {} PROVE FALSE
  <2>1. S \in SUBSET S
    OBVIOUS
  <2>2. QED BY <2>1
<1>1. F \in SUBSET (SUBSET S) /\ F # {}
  OBVIOUS
<1>2. PICK T \in F : \A U \in F : U \subseteq T => U = T
  <2> HIDE DEF F
  <2>1. QED BY <1>1, MinimalSubset
<1>3. T \in SUBSET S /\ SumFunctionOnSet(f, T) # 0
  OBVIOUS
<1>4. T # {}
  BY <1>3, SumEmpty
<1>5. IsFiniteSet(T) /\ Pick(T) \in T
  BY <1>3, <1>4, FS_Subset, PickIn
<1> DEFINE U == T \ {Pick(T)}
<1>6. SumFunctionOnSet(f, T) = f[Pick(T)] + SumFunctionOnSet(f, U)
  BY <1>4, <1>5, SumUnfold
<1>7. SumFunctionOnSet(f, U) = 0
  BY <1>2, <1>3, <1>5
<1>8. f[Pick(T)] = 0
  BY <1>3, <1>5
<1>9. QED BY <1>3, <1>6, <1>7, <1>8

LEMMA NothingVaried ==
  ASSUME IsFiniteSet(Record), NEW table, NEW c, \A v \in VariationsOf(c) : Added(table, v) = 0
  PROVE  Varied(table, c) = 0
<1>1. \A v \in VariationsOf(c) : Value(table)[v] = 0
  BY VariationsAreFinite DEF Value
<1>2. SumFunctionOnSet(Value(table), VariationsOf(c)) = 0
  BY <1>1, VariationsAreFinite, SumOfZeros
<1>3. QED BY <1>2, VariedIsSum

\* Arithmetic of an approval more, and of none.
LEMMA OnceMore == \A a, b \in Int : (a + 1) * b = a * b + b /\ a * b \in Int /\ 0 * b = 0
OBVIOUS

LEMMA CommercialRowsOfKind ==
  ASSUME NEW i
  PROVE  /\ Kind[i] = "CONTRACT" => CommercialRowOf(i) = ContractRow
         /\ Kind[i] = "VARIATION" => CommercialRowOf(i) = VariationRow
         /\ Kind[i] = "PAYMENT" => CommercialRowOf(i) = CommercialPaymentRow
         /\ Kind[i] \in {"MILESTONE", "CLAIM", "EOT"} => CommercialRowOf(i) = CommercialRow(Kind[i])
         /\ Kind[i] = "RISK" => CommercialRowOf(i) = CommercialRiskRow
BY DEF CommercialRowOf, MilestoneRow, ClaimRow, EotRow

LEMMA VariationFigures ==
  ASSUME CommercialAssumption, NEW row \in VariationRow
  PROVE  row.times \in Nat /\ row.value \in Int
<1>1. row.times \in Nat /\ row.value \in Values \cup {Unset}
  BY DEF VariationRow
<1>2. \A n \in Values : n \in Int
  BY DEF CommercialAssumption
<1>3. Unset \in Int
  BY DEF Unset
<1>4. QED BY <1>1, <1>2, <1>3, Zenon

LEMMA AddedTyped ==
  ASSUME CommercialAssumption, AgreedInv, NEW c, NEW v \in VariationsOf(c)
  PROVE  Added(item, v) \in Int
<1>1. CASE Has(item, v)
  <2>1. item[v] \in VariationRow
    BY <1>1, CommercialRowsOfKind DEF VariationsOf, AgreedInv, Has, Absent
  <2>2. item[v].times \in Int /\ item[v].value \in Int
    BY <2>1, VariationFigures
  <2>3. Added(item, v) = item[v].times * item[v].value
    BY <1>1 DEF Added
  <2>4. item[v].times * item[v].value \in Int
    BY <2>2, OnceMore, Zenon
  <2>5. QED BY <2>3, <2>4
<1>2. CASE ~Has(item, v)
  BY <1>2 DEF Added
<1>3. QED BY <1>1, <1>2

-----------------------------------------------------------------------------
(* Steps of contracts.                                                     *)

LEMMA CommercialRowIsThere ==
  ASSUME CommercialAssumption, NEW i \in Record, NEW row \in CommercialRowOf(i)
  PROVE  row.status # "ABSENT"
<1>1. Kind[i] \in CommercialKinds
  BY DEF CommercialAssumption
<1>2. \A k \in CommercialKinds : "ABSENT" \notin Status(k)
  BY DEF CommercialAssumption, CommercialPolicy, IsPolicy, Status
<1>3. CASE Kind[i] = "RISK"
  <2>1. row \in CommercialRiskRow
    BY <1>3, CommercialRowsOfKind
  <2>2. QED BY <2>1 DEF CommercialRiskRow
<1>4. CASE Kind[i] # "RISK"
  <2>1. row.status \in Status(Kind[i])
    <3>1. CASE Kind[i] = "CONTRACT"
      <4>1. row \in ContractRow
        BY <3>1, CommercialRowsOfKind
      <4>2. QED BY <3>1, <4>1 DEF ContractRow
    <3>2. CASE Kind[i] = "VARIATION"
      <4>1. row \in VariationRow
        BY <3>2, CommercialRowsOfKind
      <4>2. QED BY <3>2, <4>1 DEF VariationRow
    <3>3. CASE Kind[i] = "PAYMENT"
      <4>1. row \in CommercialPaymentRow
        BY <3>3, CommercialRowsOfKind
      <4>2. QED BY <3>3, <4>1 DEF CommercialPaymentRow
    <3>4. CASE Kind[i] \in {"MILESTONE", "CLAIM", "EOT"}
      <4>1. row \in CommercialRow(Kind[i])
        BY <3>4, CommercialRowsOfKind
      <4>2. QED BY <4>1 DEF CommercialRow
    <3>5. QED BY <1>1, <1>4, <3>1, <3>2, <3>3, <3>4 DEF CommercialKinds
  <2>2. QED BY <1>1, <1>2, <2>1
<1>5. QED BY <1>3, <1>4

LEMMA NoVariationOpen ==
  ASSUME AgreedInv, NEW rows, Unlocked(tx, rows), "policy" \in rows
  PROVE  tx = {}
BY DEF AgreedInv, VariationTxOK, Unlocked

LEMMA AgreedInitOK == ASSUME CommercialInit PROVE AgreedInv
<1>1. \A i \in Record : ~Has(item, i)
  BY DEF CommercialInit, Has, Absent
<1>2. QED BY <1>1 DEF CommercialInit, AgreedInv

\* One record is written: a new one, or one that no open transaction has read.
CommercialWritten(i, row) ==
  /\ item' = [item EXCEPT ![i] = row] /\ UNCHANGED <<approval, tx>>
  /\ row \in CommercialRowOf(i)
  /\ ~Has(item, i) \/ tx = {}
  /\ Kind[i] = "CONTRACT" /\ Has(item, i) =>
       row.original = item[i].original /\ row.varied = item[i].varied /\ row.current = item[i].current
  /\ Kind[i] = "CONTRACT" /\ ~Has(item, i) => row.varied = 0 /\ row.current = row.original
  /\ Kind[i] = "VARIATION" =>
       ~Has(item, i) /\ row.stamps = {} /\ row.times = 0 /\ row.value \in Int /\ Has(item, ContractOf[i])
  /\ Kind[i] = "PAYMENT" /\ "certified" \in row.stamps => row.net = "computed"

LEMMA CommercialWrittenOK ==
  ASSUME CommercialAssumption, AgreedInv, NEW i \in Record, NEW row, CommercialWritten(i, row)
  PROVE  AgreedInv'
<1>1. /\ DOMAIN item' = Record /\ item'[i] = row /\ Has(item', i)
      /\ \A j \in Record : j # i => item'[j] = item[j]
      /\ approval' = approval /\ tx' = tx
  <2>1. row.status # "ABSENT"
    BY CommercialRowIsThere DEF CommercialWritten
  <2>2. QED BY <2>1 DEF AgreedInv, CommercialWritten, Has
<1>2. \A j \in Record : Has(item, j) => Has(item', j)
  BY <1>1 DEF Has
<1>3. \A j \in Record : item'[j] \in CommercialRowOf(j) \cup {Absent}
  BY <1>1 DEF AgreedInv, CommercialWritten
<1>4. \A c : Varied(item', c) = Varied(item, c)
  <2> SUFFICES ASSUME NEW c PROVE Varied(item', c) = Varied(item, c)
    OBVIOUS
  <2>1. \A v \in VariationsOf(c) : Added(item', v) = Added(item, v)
    <3> SUFFICES ASSUME NEW v \in VariationsOf(c) PROVE Added(item', v) = Added(item, v)
      OBVIOUS
    <3>1. v \in Record /\ Kind[v] = "VARIATION"
      BY DEF VariationsOf
    <3>2. CASE v # i
      BY <1>1, <3>1, <3>2 DEF Added, Has
    <3>3. CASE v = i
      <4>1. ~Has(item, i) /\ item'[i].times = 0 /\ item'[i].value \in Int /\ Has(item', i)
        BY <1>1, <3>1, <3>3 DEF CommercialWritten
      <4>2. item'[i].times * item'[i].value = 0
        BY <4>1, OnceMore
      <4>3. QED BY <3>3, <4>1, <4>2 DEF Added
    <3>4. QED BY <3>2, <3>3
  <2>2. IsFiniteSet(Record)
    BY DEF CommercialAssumption
  <2>3. QED BY <2>1, <2>2, VariedSame
<1>5. ASSUME NEW j \in Record, Has(item', j) PROVE Agreed(j)'
  <2>1. CASE j # i
    <3>1. Has(item, j) /\ item'[j] = item[j]
      BY <1>1, <1>5, <2>1 DEF Has
    <3>2. Agreed(j)
      BY <3>1 DEF AgreedInv
    <3>3. Kind[j] = "VARIATION" => Has(item', ContractOf[j])
      BY <1>2, <3>2 DEF Agreed, CommercialAssumption
    <3>4. QED BY <1>4, <3>1, <3>2, <3>3 DEF Agreed
  <2>2. CASE j = i
    <3>1. Kind[i] = "CONTRACT" => row.current = row.original + row.varied /\ row.varied = Varied(item', i)
      <4>1. CASE Has(item, i)
        BY <1>4, <4>1 DEF AgreedInv, Agreed, CommercialWritten
      <4>2. CASE ~Has(item, i) /\ Kind[i] = "CONTRACT"
        <5>1. \A v \in VariationsOf(i) : Added(item, v) = 0
          BY <4>2 DEF AgreedInv, Agreed, VariationsOf, Added
        <5>2. Varied(item, i) = 0
          BY <5>1, NothingVaried DEF CommercialAssumption
        <5>3. row \in ContractRow
          BY <4>2, CommercialRowsOfKind DEF CommercialWritten
        <5>4. row.original \in Nat
          BY <5>3 DEF ContractRow, CommercialAssumption
        <5>5. row.varied = 0 /\ row.current = row.original
          BY <4>2 DEF CommercialWritten
        <5>6. row.original + 0 = row.original
          BY <5>4
        <5>7. Varied(item', i) = 0
          BY <1>4, <5>2
        <5>8. QED BY <5>5, <5>6, <5>7
      <4>3. QED BY <4>1, <4>2
    <3>2. Kind[i] = "VARIATION" => Has(item', ContractOf[i]) /\ row.stamps = {} /\ row.times = 0
      BY <1>2 DEF CommercialWritten, CommercialAssumption
    <3>3. QED BY <1>1, <2>2, <3>1, <3>2 DEF Agreed, CommercialWritten
  <2>3. QED BY <2>1, <2>2
<1>6. ASSUME NEW x \in tx PROVE VariationTxOK(x)'
  <2>1. VariationTxOK(x)
    BY DEF AgreedInv
  <2>2. /\ x.variation \in Record /\ Has(item, x.variation)
        /\ ContractOf[x.variation] \in Record /\ Has(item, ContractOf[x.variation])
    BY <2>1 DEF VariationTxOK, AgreedInv, Agreed, CommercialAssumption
  <2>3. i # x.variation /\ i # ContractOf[x.variation]
    BY <2>2 DEF CommercialWritten
  <2>4. item'[x.variation] = item[x.variation] /\ item'[ContractOf[x.variation]] = item[ContractOf[x.variation]]
    BY <1>1, <2>2, <2>3
  <2>5. QED BY <2>1, <2>4 DEF VariationTxOK, Has
<1>7. QED BY <1>1, <1>3, <1>5, <1>6 DEF AgreedInv, CommercialApprovalRow, CommercialRowOf, ContractRow, MilestoneRow,
        VariationRow, CommercialPaymentRow, ClaimRow, EotRow, CommercialRow, CommercialRiskRow, Stamps, Status

LEMMA CommercialCreations ==
  ASSUME CommercialAssumption, AgreedInv, NEW i \in Record,
         \/ CreateContract(i) \/ CreateMilestone(i) \/ CreateVariation(i) \/ CreateCommercialPayment(i)
         \/ CreateClaim(i) \/ CreateEot(i) \/ CommercialCreateRisk(i)
  PROVE  AgreedInv'
<1>1. ASSUME NEW k \in {"MILESTONE", "CLAIM", "EOT"}, CommercialCreated(k, i, Fresh(k)) PROVE AgreedInv'
  <2>1. Fresh(k) \in CommercialRow(k)
    BY DEF Fresh, CommercialRow, Status, Stamps
  <2>2. CommercialWritten(i, Fresh(k))
    BY <1>1, <2>1, CommercialRowsOfKind DEF CommercialCreated, CommercialWritten
  <2>3. QED BY <2>2, CommercialWrittenOK
<1>2. CASE CreateContract(i)
  <2>1. PICK v \in Values : CommercialCreated("CONTRACT", i,
          [status |-> Initial["CONTRACT"], stamps |-> {}, original |-> v, varied |-> 0, current |-> v])
    BY <1>2 DEF CreateContract
  <2> DEFINE row == [status |-> Initial["CONTRACT"], stamps |-> {}, original |-> v, varied |-> 0, current |-> v]
  <2>2. row \in ContractRow /\ row.varied = 0 /\ row.current = row.original
    BY DEF ContractRow, Status, Stamps, CommercialAssumption
  <2>3. CommercialCreated("CONTRACT", i, row)
    BY <2>1
  <2> HIDE DEF row
  <2>4. CommercialWritten(i, row)
    BY <2>2, <2>3, CommercialRowsOfKind DEF CommercialCreated, CommercialWritten
  <2>5. QED BY <2>4, CommercialWrittenOK
<1>3. CASE CreateVariation(i)
  <2>1. PICK v \in Values \cup {Unset} : CommercialCreated("VARIATION", i,
          [status |-> Initial["VARIATION"], stamps |-> {}, value |-> v, times |-> 0])
    BY <1>3 DEF CreateVariation
  <2> DEFINE row == [status |-> Initial["VARIATION"], stamps |-> {}, value |-> v, times |-> 0]
  <2>2. row \in VariationRow /\ row.stamps = {} /\ row.times = 0 /\ row.value \in Int
    BY DEF VariationRow, Status, Stamps, Unset, CommercialAssumption
  <2>3. CommercialCreated("VARIATION", i, row)
    BY <2>1
  <2> HIDE DEF row
  <2>4. CommercialWritten(i, row)
    BY <2>2, <2>3, CommercialRowsOfKind DEF CommercialCreated, CommercialWritten
  <2>5. QED BY <2>4, CommercialWrittenOK
<1>4. CASE CreateCommercialPayment(i)
  <2>1. PICK certified \in BOOLEAN, net \in {"given", "computed", "unset"} :
          CommercialCreated("PAYMENT", i, [status |-> Initial["PAYMENT"], stamps |-> {},
                                           certified |-> certified, net |-> net])
    BY <1>4 DEF CreateCommercialPayment
  <2> DEFINE row == [status |-> Initial["PAYMENT"], stamps |-> {}, certified |-> certified, net |-> net]
  <2>2. row \in CommercialPaymentRow /\ row.stamps = {}
    BY DEF CommercialPaymentRow, Status, Stamps
  <2>3. CommercialCreated("PAYMENT", i, row)
    BY <2>1
  <2> HIDE DEF row
  <2>4. CommercialWritten(i, row)
    BY <2>2, <2>3, CommercialRowsOfKind DEF CommercialCreated, CommercialWritten
  <2>5. QED BY <2>4, CommercialWrittenOK
<1>5. CASE CommercialCreateRisk(i)
  <2> DEFINE row == [status |-> "OPEN", stamps |-> {}]
  <2>1. row \in CommercialRiskRow
    BY DEF CommercialRiskRow
  <2>2. CommercialCreated("RISK", i, row)
    BY <1>5 DEF CommercialCreateRisk
  <2> HIDE DEF row
  <2>3. CommercialWritten(i, row)
    BY <2>1, <2>2, CommercialRowsOfKind DEF CommercialCreated, CommercialWritten
  <2>4. QED BY <2>3, CommercialWrittenOK
<1>6. QED BY <1>1, <1>2, <1>3, <1>4, <1>5 DEF CreateMilestone, CreateClaim, CreateEot

\* What a transition of record i finds.
LEMMA CommercialRuleApplies ==
  ASSUME AgreedInv, NEW i \in Record, NEW t \in CommercialApplicable(i)
  PROVE  /\ Has(item, i) /\ t \in Rules[Kind[i]] /\ t.from = item[i].status
         /\ item[i] \in CommercialRowOf(i) /\ Agreed(i)
         /\ Stepped(item, i, t) = [item EXCEPT ![i] = RowAfter(item[i], t)]
<1>1. Has(item, i) /\ t \in Rules[Kind[i]] /\ t.from = item[i].status
  BY DEF CommercialApplicable, Allowed
<1>2. item[i] \in CommercialRowOf(i) /\ Agreed(i) /\ i \in DOMAIN item
  BY <1>1 DEF AgreedInv, Has, Absent
<1>3. QED BY <1>1, <1>2, SteppedIsRowAfter

LEMMA PlainTransitioned ==
  ASSUME CommercialAssumption, AgreedInv, NEW i \in Record, TransitionPlain(i)
  PROVE  AgreedInv'
<1>1. PICK t \in CommercialApplicable(i) : item' = Stepped(item, i, t)
  BY DEF TransitionPlain
<1> DEFINE row == RowAfter(item[i], t)
<1>2. /\ Kind[i] \in {"CONTRACT", "MILESTONE", "CLAIM", "EOT"} /\ tx = {} /\ UNCHANGED <<approval, tx>>
      /\ Has(item, i) /\ t \in Rules[Kind[i]] /\ item[i] \in CommercialRowOf(i)
      /\ item' = [item EXCEPT ![i] = row]
  BY <1>1, CommercialRuleApplies, NoVariationOpen DEF TransitionPlain
<1>3. CASE Kind[i] = "CONTRACT"
  <2>1. item[i] \in ContractRow
    BY <1>2, <1>3, CommercialRowsOfKind
  <2>2. /\ row \in ContractRow
        /\ row.original = item[i].original /\ row.varied = item[i].varied /\ row.current = item[i].current
    BY <1>2, <1>3, <2>1 DEF RowAfter, ContractRow, Status, Stamps
  <2> HIDE DEF row
  <2>3. CommercialWritten(i, row)
    BY <1>2, <1>3, <2>2, CommercialRowsOfKind DEF CommercialWritten
  <2>4. QED BY <2>3, CommercialWrittenOK
<1>4. CASE Kind[i] # "CONTRACT"
  <2>1. item[i] \in CommercialRow(Kind[i])
    BY <1>2, <1>4, CommercialRowsOfKind
  <2>2. row \in CommercialRow(Kind[i])
    BY <1>2, <2>1 DEF RowAfter, CommercialRow, Status, Stamps
  <2> HIDE DEF row
  <2>3. CommercialWritten(i, row)
    BY <1>2, <1>4, <2>2, CommercialRowsOfKind DEF CommercialWritten
  <2>4. QED BY <2>3, CommercialWrittenOK
<1>5. QED BY <1>3, <1>4

LEMMA PaymentTransitioned ==
  ASSUME CommercialAssumption, AgreedInv, NEW i \in Record, TransitionPayment(i)
  PROVE  AgreedInv'
<1>1. PICK t \in CommercialApplicable(i) :
        item' = [Stepped(item, i, t) EXCEPT
          ![i].net = IF t.milestone = "certified" THEN NetCertified(i) ELSE @]
  BY DEF TransitionPayment
<1> DEFINE next == RowAfter(item[i], t)
           net == IF t.milestone = "certified" THEN "computed" ELSE next.net
           row == [next EXCEPT !.net = net]
<1>2. /\ Kind[i] = "PAYMENT" /\ tx = {} /\ UNCHANGED <<approval, tx>>
      /\ Has(item, i) /\ t \in Rules["PAYMENT"] /\ item[i] \in CommercialPaymentRow
      /\ "certified" \in item[i].stamps => item[i].net = "computed"
      /\ Stepped(item, i, t) = [item EXCEPT ![i] = next]
  BY <1>1, CommercialRuleApplies, CommercialRowsOfKind, NoVariationOpen DEF TransitionPayment, Agreed
<1>3. /\ next \in CommercialPaymentRow /\ next.net = item[i].net
      /\ next.stamps = item[i].stamps \cup ({t.milestone} \ {"none"})
  BY <1>2 DEF RowAfter, CommercialPaymentRow, Status, Stamps
<1>4. item' = [item EXCEPT ![i] = row]
  <2>1. item' = [[item EXCEPT ![i] = next] EXCEPT
           ![i].net = IF t.milestone = "certified" THEN "computed" ELSE @]
    BY <1>1, <1>2 DEF NetCertified
  <2> HIDE DEF next
  <2>2. QED BY <2>1 DEF AgreedInv
<1> HIDE DEF next
<1>5. /\ row \in CommercialPaymentRow /\ row.stamps = next.stamps /\ row.net = net
  BY <1>3 DEF CommercialPaymentRow
<1>6. "certified" \in row.stamps => row.net = "computed"
  BY <1>2, <1>3, <1>5
<1> HIDE DEF row
<1>7. CommercialWritten(i, row)
  BY <1>2, <1>4, <1>5, <1>6, CommercialRowsOfKind DEF CommercialWritten
<1>8. QED BY <1>7, CommercialWrittenOK

LEMMA CommercialRiskResolved ==
  ASSUME CommercialAssumption, AgreedInv, NEW i \in Record, CommercialResolveRisk(i)
  PROVE  AgreedInv'
<1> DEFINE row == [item[i] EXCEPT !.status = "RESOLVED"]
<1>1. /\ Kind[i] = "RISK" /\ item[i].status = "OPEN" /\ tx = {}
      /\ item' = [item EXCEPT ![i] = row] /\ UNCHANGED <<approval, tx>>
  BY NoVariationOpen DEF CommercialResolveRisk, In, Moved
<1>2. item[i] \in CommercialRiskRow
  BY <1>1, CommercialRowsOfKind DEF AgreedInv, Absent
<1>3. row \in CommercialRiskRow
  BY <1>2 DEF CommercialRiskRow
<1> HIDE DEF row
<1>4. CommercialWritten(i, row)
  BY <1>1, <1>3, CommercialRowsOfKind DEF CommercialWritten
<1>5. QED BY <1>4, CommercialWrittenOK

\* The records as they were, whatever else is asked for, decided, begun or ended.
LEMMA RecordsUntouched ==
  ASSUME AgreedInv, UNCHANGED item, approval' \subseteq CommercialApprovalRow,
         \A x \in tx' : VariationTxOK(x), \A x, y \in tx' : x = y
  PROVE  AgreedInv'
<1>1. \A c : Varied(item', c) = Varied(item, c)
  OBVIOUS
<1>2. \A i \in Record : Agreed(i) => Agreed(i)'
  BY <1>1 DEF Agreed, Has
<1>3. \A i \in Record : Has(item', i) => Agreed(i)'
  BY <1>2 DEF AgreedInv, Has
<1>4. \A x \in tx' : VariationTxOK(x)'
  BY DEF VariationTxOK, Has
<1>5. QED BY <1>3, <1>4 DEF AgreedInv, CommercialApprovalRow, CommercialRowOf, ContractRow, MilestoneRow,
        VariationRow, CommercialPaymentRow, ClaimRow, EotRow, CommercialRow, CommercialRiskRow, Stamps, Status

LEMMA VariationOpened ==
  ASSUME CommercialAssumption, AgreedInv, NEW i \in Record, CheckVariation(i)
  PROVE  AgreedInv' /\ tx = {} /\ \E x : tx' = {x}
<1>1. tx = {} /\ Kind[i] = "VARIATION" /\ UNCHANGED <<item, approval>>
  BY NoVariationOpen DEF CheckVariation, LocksOfVariation
<1>2. PICK t \in CommercialApplicable(i) :
        /\ t.milestone = "approved" => item[i].value # Unset /\ item[i].times < MaxApprovals
        /\ tx' = tx \cup {[variation |-> i, rule |-> t, contract |-> item[ContractOf[i]],
                           locks |-> LocksOfVariation(i)]}
  BY DEF CheckVariation
<1> DEFINE x == [variation |-> i, rule |-> t, contract |-> item[ContractOf[i]], locks |-> LocksOfVariation(i)]
<1>3. VariationTxOK(x)
  BY <1>1, <1>2, CommercialRuleApplies DEF VariationTxOK, LocksOfVariation
<1>4. tx' = {x}
  BY <1>1, <1>2
<1> HIDE DEF x
<1>5. approval' \subseteq CommercialApprovalRow
  BY <1>1 DEF AgreedInv
<1>6. QED BY <1>1, <1>3, <1>4, <1>5, RecordsUntouched

\* The variation is stamped; each time it is approved its contract gains its value and
\* is otherwise as it is.  Where the policy approves for good there is one such time.
LEMMA VariationCommitted ==
  ASSUME CommercialAssumption, AgreedInv, NEW x \in tx, CommitVariation(x)
  PROVE  AgreedInv' /\ tx' = {}
<1> DEFINE v == x.variation
           c == ContractOf[v]
           approved == x.rule.milestone = "approved"
           stamped == RowAfter(item[v], x.rule)
           next == IF approved THEN [stamped EXCEPT !.times = item[v].times + 1] ELSE stamped
           varied == item[c].varied + item[v].value
           row == IF approved THEN [item[c] EXCEPT !.varied = varied, !.current = item[c].original + varied]
                  ELSE item[c]
<1>1. /\ v \in Record /\ Kind[v] = "VARIATION" /\ Has(item, v)
      /\ x.rule \in Rules["VARIATION"] /\ x.rule.from = item[v].status
      /\ approved => item[v].value # Unset
      /\ x.contract = item[c]
  BY DEF AgreedInv, VariationTxOK
<1>2. tx' = {} /\ approval' = approval
  BY DEF CommitVariation, AgreedInv
<1>3. c \in Record /\ Kind[c] = "CONTRACT" /\ Has(item, c) /\ v # c
  BY <1>1 DEF CommercialAssumption, AgreedInv, Agreed
<1>4. item[v] \in VariationRow /\ item[c] \in ContractRow /\ Agreed(v) /\ Agreed(c)
  BY <1>1, <1>3, CommercialRowsOfKind DEF AgreedInv, Has, Absent
<1>5. /\ next \in VariationRow /\ next.value = item[v].value /\ next.status = x.rule.to
      /\ next.stamps = item[v].stamps \cup ({x.rule.milestone} \ {"none"})
      /\ next.times = IF approved THEN item[v].times + 1 ELSE item[v].times
  <2>1. /\ stamped \in VariationRow /\ stamped.value = item[v].value /\ stamped.status = x.rule.to
        /\ stamped.stamps = item[v].stamps \cup ({x.rule.milestone} \ {"none"}) /\ stamped.times = item[v].times
    BY <1>1, <1>4 DEF RowAfter, VariationRow, Status, Stamps
  <2>2. item[v].times + 1 \in Nat
    BY <1>4 DEF VariationRow
  <2> HIDE DEF stamped
  <2>3. QED BY <2>1, <2>2 DEF VariationRow
<1>6. approved => item[v].value \in Nat
  BY <1>1, <1>4 DEF VariationRow, CommercialAssumption
<1>7. item[c].varied \in Nat /\ item[c].original \in Nat
  BY <1>4 DEF ContractRow, CommercialAssumption
<1>8. /\ row \in ContractRow /\ row.original = item[c].original
      /\ approved => row.varied = item[c].varied + item[v].value /\ row.current = row.original + row.varied
      /\ ~approved => row = item[c]
  <2>1. CASE approved
    <3>1. varied \in Nat /\ item[c].original + varied \in Nat
      BY <1>6, <1>7, <2>1
    <3> HIDE DEF varied
    <3>2. row \in ContractRow /\ row.original = item[c].original /\ row.varied = varied
          /\ row.current = item[c].original + varied
      BY <1>4, <2>1, <3>1 DEF ContractRow
    <3>3. QED BY <2>1, <3>2 DEF varied
  <2>2. CASE ~approved
    BY <1>4, <2>2
  <2>3. QED BY <2>1, <2>2
<1>9. /\ DOMAIN item' = Record /\ item'[v] = next /\ item'[c] = row
      /\ \A j \in Record \ {v, c} : item'[j] = item[j]
  <2>1. Stepped(item, v, x.rule) = [item EXCEPT ![v] = stamped]
    BY <1>1, SteppedIsRowAfter DEF AgreedInv
  <2>2. item' = IF approved
                THEN [[item EXCEPT ![v] = stamped] EXCEPT ![v].times = @ + 1, ![c] =
                       [item[c] EXCEPT !.varied = varied, !.current = item[c].original + varied]]
                ELSE [item EXCEPT ![v] = stamped]
    BY <1>1, <2>1 DEF CommitVariation
  <2>3. stamped.times = item[v].times
    BY <1>4 DEF RowAfter, VariationRow
  <2>4. DOMAIN item = Record
    BY DEF AgreedInv
  <2> HIDE DEF stamped, varied
  <2>5. CASE approved
    BY <1>1, <1>3, <2>2, <2>3, <2>4, <2>5
  <2>6. CASE ~approved
    BY <1>1, <1>3, <2>2, <2>4, <2>6
  <2>7. QED BY <2>5, <2>6
<1> HIDE DEF next, row, varied, approved, stamped
<1>10. next \in CommercialRowOf(v) /\ row \in CommercialRowOf(c) /\ next.status # "ABSENT" /\ row.status # "ABSENT"
  BY <1>1, <1>3, <1>5, <1>8, CommercialRowsOfKind, CommercialRowIsThere
<1>11. \A j \in Record : item'[j] \in CommercialRowOf(j) \cup {Absent}
  BY <1>9, <1>10 DEF AgreedInv
<1>12. \A j \in Record : Has(item', j) <=> Has(item, j)
  BY <1>1, <1>3, <1>9, <1>10 DEF Has
<1>13. item[v].times \in Nat /\ item[v].value \in Int
  BY <1>4, VariationFigures
<1>14. \A j \in Record : Kind[j] = "VARIATION" /\ j # v => Added(item', j) = Added(item, j)
  BY <1>3, <1>9, <1>12 DEF Added
<1>15. Added(item', v) = Added(item, v) + (IF approved THEN item[v].value ELSE 0)
  <2>1. Added(item, v) = item[v].times * item[v].value /\ Added(item', v) = next.times * item[v].value
    BY <1>1, <1>5, <1>9, <1>12 DEF Added
  <2>2. item[v].times \in Int
    BY <1>13
  <2>3. (item[v].times + 1) * item[v].value = item[v].times * item[v].value + item[v].value
    BY <1>13, <2>2, OnceMore, Zenon
  <2>4. item[v].times * item[v].value \in Int
    BY <1>13, <2>2, OnceMore, Zenon
  <2>5. CASE approved
    <3>1. Added(item', v) = (item[v].times + 1) * item[v].value
      BY <1>5, <2>1, <2>5, Zenon
    <3>2. QED BY <2>1, <2>3, <2>5, <3>1, Zenon
  <2>6. CASE ~approved
    <3>1. Added(item', v) = Added(item, v)
      BY <1>5, <2>1, <2>6, Zenon
    <3>2. Added(item, v) \in Int
      BY <2>1, <2>4, Zenon
    <3>3. QED BY <2>6, <3>1, <3>2
  <2>7. QED BY <2>5, <2>6
<1>16. "approved" \in next.stamps <=> approved \/ "approved" \in item[v].stamps
  BY <1>5 DEF approved
<1>17. \A k : ~(approved /\ k = c) => Varied(item', k) = Varied(item, k)
  <2> SUFFICES ASSUME NEW k, ~(approved /\ k = c) PROVE Varied(item', k) = Varied(item, k)
    OBVIOUS
  <2>1. Added(item, v) \in Int
    BY <1>1, AddedTyped DEF VariationsOf
  <2>2. \A j \in VariationsOf(k) : Added(item', j) = Added(item, j)
    BY <1>14, <1>15, <2>1 DEF VariationsOf
  <2>3. IsFiniteSet(Record)
    BY DEF CommercialAssumption
  <2>4. QED BY <2>2, <2>3, VariedSame
<1>18. approved => Varied(item', c) = Varied(item, c) + item[v].value
  <2> SUFFICES ASSUME approved PROVE Varied(item', c) = Varied(item, c) + item[v].value
    OBVIOUS
  <2>1. v \in VariationsOf(c) /\ IsFiniteSet(Record)
    BY <1>1 DEF VariationsOf, CommercialAssumption
  <2>2. \A j \in VariationsOf(c) : Added(item, j) \in Int
    BY AddedTyped
  <2>3. \A j \in VariationsOf(c) \ {v} : Added(item', j) = Added(item, j)
    BY <1>14 DEF VariationsOf
  <2>4. Added(item', v) = Added(item, v) + item[v].value
    BY <1>15
  <2>5. QED BY <1>13, <2>1, <2>2, <2>3, <2>4, VariedMore
<1>19. ASSUME NEW j \in Record, Has(item', j) PROVE Agreed(j)'
  <2>1. Agreed(j) /\ Has(item, j)
    BY <1>12, <1>19 DEF AgreedInv
  <2>2. CASE j = c
    <3>1. row.current = row.original + row.varied /\ row.varied = Varied(item', c)
      <4>1. item[c].varied = Varied(item, c) /\ item[c].current = item[c].original + item[c].varied
        BY <1>3, <1>4 DEF Agreed
      <4>2. CASE approved
        BY <1>8, <1>18, <4>1, <4>2
      <4>3. CASE ~approved
        <5>1. Varied(item', c) = Varied(item, c)
          BY <1>17, <4>3
        <5>2. QED BY <1>8, <4>1, <4>3, <5>1
      <4>4. QED BY <4>2, <4>3
    <3>2. QED BY <1>3, <1>9, <2>2, <3>1 DEF Agreed
  <2>3. CASE j = v
    <3>1. Has(item', c)
      BY <1>3, <1>12
    <3>2. "approved" \in next.stamps <=> next.times > 0
      <4>1. "approved" \in item[v].stamps <=> item[v].times > 0
        BY <1>1, <1>4 DEF Agreed
      <4>2. CASE approved
        BY <1>5, <1>13, <1>16, <4>2
      <4>3. CASE ~approved
        BY <1>5, <1>16, <4>1, <4>3
      <4>4. QED BY <4>2, <4>3
    <3>3. ASSUME ApprovedForGood PROVE next.times <= 1 /\ (next.times > 0 => Spent(next.status))
      <4>1. item[v].times <= 1 /\ (item[v].times > 0 => Spent(item[v].status))
        BY <1>1, <1>4, <3>3 DEF Agreed
      <4>2. item[v].times > 0 => ~approved /\ Spent(next.status)
        BY <1>1, <1>5, <3>3, <4>1, SpentStays DEF approved
      <4>3. approved => Spent(next.status)
        BY <1>1, <1>5 DEF Spent, approved
      <4>4. CASE approved
        BY <1>5, <1>13, <4>2, <4>3, <4>4
      <4>5. CASE ~approved
        BY <1>5, <1>13, <4>1, <4>2, <4>5
      <4>6. QED BY <4>4, <4>5
    <3>4. QED BY <1>1, <1>9, <2>3, <3>1, <3>2, <3>3 DEF Agreed, ApprovedForGood
  <2>4. CASE j \notin {c, v}
    <3>1. item'[j] = item[j]
      BY <1>9, <2>4
    <3>2. Kind[j] = "CONTRACT" => Varied(item', j) = Varied(item, j)
      BY <1>17, <2>4
    <3>3. Kind[j] = "VARIATION" => Has(item', ContractOf[j])
      BY <1>12, <2>1 DEF Agreed, CommercialAssumption
    <3>4. QED BY <2>1, <3>1, <3>2, <3>3 DEF Agreed
  <2>5. QED BY <2>2, <2>3, <2>4
<1>20. AgreedInv'
  BY <1>2, <1>9, <1>11, <1>19 DEF AgreedInv, CommercialApprovalRow, CommercialRowOf, ContractRow, MilestoneRow,
    VariationRow, CommercialPaymentRow, ClaimRow, EotRow, CommercialRow, CommercialRiskRow, Stamps, Status
<1>21. QED BY <1>2, <1>20

LEMMA RecordsReviewed ==
  ASSUME AgreedInv,
         \/ \E i \in Record, s \in Step, m \in Member, from \in Member \cup {Nobody} : CommercialRequestApproval(i, s, m, from)
         \/ \E x \in approval, m \in Member : CommercialDecideApproval(x, m)
  PROVE  AgreedInv' /\ tx' = tx
<1>1. /\ UNCHANGED <<item, tx>> /\ \A x \in tx : VariationTxOK(x)
      /\ \A x, y \in tx : x = y
  BY DEF AgreedInv, CommercialRequestApproval, CommercialDecideApproval
<1>2. approval' \subseteq CommercialApprovalRow
  <2>1. CASE \E i \in Record, s \in Step, m \in Member, from \in Member \cup {Nobody} : CommercialRequestApproval(i, s, m, from)
    BY <2>1 DEF CommercialRequestApproval, Requested, CommercialApprovalRow, ApprovalRow, AgreedInv
  <2>2. CASE \E x \in approval, m \in Member : CommercialDecideApproval(x, m)
    <3>1. PICK x \in approval, m \in Member, verdict \in Verdicts : approval' = Decided(approval, x, verdict, m)
      BY <2>2 DEF CommercialDecideApproval
    <3>2. [x EXCEPT !.status = verdict, !.decider = m] \in CommercialApprovalRow
      BY DEF AgreedInv, CommercialApprovalRow, ApprovalRow
    <3>3. QED BY <3>1, <3>2 DEF Decided, AgreedInv
  <2>3. QED BY <2>1, <2>2
<1>3. QED BY <1>1, <1>2, RecordsUntouched

LEMMA CommercialStepOK ==
  ASSUME CommercialAssumption, AgreedInv, Cardinality(tx) <= MaxOpen, [CommercialNext]_commercialVars
  PROVE  AgreedInv' /\ Cardinality(tx') <= MaxOpen
<1>1. CASE UNCHANGED commercialVars
  <2>1. /\ UNCHANGED <<item, approval, tx>> /\ approval' \subseteq CommercialApprovalRow
        /\ \A x \in tx' : VariationTxOK(x)
        /\ \A x, y \in tx' : x = y
    BY <1>1 DEF commercialVars, AgreedInv
  <2>2. QED BY <2>1, RecordsUntouched
<1>2. ASSUME NEW i \in Record,
             \/ CreateContract(i) \/ CreateMilestone(i) \/ CreateVariation(i) \/ CreateCommercialPayment(i)
             \/ CreateClaim(i) \/ CreateEot(i) \/ CommercialCreateRisk(i)
      PROVE  AgreedInv' /\ tx' = tx
  BY <1>2, CommercialCreations DEF CreateContract, CreateMilestone, CreateVariation, CreateCommercialPayment,
    CreateClaim, CreateEot, CommercialCreateRisk, CommercialCreated
<1>3. ASSUME NEW i \in Record, TransitionPlain(i) \/ TransitionPayment(i) \/ CommercialResolveRisk(i)
      PROVE  AgreedInv' /\ tx' = tx
  BY <1>3, PlainTransitioned, PaymentTransitioned, CommercialRiskResolved
    DEF TransitionPlain, TransitionPayment, CommercialResolveRisk
<1>4. ASSUME NEW i \in Record, CheckVariation(i) PROVE AgreedInv' /\ Cardinality(tx') <= MaxOpen
  <2>1. AgreedInv' /\ tx = {} /\ \E x : tx' = {x}
    BY <1>4, VariationOpened
  <2>2. Cardinality({}) < MaxOpen /\ Cardinality({}) = 0
    BY <1>4, <2>1, FS_EmptySet DEF CheckVariation
  <2>3. Cardinality(tx') = 1
    BY <2>1, FS_Singleton
  <2>4. QED BY <2>1, <2>2, <2>3 DEF CommercialAssumption
<1>5. ASSUME NEW x \in tx, CommitVariation(x) \/ RollbackVariation(x)
      PROVE  AgreedInv' /\ Cardinality(tx') <= MaxOpen
  <2>1. AgreedInv' /\ tx' = {}
    <3>1. CASE CommitVariation(x)
      BY <3>1, VariationCommitted
    <3>2. CASE RollbackVariation(x)
      <4>1. tx' = {} /\ UNCHANGED <<item, approval>> /\ approval' \subseteq CommercialApprovalRow
        BY <3>2 DEF RollbackVariation, AgreedInv
      <4>2. QED BY <4>1, RecordsUntouched
    <3>3. QED BY <1>5, <3>1, <3>2
  <2>2. QED BY <2>1, FS_EmptySet DEF CommercialAssumption
<1>6. QED BY <1>1, <1>2, <1>3, <1>4, <1>5, RecordsReviewed DEF CommercialNext

LEMMA AgreedInvariance ==
  ASSUME CommercialAssumption
  PROVE  CommercialSpec => [](AgreedInv /\ Cardinality(tx) <= MaxOpen)
<1> DEFINE Inv == AgreedInv /\ Cardinality(tx) <= MaxOpen
<1>1. CommercialInit => Inv
  BY AgreedInitOK, FS_EmptySet DEF CommercialInit, CommercialAssumption
<1>2. Inv /\ [CommercialNext]_commercialVars => Inv'
  BY CommercialStepOK
<1>3. QED BY <1>1, <1>2, PTL DEF CommercialSpec

\* Rows of commercialops keep their types, and no more transactions are open than may be.
THEOREM CommercialTypeCorrect == ASSUME CommercialAssumption PROVE CommercialSpec => []CommercialTypeOK
<1>1. AgreedInv /\ Cardinality(tx) <= MaxOpen => CommercialTypeOK
  BY DEF AgreedInv, CommercialTypeOK
<1>2. QED BY <1>1, AgreedInvariance, PTL

\* A contract is worth what was agreed and what its variations added, each as often as
\* it was approved, for any number of contracts and variations, whoever approves them
\* at the same time and whatever the policy, one that leads out of an approval and back
\* included; where the policy approves for good no variation is added twice.  The net
\* of a certified payment is computed.
THEOREM CommercialValueAgrees ==
  ASSUME CommercialAssumption PROVE CommercialSpec => []ContractValueAgrees
<1>1. AgreedInv => ContractValueAgrees
  BY DEF AgreedInv, Agreed, Varied, ContractValueAgrees
<1>2. QED BY <1>1, AgreedInvariance, PTL
=============================================================================
