-------------------------- MODULE TimerListProofs ---------------------------
(***************************************************************************)
(* Proofs about TimerList, for lists of any length: the linked nodes are   *)
(* the sequence of timer_list.h, and no node is lost, freed twice or used  *)
(* after it was freed.                                                     *)
(***************************************************************************)
EXTENDS TimerList, WellFoundedInduction, FiniteSetTheorems, TLAPS

(* A set of naturals has a least element: what the proofs by induction on  *)
(* the position in a list use, as a search for the least counterexample.   *)
LEMMA LeastNat ==
  ASSUME NEW S, S \subseteq Nat, S # {}
  PROVE  \E x \in S : \A y \in S : x <= y
<1>. DEFINE R == OpToRel(<, Nat)
<1>1. \A a, b \in Nat :
        <<a, b>> \in Nat \X Nat /\ <<a, b>>[1] = a /\ <<a, b>>[2] = b
  OBVIOUS
<1>2. PICK x \in S : \A y \in S : ~ (<<y, x>> \in R)
  BY NatLessThanWellFounded, WFMin, Zenon
<1>3. ASSUME NEW y \in Nat, y < x, x \in Nat
      PROVE  <<y, x>> \in R
  BY <1>1, <1>3, Zenon DEF OpToRel
<1>. HIDE DEF R
<1>4. \A y \in S : ~ (y < x)
  BY <1>2, <1>3
<1>. QED  BY <1>4

-----------------------------------------------------------------------------
(* Following the pointers                                                  *)

\* f goes m pointers along nx from the field of the list
Walk(nx, f, m) ==
  f = [i \in 0..m |-> IF i = 0 THEN HeadField ELSE nx[f[i - 1]]]

\* the cells of a list with pointers nx
CellIn(nx, k) == (CHOOSE f : Walk(nx, f, MaxLen))[k]

(* There is a walk of every length.                                        *)
LEMMA WalkExists ==
  ASSUME NEW nx
  PROVE  \A m \in Nat : \E f : Walk(nx, f, m)
<1>. DEFINE S == {m \in Nat : ~ \E f : Walk(nx, f, m)}
<1>. SUFFICES ASSUME S # {} PROVE FALSE
  OBVIOUS
<1>1. PICK m \in S : \A y \in S : m <= y
  BY LeastNat
<1>2. m # 0
  <2>1. Walk(nx, [i \in 0..0 |-> HeadField], 0)
    BY DEF Walk
  <2>. QED  BY <2>1
<1>3. m - 1 \in Nat /\ m - 1 \notin S
  BY <1>1, <1>2
<1>4. PICK g : Walk(nx, g, m - 1)
  BY <1>3
<1>. DEFINE f == [i \in 0..m |-> IF i = m THEN nx[g[m - 1]] ELSE g[i]]
<1>5. \A i \in 0..m : f[i] = IF i = 0 THEN HeadField ELSE nx[f[i - 1]]
  <2>1. \A i \in 0..(m - 1) : g[i] = IF i = 0 THEN HeadField ELSE nx[g[i - 1]]
    BY <1>3, <1>4 DEF Walk
  <2>2. /\ f[m] = nx[g[m - 1]]
        /\ \A i \in 0..(m - 1) : f[i] = g[i] /\ i # m
    BY <1>3
  <2>. HIDE DEF f
  <2>3. \A i \in 0..m : i = m \/ (i \in 0..(m - 1) /\ (i = 0 \/ i - 1 \in 0..(m - 1)))
    BY <1>3
  <2>4. m - 1 \in 0..(m - 1)
    BY <1>3
  <2>. QED  BY <1>2, <2>1, <2>2, <2>3, <2>4
<1>6. Walk(nx, f, m)
  <2>. HIDE DEF f
  <2>1. f = [i \in 0..m |-> f[i]]
    BY DEF f
  <2>. QED  BY <1>5, <2>1 DEF Walk
<1>. QED  BY <1>1, <1>6

(* So Cell follows the pointers, one at a time.                            *)
LEMMA CellRec ==
  ASSUME NEW nx
  PROVE  /\ CellIn(nx, 0) = HeadField
         /\ \A k \in 1..MaxLen : CellIn(nx, k) = nx[CellIn(nx, k - 1)]
<1>. DEFINE c == CHOOSE f : Walk(nx, f, MaxLen)
<1>1. MaxLen \in Nat
  BY ListAssumption
<1>2. Walk(nx, c, MaxLen)
  <2>1. \E f : Walk(nx, f, MaxLen)
    BY <1>1, WalkExists
  <2>. QED  BY <2>1, Zenon
<1>3. \A k : CellIn(nx, k) = c[k]
  BY Zenon DEF CellIn
<1>. HIDE DEF c
<1>4. c[0] = HeadField /\ \A k \in 1..MaxLen : c[k] = nx[c[k - 1]]
  BY <1>1, <1>2 DEF Walk
<1>. QED  BY <1>3, <1>4

(* A cell of the chain depends on the pointers only.                       *)
LEMMA CellIs ==
  ASSUME NEW k
  PROVE  Cell(k) = CellIn(next, k) /\ Cell(k)' = CellIn(next', k)
BY Zenon DEF Cell, CellIn, Walk

\* the cells s are those of a list of n nodes, all different, with pointers nx
Chain(nx, s, n) ==
  /\ s[0] = HeadField
  /\ \A i \in 1..n : s[i] = nx[s[i - 1]] /\ s[i] \in Nodes
  /\ \A i, j \in 1..n : s[i] = s[j] => i = j
  /\ nx[s[n]] = Nil

(* A list has one chain of cells.                                          *)
LEMMA CellsOfChain ==
  ASSUME NEW nx, NEW n \in 0..MaxLen, NEW s, Chain(nx, s, n)
  PROVE  \A k \in 0..n : CellIn(nx, k) = s[k]
<1>0. MaxLen \in Nat
  BY ListAssumption
<1>. DEFINE S == {k \in 0..n : CellIn(nx, k) # s[k]}
<1>. SUFFICES ASSUME S # {} PROVE FALSE
  OBVIOUS
<1>1. PICK k \in S : \A y \in S : k <= y
  <2>1. S \subseteq Nat
    BY <1>0
  <2>. QED  BY <2>1, LeastNat
<1>2. k # 0
  BY <1>1, CellRec DEF Chain
<1>3. k - 1 \in 0..n /\ k - 1 \notin S /\ k \in 1..MaxLen /\ k \in 1..n
  BY <1>0, <1>1, <1>2
<1>4. CellIn(nx, k - 1) = s[k - 1]
  BY <1>3
<1>5. CellIn(nx, k) = nx[CellIn(nx, k - 1)]
  BY <1>3, CellRec
<1>6. s[k] = nx[s[k - 1]]
  BY <1>3 DEF Chain
<1>. QED  BY <1>1, <1>4, <1>5, <1>6

Pointers == [Nodes \cup {HeadField} -> Nodes \cup {Nil}]

\* the cells after a node x was put behind cell p, or the one behind it taken out
Inserted(s, p, x, n) ==
  [k \in 0..(n + 1) |-> IF k <= p THEN s[k] ELSE IF k = p + 1 THEN x ELSE s[k - 1]]
Removed(s, p, n) == [k \in 0..(n - 1) |-> IF k <= p THEN s[k] ELSE s[k + 1]]

(* Two assignments link a node in.                                         *)
LEMMA InsertChain ==
  ASSUME NEW nx \in Pointers, NEW n \in Nat, NEW s, Chain(nx, s, n),
         NEW p \in 0..n, NEW x \in Nodes, \A i \in 1..n : s[i] # x,
         NEW ny, ny = [nx EXCEPT ![s[p]] = x, ![x] = nx[s[p]]]
  PROVE  Chain(ny, Inserted(s, p, x, n), n + 1) /\ ny \in Pointers
<1>. DEFINE r == Inserted(s, p, x, n)
<1>1. /\ \A k \in 0..(n + 1) : r[k] = IF k <= p THEN s[k]
                                      ELSE IF k = p + 1 THEN x ELSE s[k - 1]
  BY DEF Inserted
<1>. HIDE DEF r
<1>2. HeadField \notin Nodes /\ Nil \notin Nodes
  BY ListAssumption
<1>3. \A i \in 0..n : s[i] \in Nodes \cup {HeadField} /\ s[i] # x
  BY <1>2 DEF Chain
<1>4. \A i, j \in 0..n : s[i] = s[j] => i = j
  BY <1>2 DEF Chain
<1>5. /\ ny \in Pointers
      /\ ny[s[p]] = x /\ ny[x] = nx[s[p]]
      /\ \A c \in Nodes \cup {HeadField} : c # s[p] /\ c # x => ny[c] = nx[c]
  BY <1>3 DEF Pointers
<1>6. \A i \in 0..n : i # p => ny[s[i]] = nx[s[i]]
  BY <1>3, <1>4, <1>5
<1>7. r[0] = HeadField
  BY <1>1 DEF Chain
<1>8. ASSUME NEW i \in 1..(n + 1)
      PROVE  r[i] = ny[r[i - 1]] /\ r[i] \in Nodes
  <2>1. CASE i <= p
    <3>1. r[i] = s[i] /\ r[i - 1] = s[i - 1] /\ i \in 1..n /\ i - 1 \in 0..n /\ i - 1 # p
      BY <1>1, <2>1
    <3>. QED  BY <1>6, <3>1 DEF Chain
  <2>2. CASE i = p + 1
    <3>1. r[i] = x /\ r[i - 1] = s[p]
      BY <1>1, <2>2
    <3>. QED  BY <1>5, <3>1
  <2>3. CASE i = p + 2
    <3>1. r[i] = s[p + 1] /\ r[i - 1] = x /\ p + 1 \in 1..n /\ (p + 1) - 1 = p
      BY <1>1, <2>3
    <3>. QED  BY <1>5, <3>1 DEF Chain
  <2>4. CASE i > p + 2
    <3>1. /\ r[i] = s[i - 1] /\ r[i - 1] = s[(i - 1) - 1]
          /\ i - 1 \in 1..n /\ (i - 1) - 1 \in 0..n /\ (i - 1) - 1 # p
      BY <1>1, <2>4
    <3>. QED  BY <1>6, <3>1 DEF Chain
  <2>. QED  BY <2>1, <2>2, <2>3, <2>4
<1>9. \A i, j \in 1..(n + 1) : r[i] = r[j] => i = j
  <2>. SUFFICES ASSUME NEW i \in 1..(n + 1), NEW j \in 1..(n + 1), r[i] = r[j]
                PROVE  i = j
    OBVIOUS
  <2>1. \A k \in 1..(n + 1) : \/ k <= p /\ k \in 0..n /\ r[k] = s[k]
                              \/ k = p + 1 /\ r[k] = x
                              \/ k > p + 1 /\ k - 1 \in 0..n /\ r[k] = s[k - 1]
    BY <1>1
  <2>2. \/ i <= p /\ i \in 0..n /\ r[i] = s[i]
        \/ i = p + 1 /\ r[i] = x
        \/ i > p + 1 /\ i - 1 \in 0..n /\ r[i] = s[i - 1]
    BY <2>1
  <2>3. \/ j <= p /\ j \in 0..n /\ r[j] = s[j]
        \/ j = p + 1 /\ r[j] = x
        \/ j > p + 1 /\ j - 1 \in 0..n /\ r[j] = s[j - 1]
    BY <2>1
  <2>. QED  BY <1>3, <1>4, <2>2, <2>3
<1>10. ny[r[n + 1]] = Nil
  <2>1. CASE p = n
    <3>1. r[n + 1] = x
      BY <1>1, <2>1
    <3>. QED  BY <1>5, <2>1, <3>1 DEF Chain
  <2>2. CASE p # n
    <3>1. r[n + 1] = s[n] /\ n \in 0..n
      BY <1>1, <2>2
    <3>. QED  BY <1>6, <2>2, <3>1 DEF Chain
  <2>. QED  BY <2>1, <2>2
<1>. QED  BY <1>5, <1>7, <1>8, <1>9, <1>10 DEF Chain, r

(* One assignment takes a node out, whoever makes it.                      *)
LEMMA RemoveChain ==
  ASSUME NEW nx \in Pointers, NEW n \in Nat, NEW s, Chain(nx, s, n),
         NEW p \in 0..n, p < n,
         NEW ny, ny = [nx EXCEPT ![s[p]] = nx[s[p + 1]]]
  PROVE  Chain(ny, Removed(s, p, n), n - 1) /\ ny \in Pointers
<1>. DEFINE r == Removed(s, p, n)
<1>1. \A k \in 0..(n - 1) : r[k] = IF k <= p THEN s[k] ELSE s[k + 1]
  BY DEF Removed
<1>. HIDE DEF r
<1>2. HeadField \notin Nodes /\ Nil \notin Nodes
  BY ListAssumption
<1>3. \A i \in 0..n : s[i] \in Nodes \cup {HeadField}
  BY <1>2 DEF Chain
<1>4. \A i, j \in 0..n : s[i] = s[j] => i = j
  BY <1>2 DEF Chain
<1>5. /\ ny \in Pointers
      /\ ny[s[p]] = nx[s[p + 1]]
      /\ \A c \in Nodes \cup {HeadField} : c # s[p] => ny[c] = nx[c]
  <2>1. p + 1 \in 0..n
    OBVIOUS
  <2>2. s[p] \in Nodes \cup {HeadField} /\ s[p + 1] \in Nodes \cup {HeadField}
    BY <1>3, <2>1
  <2>. QED  BY <2>2 DEF Pointers
<1>6. \A i \in 0..n : i # p => ny[s[i]] = nx[s[i]]
  BY <1>3, <1>4, <1>5
<1>7. r[0] = HeadField
  BY <1>1 DEF Chain
<1>8. ASSUME NEW i \in 1..(n - 1)
      PROVE  r[i] = ny[r[i - 1]] /\ r[i] \in Nodes
  <2>1. CASE i <= p
    <3>1. r[i] = s[i] /\ r[i - 1] = s[i - 1] /\ i \in 1..n /\ i - 1 \in 0..n /\ i - 1 # p
      BY <1>1, <2>1
    <3>. QED  BY <1>6, <3>1 DEF Chain
  <2>2. CASE i = p + 1
    <3>1. /\ r[i] = s[p + 2] /\ r[i - 1] = s[p] /\ p + 2 \in 1..n /\ (p + 2) - 1 = p + 1
      BY <1>1, <2>2
    <3>. QED  BY <1>5, <3>1 DEF Chain
  <2>3. CASE i > p + 1
    <3>1. /\ r[i] = s[i + 1] /\ r[i - 1] = s[i] /\ i + 1 \in 1..n /\ (i + 1) - 1 = i
          /\ i \in 0..n /\ i # p
      BY <1>1, <2>3
    <3>. QED  BY <1>6, <3>1 DEF Chain
  <2>. QED  BY <2>1, <2>2, <2>3
<1>9. \A i, j \in 1..(n - 1) : r[i] = r[j] => i = j
  <2>1. \A k \in 1..(n - 1) : \/ k <= p /\ k \in 0..n /\ r[k] = s[k]
                              \/ k > p /\ k + 1 \in 0..n /\ r[k] = s[k + 1]
    BY <1>1
  <2>. QED  BY <1>4, <2>1
<1>10. ny[r[n - 1]] = Nil
  <2>1. CASE p = n - 1
    <3>1. r[n - 1] = s[p] /\ p + 1 = n
      BY <1>1, <2>1
    <3>. QED  BY <1>5, <3>1 DEF Chain
  <2>2. CASE p # n - 1
    <3>1. r[n - 1] = s[n] /\ n \in 0..n
      BY <1>1, <2>2
    <3>. QED  BY <1>6, <3>1 DEF Chain
  <2>. QED  BY <2>1, <2>2
<1>. QED  BY <1>5, <1>7, <1>8, <1>9, <1>10 DEF Chain, r

-----------------------------------------------------------------------------
(* The invariant                                                           *)

\* s are the cells of a list of n nodes with pointers nx, al its nodes
ListOf(nx, al, s, n) ==
  /\ Chain(nx, s, n)
  /\ \A x : x \in al <=> \E k \in 1..n : x = s[k]

ListType ==
  /\ nb_elt \in 0..MaxLen
  /\ next \in Pointers
  /\ element \in [Nodes -> Elements \cup {None}]
  /\ alloc \subseteq Nodes
  /\ Cardinality(alloc) = nb_elt
  /\ it \in [actual : Nodes \cup {Nil}, prev : Nodes \cup {HeadField}, pos : Nat]
  /\ valid \in BOOLEAN

ListInv ==
  /\ ListType
  /\ \E s : ListOf(next, alloc, s, nb_elt)
  /\ IteratorInList

(* The invariant says what Chained says.                                   *)
LEMMA ListChained == ListInv => Chained
<1>. SUFFICES ASSUME ListInv PROVE Chained
  OBVIOUS
<1>1. nb_elt \in 0..MaxLen /\ MaxLen \in Nat
  BY ListAssumption DEF ListInv, ListType
<1>2. PICK s : ListOf(next, alloc, s, nb_elt)
  BY DEF ListInv
<1>3. \A k \in 0..nb_elt : Cell(k) = s[k]
  BY <1>1, <1>2, CellsOfChain, CellIs DEF ListOf
<1>4. \A k \in 0..(nb_elt - 1) : NodeAt(k) = s[k + 1] /\ k + 1 \in 1..nb_elt
  BY <1>1, <1>3 DEF NodeAt
<1>5. \A k \in 1..nb_elt : k - 1 \in 0..(nb_elt - 1) /\ s[k] = NodeAt(k - 1)
  BY <1>1, <1>3 DEF NodeAt
<1>6. {NodeAt(k) : k \in 0..(nb_elt - 1)} = alloc
  BY <1>2, <1>4, <1>5 DEF ListOf
<1>7. next[Cell(nb_elt)] = Nil
  BY <1>1, <1>2, <1>3 DEF ListOf, Chain
<1>. QED  BY <1>6, <1>7 DEF Chained, ListInv, ListType

(* The empty list is chained.                                              *)
LEMMA ListInit == Init => ListInv
<1>. SUFFICES ASSUME Init PROVE ListInv
  OBVIOUS
<1>1. ListType
  <2>1. Cardinality({}) = 0
    BY FS_EmptySet
  <2>. QED  BY <2>1, ListAssumption DEF Init, ListType, Pointers
<1>2. ListOf(next, alloc, [k \in 0..0 |-> HeadField], nb_elt)
  BY DEF Init, ListOf, Chain
<1>3. IteratorInList
  BY DEF Init, IteratorInList
<1>. QED  BY <1>1, <1>2, <1>3 DEF ListInv

(* What the number of nodes says.                                          *)
LEMMA NodeCount ==
  ASSUME ListType
  PROVE  /\ IsFiniteSet(alloc)
         /\ \A x \in Nodes \ alloc : /\ Cardinality(alloc \cup {x}) = nb_elt + 1
                                     /\ nb_elt + 1 \in 0..MaxLen
         /\ \A x \in alloc : /\ Cardinality(alloc \ {x}) = nb_elt - 1
                             /\ nb_elt - 1 \in 0..MaxLen
<1>0. /\ MaxLen \in Nat /\ Cardinality(Nodes) = MaxLen /\ nb_elt \in Nat
      /\ IsFiniteSet(Nodes)
  BY ListAssumption DEF ListType
<1>1. IsFiniteSet(alloc)
  BY <1>0, FS_Subset DEF ListType
<1>2. ASSUME NEW x \in Nodes \ alloc
      PROVE  Cardinality(alloc \cup {x}) = nb_elt + 1 /\ nb_elt + 1 \in 0..MaxLen
  <2>1. Cardinality(alloc \cup {x}) = nb_elt + 1
    BY <1>1, FS_AddElement DEF ListType
  <2>2. Cardinality(alloc \cup {x}) <= Cardinality(Nodes)
    BY <1>0, FS_Subset DEF ListType
  <2>. QED  BY <1>0, <2>1, <2>2
<1>3. ASSUME NEW x \in alloc
      PROVE  Cardinality(alloc \ {x}) = nb_elt - 1 /\ nb_elt - 1 \in 0..MaxLen
  <2>1. Cardinality(alloc \ {x}) = nb_elt - 1 /\ IsFiniteSet(alloc \ {x})
    BY <1>1, FS_RemoveElement DEF ListType
  <2>2. Cardinality(alloc \ {x}) \in Nat
    BY <2>1, FS_CardinalityType
  <2>. QED  BY <1>0, <2>1, <2>2 DEF ListType
<1>. QED  BY <1>1, <1>2, <1>3

-----------------------------------------------------------------------------
(* What the calls do to the list                                           *)

(* timer_list_add links the new node in where it says.                     *)
LEMMA AddEffect ==
  ASSUME ListType, NEW s, ListOf(next, alloc, s, nb_elt),
         NEW el \in Elements, NEW pos \in Positions, NEW n \in Nodes,
         timer_list_add(el, pos, n)
  PROVE  /\ InsertionPoint(pos) \in 0..nb_elt
         /\ ListType'
         /\ ListOf(next', alloc', Inserted(s, InsertionPoint(pos), n, nb_elt), nb_elt + 1)
<1>. DEFINE p == InsertionPoint(pos)
            r == Inserted(s, p, n, nb_elt)
<1>1. nb_elt \in 0..MaxLen /\ MaxLen \in Nat /\ nb_elt \in Nat /\ next \in Pointers
  BY ListAssumption DEF ListType
<1>2. p \in 0..nb_elt
  BY <1>1 DEF InsertionPoint, Positions
<1>3. \A k \in 0..nb_elt : Cell(k) = s[k]
  BY <1>1, CellsOfChain, CellIs DEF ListOf
<1>4. /\ n \notin alloc /\ alloc' = alloc \cup {n} /\ nb_elt' = nb_elt + 1
      /\ element' = [element EXCEPT ![n] = el] /\ it' = it /\ valid' = FALSE
      /\ next' = [next EXCEPT ![Cell(p)] = n, ![n] = next[Cell(p)]]
  BY DEF timer_list_add
<1>. HIDE DEF p
<1>5. next' = [next EXCEPT ![s[p]] = n, ![n] = next[s[p]]]
  BY <1>2, <1>3, <1>4
<1>6. Chain(next', r, nb_elt + 1) /\ next' \in Pointers
  <2>1. Chain(next, s, nb_elt) /\ \A i \in 1..nb_elt : s[i] # n
    BY <1>4 DEF ListOf
  <2>. QED  BY <1>1, <1>2, <1>5, <2>1, InsertChain
<1>7. ListType'
  <2>1. Cardinality(alloc') = nb_elt' /\ nb_elt' \in 0..MaxLen
    BY <1>4, NodeCount
  <2>2. element' \in [Nodes -> Elements \cup {None}]
    BY <1>4 DEF ListType
  <2>. QED  BY <1>4, <1>6, <2>1, <2>2 DEF ListType
<1>8. \A k \in 0..(nb_elt + 1) : r[k] = IF k <= p THEN s[k]
                                       ELSE IF k = p + 1 THEN n ELSE s[k - 1]
  BY DEF Inserted
<1>. HIDE DEF r
<1>9. \A x : x \in alloc' <=> \E k \in 1..(nb_elt + 1) : x = r[k]
  <2>1. ASSUME NEW k \in 1..(nb_elt + 1) PROVE r[k] \in alloc'
    <3>1. \/ r[k] = n
          \/ k \in 1..nb_elt /\ r[k] = s[k]
          \/ k - 1 \in 1..nb_elt /\ r[k] = s[k - 1]
      BY <1>1, <1>2, <1>8
    <3>. QED  BY <1>4, <3>1 DEF ListOf
  <2>2. ASSUME NEW k \in 1..nb_elt PROVE \E j \in 1..(nb_elt + 1) : s[k] = r[j]
    <3>1. CASE k <= p
      <4>1. k \in 1..(nb_elt + 1) /\ r[k] = s[k]
        BY <1>1, <1>8, <3>1
      <4>. QED  BY <4>1
    <3>2. CASE k > p
      <4>1. k + 1 \in 1..(nb_elt + 1) /\ r[k + 1] = s[(k + 1) - 1] /\ (k + 1) - 1 = k
        BY <1>1, <1>2, <1>8, <3>2
      <4>. QED  BY <4>1
    <3>. QED  BY <1>1, <1>2, <3>1, <3>2
  <2>3. p + 1 \in 1..(nb_elt + 1) /\ r[p + 1] = n
    BY <1>1, <1>2, <1>8
  <2>. QED  BY <1>4, <2>1, <2>2, <2>3 DEF ListOf
<1>. QED  BY <1>2, <1>6, <1>7, <1>9 DEF ListOf, r, p

(* A remove, by position or by the iterator, takes the node behind cell p  *)
(* out and frees it.                                                       *)
LEMMA RemoveEffect ==
  ASSUME ListType, NEW s, ListOf(next, alloc, s, nb_elt),
         NEW p \in 0..nb_elt, p < nb_elt,
         next' = [next EXCEPT ![s[p]] = next[s[p + 1]]],
         alloc' = alloc \ {s[p + 1]}, nb_elt' = nb_elt - 1
  PROVE  /\ next' \in Pointers
         /\ alloc' \subseteq Nodes
         /\ Cardinality(alloc') = nb_elt'
         /\ nb_elt' \in 0..MaxLen
         /\ ListOf(next', alloc', Removed(s, p, nb_elt), nb_elt - 1)
<1>. DEFINE r == Removed(s, p, nb_elt)
<1>1. nb_elt \in 0..MaxLen /\ MaxLen \in Nat /\ nb_elt \in Nat /\ next \in Pointers
  BY ListAssumption DEF ListType
<1>2. Chain(next', r, nb_elt - 1) /\ next' \in Pointers
  BY <1>1, RemoveChain DEF ListOf
<1>3. s[p + 1] \in alloc /\ p + 1 \in 1..nb_elt
  BY <1>1 DEF ListOf
<1>4. Cardinality(alloc') = nb_elt' /\ nb_elt' \in 0..MaxLen
  BY <1>3, NodeCount
<1>5. \A k \in 0..(nb_elt - 1) : r[k] = IF k <= p THEN s[k] ELSE s[k + 1]
  BY DEF Removed
<1>. HIDE DEF r
<1>6. \A i, j \in 1..nb_elt : s[i] = s[j] => i = j
  BY DEF ListOf, Chain
<1>7. \A x : x \in alloc' <=> \E k \in 1..(nb_elt - 1) : x = r[k]
  <2>1. ASSUME NEW k \in 1..(nb_elt - 1) PROVE r[k] \in alloc'
    <3>1. \/ k \in 1..nb_elt /\ k # p + 1 /\ r[k] = s[k]
          \/ k + 1 \in 1..nb_elt /\ k + 1 # p + 1 /\ r[k] = s[k + 1]
      BY <1>1, <1>5
    <3>. QED  BY <1>3, <1>6, <3>1 DEF ListOf
  <2>2. ASSUME NEW k \in 1..nb_elt, k # p + 1
        PROVE  \E j \in 1..(nb_elt - 1) : s[k] = r[j]
    <3>1. CASE k <= p
      <4>1. k \in 1..(nb_elt - 1) /\ r[k] = s[k]
        BY <1>1, <1>5, <3>1
      <4>. QED  BY <4>1
    <3>2. CASE k > p + 1
      <4>1. k - 1 \in 1..(nb_elt - 1) /\ r[k - 1] = s[(k - 1) + 1] /\ (k - 1) + 1 = k
        BY <1>1, <1>5, <3>2
      <4>. QED  BY <4>1
    <3>. QED  BY <1>1, <2>2, <3>1, <3>2
  <2>. QED  BY <2>1, <2>2 DEF ListOf
<1>. QED  BY <1>2, <1>4, <1>7 DEF ListOf, ListType, r

(* timer_list_special_free leaves the empty list.                          *)
LEMMA FreeEffect ==
  ASSUME ListType, NEW s, ListOf(next, alloc, s, nb_elt), timer_list_special_free
  PROVE  /\ ListType' /\ nb_elt' = 0
         /\ ListOf(next', alloc', [k \in 0..0 |-> HeadField], 0)
<1>1. nb_elt \in 0..MaxLen /\ MaxLen \in Nat /\ nb_elt \in Nat /\ next \in Pointers
  BY ListAssumption DEF ListType
<1>2. \A k \in 0..nb_elt : Cell(k) = s[k]
  BY <1>1, CellsOfChain, CellIs DEF ListOf
<1>3. next' = [next EXCEPT ![HeadField] = Nil]
  <2>1. next[Cell(nb_elt)] = Nil
    BY <1>1, <1>2 DEF ListOf, Chain
  <2>. QED  BY <2>1 DEF timer_list_special_free
<1>4. alloc' = {}
  <2>1. \A k \in 1..nb_elt : k - 1 \in 0..(nb_elt - 1) /\ s[k] = NodeAt(k - 1)
    BY <1>1, <1>2 DEF NodeAt
  <2>. QED  BY <2>1 DEF timer_list_special_free, ListOf
<1>5. next' \in Pointers /\ next'[HeadField] = Nil
  BY <1>1, <1>3 DEF Pointers
<1>6. nb_elt' = 0 /\ UNCHANGED <<element, it>> /\ valid' = FALSE
  BY DEF timer_list_special_free
<1>7. ListOf(next', alloc', [k \in 0..0 |-> HeadField], 0)
  BY <1>4, <1>5 DEF ListOf, Chain
<1>8. ListType'
  <2>1. Cardinality(alloc') = 0
    BY <1>4, FS_EmptySet
  <2>2. 0 \in 0..MaxLen
    BY <1>1
  <2>. QED  BY <1>4, <1>5, <1>6, <2>1, <2>2 DEF ListType
<1>. QED  BY <1>6, <1>7, <1>8

(* Where an iterator that may be used is.                                  *)
LEMMA IteratorAt ==
  ASSUME ListInv, NEW s, ListOf(next, alloc, s, nb_elt), valid, it.actual # Nil
  PROVE  /\ it.pos \in 0..nb_elt /\ it.pos < nb_elt /\ it.pos + 1 \in 1..nb_elt
         /\ it.prev = s[it.pos] /\ it.actual = s[it.pos + 1]
<1>1. nb_elt \in 0..MaxLen /\ MaxLen \in Nat /\ nb_elt \in Nat /\ it.pos \in Nat
  BY ListAssumption DEF ListType, ListInv
<1>2. \A k \in 0..nb_elt : Cell(k) = s[k]
  BY <1>1, CellsOfChain, CellIs DEF ListOf
<1>3. it.pos < nb_elt /\ it.prev = Cell(it.pos) /\ next[it.prev] = it.actual
  BY DEF ListInv, IteratorInList
<1>4. it.pos \in 0..nb_elt /\ it.pos + 1 \in 1..nb_elt /\ (it.pos + 1) - 1 = it.pos
  BY <1>1, <1>3
<1>5. s[it.pos + 1] = next[s[it.pos]]
  BY <1>4 DEF ListOf, Chain
<1>. QED  BY <1>2, <1>3, <1>4, <1>5

(* And where it has to be after a step, for the invariant to hold.         *)
LEMMA IteratorStays ==
  ASSUME nb_elt' \in 0..MaxLen, NEW r, ListOf(next', alloc', r, nb_elt'),
         valid' /\ it'.actual # Nil =>
           /\ it'.pos \in 0..nb_elt' /\ it'.pos < nb_elt'
           /\ it'.prev = r[it'.pos] /\ it'.actual = r[it'.pos + 1]
  PROVE  IteratorInList'
<1>1. MaxLen \in Nat /\ nb_elt' \in Nat
  BY ListAssumption
<1>2. \A k \in 0..nb_elt' : CellIn(next', k) = r[k]
  BY CellsOfChain DEF ListOf
<1>. SUFFICES ASSUME valid', it'.actual # Nil
              PROVE  /\ it'.actual \in alloc' /\ it'.pos < nb_elt'
                     /\ it'.prev = CellIn(next', it'.pos)
                     /\ next'[it'.prev] = it'.actual
  <2>1. Cell(it.pos)' = CellIn(next', it'.pos)
    BY Zenon DEF Cell, CellIn, Walk
  <2>. QED  BY <2>1 DEF IteratorInList
<1>3. it'.pos + 1 \in 1..nb_elt' /\ (it'.pos + 1) - 1 = it'.pos
  BY <1>1
<1>. QED  BY <1>1, <1>2, <1>3 DEF ListOf, Chain

(* A step that leaves the list alone.                                      *)
LEMMA ListKept ==
  ASSUME ListInv, UNCHANGED <<nb_elt, next, element, alloc>>,
         it' \in [actual : Nodes \cup {Nil}, prev : Nodes \cup {HeadField}, pos : Nat],
         valid' \in BOOLEAN, IteratorInList'
  PROVE  ListInv'
<1>1. ListType'
  BY DEF ListInv, ListType
<1>. QED  BY <1>1 DEF ListInv

(* Every call keeps the invariant.                                         *)
LEMMA ListNext == ListInv /\ [Next]_vars => ListInv'
<1>. SUFFICES ASSUME ListInv, [Next]_vars PROVE ListInv'
  OBVIOUS
<1>. DEFINE Its == [actual : Nodes \cup {Nil}, prev : Nodes \cup {HeadField}, pos : Nat]
<1>1. /\ nb_elt \in 0..MaxLen /\ MaxLen \in Nat /\ nb_elt \in Nat /\ next \in Pointers
      /\ it \in Its /\ valid \in BOOLEAN /\ ListType
      /\ HeadField \notin Nodes /\ Nil \notin Nodes
  BY ListAssumption DEF ListInv, ListType
<1>2. PICK s : ListOf(next, alloc, s, nb_elt)
  BY DEF ListInv
<1>3. \A k \in 0..nb_elt : Cell(k) = s[k]
  BY <1>1, <1>2, CellsOfChain, CellIs DEF ListOf
<1>4. CASE UNCHANGED vars
  <2>1. IteratorInList'
    BY <1>4 DEF vars, ListInv, IteratorInList, Cell
  <2>. QED  BY <1>1, <1>4, <2>1, ListKept DEF vars
<1>5. ASSUME NEW el \in Elements, NEW pos \in Positions, NEW n \in Nodes,
             timer_list_add(el, pos, n)
      PROVE  ListInv'
  <2>1. ~valid' /\ nb_elt' = nb_elt + 1
    BY <1>5 DEF timer_list_add
  <2>2. IteratorInList'
    BY <2>1 DEF IteratorInList
  <2>. QED  BY <1>1, <1>2, <1>5, <2>1, <2>2, AddEffect DEF ListInv
<1>6. ASSUME NEW pos \in Positions, timer_list_add_fail(pos) PROVE ListInv'
  <2>1. UNCHANGED <<nb_elt, element, alloc, it>> /\ valid' = FALSE
    BY <1>6 DEF timer_list_add_fail
  <2>2. next' = next
    <3>1. next[Cell(nb_elt)] = Nil /\ Cell(nb_elt) \in Nodes \cup {HeadField}
      BY <1>1, <1>2, <1>3 DEF ListOf, Chain
    <3>. QED  BY <1>1, <1>6, <3>1 DEF timer_list_add_fail, Pointers
  <2>3. IteratorInList'
    BY <2>1 DEF IteratorInList
  <2>. QED  BY <1>1, <2>1, <2>2, <2>3, ListKept
<1>7. ASSUME NEW pos \in Positions, timer_list_get(pos) PROVE ListInv'
  <2>1. UNCHANGED <<nb_elt, next, element, alloc, it, valid>>
    BY <1>7 DEF timer_list_get
  <2>2. IteratorInList'
    BY <2>1 DEF ListInv, IteratorInList, Cell
  <2>. QED  BY <1>1, <2>1, <2>2, ListKept
<1>8. ASSUME NEW pos \in Positions, timer_list_remove(pos) PROVE ListInv'
  <2>1. CASE pos < 0 \/ pos >= nb_elt
    <3>1. UNCHANGED <<nb_elt, next, element, alloc, it, valid>>
      BY <1>8, <2>1 DEF timer_list_remove
    <3>2. IteratorInList'
      BY <3>1 DEF ListInv, IteratorInList, Cell
    <3>. QED  BY <1>1, <3>1, <3>2, ListKept
  <2>2. CASE ~(pos < 0 \/ pos >= nb_elt)
    <3>1. pos \in 0..nb_elt /\ pos < nb_elt /\ pos + 1 \in 0..nb_elt
      BY <1>1, <2>2 DEF Positions
    <3>2. Cell(pos) = s[pos] /\ NodeAt(pos) = s[pos + 1]
      BY <1>3, <3>1 DEF NodeAt
    <3>3. /\ next' = [next EXCEPT ![s[pos]] = next[s[pos + 1]]]
          /\ alloc' = alloc \ {s[pos + 1]} /\ nb_elt' = nb_elt - 1
          /\ UNCHANGED <<element, it>> /\ valid' = FALSE
      BY <1>8, <2>2, <3>2 DEF timer_list_remove
    <3>4. /\ next' \in Pointers /\ alloc' \subseteq Nodes
          /\ Cardinality(alloc') = nb_elt' /\ nb_elt' \in 0..MaxLen
          /\ ListOf(next', alloc', Removed(s, pos, nb_elt), nb_elt - 1)
      BY <1>1, <1>2, <3>1, <3>3, RemoveEffect
    <3>5. IteratorInList'
      BY <3>3 DEF IteratorInList
    <3>6. ListType'
      BY <1>1, <3>3, <3>4 DEF ListType
    <3>. QED  BY <3>3, <3>4, <3>5, <3>6 DEF ListInv
  <2>. QED  BY <2>1, <2>2
<1>9. CASE timer_list_special_free
  <2>1. IteratorInList'
    BY <1>9 DEF timer_list_special_free, IteratorInList
  <2>. QED  BY <1>1, <1>2, <1>9, <2>1, FreeEffect DEF ListInv
<1>10. CASE timer_list_get_first
  <2>1. UNCHANGED <<nb_elt, next, element, alloc>> /\ valid' = TRUE
    BY <1>10 DEF timer_list_get_first
  <2>2. CASE nb_elt <= 0
    <3>1. it' = [it EXCEPT !.actual = Nil]
      BY <1>10, <2>2 DEF timer_list_get_first
    <3>2. it' \in Its /\ it'.actual = Nil
      BY <1>1, <3>1
    <3>3. IteratorInList'
      BY <3>2 DEF IteratorInList
    <3>. QED  BY <2>1, <3>2, <3>3, ListKept
  <2>3. CASE ~(nb_elt <= 0)
    <3>1. it' = [actual |-> next[HeadField], prev |-> HeadField, pos |-> 0]
      BY <1>10, <2>3 DEF timer_list_get_first
    <3>2. 1 \in 1..nb_elt /\ 1 - 1 = 0 /\ 0 + 1 = 1
      BY <1>1, <2>3
    <3>3. s[1] = next[HeadField] /\ s[0] = HeadField /\ s[1] \in Nodes
      BY <1>2, <3>2 DEF ListOf, Chain
    <3>4. it' \in Its
      BY <3>1, <3>3
    <3>5. it'.pos = 0 /\ it'.prev = s[0] /\ it'.actual = s[0 + 1]
      BY <3>1, <3>2, <3>3
    <3>6. IteratorInList'
      BY <1>1, <1>2, <2>1, <2>3, <3>5, IteratorStays
    <3>. QED  BY <2>1, <3>4, <3>6, ListKept
  <2>. QED  BY <2>2, <2>3
<1>11. CASE timer_list_get_next
  <2>. DEFINE moved == [actual |-> next[it.actual], prev |-> it.actual, pos |-> it.pos + 1]
  <2>1. /\ UNCHANGED <<nb_elt, next, element, alloc, valid>> /\ valid /\ it.actual # Nil
        /\ it' = IF HasElem(moved, nb_elt) THEN moved ELSE [moved EXCEPT !.actual = Nil]
    BY <1>11 DEF timer_list_get_next
  <2>2. /\ it.pos \in 0..nb_elt /\ it.pos < nb_elt /\ it.pos + 1 \in 1..nb_elt
        /\ it.prev = s[it.pos] /\ it.actual = s[it.pos + 1]
    BY <1>2, <2>1, IteratorAt
  <2>3. moved \in Its /\ [moved EXCEPT !.actual = Nil] \in Its
    <3>1. it.actual \in Nodes /\ next[it.actual] \in Nodes \cup {Nil} /\ it.pos + 1 \in Nat
      BY <1>1, <2>1 DEF Pointers
    <3>. QED  BY <3>1
  <2>4. IteratorInList'
    <3>. SUFFICES ASSUME it'.actual # Nil
                  PROVE  /\ it'.pos \in 0..nb_elt /\ it'.pos < nb_elt
                         /\ it'.prev = s[it'.pos] /\ it'.actual = s[it'.pos + 1]
      BY <1>1, <1>2, <2>1, IteratorStays
    <3>1. it' = moved /\ it.pos + 1 < nb_elt
      BY <2>1 DEF HasElem
    <3>2. it.pos + 2 \in 1..nb_elt /\ (it.pos + 2) - 1 = it.pos + 1
      BY <1>1, <2>2, <3>1
    <3>3. s[it.pos + 2] = next[s[it.pos + 1]]
      BY <1>2, <3>2 DEF ListOf, Chain
    <3>4. it'.pos = it.pos + 1 /\ it'.prev = it.actual /\ it'.actual = next[it.actual]
      BY <3>1
    <3>5. it'.pos + 1 = it.pos + 2 /\ it'.pos \in 0..nb_elt
      BY <1>1, <2>2, <3>4
    <3>. QED  BY <2>2, <3>1, <3>3, <3>4, <3>5
  <2>. QED  BY <1>1, <2>1, <2>3, <2>4, ListKept
<1>12. CASE timer_list_iterator_remove
  <2>1. CASE ~HasElem(it, nb_elt)
    <3>1. UNCHANGED <<nb_elt, next, element, alloc, it, valid>>
      BY <1>12, <2>1 DEF timer_list_iterator_remove
    <3>2. IteratorInList'
      BY <3>1 DEF ListInv, IteratorInList, Cell
    <3>. QED  BY <1>1, <3>1, <3>2, ListKept
  <2>2. CASE HasElem(it, nb_elt)
    <3>. DEFINE p == it.pos
    <3>1. /\ next' = [next EXCEPT ![it.prev] = next[it.actual]]
          /\ alloc' = alloc \ {it.actual} /\ nb_elt' = nb_elt - 1
          /\ it' = [it EXCEPT !.actual = next[it.actual]]
          /\ UNCHANGED <<element, valid>> /\ valid /\ it.actual # Nil
      BY <1>12, <2>2 DEF timer_list_iterator_remove, HasElem
    <3>2. /\ p \in 0..nb_elt /\ p < nb_elt /\ p + 1 \in 1..nb_elt
          /\ it.prev = s[p] /\ it.actual = s[p + 1]
      BY <1>2, <3>1, IteratorAt
    <3>3. next' = [next EXCEPT ![s[p]] = next[s[p + 1]]] /\ alloc' = alloc \ {s[p + 1]}
      BY <3>1, <3>2
    <3>4. /\ next' \in Pointers /\ alloc' \subseteq Nodes
          /\ Cardinality(alloc') = nb_elt' /\ nb_elt' \in 0..MaxLen
          /\ ListOf(next', alloc', Removed(s, p, nb_elt), nb_elt - 1)
      <4>. HIDE DEF p
      <4>. QED  BY <1>1, <1>2, <3>1, <3>2, <3>3, RemoveEffect
    <3>5. next[it.actual] \in Nodes \cup {Nil}
      BY <1>1, <3>1 DEF Pointers
    <3>6. /\ it' \in Its
          /\ it'.actual = next[it.actual] /\ it'.prev = it.prev /\ it'.pos = p
      BY <1>1, <3>1, <3>5
    <3>7. ListType'
      BY <1>1, <3>1, <3>4, <3>6 DEF ListType
    <3>8. IteratorInList'
      <4>. SUFFICES ASSUME it'.actual # Nil
                    PROVE  /\ p \in 0..nb_elt' /\ p < nb_elt'
                           /\ it'.prev = Removed(s, p, nb_elt)[p]
                           /\ it'.actual = Removed(s, p, nb_elt)[p + 1]
        BY <3>1, <3>4, <3>6, IteratorStays
      <4>1. p + 1 # nb_elt
        BY <1>2, <3>2, <3>6 DEF ListOf, Chain
      <4>2. p \in 0..(nb_elt - 1) /\ p + 1 \in 0..(nb_elt - 1) /\ p + 2 \in 1..nb_elt
            /\ (p + 2) - 1 = p + 1 /\ p <= p /\ ~(p + 1 <= p) /\ (p + 1) + 1 = p + 2
        BY <1>1, <3>2, <4>1
      <4>3. Removed(s, p, nb_elt)[p] = s[p] /\ Removed(s, p, nb_elt)[p + 1] = s[p + 2]
        BY <4>2 DEF Removed
      <4>4. s[p + 2] = next[s[p + 1]]
        BY <1>2, <4>2 DEF ListOf, Chain
      <4>. QED  BY <1>1, <3>1, <3>2, <3>6, <4>2, <4>3, <4>4
    <3>. QED  BY <3>1, <3>4, <3>7, <3>8 DEF ListInv
  <2>. QED  BY <2>1, <2>2
<1>. QED  BY <1>4, <1>5, <1>6, <1>7, <1>8, <1>9, <1>10, <1>11, <1>12 DEF Next

(* For lists of any length and any sequence of calls: nb_elt counts the    *)
(* nodes that are linked and allocated, they are different, the chain ends *)
(* there, and an iterator that may be used unlinks the node it is at.      *)
THEOREM ListStaysChained == Spec => []Chained
<1>1. Init => ListInv
  BY ListInit
<1>2. ListInv /\ [Next]_vars => ListInv'
  BY ListNext
<1>3. ListInv => Chained
  BY ListChained
<1>. QED  BY <1>1, <1>2, <1>3, PTL DEF Spec

-----------------------------------------------------------------------------
(* Refinement: the list of timer_list.h                                    *)

\* the list and the cursor of TimerSeq
ListBar == [k \in 1..nb_elt |-> element[NodeAt(k - 1)]]
CursorBar == IF valid /\ it.actual # Nil THEN it.pos + 1 ELSE 0

\* the elements of the cells s of a list of n nodes
ElementsOf(s, n, els) == [k \in 1..n |-> els[s[k]]]

(* The list is made of the elements of the cells, before and after a step. *)
LEMMA ListIs ==
  ASSUME NEW s, nb_elt \in 0..MaxLen, ListOf(next, alloc, s, nb_elt)
  PROVE  ListBar = ElementsOf(s, nb_elt, element)
<1>1. MaxLen \in Nat /\ nb_elt \in Nat
  BY ListAssumption
<1>2. \A k \in 0..nb_elt : Cell(k) = s[k]
  BY CellsOfChain, CellIs DEF ListOf
<1>3. \A k \in 1..nb_elt : NodeAt(k - 1) = s[k]
  BY <1>1, <1>2 DEF NodeAt
<1>. QED  BY <1>3 DEF ListBar, ElementsOf

(* The same for the state after a step.                                    *)
LEMMA ListWillBe ==
  ASSUME NEW r, nb_elt' \in 0..MaxLen, ListOf(next', alloc', r, nb_elt')
  PROVE  ListBar' = ElementsOf(r, nb_elt', element')
<1>1. MaxLen \in Nat /\ nb_elt' \in Nat
  BY ListAssumption
<1>2. \A k \in 0..nb_elt' : CellIn(next', k) = r[k]
  BY CellsOfChain DEF ListOf
<1>3. \A k \in 1..nb_elt' : NodeAt(k - 1)' = r[k]
  <2>. TAKE k \in 1..nb_elt'
  <2>1. Cell(k)' = CellIn(next', k)
    BY CellIs
  <2>2. (k - 1) + 1 = k /\ k \in 0..nb_elt'
    BY <1>1
  <2>3. NodeAt(k - 1)' = Cell((k - 1) + 1)'
    BY DEF NodeAt
  <2>. QED  BY <1>2, <2>1, <2>2, <2>3
<1>. QED  BY <1>3 DEF ListBar, ElementsOf

(* A list of n elements is a sequence of length n.                         *)
LEMMA SeqOf ==
  ASSUME NEW n \in Nat, NEW S, NEW f \in [1..n -> S]
  PROVE  f \in Seq(S) /\ Len(f) = n
OBVIOUS

(* The operations of SequencesExt on it, element by element.               *)
LEMMA InsertAtIs ==
  ASSUME NEW n \in Nat, NEW S, NEW f \in [1..n -> S], NEW e \in S, NEW p \in 0..n
  PROVE  Abstract!InsertAt(f, p + 1, e) =
           [k \in 1..(n + 1) |-> IF k <= p THEN f[k] ELSE IF k = p + 1 THEN e ELSE f[k - 1]]
<1>1. f \in Seq(S) /\ Len(f) = n
  BY SeqOf
<1>. QED  BY <1>1, SMTT(40) DEF Abstract!InsertAt

(* The same for the removal of an element.                                 *)
LEMMA RemoveAtIs ==
  ASSUME NEW n \in Nat, NEW S, NEW f \in [1..n -> S], NEW p \in 0..n, p < n
  PROVE  Abstract!RemoveAt(f, p + 1) =
           [k \in 1..(n - 1) |-> IF k <= p THEN f[k] ELSE f[k + 1]]
<1>1. f \in Seq(S) /\ Len(f) = n
  BY SeqOf
<1>. QED  BY <1>1 DEF Abstract!RemoveAt

(* A remove takes the element out of the sequence.                         *)
LEMMA RemoveListBar ==
  ASSUME ListType, NEW s, ListOf(next, alloc, s, nb_elt),
         NEW p \in 0..nb_elt, p < nb_elt,
         next' = [next EXCEPT ![s[p]] = next[s[p + 1]]],
         alloc' = alloc \ {s[p + 1]}, nb_elt' = nb_elt - 1, element' = element
  PROVE  ListBar' = Abstract!RemoveAt(ListBar, p + 1)
<1>. DEFINE S == Elements \cup {None}
            L == ListBar
            r == Removed(s, p, nb_elt)
<1>1. nb_elt \in 0..MaxLen /\ MaxLen \in Nat /\ nb_elt \in Nat /\ element \in [Nodes -> S]
  BY ListAssumption DEF ListType
<1>2. nb_elt' \in 0..MaxLen /\ ListOf(next', alloc', r, nb_elt - 1)
  BY RemoveEffect
<1>3. ListBar' = ElementsOf(r, nb_elt - 1, element)
  BY <1>2, ListWillBe
<1>4. L = ElementsOf(s, nb_elt, element)
  BY <1>1, ListIs
<1>5. \A k \in 1..nb_elt : s[k] \in Nodes
  BY DEF ListOf, Chain
<1>6. \A k \in 0..(nb_elt - 1) : r[k] = IF k <= p THEN s[k] ELSE s[k + 1]
  BY DEF Removed
<1>. HIDE DEF r, L
<1>7. L \in [1..nb_elt -> S] /\ \A k \in 1..nb_elt : L[k] = element[s[k]]
  BY <1>1, <1>4, <1>5 DEF ElementsOf
<1>8. \A k \in 1..(nb_elt - 1) : element[r[k]] = IF k <= p THEN L[k] ELSE L[k + 1]
  <2>. TAKE k \in 1..(nb_elt - 1)
  <2>1. k \in 1..nb_elt /\ k + 1 \in 1..nb_elt /\ k \in 0..(nb_elt - 1)
    BY <1>1
  <2>. QED  BY <1>6, <1>7, <2>1
<1>9. Abstract!RemoveAt(L, p + 1) = [k \in 1..(nb_elt - 1) |-> IF k <= p THEN L[k] ELSE L[k + 1]]
  BY <1>1, <1>7, RemoveAtIs
<1>. QED  BY <1>3, <1>8, <1>9 DEF ElementsOf, L

(* Every call is the call of TimerSeq of the same name.                    *)
LEMMA ListRefines ==
  ASSUME ListInv, ListInv', Next
  PROVE  Abstract!SeqNext
<1>. DEFINE S == Elements \cup {None}
            L == ListBar
            C == CursorBar
<1>1. /\ nb_elt \in 0..MaxLen /\ MaxLen \in Nat /\ nb_elt \in Nat /\ nb_elt' \in 0..MaxLen
      /\ element \in [Nodes -> S] /\ it.pos \in Nat /\ ListType
      /\ Nil \notin Nodes
  BY ListAssumption DEF ListInv, ListType
<1>2. PICK s : ListOf(next, alloc, s, nb_elt)
  BY DEF ListInv
<1>3. \A k \in 0..nb_elt : Cell(k) = s[k]
  BY <1>1, <1>2, CellsOfChain, CellIs DEF ListOf
<1>4. \A k \in 1..nb_elt : s[k] \in Nodes
  BY <1>2 DEF ListOf, Chain
<1>5. /\ L = ElementsOf(s, nb_elt, element)
      /\ L \in [1..nb_elt -> S] /\ \A k \in 1..nb_elt : L[k] = element[s[k]]
  <2>1. L = ElementsOf(s, nb_elt, element)
    BY <1>1, <1>2, ListIs
  <2>. HIDE DEF L
  <2>. QED  BY <1>1, <1>4, <2>1 DEF ElementsOf
<1>6. L \in Seq(S) /\ Len(L) = nb_elt
  BY <1>1, <1>5, SeqOf
<1>7. valid /\ it.actual # Nil =>
        /\ it.pos \in 0..nb_elt /\ it.pos < nb_elt /\ it.pos + 1 \in 1..nb_elt
        /\ it.prev = s[it.pos] /\ it.actual = s[it.pos + 1]
  BY <1>2, IteratorAt
<1>8. ASSUME NEW el \in Elements, NEW pos \in Positions, NEW n \in Nodes,
             timer_list_add(el, pos, n)
      PROVE  Abstract!Add(el, pos)
  <2>. DEFINE p == InsertionPoint(pos)
              r == Inserted(s, p, n, nb_elt)
  <2>1. /\ n \notin alloc /\ nb_elt' = nb_elt + 1 /\ valid' = FALSE
        /\ element' = [element EXCEPT ![n] = el]
        /\ ret' = Answer("add", pos, nb_elt + 1)
    BY <1>8 DEF timer_list_add
  <2>2. p \in 0..nb_elt /\ ListOf(next', alloc', r, nb_elt + 1)
    BY <1>1, <1>2, <1>8, AddEffect
  <2>3. p = IF pos \in 0..nb_elt THEN pos ELSE nb_elt
    BY <1>1 DEF InsertionPoint, Positions
  <2>4. \A k \in 0..(nb_elt + 1) : r[k] = IF k <= p THEN s[k]
                                         ELSE IF k = p + 1 THEN n ELSE s[k - 1]
    BY DEF Inserted
  <2>. HIDE DEF p, r
  <2>5. ListBar' = ElementsOf(r, nb_elt + 1, element')
    BY <1>1, <2>1, <2>2, ListWillBe
  <2>6. \A k \in 1..nb_elt : element'[s[k]] = L[k]
    <3>1. \A k \in 1..nb_elt : s[k] # n
      BY <1>2, <2>1 DEF ListOf
    <3>. QED  BY <1>1, <1>4, <1>5, <2>1, <3>1
  <2>7. element'[n] = el
    BY <1>1, <2>1
  <2>8. \A k \in 1..(nb_elt + 1) :
          element'[r[k]] = IF k <= p THEN L[k] ELSE IF k = p + 1 THEN el ELSE L[k - 1]
    <3>. TAKE k \in 1..(nb_elt + 1)
    <3>1. \/ k <= p /\ k \in 1..nb_elt /\ r[k] = s[k]
          \/ k = p + 1 /\ ~(k <= p) /\ r[k] = n
          \/ k # p + 1 /\ ~(k <= p) /\ k - 1 \in 1..nb_elt /\ r[k] = s[k - 1]
      BY <1>1, <2>2, <2>4
    <3>. QED  BY <2>6, <2>7, <3>1
  <2>9. ListBar' = Abstract!InsertAt(L, p + 1, el)
    <3>1. Abstract!InsertAt(L, p + 1, el) =
            [k \in 1..(nb_elt + 1) |-> IF k <= p THEN L[k] ELSE IF k = p + 1 THEN el ELSE L[k - 1]]
      <4>1. el \in S
        OBVIOUS
      <4>. HIDE DEF L, S
      <4>2. nb_elt \in Nat /\ L \in [1..nb_elt -> S] /\ p \in 0..nb_elt
        BY <1>1, <1>5, <2>2
      <4>. QED  BY <4>1, <4>2, InsertAtIs
    <3>. QED  BY <2>5, <2>8, <3>1 DEF ElementsOf
  <2>10. CursorBar' = 0
    BY <2>1 DEF CursorBar
  <2>. QED  BY <1>6, <2>1, <2>3, <2>9, <2>10
            DEF Abstract!Add, Abstract!Answers, Answer, ListBar, CursorBar
<1>9. ASSUME NEW pos \in Positions, timer_list_add_fail(pos)
      PROVE  Abstract!AddFail(pos)
  <2>1. UNCHANGED <<nb_elt, element, alloc>> /\ valid' = FALSE
        /\ ret' = Answer("add", pos, -1)
    BY <1>9 DEF timer_list_add_fail
  <2>2. next' = next
    <3>1. next[Cell(nb_elt)] = Nil /\ Cell(nb_elt) \in Nodes \cup {HeadField}
      BY <1>1, <1>2, <1>3 DEF ListOf, Chain
    <3>. QED  BY <1>1, <1>9, <3>1 DEF timer_list_add_fail, Pointers, ListType
  <2>3. ListBar' = ListBar
    BY <1>1, <1>2, <1>5, <2>1, <2>2, ListWillBe
  <2>4. CursorBar' = 0
    BY <2>1 DEF CursorBar
  <2>. QED  BY <2>1, <2>3, <2>4 DEF Abstract!AddFail, Abstract!Answers, Answer, ListBar, CursorBar
<1>10. ASSUME NEW pos \in Positions, timer_list_get(pos)
       PROVE  Abstract!Get(pos)
  <2>1. /\ UNCHANGED <<nb_elt, next, element, alloc, it, valid>>
        /\ ret' = Answer("get", pos, IF pos < 0 \/ pos >= nb_elt
                                     THEN None ELSE element[NodeAt(pos)])
    BY <1>10 DEF timer_list_get
  <2>2. ListBar' = ListBar /\ CursorBar' = CursorBar
    BY <1>1, <1>2, <1>5, <2>1, ListWillBe DEF CursorBar
  <2>3. Abstract!ElementAt(L, pos + 1) =
          IF pos < 0 \/ pos >= nb_elt THEN None ELSE element[NodeAt(pos)]
    <3>. HIDE DEF L
    <3>. QED  BY <1>1, <1>3, <1>5, <1>6 DEF Abstract!ElementAt, NodeAt, Positions
  <2>. QED  BY <2>1, <2>2, <2>3 DEF Abstract!Get, Abstract!Answers, Answer, ListBar, CursorBar
<1>11. ASSUME NEW pos \in Positions, timer_list_remove(pos)
       PROVE  Abstract!RemovePosition(pos)
  <2>1. CASE pos < 0 \/ pos >= nb_elt
    <3>1. /\ UNCHANGED <<nb_elt, next, element, alloc, it, valid>>
          /\ ret' = Answer("remove", pos, -1)
      BY <1>11, <2>1 DEF timer_list_remove
    <3>2. ListBar' = ListBar /\ CursorBar' = CursorBar
      BY <1>1, <1>2, <1>5, <3>1, ListWillBe DEF CursorBar
    <3>3. pos + 1 \notin 1..Len(L)
      BY <1>1, <1>6, <2>1 DEF Positions
    <3>. QED  BY <3>1, <3>2, <3>3
              DEF Abstract!RemovePosition, Abstract!Answers, Answer, ListBar, CursorBar
  <2>2. CASE ~(pos < 0 \/ pos >= nb_elt)
    <3>1. pos \in 0..nb_elt /\ pos < nb_elt /\ pos + 1 \in 0..nb_elt /\ pos + 1 \in 1..nb_elt
      BY <1>1, <2>2 DEF Positions
    <3>2. Cell(pos) = s[pos] /\ NodeAt(pos) = s[pos + 1]
      BY <1>3, <3>1 DEF NodeAt
    <3>3. /\ next' = [next EXCEPT ![s[pos]] = next[s[pos + 1]]]
          /\ alloc' = alloc \ {s[pos + 1]} /\ nb_elt' = nb_elt - 1
          /\ UNCHANGED <<element, it>> /\ valid' = FALSE
          /\ ret' = Answer("remove", pos, nb_elt - 1)
      BY <1>11, <2>2, <3>2 DEF timer_list_remove
    <3>4. ListBar' = Abstract!RemoveAt(L, pos + 1)
      BY <1>1, <1>2, <1>5, <3>1, <3>3, RemoveListBar
    <3>5. CursorBar' = 0
      BY <3>3 DEF CursorBar
    <3>. QED  BY <1>6, <3>1, <3>3, <3>4, <3>5
              DEF Abstract!RemovePosition, Abstract!Answers, Answer, ListBar, CursorBar
  <2>. QED  BY <2>1, <2>2
<1>12. CASE timer_list_special_free
  <2>1. valid' = FALSE /\ ret' = Answer("special_free", 0, None) /\ nb_elt' = 0
    BY <1>12 DEF timer_list_special_free
  <2>2. ListBar' = <<>> /\ CursorBar' = 0
    BY <2>1 DEF ListBar, CursorBar
  <2>. QED  BY <2>1, <2>2 DEF Abstract!FreeAll, Abstract!Answers, Answer, Abstract!SeqNext,
                              ListBar, CursorBar
<1>13. CASE timer_list_get_first
  <2>1. UNCHANGED <<nb_elt, next, element, alloc>> /\ valid' = TRUE
    BY <1>13 DEF timer_list_get_first
  <2>2. ListBar' = ListBar
    BY <1>1, <1>2, <1>5, <2>1, ListWillBe
  <2>3. CASE nb_elt <= 0
    <3>1. it' = [it EXCEPT !.actual = Nil] /\ ret' = Answer("get_first", 0, None)
      BY <1>13, <2>3 DEF timer_list_get_first
    <3>2. CursorBar' = 0
      BY <1>1, <3>1 DEF CursorBar, ListType
    <3>3. L = <<>> /\ Abstract!ElementAt(L, 1) = None
      <4>. HIDE DEF L
      <4>. QED  BY <1>1, <1>6, <2>3 DEF Abstract!ElementAt
    <3>. QED  BY <2>2, <3>1, <3>2, <3>3 DEF Abstract!First, Abstract!Answers, Answer,
                                            Abstract!SeqNext, ListBar, CursorBar
  <2>4. CASE ~(nb_elt <= 0)
    <3>1. /\ it' = [actual |-> next[HeadField], prev |-> HeadField, pos |-> 0]
          /\ ret' = Answer("get_first", 0, element[next[HeadField]])
      BY <1>13, <2>4 DEF timer_list_get_first
    <3>2. 1 \in 1..nb_elt /\ 1 - 1 = 0 /\ 0 + 1 = 1
      BY <1>1, <2>4
    <3>3. s[1] = next[HeadField] /\ s[1] \in Nodes
      BY <1>2, <3>2 DEF ListOf, Chain
    <3>4. CursorBar' = 1
      BY <1>1, <2>1, <3>1, <3>3 DEF CursorBar
    <3>5. L # <<>> /\ Abstract!ElementAt(L, 1) = element[next[HeadField]]
      <4>. HIDE DEF L
      <4>. QED  BY <1>1, <1>5, <1>6, <3>2, <3>3 DEF Abstract!ElementAt
    <3>. QED  BY <2>2, <3>1, <3>4, <3>5 DEF Abstract!First, Abstract!Answers, Answer,
                                            Abstract!SeqNext, ListBar, CursorBar
  <2>. QED  BY <2>3, <2>4
<1>14. CASE timer_list_get_next
  <2>. DEFINE moved == [actual |-> next[it.actual], prev |-> it.actual, pos |-> it.pos + 1]
  <2>1. /\ UNCHANGED <<nb_elt, next, element, alloc, valid>> /\ valid /\ it.actual # Nil
        /\ IF HasElem(moved, nb_elt)
           THEN it' = moved /\ ret' = Answer("get_next", 0, element[next[it.actual]])
           ELSE it' = [moved EXCEPT !.actual = Nil] /\ ret' = Answer("get_next", 0, None)
    BY <1>14 DEF timer_list_get_next
  <2>2. ListBar' = ListBar
    BY <1>1, <1>2, <1>5, <2>1, ListWillBe
  <2>3. HasElem(moved, nb_elt) <=> next[it.actual] # Nil /\ it.pos + 1 < nb_elt
    BY DEF HasElem
  <2>4. C = it.pos + 1 /\ C # 0
    BY <1>1, <2>1 DEF CursorBar
  <2>5. CASE it.pos + 1 < nb_elt
    <3>1. it.pos + 2 \in 1..nb_elt /\ (it.pos + 2) - 1 = it.pos + 1 /\ C + 1 = it.pos + 2
      BY <1>1, <2>4, <2>5
    <3>2. s[it.pos + 2] = next[it.actual] /\ s[it.pos + 2] \in Nodes
      BY <1>2, <1>7, <2>1, <3>1 DEF ListOf, Chain
    <3>3. it' = moved /\ ret' = Answer("get_next", 0, element[next[it.actual]])
      BY <1>1, <2>1, <2>3, <2>5, <3>2
    <3>4. CursorBar' = C + 1 /\ C < Len(L)
      BY <1>1, <1>6, <2>1, <2>4, <2>5, <3>2, <3>3 DEF CursorBar
    <3>5. Abstract!ElementAt(L, C + 1) = element[next[it.actual]]
      <4>. HIDE DEF L, C
      <4>. QED  BY <1>5, <1>6, <3>1, <3>2 DEF Abstract!ElementAt
    <3>. QED  BY <2>2, <2>4, <3>3, <3>4, <3>5
              DEF Abstract!NextElement, Abstract!Answers, Answer, Abstract!SeqNext, ListBar, CursorBar
  <2>6. CASE ~(it.pos + 1 < nb_elt)
    <3>1. it' = [moved EXCEPT !.actual = Nil] /\ ret' = Answer("get_next", 0, None)
      BY <2>1, <2>3, <2>6
    <3>2. CursorBar' = 0
      BY <3>1 DEF CursorBar
    <3>3. ~(C < Len(L)) /\ Abstract!ElementAt(L, C + 1) = None
      <4>1. ~(C < Len(L)) /\ C \in Nat
        BY <1>1, <1>6, <2>4, <2>6
      <4>. HIDE DEF L, C
      <4>. QED  BY <1>1, <1>6, <4>1 DEF Abstract!ElementAt
    <3>. QED  BY <2>2, <2>4, <3>1, <3>2, <3>3
              DEF Abstract!NextElement, Abstract!Answers, Answer, Abstract!SeqNext, ListBar, CursorBar
  <2>. QED  BY <2>5, <2>6
<1>15. CASE timer_list_iterator_remove
  <2>1. CASE ~HasElem(it, nb_elt)
    <3>1. /\ UNCHANGED <<nb_elt, next, element, alloc, it, valid>> /\ valid
          /\ ret' = Answer("iterator_remove", 0, None)
      BY <1>15, <2>1 DEF timer_list_iterator_remove
    <3>2. ListBar' = ListBar /\ CursorBar' = CursorBar /\ C = 0
      BY <1>1, <1>2, <1>5, <1>7, <2>1, <3>1, ListWillBe DEF CursorBar, HasElem
    <3>. QED  BY <3>1, <3>2 DEF Abstract!IteratorRemove, Abstract!Answers, Answer, Abstract!SeqNext,
                                ListBar, CursorBar
  <2>2. CASE HasElem(it, nb_elt)
    <3>. DEFINE p == it.pos
    <3>1. /\ next' = [next EXCEPT ![it.prev] = next[it.actual]]
          /\ alloc' = alloc \ {it.actual} /\ nb_elt' = nb_elt - 1
          /\ it' = [it EXCEPT !.actual = next[it.actual]]
          /\ UNCHANGED <<element, valid>> /\ valid /\ it.actual # Nil
          /\ ret' = Answer("iterator_remove", 0,
                           IF HasElem(it', nb_elt') THEN element[next[it.actual]] ELSE None)
      BY <1>15, <2>2 DEF timer_list_iterator_remove, HasElem
    <3>2. /\ p \in 0..nb_elt /\ p < nb_elt /\ p + 1 \in 1..nb_elt
          /\ it.prev = s[p] /\ it.actual = s[p + 1]
      BY <1>7, <3>1
    <3>3. next' = [next EXCEPT ![s[p]] = next[s[p + 1]]] /\ alloc' = alloc \ {s[p + 1]}
      BY <3>1, <3>2
    <3>4. ListBar' = Abstract!RemoveAt(L, p + 1)
      <4>. HIDE DEF p
      <4>. QED  BY <1>1, <1>2, <1>5, <3>1, <3>2, <3>3, RemoveListBar
    <3>5. C = p + 1 /\ C # 0
      BY <1>1, <3>1 DEF CursorBar
    <3>6. it'.actual = next[it.actual] /\ it'.pos = p
      BY <1>1, <3>1 DEF ListType
    <3>7. HasElem(it', nb_elt') <=> next[it.actual] # Nil /\ p < nb_elt - 1
      BY <3>1, <3>6 DEF HasElem
    <3>8. CASE p + 1 < nb_elt
      <4>1. p + 2 \in 1..nb_elt /\ (p + 2) - 1 = p + 1 /\ C + 1 = p + 2 /\ p < nb_elt - 1
        BY <1>1, <3>2, <3>5, <3>8
      <4>2. s[p + 2] = next[it.actual] /\ s[p + 2] \in Nodes
        BY <1>2, <3>2, <4>1 DEF ListOf, Chain
      <4>3. ret' = Answer("iterator_remove", 0, element[next[it.actual]])
        BY <1>1, <3>1, <3>7, <4>1, <4>2
      <4>4. CursorBar' = C /\ C < Len(L)
        BY <1>1, <1>6, <3>1, <3>5, <3>6, <3>8, <4>2 DEF CursorBar
      <4>5. Abstract!ElementAt(L, C + 1) = element[next[it.actual]]
        <5>. HIDE DEF L, C
        <5>. QED  BY <1>5, <1>6, <4>1, <4>2 DEF Abstract!ElementAt
      <4>. QED  BY <3>4, <3>5, <4>3, <4>4, <4>5
                DEF Abstract!IteratorRemove, Abstract!Answers, Answer, Abstract!SeqNext,
                    ListBar, CursorBar
    <3>9. CASE ~(p + 1 < nb_elt)
      <4>1. ~(p < nb_elt - 1) /\ nb_elt = p + 1
        BY <1>1, <3>2, <3>9
      <4>2. next[it.actual] = Nil
        BY <1>2, <3>2, <4>1 DEF ListOf, Chain
      <4>3. ret' = Answer("iterator_remove", 0, None)
        BY <3>1, <3>7, <4>1
      <4>4. CursorBar' = 0 /\ ~(C < Len(L)) /\ C \in Nat
        BY <1>1, <1>6, <3>5, <3>6, <3>9, <4>2 DEF CursorBar
      <4>5. Abstract!ElementAt(L, C + 1) = None
        <5>. HIDE DEF L, C
        <5>. QED  BY <1>1, <1>6, <4>4 DEF Abstract!ElementAt
      <4>. QED  BY <3>4, <3>5, <4>3, <4>4, <4>5
                DEF Abstract!IteratorRemove, Abstract!Answers, Answer, Abstract!SeqNext,
                    ListBar, CursorBar
    <3>. QED  BY <3>8, <3>9
  <2>. QED  BY <2>1, <2>2
<1>. QED  BY <1>8, <1>9, <1>10, <1>11, <1>12, <1>13, <1>14, <1>15
          DEF Next, Abstract!SeqNext, Positions

(* The linked list implements the sequence: for any number of elements,    *)
(* every call of timer_list.c returns what it would on the sequence of     *)
(* timer_list.h and leaves the sequence it would leave.                    *)
THEOREM ImplementsSequence == Spec => SeqSpec
<1>1. Init => ListInv
  BY ListInit
<1>2. ListInv /\ [Next]_vars => ListInv'
  BY ListNext
<1>3. Init => Abstract!SeqInit
  BY DEF Init, Abstract!SeqInit, Answer
<1>4. ListInv /\ ListInv' /\ [Next]_vars => [Abstract!SeqNext]_(Abstract!seqVars)
  <2>. SUFFICES ASSUME ListInv, ListInv', [Next]_vars
                PROVE  [Abstract!SeqNext]_(Abstract!seqVars)
    OBVIOUS
  <2>1. CASE UNCHANGED vars
    BY <2>1 DEF vars, Abstract!seqVars, NodeAt, Cell
  <2>2. CASE Next
    BY <2>2, ListRefines
  <2>. QED  BY <2>1, <2>2
<1>. QED  BY <1>1, <1>2, <1>3, <1>4, PTL DEF Spec, SeqSpec, Abstract!SeqSpec

=============================================================================
