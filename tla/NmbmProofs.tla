----------------------------- MODULE NmbmProofs -----------------------------
(***************************************************************************)
(* Proofs about Nmbm, for chips of any size with any number of spare       *)
(* blocks, failures and losses of power.                                   *)
(***************************************************************************)
EXTENDS Nmbm, WellFoundedInduction, FiniteSetTheorems, TLAPS

-----------------------------------------------------------------------------
(* Numbers and sets of blocks                                              *)

(* A set of naturals has a least element: the lemmas on finite sets below  *)
(* are proved by looking for the least counterexample.                     *)
LEMMA LeastNat ==
  ASSUME NEW S, S \subseteq Nat, S # {}
  PROVE  \E x \in S : \A y \in S : x <= y
<1>. DEFINE R == OpToRel(<, Nat)
<1>1. \A a, b \in Nat :
        <<a, b>> \in Nat \X Nat /\ <<a, b>>[1] = a /\ <<a, b>>[2] = b
  OBVIOUS
<1>2. PICK x \in S : \A y \in S : ~ (<<y, x>> \in R)
  BY NatLessThanWellFounded, WFMin, Zenon
<1>3. ASSUME NEW y \in Nat, y < x, x \in Nat
      PROVE  <<y, x>> \in R
  BY <1>1, <1>3, Zenon DEF OpToRel
<1>. HIDE DEF R
<1>4. \A y \in S : ~ (y < x)
  BY <1>2, <1>3
<1>. QED  BY <1>4

(* The first block of a set.                                               *)
LEMMA MinOf ==
  ASSUME NEW S, S \subseteq Nat, S # {}
  PROVE  Min(S) \in S /\ \A y \in S : Min(S) <= y
BY LeastNat DEF Min

(* The last block of a set.                                                *)
LEMMA MaxOf ==
  ASSUME NEW m \in Nat, NEW S, S \subseteq 0..m, S # {}
  PROVE  Max(S) \in S /\ \A y \in S : y <= Max(S)
<1>. DEFINE D == {m - x : x \in S}
<1>1. D \subseteq Nat /\ D # {}
  OBVIOUS
<1>. HIDE DEF D
<1>2. PICK d \in D : \A y \in D : d <= y
  BY <1>1, LeastNat
<1>3. PICK x \in S : d = m - x
  BY DEF D
<1>4. \A y \in S : m - y \in D
  BY DEF D
<1>5. \A y \in S : y <= x
  BY <1>2, <1>3, <1>4
<1>6. \E z \in S : \A y \in S : z >= y
  BY <1>5
<1>7. Max(S) \in S /\ \A y \in S : Max(S) >= y
  BY <1>6 DEF Max
<1>. QED  BY <1>7

(* In a finite set of blocks there is one with k smaller ones.             *)
LEMMA NthOf ==
  ASSUME NEW m \in Nat, NEW S, S \subseteq 0..m, NEW k \in Nat, k < Cardinality(S)
  PROVE  /\ Nth(S, k) \in S
         /\ Cardinality({c \in S : c < Nth(S, k)}) = k
<1>. DEFINE Has(T, j) == \E b \in T : Cardinality({c \in T : c < b}) = j
            Bad == {n \in Nat : \E T \in SUBSET (0..m) :
                      Cardinality(T) = n /\ \E j \in Nat : j < n /\ ~Has(T, j)}
<1>1. IsFiniteSet(0..m) /\ \A T \in SUBSET (0..m) : IsFiniteSet(T)
  <2>1. IsFiniteSet(0..m)
    BY FS_Interval
  <2>. QED  BY <2>1, FS_Subset
<1>2. Bad = {}
  <2>. SUFFICES ASSUME Bad # {} PROVE FALSE
    OBVIOUS
  <2>1. PICK n \in Bad : \A y \in Bad : n <= y
    BY LeastNat
  <2>2. PICK T \in SUBSET (0..m) :
          Cardinality(T) = n /\ \E j \in Nat : j < n /\ ~Has(T, j)
    BY <2>1
  <2>3. PICK j \in Nat : j < n /\ ~Has(T, j)
    BY <2>2
  <2>4. n \in Nat /\ n # 0 /\ T # {}
    <3>1. n \in Nat /\ n # 0
      BY <2>1, <2>3
    <3>. QED  BY <2>2, <3>1, FS_EmptySet
  <2>. DEFINE x == Max(T)
              U == T \ {x}
  <2>5. x \in T /\ \A y \in T : y <= x
    BY <2>4, MaxOf
  <2>. HIDE DEF x
  <2>6. Cardinality(U) = n - 1 /\ U \in SUBSET (0..m)
    BY <1>1, <2>2, <2>5, FS_RemoveElement
  <2>7. {c \in T : c < x} = U
    <3>1. \A c \in T : c \in Int /\ x \in Int
      BY <2>5
    <3>2. \A c \in T : c < x <=> c # x
      BY <2>5, <3>1
    <3>. QED  BY <3>2
  <2>8. j # n - 1
    BY <2>3, <2>5, <2>6, <2>7
  <2>9. n - 1 \in Nat /\ n - 1 \notin Bad
    BY <2>1, <2>4
  <2>10. Has(U, j)
    <3>1. j < n - 1
      BY <2>3, <2>4, <2>8
    <3>. HIDE DEF Has, U
    <3>. QED  BY <2>6, <2>9, <3>1
  <2>11. PICK b \in U : Cardinality({c \in U : c < b}) = j
    BY <2>10
  <2>12. {c \in U : c < b} = {c \in T : c < b}
    BY <2>5, <2>11
  <2>. QED  BY <2>3, <2>11, <2>12
<1>3. Cardinality(S) \in Nat
  BY <1>1, FS_CardinalityType
<1>4. Has(S, k)
  BY <1>2, <1>3
<1>. QED  BY <1>4 DEF Nth

-----------------------------------------------------------------------------
(* Types                                                                   *)

DataType == [kind : {"data"}, val : Values]
TableType == [kind : {"table"}, wc : Nat, state : [Blocks -> States],
              map : [Logic -> PhysicalOrNone]]
Content == {Erased, Torn} \cup DataType \cup TableType

NiType ==
  [state : [Blocks -> States], map : [Logic -> PhysicalOrNone],
   changed : BOOLEAN, wc : Nat, main : Blocks, backup : Blocks, mapba : Blocks,
   top : Blocks, count : 0..MgmtStart, prot : BOOLEAN]

\* The places a table write returns to
TableReturns ==
  {"backup_written", "main_written", "tmp_written", "rescued_main",
   "rebuilt_main", "rebuilt_backup", "one_main", "one_backup", "single_front",
   "single_behind"}
RangeReturns == {"update", "create", "attached", "single_clean"}
UpdateRets == {"idle", "erase", "no_spare", "create_full", "created", "detached"}
Pcs == {"off", "dead", "idle", "table", "program", "range", "write", "remap"}
         \cup TableReturns \cup RangeReturns \cup UpdateRets

CtlType ==
  [pc : Pcs, ba : 0..SigBa, limit : Blocks,
   next : {"off"} \cup TableReturns \cup RangeReturns, ok : BOOLEAN, wba : Blocks,
   tmp : Blocks, ret : {"off"} \cup UpdateRets, built : {"update", "create"},
   lb : Logic, val : {Erased} \cup DataType, cache : {Erased} \cup TableType]

Types ==
  /\ flash \in [Blocks -> Content]
  /\ mark \subseteq Blocks
  /\ ni \in NiType
  /\ ctl \in CtlType
  /\ disk \in [Logic -> {Any, Erased} \cup DataType]
  /\ skipped \in BOOLEAN
  /\ fails \in 0..MaxFail
  /\ offs \in 0..MaxOff

\* The table write that is under way, or has just returned
At == IF ctl.pc \in {"table", "program"} THEN ctl.next ELSE ctl.pc

\* nmbm_update_info_table is under way
InUpdate ==
  \/ At \in {"update", "backup_written", "main_written", "tmp_written",
             "rescued_main"}
  \/ At \in {"rebuilt_main", "rebuilt_backup"} /\ ctl.built = "update"
  \/ ctl.pc = "range" /\ ctl.next = "update"

\* Every procedure knows where to return, a table that was written lies within
\* its range, and a device that is off has forgotten everything
Control ==
  /\ ctl.pc \in {"table", "program"} => ctl.next \in TableReturns
  /\ ctl.pc = "range" => ctl.next \in RangeReturns
  /\ InUpdate => ctl.ret \in UpdateRets
  /\ ctl.pc = "program" => ctl.ba < ctl.limit
  /\ ctl.pc \in TableReturns /\ ctl.ok => ctl.ba < ctl.limit
  /\ ctl.pc = "off" => ni = FreshInstance /\ ctl = NoControl

TypeInv == Types /\ Control

-----------------------------------------------------------------------------
(* The operators                                                           *)

(* The chip has data blocks, a place for a table and room behind it.       *)
LEMMA Sizes ==
  /\ MgmtStart \in Nat /\ SigBa \in Nat /\ Spare \in Nat
  /\ 0 < MgmtStart /\ MgmtStart + 1 < SigBa
  /\ 0 \in Blocks /\ 0 \in Logic
  /\ Logic \subseteq Blocks
  /\ Blocks \subseteq 0..SigBa /\ Blocks \subseteq Nat
BY NmbmAssumption DEF Blocks, Logic

(* What the map holds can be compared.                                     *)
LEMMA PhysicalInt == PhysicalOrNone \subseteq Int
BY Sizes DEF PhysicalOrNone

\* m has the same mapping as n, and its tables at the same places
SameMap(n, m) == m.map = n.map /\ m.count = n.count
SamePlaces(n, m) ==
  /\ m.main = n.main /\ m.backup = n.backup
  /\ m.mapba = n.mapba /\ m.top = n.top /\ m.prot = n.prot

(* nmbm_set_block_state changes the states of the blocks it is given.      *)
LEMMA SetStateIs ==
  ASSUME NEW n \in NiType, NEW S, NEW s \in States
  PROVE  LET m == SetState(n, S, s)
         IN  /\ m \in NiType
             /\ SameMap(n, m) /\ SamePlaces(n, m) /\ m.wc = n.wc
             /\ \A b \in Blocks : m.state[b] = IF b \in S THEN s ELSE n.state[b]
BY DEF SetState, NiType, SameMap, SamePlaces

(* The same for a block found bad.                                         *)
LEMMA SetBadIs ==
  ASSUME NEW n \in NiType, NEW S
  PROVE  LET m == SetBad(n, S)
         IN  /\ m \in NiType
             /\ SameMap(n, m) /\ SamePlaces(n, m) /\ m.wc = n.wc
             /\ \A b \in Blocks :
                  m.state[b] = IF b \in S THEN "BAD" ELSE n.state[b]
BY SetStateIs, "BAD" \in States DEF SetBad, States

(* nmbm_mark_tables_clean touches only the flag.                           *)
LEMMA CleanIs ==
  ASSUME NEW n \in NiType
  PROVE  /\ Clean(n) \in NiType
         /\ SameMap(n, Clean(n)) /\ SamePlaces(n, Clean(n))
         /\ Clean(n).state = n.state /\ Clean(n).wc = n.wc
BY DEF Clean, NiType, SameMap, SamePlaces

(* nmbm_generate_info_table_cache makes a table of what is in memory.      *)
LEMMA GenerateIs ==
  ASSUME NEW n \in NiType
  PROVE  LET m == Generate(n)
         IN  /\ m \in NiType
             /\ SameMap(n, m) /\ SamePlaces(n, m)
             /\ m.state = n.state
             /\ Table(m) \in TableType /\ Table(m).map = n.map
             /\ Table(m).kind = "table"
<1>. DEFINE m == Generate(n)
<1>1. /\ m \in NiType /\ SameMap(n, m) /\ SamePlaces(n, m) /\ m.state = n.state
      /\ m.map = n.map
  BY DEF Generate, NiType, SameMap, SamePlaces
<1>. HIDE DEF m
<1>2. /\ Table(m) \in TableType /\ Table(m).map = n.map
      /\ Table(m).kind = "table"
  BY <1>1 DEF Table, NiType, TableType
<1>. QED  BY <1>1, <1>2 DEF m

(* Giving a block up changes the state of no other.                        *)
LEMMA CondemnIs ==
  ASSUME NEW n \in NiType, NEW pb
  PROVE  LET m == Condemn(n, pb)
         IN  /\ m \in NiType
             /\ SameMap(n, m) /\ SamePlaces(n, m)
             /\ \A b \in Blocks : b # pb => m.state[b] = n.state[b]
BY SetBadIs DEF Condemn, SameMap, SamePlaces

(* A logic block loses its physical one; the others keep theirs.           *)
LEMMA UnmapIs ==
  ASSUME NEW n \in NiType, NEW lb \in Logic
  PROVE  LET m == Unmap(n, lb)
         IN  /\ m \in NiType
             /\ m.count = n.count /\ SamePlaces(n, m) /\ m.state = n.state
             /\ m.map = [n.map EXCEPT ![lb] = -1]
BY DEF Unmap, NiType, SamePlaces, PhysicalOrNone

(* nmbm_try_reserve_blocks stays within the blocks below the top.          *)
LEMMA ReserveIs ==
  ASSUME NEW n \in NiType, NEW ba \in Nat
  PROVE  /\ Reserve(n, ba) \in Blocks
         /\ Reserve(n, ba) # 0 => ba <= Reserve(n, ba) /\ Reserve(n, ba) + 1 < n.top
<1>. DEFINE good == Good(n, ba, n.top - 2)
            k == Cardinality(good)
<1>1. n.top \in Blocks /\ n.top \in Nat /\ n.top < SigBa
  BY Sizes DEF NiType, Blocks
<1>2. /\ good \subseteq ba..(n.top - 2)
      /\ good \subseteq 0..SigBa
  BY <1>1, Sizes DEF Good
<1>3. IsFiniteSet(0..SigBa)
  BY Sizes, FS_Interval
<1>. HIDE DEF good
<1>4. k \in Nat
  BY <1>2, <1>3, FS_Subset, FS_CardinalityType
<1>5. CASE k = 0
  BY <1>5, Sizes DEF Reserve, good
<1>6. CASE k # 0
  <2>. DEFINE j == IF Spare < k THEN Spare ELSE k - 1
  <2>1. j \in Nat /\ j < k
    BY <1>4, <1>6, Sizes
  <2>. HIDE DEF j
  <2>2. Nth(good, j) \in good
    BY <1>2, <2>1, Sizes, NthOf
  <2>3. Reserve(n, ba) = Nth(good, j)
    BY <1>6 DEF Reserve, good, j
  <2>4. Nth(good, j) \in ba..(n.top - 2)
    BY <1>2, <2>2
  <2>. QED  BY <1>1, <2>3, <2>4, Sizes DEF Blocks
<1>. QED  BY <1>5, <1>6

(* nmbm_map_block finds a good block between the tables and the top.       *)
LEMMA MapBlockIs ==
  ASSUME NEW n \in NiType, NEW lb \in Logic, Unused(n) # {}
  PROVE  LET m == MapBlock(n, lb)
             pb == Max(Unused(n))
         IN  /\ m \in NiType
             /\ pb \in Blocks /\ n.mapba < pb /\ pb <= n.top
             /\ n.state[pb] = "GOOD"
             /\ n.top \in Unused(n) => pb = n.top
             /\ m.map = [n.map EXCEPT ![lb] = pb]
             /\ m.top = n.top - 1 /\ m.state = n.state
             /\ m.main = n.main /\ m.backup = n.backup /\ m.mapba = n.mapba
             /\ m.count = n.count /\ m.prot = n.prot
<1>. DEFINE pb == Max(Unused(n))
<1>1. /\ n.top \in Nat /\ n.top < SigBa /\ n.mapba \in Nat
  BY Sizes DEF NiType, Blocks
<1>2. Unused(n) \subseteq 0..SigBa
  BY <1>1, Sizes DEF Unused, Good
<1>3. pb \in Unused(n) /\ \A y \in Unused(n) : y <= pb
  BY <1>2, Sizes, MaxOf
<1>. HIDE DEF pb
<1>4. /\ pb \in Blocks /\ n.mapba < pb /\ pb <= n.top /\ pb \in Nat
      /\ n.state[pb] = "GOOD"
  BY <1>1, <1>3, Sizes DEF Unused, Good, Blocks
<1>5. n.top \in Unused(n) => pb = n.top
  BY <1>1, <1>3, <1>4
<1>6. n.top - 1 \in Blocks
  BY <1>1, <1>4, Sizes DEF Blocks
<1>7. MapBlock(n, lb) = [n EXCEPT !.map[lb] = pb, !.top = n.top - 1, !.changed = TRUE]
  BY DEF MapBlock, pb, NiType
<1>8. [n.map EXCEPT ![lb] = pb] \in [Logic -> PhysicalOrNone]
  BY <1>4 DEF NiType, PhysicalOrNone
<1>9. /\ MapBlock(n, lb) \in NiType
      /\ MapBlock(n, lb).map = [n.map EXCEPT ![lb] = pb]
      /\ MapBlock(n, lb).top = n.top - 1 /\ MapBlock(n, lb).state = n.state
      /\ MapBlock(n, lb).main = n.main /\ MapBlock(n, lb).backup = n.backup
      /\ MapBlock(n, lb).mapba = n.mapba
      /\ MapBlock(n, lb).count = n.count /\ MapBlock(n, lb).prot = n.prot
  BY <1>6, <1>7, <1>8 DEF NiType
<1>. QED  BY <1>4, <1>5, <1>9 DEF pb

(* What a block holds that says it is a table.                             *)
LEMMA TableIn ==
  ASSUME flash \in [Blocks -> Content], NEW b \in Blocks, flash[b].kind = "table"
  PROVE  flash[b] \in TableType
<1>1. flash[b] \in Content
  OBVIOUS
<1>2. flash[b] # Erased /\ flash[b] # Torn /\ flash[b] \notin DataType
  BY DEF Erased, Torn, DataType
<1>. QED  BY <1>1, <1>2 DEF Content

(* nmbm_search_info_table finds a valid table from the given block on, if  *)
(* it finds one.                                                           *)
LEMMA SearchIs ==
  ASSUME flash \in [Blocks -> Content], NEW n \in NiType, NEW from \in Nat
  PROVE  LET r == Search(n, from)
         IN  /\ r.n \in NiType
             /\ SameMap(n, r.n) /\ SamePlaces(n, r.n) /\ r.n.wc = n.wc
             /\ r.ba \in Blocks
             /\ r.ba # 0 => /\ from <= r.ba /\ r.ba + 1 < SigBa
                            /\ flash[r.ba] \in TableType
                            /\ ValidTable(r.ba)
<1>. DEFINE area == Good(n, from, SigBa - 2)
            found == {b \in area : b \notin mark /\ ValidTable(b)}
            ba == IF found = {} THEN 0 ELSE Min(found)
            S == {b \in area : /\ found = {} \/ b < ba
                               /\ b \in mark \/ flash[b].kind = "torn"}
<1>1. /\ area \subseteq Nat
      /\ \A b \in area : b \in Blocks /\ from <= b /\ b + 1 < SigBa
  BY Sizes DEF Good, Blocks
<1>2. Search(n, from) = [ba |-> ba, n |-> SetBad(n, S)]
  BY DEF Search
<1>. HIDE DEF area
<1>3. found \subseteq Nat
  BY <1>1
<1>4. found # {} => ba \in found
  BY <1>3, MinOf
<1>5. ba \in Blocks
  BY <1>1, <1>4, Sizes
<1>6. ba # 0 => ba \in area /\ ValidTable(ba)
  BY <1>4
<1>. HIDE DEF ba, S, found
<1>7. ba # 0 => flash[ba] \in TableType
  BY <1>5, <1>6, TableIn DEF ValidTable
<1>8. Search(n, from).ba = ba /\ Search(n, from).n = SetBad(n, S)
  BY <1>2
<1>9. /\ SetBad(n, S) \in NiType
      /\ SameMap(n, SetBad(n, S)) /\ SamePlaces(n, SetBad(n, S))
      /\ SetBad(n, S).wc = n.wc
  BY SetBadIs
<1>10. ba # 0 => from <= ba /\ ba + 1 < SigBa
  BY <1>1, <1>6
<1>. QED  BY <1>5, <1>6, <1>7, <1>8, <1>9, <1>10

(* What the table in block b leaves free for mapping.                      *)
LEMMA TopBelowIs ==
  ASSUME NEW b \in Blocks, flash[b] \in TableType
  PROVE  /\ TopBelow(b) \in Blocks
         /\ \A l \in Logic : flash[b].map[l] > b => flash[b].map[l] > TopBelow(b)
<1>. DEFINE S == {SigBa} \cup ({flash[b].map[l] : l \in Logic} \cap (b + 1)..SigBa)
<1>1. /\ flash[b].map \in [Logic -> PhysicalOrNone] /\ b \in Nat /\ b < SigBa
  BY Sizes DEF TableType, Blocks
<1>2. S \subseteq Nat /\ S # {} /\ SigBa \in S /\ \A y \in S : b < y
  BY <1>1, Sizes
<1>3. TopBelow(b) = Min(S) - 1
  BY DEF TopBelow
<1>4. \A l \in Logic : flash[b].map[l] > b => flash[b].map[l] \in S
  BY <1>1, Sizes DEF PhysicalOrNone, Blocks
<1>. HIDE DEF S
<1>5. Min(S) \in S /\ \A y \in S : Min(S) <= y
  BY <1>2, MinOf
<1>6. Min(S) \in Nat /\ b < Min(S) /\ Min(S) <= SigBa
  BY <1>2, <1>5
<1>7. TopBelow(b) \in Blocks
  BY <1>1, <1>3, <1>6, Sizes DEF Blocks
<1>8. \A l \in Logic : flash[b].map[l] \in Int
  BY <1>1, PhysicalInt
<1>9. \A l \in Logic : flash[b].map[l] > b => flash[b].map[l] > TopBelow(b)
  BY <1>3, <1>4, <1>5, <1>6, <1>8
<1>. QED  BY <1>7, <1>9

(* A block that a valid table maps is a data block or lies behind it.      *)
LEMMA ValidMap ==
  ASSUME NEW b \in Blocks, flash[b] \in TableType, ValidTable(b)
  PROVE  \A l \in Logic : flash[b].map[l] >= MgmtStart => flash[b].map[l] > TopBelow(b)
<1>1. \A l \in Logic : flash[b].map[l] \in Int
  BY PhysicalInt DEF TableType
<1>2. \A l \in Logic : flash[b].map[l] >= MgmtStart => flash[b].map[l] > b
  BY <1>1, Sizes DEF ValidTable
<1>. QED  BY <1>2, TopBelowIs

(* The tables in memory become those of a table on the flash.              *)
LEMMA LoadedIs ==
  ASSUME NEW n \in NiType, NEW t \in TableType
  PROVE  /\ Loaded(n, t) \in NiType
         /\ Loaded(n, t).map = t.map
         /\ Loaded(n, t).count = n.count
         /\ SamePlaces(n, Loaded(n, t))
         /\ Loaded(n, t).wc = t.wc
BY DEF Loaded, NiType, TableType, SamePlaces

(* What nmbm_init_structure leaves.                                        *)
LEMMA FreshIs ==
  /\ FreshInstance \in NiType
  /\ FreshInstance.main = 0 /\ FreshInstance.backup = 0
  /\ FreshInstance.count = 0 /\ ~FreshInstance.prot
  /\ \A l \in Logic : FreshInstance.map[l] = -1
BY Sizes DEF FreshInstance, NiType, States, PhysicalOrNone

(* nmbm_load_info_table: nothing was found, or the tables found are in     *)
(* order, and the map is that of one of them.                              *)
LEMMA LoadIs ==
  ASSUME flash \in [Blocks -> Content]
  PROVE  LET n == LoadTables
         IN  /\ n \in NiType /\ ~n.prot
             /\ n.main = 0 => /\ n.backup = 0
                              /\ \A l \in Logic : n.map[l] = -1
             /\ n.main # 0 =>
                  /\ flash[n.main] \in TableType
                  /\ MgmtStart <= n.main /\ n.main < n.mapba
                  /\ n.backup # 0 => /\ flash[n.backup] \in TableType
                                     /\ n.main < n.backup /\ n.backup < n.mapba
                  /\ \E b \in Blocks : /\ flash[b] \in TableType
                                       /\ n.map = flash[b].map
                  /\ \A l \in Logic : n.map[l] >= MgmtStart => n.map[l] > n.top
                  /\ \A l \in Logic : n.map[l] >= 0 => l < n.count
<1>. DEFINE first  == Search(FreshInstance, MgmtStart)
            n1     == Loaded(first.n, flash[first.ba])
            second == Search(n1, first.ba + 1)
            newer  == second.ba # 0 /\ Newer(flash[second.ba], n1)
            n2     == IF newer THEN Loaded(second.n, flash[second.ba]) ELSE second.n
            bt     == IF newer THEN second.ba ELSE first.ba
            C      == {l + 1 : l \in {k \in Logic : n2.map[k] >= 0}}
                        \cup IF \A k \in Logic : n2.map[k] < 0
                             THEN {MgmtStart} ELSE {}
            L      == [n2 EXCEPT
                         !.main = first.ba,
                         !.backup = second.ba,
                         !.top = TopBelow(bt),
                         !.mapba = 1 + IF second.ba = 0 THEN first.ba ELSE second.ba,
                         !.count = Max(C)]
<1>1. LoadTables = IF first.ba = 0 THEN first.n ELSE L
  BY DEF LoadTables
<1>2. /\ first.n \in NiType /\ ~first.n.prot
      /\ first.n.main = 0 /\ first.n.backup = 0
      /\ \A l \in Logic : first.n.map[l] = -1
      /\ first.ba \in Blocks
      /\ first.ba # 0 => /\ MgmtStart <= first.ba /\ first.ba + 1 < SigBa
                         /\ flash[first.ba] \in TableType
                         /\ ValidTable(first.ba)
  BY SearchIs, FreshIs, Sizes DEF SameMap, SamePlaces
<1>. HIDE DEF first
<1>3. CASE first.ba = 0
  BY <1>1, <1>2, <1>3
<1>4. CASE first.ba # 0
  <2>1. /\ n1 \in NiType /\ n1.map = flash[first.ba].map /\ ~n1.prot
    BY <1>2, <1>4, LoadedIs DEF SamePlaces
  <2>2. first.ba + 1 \in Nat
    BY <1>2, Sizes
  <2>. HIDE DEF n1
  <2>3. /\ second.n \in NiType /\ second.n.map = n1.map /\ ~second.n.prot
        /\ second.ba \in Blocks
        /\ second.ba # 0 => /\ first.ba + 1 <= second.ba /\ second.ba + 1 < SigBa
                            /\ flash[second.ba] \in TableType
                            /\ ValidTable(second.ba)
    BY <2>1, <2>2, SearchIs DEF SameMap, SamePlaces
  <2>. HIDE DEF second
  <2>4. /\ n2 \in NiType /\ ~n2.prot
        /\ bt \in Blocks /\ flash[bt] \in TableType /\ ValidTable(bt)
        /\ n2.map = flash[bt].map
    <3>1. CASE newer
      BY <1>2, <2>3, <3>1, LoadedIs DEF SamePlaces
    <3>2. CASE ~newer
      BY <1>2, <1>4, <2>1, <2>3, <3>2
    <3>. QED  BY <3>1, <3>2
  <2>. HIDE DEF n2, bt, newer
  <2>5. TopBelow(bt) \in Blocks
    BY <2>4, TopBelowIs
  <2>6. /\ C \subseteq 0..MgmtStart /\ C # {} /\ \A c \in C : c > 0
        /\ \A l \in Logic : n2.map[l] >= 0 => l + 1 \in C
    <3>1. \A l \in Logic : n2.map[l] \in Int
      BY <2>4, PhysicalInt DEF NiType
    <3>2. \A l \in Logic : l + 1 \in 0..MgmtStart /\ l + 1 > 0
      BY Sizes DEF Logic
    <3>3. MgmtStart \in 0..MgmtStart /\ MgmtStart > 0
      BY Sizes
    <3>4. \A l \in Logic : n2.map[l] >= 0 <=> ~(n2.map[l] < 0)
      BY <3>1
    <3>. QED  BY <3>2, <3>3, <3>4
  <2>. HIDE DEF C
  <2>7. Max(C) \in C /\ \A c \in C : c <= Max(C)
    BY <2>6, Sizes, MaxOf
  <2>8. Max(C) \in 0..MgmtStart
    BY <2>6, <2>7
  <2>9. 1 + (IF second.ba = 0 THEN first.ba ELSE second.ba) \in Blocks
    BY <1>2, <1>4, <2>3, Sizes DEF Blocks
  <2>10. /\ L \in NiType /\ ~L.prot
         /\ L.main = first.ba /\ L.backup = second.ba /\ L.map = n2.map
         /\ L.top = TopBelow(bt) /\ L.count = Max(C)
         /\ L.mapba = 1 + IF second.ba = 0 THEN first.ba ELSE second.ba
    BY <1>2, <2>3, <2>4, <2>5, <2>8, <2>9 DEF NiType
  <2>11. LoadTables = L
    BY <1>1, <1>4
  <2>. HIDE DEF L
  <2>12. \A l \in Logic : L.map[l] >= MgmtStart => L.map[l] > L.top
    BY <2>4, <2>10, ValidMap
  <2>13. \A l \in Logic : L.map[l] >= 0 => l < L.count
    <3>1. \A l \in Logic : l \in Nat
      BY Sizes
    <3>. QED  BY <2>6, <2>7, <2>8, <2>10, <3>1
  <2>14. /\ first.ba < L.mapba
         /\ L.backup # 0 => first.ba < L.backup /\ L.backup < L.mapba
    BY <1>2, <2>3, <2>10, Sizes
  <2>. QED  BY <1>2, <1>4, <2>3, <2>4, <2>10, <2>11, <2>12, <2>13, <2>14
<1>. QED  BY <1>3, <1>4

(* nmbm_scan_badblocks and nmbm_build_mapping_table: data blocks in order. *)
LEMMA BuildMappingIs ==
  ASSUME NEW n \in NiType
  PROVE  LET m == BuildMapping(n)
         IN  /\ m \in NiType /\ SamePlaces(n, m)
             /\ \A l \in Logic : m.map[l] < MgmtStart
             /\ \A k, l \in Logic : k # l /\ m.map[k] >= 0 => m.map[k] # m.map[l]
<1>. DEFINE b == SetBad(n, mark)
            good == {c \in Logic : b.state[c] # "BAD"}
            map == [l \in Logic |-> IF l < Cardinality(good)
                                    THEN Nth(good, l) ELSE -1]
<1>1. b \in NiType /\ SamePlaces(n, b)
  BY SetBadIs
<1>2. BuildMapping(n) = [b EXCEPT !.map = map, !.count = Cardinality(good)]
  BY DEF BuildMapping
<1>. HIDE DEF b
<1>3. good \subseteq Logic /\ good \subseteq 0..MgmtStart
  BY Sizes DEF Logic
<1>4. Cardinality(good) \in 0..MgmtStart
  <2>1. IsFiniteSet(Logic) /\ Cardinality(Logic) = MgmtStart
    <3>1. IsFiniteSet(0..(MgmtStart - 1))
      BY Sizes, FS_Interval
    <3>2. Cardinality(0..(MgmtStart - 1)) = MgmtStart
      BY Sizes, FS_Interval
    <3>. QED  BY <3>1, <3>2 DEF Logic
  <2>2. IsFiniteSet(good) /\ Cardinality(good) <= MgmtStart
    BY <1>3, <2>1, FS_Subset
  <2>3. Cardinality(good) \in Nat
    BY <2>2, FS_CardinalityType
  <2>. QED  BY <2>2, <2>3, Sizes
<1>. HIDE DEF good
<1>5. \A l \in Logic : l < Cardinality(good) =>
        /\ Nth(good, l) \in good
        /\ Cardinality({c \in good : c < Nth(good, l)}) = l
  <2>1. \A l \in Logic : l \in Nat
    BY Sizes
  <2>. QED  BY <1>3, <2>1, Sizes, NthOf
<1>6. \A l \in Logic : map[l] \in Logic \cup {-1}
  BY <1>3, <1>5
<1>7. map \in [Logic -> PhysicalOrNone]
  <2>1. Logic \cup {-1} \subseteq PhysicalOrNone
    BY Sizes DEF PhysicalOrNone
  <2>. QED  BY <1>6, <2>1
<1>8. \A l \in Logic : map[l] < MgmtStart
  <2>1. \A x \in Logic \cup {-1} : x < MgmtStart
    BY Sizes DEF Logic
  <2>. QED  BY <1>6, <2>1
<1>9. \A k, l \in Logic : k # l /\ map[k] >= 0 => map[k] # map[l]
  <2>. SUFFICES ASSUME NEW k \in Logic, NEW l \in Logic, map[k] >= 0, map[k] = map[l]
                PROVE  k = l
    OBVIOUS
  <2>1. \A j \in Logic : map[j] >= 0 => j < Cardinality(good) /\ map[j] = Nth(good, j)
    OBVIOUS
  <2>2. k < Cardinality(good) /\ map[k] = Nth(good, k)
    BY <2>1
  <2>3. l < Cardinality(good) /\ map[l] = Nth(good, l)
    BY <2>1
  <2>. QED  BY <1>5, <2>2, <2>3
<1>. HIDE DEF map
<1>10. /\ BuildMapping(n) \in NiType
       /\ BuildMapping(n).map = map
       /\ SamePlaces(b, BuildMapping(n))
  BY <1>1, <1>2, <1>4, <1>7 DEF NiType, SamePlaces
<1>. QED  BY <1>1, <1>8, <1>9, <1>10 DEF SamePlaces

\* d differs from c only in what a range operation is given
SameCaller(c, d) ==
  /\ d.ok = c.ok /\ d.wba = c.wba /\ d.tmp = c.tmp /\ d.ret = c.ret
  /\ d.built = c.built /\ d.lb = c.lb /\ d.val = c.val /\ d.cache = c.cache

(* The places a table write or an erase of a range returns to.             *)
LEMMA Places ==
  /\ "backup_written" \in TableReturns /\ "main_written" \in TableReturns
  /\ "tmp_written" \in TableReturns /\ "rescued_main" \in TableReturns
  /\ "rebuilt_main" \in TableReturns /\ "rebuilt_backup" \in TableReturns
  /\ "one_main" \in TableReturns /\ "one_backup" \in TableReturns
  /\ "single_front" \in TableReturns /\ "single_behind" \in TableReturns
  /\ "update" \in RangeReturns /\ "create" \in RangeReturns
  /\ "attached" \in RangeReturns /\ "single_clean" \in RangeReturns
BY DEF TableReturns, RangeReturns

(* nmbm_write_info_table begins; its caller is remembered.                 *)
LEMMA WriteTableIs ==
  ASSUME NEW c \in CtlType, NEW ba \in 0..SigBa, NEW limit \in Blocks,
         NEW next \in TableReturns
  PROVE  LET d == WriteTable(c, ba, limit, next)
         IN  /\ d \in CtlType /\ SameCaller(c, d)
             /\ d.pc = "table" /\ d.ba = ba /\ d.limit = limit /\ d.next = next
BY DEF WriteTable, CtlType, SameCaller, Pcs

(* nmbm_erase_range begins; its caller is remembered.                      *)
LEMMA EraseRangeIs ==
  ASSUME NEW c \in CtlType, NEW ba \in 0..SigBa, NEW limit \in Blocks,
         NEW next \in RangeReturns
  PROVE  LET d == EraseRange(c, ba, limit, next)
         IN  /\ d \in CtlType /\ SameCaller(c, d)
             /\ d.pc = "range" /\ d.ba = ba /\ d.limit = limit /\ d.next = next
BY DEF EraseRange, CtlType, SameCaller, Pcs

\* c goes on at pc
LEMMA GoOnIs ==
  ASSUME NEW c \in CtlType, NEW pc \in Pcs
  PROVE  LET d == [c EXCEPT !.pc = pc]
         IN  /\ d \in CtlType /\ SameCaller(c, d)
             /\ d.pc = pc /\ d.ba = c.ba /\ d.limit = c.limit /\ d.next = c.next
BY DEF CtlType, SameCaller

(* A device that is off.                                                   *)
LEMMA NoControlIs ==
  /\ NoControl \in CtlType
  /\ NoControl.pc = "off" /\ NoControl.ret = "off" /\ NoControl.cache = Erased
BY Sizes DEF NoControl, CtlType, Pcs

(* A device between two calls.                                             *)
LEMMA IdleIs ==
  /\ Idle \in CtlType
  /\ Idle.pc = "idle" /\ Idle.ret = "off" /\ Idle.cache = Erased
BY NoControlIs DEF Idle, CtlType, Pcs, UpdateRets

(* nmbm_update_info_table returns to its caller.                           *)
LEMMA UpdateReturnsIs ==
  ASSUME ctl \in CtlType, ctl.ret \in UpdateRets, NEW r \in BOOLEAN
  PROVE  LET d == UpdateReturns(r)
         IN  /\ d \in CtlType /\ d.cache = Erased
             /\ d.pc = ctl.ret /\ d.ret = "off"
             /\ d.pc # "idle" => d.lb = ctl.lb
<1>1. CASE ctl.ret = "idle"
  BY <1>1, IdleIs DEF UpdateReturns
<1>2. CASE ctl.ret # "idle"
  <2>. DEFINE d == [NoControl EXCEPT !.pc = ctl.ret, !.ok = r, !.lb = ctl.lb]
  <2>1. UpdateReturns(r) = d
    BY <1>2 DEF UpdateReturns
  <2>2. ctl.ret \in Pcs /\ ctl.lb \in Logic
    BY DEF Pcs, CtlType
  <2>3. d \in CtlType
    BY <2>2, NoControlIs, ZenonT(60) DEF CtlType
  <2>4. /\ d.cache = NoControl.cache /\ d.ret = NoControl.ret
        /\ d.pc = ctl.ret /\ d.lb = ctl.lb
    BY NoControlIs DEF CtlType
  <2>. HIDE DEF d
  <2>. QED  BY <2>1, <2>3, <2>4, NoControlIs
<1>. QED  BY <1>1, <1>2

(* nmbm_rebuild_info_table returns to its caller.                          *)
LEMMA RebuildReturnsIs ==
  ASSUME ctl \in CtlType, ctl.built = "update" => ctl.ret \in UpdateRets, NEW r \in BOOLEAN
  PROVE  LET d == RebuildReturns(r)
         IN  /\ d \in CtlType
             /\ r => d = [ctl EXCEPT !.pc = ctl.built] /\ d.pc = ctl.built
             /\ ~r => /\ d.pc = IF ctl.built = "update" THEN ctl.ret ELSE "dead"
                      /\ d.ret = "off" /\ d.cache = Erased
                      /\ d.pc \notin {"idle", "dead"} => d.lb = ctl.lb
<1>1. CASE r
  BY <1>1 DEF RebuildReturns, CtlType, Pcs, RangeReturns
<1>2. CASE ~r /\ ctl.built = "update"
  BY <1>2, UpdateReturnsIs DEF RebuildReturns
<1>3. CASE ~r /\ ctl.built # "update"
  BY <1>3, NoControlIs DEF RebuildReturns, CtlType, Pcs
<1>. QED  BY <1>1, <1>2, <1>3

-----------------------------------------------------------------------------
(* Every step keeps the types                                              *)

(* A block that fails is torn or keeps its contents; no other changes.     *)
LEMMA BlockFailsIs ==
  ASSUME Types, NEW b \in Blocks, BlockFails(b)
  PROVE  /\ flash' \in [Blocks -> Content]
         /\ mark' \subseteq Blocks
         /\ fails' \in 0..MaxFail
         /\ \A c \in Blocks : flash'[c] = flash[c] \/ (c = b /\ flash'[c] = Torn)
<1>1. flash' = [flash EXCEPT ![b] = Torn] \/ flash' = flash
  BY DEF BlockFails
<1>2. mark' \subseteq mark \cup {b}
  BY DEF BlockFails, MarkBlock
<1>3. fails' \in 0..MaxFail
  BY NmbmAssumption DEF BlockFails, MarkBlock, Types
<1>4. Torn \in Content
  BY DEF Content
<1>. QED  BY <1>1, <1>2, <1>3, <1>4 DEF Types

(* The block that a range operation works on lies within the range.        *)
LEMMA UsableIs ==
  ASSUME Types, Usable # {}
  PROVE  /\ Min(Usable) \in Blocks
         /\ ctl.ba <= Min(Usable) /\ Min(Usable) < ctl.limit
         /\ Min(Usable) + 1 \in 0..SigBa
<1>1. ctl.ba \in Nat /\ ctl.limit \in Nat /\ ctl.limit < SigBa
  BY Sizes DEF Types, CtlType, Blocks
<1>2. Usable \subseteq ctl.ba..(ctl.limit - 1)
  BY DEF Usable, Good
<1>3. Usable \subseteq Nat
  BY <1>1, <1>2
<1>4. Min(Usable) \in ctl.ba..(ctl.limit - 1)
  BY <1>2, <1>3, MinOf
<1>. QED  BY <1>1, <1>4, Sizes DEF Blocks

\* What a step that leaves flash and users alone has to show
LEMMA MemoryType ==
  ASSUME Types, Memory, ni' \in NiType, ctl' \in CtlType
  PROVE  Types'
BY DEF Types, Memory

(* An operation on a range, and its return.                                *)
LEMMA RangeType ==
  ASSUME TypeInv,
         TableErase \/ TableProgram \/ TableNoRoom \/ RangeErase \/ RangeDone
  PROVE  TypeInv'
<1>. USE DEF TypeInv
<1>1. CASE TableErase
  <2>. DEFINE b == Min(Usable)
              n == SetBad(ni, PassedOver(b))
  <2>1. ctl.pc = "table" /\ Usable # {} /\ UNCHANGED <<disk, skipped, offs>>
    BY <1>1 DEF TableErase, ghosts
  <2>2. b \in Blocks /\ b < ctl.limit /\ b \in 0..SigBa /\ b + 1 \in 0..SigBa
    BY <2>1, UsableIs, Sizes
  <2>3. n \in NiType
    BY SetBadIs DEF Types
  <2>4. \/ /\ flash' = [flash EXCEPT ![b] = Erased]
           /\ ni' = n
           /\ ctl' = [ctl EXCEPT !.pc = "program", !.ba = b]
           /\ UNCHANGED <<mark, fails>>
        \/ /\ BlockFails(b)
           /\ ni' = SetBad(n, {b})
           /\ ctl' = [ctl EXCEPT !.ba = b + 1]
    BY <1>1 DEF TableErase
  <2>. HIDE DEF b, n
  <2>5. ni' \in NiType
    BY <2>3, <2>4, SetBadIs
  <2>6. /\ ctl' \in CtlType
        /\ ctl'.next = ctl.next /\ ctl'.ret = ctl.ret /\ ctl'.built = ctl.built
        /\ ctl'.limit = ctl.limit
        /\ (ctl'.pc = "program" /\ ctl'.ba = b) \/ ctl'.pc = "table"
    BY <2>1, <2>2, <2>4, ZenonT(60) DEF Types, CtlType, Pcs
  <2>7. flash' \in [Blocks -> Content] /\ mark' \subseteq Blocks /\ fails' \in 0..MaxFail
    BY <2>2, <2>4, BlockFailsIs DEF Types, Content
  <2>8. Control'
    BY <2>1, <2>2, <2>6 DEF Control, At, InUpdate, TableReturns
  <2>. QED  BY <2>1, <2>5, <2>6, <2>7, <2>8 DEF Types
<1>2. CASE TableProgram
  <2>1. /\ ctl.pc = "program" /\ UNCHANGED <<disk, skipped, offs>>
        /\ ctl.ba < ctl.limit /\ ctl.next \in TableReturns
    BY <1>2 DEF TableProgram, ghosts, Control
  <2>2. ctl.ba \in Blocks /\ ctl.ba + 1 \in 0..SigBa
    BY <2>1, Sizes DEF Types, CtlType, Blocks
  <2>3. \/ /\ flash' = [flash EXCEPT ![ctl.ba] = ctl.cache]
           /\ ctl' = [ctl EXCEPT !.pc = ctl.next, !.ok = TRUE]
           /\ UNCHANGED <<ni, mark, fails>>
        \/ /\ BlockFails(ctl.ba)
           /\ ni' = SetBad(ni, {ctl.ba})
           /\ ctl' = [ctl EXCEPT !.pc = "table", !.ba = ctl.ba + 1]
    BY <1>2 DEF TableProgram, Types, CtlType
  <2>4. ni' \in NiType
    BY <2>3, SetBadIs DEF Types
  <2>5. /\ ctl' \in CtlType
        /\ ctl'.next = ctl.next /\ ctl'.ret = ctl.ret /\ ctl'.built = ctl.built
        /\ ctl'.limit = ctl.limit
        /\ (ctl'.pc = ctl.next /\ ctl'.ba = ctl.ba) \/ ctl'.pc = "table"
    BY <2>1, <2>2, <2>3, ZenonT(60) DEF Types, CtlType, Pcs
  <2>6. ctl.cache \in Content
    BY DEF Types, CtlType, Content
  <2>7. flash' \in [Blocks -> Content] /\ mark' \subseteq Blocks /\ fails' \in 0..MaxFail
    BY <2>2, <2>3, <2>6, BlockFailsIs DEF Types
  <2>8. Control'
    BY <2>1, <2>5 DEF Control, At, InUpdate, TableReturns
  <2>. QED  BY <2>1, <2>4, <2>5, <2>7, <2>8 DEF Types
<1>3. CASE TableNoRoom
  <2>1. /\ ctl.pc = "table" /\ ctl.next \in TableReturns
        /\ ni' = SetBad(ni, PassedOver(ctl.limit))
        /\ ctl' = [ctl EXCEPT !.pc = ctl.next, !.ok = FALSE]
        /\ UNCHANGED <<flash, mark, disk, skipped, fails, offs>>
    BY <1>3 DEF TableNoRoom, ghosts, Control
  <2>2. ni' \in NiType
    BY <2>1, SetBadIs DEF Types
  <2>3. /\ ctl' \in CtlType /\ ~ctl'.ok
        /\ ctl'.next = ctl.next /\ ctl'.ret = ctl.ret /\ ctl'.built = ctl.built
        /\ ctl'.pc = ctl.next
    BY <2>1 DEF Types, CtlType, Pcs
  <2>4. Control'
    BY <2>1, <2>3 DEF Control, At, InUpdate, TableReturns
  <2>. QED  BY <2>1, <2>2, <2>3, <2>4 DEF Types
<1>4. CASE RangeErase
  <2>. DEFINE b == Min(Usable)
              n == SetBad(ni, PassedOver(b))
  <2>1. /\ ctl.pc = "range" /\ Usable # {} /\ UNCHANGED <<disk, skipped, offs>>
        /\ ctl' = [ctl EXCEPT !.ba = b + 1]
    BY <1>4 DEF RangeErase, ghosts
  <2>2. b \in Blocks /\ b + 1 \in 0..SigBa
    BY <2>1, UsableIs
  <2>3. n \in NiType
    BY SetBadIs DEF Types
  <2>4. \/ /\ flash' = [flash EXCEPT ![b] = Erased]
           /\ ni' = n
           /\ UNCHANGED <<mark, fails>>
        \/ /\ BlockFails(b)
           /\ ni' = SetBad(n, {b})
    BY <1>4 DEF RangeErase
  <2>. HIDE DEF b, n
  <2>5. ni' \in NiType
    BY <2>3, <2>4, SetBadIs
  <2>6. /\ ctl' \in CtlType
        /\ ctl'.next = ctl.next /\ ctl'.ret = ctl.ret /\ ctl'.pc = "range"
    BY <2>1, <2>2 DEF Types, CtlType, Pcs
  <2>7. flash' \in [Blocks -> Content] /\ mark' \subseteq Blocks /\ fails' \in 0..MaxFail
    BY <2>2, <2>4, BlockFailsIs DEF Types, Content
  <2>8. Control'
    BY <2>1, <2>6 DEF Control, At, InUpdate, TableReturns
  <2>. QED  BY <2>1, <2>5, <2>6, <2>7, <2>8 DEF Types
<1>5. CASE RangeDone
  <2>1. /\ ctl.pc = "range" /\ ctl.next \in RangeReturns
        /\ ni' = SetBad(ni, PassedOver(ctl.limit))
        /\ ctl' = [ctl EXCEPT !.pc = ctl.next, !.ok = TRUE]
        /\ UNCHANGED <<flash, mark, disk, skipped, fails, offs>>
    BY <1>5 DEF RangeDone, ghosts, Control
  <2>2. ni' \in NiType
    BY <2>1, SetBadIs DEF Types
  <2>3. /\ ctl' \in CtlType
        /\ ctl'.next = ctl.next /\ ctl'.ret = ctl.ret /\ ctl'.pc = ctl.next
    BY <2>1 DEF Types, CtlType, Pcs
  <2>4. Control'
    BY <2>1, <2>3 DEF Control, At, InUpdate, TableReturns, RangeReturns
  <2>. QED  BY <2>1, <2>2, <2>3, <2>4 DEF Types
<1>. QED  BY <1>1, <1>2, <1>3, <1>4, <1>5

(* nmbm_rebuild_info_table begins.                                         *)
LEMMA RebuildType ==
  ASSUME NEW n \in NiType, NEW c \in CtlType, NEW b \in {"update", "create"},
         Rebuild(n, c, b)
  PROVE  /\ ni' \in NiType /\ ctl' \in CtlType
         /\ ni'.main = 0 /\ ni'.backup = 0 /\ ni'.mapba = n.top /\ ni'.top = n.top
         /\ ni'.prot = n.prot /\ SameMap(n, ni') /\ ni'.state = n.state
         /\ ctl'.pc = "table" /\ ctl'.next = "rebuilt_main"
         /\ ctl'.ba = MgmtStart /\ ctl'.limit = n.top
         /\ ctl'.built = b /\ ctl'.ret = c.ret /\ ctl'.lb = c.lb
         /\ ctl'.cache = c.cache
<1>. DEFINE d == [c EXCEPT !.built = b]
<1>1. /\ d \in CtlType
      /\ d.built = b /\ d.ret = c.ret /\ d.lb = c.lb /\ d.cache = c.cache
  BY DEF CtlType
<1>. HIDE DEF d
<1>2. ctl' = WriteTable(d, MgmtStart, n.top, "rebuilt_main")
  BY DEF Rebuild, d
<1>3. MgmtStart \in 0..SigBa /\ n.top \in Blocks
  BY Sizes DEF NiType
<1>4. /\ ctl' \in CtlType /\ SameCaller(d, ctl')
      /\ ctl'.pc = "table" /\ ctl'.next = "rebuilt_main"
      /\ ctl'.ba = MgmtStart /\ ctl'.limit = n.top
  BY <1>1, <1>2, <1>3, WriteTableIs, Places, SMTT(40)
<1>5. /\ ni' \in NiType
      /\ ni'.main = 0 /\ ni'.backup = 0 /\ ni'.mapba = n.top /\ ni'.top = n.top
      /\ ni'.prot = n.prot /\ SameMap(n, ni') /\ ni'.state = n.state
  BY Sizes DEF Rebuild, NiType, SameMap
<1>. QED  BY <1>1, <1>4, <1>5 DEF SameCaller

(* The main table is going to be written.                                  *)
LEMMA WriteMainType ==
  ASSUME NEW n \in NiType, NEW c \in CtlType, NEW limit \in Blocks,
         WriteMain(n, c, limit)
  PROVE  /\ ni' = n /\ ctl' \in CtlType /\ SameCaller(c, ctl')
         /\ ctl'.pc = "table" /\ ctl'.next = "main_written"
         /\ ctl'.ba = n.main /\ ctl'.limit = limit
<1>1. n.main \in 0..SigBa
  BY Sizes DEF NiType
<1>. QED  BY <1>1, WriteTableIs, Places DEF WriteMain

(* A table write that went well left its table within its range.           *)
LEMMA HereIs ==
  ASSUME TypeInv, ctl.pc \in TableReturns, ctl.ok
  PROVE  /\ Here \in Blocks /\ End \in Blocks
         /\ Here = ctl.ba /\ End = ctl.ba + 1 /\ Here < ctl.limit
<1>1. ctl.ba \in 0..SigBa /\ ctl.limit \in Blocks /\ ctl.ba < ctl.limit
  BY DEF TypeInv, Types, CtlType, Control
<1>. QED  BY <1>1, Sizes DEF Here, End, Blocks

(* The loop of nmbm_update_info_table, and what it falls back to.          *)
LEMMA UpdateType ==
  ASSUME TypeInv,
         \/ Update \/ BackupWritten \/ MainWritten \/ MainFailed
         \/ TmpWritten \/ RescuedMain
  PROVE  TypeInv'
<1>. USE DEF TypeInv
<1>1. /\ ni \in NiType /\ ctl \in CtlType
      /\ ni.top \in Blocks /\ ni.backup \in Blocks /\ ni.main \in Blocks
      /\ ni.mapba \in Blocks /\ ni.mapba \in Nat
      /\ ctl.wba \in Blocks /\ ctl.wba \in Nat /\ ctl.tmp \in Blocks
      /\ Blocks \subseteq 0..SigBa
  BY Sizes DEF Types, NiType, CtlType
<1>2. Memory
  BY DEF Update, BackupWritten, MainWritten, MainFailed, TmpWritten, RescuedMain
<1>3. ctl.ret \in UpdateRets
  BY DEF Update, BackupWritten, MainWritten, MainFailed, TmpWritten, RescuedMain,
         Control, InUpdate, At
<1>4. SUFFICES ni' \in NiType /\ ctl' \in CtlType /\ Control'
  BY <1>2, MemoryType
<1>5. CASE Update
  <2>1. CASE ni.prot \/ ~ni.changed
    <3>1. ctl' = UpdateReturns(TRUE) /\ ni' = ni
      BY <1>5, <2>1 DEF Update
    <3>2. ctl' \in CtlType /\ ctl'.pc \in UpdateRets
      BY <1>1, <1>3, <3>1, UpdateReturnsIs
    <3>3. Control'
      BY <3>2 DEF Control, At, InUpdate, UpdateRets, TableReturns
    <3>. QED  BY <1>1, <3>1, <3>2, <3>3
  <2>2. CASE ~(ni.prot \/ ~ni.changed)
    <3>. DEFINE n == Generate(ni)
                c == [ctl EXCEPT !.cache = Table(n)]
    <3>1. n \in NiType /\ Table(n) \in TableType /\ n.main = ni.main
      BY <1>1, GenerateIs DEF SamePlaces
    <3>. HIDE DEF n
    <3>2. c \in CtlType /\ c.ret = ctl.ret
      BY <1>1, <3>1 DEF CtlType
    <3>3. \/ WriteMain(n, c, ni.top)
          \/ ni' = n /\ ctl' = WriteTable(c, ni.backup, ni.top, "backup_written")
      BY <1>5, <2>2 DEF Update, n
    <3>. HIDE DEF c
    <3>4. /\ ni' \in NiType /\ ctl' \in CtlType /\ ctl'.ret = ctl.ret
          /\ ctl'.pc = "table" /\ ctl'.next \in TableReturns
      <4>1. CASE WriteMain(n, c, ni.top)
        BY <1>1, <3>1, <3>2, <4>1, WriteMainType, Places DEF SameCaller
      <4>2. CASE ni' = n /\ ctl' = WriteTable(c, ni.backup, ni.top, "backup_written")
        <5>1. ni.backup \in 0..SigBa /\ ni.top \in Blocks
          BY <1>1
        <5>. QED  BY <3>1, <3>2, <4>2, <5>1, WriteTableIs, Places DEF SameCaller
      <4>. QED  BY <3>3, <4>1, <4>2
    <3>5. Control'
      BY <1>3, <3>4 DEF Control, At, InUpdate, TableReturns
    <3>. QED  BY <3>4, <3>5
  <2>. QED  BY <2>1, <2>2
<1>6. CASE BackupWritten
  <2>1. CASE ctl.ok
    <3>. DEFINE n == [Clean(ni) EXCEPT !.backup = Here, !.mapba = End]
    <3>1. Here \in Blocks /\ End \in Blocks
      BY <1>6, <2>1, HereIs DEF BackupWritten, TableReturns
    <3>2. n \in NiType
      BY <1>1, <3>1, CleanIs DEF NiType
    <3>3. WriteMain(n, ctl, Here)
      BY <1>6, <2>1 DEF BackupWritten
    <3>. HIDE DEF n
    <3>4. /\ ni' \in NiType /\ ctl' \in CtlType /\ ctl'.ret = ctl.ret
          /\ ctl'.pc = "table" /\ ctl'.next = "main_written"
      BY <1>1, <3>1, <3>2, <3>3, WriteMainType DEF SameCaller
    <3>5. Control'
      BY <1>3, <3>4 DEF Control, At, InUpdate, TableReturns
    <3>. QED  BY <3>4, <3>5
  <2>2. CASE ~ctl.ok
    <3>. DEFINE n == [ni EXCEPT !.mapba = ni.backup, !.backup = 0]
    <3>1. n \in NiType
      BY <1>1, Sizes DEF NiType
    <3>2. WriteMain(n, ctl, ni.top)
      BY <1>6, <2>2 DEF BackupWritten
    <3>. HIDE DEF n
    <3>3. /\ ni' \in NiType /\ ctl' \in CtlType /\ ctl'.ret = ctl.ret
          /\ ctl'.pc = "table" /\ ctl'.next = "main_written"
      BY <1>1, <3>1, <3>2, WriteMainType DEF SameCaller
    <3>4. Control'
      BY <1>3, <3>3 DEF Control, At, InUpdate, TableReturns
    <3>. QED  BY <3>3, <3>4
  <2>. QED  BY <2>1, <2>2
<1>7. CASE MainWritten
  <2>1. /\ ni' = [Clean(ni) EXCEPT !.main = Here,
                                   !.mapba = IF ni.backup = 0 THEN End ELSE ni.mapba]
        /\ ctl' = [ctl EXCEPT !.pc = "update"]
        /\ Here \in Blocks /\ End \in Blocks
    BY <1>1, <1>7, HereIs, CleanIs DEF MainWritten, TableReturns, SamePlaces, NiType
  <2>2. ni' \in NiType
    BY <1>1, <2>1, CleanIs DEF NiType
  <2>3. ctl' \in CtlType /\ ctl'.pc = "update" /\ ctl'.ret = ctl.ret
    BY <1>1, <2>1, GoOnIs DEF Pcs, RangeReturns, SameCaller
  <2>4. Control'
    BY <1>3, <2>3 DEF Control, At, InUpdate, TableReturns
  <2>. QED  BY <2>2, <2>3, <2>4
<1>8. CASE MainFailed
  <2>1. CASE ni.backup = 0
    <3>1. Rebuild(ni, ctl, "update")
      BY <1>8, <2>1 DEF MainFailed
    <3>2. /\ ni' \in NiType /\ ctl' \in CtlType /\ ctl'.ret = ctl.ret
          /\ ctl'.pc = "table" /\ ctl'.next = "rebuilt_main"
      BY <1>1, <3>1, RebuildType
    <3>3. Control'
      BY <1>3, <3>2 DEF Control, At, InUpdate, TableReturns
    <3>. QED  BY <3>2, <3>3
  <2>2. CASE ni.backup # 0 /\ Reserve(ni, ni.mapba) = 0
    <3>1. /\ ni' = [ni EXCEPT !.main = ni.backup, !.backup = 0]
          /\ ctl' = [ctl EXCEPT !.pc = "update"]
      BY <1>8, <2>2 DEF MainFailed
    <3>2. ni' \in NiType
      BY <1>1, <3>1, Sizes DEF NiType
    <3>3. ctl' \in CtlType /\ ctl'.pc = "update" /\ ctl'.ret = ctl.ret
      BY <1>1, <3>1, GoOnIs DEF Pcs, RangeReturns, SameCaller
    <3>4. Control'
      BY <1>3, <3>3 DEF Control, At, InUpdate, TableReturns
    <3>. QED  BY <3>2, <3>3, <3>4
  <2>3. CASE ni.backup # 0 /\ Reserve(ni, ni.mapba) # 0
    <3>2. PICK w \in 0..SigBa : w = Reserve(ni, ni.mapba) /\ w \in Blocks
      BY <1>1, ReserveIs
    <3>. DEFINE d == WriteTable(ctl, w, ni.top, "tmp_written")
    <3>1. /\ ni' = ni
          /\ ctl' = [d EXCEPT !.wba = w]
      BY <1>8, <2>3, <3>2 DEF MainFailed
    <3>3. /\ d \in CtlType /\ d.ret = ctl.ret
          /\ d.pc = "table" /\ d.next = "tmp_written"
      <4>1. "tmp_written" \in TableReturns
        BY Places
      <4>2. /\ d \in CtlType /\ SameCaller(ctl, d)
            /\ d.pc = "table" /\ d.next = "tmp_written"
        <5>1. ctl \in CtlType /\ ni.top \in Blocks
          BY <1>1
        <5>. QED  BY <4>1, <5>1, WriteTableIs
      <4>. QED  BY <4>2 DEF SameCaller
    <3>. HIDE DEF d
    <3>4. /\ ctl' \in CtlType /\ ctl'.ret = ctl.ret
          /\ ctl'.pc = "table" /\ ctl'.next = "tmp_written"
      BY <3>1, <3>2, <3>3 DEF CtlType
    <3>5. Control'
      BY <1>3, <3>4 DEF Control, At, InUpdate, TableReturns
    <3>. QED  BY <1>1, <3>1, <3>4, <3>5
  <2>. QED  BY <2>1, <2>2, <2>3
<1>9. CASE TmpWritten
  <2>1. CASE ctl.ok
    <3>. DEFINE d == WriteTable(ctl, MgmtStart, Here, "rescued_main")
    <3>1. Here \in Blocks /\ End \in Blocks /\ MgmtStart \in 0..SigBa
      BY <1>9, <2>1, HereIs, Sizes DEF TmpWritten, TableReturns
    <3>2. /\ ni' = [ni EXCEPT !.mapba = End]
          /\ ctl' = [d EXCEPT !.tmp = Here]
      BY <1>9, <2>1 DEF TmpWritten
    <3>3. /\ d \in CtlType /\ d.ret = ctl.ret
          /\ d.pc = "table" /\ d.next = "rescued_main"
      BY <1>1, <3>1, WriteTableIs, Places DEF SameCaller
    <3>. HIDE DEF d
    <3>4. /\ ctl' \in CtlType /\ ctl'.ret = ctl.ret
          /\ ctl'.pc = "table" /\ ctl'.next = "rescued_main"
      BY <3>1, <3>2, <3>3 DEF CtlType
    <3>5. Control'
      BY <1>3, <3>4 DEF Control, At, InUpdate, TableReturns
    <3>6. ni' \in NiType
      BY <1>1, <3>1, <3>2 DEF NiType
    <3>. QED  BY <3>4, <3>5, <3>6
  <2>2. CASE ~ctl.ok /\ ctl.wba > ni.mapba
    <3>. DEFINE d == WriteTable(ctl, ctl.wba - 1, ni.top, "tmp_written")
    <3>1. /\ ctl.wba - 1 \in Blocks /\ ctl.wba - 1 \in 0..SigBa
          /\ ctl \in CtlType /\ ni.top \in Blocks
      BY <1>1, <2>2, Sizes DEF Blocks
    <3>2. /\ d \in CtlType /\ d.ret = ctl.ret /\ d.wba = ctl.wba
          /\ d.pc = "table" /\ d.next = "tmp_written"
      <4>1. "tmp_written" \in TableReturns
        BY Places
      <4>2. /\ d \in CtlType /\ SameCaller(ctl, d)
            /\ d.pc = "table" /\ d.next = "tmp_written"
        BY <3>1, <4>1, WriteTableIs
      <4>. QED  BY <4>2 DEF SameCaller
    <3>3. ni' = ni /\ ctl' = [d EXCEPT !.wba = d.wba - 1]
      BY <1>9, <2>2, <3>2 DEF TmpWritten, CtlType
    <3>. HIDE DEF d
    <3>4. /\ ctl' \in CtlType /\ ctl'.ret = ctl.ret
          /\ ctl'.pc = "table" /\ ctl'.next = "tmp_written"
      BY <3>1, <3>2, <3>3 DEF CtlType
    <3>5. Control'
      BY <1>3, <3>4 DEF Control, At, InUpdate, TableReturns
    <3>. QED  BY <1>1, <3>3, <3>4, <3>5
  <2>3. CASE ~ctl.ok /\ ~(ctl.wba > ni.mapba)
    <3>1. /\ ni' = [ni EXCEPT !.main = ni.backup, !.backup = 0]
          /\ ctl' = [ctl EXCEPT !.pc = "update"]
      BY <1>9, <2>3 DEF TmpWritten
    <3>2. ni' \in NiType
      BY <1>1, <3>1, Sizes DEF NiType
    <3>3. ctl' \in CtlType /\ ctl'.pc = "update" /\ ctl'.ret = ctl.ret
      BY <1>1, <3>1, GoOnIs DEF Pcs, RangeReturns, SameCaller
    <3>4. Control'
      BY <1>3, <3>3 DEF Control, At, InUpdate, TableReturns
    <3>. QED  BY <3>2, <3>3, <3>4
  <2>. QED  BY <2>1, <2>2, <2>3
<1>10. CASE RescuedMain
  <2>1. /\ ni' = IF ctl.ok
                 THEN [Clean(ni) EXCEPT !.main = Here, !.backup = ctl.tmp]
                 ELSE [Clean(ni) EXCEPT !.main = ctl.tmp, !.backup = 0]
        /\ ctl' = [ctl EXCEPT !.pc = "update"]
    BY <1>10 DEF RescuedMain
  <2>2. ctl.ok => Here \in Blocks
    BY <1>10, HereIs DEF RescuedMain, TableReturns
  <2>3. ni' \in NiType
    <3>1. Clean(ni) \in NiType /\ 0 \in Blocks
      BY <1>1, CleanIs, Sizes
    <3>2. CASE ctl.ok
      BY <1>1, <2>1, <2>2, <3>1, <3>2 DEF NiType
    <3>3. CASE ~ctl.ok
      BY <1>1, <2>1, <3>1, <3>3 DEF NiType
    <3>. QED  BY <3>2, <3>3
  <2>4. ctl' \in CtlType /\ ctl'.pc = "update" /\ ctl'.ret = ctl.ret
    BY <1>1, <2>1, GoOnIs DEF Pcs, RangeReturns, SameCaller
  <2>5. Control'
    BY <1>3, <2>4 DEF Control, At, InUpdate, TableReturns
  <2>. QED  BY <2>3, <2>4, <2>5
<1>. QED  BY <1>5, <1>6, <1>7, <1>8, <1>9, <1>10

(* nmbm_rebuild_info_table.                                                *)
LEMMA RebuildingType ==
  ASSUME TypeInv, RebuiltMain \/ RebuiltBackup
  PROVE  TypeInv'
<1>. USE DEF TypeInv
<1>1. /\ ni \in NiType /\ ctl \in CtlType
      /\ ni.top \in Blocks /\ ni.main \in Blocks
      /\ ctl.built \in {"update", "create"} /\ ctl.built \in Pcs
      /\ ctl.built \in RangeReturns
      /\ ctl.built = "update" => ctl.ret \in UpdateRets
  BY DEF Types, NiType, CtlType, Pcs, RangeReturns, RebuiltMain, RebuiltBackup,
         Control, InUpdate, At
<1>2. Memory
  BY DEF RebuiltMain, RebuiltBackup
<1>3. SUFFICES ni' \in NiType /\ ctl' \in CtlType /\ Control'
  BY <1>2, MemoryType
<1>4. ASSUME ctl' = RebuildReturns(TRUE)
      PROVE  ctl' \in CtlType /\ Control'
  <2>1. /\ ctl' = [ctl EXCEPT !.pc = ctl.built] /\ ctl' \in CtlType
        /\ ctl'.pc = ctl.built
    BY <1>1, <1>4, RebuildReturnsIs
  <2>2. ctl'.ret = ctl.ret
    BY <1>1, <2>1 DEF CtlType
  <2>. QED  BY <1>1, <2>1, <2>2 DEF Control, At, InUpdate, TableReturns
<1>5. ASSUME ctl' = RebuildReturns(FALSE)
      PROVE  ctl' \in CtlType /\ Control'
  <2>1. ctl' \in CtlType /\ ctl'.pc \in UpdateRets \cup {"dead"}
    BY <1>1, <1>5, RebuildReturnsIs
  <2>. QED  BY <2>1 DEF Control, At, InUpdate, TableReturns, UpdateRets
<1>6. CASE RebuiltMain
  <2>1. CASE ctl.ok
    <3>1. Here \in Blocks /\ End \in Blocks /\ End \in Nat
      BY <1>6, <2>1, HereIs, Sizes DEF RebuiltMain, TableReturns
    <3>. DEFINE n == [Clean(ni) EXCEPT !.main = Here, !.mapba = End]
    <3>2. n \in NiType
      BY <1>1, <3>1, CleanIs DEF NiType
    <3>3. PICK w \in 0..SigBa : w = Reserve(n, End)
      <4>. HIDE DEF n
      <4>. QED  BY <3>1, <3>2, ReserveIs, Sizes
    <3>4. /\ ni' = n
          /\ ctl' = IF w = 0 THEN RebuildReturns(TRUE)
                    ELSE WriteTable(ctl, w, ni.top, "rebuilt_backup")
      BY <1>6, <2>1, <3>3 DEF RebuiltMain
    <3>. HIDE DEF n
    <3>5. CASE w = 0
      BY <1>4, <3>2, <3>4, <3>5
    <3>6. CASE w # 0
      <4>1. ctl' = WriteTable(ctl, w, ni.top, "rebuilt_backup")
        BY <3>4, <3>6
      <4>2. ctl \in CtlType /\ ni.top \in Blocks /\ "rebuilt_backup" \in TableReturns
        BY <1>1, Places
      <4>3. /\ ctl' \in CtlType /\ SameCaller(ctl, ctl')
            /\ ctl'.pc = "table" /\ ctl'.next = "rebuilt_backup"
        BY <4>1, <4>2, WriteTableIs
      <4>4. Control'
        BY <1>1, <4>3 DEF Control, At, InUpdate, TableReturns, SameCaller
      <4>. QED  BY <3>2, <3>4, <4>3, <4>4
    <3>. QED  BY <3>5, <3>6
  <2>2. CASE ~ctl.ok
    <3>1. ni' = [ni EXCEPT !.prot = TRUE] /\ ctl' = RebuildReturns(FALSE)
      BY <1>6, <2>2 DEF RebuiltMain
    <3>2. ni' \in NiType
      BY <1>1, <3>1 DEF NiType
    <3>. QED  BY <1>5, <3>1, <3>2
  <2>. QED  BY <2>1, <2>2
<1>7. CASE RebuiltBackup
  <2>1. CASE ctl.ok
    <3>1. Here \in Blocks /\ End \in Blocks
      BY <1>7, <2>1, HereIs DEF RebuiltBackup, TableReturns
    <3>2. /\ ni' = [ni EXCEPT !.backup = Here, !.mapba = End]
          /\ ctl' = EraseRange(ctl, ni.main + 1, Here, ctl.built)
      BY <1>7, <2>1 DEF RebuiltBackup
    <3>3. ni' \in NiType
      BY <1>1, <3>1, <3>2 DEF NiType
    <3>4. ni.main + 1 \in 0..SigBa
      BY <1>1, Sizes DEF Blocks
    <3>5. /\ ctl' \in CtlType /\ SameCaller(ctl, ctl')
          /\ ctl'.pc = "range" /\ ctl'.next = ctl.built
      BY <1>1, <3>1, <3>2, <3>4, EraseRangeIs
    <3>6. Control'
      BY <1>1, <3>5 DEF Control, At, InUpdate, TableReturns, SameCaller
    <3>. QED  BY <3>3, <3>5, <3>6
  <2>2. CASE ~ctl.ok
    BY <1>1, <1>4, <1>7, <2>2 DEF RebuiltBackup
  <2>. QED  BY <2>1, <2>2
<1>. QED  BY <1>6, <1>7

(* nmbm_attach with the table that it is going to write.                   *)
LEMMA LoadingIs ==
  ASSUME NEW n \in NiType
  PROVE  LET m == Generate(n)
         IN  /\ Loading(m) \in CtlType
             /\ Loading(m).cache.map = n.map /\ Loading(m).cache.kind = "table"
             /\ Loading(m).ret = "off"
<1>. DEFINE m == Generate(n)
<1>1. Table(m) \in TableType /\ Table(m).map = n.map /\ Table(m).kind = "table"
  BY GenerateIs
<1>. HIDE DEF m
<1>2. /\ Loading(m) \in CtlType /\ Loading(m).cache = Table(m)
      /\ Loading(m).ret = "off"
  BY <1>1, NoControlIs DEF Loading, CtlType
<1>. QED  BY <1>1, <1>2 DEF m

(* nmbm_attach, up to its first operation on the flash.                    *)
LEMMA AttachType ==
  ASSUME TypeInv, Attach
  PROVE  TypeInv'
<1>. USE DEF TypeInv
<1>1. /\ LoadTables \in NiType
      /\ LoadTables.main # 0 => flash[LoadTables.main] \in TableType
  BY LoadIs DEF Types
<1>2. Memory /\ ni \in NiType
  BY DEF Attach, AttachCreate, AttachSingle, AttachTwo, Types
<1>3. SUFFICES ni' \in NiType /\ ctl' \in CtlType /\ Control'
  BY <1>2, MemoryType
<1>4. CASE AttachCreate
  <2>. DEFINE n == BuildMapping(LoadTables)
              room == Good(n, MgmtStart + 1, SigBa - 1)
              t == [n EXCEPT !.top = Max(room)]
              m == Generate(t)
  <2>1. CASE room = {}
    <3>1. ctl' = [NoControl EXCEPT !.pc = "dead"] /\ ni' = ni
      BY <1>4, <2>1 DEF AttachCreate
    <3>2. ctl' \in CtlType /\ ctl'.pc = "dead"
      BY <3>1, NoControlIs, GoOnIs DEF Pcs
    <3>3. Control'
      BY <3>2 DEF Control, At, InUpdate, TableReturns
    <3>. QED  BY <1>2, <3>1, <3>2, <3>3
  <2>2. CASE room # {}
    <3>1. Rebuild(m, Loading(m), "create")
      BY <1>4, <2>2 DEF AttachCreate
    <3>2. n \in NiType
      BY <1>1, BuildMappingIs
    <3>. HIDE DEF n
    <3>3. room \subseteq 0..SigBa /\ room \subseteq Blocks
      BY Sizes DEF Good, Blocks
    <3>. HIDE DEF room
    <3>4. Max(room) \in Blocks
      BY <2>2, <3>3, Sizes, MaxOf
    <3>5. t \in NiType
      BY <3>2, <3>4 DEF NiType
    <3>. HIDE DEF t
    <3>6. m \in NiType /\ Loading(m) \in CtlType
      BY <3>5, GenerateIs, LoadingIs
    <3>. HIDE DEF m
    <3>7. /\ ni' \in NiType /\ ctl' \in CtlType /\ ctl'.built = "create"
          /\ ctl'.pc = "table" /\ ctl'.next = "rebuilt_main"
      BY <3>1, <3>6, RebuildType
    <3>8. Control'
      BY <3>7 DEF Control, At, InUpdate, TableReturns
    <3>. QED  BY <3>7, <3>8
  <2>. QED  BY <2>1, <2>2
<1>5. CASE AttachSingle
  <2>1. /\ ni' = Generate(LoadTables)
        /\ ctl' = WriteTable(Loading(ni'), MgmtStart, ni'.main, "single_front")
    BY <1>5 DEF AttachSingle, RescueSingle
  <2>2. ni' \in NiType /\ Loading(ni') \in CtlType
    BY <1>1, <2>1, GenerateIs, LoadingIs
  <2>3. ni'.main \in Blocks /\ MgmtStart \in 0..SigBa /\ "single_front" \in TableReturns
    BY <2>2, Sizes, Places DEF NiType
  <2>4. /\ ctl' \in CtlType /\ ctl'.pc = "table" /\ ctl'.next = "single_front"
    BY <2>1, <2>2, <2>3, WriteTableIs
  <2>5. Control'
    BY <2>4 DEF Control, At, InUpdate, TableReturns
  <2>. QED  BY <2>2, <2>4, <2>5
<1>6. CASE AttachTwo
  <2>. DEFINE n == Generate(LoadTables)
  <2>1. n \in NiType /\ Loading(n) \in CtlType
    BY <1>1, GenerateIs, LoadingIs
  <2>2. \/ ni' = n /\ ctl' = [NoControl EXCEPT !.pc = "attached"]
        \/ /\ ni' = [n EXCEPT !.changed = TRUE]
           /\ \/ ctl' = WriteTable(Loading(n), n.main, n.backup, "one_main")
              \/ ctl' = WriteTable(Loading(n), n.backup, n.top, "one_backup")
    BY <1>6 DEF AttachTwo
  <2>. HIDE DEF n
  <2>3. ni' \in NiType
    BY <2>1, <2>2 DEF NiType
  <2>4. /\ n.main \in Blocks /\ n.backup \in Blocks /\ n.top \in Blocks
        /\ n.main \in 0..SigBa /\ n.backup \in 0..SigBa
        /\ "one_main" \in TableReturns /\ "one_backup" \in TableReturns
    BY <2>1, Sizes, Places DEF NiType
  <2>5. CASE ctl' = [NoControl EXCEPT !.pc = "attached"]
    <3>1. ctl' \in CtlType /\ ctl'.pc = "attached"
      BY <2>5, NoControlIs, GoOnIs DEF Pcs, RangeReturns
    <3>2. Control'
      BY <3>1 DEF Control, At, InUpdate, TableReturns
    <3>. QED  BY <2>3, <3>1, <3>2
  <2>6. CASE ctl' = WriteTable(Loading(n), n.main, n.backup, "one_main")
    <3>1. ctl' \in CtlType /\ ctl'.pc = "table" /\ ctl'.next = "one_main"
      BY <2>1, <2>4, <2>6, WriteTableIs, SMTT(40)
    <3>2. Control'
      BY <3>1 DEF Control, At, InUpdate, TableReturns
    <3>. QED  BY <2>3, <3>1, <3>2
  <2>7. CASE ctl' = WriteTable(Loading(n), n.backup, n.top, "one_backup")
    <3>1. ctl' \in CtlType /\ ctl'.pc = "table" /\ ctl'.next = "one_backup"
      BY <2>1, <2>4, <2>7, WriteTableIs, SMTT(40)
    <3>2. Control'
      BY <3>1 DEF Control, At, InUpdate, TableReturns
    <3>. QED  BY <2>3, <3>1, <3>2
  <2>. QED  BY <2>2, <2>5, <2>6, <2>7
<1>. QED  BY <1>4, <1>5, <1>6 DEF Attach

(* The rest of nmbm_attach.                                                *)
LEMMA AttachingType ==
  ASSUME TypeInv, Attaching
  PROVE  TypeInv'
<1>. USE DEF TypeInv
<1>1. /\ ni \in NiType /\ ctl \in CtlType
      /\ ni.top \in Blocks /\ ni.main \in Blocks /\ ni.backup \in Blocks
      /\ ni.mapba \in Blocks /\ ni.mapba \in Nat /\ ni.mapba \in 0..SigBa
      /\ ctl.wba \in Blocks /\ ctl.wba \in Nat
      /\ MgmtStart \in 0..SigBa /\ 0 \in Blocks
  <2>1. /\ ni \in NiType /\ ctl \in CtlType
        /\ ni.top \in Blocks /\ ni.main \in Blocks /\ ni.backup \in Blocks
        /\ ni.mapba \in Blocks /\ ctl.wba \in Blocks
    BY DEF Types, NiType, CtlType
  <2>2. /\ ni.mapba \in Nat /\ ni.mapba \in 0..SigBa /\ ctl.wba \in Nat
    BY <2>1, Sizes
  <2>3. MgmtStart \in 0..SigBa /\ 0 \in Blocks
    BY Sizes
  <2>. QED  BY <2>1, <2>2, <2>3
<1>2. ASSUME Memory, ni' \in NiType, ctl' \in CtlType, Control'
      PROVE  TypeInv'
  BY <1>2, MemoryType
<1>3. ASSUME NEW p \in {"attached", "update"}, ctl' = [ctl EXCEPT !.pc = p],
             p = "update" => ctl.ret \in UpdateRets
      PROVE  ctl' \in CtlType /\ Control'
  <2>1. p \in Pcs
    BY DEF Pcs, RangeReturns
  <2>2. ctl' \in CtlType /\ ctl'.pc = p /\ ctl'.ret = ctl.ret
    BY <1>1, <1>3, <2>1, GoOnIs DEF SameCaller
  <2>. QED  BY <1>3, <2>2 DEF Control, At, InUpdate, TableReturns
<1>4. ASSUME NEW c \in CtlType, NEW ba \in 0..SigBa, NEW limit \in Blocks,
             NEW next \in {"single_front", "single_behind"},
             ctl' = WriteTable(c, ba, limit, next)
      PROVE  ctl' \in CtlType /\ Control'
  <2>1. next \in TableReturns
    BY Places
  <2>2. ctl' \in CtlType /\ ctl'.pc = "table" /\ ctl'.next = next
    BY <1>4, <2>1, WriteTableIs
  <2>. QED  BY <2>2 DEF Control, At, InUpdate, TableReturns
<1>5. ASSUME NEW ba \in 0..SigBa, NEW limit \in Blocks,
             NEW next \in {"attached", "single_clean"},
             ctl' = EraseRange(ctl, ba, limit, next)
      PROVE  ctl' \in CtlType /\ Control'
  <2>1. next \in RangeReturns
    BY Places
  <2>2. ctl' \in CtlType /\ ctl'.pc = "range" /\ ctl'.next = next
    <3>1. ctl \in CtlType
      BY <1>1
    <3>. QED  BY <1>5, <2>1, <3>1, EraseRangeIs
  <2>. QED  BY <2>2 DEF Control, At, InUpdate, TableReturns, RangeReturns
<1>6. CASE OneMainWritten
  <2>1. CASE ctl.ok
    <3>1. /\ ni' = [Clean(ni) EXCEPT !.main = Here]
          /\ ctl' = [ctl EXCEPT !.pc = "attached"] /\ Memory
          /\ Here \in Blocks
      BY <1>6, <2>1, HereIs DEF OneMainWritten, TableReturns
    <3>2. ni' \in NiType
      BY <1>1, <3>1, CleanIs DEF NiType
    <3>. QED  BY <1>2, <1>3, <3>1, <3>2
  <2>2. CASE ~ctl.ok
    <3>1. /\ ni' = [ni EXCEPT !.main = ni.backup, !.backup = 0] /\ Memory
          /\ ctl' = WriteTable(ctl, MgmtStart, ni'.main, "single_front")
      BY <1>6, <2>2 DEF OneMainWritten, RescueSingle
    <3>2. ni' \in NiType /\ ni'.main \in Blocks
      BY <1>1, <3>1 DEF NiType
    <3>3. ctl' \in CtlType /\ Control'
      BY <1>1, <1>4, <3>1, <3>2
    <3>. QED  BY <1>2, <3>1, <3>2, <3>3
  <2>. QED  BY <2>1, <2>2
<1>7. CASE OneBackupWritten
  <2>1. /\ ni' = IF ctl.ok
                 THEN [Clean(ni) EXCEPT !.backup = Here, !.mapba = End]
                 ELSE [ni EXCEPT !.mapba = ni.backup, !.backup = 0]
        /\ ctl' = [ctl EXCEPT !.pc = "attached"] /\ Memory
        /\ ctl.ok => Here \in Blocks /\ End \in Blocks
    BY <1>7, HereIs DEF OneBackupWritten, TableReturns
  <2>2. ni' \in NiType
    <3>1. CASE ctl.ok
      BY <1>1, <2>1, <3>1, CleanIs DEF NiType
    <3>2. CASE ~ctl.ok
      BY <1>1, <2>1, <3>2 DEF NiType
    <3>. QED  BY <3>1, <3>2
  <2>. QED  BY <1>2, <1>3, <2>1, <2>2
<1>8. CASE SingleFront
  <2>1. CASE ctl.ok
    <3>1. /\ ni' = [Clean(ni) EXCEPT !.backup = ni.main, !.main = Here]
          /\ ctl' = EraseRange(ctl, End, ni.main, "attached") /\ Memory
          /\ Here \in Blocks /\ End \in Blocks /\ End \in 0..SigBa
      BY <1>8, <2>1, HereIs, Sizes DEF SingleFront, TableReturns
    <3>2. ni' \in NiType
      BY <1>1, <3>1, CleanIs DEF NiType
    <3>3. ctl' \in CtlType /\ Control'
      BY <1>1, <1>5, <3>1
    <3>. QED  BY <1>2, <3>1, <3>2, <3>3
  <2>2. CASE ~ctl.ok
    <3>1. PICK w \in 0..SigBa : w = Reserve(ni, ni.mapba) /\ w \in Blocks
      BY <1>1, ReserveIs, Sizes
    <3>. DEFINE d == WriteTable(ctl, w, ni.top, "single_behind")
    <3>2. /\ ni' = ni /\ Memory
          /\ ctl' = IF w = 0 THEN [ctl EXCEPT !.pc = "attached"]
                    ELSE [d EXCEPT !.wba = w]
      BY <1>8, <2>2, <3>1 DEF SingleFront
    <3>3. ctl' \in CtlType /\ Control'
      <4>1. CASE w = 0
        BY <1>3, <3>2, <4>1
      <4>2. CASE w # 0
        <5>1. ctl \in CtlType /\ ni.top \in Blocks /\ "single_behind" \in TableReturns
          BY <1>1, Places
        <5>2. d \in CtlType /\ d.pc = "table" /\ d.next = "single_behind"
          BY <5>1, WriteTableIs
        <5>. HIDE DEF d
        <5>3. ctl' \in CtlType /\ ctl'.pc = "table" /\ ctl'.next = "single_behind"
          BY <3>1, <3>2, <4>2, <5>2 DEF CtlType
        <5>. QED  BY <5>3 DEF Control, At, InUpdate, TableReturns
      <4>. QED  BY <4>1, <4>2
    <3>. QED  BY <1>1, <1>2, <3>2, <3>3
  <2>. QED  BY <2>1, <2>2
<1>9. CASE SingleBehind
  <2>1. CASE ctl.ok
    <3>1. /\ ni' = [ni EXCEPT !.backup = Here, !.mapba = End]
          /\ ctl' = EraseRange(ctl, ni.mapba, Here, "single_clean") /\ Memory
          /\ Here \in Blocks /\ End \in Blocks
      BY <1>9, <2>1, HereIs DEF SingleBehind, TableReturns
    <3>2. ni' \in NiType
      BY <1>1, <3>1 DEF NiType
    <3>3. ctl' \in CtlType /\ Control'
      BY <1>1, <1>5, <3>1
    <3>. QED  BY <1>2, <3>1, <3>2, <3>3
  <2>2. CASE ~ctl.ok /\ ctl.wba > ni.mapba
    <3>. DEFINE d == WriteTable(ctl, ctl.wba - 1, ni.top, "single_behind")
    <3>1. /\ ctl.wba - 1 \in Blocks /\ ctl.wba - 1 \in 0..SigBa
          /\ ctl \in CtlType /\ ni.top \in Blocks /\ "single_behind" \in TableReturns
      BY <1>1, <2>2, Sizes, Places DEF Blocks
    <3>2. /\ d \in CtlType /\ SameCaller(ctl, d)
          /\ d.pc = "table" /\ d.next = "single_behind"
      BY <3>1, WriteTableIs
    <3>3. d.wba = ctl.wba
      BY <3>2 DEF SameCaller
    <3>4. ni' = ni /\ Memory /\ ctl' = [d EXCEPT !.wba = d.wba - 1]
      BY <1>9, <2>2, <3>2 DEF SingleBehind, CtlType
    <3>. HIDE DEF d
    <3>5. ctl' \in CtlType /\ ctl'.pc = "table" /\ ctl'.next = "single_behind"
      BY <3>1, <3>2, <3>3, <3>4 DEF CtlType
    <3>6. Control'
      BY <3>5 DEF Control, At, InUpdate, TableReturns
    <3>. QED  BY <1>1, <1>2, <3>4, <3>5, <3>6
  <2>3. CASE ~ctl.ok /\ ~(ctl.wba > ni.mapba)
    <3>1. ni' = ni /\ Memory /\ ctl' = [ctl EXCEPT !.pc = "attached"]
      BY <1>9, <2>3 DEF SingleBehind
    <3>. QED  BY <1>1, <1>2, <1>3, <3>1
  <2>. QED  BY <2>1, <2>2, <2>3
<1>10. CASE SingleClean
  BY <1>1, <1>2, <1>3, <1>10, CleanIs DEF SingleClean
<1>11. CASE Attached
  <2>1. /\ ni' = [ni EXCEPT !.prot = ni.prot \/ ni.mapba = ni.top \/ ~ctl.ok]
        /\ ctl' = Idle /\ Memory
    BY <1>1, <1>11 DEF Attached, NiType
  <2>2. ni' \in NiType
    BY <1>1, <2>1 DEF NiType
  <2>3. ctl' \in CtlType /\ ctl'.pc = "idle"
    BY <2>1, IdleIs
  <2>4. Control'
    BY <2>3 DEF Control, At, InUpdate, TableReturns
  <2>. QED  BY <1>2, <2>1, <2>2, <2>3, <2>4
<1>12. CASE CreateMap
  <2>1. ctl.pc = "create" /\ UNCHANGED <<flash, mark, disk, fails, offs>>
    BY <1>12 DEF CreateMap
  <2>2. CASE ni.count < MgmtStart /\ Unused(ni) # {}
    <3>. DEFINE n == MapBlock(ni, ni.count)
    <3>1. ni.count \in Logic /\ ni.count + 1 \in 0..MgmtStart
      BY <1>1, <2>2, Sizes DEF NiType, Logic
    <3>2. n \in NiType /\ n.count = ni.count
      BY <1>1, <2>2, <3>1, MapBlockIs
    <3>3. /\ ni' = [n EXCEPT !.count = n.count + 1]
          /\ skipped' = (skipped \/ ni.top \notin Unused(ni))
          /\ ctl' = ctl
      BY <1>12, <2>2, <3>2 DEF CreateMap, NiType
    <3>. HIDE DEF n
    <3>4. ni' \in NiType
      BY <3>1, <3>2, <3>3 DEF NiType
    <3>5. skipped' \in BOOLEAN
      BY <3>3
    <3>6. Control'
      BY <2>1, <3>3 DEF Control, At, InUpdate, TableReturns
    <3>. QED  BY <2>1, <3>3, <3>4, <3>5, <3>6 DEF Types
  <2>3. CASE ~(ni.count < MgmtStart /\ Unused(ni) # {})
    <3>1. /\ \E r \in {"create_full", "created"} :
               ctl' = [ctl EXCEPT !.pc = "update", !.ret = r]
          /\ UNCHANGED <<ni, skipped>>
      BY <1>12, <2>3 DEF CreateMap
    <3>2. /\ ctl' \in CtlType /\ ctl'.pc = "update"
          /\ ctl'.ret \in {"create_full", "created"}
      BY <1>1, <3>1, ZenonT(60) DEF CtlType, Pcs, RangeReturns, UpdateRets
    <3>3. Control'
      BY <3>2 DEF Control, At, InUpdate, TableReturns, UpdateRets
    <3>. QED  BY <2>1, <3>1, <3>2, <3>3 DEF Types
  <2>. QED  BY <2>2, <2>3
<1>13. CASE CreateFull
  <2>1. /\ ni' = [ni EXCEPT !.top = ni.mapba] /\ Memory
        /\ ctl' = [ctl EXCEPT !.pc = "update", !.ret = "created"]
    BY <1>13 DEF CreateFull
  <2>2. ni' \in NiType
    BY <1>1, <2>1 DEF NiType
  <2>3. /\ ctl' \in CtlType /\ ctl'.pc = "update" /\ ctl'.ret = "created"
    BY <1>1, <2>1 DEF CtlType, Pcs, RangeReturns, UpdateRets
  <2>4. Control'
    BY <2>3 DEF Control, At, InUpdate, TableReturns, UpdateRets
  <2>. QED  BY <1>2, <2>1, <2>2, <2>3, <2>4
<1>14. CASE Created
  <2>1. /\ \E p \in {"idle", "dead"} : ctl' = [NoControl EXCEPT !.pc = p]
        /\ ni' = ni /\ Memory
    BY <1>14 DEF Created
  <2>2. ctl' \in CtlType /\ ctl'.pc \in {"idle", "dead"}
    <3>1. {"idle", "dead"} \subseteq Pcs
      BY DEF Pcs
    <3>. QED  BY <2>1, <3>1, NoControlIs, GoOnIs
  <2>3. Control'
    BY <2>2 DEF Control, At, InUpdate, TableReturns
  <2>. QED  BY <1>1, <1>2, <2>1, <2>2, <2>3
<1>. QED  BY <1>6, <1>7, <1>8, <1>9, <1>10, <1>11, <1>12, <1>13, <1>14 DEF Attaching

(* A call of a user that is under way.                                     *)
LEMMA WorkingType ==
  ASSUME TypeInv, Working
  PROVE  TypeInv'
<1>. USE DEF TypeInv
<1>1. /\ ni \in NiType /\ ctl \in CtlType /\ ctl.lb \in Logic
      /\ ctl.val \in {Erased} \cup DataType
      /\ flash \in [Blocks -> Content] /\ Erased \in Content /\ Torn \in Content
      /\ ni.map[ctl.lb] \in PhysicalOrNone /\ ni.mapba \in Blocks
  BY DEF Types, NiType, CtlType, Content
<1>2. ASSUME Physical >= 0
      PROVE  Physical \in Blocks
  BY <1>1, <1>2, Sizes DEF Physical, PhysicalOrNone
<1>3. ASSUME Memory, ni' \in NiType, ctl' \in CtlType, Control'
      PROVE  TypeInv'
  BY <1>3, MemoryType
<1>4. ASSUME ctl' = Idle
      PROVE  ctl' \in CtlType /\ Control'
  BY <1>4, IdleIs DEF Control, At, InUpdate, TableReturns
<1>5. ASSUME NEW r \in {"idle", "erase", "no_spare"},
             ctl' = [ctl EXCEPT !.pc = "update", !.ret = r]
      PROVE  ctl' \in CtlType /\ Control'
  <2>1. ctl' \in CtlType /\ ctl'.pc = "update" /\ ctl'.ret = r
    BY <1>1, <1>5 DEF CtlType, Pcs, RangeReturns, UpdateRets
  <2>. QED  BY <2>1 DEF Control, At, InUpdate, TableReturns, UpdateRets
<1>6. ASSUME ctl' = [ctl EXCEPT !.pc = "remap"]
      PROVE  ctl' \in CtlType /\ Control'
  <2>1. ctl' \in CtlType /\ ctl'.pc = "remap"
    BY <1>1, <1>6, GoOnIs DEF Pcs
  <2>. QED  BY <2>1 DEF Control, At, InUpdate, TableReturns
<1>7. CASE EraseOk
  <2>1. /\ Physical \in Blocks /\ ctl' = Idle
        /\ flash' = [flash EXCEPT ![Physical] = Erased]
        /\ disk' = [disk EXCEPT ![ctl.lb] = Erased]
        /\ UNCHANGED <<mark, ni, skipped, fails, offs>>
    BY <1>2, <1>7 DEF EraseOk, Sound
  <2>2. flash' \in [Blocks -> Content]
    BY <1>1, <2>1
  <2>3. disk' \in [Logic -> {Any, Erased} \cup DataType]
    BY <1>1, <2>1 DEF Types
  <2>. QED  BY <1>4, <2>1, <2>2, <2>3 DEF Types
<1>8. CASE EraseFails
  <2>1. /\ Physical \in Blocks /\ ctl' = [ctl EXCEPT !.pc = "remap"]
        /\ BlockFails(Physical) /\ ni' = SetBad(ni, {Physical})
        /\ UNCHANGED <<disk, skipped, offs>>
    BY <1>2, <1>8 DEF EraseFails, Sound, ghosts
  <2>2. flash' \in [Blocks -> Content] /\ mark' \subseteq Blocks /\ fails' \in 0..MaxFail
    BY <2>1, BlockFailsIs
  <2>3. ni' \in NiType
    BY <1>1, <2>1, SetBadIs
  <2>. QED  BY <1>6, <2>1, <2>2, <2>3 DEF Types
<1>9. CASE EraseRefused
  <2>1. CASE Physical < 0
    BY <1>1, <1>3, <1>4, <1>9, <2>1 DEF EraseRefused
  <2>2. CASE ~(Physical < 0)
    <3>1. /\ ctl' = [ctl EXCEPT !.pc = "remap"] /\ Memory
          /\ ni' = SetBad(ni, {Physical}) \/ ni' = ni
      BY <1>9, <2>2 DEF EraseRefused
    <3>2. ni' \in NiType
      BY <1>1, <3>1, SetBadIs
    <3>. QED  BY <1>3, <1>6, <3>1, <3>2
  <2>. QED  BY <2>1, <2>2
<1>10. CASE Remap
  <2>1. /\ ni' = Condemn(MapBlock(ni, ctl.lb), Physical) /\ Unused(ni) # {}
        /\ skipped' = (skipped \/ ni.top \notin Unused(ni))
        /\ ctl' = [ctl EXCEPT !.pc = "update", !.ret = "erase"]
        /\ UNCHANGED <<flash, mark, disk, fails, offs>>
    BY <1>10 DEF Remap
  <2>2. MapBlock(ni, ctl.lb) \in NiType
    BY <1>1, <2>1, MapBlockIs
  <2>3. ni' \in NiType
    BY <2>1, <2>2, CondemnIs
  <2>4. skipped' \in BOOLEAN
    BY <2>1
  <2>. QED  BY <1>5, <2>1, <2>3, <2>4 DEF Types
<1>11. CASE RemapFails
  <2>1. CASE ni.mapba = ni.top
    <3>1. /\ ni' = Condemn(Unmap(ni, ctl.lb), Physical) /\ Memory
          /\ ctl' = [ctl EXCEPT !.pc = "update", !.ret = "idle"]
      BY <1>11, <2>1 DEF RemapFails
    <3>2. ni' \in NiType
      BY <1>1, <3>1, UnmapIs, CondemnIs
    <3>. QED  BY <1>3, <1>5, <3>1, <3>2
  <2>2. CASE ni.mapba # ni.top
    BY <1>1, <1>3, <1>5, <1>11, <2>2 DEF RemapFails
  <2>. QED  BY <2>1, <2>2
<1>12. CASE NoSpare
  <2>. DEFINE n == [ni EXCEPT !.top = ni.mapba]
  <2>1. /\ ni' = Condemn(Unmap(n, ctl.lb), Physical) /\ Memory
        /\ ctl' = [ctl EXCEPT !.pc = "update", !.ret = "idle"]
    BY <1>12 DEF NoSpare
  <2>2. n \in NiType
    BY <1>1 DEF NiType
  <2>. HIDE DEF n
  <2>3. ni' \in NiType
    BY <1>1, <2>1, <2>2, UnmapIs, CondemnIs
  <2>. QED  BY <1>3, <1>5, <2>1, <2>3
<1>13. CASE WriteOk
  <2>1. /\ Physical \in Blocks /\ ctl' = Idle
        /\ \E c \in {ctl.val, Torn} : flash' = [flash EXCEPT ![Physical] = c]
        /\ \E d \in {ctl.val, Any} : disk' = [disk EXCEPT ![ctl.lb] = d]
        /\ UNCHANGED <<mark, ni, skipped, fails, offs>>
    BY <1>2, <1>13 DEF WriteOk, Writable
  <2>2. ctl.val \in Content
    BY <1>1 DEF Content
  <2>3. flash' \in [Blocks -> Content]
    BY <1>1, <2>1, <2>2
  <2>4. disk' \in [Logic -> {Any, Erased} \cup DataType]
    BY <1>1, <2>1 DEF Types
  <2>. QED  BY <1>4, <2>1, <2>3, <2>4 DEF Types
<1>14. CASE WriteFails
  <2>1. /\ Physical \in Blocks
        /\ ctl' = [ctl EXCEPT !.pc = "update", !.ret = "idle"]
        /\ flash' = [flash EXCEPT ![Physical] = Torn]
        /\ ni' = SetState(ni, {Physical}, "NEED_REMAP")
        /\ fails < MaxFail /\ fails' = fails + 1
        /\ UNCHANGED <<mark, disk, skipped, offs>>
    BY <1>2, <1>14 DEF WriteFails, Writable, ghosts
  <2>2. flash' \in [Blocks -> Content]
    BY <1>1, <2>1
  <2>3. "NEED_REMAP" \in States
    BY DEF States
  <2>4. ni' \in NiType
    BY <1>1, <2>1, <2>3, SetStateIs
  <2>5. fails' \in 0..MaxFail
    BY <2>1, NmbmAssumption DEF Types
  <2>. QED  BY <1>5, <2>1, <2>2, <2>4, <2>5 DEF Types
<1>15. CASE WriteRefused
  BY <1>1, <1>3, <1>4, <1>15 DEF WriteRefused
<1>16. CASE Detached
  BY <1>16, FreshIs, NoControlIs
     DEF Detached, Off, Types, Control, At, InUpdate, TableReturns
<1>. QED  BY <1>7, <1>8, <1>9, <1>10, <1>11, <1>12, <1>13, <1>14, <1>15, <1>16 DEF Working

(* A user begins a call.                                                   *)
LEMMA CallsType ==
  ASSUME TypeInv, Calls
  PROVE  TypeInv'
<1>. USE DEF TypeInv
<1>1. ni \in NiType /\ ctl \in CtlType
  BY DEF Types
<1>2. ASSUME NEW lb \in Logic, NEW pc \in {"erase", "write"},
             NEW v \in {Erased} \cup DataType, Begin(lb, pc, v)
      PROVE  TypeInv'
  <2>1. /\ ctl' = [ctl EXCEPT !.pc = pc, !.lb = lb, !.val = v]
        /\ disk' = [disk EXCEPT ![lb] = Any]
        /\ UNCHANGED <<flash, mark, ni, skipped, fails, offs>>
    BY <1>2 DEF Begin
  <2>2. ctl' \in CtlType /\ ctl'.pc \in {"erase", "write"}
    BY <1>1, <2>1 DEF CtlType, Pcs, UpdateRets
  <2>3. disk' \in [Logic -> {Any, Erased} \cup DataType]
    BY <2>1 DEF Types
  <2>4. Control'
    BY <2>2 DEF Control, At, InUpdate, TableReturns
  <2>. QED  BY <2>1, <2>2, <2>3, <2>4 DEF Types
<1>3. ASSUME NEW lb \in Logic, Erase(lb)
      PROVE  TypeInv'
  BY <1>2, <1>3 DEF Erase
<1>4. ASSUME NEW lb \in Logic, NEW v \in Values, Write(lb, v)
      PROVE  TypeInv'
  <2>1. Data(v) \in DataType
    BY DEF Data, DataType
  <2>. QED  BY <1>2, <1>4, <2>1 DEF Write
<1>5. ASSUME NEW r \in {"idle", "detached"},
             ctl' = [ctl EXCEPT !.pc = "update", !.ret = r]
      PROVE  ctl' \in CtlType /\ Control'
  <2>1. ctl' \in CtlType /\ ctl'.pc = "update" /\ ctl'.ret = r
    BY <1>1, <1>5 DEF CtlType, Pcs, RangeReturns, UpdateRets
  <2>. QED  BY <2>1 DEF Control, At, InUpdate, TableReturns, UpdateRets
<1>6. ASSUME NEW lb \in Logic, MarkBad(lb)
      PROVE  TypeInv'
  <2>1. /\ MarkBlock(ni.map[lb], 1) /\ fails' <= MaxFail /\ ni.map[lb] >= 0
        /\ ni' = SetBad(Unmap(ni, lb), {ni.map[lb]})
        /\ disk' = [disk EXCEPT ![lb] = Any]
        /\ ctl' = [ctl EXCEPT !.pc = "update", !.ret = "idle"]
        /\ UNCHANGED <<flash, skipped, offs>>
    BY <1>6 DEF MarkBad
  <2>2. ni' \in NiType
    <3>1. Unmap(ni, lb) \in NiType
      BY <1>1, UnmapIs
    <3>. QED  BY <2>1, <3>1, SetBadIs
  <2>3. ni.map[lb] \in Blocks
    BY <1>1, <2>1, Sizes DEF NiType, PhysicalOrNone
  <2>4. mark' \subseteq Blocks /\ fails' \in 0..MaxFail
    BY <2>1, <2>3, NmbmAssumption DEF MarkBlock, Types
  <2>5. disk' \in [Logic -> {Any, Erased} \cup DataType]
    BY <2>1 DEF Types
  <2>. QED  BY <1>5, <2>1, <2>2, <2>4, <2>5 DEF Types
<1>7. ASSUME Detach
      PROVE  TypeInv'
  <2>1. /\ offs < MaxOff /\ offs' = offs + 1
        /\ ctl' = [ctl EXCEPT !.pc = "update", !.ret = "detached"]
        /\ UNCHANGED <<flash, mark, ni, disk, skipped, fails>>
    BY <1>7 DEF Detach, ghosts
  <2>2. offs' \in 0..MaxOff
    BY <2>1, NmbmAssumption DEF Types
  <2>. QED  BY <1>5, <2>1, <2>2 DEF Types
<1>. QED  BY <1>3, <1>4, <1>6, <1>7 DEF Calls

(* The power goes off.                                                     *)
LEMMA PowerCutType ==
  ASSUME TypeInv, PowerCut
  PROVE  TypeInv'
<1>. USE DEF TypeInv
<1>1. /\ ctl' = NoControl /\ ni' = FreshInstance
      /\ offs < MaxOff /\ offs' = offs + 1
      /\ UNCHANGED <<mark, skipped, fails>>
      /\ disk' = disk \/ disk' = [l \in Logic |-> Any]
  BY DEF PowerCut, Off
<1>2. flash' = flash \/ \E b \in InFlight : flash' = [flash EXCEPT ![b] = Torn]
  BY DEF PowerCut
<1>3. flash' \in [Blocks -> Content]
  BY <1>2 DEF Types, Content
<1>4. offs' \in 0..MaxOff
  BY <1>1, NmbmAssumption DEF Types
<1>5. ni' \in NiType /\ ctl' \in CtlType /\ ctl'.pc = "off"
  BY <1>1, FreshIs, NoControlIs
<1>6. disk' \in [Logic -> {Any, Erased} \cup DataType]
  BY <1>1 DEF Types
<1>7. Control'
  BY <1>1, <1>5 DEF Control, At, InUpdate, TableReturns
<1>. QED  BY <1>1, <1>3, <1>4, <1>5, <1>6, <1>7 DEF Types

(* A new chip has the types.                                               *)
LEMMA InitType == Init => TypeInv
<1>. SUFFICES ASSUME Init PROVE TypeInv
  OBVIOUS
<1>1. /\ ni = FreshInstance /\ ctl = NoControl
      /\ flash = [b \in Blocks |-> Erased] /\ disk = [l \in Logic |-> Any]
  BY DEF Init
<1>2. Types
  <2>1. ni \in NiType /\ ctl \in CtlType
    BY <1>1, FreshIs, NoControlIs
  <2>2. mark \subseteq Blocks
    BY NmbmAssumption DEF Init, Blocks
  <2>3. skipped \in BOOLEAN
    BY DEF Init
  <2>5. fails = 0 /\ offs = 0
    BY DEF Init
  <2>6. fails \in 0..MaxFail /\ offs \in 0..MaxOff
    BY <2>5, NmbmAssumption
  <2>4. flash \in [Blocks -> Content] /\ disk \in [Logic -> {Any, Erased} \cup DataType]
    BY <1>1 DEF Content
  <2>. QED  BY <2>1, <2>2, <2>3, <2>4, <2>6 DEF Types
<1>3. Control
  BY <1>1, NoControlIs DEF Control, At, InUpdate, TableReturns
<1>. QED  BY <1>2, <1>3 DEF TypeInv

(* Every step keeps the types and the facts about the place in the code.   *)
LEMMA NextType == TypeInv /\ [Next]_vars => TypeInv'
<1>. SUFFICES ASSUME TypeInv, [Next]_vars PROVE TypeInv'
  OBVIOUS
<1>1. CASE UNCHANGED vars
  BY <1>1 DEF vars, ghosts, TypeInv, Types, Control, At, InUpdate
<1>2. CASE Tables
  BY <1>2, RangeType, UpdateType, RebuildingType DEF Tables
<1>. QED  BY <1>1, <1>2, AttachingType, WorkingType, CallsType, AttachType, PowerCutType
          DEF Next, Step

(* The driver's variables keep their types on a chip of any size, whatever *)
(* fails: no table, no block handed out and no end of a range ever lies    *)
(* outside the chip, so that the arrays over blocks are never left.        *)
THEOREM NmbmTypeCorrect == Spec => []TypeOK
<1>1. TypeInv => TypeOK
  <2>. SUFFICES ASSUME TypeInv PROVE TypeOK
    OBVIOUS
  <2>1. \A c \in Content : c.kind \in {"erased", "torn", "data", "table"}
    BY DEF Content, Erased, Torn, DataType, TableType
  <2>2. \A b \in Blocks : flash[b].kind \in {"erased", "torn", "data", "table"}
    BY <2>1 DEF TypeInv, Types
  <2>3. /\ ni.state \in [Blocks -> States] /\ ni.map \in [Logic -> PhysicalOrNone]
        /\ ni.wc \in Nat /\ {ni.main, ni.backup} \subseteq Blocks
        /\ ni.count \in 0..MgmtStart
        /\ ni.mapba \in Blocks /\ ni.top \in Blocks
        /\ ctl.ba \in 0..SigBa /\ ctl.limit \in Blocks
    BY DEF TypeInv, Types, NiType, CtlType
  <2>4. ni.mapba \in 0..SigBa /\ ctl.limit \in 0..SigBa
    BY <2>3, Sizes
  <2>. QED  BY <2>2, <2>3, <2>4 DEF TypeOK, TypeInv, Types, Blocks
<1>. QED  BY <1>1, InitType, NextType, PTL DEF Spec

-----------------------------------------------------------------------------
(* What keeps users' data apart from the tables while the device is up.    *)
(* All of it holds until nmbm_map_block has passed over a bad block.       *)

\* The tables lie in order below mapping_blocks_ba, and that not above
\* mapping_blocks_top_ba; without a table the device is protected
Layout ==
  /\ MgmtStart <= ni.mapba /\ ni.mapba <= ni.top
  /\ ni.main # 0 => MgmtStart <= ni.main /\ ni.main < ni.mapba
  /\ ni.backup # 0 => ni.main # 0 /\ ni.main < ni.backup /\ ni.backup < ni.mapba
  /\ ni.main = 0 => ni.prot \/ At = "rebuilt_main"

\* Ranges that are erased or written lie in the management area below the top,
\* and where the procedures expect them
Ranges ==
  /\ ctl.pc \in {"table", "program", "range"} \cup TableReturns =>
       MgmtStart <= ctl.ba /\ ctl.limit <= ni.top
  /\ At \in TableReturns \ {"rebuilt_main"} => ni.main # 0
  /\ At \in {"backup_written", "tmp_written", "one_main", "one_backup"} =>
       ni.backup # 0
  /\ At \in {"rebuilt_main", "rebuilt_backup", "single_front", "single_behind"} =>
       ni.backup = 0
  /\ At \in {"backup_written", "one_backup"} => ni.backup <= ctl.ba
  /\ At = "main_written" /\ ni.backup # 0 => ctl.limit <= ni.backup
  /\ At = "one_main" => ctl.limit <= ni.backup
  /\ At \in {"tmp_written", "single_behind"} =>
       ni.mapba <= ctl.wba /\ ctl.wba <= ctl.ba
  /\ At = "rescued_main" =>
       MgmtStart <= ctl.tmp /\ ctl.limit <= ctl.tmp /\ ctl.tmp < ni.mapba
  /\ At = "rebuilt_backup" => ni.main < ctl.ba
  /\ At = "single_front" => ctl.limit <= ni.main

Injective(map) ==
  \A k, l \in Logic : k # l /\ map[k] >= 0 => map[k] # map[l]

\* No block is used twice, neither by the map in memory nor by one on the
\* flash, and none that replaces another lies where tables are written
Separate ==
  /\ Injective(ni.map)
  /\ \A l \in Logic : ni.map[l] >= MgmtStart => ni.map[l] > ni.top
  /\ \A b \in Blocks : flash[b].kind = "table" => Injective(flash[b].map)
  /\ ctl.cache.kind = "table" => Injective(ctl.cache.map)

\* Nothing is promised of the block that a call is at work on, and the device
\* is being detached only after that was asked for
Callers == {"erase", "write", "remap", "no_spare", "detached"}
Caller ==
  /\ ctl.pc \in Callers \ {"detached"} \/ ctl.ret \in {"erase", "no_spare"} =>
       ctl.lb < ni.count /\ disk[ctl.lb] = Any
  /\ ctl.pc = "detached" \/ ctl.ret = "detached" => offs # 0

\* What was promised is there
Kept ==
  \A l \in Logic : disk[l] # Any =>
    /\ l < ni.count
    /\ ni.map[l] >= 0
    /\ ni.state[ni.map[l]] # "BAD"
    /\ flash[ni.map[l]] = disk[l]

Up == ctl.pc \notin {"off", "dead"}
Safe == Separate /\ (Up => Layout /\ Ranges /\ Caller /\ Kept)
Session == ~skipped => Safe

-----------------------------------------------------------------------------
(* Every step keeps users' data apart from the tables                      *)

(* The parts of the memory that the proofs below compute with.             *)
LEMMA Numbers ==
  ASSUME TypeInv
  PROVE  /\ ni.main \in Nat /\ ni.backup \in Nat /\ ni.mapba \in Nat /\ ni.top \in Nat
         /\ ctl.ba \in Nat /\ ctl.limit \in Nat /\ ctl.wba \in Nat /\ ctl.tmp \in Nat
         /\ ni.count \in Nat /\ ctl.lb \in Logic
         /\ \A l \in Logic : ni.map[l] \in PhysicalOrNone /\ ni.map[l] \in Int
<1>1. ni \in NiType /\ ctl \in CtlType
  BY DEF TypeInv, Types
<1>2. /\ ni.main \in Blocks /\ ni.backup \in Blocks /\ ni.mapba \in Blocks
      /\ ni.top \in Blocks /\ ni.count \in 0..MgmtStart
      /\ \A l \in Logic : ni.map[l] \in PhysicalOrNone
  BY <1>1 DEF NiType
<1>3. /\ ctl.ba \in 0..SigBa /\ ctl.limit \in Blocks /\ ctl.wba \in Blocks
      /\ ctl.tmp \in Blocks /\ ctl.lb \in Logic
  BY <1>1 DEF CtlType
<1>4. ctl.ba \in Nat /\ ni.count \in Nat
  BY <1>2, <1>3, Sizes
<1>5. \A x \in Blocks : x \in Nat
  BY Sizes
<1>6. \A l \in Logic : ni.map[l] \in Int
  BY <1>2, PhysicalInt
<1>. QED  BY <1>2, <1>3, <1>4, <1>5, <1>6

(* Users' blocks are not touched by what happens between the start of the  *)
(* management area and the top.                                            *)
LEMMA AreaStep ==
  ASSUME TypeInv, Separate, Kept,
         SameMap(ni, ni'), ni'.top \in Nat, ni'.top <= ni.top, disk' = disk,
         \A b \in Blocks : b < MgmtStart \/ b > ni.top =>
           flash'[b] = flash[b] /\ ni'.state[b] = ni.state[b],
         \A b \in Blocks : flash'[b] = flash[b] \/ flash'[b] \in {Erased, Torn, ctl.cache},
         ctl'.cache.kind = "table" => Injective(ctl'.cache.map)
  PROVE  Separate' /\ Kept'
<1>1. ni'.map = ni.map /\ ni'.count = ni.count
  BY DEF SameMap
<1>2. \A b \in Blocks : flash'[b].kind = "table" => Injective(flash'[b].map)
  BY DEF Separate, Erased, Torn
<1>3. Separate'
  <2>1. \A l \in Logic : ni.map[l] >= MgmtStart => ni.map[l] > ni'.top
    BY Numbers DEF Separate
  <2>. QED  BY <1>1, <1>2, <2>1 DEF Separate, Injective
<1>4. ASSUME NEW l \in Logic, disk[l] # Any
      PROVE  /\ flash'[ni.map[l]] = flash[ni.map[l]]
             /\ ni'.state[ni.map[l]] = ni.state[ni.map[l]]
  <2>1. ni.map[l] \in PhysicalOrNone /\ ni.map[l] \in Int /\ ni.map[l] >= 0
    BY <1>4, Numbers DEF Kept
  <2>2. ni.map[l] \in Blocks
    BY <2>1, Sizes DEF PhysicalOrNone
  <2>3. ni.map[l] < MgmtStart \/ ni.map[l] > ni.top
    BY <2>1, Sizes DEF Separate
  <2>. QED  BY <2>2, <2>3
<1>5. Kept'
  BY <1>1, <1>4 DEF Kept
<1>. QED  BY <1>3, <1>5

(* A step in memory that keeps the map.                                    *)
LEMMA MemoryStep ==
  ASSUME TypeInv, Separate, Kept, Memory,
         SameMap(ni, ni'), ni'.top = ni.top, ni'.state = ni.state,
         ctl'.cache.kind = "table" => Injective(ctl'.cache.map)
  PROVE  Separate' /\ Kept'
<1>1. ni'.top \in Nat /\ ni'.top <= ni.top
  BY Numbers
<1>. QED  BY <1>1, AreaStep DEF Memory

Ranging == {"table", "program", "range"} \cup TableReturns

(* An operation on a range goes on where it was.                           *)
LEMMA RangesFrame ==
  ASSUME TypeInv, TypeInv', Layout, Ranges,
         SamePlaces(ni, ni'), ctl.pc \in Ranging, ctl.ba <= ctl'.ba,
         ctl'.limit = ctl.limit, ctl'.wba = ctl.wba, ctl'.tmp = ctl.tmp,
         \/ At' = At
         \/ At = "range" /\ At' \in RangeReturns /\ ctl'.pc = At'
  PROVE  Layout' /\ Ranges'
<1>1. /\ ni'.main = ni.main /\ ni'.backup = ni.backup /\ ni'.mapba = ni.mapba
      /\ ni'.top = ni.top /\ ni'.prot = ni.prot
  BY DEF SamePlaces
<1>2. /\ MgmtStart \in Nat /\ ni.main \in Nat /\ ni.backup \in Nat /\ ni.mapba \in Nat
      /\ ctl.ba \in Nat /\ ctl'.ba \in Nat /\ ctl.wba \in Nat
  BY Numbers, Sizes DEF TypeInv, Types, CtlType
<1>3. MgmtStart <= ctl.ba /\ ctl.limit <= ni.top
  BY DEF Ranges, Ranging
<1>4. CASE At' = At
  <2>1. Layout'
    BY <1>1, <1>4 DEF Layout
  <2>2. MgmtStart <= ctl'.ba /\ ctl'.limit <= ni'.top
    BY <1>1, <1>2, <1>3
  <2>3. Ranges'
    BY <1>1, <1>2, <1>4, <2>2 DEF Ranges
  <2>. QED  BY <2>1, <2>3
<1>5. CASE At = "range" /\ At' \in RangeReturns /\ ctl'.pc = At'
  <2>1. Layout'
    BY <1>1, <1>5 DEF Layout
  <2>2. Ranges'
    BY <1>5 DEF Ranges, RangeReturns, TableReturns
  <2>. QED  BY <2>1, <2>2
<1>. QED  BY <1>4, <1>5

(* An operation on a range, and its return.                                *)
LEMMA RangeSafe ==
  ASSUME TypeInv, TypeInv', Safe,
         TableErase \/ TableProgram \/ TableNoRoom \/ RangeErase \/ RangeDone
  PROVE  Safe'
<1>1. /\ ctl.pc \in {"table", "program", "range"} /\ UNCHANGED disk
      /\ Up /\ ctl.pc \in Ranging
  BY DEF TableErase, TableProgram, TableNoRoom, RangeErase, RangeDone, ghosts, Up, Ranging
<1>2. /\ Separate /\ Layout /\ Ranges /\ Caller /\ Kept
      /\ MgmtStart <= ctl.ba /\ ctl.limit <= ni.top
  BY <1>1 DEF Safe, Ranges, Ranging
<1>3. ni \in NiType /\ ctl \in CtlType /\ Types /\ Control
  BY DEF TypeInv, Types
<1>4. /\ MgmtStart \in Nat /\ ctl.ba \in Nat /\ ctl.limit \in Nat /\ ni.top \in Nat
      /\ Blocks \subseteq Nat
  BY Numbers, Sizes
<1>5. \A b : PassedOver(b) \subseteq ctl.ba..(b - 1)
  BY DEF PassedOver, Good
<1>6. /\ SameMap(ni, ni') /\ SamePlaces(ni, ni')
      /\ \A b \in Blocks : b < MgmtStart \/ b > ni.top =>
           flash'[b] = flash[b] /\ ni'.state[b] = ni.state[b]
      /\ \A b \in Blocks : flash'[b] = flash[b] \/ flash'[b] \in {Erased, Torn, ctl.cache}
  <2>1. CASE TableErase \/ RangeErase
    <3>1. PICK b \in Blocks :
            /\ b = Min(Usable) /\ ctl.ba <= b /\ b < ctl.limit
      BY <1>3, <2>1, UsableIs DEF TableErase, RangeErase
    <3>. DEFINE n == SetBad(ni, PassedOver(b))
    <3>2. \/ flash' = [flash EXCEPT ![b] = Erased] /\ ni' = n
          \/ BlockFails(b) /\ ni' = SetBad(n, {b})
      BY <2>1, <3>1 DEF TableErase, RangeErase
    <3>3. /\ n \in NiType /\ SameMap(ni, n) /\ SamePlaces(ni, n)
          /\ \A c \in Blocks : c \notin PassedOver(b) => n.state[c] = ni.state[c]
      BY <1>3, SetBadIs
    <3>. HIDE DEF n
    <3>4. /\ SameMap(n, ni') /\ SamePlaces(n, ni')
          /\ \A c \in Blocks : c # b => ni'.state[c] = n.state[c]
      <4>1. CASE ni' = n
        BY <4>1 DEF SameMap, SamePlaces
      <4>2. CASE ni' = SetBad(n, {b})
        BY <3>3, <4>2, SetBadIs
      <4>. QED  BY <3>2, <4>1, <4>2
    <3>5. \A c \in Blocks : flash'[c] = flash[c] \/ (c = b /\ flash'[c] \in {Erased, Torn})
      BY <1>3, <3>2, BlockFailsIs DEF Types
    <3>6. \A c \in Blocks : c < MgmtStart \/ c > ni.top => c # b /\ c \notin PassedOver(b)
      BY <1>2, <1>4, <1>5, <3>1
    <3>. QED  BY <3>3, <3>4, <3>5, <3>6 DEF SameMap, SamePlaces
  <2>2. CASE TableProgram
    <3>1. ctl.ba \in Blocks /\ ctl.ba < ctl.limit
      BY <1>3, <1>4, <2>2, Sizes DEF TableProgram, Control, CtlType, Blocks
    <3>2. \/ flash' = [flash EXCEPT ![ctl.ba] = ctl.cache] /\ ni' = ni
          \/ BlockFails(ctl.ba) /\ ni' = SetBad(ni, {ctl.ba})
      BY <2>2 DEF TableProgram
    <3>3. /\ SameMap(ni, ni') /\ SamePlaces(ni, ni')
          /\ \A c \in Blocks : c # ctl.ba => ni'.state[c] = ni.state[c]
      <4>1. CASE ni' = ni
        BY <4>1 DEF SameMap, SamePlaces
      <4>2. CASE ni' = SetBad(ni, {ctl.ba})
        BY <1>3, <4>2, SetBadIs
      <4>. QED  BY <3>2, <4>1, <4>2
    <3>4. \A c \in Blocks : \/ flash'[c] = flash[c]
                            \/ c = ctl.ba /\ flash'[c] \in {Torn, ctl.cache}
      BY <1>3, <3>1, <3>2, BlockFailsIs DEF Types
    <3>5. \A c \in Blocks : c < MgmtStart \/ c > ni.top => c # ctl.ba
      BY <1>2, <1>4, <3>1
    <3>. QED  BY <3>3, <3>4, <3>5
  <2>3. CASE TableNoRoom \/ RangeDone
    <3>1. ni' = SetBad(ni, PassedOver(ctl.limit)) /\ flash' = flash
      BY <2>3 DEF TableNoRoom, RangeDone
    <3>2. /\ SameMap(ni, ni') /\ SamePlaces(ni, ni')
          /\ \A c \in Blocks : c \notin PassedOver(ctl.limit) => ni'.state[c] = ni.state[c]
      BY <1>3, <3>1, SetBadIs
    <3>3. \A c \in Blocks : c < MgmtStart \/ c > ni.top => c \notin PassedOver(ctl.limit)
      BY <1>2, <1>4, <1>5
    <3>. QED  BY <3>1, <3>2, <3>3
  <2>. QED  BY <2>1, <2>2, <2>3
<1>7. /\ ctl'.limit = ctl.limit /\ ctl'.wba = ctl.wba /\ ctl'.tmp = ctl.tmp
      /\ ctl'.ret = ctl.ret /\ ctl'.lb = ctl.lb /\ ctl'.cache = ctl.cache
      /\ ctl'.next = ctl.next
      /\ \/ ctl.pc \in {"table", "program"} /\ ctl'.pc \in {"table", "program", ctl.next}
         \/ ctl.pc = "range" /\ ctl'.pc \in {"range", ctl.next}
  <2>1. CASE TableErase
    <3>1. PICK b : \/ ctl' = [ctl EXCEPT !.pc = "program", !.ba = b]
                   \/ ctl' = [ctl EXCEPT !.ba = b]
      BY <2>1 DEF TableErase
    <3>2. ctl.pc = "table"
      BY <2>1 DEF TableErase
    <3>3. CASE ctl' = [ctl EXCEPT !.pc = "program", !.ba = b]
      BY <1>3, <3>2, <3>3 DEF CtlType
    <3>4. CASE ctl' = [ctl EXCEPT !.ba = b]
      BY <1>3, <3>2, <3>4 DEF CtlType
    <3>. QED  BY <3>1, <3>3, <3>4
  <2>2. CASE TableProgram \/ TableNoRoom
    <3>1. PICK r : \/ ctl' = [ctl EXCEPT !.pc = ctl.next, !.ok = r]
                   \/ ctl' = [ctl EXCEPT !.pc = "table", !.ba = ctl.ba + 1]
      BY <1>3, <2>2 DEF TableProgram, TableNoRoom, CtlType
    <3>2. ctl.pc \in {"table", "program"}
      BY <2>2 DEF TableProgram, TableNoRoom
    <3>3. CASE ctl' = [ctl EXCEPT !.pc = ctl.next, !.ok = r]
      BY <1>3, <3>2, <3>3 DEF CtlType
    <3>4. CASE ctl' = [ctl EXCEPT !.pc = "table", !.ba = ctl.ba + 1]
      BY <1>3, <3>2, <3>4 DEF CtlType
    <3>. QED  BY <3>1, <3>3, <3>4
  <2>3. CASE RangeErase \/ RangeDone
    BY <1>3, <2>3 DEF RangeErase, RangeDone, CtlType
  <2>. QED  BY <2>1, <2>2, <2>3
<1>8. ctl.ba <= ctl'.ba
  <2>1. CASE TableErase \/ RangeErase
    <3>1. PICK b \in Blocks : b = Min(Usable) /\ ctl.ba <= b
      BY <1>3, <2>1, UsableIs DEF TableErase, RangeErase
    <3>2. ctl'.ba \in {b, b + 1}
      BY <1>3, <2>1, <3>1 DEF TableErase, RangeErase, CtlType
    <3>. QED  BY <1>4, <3>1, <3>2
  <2>2. CASE TableProgram \/ TableNoRoom \/ RangeDone
    <3>1. ctl'.ba \in {ctl.ba, ctl.ba + 1}
      BY <1>3, <2>2 DEF TableProgram, TableNoRoom, RangeDone, CtlType
    <3>. QED  BY <1>4, <3>1
  <2>. QED  BY <2>1, <2>2
<1>9. Separate' /\ Kept'
  <2>1. ni'.top \in Nat /\ ni'.top <= ni.top
    BY <1>4, <1>6 DEF SamePlaces
  <2>. QED  BY <1>1, <1>2, <1>6, <1>7, <2>1, AreaStep DEF Separate
<1>10. \/ At' = At
       \/ At = "range" /\ At' \in RangeReturns /\ ctl'.pc = At'
  BY <1>1, <1>3, <1>7 DEF At, Control, RangeReturns, TableReturns
<1>11. Layout' /\ Ranges'
  BY <1>1, <1>2, <1>6, <1>7, <1>8, <1>10, RangesFrame
<1>12. Caller'
  <2>1. ctl'.pc \notin Callers
    BY <1>1, <1>3, <1>7 DEF Control, TableReturns, RangeReturns, Callers
  <2>2. offs' = offs
    BY DEF TableErase, TableProgram, TableNoRoom, RangeErase, RangeDone
  <2>. QED  BY <1>1, <1>2, <1>6, <1>7, <2>1, <2>2 DEF Caller, SameMap, Callers
<1>. QED  BY <1>9, <1>11, <1>12 DEF Safe

(* A step in memory that keeps the map has to show where it leaves tables  *)
(* and ranges.                                                             *)
LEMMA MemorySafe ==
  ASSUME TypeInv, Safe, Up, Memory,
         SameMap(ni, ni'), ni'.top = ni.top, ni'.state = ni.state,
         ctl'.cache.kind = "table" => Injective(ctl'.cache.map),
         Layout', Ranges', Caller'
  PROVE  Safe'
BY MemoryStep DEF Safe

(* Outside an operation on a range there is none to be described.          *)
LEMMA NoRange ==
  ASSUME ctl'.pc \notin Ranging
  PROVE  Ranges' /\ At' = ctl'.pc
<1>1. At' = ctl'.pc /\ At' \notin TableReturns
  BY DEF Ranging, At
<1>. QED  BY <1>1 DEF Ranging, Ranges, TableReturns

\* The caller of nmbm_update_info_table is not yet returned to
LEMMA CallerFrame ==
  ASSUME Caller, Memory, ni'.count = ni.count, ctl'.ret = ctl.ret, ctl'.lb = ctl.lb,
         ctl'.pc \notin Callers
  PROVE  Caller'
BY DEF Caller, Memory, Callers

(* nmbm_update_info_table returns.                                         *)
LEMMA UpdateReturnsSafe ==
  ASSUME TypeInv, Safe, Up, Memory, ctl.ret \in UpdateRets, NEW r \in BOOLEAN,
         ctl' = UpdateReturns(r), ni.main = 0 => ni'.prot,
         SameMap(ni, ni'), ni'.state = ni.state,
         ni'.main = ni.main, ni'.backup = ni.backup, ni'.mapba = ni.mapba,
         ni'.top = ni.top
  PROVE  Safe'
<1>1. ctl \in CtlType /\ Caller /\ Layout
  BY DEF TypeInv, Types, Safe
<1>2. /\ ctl'.cache = Erased /\ ctl'.pc = ctl.ret /\ ctl'.ret = "off"
      /\ ctl'.pc # "idle" => ctl'.lb = ctl.lb
  BY <1>1, UpdateReturnsIs
<1>3. Caller'
  BY <1>1, <1>2 DEF Caller, Memory, SameMap, Callers, UpdateRets
<1>4. Ranges'
  BY <1>2, NoRange DEF Ranging, UpdateRets, TableReturns
<1>5. Layout'
  BY <1>1 DEF Layout
<1>6. ctl'.cache.kind # "table"
  BY <1>2 DEF Erased
<1>. QED  BY <1>3, <1>4, <1>5, <1>6, MemorySafe

(* The loop of nmbm_update_info_table, and what it falls back to.          *)
LEMMA UpdateSafe ==
  ASSUME TypeInv, Safe, Update \/ BackupWritten \/ MainWritten
  PROVE  Safe'
<1>1. /\ ni \in NiType /\ ctl \in CtlType
      /\ ni.top \in Blocks /\ ni.backup \in Blocks /\ ni.main \in Blocks
      /\ ni.backup \in 0..SigBa /\ ni.main \in 0..SigBa
  BY Sizes DEF TypeInv, Types, NiType, CtlType
<1>2. Memory /\ Up /\ ctl.ret \in UpdateRets
  BY DEF Update, BackupWritten, MainWritten, TypeInv, Control, InUpdate, At, Up
<1>3. /\ Layout /\ Ranges /\ Caller /\ Separate
      /\ ctl.cache.kind = "table" => Injective(ctl.cache.map)
  BY <1>2 DEF Safe, Separate
<1>4. /\ MgmtStart \in Nat /\ MgmtStart > 0
      /\ ni.main \in Nat /\ ni.backup \in Nat /\ ni.mapba \in Nat /\ ni.top \in Nat
      /\ ctl.ba \in Nat /\ ctl.limit \in Nat
  BY Numbers, Sizes
<1>5. CASE Update
  <2>1. CASE ni.prot \/ ~ni.changed
    <3>1. ctl' = UpdateReturns(TRUE) /\ ni' = ni
      BY <1>5, <2>1 DEF Update
    <3>2. ni.main = 0 => ni.prot
      BY <1>3, <1>5 DEF Layout, Update, At
    <3>. QED  BY <1>2, <3>1, <3>2, UpdateReturnsSafe DEF SameMap
  <2>2. CASE ~(ni.prot \/ ~ni.changed)
    <3>. DEFINE n == Generate(ni)
                c == [ctl EXCEPT !.cache = Table(n)]
    <3>1. /\ n \in NiType /\ Table(n) \in TableType
          /\ SameMap(ni, n) /\ SamePlaces(ni, n) /\ n.state = ni.state
          /\ Table(n).map = ni.map
      BY <1>1, GenerateIs
    <3>. HIDE DEF n
    <3>2. /\ c \in CtlType /\ c.ret = ctl.ret /\ c.lb = ctl.lb
          /\ c.cache.map = ni.map
      BY <1>1, <3>1 DEF CtlType
    <3>3. \/ ni.backup = 0 /\ WriteMain(n, c, ni.top)
          \/ /\ ni.backup # 0 /\ ni' = n
             /\ ctl' = WriteTable(c, ni.backup, ni.top, "backup_written")
      BY <1>5, <2>2 DEF Update, n
    <3>. HIDE DEF c
    <3>4. /\ ni' = n /\ SameCaller(c, ctl')
          /\ ctl'.pc = "table" /\ ctl'.limit = ni.top
          /\ \/ ni.backup = 0 /\ ctl'.next = "main_written" /\ ctl'.ba = ni.main
             \/ ni.backup # 0 /\ ctl'.next = "backup_written" /\ ctl'.ba = ni.backup
      <4>1. CASE ni.backup = 0 /\ WriteMain(n, c, ni.top)
        BY <1>1, <3>1, <3>2, <4>1, WriteMainType DEF SamePlaces
      <4>2. CASE /\ ni.backup # 0 /\ ni' = n
                 /\ ctl' = WriteTable(c, ni.backup, ni.top, "backup_written")
        <5>1. "backup_written" \in TableReturns /\ ni.backup \in 0..SigBa /\ ni.top \in Blocks
          BY <1>1, Places
        <5>. QED  BY <3>2, <4>2, <5>1, WriteTableIs
      <4>. QED  BY <3>3, <4>1, <4>2
    <3>5. /\ ni'.main = ni.main /\ ni'.backup = ni.backup /\ ni'.mapba = ni.mapba
          /\ ni'.top = ni.top /\ ni'.prot = ni.prot /\ ni.main # 0
      BY <1>3, <1>5, <2>2, <3>1, <3>4 DEF SamePlaces, Layout, Update, At
    <3>6. At' = ctl'.next /\ ctl'.pc \notin Callers
      BY <3>4 DEF At, Callers
    <3>7. Layout'
      BY <1>3, <3>5 DEF Layout
    <3>8. MgmtStart <= ctl'.ba /\ ctl'.limit <= ni'.top /\ (ni.backup # 0 => ni.backup <= ctl'.ba)
      BY <1>3, <1>4, <3>4, <3>5 DEF Layout
    <3>9. Ranges'
      BY <3>4, <3>5, <3>6, <3>8 DEF Ranges
    <3>10. Caller'
      BY <1>2, <1>3, <3>1, <3>2, <3>4, <3>6, CallerFrame DEF SameCaller, SameMap
    <3>11. Injective(ctl'.cache.map)
      BY <1>3, <3>2, <3>4 DEF SameCaller, Separate
    <3>. QED  BY <1>2, <3>1, <3>4, <3>5, <3>7, <3>9, <3>10, <3>11, MemorySafe
  <2>. QED  BY <2>1, <2>2
<1>6. CASE BackupWritten
  <2>1. /\ At = "backup_written" /\ ni.main # 0 /\ ni.backup # 0
        /\ ni.backup <= ctl.ba /\ ctl.limit <= ni.top
        /\ MgmtStart <= ni.main /\ ni.main < ni.backup /\ ni.backup < ni.mapba
        /\ ni.mapba <= ni.top
    <3>1. At = "backup_written" /\ ctl.pc \in TableReturns
      BY <1>6, Places DEF BackupWritten, At
    <3>. QED  BY <1>3, <3>1, Places DEF Layout, Ranges
  <2>2. PICK n \in NiType, limit \in Blocks :
          /\ WriteMain(n, ctl, limit)
          /\ SameMap(ni, n) /\ n.state = ni.state
          /\ n.main = ni.main /\ n.top = ni.top /\ limit <= ni.top
          /\ \/ n.backup = 0 /\ n.mapba = ni.backup
             \/ /\ n.backup = limit /\ n.mapba = limit + 1 /\ ni.backup <= limit
                /\ limit < ni.top
    <3>1. CASE ctl.ok
      <4>. DEFINE n == [Clean(ni) EXCEPT !.backup = Here, !.mapba = End]
      <4>1. Here \in Blocks /\ End \in Blocks /\ Here = ctl.ba /\ End = Here + 1 /\ Here < ctl.limit
        BY <1>6, <3>1, HereIs DEF BackupWritten, TableReturns
      <4>2. /\ n \in NiType
            /\ SameMap(ni, n) /\ n.state = ni.state
            /\ n.main = ni.main /\ n.top = ni.top
            /\ n.backup = Here /\ n.mapba = Here + 1
        BY <1>1, <4>1, CleanIs, ZenonT(60) DEF NiType, SameMap, SamePlaces
      <4>3. WriteMain(n, ctl, Here)
        BY <1>6, <3>1 DEF BackupWritten
      <4>. HIDE DEF n
      <4>4. ni.backup <= Here /\ Here < ni.top /\ Here <= ni.top
        BY <1>4, <2>1, <4>1
      <4>. QED  BY <4>1, <4>2, <4>3, <4>4
    <3>2. CASE ~ctl.ok
      <4>. DEFINE n == [ni EXCEPT !.mapba = ni.backup, !.backup = 0]
      <4>1. /\ n \in NiType
            /\ SameMap(ni, n) /\ n.state = ni.state
            /\ n.main = ni.main /\ n.top = ni.top
            /\ n.backup = 0 /\ n.mapba = ni.backup
        BY <1>1, Sizes DEF NiType, SameMap
      <4>2. WriteMain(n, ctl, ni.top)
        BY <1>6, <3>2 DEF BackupWritten
      <4>. HIDE DEF n
      <4>. QED  BY <1>1, <1>4, <4>1, <4>2
    <3>. QED  BY <3>1, <3>2
  <2>3. /\ ni' = n /\ SameCaller(ctl, ctl')
        /\ ctl'.pc = "table" /\ ctl'.next = "main_written"
        /\ ctl'.ba = ni.main /\ ctl'.limit = limit
    BY <1>1, <2>2, WriteMainType
  <2>4. At' = "main_written" /\ ctl'.pc \notin Callers
    BY <2>3 DEF At, Callers
  <2>5. limit \in Nat
    BY <2>2, Sizes
  <2>6. Layout'
    BY <1>4, <2>1, <2>2, <2>3, <2>5 DEF Layout
  <2>7. Ranges'
    BY <1>4, <2>1, <2>2, <2>3, <2>4, <2>5 DEF Ranges
  <2>8. Caller'
    BY <1>2, <1>3, <2>2, <2>3, <2>4, CallerFrame DEF SameCaller, SameMap
  <2>. QED  BY <1>2, <1>3, <2>2, <2>3, <2>6, <2>7, <2>8, MemorySafe DEF SameCaller
<1>7. CASE MainWritten
  <2>1. /\ ctl.pc = "main_written" /\ ctl.ok /\ At = "main_written"
        /\ ctl.pc \in TableReturns
    BY <1>7, Places DEF MainWritten, At
  <2>2. /\ MgmtStart <= ctl.ba /\ ctl.limit <= ni.top
        /\ ni.backup # 0 => ctl.limit <= ni.backup
    BY <1>3, <2>1 DEF Ranges
  <2>3. /\ Here = ctl.ba /\ End = ctl.ba + 1 /\ ctl.ba < ctl.limit
        /\ Here \in Blocks /\ End \in Blocks
    BY <2>1, HereIs
  <2>4. /\ ni' = [Clean(ni) EXCEPT !.main = Here,
                                   !.mapba = IF ni.backup = 0 THEN End ELSE ni.mapba]
        /\ ctl' = [ctl EXCEPT !.pc = "update"]
    BY <1>1, <1>7, CleanIs DEF MainWritten, SamePlaces, NiType
  <2>5. /\ SameMap(ni, ni') /\ ni'.state = ni.state
        /\ ni'.main = ctl.ba /\ ni'.backup = ni.backup /\ ni'.top = ni.top
        /\ ni'.mapba = IF ni.backup = 0 THEN ctl.ba + 1 ELSE ni.mapba
    BY <1>1, <2>3, <2>4, CleanIs DEF NiType, SameMap, SamePlaces
  <2>6. ctl'.pc = "update" /\ SameCaller(ctl, ctl')
    BY <1>1, <2>4, GoOnIs DEF Pcs, RangeReturns
  <2>7. Ranges' /\ ctl'.pc \notin Callers
    BY <2>6, NoRange DEF Ranging, TableReturns, Callers
  <2>8. Layout'
    BY <1>3, <1>4, <2>2, <2>3, <2>5 DEF Layout
  <2>9. Caller'
    BY <1>2, <1>3, <2>5, <2>6, <2>7, CallerFrame DEF SameCaller, SameMap
  <2>. QED  BY <1>2, <1>3, <2>5, <2>6, <2>7, <2>8, <2>9, MemorySafe DEF SameCaller
<1>. QED  BY <1>5, <1>6, <1>7

(* No room for the main table.                                             *)
LEMMA RescueSafe ==
  ASSUME TypeInv, Safe, MainFailed \/ TmpWritten \/ RescuedMain
  PROVE  Safe'
<1>1. /\ ni \in NiType /\ ctl \in CtlType
      /\ ni.top \in Blocks /\ ni.backup \in Blocks /\ ni.main \in Blocks
      /\ ctl.wba \in Blocks /\ ctl.tmp \in Blocks
      /\ MgmtStart \in 0..SigBa /\ Blocks \subseteq 0..SigBa /\ 0 \in Blocks
  BY Sizes DEF TypeInv, Types, NiType, CtlType
<1>2. /\ Memory /\ Up /\ ctl.pc = At
      /\ ctl.pc \in {"main_written", "tmp_written", "rescued_main"}
      /\ ctl.pc \in TableReturns
  BY Places DEF MainFailed, TmpWritten, RescuedMain, At, Up
<1>3. /\ Layout /\ Ranges /\ Caller /\ Separate
      /\ ctl.cache.kind = "table" => Injective(ctl.cache.map)
  BY <1>2 DEF Safe, Separate
<1>4. /\ MgmtStart \in Nat /\ MgmtStart > 0
      /\ ni.main \in Nat /\ ni.backup \in Nat /\ ni.mapba \in Nat /\ ni.top \in Nat
      /\ ctl.ba \in Nat /\ ctl.limit \in Nat /\ ctl.wba \in Nat /\ ctl.tmp \in Nat
  BY Numbers, Sizes
<1>5. /\ MgmtStart <= ctl.ba /\ ctl.limit <= ni.top /\ ni.main # 0
      /\ MgmtStart <= ni.main /\ ni.main < ni.mapba /\ ni.mapba <= ni.top
  <2>1. MgmtStart <= ctl.ba /\ ctl.limit <= ni.top
    BY <1>2, <1>3 DEF Ranges
  <2>2. ni.main # 0
    BY <1>2, <1>3 DEF Ranges
  <2>. QED  BY <1>3, <2>1, <2>2 DEF Layout
<1>6. ASSUME SameMap(ni, ni'), ni'.top = ni.top, ni'.state = ni.state,
             SameCaller(ctl, ctl') \/ /\ ctl'.ret = ctl.ret /\ ctl'.lb = ctl.lb
                                      /\ ctl'.cache = ctl.cache,
             ctl'.pc \notin Callers, Layout', Ranges'
      PROVE  Safe'
  <2>1. ctl'.ret = ctl.ret /\ ctl'.lb = ctl.lb /\ ctl'.cache = ctl.cache
    BY <1>6 DEF SameCaller
  <2>2. Caller'
    BY <1>2, <1>3, <1>6, <2>1, CallerFrame DEF SameMap
  <2>. QED  BY <1>2, <1>3, <1>6, <2>1, <2>2, MemorySafe
<1>7. ASSUME ctl' = [ctl EXCEPT !.pc = "update"]
      PROVE  Ranges' /\ ctl'.pc \notin Callers /\ SameCaller(ctl, ctl')
  <2>1. ctl'.pc = "update" /\ SameCaller(ctl, ctl')
    BY <1>1, <1>7, GoOnIs DEF Pcs, RangeReturns
  <2>. QED  BY <2>1, NoRange DEF Ranging, TableReturns, Callers
<1>8. ASSUME ni' = [ni EXCEPT !.main = ni.backup, !.backup = 0],
             ctl' = [ctl EXCEPT !.pc = "update"], ni.backup # 0
      PROVE  Safe'
  <2>1. /\ SameMap(ni, ni') /\ ni'.state = ni.state
        /\ ni'.main = ni.backup /\ ni'.backup = 0 /\ ni'.mapba = ni.mapba
        /\ ni'.top = ni.top
    BY <1>1, <1>8 DEF NiType, SameMap
  <2>2. Layout'
    BY <1>3, <1>4, <1>8, <2>1 DEF Layout
  <2>. QED  BY <1>6, <1>7, <1>8, <2>1, <2>2
<1>9. CASE MainFailed
  <2>1. CASE ni.backup = 0
    <3>1. Rebuild(ni, ctl, "update")
      BY <1>9, <2>1 DEF MainFailed
    <3>2. /\ ni'.main = 0 /\ ni'.backup = 0 /\ ni'.mapba = ni.top /\ ni'.top = ni.top
          /\ SameMap(ni, ni') /\ ni'.state = ni.state
          /\ ctl'.pc = "table" /\ ctl'.next = "rebuilt_main"
          /\ ctl'.ba = MgmtStart /\ ctl'.limit = ni.top
          /\ ctl'.ret = ctl.ret /\ ctl'.lb = ctl.lb /\ ctl'.cache = ctl.cache
      BY <1>1, <3>1, RebuildType
    <3>3. At' = "rebuilt_main" /\ ctl'.pc \notin Callers
      BY <3>2 DEF At, Callers
    <3>4. Layout'
      BY <1>4, <1>5, <3>2, <3>3 DEF Layout
    <3>5. Ranges'
      BY <1>4, <1>5, <3>2, <3>3 DEF Ranges
    <3>. QED  BY <1>6, <3>2, <3>3, <3>4, <3>5
  <2>2. CASE ni.backup # 0 /\ Reserve(ni, ni.mapba) = 0
    BY <1>8, <1>9, <2>2 DEF MainFailed
  <2>3. CASE ni.backup # 0 /\ Reserve(ni, ni.mapba) # 0
    <3>1. PICK w \in 0..SigBa :
            w = Reserve(ni, ni.mapba) /\ w \in Blocks /\ ni.mapba <= w /\ w \in Nat
      BY <1>1, <1>4, <2>3, ReserveIs, Sizes
    <3>. DEFINE d == WriteTable(ctl, w, ni.top, "tmp_written")
    <3>2. ni' = ni /\ ctl' = [d EXCEPT !.wba = w]
      BY <1>9, <2>3, <3>1 DEF MainFailed
    <3>3. /\ d \in CtlType /\ SameCaller(ctl, d)
          /\ d.pc = "table" /\ d.next = "tmp_written" /\ d.ba = w /\ d.limit = ni.top
      <4>1. ctl \in CtlType /\ ni.top \in Blocks /\ "tmp_written" \in TableReturns
        BY <1>1, Places
      <4>. QED  BY <4>1, WriteTableIs
    <3>. HIDE DEF d
    <3>4. /\ ctl'.ret = ctl.ret /\ ctl'.lb = ctl.lb /\ ctl'.cache = ctl.cache
          /\ ctl'.pc = "table" /\ ctl'.next = "tmp_written" /\ ctl'.ba = w
          /\ ctl'.limit = ni.top /\ ctl'.wba = w
      BY <3>2, <3>3 DEF CtlType, SameCaller
    <3>5. At' = "tmp_written" /\ ctl'.pc \notin Callers
      BY <3>4 DEF At, Callers
    <3>6. Layout'
      BY <1>3, <1>5, <3>2, <3>5 DEF Layout
    <3>7. Ranges'
      BY <1>4, <1>5, <2>3, <3>1, <3>2, <3>4, <3>5 DEF Ranges
    <3>. QED  BY <1>6, <3>2, <3>4, <3>5, <3>6, <3>7 DEF SameMap
  <2>. QED  BY <2>1, <2>2, <2>3
<1>10. CASE TmpWritten
  <2>1. ni.backup # 0 /\ ni.mapba <= ctl.wba /\ ctl.wba <= ctl.ba
    BY <1>2, <1>3, <1>10 DEF TmpWritten, Ranges
  <2>2. CASE ctl.ok
    <3>. DEFINE d == WriteTable(ctl, MgmtStart, Here, "rescued_main")
    <3>1. /\ Here \in Blocks /\ End \in Blocks /\ Here = ctl.ba /\ End = ctl.ba + 1
          /\ ctl.ba < ctl.limit
      BY <1>2, <2>2, HereIs
    <3>2. /\ ni' = [ni EXCEPT !.mapba = End]
          /\ ctl' = [d EXCEPT !.tmp = Here]
      BY <1>10, <2>2 DEF TmpWritten
    <3>3. /\ d \in CtlType /\ SameCaller(ctl, d)
          /\ d.pc = "table" /\ d.next = "rescued_main" /\ d.ba = MgmtStart /\ d.limit = Here
      <4>1. /\ ctl \in CtlType /\ Here \in Blocks /\ "rescued_main" \in TableReturns
            /\ MgmtStart \in 0..SigBa
        BY <1>1, <3>1, Places
      <4>. QED  BY <4>1, WriteTableIs
    <3>. HIDE DEF d
    <3>4. /\ ctl'.ret = ctl.ret /\ ctl'.lb = ctl.lb /\ ctl'.cache = ctl.cache
          /\ ctl'.pc = "table" /\ ctl'.next = "rescued_main" /\ ctl'.ba = MgmtStart
          /\ ctl'.limit = ctl.ba /\ ctl'.tmp = ctl.ba
      BY <3>1, <3>2, <3>3 DEF CtlType, SameCaller
    <3>5. /\ SameMap(ni, ni') /\ ni'.state = ni.state
          /\ ni'.main = ni.main /\ ni'.backup = ni.backup /\ ni'.mapba = ctl.ba + 1
          /\ ni'.top = ni.top
      BY <1>1, <3>1, <3>2 DEF NiType, SameMap
    <3>6. At' = "rescued_main" /\ ctl'.pc \notin Callers
      BY <3>4 DEF At, Callers
    <3>7. Layout'
      BY <1>3, <1>4, <1>5, <2>1, <3>1, <3>5, <3>6 DEF Layout
    <3>8. Ranges'
      BY <1>4, <1>5, <2>1, <3>1, <3>4, <3>5, <3>6 DEF Ranges
    <3>. QED  BY <1>6, <3>4, <3>5, <3>6, <3>7, <3>8
  <2>3. CASE ~ctl.ok /\ ctl.wba > ni.mapba
    <3>. DEFINE d == WriteTable(ctl, ctl.wba - 1, ni.top, "tmp_written")
    <3>1. /\ ctl.wba - 1 \in Blocks /\ ctl.wba - 1 \in 0..SigBa
          /\ ctl \in CtlType /\ ni.top \in Blocks /\ "tmp_written" \in TableReturns
      BY <1>1, <1>4, <2>3, Sizes, Places DEF Blocks
    <3>2. /\ d \in CtlType /\ SameCaller(ctl, d) /\ d.limit = ni.top
          /\ d.pc = "table" /\ d.next = "tmp_written" /\ d.ba = ctl.wba - 1
      BY <3>1, WriteTableIs
    <3>3. d.wba = ctl.wba
      BY <3>2 DEF SameCaller
    <3>4. ni' = ni /\ ctl' = [d EXCEPT !.wba = d.wba - 1]
      BY <1>10, <2>3, <3>2 DEF TmpWritten, CtlType
    <3>. HIDE DEF d
    <3>5. /\ ctl'.ret = ctl.ret /\ ctl'.lb = ctl.lb /\ ctl'.cache = ctl.cache
          /\ ctl'.pc = "table" /\ ctl'.next = "tmp_written" /\ ctl'.ba = ctl.wba - 1
          /\ ctl'.limit = ni.top /\ ctl'.wba = ctl.wba - 1
      BY <3>2, <3>3, <3>4 DEF CtlType, SameCaller
    <3>6. At' = "tmp_written" /\ ctl'.pc \notin Callers
      BY <3>5 DEF At, Callers
    <3>7. Layout'
      BY <1>3, <1>5, <3>4, <3>6 DEF Layout
    <3>8. Ranges'
      BY <1>4, <1>5, <2>1, <2>3, <3>4, <3>5, <3>6 DEF Ranges
    <3>. QED  BY <1>6, <3>4, <3>5, <3>6, <3>7, <3>8 DEF SameMap
  <2>4. CASE ~ctl.ok /\ ~(ctl.wba > ni.mapba)
    BY <1>8, <1>10, <2>1, <2>4 DEF TmpWritten
  <2>. QED  BY <2>2, <2>3, <2>4
<1>11. CASE RescuedMain
  <2>1. MgmtStart <= ctl.tmp /\ ctl.limit <= ctl.tmp /\ ctl.tmp < ni.mapba
    BY <1>2, <1>3, <1>11 DEF RescuedMain, Ranges
  <2>2. ctl.ok => Here \in Blocks /\ Here = ctl.ba /\ ctl.ba < ctl.limit
    BY <1>2, HereIs
  <2>3. /\ ni' = IF ctl.ok
                 THEN [Clean(ni) EXCEPT !.main = Here, !.backup = ctl.tmp]
                 ELSE [Clean(ni) EXCEPT !.main = ctl.tmp, !.backup = 0]
        /\ ctl' = [ctl EXCEPT !.pc = "update"]
    BY <1>11 DEF RescuedMain
  <2>4. /\ SameMap(ni, ni') /\ ni'.state = ni.state
        /\ ni'.mapba = ni.mapba /\ ni'.top = ni.top
        /\ \/ ctl.ok /\ ni'.main = ctl.ba /\ ni'.backup = ctl.tmp
           \/ ni'.main = ctl.tmp /\ ni'.backup = 0
    <3>1. Clean(ni) \in NiType /\ SameMap(ni, Clean(ni)) /\ SamePlaces(ni, Clean(ni))
          /\ Clean(ni).state = ni.state
      BY <1>1, CleanIs
    <3>2. CASE ctl.ok
      BY <2>2, <2>3, <3>1, <3>2 DEF NiType, SameMap, SamePlaces
    <3>3. CASE ~ctl.ok
      BY <2>3, <3>1, <3>3 DEF NiType, SameMap, SamePlaces
    <3>. QED  BY <3>2, <3>3
  <2>5. Layout'
    BY <1>3, <1>4, <1>5, <2>1, <2>2, <2>4 DEF Layout
  <2>. QED  BY <1>6, <1>7, <2>3, <2>4, <2>5
<1>. QED  BY <1>9, <1>10, <1>11

(* nmbm_rebuild_info_table.                                                *)
LEMMA RebuildingSafe ==
  ASSUME TypeInv, Safe, RebuiltMain \/ RebuiltBackup
  PROVE  Safe'
<1>1. /\ ni \in NiType /\ ctl \in CtlType
      /\ ni.top \in Blocks /\ ni.main \in Blocks
      /\ ctl.built \in {"update", "create"} /\ ctl.built \in RangeReturns
      /\ ctl.built = "update" => ctl.ret \in UpdateRets
  BY DEF TypeInv, Types, NiType, CtlType, RangeReturns, RebuiltMain, RebuiltBackup,
         Control, InUpdate, At
<1>2. /\ Memory /\ Up /\ ctl.pc = At
      /\ ctl.pc \in {"rebuilt_main", "rebuilt_backup"}
      /\ ctl.pc \in TableReturns
  BY Places DEF RebuiltMain, RebuiltBackup, At, Up
<1>3. /\ Layout /\ Ranges /\ Caller /\ Separate /\ Kept
      /\ ctl.cache.kind = "table" => Injective(ctl.cache.map)
  BY <1>2 DEF Safe, Separate
<1>4. /\ MgmtStart \in Nat /\ MgmtStart > 0
      /\ ni.main \in Nat /\ ni.backup \in Nat /\ ni.mapba \in Nat /\ ni.top \in Nat
      /\ ctl.ba \in Nat /\ ctl.limit \in Nat
  BY Numbers, Sizes
<1>5. /\ MgmtStart <= ctl.ba /\ ctl.limit <= ni.top /\ ni.backup = 0
      /\ MgmtStart <= ni.mapba /\ ni.mapba <= ni.top
  BY <1>2, <1>3 DEF Ranges, Layout
<1>6. ASSUME SameMap(ni, ni'), ni'.top = ni.top, ni'.state = ni.state,
             SameCaller(ctl, ctl'), ctl'.pc \notin Callers, Layout', Ranges'
      PROVE  Safe'
  <2>1. ctl'.ret = ctl.ret /\ ctl'.lb = ctl.lb /\ ctl'.cache = ctl.cache
    BY <1>6 DEF SameCaller
  <2>2. Caller'
    BY <1>2, <1>3, <1>6, <2>1, CallerFrame DEF SameMap
  <2>. QED  BY <1>2, <1>3, <1>6, <2>1, <2>2, MemorySafe
<1>7. ASSUME ctl' = RebuildReturns(TRUE)
      PROVE  Ranges' /\ ctl'.pc \notin Callers /\ SameCaller(ctl, ctl')
  <2>1. ctl' = [ctl EXCEPT !.pc = ctl.built] /\ ctl'.pc = ctl.built
    BY <1>1, <1>7, RebuildReturnsIs
  <2>2. SameCaller(ctl, ctl')
    BY <1>1, <2>1, GoOnIs DEF Pcs
  <2>. QED  BY <1>1, <2>1, <2>2, NoRange DEF Ranging, TableReturns, Callers
<1>8. CASE RebuiltMain
  <2>1. CASE ctl.ok
    <3>1. /\ Here \in Blocks /\ End \in Blocks /\ End \in Nat
          /\ Here = ctl.ba /\ End = ctl.ba + 1 /\ ctl.ba < ctl.limit
      BY <1>2, <2>1, HereIs, Sizes
    <3>. DEFINE n == [Clean(ni) EXCEPT !.main = Here, !.mapba = End]
    <3>2. /\ n \in NiType /\ SameMap(ni, n) /\ n.state = ni.state /\ n.top = ni.top
          /\ n.main = ctl.ba /\ n.backup = 0 /\ n.mapba = ctl.ba + 1
      BY <1>1, <1>5, <3>1, CleanIs, ZenonT(60) DEF NiType, SameMap, SamePlaces
    <3>3. PICK w \in 0..SigBa : w = Reserve(n, End) /\ (w # 0 => End <= w)
      <4>. HIDE DEF n
      <4>. QED  BY <3>1, <3>2, ReserveIs, Sizes
    <3>4. /\ ni' = n
          /\ ctl' = IF w = 0 THEN RebuildReturns(TRUE)
                    ELSE WriteTable(ctl, w, ni.top, "rebuilt_backup")
      BY <1>8, <2>1, <3>3 DEF RebuiltMain
    <3>. HIDE DEF n
    <3>5. Layout'
      BY <1>4, <1>5, <3>1, <3>2, <3>4 DEF Layout
    <3>6. CASE w = 0
      BY <1>6, <1>7, <3>2, <3>4, <3>5, <3>6
    <3>7. CASE w # 0
      <4>1. ctl' = WriteTable(ctl, w, ni.top, "rebuilt_backup")
        BY <3>4, <3>7
      <4>2. ctl \in CtlType /\ ni.top \in Blocks /\ "rebuilt_backup" \in TableReturns
        BY <1>1, Places
      <4>3. /\ SameCaller(ctl, ctl') /\ ctl'.ba = w /\ ctl'.limit = ni.top
            /\ ctl'.pc = "table" /\ ctl'.next = "rebuilt_backup"
        BY <4>1, <4>2, WriteTableIs
      <4>4. At' = "rebuilt_backup" /\ ctl'.pc \notin Callers
        BY <4>3 DEF At, Callers
      <4>5. Ranges'
        BY <1>4, <1>5, <3>1, <3>2, <3>3, <3>4, <3>7, <4>3, <4>4 DEF Ranges
      <4>. QED  BY <1>6, <3>2, <3>4, <3>5, <4>3, <4>4, <4>5
    <3>. QED  BY <3>6, <3>7
  <2>2. CASE ~ctl.ok
    <3>1. ni' = [ni EXCEPT !.prot = TRUE] /\ ctl' = RebuildReturns(FALSE)
      BY <1>8, <2>2 DEF RebuiltMain
    <3>2. /\ SameMap(ni, ni') /\ ni'.state = ni.state
          /\ ni'.main = ni.main /\ ni'.backup = ni.backup /\ ni'.mapba = ni.mapba
          /\ ni'.top = ni.top /\ ni'.prot
      BY <1>1, <3>1 DEF NiType, SameMap
    <3>3. CASE ctl.built = "update"
      <4>1. ctl' = UpdateReturns(FALSE)
        BY <3>1, <3>3 DEF RebuildReturns
      <4>. QED  BY <1>1, <1>2, <3>2, <3>3, <4>1, UpdateReturnsSafe
    <3>4. CASE ctl.built = "create"
      <4>1. ctl'.pc = "dead" /\ ctl'.cache = Erased
        BY <1>1, <3>1, <3>4, RebuildReturnsIs
      <4>2. ~Up' /\ ctl'.cache.kind # "table"
        BY <4>1 DEF Up, Erased
      <4>3. Separate'
        BY <1>2, <1>3, <3>2, <4>2, MemoryStep
      <4>. QED  BY <4>2, <4>3 DEF Safe
    <3>. QED  BY <1>1, <3>3, <3>4
  <2>. QED  BY <2>1, <2>2
<1>9. CASE RebuiltBackup
  <2>1. ni.main < ctl.ba /\ ni.main # 0 /\ MgmtStart <= ni.main
    BY <1>2, <1>3, <1>9 DEF RebuiltBackup, Ranges, Layout
  <2>2. CASE ctl.ok
    <3>1. /\ Here \in Blocks /\ End \in Blocks
          /\ Here = ctl.ba /\ End = ctl.ba + 1 /\ ctl.ba < ctl.limit
      BY <1>2, <2>2, HereIs
    <3>2. /\ ni' = [ni EXCEPT !.backup = Here, !.mapba = End]
          /\ ctl' = EraseRange(ctl, ni.main + 1, Here, ctl.built)
      BY <1>9, <2>2 DEF RebuiltBackup
    <3>3. /\ SameMap(ni, ni') /\ ni'.state = ni.state
          /\ ni'.main = ni.main /\ ni'.backup = ctl.ba /\ ni'.mapba = ctl.ba + 1
          /\ ni'.top = ni.top
      BY <1>1, <3>1, <3>2 DEF NiType, SameMap
    <3>4. ni.main + 1 \in 0..SigBa
      BY <1>1, Sizes DEF Blocks
    <3>5. /\ SameCaller(ctl, ctl') /\ ctl'.pc = "range"
          /\ ctl'.ba = ni.main + 1 /\ ctl'.limit = ctl.ba
      BY <1>1, <3>1, <3>2, <3>4, EraseRangeIs
    <3>6. At' = "range" /\ ctl'.pc \notin Callers
      BY <3>5 DEF At, Callers
    <3>7. Layout'
      BY <1>4, <1>5, <2>1, <3>1, <3>3 DEF Layout
    <3>8. Ranges'
      BY <1>4, <1>5, <2>1, <3>1, <3>3, <3>5, <3>6 DEF Ranges, TableReturns
    <3>. QED  BY <1>6, <3>3, <3>5, <3>6, <3>7, <3>8
  <2>3. CASE ~ctl.ok
    <3>1. ctl' = RebuildReturns(TRUE) /\ ni' = ni
      BY <1>9, <2>3 DEF RebuiltBackup
    <3>2. Layout'
      BY <1>3, <2>1, <3>1 DEF Layout
    <3>. QED  BY <1>6, <1>7, <3>1, <3>2 DEF SameMap
  <2>. QED  BY <2>2, <2>3
<1>. QED  BY <1>8, <1>9

\* The first attach finds a chip that nobody has written to
Blank ==
  ~skipped /\ offs = 0 /\ ctl.pc = "off" =>
    flash = [b \in Blocks |-> Erased] /\ disk = [l \in Logic |-> Any]

(* What a step does to the physical block of one logic block, or to which  *)
(* it maps that one, does not reach other users.                           *)
LEMMA PhysicalStep ==
  ASSUME TypeInv, Separate, Kept, NEW lb \in Logic,
         \A b \in Blocks : b # ni.map[lb] =>
           flash'[b] = flash[b] /\ ni'.state[b] = ni.state[b],
         \A b \in Blocks : flash'[b] = flash[b] \/ flash'[b].kind # "table",
         ni'.top \in Nat, ni'.top <= ni.top,
         \/ ni'.map = ni.map
         \/ ni'.map = [ni.map EXCEPT ![lb] = -1]
         \/ /\ ni'.map = [ni.map EXCEPT ![lb] = ni.top]
            /\ MgmtStart <= ni.top /\ ni'.top < ni.top,
         ni'.count \in Nat, ni.count <= ni'.count,
         \A l \in Logic : l # lb => disk'[l] = disk[l],
         disk'[lb] # Any => /\ lb < ni'.count /\ ni'.map = ni.map /\ ni.map[lb] >= 0
                            /\ ni'.state[ni.map[lb]] # "BAD"
                            /\ flash'[ni.map[lb]] = disk'[lb],
         ctl'.cache.kind = "table" => Injective(ctl'.cache.map)
  PROVE  Separate' /\ Kept'
<1>1. /\ \A l \in Logic : ni.map[l] \in PhysicalOrNone /\ ni.map[l] \in Int
      /\ ni.top \in Nat /\ ni.count \in Nat /\ MgmtStart \in Nat /\ 0 < MgmtStart
      /\ \A l \in Logic : l \in Nat
      /\ ni.map \in [Logic -> PhysicalOrNone]
  BY Numbers, Sizes DEF TypeInv, Types, NiType
<1>2. /\ Injective(ni.map)
      /\ \A l \in Logic : ni.map[l] >= MgmtStart => ni.map[l] > ni.top
  BY DEF Separate
<1>3. /\ \A l \in Logic : l # lb => ni'.map[l] = ni.map[l]
      /\ \/ ni'.map[lb] = ni.map[lb] \/ ni'.map[lb] = -1
         \/ ni'.map[lb] = ni.top /\ MgmtStart <= ni.top /\ ni'.top < ni.top
  BY <1>1
<1>4. Injective(ni'.map)
  <2>. SUFFICES ASSUME NEW k \in Logic, NEW l \in Logic, k # l, ni'.map[k] >= 0
                PROVE  ni'.map[k] # ni'.map[l]
    BY DEF Injective
  <2>1. CASE k # lb /\ l # lb
    BY <1>2, <1>3, <2>1 DEF Injective
  <2>2. CASE k = lb
    <3>1. l # lb /\ ni'.map[l] = ni.map[l]
      BY <1>3, <2>2
    <3>2. CASE ni'.map[lb] = ni.map[lb]
      BY <1>2, <2>2, <3>1, <3>2 DEF Injective
    <3>3. CASE ni'.map[lb] = ni.top /\ MgmtStart <= ni.top
      BY <1>1, <1>2, <2>2, <3>1, <3>3
    <3>. QED  BY <1>3, <2>2, <3>2, <3>3
  <2>3. CASE l = lb
    <3>1. k # lb /\ ni'.map[k] = ni.map[k]
      BY <1>3, <2>3
    <3>2. CASE ni'.map[lb] = ni.map[lb]
      BY <1>2, <2>3, <3>1, <3>2 DEF Injective
    <3>3. CASE ni'.map[lb] = ni.top /\ MgmtStart <= ni.top
      BY <1>1, <1>2, <2>3, <3>1, <3>3
    <3>4. CASE ni'.map[lb] = -1
      BY <1>1, <2>3, <3>1, <3>4
    <3>. QED  BY <1>3, <3>2, <3>3, <3>4
  <2>. QED  BY <2>1, <2>2, <2>3
<1>5. \A l \in Logic : ni'.map[l] >= MgmtStart => ni'.map[l] > ni'.top
  <2>1. \A l \in Logic : ni.map[l] >= MgmtStart => ni.map[l] > ni'.top
    BY <1>1, <1>2
  <2>2. ni'.map[lb] >= MgmtStart => ni'.map[lb] > ni'.top
    BY <1>1, <1>3, <2>1
  <2>. QED  BY <1>3, <2>1, <2>2
<1>6. Separate'
  <2>1. \A b \in Blocks : flash'[b].kind = "table" => Injective(flash'[b].map)
    BY DEF Separate
  <2>. QED  BY <1>4, <1>5, <2>1 DEF Separate, Injective
<1>7. ASSUME NEW l \in Logic, disk'[l] # Any
      PROVE  /\ l < ni'.count /\ ni'.map[l] >= 0
             /\ ni'.state[ni'.map[l]] # "BAD"
             /\ flash'[ni'.map[l]] = disk'[l]
  <2>1. CASE l = lb
    BY <1>7, <2>1
  <2>2. CASE l # lb
    <3>1. disk[l] # Any /\ disk'[l] = disk[l] /\ ni'.map[l] = ni.map[l]
      BY <1>3, <1>7, <2>2
    <3>2. /\ l < ni.count /\ ni.map[l] >= 0 /\ ni.state[ni.map[l]] # "BAD"
          /\ flash[ni.map[l]] = disk[l]
      BY <3>1 DEF Kept
    <3>3. ni.map[l] \in Blocks
      BY <1>1, <3>2, Sizes DEF PhysicalOrNone
    <3>4. ni.map[l] # ni.map[lb]
      BY <1>2, <2>2, <3>2 DEF Injective
    <3>5. l < ni'.count
      BY <1>1, <3>2
    <3>. QED  BY <3>1, <3>2, <3>3, <3>4, <3>5
  <2>. QED  BY <2>1, <2>2
<1>8. Kept'
  BY <1>7 DEF Kept
<1>. QED  BY <1>6, <1>8

(* What nmbm_attach starts from when it has found tables.                  *)
LEMMA LoadedSafe ==
  ASSUME TypeInv, Safe, Survives, ~skipped, ctl.pc = "off", LoadTables.main # 0,
         Memory, SameMap(LoadTables, ni'), SamePlaces(LoadTables, ni'),
         ni'.state = LoadTables.state,
         ctl'.ret = "off", ctl'.pc \notin Callers, Ranges',
         ctl'.cache = Erased \/ ctl'.cache.map = LoadTables.map
  PROVE  Safe'
<1>. DEFINE n == LoadTables
<1>1. flash \in [Blocks -> Content]
  BY DEF TypeInv, Types
<1>2. /\ n \in NiType /\ MgmtStart <= n.main /\ n.main < n.mapba
      /\ n.backup # 0 => n.main < n.backup /\ n.backup < n.mapba
      /\ \A l \in Logic : n.map[l] >= MgmtStart => n.map[l] > n.top
      /\ \A l \in Logic : n.map[l] >= 0 => l < n.count
  BY <1>1, LoadIs
<1>3. PICK b \in Blocks : flash[b] \in TableType /\ n.map = flash[b].map
  BY <1>1, LoadIs
<1>4. /\ n.mapba <= n.top
      /\ \A l \in Logic : disk[l] # Any => /\ n.map[l] >= 0
                                           /\ n.state[n.map[l]] # "BAD"
                                           /\ flash[n.map[l]] = disk[l]
  BY DEF Survives
<1>. HIDE DEF n
<1>5. /\ ni'.map = n.map /\ ni'.count = n.count /\ ni'.state = n.state
      /\ ni'.main = n.main /\ ni'.backup = n.backup /\ ni'.mapba = n.mapba
      /\ ni'.top = n.top /\ ni'.main # 0
      /\ flash' = flash /\ disk' = disk
  BY DEF SameMap, SamePlaces, n, Memory
<1>6. Injective(n.map)
  <2>1. flash[b].kind = "table"
    BY <1>3 DEF TableType
  <2>. QED  BY <1>3, <2>1 DEF Safe, Separate
<1>7. ctl'.cache.kind = "table" => Injective(ctl'.cache.map)
  BY <1>6 DEF n, Erased
<1>8. Separate'
  BY <1>2, <1>5, <1>6, <1>7 DEF Safe, Separate, Injective
<1>9. Kept'
  BY <1>2, <1>4, <1>5 DEF Kept
<1>10. Layout'
  <2>1. MgmtStart \in Nat /\ n.main \in Nat /\ n.mapba \in Nat
    BY <1>2, Sizes DEF NiType
  <2>. QED  BY <1>2, <1>4, <1>5, <2>1 DEF Layout
<1>11. Caller'
  BY DEF Caller, Callers
<1>. QED  BY <1>8, <1>9, <1>10, <1>11 DEF Safe

(* nmbm_attach, up to its first operation on the flash.                    *)
LEMMA AttachSafe ==
  ASSUME TypeInv, Safe, Survives, ~skipped, Attach
  PROVE  Safe'
<1>1. flash \in [Blocks -> Content] /\ ctl.pc = "off" /\ Memory /\ Separate
  BY DEF TypeInv, Types, Attach, AttachCreate, AttachSingle, AttachTwo, Safe
<1>2. LoadTables \in NiType
  BY <1>1, LoadIs
<1>3. CASE AttachCreate
  <2>. DEFINE n == BuildMapping(LoadTables)
              room == Good(n, MgmtStart + 1, SigBa - 1)
              t == [n EXCEPT !.top = Max(room)]
              m == Generate(t)
  <2>1. CASE room = {}
    <3>1. ctl' = [NoControl EXCEPT !.pc = "dead"] /\ ni' = ni
      BY <1>3, <2>1 DEF AttachCreate
    <3>2. ctl'.pc = "dead" /\ ctl'.cache = NoControl.cache
      BY <3>1, NoControlIs, GoOnIs DEF Pcs, SameCaller
    <3>3. ctl'.cache.kind # "table"
      BY <3>2, NoControlIs DEF Erased
    <3>4. Separate'
      BY <1>1, <3>1, <3>3 DEF Separate, Memory
    <3>. QED  BY <3>2, <3>4 DEF Safe, Up
  <2>2. CASE room # {}
    <3>1. Rebuild(m, Loading(m), "create")
      BY <1>3, <2>2 DEF AttachCreate
    <3>2. /\ n \in NiType
          /\ \A l \in Logic : n.map[l] < MgmtStart
          /\ Injective(n.map)
      BY <1>2, BuildMappingIs DEF Injective
    <3>. HIDE DEF n
    <3>3. room \subseteq 0..SigBa /\ room \subseteq Blocks /\ \A x \in room : MgmtStart < x
      BY Sizes DEF Good, Blocks
    <3>. HIDE DEF room
    <3>4. Max(room) \in Blocks /\ MgmtStart < Max(room)
      BY <2>2, <3>3, Sizes, MaxOf
    <3>5. t \in NiType /\ t.map = n.map /\ t.top = Max(room)
      BY <3>2, <3>4 DEF NiType
    <3>. HIDE DEF t
    <3>6. /\ m \in NiType /\ m.map = n.map /\ m.top = Max(room)
          /\ Loading(m) \in CtlType /\ Loading(m).cache.map = n.map
          /\ Loading(m).ret = "off"
      BY <3>5, GenerateIs, LoadingIs DEF SameMap, SamePlaces
    <3>. HIDE DEF m
    <3>7. /\ ni'.main = 0 /\ ni'.backup = 0 /\ ni'.mapba = Max(room) /\ ni'.top = Max(room)
          /\ ni'.map = n.map
          /\ ctl'.pc = "table" /\ ctl'.next = "rebuilt_main"
          /\ ctl'.ba = MgmtStart /\ ctl'.limit = Max(room)
          /\ ctl'.ret = "off" /\ ctl'.cache.map = n.map
      BY <3>1, <3>6, RebuildType DEF SameMap
    <3>8. At' = "rebuilt_main" /\ MgmtStart \in Nat /\ Max(room) \in Nat
      BY <3>4, <3>7, Sizes DEF At
    <3>9. Layout' /\ Ranges'
      BY <3>4, <3>7, <3>8 DEF Layout, Ranges
    <3>10. Caller'
      BY <3>7 DEF Caller, Callers
    <3>11. Kept'
      <4>1. \A l \in Logic : LoadTables.map[l] = -1
        BY <1>1, <1>3, LoadIs DEF AttachCreate
      <4>2. \A l \in Logic : disk[l] # Any => LoadTables.map[l] >= 0
        BY <1>1 DEF Survives
      <4>3. \A l \in Logic : disk[l] = Any
        BY <4>1, <4>2
      <4>. QED  BY <1>1, <4>3 DEF Kept, Memory
    <3>12. Separate'
      <4>1. \A l \in Logic : n.map[l] \in Int
        BY <3>2, PhysicalInt DEF NiType
      <4>2. \A l \in Logic : ~(n.map[l] >= MgmtStart)
        BY <3>2, <4>1, Sizes
      <4>. QED  BY <1>1, <3>2, <3>7, <4>2 DEF Separate, Memory, Injective
    <3>. QED  BY <3>9, <3>10, <3>11, <3>12 DEF Safe
  <2>. QED  BY <2>1, <2>2
<1>4. ASSUME LoadTables.main # 0
      PROVE  /\ MgmtStart <= LoadTables.main /\ LoadTables.main < LoadTables.mapba
             /\ LoadTables.backup # 0 => /\ LoadTables.main < LoadTables.backup
                                         /\ LoadTables.backup < LoadTables.mapba
             /\ LoadTables.mapba <= LoadTables.top
             /\ LoadTables.main \in Nat /\ LoadTables.backup \in Nat
             /\ LoadTables.mapba \in Nat /\ LoadTables.top \in Nat
  <2>1. LoadTables.mapba <= LoadTables.top
    BY <1>1, <1>4 DEF Survives
  <2>2. /\ LoadTables.main \in Nat /\ LoadTables.backup \in Nat
        /\ LoadTables.mapba \in Nat /\ LoadTables.top \in Nat
    BY <1>2, Sizes DEF NiType
  <2>. QED  BY <1>1, <1>4, <2>1, <2>2, LoadIs
<1>5. CASE AttachSingle
  <2>1. /\ ni' = Generate(LoadTables)
        /\ ctl' = WriteTable(Loading(ni'), MgmtStart, ni'.main, "single_front")
        /\ LoadTables.main # 0 /\ LoadTables.backup = 0
    BY <1>5 DEF AttachSingle, RescueSingle
  <2>2. /\ ni' \in NiType /\ SameMap(LoadTables, ni') /\ SamePlaces(LoadTables, ni')
        /\ ni'.state = LoadTables.state
        /\ Loading(ni') \in CtlType /\ Loading(ni').cache.map = LoadTables.map
        /\ Loading(ni').ret = "off"
    BY <1>2, <2>1, GenerateIs, LoadingIs
  <2>3. ni'.main \in Blocks /\ MgmtStart \in 0..SigBa /\ "single_front" \in TableReturns
    BY <2>2, Sizes, Places DEF NiType
  <2>4. /\ ctl'.pc = "table" /\ ctl'.next = "single_front"
        /\ ctl'.ba = MgmtStart /\ ctl'.limit = ni'.main /\ SameCaller(Loading(ni'), ctl')
    BY <2>1, <2>2, <2>3, WriteTableIs
  <2>5. At' = "single_front" /\ ctl'.pc \notin Callers
    BY <2>4 DEF At, Callers
  <2>6. Ranges'
    BY <1>4, <2>1, <2>2, <2>4, <2>5, Sizes DEF Ranges, SamePlaces
  <2>. QED  BY <1>1, <2>1, <2>2, <2>4, <2>5, <2>6, LoadedSafe DEF SameCaller
<1>6. CASE AttachTwo
  <2>. DEFINE n == Generate(LoadTables)
  <2>1. /\ n \in NiType /\ SameMap(LoadTables, n) /\ SamePlaces(LoadTables, n)
        /\ n.state = LoadTables.state
        /\ Loading(n) \in CtlType /\ Loading(n).cache.map = LoadTables.map
        /\ Loading(n).ret = "off"
    BY <1>2, GenerateIs, LoadingIs
  <2>2. /\ LoadTables.main # 0 /\ LoadTables.backup # 0
        /\ \/ ni' = n /\ ctl' = [NoControl EXCEPT !.pc = "attached"]
           \/ /\ ni' = [n EXCEPT !.changed = TRUE]
              /\ \/ ctl' = WriteTable(Loading(n), n.main, n.backup, "one_main")
                 \/ ctl' = WriteTable(Loading(n), n.backup, n.top, "one_backup")
    BY <1>6 DEF AttachTwo
  <2>. HIDE DEF n
  <2>3. /\ SameMap(LoadTables, ni') /\ SamePlaces(LoadTables, ni')
        /\ ni'.state = LoadTables.state
    BY <2>1, <2>2 DEF NiType, SameMap, SamePlaces
  <2>4. /\ n.main \in Blocks /\ n.backup \in Blocks /\ n.top \in Blocks
        /\ n.main \in 0..SigBa /\ n.backup \in 0..SigBa
        /\ "one_main" \in TableReturns /\ "one_backup" \in TableReturns
    BY <2>1, Sizes, Places DEF NiType
  <2>5. CASE ctl' = [NoControl EXCEPT !.pc = "attached"]
    <3>1. ctl'.pc = "attached" /\ ctl'.ret = "off" /\ ctl'.cache = Erased
      BY <2>5, NoControlIs, GoOnIs DEF Pcs, RangeReturns, SameCaller
    <3>2. Ranges' /\ ctl'.pc \notin Callers
      BY <3>1, NoRange DEF Ranging, TableReturns, Callers
    <3>. QED  BY <1>1, <2>2, <2>3, <3>1, <3>2, LoadedSafe
  <2>6. CASE ctl' = WriteTable(Loading(n), n.main, n.backup, "one_main")
    <3>1. /\ ctl'.pc = "table" /\ ctl'.next = "one_main" /\ SameCaller(Loading(n), ctl')
          /\ ctl'.ba = n.main /\ ctl'.limit = n.backup
      BY <2>1, <2>4, <2>6, WriteTableIs
    <3>2. At' = "one_main" /\ ctl'.pc \notin Callers
      BY <3>1 DEF At, Callers
    <3>3. Ranges'
      BY <1>4, <2>1, <2>2, <2>3, <3>1, <3>2, Sizes DEF Ranges, SamePlaces
    <3>. QED  BY <1>1, <2>1, <2>2, <2>3, <3>1, <3>2, <3>3, LoadedSafe DEF SameCaller
  <2>7. CASE ctl' = WriteTable(Loading(n), n.backup, n.top, "one_backup")
    <3>1. /\ ctl'.pc = "table" /\ ctl'.next = "one_backup" /\ SameCaller(Loading(n), ctl')
          /\ ctl'.ba = n.backup /\ ctl'.limit = n.top
      BY <2>1, <2>4, <2>7, WriteTableIs
    <3>2. At' = "one_backup" /\ ctl'.pc \notin Callers
      BY <3>1 DEF At, Callers
    <3>3. Ranges'
      BY <1>4, <2>1, <2>2, <2>3, <3>1, <3>2, Sizes DEF Ranges, SamePlaces
    <3>. QED  BY <1>1, <2>1, <2>2, <2>3, <3>1, <3>2, <3>3, LoadedSafe DEF SameCaller
  <2>. QED  BY <2>2, <2>5, <2>6, <2>7
<1>. QED  BY <1>3, <1>5, <1>6 DEF Attach

(* nmbm_rescue_single_info_table and nmbm_update_single_info_table.        *)
LEMMA SingleSafe ==
  ASSUME TypeInv, Safe,
         \/ OneMainWritten \/ OneBackupWritten \/ SingleFront \/ SingleBehind
         \/ SingleClean
  PROVE  Safe'
<1>1. /\ ni \in NiType /\ ctl \in CtlType
      /\ ni.top \in Blocks /\ ni.backup \in Blocks /\ ni.main \in Blocks
      /\ ni.mapba \in Blocks /\ ctl.wba \in Blocks
      /\ MgmtStart \in 0..SigBa /\ Blocks \subseteq 0..SigBa /\ 0 \in Blocks
  BY Sizes DEF TypeInv, Types, NiType, CtlType
<1>2. /\ Memory /\ Up /\ ctl.pc = At
      /\ ctl.pc \in {"one_main", "one_backup", "single_front", "single_behind",
                     "single_clean"}
      /\ ctl.pc # "single_clean" => ctl.pc \in TableReturns
  BY DEF OneMainWritten, OneBackupWritten, SingleFront, SingleBehind, SingleClean,
         At, Up, TableReturns
<1>3. /\ Layout /\ Ranges /\ Caller /\ Separate
      /\ ctl.cache.kind = "table" => Injective(ctl.cache.map)
  BY <1>2 DEF Safe, Separate
<1>4. /\ MgmtStart \in Nat /\ MgmtStart > 0
      /\ ni.main \in Nat /\ ni.backup \in Nat /\ ni.mapba \in Nat /\ ni.top \in Nat
      /\ ctl.ba \in Nat /\ ctl.limit \in Nat /\ ctl.wba \in Nat
  BY Numbers, Sizes
<1>5. /\ ctl.pc # "single_clean" =>
           /\ MgmtStart <= ctl.ba /\ ctl.limit <= ni.top /\ ni.main # 0
           /\ MgmtStart <= ni.main /\ ni.main < ni.mapba
      /\ MgmtStart <= ni.mapba /\ ni.mapba <= ni.top
  <2>1. ctl.pc # "single_clean" =>
          MgmtStart <= ctl.ba /\ ctl.limit <= ni.top /\ ni.main # 0
    BY <1>2, <1>3 DEF Ranges, TableReturns
  <2>. QED  BY <1>3, <2>1 DEF Layout
<1>6. ASSUME SameMap(ni, ni'), ni'.top = ni.top, ni'.state = ni.state,
             ctl'.ret = ctl.ret, ctl'.lb = ctl.lb, ctl'.cache = ctl.cache,
             ctl'.pc \notin Callers, Layout', Ranges'
      PROVE  Safe'
  <2>1. Caller'
    BY <1>2, <1>3, <1>6, CallerFrame DEF SameMap
  <2>. QED  BY <1>2, <1>3, <1>6, <2>1, MemorySafe
<1>7. ASSUME ctl' = [ctl EXCEPT !.pc = "attached"]
      PROVE  /\ Ranges' /\ ctl'.pc \notin Callers /\ At' = "attached"
             /\ ctl'.ret = ctl.ret /\ ctl'.lb = ctl.lb /\ ctl'.cache = ctl.cache
  <2>1. ctl'.pc = "attached" /\ SameCaller(ctl, ctl')
    BY <1>1, <1>7, GoOnIs DEF Pcs, RangeReturns
  <2>. QED  BY <2>1, NoRange DEF Ranging, TableReturns, Callers, SameCaller
<1>8. CASE OneMainWritten
  <2>1. ni.backup # 0 /\ ctl.limit <= ni.backup /\ ni.backup < ni.mapba
        /\ ctl.pc # "single_clean"
    BY <1>2, <1>3, <1>8 DEF OneMainWritten, Ranges, Layout
  <2>2. CASE ctl.ok
    <3>1. /\ ni' = [Clean(ni) EXCEPT !.main = Here]
          /\ ctl' = [ctl EXCEPT !.pc = "attached"]
      BY <1>8, <2>2 DEF OneMainWritten
    <3>2. Here \in Blocks /\ Here = ctl.ba /\ ctl.ba < ctl.limit
      BY <1>2, <2>1, <2>2, HereIs
    <3>3. /\ SameMap(ni, ni') /\ ni'.state = ni.state
          /\ ni'.main = ctl.ba /\ ni'.backup = ni.backup /\ ni'.mapba = ni.mapba
          /\ ni'.top = ni.top
      BY <1>1, <3>1, <3>2, CleanIs DEF NiType, SameMap, SamePlaces
    <3>4. Layout'
      BY <1>4, <1>5, <2>1, <3>2, <3>3 DEF Layout
    <3>. QED  BY <1>6, <1>7, <3>1, <3>3, <3>4
  <2>3. CASE ~ctl.ok
    <3>1. /\ ni' = [ni EXCEPT !.main = ni.backup, !.backup = 0]
          /\ ctl' = WriteTable(ctl, MgmtStart, ni'.main, "single_front")
      BY <1>8, <2>3 DEF OneMainWritten, RescueSingle
    <3>2. /\ SameMap(ni, ni') /\ ni'.state = ni.state
          /\ ni'.main = ni.backup /\ ni'.backup = 0 /\ ni'.mapba = ni.mapba
          /\ ni'.top = ni.top
      BY <1>1, <3>1 DEF NiType, SameMap
    <3>3. /\ SameCaller(ctl, ctl') /\ ctl'.pc = "table" /\ ctl'.next = "single_front"
          /\ ctl'.ba = MgmtStart /\ ctl'.limit = ni.backup
      <4>1. /\ ctl \in CtlType /\ ni'.main \in Blocks /\ MgmtStart \in 0..SigBa
            /\ "single_front" \in TableReturns
        BY <1>1, <3>2, Places
      <4>. QED  BY <3>1, <3>2, <4>1, WriteTableIs
    <3>4. At' = "single_front" /\ ctl'.pc \notin Callers
      BY <3>3 DEF At, Callers
    <3>5. Layout'
      BY <1>3, <1>4, <1>5, <2>1, <3>2 DEF Layout
    <3>6. Ranges'
      BY <1>4, <1>5, <2>1, <3>2, <3>3, <3>4 DEF Ranges
    <3>. QED  BY <1>6, <3>2, <3>3, <3>4, <3>5, <3>6 DEF SameCaller
  <2>. QED  BY <2>2, <2>3
<1>9. CASE OneBackupWritten
  <2>1. /\ ni.backup # 0 /\ ni.backup <= ctl.ba /\ ni.main < ni.backup
        /\ ni.backup < ni.mapba /\ ctl.pc # "single_clean"
    BY <1>2, <1>3, <1>9 DEF OneBackupWritten, Ranges, Layout
  <2>2. ctl' = [ctl EXCEPT !.pc = "attached"]
    BY <1>9 DEF OneBackupWritten
  <2>3. CASE ctl.ok
    <3>1. ni' = [Clean(ni) EXCEPT !.backup = Here, !.mapba = End]
      BY <1>9, <2>3 DEF OneBackupWritten
    <3>2. /\ Here \in Blocks /\ End \in Blocks
          /\ Here = ctl.ba /\ End = ctl.ba + 1 /\ ctl.ba < ctl.limit
      BY <1>2, <2>1, <2>3, HereIs
    <3>3. /\ SameMap(ni, ni') /\ ni'.state = ni.state
          /\ ni'.main = ni.main /\ ni'.backup = ctl.ba /\ ni'.mapba = ctl.ba + 1
          /\ ni'.top = ni.top
      BY <1>1, <3>1, <3>2, CleanIs DEF NiType, SameMap, SamePlaces
    <3>4. Layout'
      BY <1>4, <1>5, <2>1, <3>2, <3>3 DEF Layout
    <3>. QED  BY <1>6, <1>7, <2>2, <3>3, <3>4
  <2>4. CASE ~ctl.ok
    <3>1. ni' = [ni EXCEPT !.mapba = ni.backup, !.backup = 0]
      BY <1>9, <2>4 DEF OneBackupWritten
    <3>2. /\ SameMap(ni, ni') /\ ni'.state = ni.state
          /\ ni'.main = ni.main /\ ni'.backup = 0 /\ ni'.mapba = ni.backup
          /\ ni'.top = ni.top
      BY <1>1, <3>1 DEF NiType, SameMap
    <3>3. Layout'
      BY <1>4, <1>5, <2>1, <3>2 DEF Layout
    <3>. QED  BY <1>6, <1>7, <2>2, <3>2, <3>3
  <2>. QED  BY <2>3, <2>4
<1>10. CASE SingleFront
  <2>1. ni.backup = 0 /\ ctl.limit <= ni.main /\ ctl.pc # "single_clean"
    BY <1>2, <1>3, <1>10 DEF SingleFront, Ranges
  <2>2. CASE ctl.ok
    <3>1. /\ ni' = [Clean(ni) EXCEPT !.backup = ni.main, !.main = Here]
          /\ ctl' = EraseRange(ctl, End, ni.main, "attached")
      BY <1>10, <2>2 DEF SingleFront
    <3>2. /\ Here \in Blocks /\ End \in Blocks
          /\ Here = ctl.ba /\ End = ctl.ba + 1 /\ ctl.ba < ctl.limit
      BY <1>2, <2>1, <2>2, HereIs
    <3>3. /\ SameMap(ni, ni') /\ ni'.state = ni.state
          /\ ni'.main = ctl.ba /\ ni'.backup = ni.main /\ ni'.mapba = ni.mapba
          /\ ni'.top = ni.top
      BY <1>1, <3>1, <3>2, CleanIs DEF NiType, SameMap, SamePlaces
    <3>4. /\ SameCaller(ctl, ctl') /\ ctl'.pc = "range"
          /\ ctl'.ba = ctl.ba + 1 /\ ctl'.limit = ni.main
      <4>1. ctl \in CtlType /\ End \in 0..SigBa /\ ni.main \in Blocks
            /\ "attached" \in RangeReturns
        BY <1>1, <3>2, Places
      <4>. QED  BY <3>1, <3>2, <4>1, EraseRangeIs
    <3>5. At' = "range" /\ ctl'.pc \notin Callers
      BY <3>4 DEF At, Callers
    <3>6. Layout'
      BY <1>4, <1>5, <2>1, <3>2, <3>3 DEF Layout
    <3>7. Ranges'
      BY <1>4, <1>5, <2>1, <3>2, <3>3, <3>4, <3>5 DEF Ranges, TableReturns
    <3>. QED  BY <1>6, <3>3, <3>4, <3>5, <3>6, <3>7 DEF SameCaller
  <2>3. CASE ~ctl.ok
    <3>1. PICK w \in 0..SigBa :
            /\ w = Reserve(ni, ni.mapba) /\ w \in Blocks /\ w \in Nat
            /\ w # 0 => ni.mapba <= w
      BY <1>1, <1>4, ReserveIs, Sizes
    <3>. DEFINE d == WriteTable(ctl, w, ni.top, "single_behind")
    <3>2. /\ ni' = ni
          /\ ctl' = IF w = 0 THEN [ctl EXCEPT !.pc = "attached"]
                    ELSE [d EXCEPT !.wba = w]
      BY <1>10, <2>3, <3>1 DEF SingleFront
    <3>3. Layout'
      BY <1>3, <1>5, <2>1, <3>2 DEF Layout
    <3>4. CASE w = 0
      BY <1>6, <1>7, <3>2, <3>3, <3>4 DEF SameMap
    <3>5. CASE w # 0
      <4>1. ctl \in CtlType /\ ni.top \in Blocks /\ "single_behind" \in TableReturns
        BY <1>1, Places
      <4>2. /\ d \in CtlType /\ SameCaller(ctl, d)
            /\ d.pc = "table" /\ d.next = "single_behind" /\ d.ba = w /\ d.limit = ni.top
        BY <4>1, WriteTableIs
      <4>. HIDE DEF d
      <4>3. /\ ctl'.ret = ctl.ret /\ ctl'.lb = ctl.lb /\ ctl'.cache = ctl.cache
            /\ ctl'.pc = "table" /\ ctl'.next = "single_behind" /\ ctl'.ba = w
            /\ ctl'.limit = ni.top /\ ctl'.wba = w
        BY <3>1, <3>2, <3>5, <4>2 DEF CtlType, SameCaller
      <4>4. At' = "single_behind" /\ ctl'.pc \notin Callers
        BY <4>3 DEF At, Callers
      <4>5. Ranges'
        BY <1>4, <1>5, <2>1, <3>1, <3>2, <3>5, <4>3, <4>4 DEF Ranges
      <4>. QED  BY <1>6, <3>2, <3>3, <4>3, <4>4, <4>5 DEF SameMap
    <3>. QED  BY <3>4, <3>5
  <2>. QED  BY <2>2, <2>3
<1>11. CASE SingleBehind
  <2>1. /\ ni.backup = 0 /\ ni.mapba <= ctl.wba /\ ctl.wba <= ctl.ba
        /\ ctl.pc # "single_clean"
    BY <1>2, <1>3, <1>11 DEF SingleBehind, Ranges
  <2>2. CASE ctl.ok
    <3>1. /\ ni' = [ni EXCEPT !.backup = Here, !.mapba = End]
          /\ ctl' = EraseRange(ctl, ni.mapba, Here, "single_clean")
      BY <1>11, <2>2 DEF SingleBehind
    <3>2. /\ Here \in Blocks /\ End \in Blocks
          /\ Here = ctl.ba /\ End = ctl.ba + 1 /\ ctl.ba < ctl.limit
      BY <1>2, <2>1, <2>2, HereIs
    <3>3. /\ SameMap(ni, ni') /\ ni'.state = ni.state
          /\ ni'.main = ni.main /\ ni'.backup = ctl.ba /\ ni'.mapba = ctl.ba + 1
          /\ ni'.top = ni.top
      BY <1>1, <3>1, <3>2 DEF NiType, SameMap
    <3>4. /\ SameCaller(ctl, ctl') /\ ctl'.pc = "range"
          /\ ctl'.ba = ni.mapba /\ ctl'.limit = ctl.ba
      <4>1. ctl \in CtlType /\ ni.mapba \in 0..SigBa /\ Here \in Blocks
            /\ "single_clean" \in RangeReturns
        BY <1>1, <3>2, Places
      <4>. QED  BY <3>1, <3>2, <4>1, EraseRangeIs
    <3>5. At' = "range" /\ ctl'.pc \notin Callers
      BY <3>4 DEF At, Callers
    <3>6. Layout'
      BY <1>4, <1>5, <2>1, <3>2, <3>3 DEF Layout
    <3>7. Ranges'
      BY <1>4, <1>5, <2>1, <3>2, <3>3, <3>4, <3>5 DEF Ranges, TableReturns
    <3>. QED  BY <1>6, <3>3, <3>4, <3>5, <3>6, <3>7 DEF SameCaller
  <2>3. CASE ~ctl.ok /\ ctl.wba > ni.mapba
    <3>. DEFINE d == WriteTable(ctl, ctl.wba - 1, ni.top, "single_behind")
    <3>1. /\ ctl.wba - 1 \in Blocks /\ ctl.wba - 1 \in 0..SigBa
          /\ ctl \in CtlType /\ ni.top \in Blocks /\ "single_behind" \in TableReturns
      BY <1>1, <1>4, <2>3, Sizes, Places DEF Blocks
    <3>2. /\ d \in CtlType /\ SameCaller(ctl, d) /\ d.limit = ni.top
          /\ d.pc = "table" /\ d.next = "single_behind" /\ d.ba = ctl.wba - 1
      BY <3>1, WriteTableIs
    <3>3. d.wba = ctl.wba
      BY <3>2 DEF SameCaller
    <3>4. ni' = ni /\ ctl' = [d EXCEPT !.wba = d.wba - 1]
      BY <1>11, <2>3, <3>2 DEF SingleBehind, CtlType
    <3>. HIDE DEF d
    <3>5. /\ ctl'.ret = ctl.ret /\ ctl'.lb = ctl.lb /\ ctl'.cache = ctl.cache
          /\ ctl'.pc = "table" /\ ctl'.next = "single_behind" /\ ctl'.ba = ctl.wba - 1
          /\ ctl'.limit = ni.top /\ ctl'.wba = ctl.wba - 1
      BY <3>2, <3>3, <3>4 DEF CtlType, SameCaller
    <3>6. At' = "single_behind" /\ ctl'.pc \notin Callers
      BY <3>5 DEF At, Callers
    <3>7. Layout'
      BY <1>3, <1>5, <2>1, <3>4 DEF Layout
    <3>8. Ranges'
      BY <1>4, <1>5, <2>1, <2>3, <3>4, <3>5, <3>6 DEF Ranges
    <3>. QED  BY <1>6, <3>4, <3>5, <3>6, <3>7, <3>8 DEF SameMap
  <2>4. CASE ~ctl.ok /\ ~(ctl.wba > ni.mapba)
    <3>1. ni' = ni /\ ctl' = [ctl EXCEPT !.pc = "attached"]
      BY <1>11, <2>4 DEF SingleBehind
    <3>2. Layout'
      BY <1>3, <1>5, <2>1, <3>1 DEF Layout
    <3>. QED  BY <1>6, <1>7, <3>1, <3>2 DEF SameMap
  <2>. QED  BY <2>2, <2>3, <2>4
<1>12. CASE SingleClean
  <2>1. ni' = Clean(ni) /\ ctl' = [ctl EXCEPT !.pc = "attached"]
    BY <1>12 DEF SingleClean
  <2>2. SameMap(ni, ni') /\ SamePlaces(ni, ni') /\ ni'.state = ni.state
    BY <1>1, <2>1, CleanIs
  <2>3. At = "single_clean"
    BY <1>12 DEF SingleClean, At
  <2>4. Layout'
    BY <1>3, <2>2, <2>3 DEF Layout, SamePlaces
  <2>. QED  BY <1>6, <1>7, <2>1, <2>2, <2>4 DEF SamePlaces
<1>. QED  BY <1>8, <1>9, <1>10, <1>11, <1>12

(* The end of nmbm_attach.                                                 *)
LEMMA AttachedSafe ==
  ASSUME TypeInv, Safe, ~skipped',
         Attached \/ CreateMap \/ CreateFull \/ Created
  PROVE  Safe'
<1>1. ni \in NiType /\ ctl \in CtlType /\ ni.mapba \in Blocks
  BY DEF TypeInv, Types, NiType
<1>2. Up /\ ctl.pc = At /\ ctl.pc \in {"attached", "create", "create_full", "created"}
  BY DEF Attached, CreateMap, CreateFull, Created, At, Up
<1>3. /\ Layout /\ Ranges /\ Caller /\ Separate /\ Kept
      /\ ctl.cache.kind = "table" => Injective(ctl.cache.map)
  BY <1>2 DEF Safe, Separate
<1>4. /\ MgmtStart \in Nat /\ MgmtStart > 0
      /\ ni.main \in Nat /\ ni.backup \in Nat /\ ni.mapba \in Nat /\ ni.top \in Nat
      /\ ni.count \in Nat
  BY Numbers, Sizes
<1>5. /\ MgmtStart <= ni.mapba /\ ni.mapba <= ni.top /\ (ni.main = 0 => ni.prot)
      /\ ni.main # 0 => MgmtStart <= ni.main /\ ni.main < ni.mapba
      /\ ni.backup # 0 => ni.main # 0 /\ ni.main < ni.backup /\ ni.backup < ni.mapba
  BY <1>2, <1>3 DEF Layout
<1>6. CASE Attached
  <2>1. /\ ni' = [ni EXCEPT !.prot = ni.prot \/ ni.mapba = ni.top \/ ~ctl.ok]
        /\ ctl' = Idle /\ Memory
    BY <1>1, <1>6 DEF Attached, NiType
  <2>2. /\ SameMap(ni, ni') /\ ni'.state = ni.state
        /\ ni'.main = ni.main /\ ni'.backup = ni.backup /\ ni'.mapba = ni.mapba
        /\ ni'.top = ni.top /\ (ni.prot => ni'.prot)
    BY <1>1, <2>1 DEF NiType, SameMap
  <2>3. ctl'.pc = "idle" /\ ctl'.ret = "off" /\ ctl'.cache.kind # "table"
    BY <2>1, IdleIs DEF Erased
  <2>4. Ranges'
    BY <2>3, NoRange DEF Ranging, TableReturns
  <2>5. Caller'
    BY <2>3 DEF Caller, Callers
  <2>6. Layout'
    BY <1>5, <2>2 DEF Layout
  <2>. QED  BY <1>2, <2>1, <2>2, <2>3, <2>4, <2>5, <2>6, MemorySafe
<1>7. CASE CreateMap
  <2>1. ctl.pc = "create" /\ UNCHANGED <<flash, mark, disk, fails, offs>>
    BY <1>7 DEF CreateMap
  <2>2. CASE ni.count < MgmtStart /\ Unused(ni) # {}
    <3>. DEFINE lb == ni.count
                n == MapBlock(ni, lb)
    <3>1. lb \in Logic /\ lb + 1 \in Nat
      BY <1>1, <2>2, Sizes DEF NiType, Logic
    <3>2. /\ n \in NiType /\ n.count = ni.count /\ ni.mapba < Max(Unused(ni))
          /\ ni.top \in Unused(ni) => Max(Unused(ni)) = ni.top
          /\ n.map = [ni.map EXCEPT ![lb] = Max(Unused(ni))]
          /\ n.top = ni.top - 1 /\ n.state = ni.state
          /\ n.main = ni.main /\ n.backup = ni.backup /\ n.mapba = ni.mapba
          /\ n.prot = ni.prot
      BY <1>1, <2>2, <3>1, MapBlockIs
    <3>3. /\ ni' = [n EXCEPT !.count = n.count + 1]
          /\ ni.top \in Unused(ni)
          /\ ctl' = ctl
      BY <1>7, <2>2, <3>2 DEF CreateMap, NiType
    <3>. HIDE DEF n
    <3>4. /\ ni'.count = ni.count + 1 /\ ni'.map = [ni.map EXCEPT ![lb] = ni.top]
          /\ ni'.top = ni.top - 1 /\ ni'.state = ni.state
          /\ ni'.main = ni.main /\ ni'.backup = ni.backup /\ ni'.mapba = ni.mapba
          /\ ni'.prot = ni.prot /\ ni.mapba < ni.top
      BY <3>1, <3>2, <3>3 DEF NiType
    <3>5. disk[lb] = Any
      BY <1>3, <1>4, <3>1 DEF Kept
    <3>6. Separate' /\ Kept'
      <4>1. ni'.top \in Nat /\ ni'.top < ni.top /\ ni'.top <= ni.top /\ MgmtStart <= ni.top
        BY <1>4, <1>5, <3>4
      <4>2. ni'.count \in Nat /\ ni.count <= ni'.count
        BY <1>4, <3>4
      <4>. HIDE DEF lb
      <4>. QED  BY <1>3, <2>1, <3>1, <3>3, <3>4, <3>5, <4>1, <4>2, PhysicalStep
    <3>7. ctl'.pc = "create" /\ At' = "create"
      BY <2>1, <3>3 DEF At
    <3>8. Ranges'
      BY <3>7, NoRange DEF Ranging, TableReturns
    <3>9. Layout'
      BY <1>4, <1>5, <3>4 DEF Layout
    <3>10. Caller'
      <4>1. ctl.lb \in Nat
        BY Numbers, Sizes
      <4>. QED  BY <1>3, <1>4, <2>1, <3>3, <3>4, <4>1 DEF Caller
    <3>. QED  BY <3>6, <3>8, <3>9, <3>10 DEF Safe
  <2>3. CASE ~(ni.count < MgmtStart /\ Unused(ni) # {})
    <3>1. /\ \E r \in {"create_full", "created"} :
               ctl' = [ctl EXCEPT !.pc = "update", !.ret = r]
          /\ UNCHANGED <<ni, skipped>>
      BY <1>7, <2>3 DEF CreateMap
    <3>2. /\ ctl'.pc = "update" /\ ctl'.ret \in {"create_full", "created"}
          /\ ctl'.cache = ctl.cache
      BY <1>1, <3>1 DEF CtlType
    <3>3. Ranges'
      BY <3>2, NoRange DEF Ranging, TableReturns
    <3>4. Caller'
      BY <3>2 DEF Caller, Callers
    <3>5. Layout'
      BY <1>5, <3>1 DEF Layout
    <3>. QED  BY <1>2, <1>3, <2>1, <3>1, <3>2, <3>3, <3>4, <3>5, MemorySafe
               DEF Memory, SameMap
  <2>. QED  BY <2>2, <2>3
<1>8. CASE CreateFull
  <2>1. /\ ni' = [ni EXCEPT !.top = ni.mapba] /\ Memory
        /\ ctl' = [ctl EXCEPT !.pc = "update", !.ret = "created"]
    BY <1>8 DEF CreateFull
  <2>2. /\ SameMap(ni, ni') /\ ni'.state = ni.state
        /\ ni'.main = ni.main /\ ni'.backup = ni.backup /\ ni'.mapba = ni.mapba
        /\ ni'.top = ni.mapba /\ ni'.prot = ni.prot
    BY <1>1, <2>1 DEF NiType, SameMap
  <2>3. ctl'.pc = "update" /\ ctl'.ret = "created" /\ ctl'.cache = ctl.cache
    BY <1>1, <2>1 DEF CtlType
  <2>4. Ranges'
    BY <2>3, NoRange DEF Ranging, TableReturns
  <2>5. Caller'
    BY <2>3 DEF Caller, Callers
  <2>6. Layout'
    BY <1>4, <1>5, <2>2 DEF Layout
  <2>7. Separate' /\ Kept'
    BY <1>3, <1>4, <1>5, <2>1, <2>2, <2>3, AreaStep DEF Memory
  <2>. QED  BY <2>4, <2>5, <2>6, <2>7 DEF Safe
<1>9. CASE Created
  <2>1. /\ \E p \in {"idle", "dead"} : ctl' = [NoControl EXCEPT !.pc = p]
        /\ ni' = ni /\ Memory
    BY <1>9 DEF Created
  <2>2. ctl'.pc \in {"idle", "dead"} /\ ctl'.ret = "off" /\ ctl'.cache = Erased
    <3>1. {"idle", "dead"} \subseteq Pcs
      BY DEF Pcs
    <3>. QED  BY <2>1, <3>1, NoControlIs, GoOnIs DEF SameCaller
  <2>3. Ranges'
    BY <2>2, NoRange DEF Ranging, TableReturns
  <2>4. Caller'
    BY <2>2 DEF Caller, Callers
  <2>5. Layout'
    BY <1>5, <2>1 DEF Layout
  <2>6. ctl'.cache.kind # "table"
    BY <2>2 DEF Erased
  <2>. QED  BY <1>2, <2>1, <2>3, <2>4, <2>5, <2>6, MemorySafe DEF SameMap
<1>. QED  BY <1>6, <1>7, <1>8, <1>9

(* A call of a user that is under way.                                     *)
LEMMA WorkingSafe ==
  ASSUME TypeInv, Safe, ~skipped', Working
  PROVE  Safe'
<1>1. /\ ni \in NiType /\ ctl \in CtlType /\ ctl.lb \in Logic
      /\ ctl.val \in {Erased} \cup DataType
      /\ flash \in [Blocks -> Content] /\ disk \in [Logic -> {Any, Erased} \cup DataType]
      /\ ni.map \in [Logic -> PhysicalOrNone] /\ ni.mapba \in Blocks
      /\ Types
  BY DEF TypeInv, Types, NiType, CtlType
<1>2. /\ Up /\ ctl.pc = At /\ ctl.pc \in Callers
  BY DEF Working, EraseOk, EraseFails, EraseRefused, Remap, RemapFails, NoSpare,
         WriteOk, WriteFails, WriteRefused, Detached, At, Up, Callers
<1>3. /\ Layout /\ Ranges /\ Caller /\ Separate /\ Kept
      /\ ctl.cache.kind = "table" => Injective(ctl.cache.map)
  BY <1>2 DEF Safe, Separate
<1>4. /\ MgmtStart \in Nat /\ MgmtStart > 0
      /\ ni.main \in Nat /\ ni.backup \in Nat /\ ni.mapba \in Nat /\ ni.top \in Nat
      /\ ni.count \in Nat /\ ni.top <= ni.top /\ ni.count <= ni.count
  BY Numbers, Sizes
<1>5. /\ MgmtStart <= ni.mapba /\ ni.mapba <= ni.top /\ (ni.main = 0 => ni.prot)
      /\ ni.main # 0 => MgmtStart <= ni.main /\ ni.main < ni.mapba
      /\ ni.backup # 0 => ni.main # 0 /\ ni.main < ni.backup /\ ni.backup < ni.mapba
  BY <1>2, <1>3 DEF Layout, Callers
<1>6. ctl.pc # "detached" => ctl.lb < ni.count /\ disk[ctl.lb] = Any
  BY <1>2, <1>3 DEF Caller
<1>7. ASSUME Physical >= 0
      PROVE  Physical \in Blocks
  <2>1. Physical \in PhysicalOrNone
    BY <1>1 DEF Physical
  <2>. QED  BY <1>7, <2>1, Sizes DEF PhysicalOrNone
<1>8. Physical = ni.map[ctl.lb]
  BY DEF Physical
<1>9. ASSUME ctl' = Idle
      PROVE  Ranges' /\ Caller' /\ ctl'.cache.kind # "table"
  <2>1. ctl'.pc = "idle" /\ ctl'.ret = "off" /\ ctl'.cache.kind # "table"
    BY <1>9, IdleIs DEF Erased
  <2>. QED  BY <2>1, NoRange DEF Ranging, TableReturns, Caller, Callers
<1>10. ASSUME NEW r \in {"idle", "erase", "no_spare"},
              ctl' = [ctl EXCEPT !.pc = "update", !.ret = r],
              ctl.pc # "detached", ni'.count = ni.count, disk' = disk
       PROVE  Ranges' /\ Caller' /\ ctl'.cache = ctl.cache
  <2>1. /\ ctl'.pc = "update" /\ ctl'.ret = r /\ ctl'.lb = ctl.lb
        /\ ctl'.cache = ctl.cache
    BY <1>1, <1>10 DEF CtlType
  <2>2. Ranges'
    BY <2>1, NoRange DEF Ranging, TableReturns
  <2>3. Caller'
    BY <1>6, <1>10, <2>1 DEF Caller, Callers
  <2>. QED  BY <2>1, <2>2, <2>3
<1>11. ASSUME ctl' = [ctl EXCEPT !.pc = "remap"], ctl.pc # "detached",
              ni'.count = ni.count, disk' = disk, offs' = offs
       PROVE  Ranges' /\ Caller' /\ ctl'.cache = ctl.cache
  <2>1. /\ ctl'.pc = "remap" /\ ctl'.ret = ctl.ret /\ ctl'.lb = ctl.lb
        /\ ctl'.cache = ctl.cache
    BY <1>1, <1>11 DEF CtlType
  <2>2. Ranges'
    BY <2>1, NoRange DEF Ranging, TableReturns
  <2>3. Caller'
    BY <1>3, <1>6, <1>11, <2>1 DEF Caller, Callers
  <2>. QED  BY <2>1, <2>2, <2>3
<1>12. ASSUME ni'.main = ni.main, ni'.backup = ni.backup, ni'.mapba = ni.mapba,
              ni'.top = ni.top, ni'.prot = ni.prot
       PROVE  Layout'
  BY <1>5, <1>12 DEF Layout
<1>13. ASSUME SamePlaces(ni, ni')
       PROVE  Layout' /\ ni'.top = ni.top
  BY <1>12, <1>13 DEF SamePlaces
<1>14. CASE EraseOk
  <2>1. /\ ctl.pc = "erase" /\ Physical >= 0 /\ ni.state[Physical] = "GOOD"
        /\ ctl' = Idle /\ ni' = ni
        /\ flash' = [flash EXCEPT ![Physical] = Erased]
        /\ disk' = [disk EXCEPT ![ctl.lb] = Erased]
    BY <1>14 DEF EraseOk, Sound
  <2>2. /\ \A b \in Blocks : b # Physical => flash'[b] = flash[b]
        /\ \A b \in Blocks : flash'[b] = flash[b] \/ flash'[b].kind # "table"
        /\ flash'[Physical] = Erased
    BY <1>1, <1>7, <2>1 DEF Erased
  <2>3. disk'[ctl.lb] = Erased /\ \A l \in Logic : l # ctl.lb => disk'[l] = disk[l]
    BY <1>1, <2>1
  <2>4. Separate' /\ Kept'
    BY <1>1, <1>3, <1>4, <1>6, <1>8, <1>9, <2>1, <2>2, <2>3, PhysicalStep
  <2>. QED  BY <1>9, <1>12, <2>1, <2>4 DEF Safe
<1>15. CASE EraseFails
  <2>1. /\ ctl.pc = "erase" /\ Physical \in Blocks /\ BlockFails(Physical)
        /\ ni' = SetBad(ni, {Physical}) /\ ctl' = [ctl EXCEPT !.pc = "remap"]
        /\ disk' = disk /\ offs' = offs
    BY <1>7, <1>15 DEF EraseFails, Sound, ghosts
  <2>2. \A c \in Blocks : flash'[c] = flash[c] \/ (c = Physical /\ flash'[c] = Torn)
    BY <1>1, <2>1, BlockFailsIs
  <2>3. /\ SameMap(ni, ni') /\ SamePlaces(ni, ni')
        /\ \A b \in Blocks : b # Physical => ni'.state[b] = ni.state[b]
    BY <1>1, <2>1, SetBadIs
  <2>4. /\ \A b \in Blocks : b # Physical => flash'[b] = flash[b]
        /\ \A b \in Blocks : flash'[b] = flash[b] \/ flash'[b].kind # "table"
    BY <2>2 DEF Torn
  <2>5. /\ Ranges' /\ Caller' /\ Layout' /\ ctl'.cache = ctl.cache
        /\ ni'.map = ni.map /\ ni'.count = ni.count /\ ni'.top = ni.top
    BY <1>11, <1>13, <2>1, <2>3 DEF SameMap
  <2>6. Separate' /\ Kept'
    BY <1>1, <1>3, <1>4, <1>6, <1>8, <2>1, <2>3, <2>4, <2>5, PhysicalStep, ZenonT(60)
  <2>. QED  BY <2>5, <2>6 DEF Safe
<1>16. CASE EraseRefused
  <2>1. ctl.pc = "erase" /\ Memory
    BY <1>16 DEF EraseRefused
  <2>2. CASE Physical < 0
    <3>1. ctl' = Idle /\ ni' = ni
      BY <1>16, <2>2 DEF EraseRefused
    <3>. QED  BY <1>2, <1>9, <1>12, <2>1, <3>1, MemorySafe DEF SameMap
  <2>3. CASE ~(Physical < 0)
    <3>1. /\ ctl' = [ctl EXCEPT !.pc = "remap"]
          /\ ni' = SetBad(ni, {Physical}) \/ ni' = ni
      BY <1>16, <2>3 DEF EraseRefused
    <3>2. /\ SameMap(ni, ni') /\ SamePlaces(ni, ni')
          /\ \A b \in Blocks : b # Physical => ni'.state[b] = ni.state[b]
      <4>1. CASE ni' = ni
        BY <4>1 DEF SameMap, SamePlaces
      <4>2. CASE ni' = SetBad(ni, {Physical})
        BY <1>1, <4>2, SetBadIs
      <4>. QED  BY <3>1, <4>1, <4>2
    <3>3. /\ Ranges' /\ Caller' /\ Layout' /\ ctl'.cache = ctl.cache
          /\ ni'.map = ni.map /\ ni'.count = ni.count /\ ni'.top = ni.top
      BY <1>11, <1>13, <2>1, <3>1, <3>2 DEF SameMap, Memory
    <3>4. flash' = flash /\ disk' = disk
      BY <2>1 DEF Memory
    <3>5. Separate' /\ Kept'
      BY <1>1, <1>3, <1>4, <1>6, <1>8, <2>1, <3>2, <3>3, <3>4, PhysicalStep
    <3>. QED  BY <3>3, <3>5 DEF Safe
  <2>. QED  BY <2>2, <2>3
<1>17. CASE Remap
  <2>. DEFINE n == MapBlock(ni, ctl.lb)
  <2>1. /\ ctl.pc = "remap" /\ Unused(ni) # {}
        /\ ni' = Condemn(n, Physical)
        /\ ni.top \in Unused(ni)
        /\ ctl' = [ctl EXCEPT !.pc = "update", !.ret = "erase"]
        /\ flash' = flash /\ disk' = disk
    BY <1>17 DEF Remap
  <2>2. /\ n \in NiType /\ n.count = ni.count /\ ni.mapba < ni.top
        /\ n.map = [ni.map EXCEPT ![ctl.lb] = ni.top]
        /\ n.top = ni.top - 1 /\ n.state = ni.state
        /\ n.main = ni.main /\ n.backup = ni.backup /\ n.mapba = ni.mapba
        /\ n.prot = ni.prot
    BY <1>1, <2>1, MapBlockIs, ZenonT(60)
  <2>. HIDE DEF n
  <2>3. /\ SameMap(n, ni') /\ SamePlaces(n, ni')
        /\ \A b \in Blocks : b # Physical => ni'.state[b] = n.state[b]
    BY <2>1, <2>2, CondemnIs
  <2>4. /\ ni'.count = ni.count /\ ni'.map = [ni.map EXCEPT ![ctl.lb] = ni.top]
        /\ ni'.top = ni.top - 1
        /\ ni'.main = ni.main /\ ni'.backup = ni.backup /\ ni'.mapba = ni.mapba
        /\ ni'.prot = ni.prot
    BY <2>2, <2>3 DEF SameMap, SamePlaces
  <2>5. /\ ni'.top \in Nat /\ ni'.top < ni.top /\ ni'.top <= ni.top
        /\ MgmtStart <= ni.top /\ ni'.mapba <= ni'.top
    BY <1>4, <1>5, <2>2, <2>4
  <2>6. Ranges' /\ Caller' /\ ctl'.cache = ctl.cache
    BY <1>10, <2>1, <2>4
  <2>7. Layout'
    BY <1>5, <2>4, <2>5 DEF Layout
  <2>8. \A b \in Blocks : b # ni.map[ctl.lb] => ni'.state[b] = ni.state[b]
    BY <1>8, <2>2, <2>3
  <2>9. Separate' /\ Kept'
    BY <1>1, <1>3, <1>4, <1>6, <2>1, <2>4, <2>5, <2>6, <2>8, PhysicalStep, ZenonT(60)
  <2>. QED  BY <2>6, <2>7, <2>9 DEF Safe
<1>18. ASSUME NEW n \in NiType, Memory, ctl.pc # "detached",
              ni' = Condemn(Unmap(n, ctl.lb), Physical),
              ctl' = [ctl EXCEPT !.pc = "update", !.ret = "idle"],
              SameMap(ni, n), n.state = ni.state, n.main = ni.main,
              n.backup = ni.backup, n.mapba = ni.mapba, n.prot = ni.prot,
              n.top = ni.mapba
       PROVE  Safe'
  <2>. DEFINE m == Unmap(n, ctl.lb)
  <2>1. /\ m \in NiType /\ m.count = n.count /\ SamePlaces(n, m) /\ m.state = n.state
        /\ m.map = [n.map EXCEPT ![ctl.lb] = -1]
    BY <1>1, UnmapIs
  <2>2. ni' = Condemn(m, Physical)
    BY <1>18
  <2>. HIDE DEF m
  <2>3. /\ SameMap(m, ni') /\ SamePlaces(m, ni')
        /\ \A b \in Blocks : b # Physical => ni'.state[b] = m.state[b]
    BY <2>1, <2>2, CondemnIs
  <2>4. /\ ni'.count = ni.count /\ ni'.map = [ni.map EXCEPT ![ctl.lb] = -1]
        /\ ni'.main = ni.main /\ ni'.backup = ni.backup /\ ni'.mapba = ni.mapba
        /\ ni'.top = ni.mapba /\ ni'.prot = ni.prot
    BY <1>18, <2>1, <2>3 DEF SameMap, SamePlaces
  <2>5. flash' = flash /\ disk' = disk
    BY <1>18 DEF Memory
  <2>6. Ranges' /\ Caller' /\ ctl'.cache = ctl.cache
    BY <1>10, <1>18, <2>4, <2>5
  <2>7. Layout'
    BY <1>4, <1>5, <2>4 DEF Layout
  <2>8. \A b \in Blocks : b # ni.map[ctl.lb] => ni'.state[b] = ni.state[b]
    BY <1>8, <1>18, <2>1, <2>3
  <2>9. ni'.top \in Nat /\ ni'.top <= ni.top
    BY <1>4, <1>5, <2>4
  <2>10. Separate' /\ Kept'
    BY <1>1, <1>3, <1>4, <1>6, <1>18, <2>4, <2>5, <2>6, <2>8, <2>9, PhysicalStep, ZenonT(60)
  <2>. QED  BY <2>6, <2>7, <2>10 DEF Safe
<1>19. CASE RemapFails
  <2>1. ctl.pc = "remap" /\ Memory
    BY <1>19 DEF RemapFails
  <2>2. CASE ni.mapba = ni.top
    <3>1. /\ ni' = Condemn(Unmap(ni, ctl.lb), Physical)
          /\ ctl' = [ctl EXCEPT !.pc = "update", !.ret = "idle"]
      BY <1>19, <2>2 DEF RemapFails
    <3>. QED  BY <1>1, <1>18, <2>1, <2>2, <3>1 DEF SameMap
  <2>3. CASE ni.mapba # ni.top
    <3>1. ni' = ni /\ ctl' = [ctl EXCEPT !.pc = "update", !.ret = "no_spare"]
      BY <1>19, <2>3 DEF RemapFails
    <3>2. disk' = disk
      BY <2>1 DEF Memory
    <3>3. Ranges' /\ Caller' /\ Layout' /\ ctl'.cache = ctl.cache
      BY <1>10, <1>12, <2>1, <3>1, <3>2
    <3>. QED  BY <1>2, <1>3, <2>1, <3>1, <3>3, MemorySafe DEF SameMap
  <2>. QED  BY <2>2, <2>3
<1>20. CASE NoSpare
  <2>. DEFINE n == [ni EXCEPT !.top = ni.mapba]
  <2>1. /\ ni' = Condemn(Unmap(n, ctl.lb), Physical) /\ Memory
        /\ ctl' = [ctl EXCEPT !.pc = "update", !.ret = "idle"]
        /\ ctl.pc # "detached"
    BY <1>20 DEF NoSpare
  <2>2. /\ n \in NiType /\ SameMap(ni, n) /\ n.state = ni.state /\ n.main = ni.main
        /\ n.backup = ni.backup /\ n.mapba = ni.mapba /\ n.prot = ni.prot
        /\ n.top = ni.mapba
    BY <1>1 DEF NiType, SameMap
  <2>. HIDE DEF n
  <2>. QED  BY <1>18, <2>1, <2>2
<1>21. CASE WriteOk
  <2>1. /\ ctl.pc = "write" /\ Physical >= 0 /\ ni.state[Physical] # "BAD"
        /\ ctl' = Idle /\ ni' = ni
        /\ \/ /\ flash' = [flash EXCEPT ![Physical] = ctl.val]
              /\ disk' = [disk EXCEPT ![ctl.lb] = ctl.val]
           \/ /\ flash' = [flash EXCEPT ![Physical] = Torn]
              /\ disk' = [disk EXCEPT ![ctl.lb] = Any]
    BY <1>21 DEF WriteOk, Writable
  <2>2. ctl.val.kind # "table" /\ Torn.kind # "table"
    BY <1>1 DEF Erased, Torn, DataType
  <2>3. /\ \A b \in Blocks : b # Physical => flash'[b] = flash[b]
        /\ \A b \in Blocks : flash'[b] = flash[b] \/ flash'[b].kind # "table"
        /\ disk'[ctl.lb] # Any => flash'[Physical] = disk'[ctl.lb]
        /\ \A l \in Logic : l # ctl.lb => disk'[l] = disk[l]
    BY <1>1, <1>7, <2>1, <2>2
  <2>4. Separate' /\ Kept'
    <3>1. disk'[ctl.lb] # Any =>
            /\ ctl.lb < ni'.count /\ ni'.map = ni.map /\ ni.map[ctl.lb] >= 0
            /\ ni'.state[ni.map[ctl.lb]] # "BAD"
            /\ flash'[ni.map[ctl.lb]] = disk'[ctl.lb]
      BY <1>6, <1>8, <2>1, <2>3
    <3>2. \A b \in Blocks : b # ni.map[ctl.lb] =>
            flash'[b] = flash[b] /\ ni'.state[b] = ni.state[b]
      BY <1>8, <2>1, <2>3
    <3>3. /\ ni'.top \in Nat /\ ni'.top <= ni.top /\ ni'.map = ni.map
          /\ ni'.count \in Nat /\ ni.count <= ni'.count
          /\ ctl'.cache.kind # "table"
      BY <1>4, <1>9, <2>1
    <3>. QED  BY <1>1, <1>3, <2>3, <3>1, <3>2, <3>3, PhysicalStep
  <2>. QED  BY <1>9, <1>12, <2>1, <2>4 DEF Safe
<1>22. CASE WriteFails
  <2>1. /\ ctl.pc = "write" /\ Physical \in Blocks
        /\ ctl' = [ctl EXCEPT !.pc = "update", !.ret = "idle"]
        /\ flash' = [flash EXCEPT ![Physical] = Torn]
        /\ ni' = SetState(ni, {Physical}, "NEED_REMAP")
        /\ disk' = disk
    BY <1>7, <1>22 DEF WriteFails, Writable, ghosts
  <2>2. "NEED_REMAP" \in States
    BY DEF States
  <2>3. /\ SameMap(ni, ni') /\ SamePlaces(ni, ni')
        /\ \A b \in Blocks : b # Physical => ni'.state[b] = ni.state[b]
    BY <1>1, <2>1, <2>2, SetStateIs
  <2>4. /\ \A b \in Blocks : b # Physical => flash'[b] = flash[b]
        /\ \A b \in Blocks : flash'[b] = flash[b] \/ flash'[b].kind # "table"
    BY <1>1, <2>1 DEF Torn
  <2>5. /\ Ranges' /\ Caller' /\ Layout' /\ ctl'.cache = ctl.cache
        /\ ni'.map = ni.map /\ ni'.count = ni.count /\ ni'.top = ni.top
    BY <1>10, <1>13, <2>1, <2>3 DEF SameMap
  <2>6. Separate' /\ Kept'
    <3>1. disk' = disk /\ disk'[ctl.lb] = Any /\ ctl.lb \in Logic
      BY <1>1, <1>6, <2>1
    <3>2. \A b \in Blocks : b # ni.map[ctl.lb] =>
            flash'[b] = flash[b] /\ ni'.state[b] = ni.state[b]
      BY <1>8, <2>3, <2>4
    <3>. QED  BY <1>3, <1>4, <2>4, <2>5, <3>1, <3>2, PhysicalStep
  <2>. QED  BY <2>5, <2>6 DEF Safe
<1>23. CASE WriteRefused
  <2>1. ctl' = Idle /\ ni' = ni /\ Memory
    BY <1>23 DEF WriteRefused
  <2>. QED  BY <1>2, <1>9, <1>12, <2>1, MemorySafe DEF SameMap
<1>24. CASE Detached
  <2>1. ctl' = NoControl /\ ni' = FreshInstance /\ flash' = flash
    BY <1>24 DEF Detached, Off
  <2>2. ctl'.pc = "off" /\ ctl'.cache.kind # "table" /\ \A l \in Logic : ni'.map[l] = -1
    BY <2>1, NoControlIs, FreshIs DEF Erased
  <2>3. Separate'
    BY <1>3, <1>4, <2>1, <2>2 DEF Separate, Injective
  <2>. QED  BY <2>2, <2>3 DEF Safe, Up
<1>. QED  BY <1>14, <1>15, <1>16, <1>17, <1>19, <1>20, <1>21, <1>22, <1>23, <1>24
           DEF Working

(* A user begins a call.                                                   *)
LEMMA CallsSafe ==
  ASSUME TypeInv, Safe, Calls
  PROVE  Safe'
<1>1. /\ ni \in NiType /\ ctl \in CtlType
      /\ ni.map \in [Logic -> PhysicalOrNone]
      /\ disk \in [Logic -> {Any, Erased} \cup DataType]
  BY DEF TypeInv, Types, NiType
<1>2. ctl.pc = "idle"
  BY DEF Calls, Erase, MarkBad, Write, Detach, Begin, CanCall
<1>3. Up /\ At = "idle"
  BY <1>2 DEF Up, At
<1>4. /\ Layout /\ Ranges /\ Caller /\ Separate /\ Kept
      /\ ctl.cache.kind = "table" => Injective(ctl.cache.map)
  BY <1>3 DEF Safe, Separate
<1>5. /\ ni.top \in Nat /\ ni.count \in Nat /\ ni.top <= ni.top /\ ni.count <= ni.count
  BY Numbers
<1>6. ASSUME SamePlaces(ni, ni'), ctl'.pc \in {"erase", "write", "update"}
      PROVE  Layout' /\ Ranges'
  <2>1. Ranges'
    BY <1>6, NoRange DEF Ranging, TableReturns
  <2>. QED  BY <1>3, <1>4, <1>6, <2>1 DEF Layout, SamePlaces
<1>7. ASSUME NEW lb \in Logic, NEW pc \in {"erase", "write"}, NEW v, Begin(lb, pc, v)
      PROVE  Safe'
  <2>1. /\ lb < ni.count
        /\ ctl' = [ctl EXCEPT !.pc = pc, !.lb = lb, !.val = v]
        /\ disk' = [disk EXCEPT ![lb] = Any]
        /\ flash' = flash /\ ni' = ni /\ offs' = offs
    BY <1>7 DEF Begin, CanCall
  <2>2. ctl'.pc = pc /\ ctl'.lb = lb /\ ctl'.ret = ctl.ret /\ ctl'.cache = ctl.cache
    BY <1>1, <2>1 DEF CtlType
  <2>3. disk'[lb] = Any /\ \A l \in Logic : l # lb => disk'[l] = disk[l]
    BY <1>1, <2>1
  <2>4. Layout' /\ Ranges'
    BY <1>6, <2>1, <2>2 DEF SamePlaces
  <2>5. Caller'
    BY <1>4, <2>1, <2>2, <2>3 DEF Caller, Callers
  <2>6. Kept'
    <3>1. \A l \in Logic : disk'[l] # Any => disk[l] # Any /\ disk'[l] = disk[l]
      BY <2>3
    <3>. QED  BY <1>4, <2>1, <3>1 DEF Kept
  <2>7. Separate'
    BY <1>4, <2>1, <2>2 DEF Separate
  <2>. QED  BY <2>4, <2>5, <2>6, <2>7 DEF Safe
<1>8. ASSUME NEW r \in {"idle", "detached"},
             ctl' = [ctl EXCEPT !.pc = "update", !.ret = r],
             r = "detached" => offs' # 0
      PROVE  Caller' /\ ctl'.pc = "update" /\ ctl'.cache = ctl.cache
  <2>1. ctl'.pc = "update" /\ ctl'.ret = r /\ ctl'.cache = ctl.cache
    BY <1>1, <1>8 DEF CtlType
  <2>. QED  BY <1>8, <2>1 DEF Caller, Callers
<1>9. ASSUME NEW lb \in Logic, MarkBad(lb)
      PROVE  Safe'
  <2>. DEFINE n == Unmap(ni, lb)
  <2>1. /\ ni' = SetBad(n, {ni.map[lb]})
        /\ disk' = [disk EXCEPT ![lb] = Any]
        /\ ctl' = [ctl EXCEPT !.pc = "update", !.ret = "idle"]
        /\ flash' = flash
    BY <1>9 DEF MarkBad
  <2>2. /\ n \in NiType /\ n.count = ni.count /\ SamePlaces(ni, n) /\ n.state = ni.state
        /\ n.map = [ni.map EXCEPT ![lb] = -1]
    BY <1>1, UnmapIs
  <2>. HIDE DEF n
  <2>3. /\ SameMap(n, ni') /\ SamePlaces(n, ni')
        /\ \A b \in Blocks : b # ni.map[lb] => ni'.state[b] = n.state[b]
    BY <2>1, <2>2, SetBadIs
  <2>4. /\ ni'.map = [ni.map EXCEPT ![lb] = -1] /\ ni'.count = ni.count
        /\ SamePlaces(ni, ni') /\ ni'.top = ni.top
        /\ \A b \in Blocks : b # ni.map[lb] => ni'.state[b] = ni.state[b]
    BY <2>2, <2>3 DEF SameMap, SamePlaces
  <2>5. disk'[lb] = Any /\ \A l \in Logic : l # lb => disk'[l] = disk[l]
    BY <1>1, <2>1
  <2>6. Caller' /\ ctl'.pc = "update" /\ ctl'.cache = ctl.cache
    BY <1>8, <2>1
  <2>7. Layout' /\ Ranges'
    BY <1>6, <2>4, <2>6
  <2>8. Separate' /\ Kept'
    <3>1. flash' = flash
      BY <2>1
    <3>. QED  BY <1>4, <1>5, <2>4, <2>5, <2>6, <3>1, PhysicalStep
  <2>. QED  BY <2>6, <2>7, <2>8 DEF Safe
<1>10. ASSUME Detach
       PROVE  Safe'
  <2>1. /\ offs' = offs + 1
        /\ ctl' = [ctl EXCEPT !.pc = "update", !.ret = "detached"]
        /\ flash' = flash /\ ni' = ni /\ disk' = disk
    BY <1>10 DEF Detach, ghosts
  <2>2. offs' # 0
    BY <2>1, NmbmAssumption DEF TypeInv, Types
  <2>3. Caller' /\ ctl'.pc = "update" /\ ctl'.cache = ctl.cache
    BY <1>8, <2>1, <2>2
  <2>4. Layout' /\ Ranges'
    BY <1>6, <2>1, <2>3 DEF SamePlaces
  <2>5. Separate' /\ Kept'
    BY <1>4, <2>1, <2>3 DEF Separate, Kept
  <2>. QED  BY <2>3, <2>4, <2>5 DEF Safe
<1>. QED  BY <1>7, <1>9, <1>10 DEF Calls, Erase, Write

(* The power goes off: what is left is the flash.                          *)
LEMMA PowerCutSafe ==
  ASSUME TypeInv, Safe, PowerCut
  PROVE  Safe'
<1>1. ctl' = NoControl /\ ni' = FreshInstance
  BY DEF PowerCut, Off
<1>2. \A b \in Blocks : flash'[b] = flash[b] \/ flash'[b] = Torn
  <2>1. flash' = flash \/ \E c \in InFlight : flash' = [flash EXCEPT ![c] = Torn]
    BY DEF PowerCut
  <2>2. flash \in [Blocks -> Content]
    BY DEF TypeInv, Types
  <2>. QED  BY <2>1, <2>2
<1>3. ctl'.pc = "off" /\ ctl'.cache.kind # "table" /\ \A l \in Logic : ni'.map[l] = -1
  BY <1>1, NoControlIs, FreshIs DEF Erased
<1>4. Separate'
  BY <1>2, <1>3, Sizes DEF Safe, Separate, Injective, Torn
<1>. QED  BY <1>3, <1>4 DEF Safe, Up

(* Only an attach depends on what was on the flash before.                 *)
Recovers == ctl.pc = "off" => Survives

(* A block passed over by nmbm_map_block is never forgotten.               *)
LEMMA SkippedStays ==
  ASSUME Next, ~skipped'
  PROVE  ~skipped
<1>1. CASE Calls
  BY <1>1 DEF Calls, Erase, MarkBad, Write, Begin, Detach, ghosts
<1>2. CASE Attach
  BY <1>2 DEF Attach, AttachCreate, AttachSingle, AttachTwo, Memory
<1>3. CASE Tables
  BY <1>3 DEF Tables, TableErase, TableProgram, TableNoRoom, RangeErase, RangeDone,
              Update, BackupWritten, MainWritten, MainFailed, TmpWritten,
              RescuedMain, RebuiltMain, RebuiltBackup, Memory, ghosts
<1>4. CASE Attaching
  BY <1>4 DEF Attaching, OneMainWritten, OneBackupWritten, SingleFront, SingleBehind,
              SingleClean, Attached, CreateMap, CreateFull, Created, Memory
<1>5. CASE Working
  BY <1>5 DEF Working, EraseOk, EraseFails, EraseRefused, Remap, RemapFails, NoSpare,
              WriteOk, WriteFails, WriteRefused, Detached, Memory, ghosts
<1>6. CASE PowerCut
  BY <1>6 DEF PowerCut
<1>. QED  BY <1>1, <1>2, <1>3, <1>4, <1>5, <1>6 DEF Next, Step

(* No step, a loss of power included, breaks what a session relies on,     *)
(* provided that an attach finds what Survives says.                       *)
LEMMA NextSession == TypeInv /\ Session /\ Recovers /\ [Next]_vars => Session'
<1>. SUFFICES ASSUME TypeInv, Session, Recovers, [Next]_vars, ~skipped'
              PROVE  Safe'
  BY DEF Session
<1>1. TypeInv'
  BY NextType
<1>2. CASE UNCHANGED vars
  BY <1>2 DEF vars, ghosts, Session, Safe, Up, Separate, Layout, Ranges, Caller, Kept,
              Injective, At
<1>3. CASE Next
  <2>1. ~skipped
    BY <1>3, SkippedStays
  <2>2. Safe
    BY <2>1 DEF Session
  <2>3. CASE Attach
    <3>1. Survives
      BY <2>3 DEF Recovers, Attach, AttachCreate, AttachSingle, AttachTwo
    <3>. QED  BY <2>1, <2>2, <2>3, <3>1, AttachSafe
  <2>4. CASE Tables
    BY <1>1, <2>2, <2>4, RangeSafe, UpdateSafe, RescueSafe, RebuildingSafe DEF Tables
  <2>5. CASE Attaching
    BY <2>2, <2>5, SingleSafe, AttachedSafe DEF Attaching
  <2>. QED  BY <1>3, <2>2, <2>3, <2>4, <2>5, WorkingSafe, CallsSafe, PowerCutSafe
            DEF Next, Step
<1>. QED  BY <1>2, <1>3

(* A new chip has no users.                                                *)
LEMMA InitSession == Init => Session
<1>. SUFFICES ASSUME Init PROVE Safe
  BY DEF Session
<1>1. /\ ni = FreshInstance /\ ctl = NoControl /\ flash = [b \in Blocks |-> Erased]
  BY DEF Init
<1>2. ctl.pc = "off" /\ ctl.cache.kind # "table" /\ \A l \in Logic : ni.map[l] = -1
  BY <1>1, NoControlIs, FreshIs DEF Erased
<1>3. \A b \in Blocks : flash[b].kind # "table"
  BY <1>1 DEF Erased
<1>4. Separate
  BY <1>2, <1>3, Sizes DEF Separate, Injective
<1>. QED  BY <1>2, <1>4 DEF Safe, Up

(* What a session relies on gives the properties of the users.             *)
LEMMA SessionShows == TypeInv /\ Session => Apart /\ ReadsBack
<1>. SUFFICES ASSUME TypeInv, Session, ~skipped PROVE Apart /\ ReadsBack
  BY DEF Apart, ReadsBack
<1>1. Separate /\ (Up => Kept)
  BY DEF Session, Safe
<1>2. Apart
  BY <1>1 DEF Apart, OneUser, Separate, Injective
<1>3. ASSUME ctl.pc = "idle", ~ni.prot, NEW l \in Logic, disk[l] # Any
      PROVE  Read(l) = disk[l]
  <2>1. /\ l < ni.count /\ ni.map[l] >= 0 /\ ni.state[ni.map[l]] # "BAD"
        /\ flash[ni.map[l]] = disk[l]
    BY <1>1, <1>3 DEF Kept, Up
  <2>2. ni.map[l] \in Int /\ l \in Int /\ ni.count \in Int
    BY Numbers, Sizes
  <2>3. ~(l >= ni.count) /\ ~(ni.map[l] < 0)
    BY <2>1, <2>2
  <2>. QED  BY <1>3, <2>1, <2>3 DEF Read
<1>. QED  BY <1>2, <1>3 DEF ReadsBack

(* Only nmbm_detach and the loss of power turn the device off.             *)
LEMMA StaysOn ==
  ASSUME TypeInv, Tables \/ Attaching \/ Calls \/ Attach \/ (Working /\ ~Detached)
  PROVE  ctl'.pc # "off"
<1>1. /\ ctl \in CtlType /\ ctl.next \in {"off"} \cup TableReturns \cup RangeReturns
      /\ ctl.built \in {"update", "create"} /\ Control
  BY DEF TypeInv, Types, CtlType
<1>3. \A p, r : /\ [ctl EXCEPT !.pc = p].pc = p
                /\ [ctl EXCEPT !.pc = p, !.ret = r].pc = p
                /\ [NoControl EXCEPT !.pc = p].pc = p
  BY <1>1, NoControlIs DEF CtlType
<1>4. Idle.pc = "idle"
  BY IdleIs
<1>5. "off" \notin TableReturns \cup RangeReturns \cup UpdateRets
  BY DEF TableReturns, RangeReturns, UpdateRets
<1>6. CASE Calls
  <2>1. \A p, l, v : [ctl EXCEPT !.pc = p, !.lb = l, !.val = v].pc = p
    BY <1>1 DEF CtlType
  <2>2. CASE \E lb \in Logic : MarkBad(lb)
    BY <1>3, <2>2 DEF MarkBad
  <2>3. CASE Detach
    BY <1>3, <2>3 DEF Detach
  <2>4. CASE \E lb \in Logic, p \in {"erase", "write"} : \E v : Begin(lb, p, v)
    BY <2>1, <2>4 DEF Begin
  <2>. QED  BY <1>6, <2>2, <2>3, <2>4 DEF Calls, Erase, Write
<1>7. CASE Attach
  <2>1. LoadTables \in NiType
    BY LoadIs DEF TypeInv, Types
  <2>2. Loading(Generate(LoadTables)) \in CtlType
    BY <2>1, LoadingIs
  <2>3. CASE AttachCreate
    <3>1. \/ ctl' = [NoControl EXCEPT !.pc = "dead"]
          \/ \E m : Rebuild(m, Loading(m), "create")
      BY <2>3 DEF AttachCreate
    <3>2. ASSUME NEW m, Rebuild(m, Loading(m), "create")
          PROVE  ctl'.pc # "off"
      <4>1. [[Loading(m) EXCEPT !.built = "create"] EXCEPT !.pc = "table",
               !.ba = MgmtStart, !.limit = m.top, !.next = "rebuilt_main"].pc = "table"
        BY NoControlIs DEF Loading, CtlType
      <4>. QED  BY <3>2, <4>1 DEF Rebuild, WriteTable
    <3>. QED  BY <1>3, <3>1, <3>2
  <2>4. CASE AttachSingle
    <3>1. ctl' = WriteTable(Loading(Generate(LoadTables)), MgmtStart,
                            Generate(LoadTables).main, "single_front")
      BY <2>4 DEF AttachSingle, RescueSingle
    <3>. QED  BY <2>2, <3>1 DEF WriteTable, CtlType
  <2>5. CASE AttachTwo
    <3>. DEFINE n == Generate(LoadTables)
    <3>1. \/ ctl' = [NoControl EXCEPT !.pc = "attached"]
          \/ ctl' = WriteTable(Loading(n), n.main, n.backup, "one_main")
          \/ ctl' = WriteTable(Loading(n), n.backup, n.top, "one_backup")
      BY <2>5 DEF AttachTwo
    <3>. HIDE DEF n
    <3>3. CASE ctl' = [NoControl EXCEPT !.pc = "attached"]
      BY <3>3, NoControlIs DEF CtlType
    <3>4. CASE ctl' = WriteTable(Loading(n), n.main, n.backup, "one_main")
      BY <2>2, <3>4 DEF WriteTable, CtlType, n
    <3>5. CASE ctl' = WriteTable(Loading(n), n.backup, n.top, "one_backup")
      BY <2>2, <3>5 DEF WriteTable, CtlType, n
    <3>. QED  BY <3>1, <3>3, <3>4, <3>5
  <2>. QED  BY <1>7, <2>3, <2>4, <2>5 DEF Attach
<1>8. CASE Attaching
  <2>1. CASE OneMainWritten
    <3>1. \/ ctl' = [ctl EXCEPT !.pc = "attached"]
          \/ ctl' = WriteTable(ctl, MgmtStart, ni'.main, "single_front")
      BY <2>1 DEF OneMainWritten, RescueSingle
    <3>. QED  BY <1>1, <3>1 DEF WriteTable, CtlType
  <2>2. CASE OneBackupWritten \/ SingleClean
    <3>1. ctl' = [ctl EXCEPT !.pc = "attached"]
      BY <2>2 DEF OneBackupWritten, SingleClean
    <3>. QED  BY <1>1, <3>1 DEF CtlType
  <2>3. CASE SingleFront
    <3>1. \/ ctl' = EraseRange(ctl, End, ni.main, "attached")
          \/ ctl' = [ctl EXCEPT !.pc = "attached"]
          \/ \E w : ctl' = [WriteTable(ctl, w, ni.top, "single_behind") EXCEPT !.wba = w]
      BY <2>3 DEF SingleFront
    <3>. QED  BY <1>1, <3>1 DEF WriteTable, EraseRange, CtlType
  <2>4. CASE SingleBehind
    <3>1. \/ ctl' = EraseRange(ctl, ni.mapba, Here, "single_clean")
          \/ ctl' = [ctl EXCEPT !.pc = "attached"]
          \/ ctl' = [WriteTable(ctl, ctl.wba - 1, ni.top, "single_behind") EXCEPT !.wba = @ - 1]
      BY <2>4 DEF SingleBehind
    <3>. QED  BY <1>1, <3>1 DEF WriteTable, EraseRange, CtlType
  <2>5. CASE Attached
    BY <1>4, <2>5 DEF Attached
  <2>6. CASE CreateMap
    <3>1. \/ ctl' = ctl /\ ctl.pc = "create"
          \/ \E r : ctl' = [ctl EXCEPT !.pc = "update", !.ret = r]
      BY <2>6 DEF CreateMap
    <3>. QED  BY <1>1, <3>1 DEF CtlType
  <2>7. CASE CreateFull
    <3>1. ctl' = [ctl EXCEPT !.pc = "update", !.ret = "created"]
      BY <2>7 DEF CreateFull
    <3>. QED  BY <1>1, <3>1 DEF CtlType
  <2>8. CASE Created
    <3>1. ctl' = [NoControl EXCEPT !.pc = IF ctl.ok THEN "idle" ELSE "dead"]
      BY <2>8 DEF Created
    <3>. QED  BY <3>1, NoControlIs DEF CtlType
  <2>. QED  BY <1>8, <2>1, <2>2, <2>3, <2>4, <2>5, <2>6, <2>7, <2>8 DEF Attaching
<1>9. CASE Working /\ ~Detached
  <2>1. \/ ctl' = Idle
        \/ ctl' = [ctl EXCEPT !.pc = "remap"]
        \/ ctl' = [ctl EXCEPT !.pc = "update", !.ret = "erase"]
        \/ ctl' = [ctl EXCEPT !.pc = "update", !.ret = "idle"]
        \/ ctl' = [ctl EXCEPT !.pc = "update", !.ret = "no_spare"]
    BY <1>9 DEF Working, EraseOk, EraseFails, EraseRefused, Remap, RemapFails, NoSpare,
       WriteOk, WriteFails, WriteRefused
  <2>. QED  BY <1>1, <1>4, <2>1 DEF CtlType
<1>10. CASE Tables
  <2>1. CASE TableErase \/ TableProgram \/ TableNoRoom \/ RangeErase \/ RangeDone
    <3>1. ctl.next \in TableReturns \/ ctl.next \in RangeReturns
      BY <1>1, <2>1 DEF TableErase, TableProgram, TableNoRoom, RangeErase, RangeDone, Control
    <3>2. "off" # ctl.next
      BY <1>5, <3>1
    <3>3. CASE TableErase
      <4>1. \E b : \/ ctl' = [ctl EXCEPT !.pc = "program", !.ba = b]
                   \/ ctl' = [ctl EXCEPT !.ba = b + 1] /\ ctl.pc = "table"
        BY <3>3 DEF TableErase
      <4>. QED  BY <1>1, <4>1 DEF CtlType
    <3>4. CASE TableProgram \/ TableNoRoom
      <4>1. \/ ctl' = [ctl EXCEPT !.pc = ctl.next, !.ok = TRUE]
            \/ ctl' = [ctl EXCEPT !.pc = ctl.next, !.ok = FALSE]
            \/ ctl' = [ctl EXCEPT !.pc = "table", !.ba = @ + 1]
        BY <3>4 DEF TableProgram, TableNoRoom
      <4>. QED  BY <1>1, <3>2, <4>1 DEF CtlType
    <3>5. CASE RangeErase \/ RangeDone
      <4>1. \/ ctl' = [ctl EXCEPT !.pc = ctl.next, !.ok = TRUE]
            \/ ctl' = [ctl EXCEPT !.ba = Min(Usable) + 1] /\ ctl.pc = "range"
        BY <3>5 DEF RangeErase, RangeDone
      <4>. QED  BY <1>1, <3>2, <4>1 DEF CtlType
    <3>. QED  BY <2>1, <3>3, <3>4, <3>5
  <2>2. ASSUME NEW r \in BOOLEAN, ctl.ret \in UpdateRets
        PROVE  UpdateReturns(r).pc # "off"
    BY <1>1, <1>5, <2>2, UpdateReturnsIs
  <2>3. ASSUME NEW r \in BOOLEAN, ctl.built = "update" => ctl.ret \in UpdateRets
        PROVE  RebuildReturns(r).pc # "off"
    BY <1>1, <1>5, <2>3, RebuildReturnsIs
  <2>4. CASE Update
    <3>1. ctl.ret \in UpdateRets
      BY <1>1, <2>4 DEF Update, Control, InUpdate, At
    <3>2. \/ ctl' = UpdateReturns(TRUE)
          \/ \E x, b, l, m : ctl' = WriteTable([ctl EXCEPT !.cache = x], b, l, m)
      BY <2>4 DEF Update, WriteMain
    <3>3. ASSUME NEW x, NEW b, NEW l, NEW m,
                 ctl' = WriteTable([ctl EXCEPT !.cache = x], b, l, m)
          PROVE  ctl'.pc # "off"
      BY <1>1, <3>3 DEF WriteTable, CtlType
    <3>. QED  BY <2>2, <3>1, <3>2, <3>3
  <2>5. CASE BackupWritten
    <3>1. \E b, l : ctl' = WriteTable(ctl, b, l, "main_written")
      BY <2>5 DEF BackupWritten, WriteMain
    <3>. QED  BY <1>1, <3>1 DEF WriteTable, CtlType
  <2>6. CASE MainWritten \/ RescuedMain
    <3>1. ctl' = [ctl EXCEPT !.pc = "update"]
      BY <2>6 DEF MainWritten, RescuedMain
    <3>. QED  BY <1>1, <3>1 DEF CtlType
  <2>7. CASE MainFailed
    <3>1. \/ ctl' = WriteTable([ctl EXCEPT !.built = "update"], MgmtStart, ni.top, "rebuilt_main")
          \/ ctl' = [ctl EXCEPT !.pc = "update"]
          \/ \E w : ctl' = [WriteTable(ctl, w, ni.top, "tmp_written") EXCEPT !.wba = w]
      BY <2>7 DEF MainFailed, Rebuild
    <3>. QED  BY <1>1, <3>1 DEF WriteTable, CtlType
  <2>8. CASE TmpWritten
    <3>1. \/ ctl' = [WriteTable(ctl, MgmtStart, Here, "rescued_main") EXCEPT !.tmp = Here]
          \/ ctl' = [WriteTable(ctl, ctl.wba - 1, ni.top, "tmp_written") EXCEPT !.wba = @ - 1]
          \/ ctl' = [ctl EXCEPT !.pc = "update"]
      BY <2>8 DEF TmpWritten
    <3>. QED  BY <1>1, <3>1 DEF WriteTable, CtlType
  <2>9. CASE RebuiltMain \/ RebuiltBackup
    <3>1. ctl.built = "update" => ctl.ret \in UpdateRets
      BY <1>1, <2>9 DEF RebuiltMain, RebuiltBackup, Control, InUpdate, At
    <3>2. \/ ctl' = RebuildReturns(TRUE)
          \/ ctl' = RebuildReturns(FALSE)
          \/ \E w : ctl' = WriteTable(ctl, w, ni.top, "rebuilt_backup")
          \/ ctl' = EraseRange(ctl, ni.main + 1, Here, ctl.built)
      BY <2>9 DEF RebuiltMain, RebuiltBackup
    <3>3. CASE \E w : ctl' = WriteTable(ctl, w, ni.top, "rebuilt_backup")
      BY <1>1, <3>3 DEF WriteTable, CtlType
    <3>4. CASE ctl' = EraseRange(ctl, ni.main + 1, Here, ctl.built)
      BY <1>1, <3>4 DEF EraseRange, CtlType
    <3>. QED  BY <2>3, <3>1, <3>2, <3>3, <3>4
  <2>. QED  BY <1>10, <2>1, <2>4, <2>5, <2>6, <2>7, <2>8, <2>9 DEF Tables
<1>. QED  BY <1>6, <1>7, <1>8, <1>9, <1>10

(* Until the power goes off for the first time there is nothing to recover. *)
LEMMA NextBlank == TypeInv /\ Session /\ Blank /\ [Next]_vars => Blank'
<1>. SUFFICES ASSUME TypeInv, Session, Blank, [Next]_vars,
                     ~skipped', offs' = 0, ctl'.pc = "off"
              PROVE  flash' = [b \in Blocks |-> Erased] /\ disk' = [l \in Logic |-> Any]
  BY DEF Blank
<1>1. CASE UNCHANGED vars
  BY <1>1 DEF vars, ghosts, Blank
<1>2. CASE Detached
  <2>1. ~skipped /\ offs = 0 /\ ctl.pc = "detached"
    BY <1>2 DEF Detached
  <2>2. Caller
    BY <2>1 DEF Session, Safe, Up
  <2>. QED  BY <2>1, <2>2 DEF Caller
<1>3. CASE PowerCut
  <2>1. offs' = offs + 1 /\ offs \in Nat
    BY <1>3, NmbmAssumption DEF PowerCut, TypeInv, Types
  <2>. QED  BY <2>1
<1>. QED  BY <1>1, <1>2, <1>3, StaysOn DEF Next, Step

(* A chip without tables promises nothing, so that an attach recovers it.  *)
LEMMA BlankRecovers == TypeInv /\ Blank => (offs = 0 => Recovers)
<1>. SUFFICES ASSUME TypeInv, Blank, offs = 0, ctl.pc = "off", ~skipped PROVE Survives
  BY DEF Recovers, Survives
<1>1. flash = [b \in Blocks |-> Erased] /\ disk = [l \in Logic |-> Any]
  BY DEF Blank
<1>2. LoadTables.main = 0
  <2>1. LoadTables.main # 0 => flash[LoadTables.main] \in TableType /\ LoadTables.main \in Blocks
    BY LoadIs DEF TypeInv, Types, NiType
  <2>2. Erased \notin TableType
    BY DEF Erased, TableType
  <2>. QED  BY <1>1, <2>1, <2>2
<1>. QED  BY <1>1, <1>2 DEF Survives

(* What a user wrote or erased is read back, and users' blocks stay apart  *)
(* from each other and from the tables, for a chip of any size, however    *)
(* many blocks fail and however often the device is turned off, as long as *)
(* an attach finds what Survives says: nothing that happens between an     *)
(* attach and the next loss of power, table updates, rescues, rebuilds and *)
(* replaced blocks included, can break it.                                 *)
THEOREM SessionsReadBack == Spec /\ []Recovers => []ReadsBack
<1>1. Session /\ TypeInv => ReadsBack
  BY SessionShows
<1>. QED  BY <1>1, InitType, NextType, InitSession, NextSession, PTL DEF Spec

(* The same for the blocks' owners.                                        *)
THEOREM SessionsKeepApart == Spec /\ []Recovers => []Apart
<1>1. Session /\ TypeInv => Apart
  BY SessionShows
<1>. QED  BY <1>1, InitType, NextType, InitSession, NextSession, PTL DEF Spec

(* Until the device is first turned off no assumption is needed: from the  *)
(* creation of the tables on, however many blocks fail, users read what    *)
(* they wrote and no block has two owners.                                 *)
THEOREM FirstSession == Spec => [](offs = 0 => ReadsBack /\ Apart)
<1>. DEFINE Inv == TypeInv /\ (offs = 0 => Session /\ Blank)
<1>1. Init => Inv
  <2>1. Init => Blank
    BY DEF Init, Blank
  <2>. QED  BY <2>1, InitType, InitSession
<1>2. Inv /\ [Next]_vars => Inv'
  <2>. SUFFICES ASSUME Inv, [Next]_vars PROVE Inv'
    OBVIOUS
  <2>1. TypeInv'
    BY NextType
  <2>2. ASSUME offs' = 0
        PROVE  offs = 0
    <3>1. offs' = offs \/ offs' = offs + 1
      <4>1. CASE Calls
        BY <4>1 DEF Calls, Erase, MarkBad, Write, Begin, Detach
      <4>2. CASE Attach
        BY <4>2 DEF Attach, AttachCreate, AttachSingle, AttachTwo, Memory
      <4>3. CASE Tables
        BY <4>3 DEF Tables, TableErase, TableProgram, TableNoRoom, RangeErase, RangeDone,
                    Update, BackupWritten, MainWritten, MainFailed, TmpWritten,
                    RescuedMain, RebuiltMain, RebuiltBackup, Memory
      <4>4. CASE Attaching
        BY <4>4 DEF Attaching, OneMainWritten, OneBackupWritten, SingleFront, SingleBehind,
                    SingleClean, Attached, CreateMap, CreateFull, Created, Memory
      <4>5. CASE Working
        BY <4>5 DEF Working, EraseOk, EraseFails, EraseRefused, Remap, RemapFails, NoSpare,
                    WriteOk, WriteFails, WriteRefused, Detached, Memory
      <4>6. CASE PowerCut
        BY <4>6 DEF PowerCut
      <4>7. CASE UNCHANGED vars
        BY <4>7 DEF vars
      <4>. QED  BY <4>1, <4>2, <4>3, <4>4, <4>5, <4>6, <4>7 DEF Next, Step
    <3>2. offs \in Nat
      BY NmbmAssumption DEF TypeInv, Types
    <3>. QED  BY <2>2, <3>1, <3>2
  <2>3. ASSUME offs' = 0
        PROVE  Session' /\ Blank'
    BY <2>2, <2>3, BlankRecovers, NextSession, NextBlank
  <2>. QED  BY <2>1, <2>3
<1>3. Inv => (offs = 0 => ReadsBack /\ Apart)
  BY SessionShows
<1>. HIDE DEF Inv
<1>. QED  BY <1>1, <1>2, <1>3, PTL DEF Spec

-----------------------------------------------------------------------------
(* What makes the tables survive the loss of power, while the bad mark of  *)
(* a block that failed never fails as well and nobody writes to a block    *)
(* that is marked. All of it holds until nmbm_map_block has passed over a  *)
(* bad block.                                                              *)

\* Blocks that hold a table and are not marked bad: what an attach can find
Copies == {b \in Blocks : b \notin mark /\ flash[b].kind = "table"}

\* Nothing that is good by the states t was less than good by the earlier
\* states s, and nothing bad recovers
Ages(s, t) ==
  \A c \in Blocks : /\ t[c] = "GOOD" => s[c] = "GOOD"
                    /\ s[c] = "BAD" => t[c] = "BAD"

\* No block of the management area below ba will take a table, by the states s
Low(s, ba) == \A c \in Blocks : MgmtStart <= c /\ c < ba => c \in mark \/ s[c] # "GOOD"

\* Tables b and c, if both are found, belong together: neither hides the
\* other, they lie below the blocks that replace others, the one written more
\* often is the later one, and there is no room in front of them
Pair(b, c) ==
  /\ flash[b].state[c] = "GOOD"
  /\ \A l \in Logic : flash[b].map[l] >= MgmtStart => flash[b].map[l] > c + 1
  /\ flash[b].wc <= flash[c].wc => Ages(flash[b].state, flash[c].state)
  /\ flash[b].wc = flash[c].wc => flash[b].map = flash[c].map
  /\ b < c => Low(flash[b].state, b) /\ Low(flash[c].state, b)

\* At most two tables can be found, and they belong together
InOrder ==
  /\ \A b \in Copies : MgmtStart <= b /\ b + 1 < SigBa
  /\ \A a, b, c \in Copies : a = b \/ b = c \/ a = c
  /\ \A b, c \in Copies : Pair(b, c)

\* Every table that can be found leads to what was promised, and without one
\* nothing is promised
Leads ==
  \A l \in Logic : disk[l] # Any =>
    /\ Copies # {}
    /\ \A b \in Copies :
         /\ flash[b].map[l] >= 0 /\ flash[b].map[l] \notin mark
         /\ flash[b].state[flash[b].map[l]] # "BAD"
         /\ flash[flash[b].map[l]] = disk[l]
         /\ \A c \in Copies : flash[c].map[l] = flash[b].map[l]

\* The tables that stay where they are while one is written, those that were
\* written last, and the block below which there is no room for another
Keep ==
  (CASE At \in {"backup_written", "one_backup", "rebuilt_backup",
                "single_front", "single_behind"} -> {ni.main}
     [] At \in {"main_written", "tmp_written", "one_main"} -> {ni.backup}
     [] At = "rescued_main" -> {ctl.tmp}
     [] At = "rebuilt_main" -> {}
     [] OTHER -> {ni.main, ni.backup}) \ {0}
New == IF ctl.pc \in TableReturns /\ ctl.ok THEN {ctl.ba} ELSE {}
Front == {"main_written", "rescued_main", "rebuilt_main", "one_main", "single_front"}
Floor ==
  IF At \in Front THEN IF ctl.pc \in TableReturns /\ ~ctl.ok THEN ctl.limit ELSE ctl.ba
  ELSE IF At = "tmp_written" THEN ni.backup ELSE ni.main
Writing == ctl.pc \in {"table", "program"} \cup TableReturns

\* The tables on the flash are these, but for the one to be written over next
Whole ==
  /\ Keep \cup New \subseteq Copies
  /\ \A b \in Copies \ (Keep \cup New) :
       ctl.pc = "table" /\ b \in Usable /\ \A u \in Usable : b <= u

\* Where the procedures are
Progress ==
  /\ ctl.pc \in TableReturns => ctl.next = ctl.pc
  /\ ctl.pc = "program" => ctl.ba \notin mark /\ ni.state[ctl.ba] = "GOOD"
  /\ ctl.pc = "range" => ni.main < ctl.ba /\ ctl.limit <= ni.backup
  /\ At = "main_written" /\ ni.backup # 0 => ctl.limit = ni.backup
  /\ At = "one_main" => ctl.limit = ni.backup
  /\ At = "single_front" => ctl.limit = ni.main
  /\ At = "rescued_main" => ctl.limit = ctl.tmp
  /\ At = "rebuilt_main" => ni.main = 0
  /\ ctl.pc = "created" /\ ~ctl.ok => ni.main = 0
  /\ ni.prot => \/ ni.main = 0 /\ At # "rebuilt_main"
                \/ ctl.pc \in {"idle", "detached"}
                \/ ctl.pc = "update" /\ ctl.ret = "detached"

\* The memory is later than the tables and has the same for what was promised
Older ==
  \A b \in Copies :
    /\ ni.state[b] = "GOOD" /\ Ages(flash[b].state, ni.state)
    /\ flash[b].wc <= ni.wc
Agree ==
  \A l \in Logic : disk[l] # Any =>
    /\ ni.map[l] \notin mark
    /\ \A b \in Copies : flash[b].map[l] = ni.map[l]

\* The blocks that replace others lie above the top by the table in b
TopFree(b) == \A l \in Logic : flash[b].map[l] >= MgmtStart => flash[b].map[l] > ni.top
Synced(b) == \A l \in Logic : ni.map[l] >= 0 => flash[b].map[l] = ni.map[l]

Placed ==
  /\ Low(ni.state, Floor)
  /\ \A b \in Keep : Low(flash[b].state, Floor) /\ TopFree(b)

\* The tables have the map that is in memory, or will be written
Current ==
  \/ At = "backup_written" \/ ni.prot
  \/ At \in {"update", "create"} /\ ni.changed
  \/ \A b \in Keep : Synced(b)

\* The table being written is that of the memory, but for blocks that failed
\* meanwhile
Cached ==
  /\ ctl.cache.kind = "table" /\ ctl.cache.wc = ni.wc /\ ctl.cache.map = ni.map
  /\ Ages(ctl.cache.state, ni.state)
  /\ \A c \in Blocks : ni.state[c] # "GOOD" => c \in mark \/ ctl.cache.state[c] # "GOOD"
  /\ \A b \in Copies :
       /\ Ages(flash[b].state, ctl.cache.state)
       /\ flash[b].wc = ctl.cache.wc => /\ flash[b].map = ctl.cache.map
                                        /\ Ages(ctl.cache.state, flash[b].state)
  /\ \A b \in New : flash[b] = ctl.cache

\* The table that stays knows of the bad blocks in front of it
Ahead ==
  At \in Front => \A b \in Keep, c \in Blocks :
    c < ctl.limit /\ ni.state[c] # "GOOD" => c \in mark \/ flash[b].state[c] # "GOOD"

Known ==
  /\ Whole /\ Progress /\ Older /\ Agree /\ Placed /\ Current
  /\ Writing => Cached /\ Ahead

Tabled ==
  /\ InOrder
  /\ ctl.pc = "off" => Leads
  /\ ctl.pc = "dead" => ni.main = 0 /\ ni.backup = 0
  /\ Up => Known
-----------------------------------------------------------------------------
(* What an attach finds                                                    *)

(* A block that an attach can find holds a table.                          *)
LEMMA CopiesAre ==
  ASSUME TypeInv
  PROVE  /\ Copies \subseteq Blocks /\ Copies \subseteq Nat
         /\ \A b \in Copies :
              /\ b \notin mark /\ flash[b].kind = "table" /\ flash[b] \in TableType
              /\ flash[b].wc \in Nat /\ flash[b].state \in [Blocks -> States]
              /\ flash[b].map \in [Logic -> PhysicalOrNone]
              /\ \A l \in Logic : flash[b].map[l] \in PhysicalOrNone /\ flash[b].map[l] \in Int
<1>1. Copies \subseteq Blocks /\ Copies \subseteq Nat
  BY Sizes DEF Copies
<1>2. \A b \in Copies : b \notin mark /\ flash[b].kind = "table" /\ flash[b] \in TableType
  BY TableIn DEF Copies, TypeInv, Types
<1>3. \A t \in TableType :
        /\ t.wc \in Nat /\ t.state \in [Blocks -> States]
        /\ t.map \in [Logic -> PhysicalOrNone]
  BY DEF TableType
<1>. QED  BY <1>1, <1>2, <1>3, PhysicalInt

(* Every table that an attach can find is valid.                           *)
LEMMA CopiesValid ==
  ASSUME TypeInv, InOrder
  PROVE  \A b \in Copies : ValidTable(b)
<1>. SUFFICES ASSUME NEW b \in Copies PROVE ValidTable(b)
  OBVIOUS
<1>1. b \in Nat /\ flash[b].kind = "table" /\ \A l \in Logic : flash[b].map[l] \in Int
  BY CopiesAre
<1>2. Pair(b, b)
  BY DEF InOrder
<1>3. \A l \in Logic : flash[b].map[l] \notin MgmtStart..b
  BY <1>1, <1>2, Sizes DEF Pair
<1>. QED  BY <1>1, <1>2, <1>3 DEF Pair, ValidTable

(* nmbm_search_info_table stops at the first table from the given block    *)
(* on that is good by the states in memory, and sets blocks bad on its way *)
(* there that are marked or cannot be read.                                *)
LEMMA SearchSees ==
  ASSUME TypeInv, InOrder, NEW n \in NiType, NEW from \in Nat, MgmtStart <= from,
         \A b \in Copies : from <= b => n.state[b] = "GOOD"
  PROVE  LET r == Search(n, from)
             F == {b \in Copies : from <= b}
         IN  /\ r.ba = IF F = {} THEN 0 ELSE Min(F)
             /\ \E S \in SUBSET Blocks :
                  /\ r.n = SetBad(n, S)
                  /\ \A c \in S : from <= c /\ (c \in mark \/ flash[c].kind = "torn")
<1>. DEFINE area == Good(n, from, SigBa - 2)
            found == {b \in area : b \notin mark /\ ValidTable(b)}
            F == {b \in Copies : from <= b}
            ba == IF found = {} THEN 0 ELSE Min(found)
            S == {b \in area : /\ found = {} \/ b < ba
                               /\ b \in mark \/ flash[b].kind = "torn"}
<1>1. Search(n, from) = [ba |-> ba, n |-> SetBad(n, S)]
  BY DEF Search
<1>2. \A b \in area : b \in Blocks /\ from <= b
  BY Sizes DEF Good, Blocks
<1>3. found \subseteq F
  BY <1>2 DEF ValidTable, Copies
<1>4. F \subseteq found
  <2>. SUFFICES ASSUME NEW b \in F PROVE b \in found
    OBVIOUS
  <2>1. b \in Copies /\ from <= b /\ n.state[b] = "GOOD"
    OBVIOUS
  <2>2. b \in Nat /\ b \notin mark /\ ValidTable(b) /\ b + 1 < SigBa
    BY <2>1, CopiesAre, CopiesValid DEF InOrder
  <2>3. b \in from..(SigBa - 2)
    BY <2>1, <2>2, Sizes
  <2>. QED  BY <2>1, <2>2, <2>3 DEF Good
<1>5. found = F
  BY <1>3, <1>4
<1>. HIDE DEF area
<1>6. \A c \in S : c \in Blocks /\ from <= c /\ (c \in mark \/ flash[c].kind = "torn")
  BY <1>2
<1>7. S \in SUBSET Blocks
  BY <1>6
<1>8. Search(n, from).ba = IF F = {} THEN 0 ELSE Min(F)
  BY <1>1, <1>5
<1>9. Search(n, from).n = SetBad(n, S)
  BY <1>1
<1>. QED  BY <1>6, <1>7, <1>8, <1>9

\* The table in block b is the one that nmbm_load_info_table goes by
Chosen(n, b) ==
  /\ b = IF n.backup # 0 /\ flash[n.backup].wc > flash[n.main].wc
         THEN n.backup ELSE n.main
  /\ n.map = flash[b].map /\ n.wc = flash[b].wc
  /\ \A c \in Blocks : \/ n.state[c] = flash[b].state[c]
                       \/ /\ n.state[c] = "BAD" /\ b = n.main /\ n.main < c
                          /\ c \in mark \/ flash[c].kind = "torn"
  /\ ~n.changed => n.state = flash[b].state

(* nmbm_load_info_table finds all tables there are, goes by the one that   *)
(* was written more often, and takes no table for a block to be replaced.  *)
LEMMA LoadSees ==
  ASSUME TypeInv, InOrder
  PROVE  LET n == LoadTables
         IN  /\ Copies = {} => n.main = 0
             /\ Copies # {} =>
                  /\ n.main \in Copies /\ n.main # 0
                  /\ n.backup = 0 => Copies = {n.main}
                  /\ n.backup # 0 => Copies = {n.main, n.backup} /\ n.main < n.backup
                  /\ n.mapba <= n.top
                  /\ \E b \in Copies : Chosen(n, b)
<1>. DEFINE first  == Search(FreshInstance, MgmtStart)
            n1     == Loaded(first.n, flash[first.ba])
            second == Search(n1, first.ba + 1)
            newer  == second.ba # 0 /\ Newer(flash[second.ba], n1)
            n2     == IF newer THEN Loaded(second.n, flash[second.ba]) ELSE second.n
            bt     == IF newer THEN second.ba ELSE first.ba
            C      == {l + 1 : l \in {k \in Logic : n2.map[k] >= 0}}
                        \cup IF \A k \in Logic : n2.map[k] < 0
                             THEN {MgmtStart} ELSE {}
            L      == [n2 EXCEPT
                         !.main = first.ba,
                         !.backup = second.ba,
                         !.top = TopBelow(bt),
                         !.mapba = 1 + IF second.ba = 0 THEN first.ba ELSE second.ba,
                         !.count = Max(C)]
<1>1. LoadTables = IF first.ba = 0 THEN first.n ELSE L
  BY DEF LoadTables
<1>2. flash \in [Blocks -> Content] /\ MgmtStart \in Nat /\ MgmtStart > 0
  BY Sizes DEF TypeInv, Types
<1>3. Copies \subseteq Nat /\ \A b \in Copies : MgmtStart <= b /\ b # 0 /\ b \in Nat
  BY <1>2, CopiesAre, Sizes DEF InOrder
<1>4. /\ first.ba = IF Copies = {} THEN 0 ELSE Min(Copies)
      /\ first.n \in NiType /\ first.n.main = 0
  <2>1. \A b \in Copies : FreshInstance.state[b] = "GOOD"
    BY CopiesAre DEF FreshInstance
  <2>2. {b \in Copies : MgmtStart <= b} = Copies
    BY <1>3
  <2>3. first.ba = IF Copies = {} THEN 0 ELSE Min(Copies)
    BY <1>2, <2>1, <2>2, FreshIs, SearchSees
  <2>4. first.n \in NiType /\ first.n.main = 0
    BY <1>2, FreshIs, SearchIs DEF SamePlaces
  <2>. QED  BY <2>3, <2>4
<1>. HIDE DEF first
<1>5. CASE Copies = {}
  BY <1>1, <1>4, <1>5
<1>6. CASE Copies # {}
  <2>. DEFINE f == first.ba
              F == {b \in Copies : f + 1 <= b}
  <2>1. f \in Copies /\ f # 0 /\ f \in Nat /\ \A b \in Copies : f <= b
    BY <1>3, <1>4, <1>6, MinOf
  <2>2. flash[f] \in TableType /\ f \in Blocks
    BY <2>1, CopiesAre
  <2>3. /\ n1 \in NiType /\ n1.map = flash[f].map /\ n1.wc = flash[f].wc
        /\ n1.state = flash[f].state
    <3>1. n1 \in NiType /\ n1.map = flash[f].map /\ n1.wc = flash[f].wc
      BY <1>4, <2>2, LoadedIs
    <3>2. n1.state = flash[f].state
      BY <1>4 DEF Loaded, NiType
    <3>. QED  BY <3>1, <3>2
  <2>4. \A b \in Copies : n1.state[b] = "GOOD"
    BY <2>1, <2>3 DEF InOrder, Pair
  <2>5. f + 1 \in Nat /\ MgmtStart <= f + 1
    BY <1>2, <1>3, <2>1
  <2>. HIDE DEF n1
  <2>6. /\ second.ba = IF F = {} THEN 0 ELSE Min(F)
        /\ \E S \in SUBSET Blocks :
             /\ second.n = SetBad(n1, S)
             /\ \A c \in S : f + 1 <= c /\ (c \in mark \/ flash[c].kind = "torn")
    BY <2>3, <2>4, <2>5, SearchSees
  <2>7. PICK S \in SUBSET Blocks :
             /\ second.n = SetBad(n1, S)
             /\ \A c \in S : f + 1 <= c /\ (c \in mark \/ flash[c].kind = "torn")
    BY <2>6
  <2>. DEFINE s == second.ba
  <2>8. /\ s = 0 => Copies = {f}
        /\ s # 0 => s \in Copies /\ f < s /\ Copies = {f, s} /\ s \in Nat
    <3>1. F \subseteq Nat
      BY <1>3
    <3>2. CASE F = {}
      BY <1>3, <2>1, <2>6, <3>2
    <3>3. CASE F # {}
      <4>1. s \in F
        BY <2>6, <3>1, <3>3, MinOf
      <4>. HIDE DEF s
      <4>2. s \in Copies /\ f < s /\ s # 0 /\ s \in Nat
        <5>1. s \in Copies /\ f + 1 <= s
          BY <4>1
        <5>2. s \in Nat /\ s # 0
          BY <1>3, <5>1
        <5>. QED  BY <2>1, <5>1, <5>2
      <4>3. Copies = {f, s}
        <5>1. f # s
          BY <2>1, <4>2
        <5>2. \A a \in Copies : a = f \/ f = s \/ a = s
          BY <2>1, <4>2, Zenon DEF InOrder
        <5>. QED  BY <2>1, <4>2, <5>1, <5>2
      <4>. QED  BY <4>2, <4>3
    <3>. QED  BY <3>2, <3>3
  <2>9. /\ second.n \in NiType /\ second.n.map = n1.map /\ second.n.wc = n1.wc
        /\ \A b \in Blocks : second.n.state[b] = IF b \in S THEN "BAD" ELSE n1.state[b]
        /\ ~second.n.changed => \A b \in S : n1.state[b] = "BAD"
    <3>1. /\ second.n \in NiType /\ second.n.map = n1.map /\ second.n.wc = n1.wc
          /\ \A b \in Blocks : second.n.state[b] = IF b \in S THEN "BAD" ELSE n1.state[b]
      BY <2>3, <2>7, SetBadIs DEF SameMap
    <3>2. ~second.n.changed => \A b \in S : n1.state[b] = "BAD"
      BY <2>3, <2>7 DEF SetBad, SetState, NiType
    <3>. QED  BY <3>1, <3>2
  <2>. HIDE DEF second
  <2>10. newer <=> s # 0 /\ flash[s].wc > flash[f].wc
    BY <2>3 DEF Newer
  <2>11. bt \in Copies /\ bt = IF s # 0 /\ flash[s].wc > flash[f].wc THEN s ELSE f
    BY <2>1, <2>8, <2>10
  <2>12. /\ n2 \in NiType /\ n2.map = flash[bt].map /\ n2.wc = flash[bt].wc
         /\ \A c \in Blocks : \/ n2.state[c] = flash[bt].state[c]
                              \/ /\ n2.state[c] = "BAD" /\ bt = f /\ f < c
                                 /\ c \in mark \/ flash[c].kind = "torn"
         /\ ~n2.changed => n2.state = flash[bt].state
    <3>1. CASE newer
      <4>1. flash[s] \in TableType
        BY <2>8, <2>10, <3>1, CopiesAre
      <4>2. n2 \in NiType /\ n2.map = flash[s].map /\ n2.wc = flash[s].wc
        BY <2>9, <3>1, <4>1, LoadedIs
      <4>3. n2.state = flash[s].state
        BY <2>9, <3>1 DEF Loaded, NiType
      <4>. QED  BY <3>1, <4>2, <4>3
    <3>2. CASE ~newer
      <4>1. n2 = second.n /\ bt = f
        BY <3>2
      <4>2. \A c \in S : f < c /\ (c \in mark \/ flash[c].kind = "torn")
        BY <2>1, <2>7, Sizes
      <4>3. ASSUME ~n2.changed
            PROVE  n2.state = flash[bt].state
        <5>1. \A c \in Blocks : n2.state[c] = flash[f].state[c]
          BY <2>3, <2>9, <4>1, <4>3
        <5>2. n2.state \in [Blocks -> States] /\ flash[f].state \in [Blocks -> States]
          BY <2>2, <2>9, <4>1 DEF NiType, TableType
        <5>. QED  BY <4>1, <5>1, <5>2
      <4>. QED  BY <2>3, <2>9, <4>1, <4>2, <4>3
    <3>. QED  BY <3>1, <3>2
  <2>. HIDE DEF n2, newer, bt
  <2>13. LoadTables = L
    BY <1>1, <2>1
  <2>14. /\ L.main = f /\ L.backup = s /\ L.top = TopBelow(bt)
         /\ L.mapba = 1 + (IF s = 0 THEN f ELSE s)
         /\ L.map = n2.map /\ L.wc = n2.wc /\ L.state = n2.state /\ L.changed = n2.changed
    BY <2>12 DEF NiType
  <2>. HIDE DEF L, C
  <2>15. L.mapba <= L.top
    <3>. DEFINE m == IF s = 0 THEN f ELSE s
                T == {SigBa} \cup ({flash[bt].map[l] : l \in Logic} \cap (bt + 1)..SigBa)
    <3>1. m \in Copies /\ m \in Nat /\ m + 1 < SigBa /\ \A b \in Copies : b <= m
      BY <1>3, <2>1, <2>8 DEF InOrder
    <3>2. \A l \in Logic : flash[bt].map[l] >= MgmtStart => flash[bt].map[l] > m + 1
      BY <2>11, <3>1 DEF InOrder, Pair
    <3>3. bt \in Nat /\ MgmtStart <= bt
      BY <1>3, <2>11
    <3>4. T \subseteq Nat /\ T # {}
      BY <3>3, Sizes
    <3>5. \A y \in T : y >= m + 2
      BY <1>2, <3>1, <3>2, <3>3, Sizes
    <3>6. TopBelow(bt) = Min(T) - 1
      BY DEF TopBelow
    <3>. HIDE DEF T
    <3>7. Min(T) \in T
      BY <3>4, MinOf
    <3>8. Min(T) \in Nat /\ Min(T) >= m + 2
      BY <3>4, <3>5, <3>7
    <3>. QED  BY <2>14, <3>1, <3>6, <3>8
  <2>16. Chosen(L, bt)
    <3>1. bt = IF L.backup # 0 /\ flash[L.backup].wc > flash[L.main].wc
               THEN L.backup ELSE L.main
      BY <2>11, <2>14
    <3>2. \A c \in Blocks : \/ L.state[c] = flash[bt].state[c]
                             \/ /\ L.state[c] = "BAD" /\ bt = L.main /\ L.main < c
                                /\ c \in mark \/ flash[c].kind = "torn"
      BY <2>12, <2>14
    <3>. QED  BY <2>12, <2>14, <3>1, <3>2 DEF Chosen
  <2>. QED  BY <2>1, <2>8, <2>11, <2>13, <2>14, <2>15, <2>16
<1>. QED  BY <1>5, <1>6

(* States that age further and further.                                    *)
LEMMA AgesTrans ==
  ASSUME NEW s, NEW t, NEW u, Ages(s, t), Ages(t, u)
  PROVE  Ages(s, u)
BY DEF Ages

(* States do not age by themselves.                                        *)
LEMMA AgesRefl == \A s : Ages(s, s)
BY DEF Ages

(* The memory after nmbm_load_info_table is later than every table.        *)
LEMMA ChosenIs ==
  ASSUME TypeInv, InOrder, NEW n, n = LoadTables, NEW b \in Copies, Chosen(n, b)
  PROVE  /\ Ages(flash[b].state, n.state)
         /\ \A c \in Copies :
              /\ flash[c].wc <= n.wc /\ Ages(flash[c].state, n.state)
              /\ n.state[c] = "GOOD"
              /\ flash[c].wc = n.wc => /\ flash[c].map = n.map
                                       /\ Ages(flash[b].state, flash[c].state)
<1>1. /\ n.wc = flash[b].wc /\ n.map = flash[b].map
      /\ \A c \in Blocks : n.state[c] = flash[b].state[c] \/ n.state[c] = "BAD"
  BY DEF Chosen
<1>2. Ages(flash[b].state, n.state)
  BY <1>1 DEF Ages
<1>3. ASSUME NEW c \in Copies
      PROVE  flash[c].wc <= flash[b].wc
  <2>1. /\ n.backup = 0 => Copies = {n.main}
        /\ n.backup # 0 => Copies = {n.main, n.backup}
    BY LoadSees
  <2>2. b = IF n.backup # 0 /\ flash[n.backup].wc > flash[n.main].wc
            THEN n.backup ELSE n.main
    BY DEF Chosen
  <2>3. \A x \in Copies : flash[x].wc \in Nat
    BY CopiesAre
  <2>. QED  BY <2>1, <2>2, <2>3
<1>4. \A c \in Copies : Pair(b, c) /\ Pair(c, b)
  BY DEF InOrder
<1>5. ASSUME NEW c \in Copies
      PROVE  n.state[c] = "GOOD"
  <2>1. c \in Blocks /\ c \notin mark /\ flash[c].kind = "table"
    BY CopiesAre
  <2>2. flash[b].state[c] = "GOOD"
    BY <1>4 DEF Pair
  <2>3. n.state[c] = flash[b].state[c] \/ c \in mark \/ flash[c].kind = "torn"
    BY <2>1 DEF Chosen
  <2>. QED  BY <2>1, <2>2, <2>3
<1>6. \A c \in Copies : Ages(flash[c].state, n.state)
  <2>. SUFFICES ASSUME NEW c \in Copies PROVE Ages(flash[c].state, n.state)
    OBVIOUS
  <2>1. Ages(flash[c].state, flash[b].state)
    BY <1>3, <1>4 DEF Pair
  <2>. QED  BY <1>2, <2>1, AgesTrans
<1>7. ASSUME NEW c \in Copies, flash[c].wc = n.wc
      PROVE  flash[c].map = n.map /\ Ages(flash[b].state, flash[c].state)
  <2>1. flash[b].wc <= flash[c].wc /\ flash[b].wc = flash[c].wc
    BY <1>1, <1>7, CopiesAre
  <2>. QED  BY <1>1, <1>4, <2>1 DEF Pair
<1>. QED  BY <1>1, <1>2, <1>3, <1>5, <1>6, <1>7

(* What leads to the promises is found.                                    *)
LEMMA LeadsShows ==
  ASSUME TypeInv, InOrder, Leads
  PROVE  Survives
<1>. DEFINE n == LoadTables
<1>1. CASE Copies = {}
  <2>1. n.main = 0
    BY <1>1, LoadSees
  <2>2. \A l \in Logic : disk[l] = Any
    BY <1>1 DEF Leads
  <2>. QED  BY <2>1, <2>2 DEF Survives
<1>2. CASE Copies # {}
  <2>1. n.mapba <= n.top
    BY <1>2, LoadSees
  <2>2. PICK b \in Copies : Chosen(n, b)
    BY <1>2, LoadSees
  <2>. HIDE DEF n
  <2>3. ASSUME NEW l \in Logic, disk[l] # Any
        PROVE  n.map[l] >= 0 /\ n.state[n.map[l]] # "BAD" /\ flash[n.map[l]] = disk[l]
    <3>. DEFINE p == flash[b].map[l]
    <3>1. n.map[l] = p
      BY <2>2 DEF Chosen
    <3>2. /\ p >= 0 /\ p \notin mark /\ flash[b].state[p] # "BAD"
          /\ flash[p] = disk[l]
      BY <2>3 DEF Leads
    <3>3. p \in PhysicalOrNone /\ p \in Int
      BY CopiesAre
    <3>4. p \in Blocks
      BY <3>2, <3>3 DEF PhysicalOrNone
    <3>5. disk[l].kind # "torn"
      <4>1. disk[l] \in {Any, Erased} \cup DataType
        BY DEF TypeInv, Types
      <4>. QED  BY <4>1 DEF Any, Erased, DataType
    <3>6. n.state[p] = flash[b].state[p]
      <4>1. n.state[p] = flash[b].state[p] \/ p \in mark \/ flash[p].kind = "torn"
        BY <2>2, <3>4 DEF Chosen
      <4>. QED  BY <3>2, <3>5, <4>1
    <3>. QED  BY <3>1, <3>2, <3>6
  <2>. QED  BY <2>1, <2>3 DEF Survives, n
<1>. QED  BY <1>1, <1>2

(* While the device is up, tables agree with the memory on what was        *)
(* promised, and that is there.                                            *)
LEMMA AgreeLeads ==
  ASSUME TypeInv, Kept, Older, Agree, Copies # {}
  PROVE  Leads
<1>. SUFFICES ASSUME NEW l \in Logic, disk[l] # Any, NEW b \in Copies
              PROVE  /\ flash[b].map[l] >= 0 /\ flash[b].map[l] \notin mark
                     /\ flash[b].state[flash[b].map[l]] # "BAD"
                     /\ flash[flash[b].map[l]] = disk[l]
                     /\ \A c \in Copies : flash[c].map[l] = flash[b].map[l]
  BY DEF Leads
<1>. DEFINE p == ni.map[l]
<1>1. p \notin mark /\ \A c \in Copies : flash[c].map[l] = p
  BY DEF Agree
<1>2. p >= 0 /\ ni.state[p] # "BAD" /\ flash[p] = disk[l]
  BY DEF Kept
<1>3. p \in Blocks
  BY <1>2, Numbers DEF PhysicalOrNone
<1>4. flash[b].state[p] # "BAD"
  BY <1>2, <1>3 DEF Older, Ages
<1>. QED  BY <1>1, <1>2, <1>4

(* There is a whole table unless the only one is being written.            *)
LEMMA KeepSome ==
  ASSUME TypeInv, Safe, Up, Known, ~Exposed
  PROVE  Keep \cup New # {}
<1>1. /\ Layout /\ Ranges /\ Progress
      /\ MgmtStart > 0
  BY Sizes DEF Safe, Known
<1>2. CASE At \in {"backup_written", "one_backup", "rebuilt_backup",
                   "single_front", "single_behind"}
  <2>1. ni.main # 0
    BY <1>1, <1>2 DEF Ranges, TableReturns
  <2>. QED  BY <1>2, <2>1 DEF Keep
<1>3. CASE At \in {"tmp_written", "one_main"}
  <2>1. ni.backup # 0
    BY <1>1, <1>3 DEF Ranges
  <2>. QED  BY <1>3, <2>1 DEF Keep
<1>4. CASE At = "main_written"
  <2>1. ctl.pc \in {"table", "program", "main_written"} /\ ctl.next = "main_written"
    BY <1>1, <1>4 DEF At, Progress, TableReturns
  <2>2. ni.backup # 0
    BY <2>1 DEF Exposed
  <2>. QED  BY <1>4, <2>2 DEF Keep
<1>5. CASE At = "rescued_main"
  <2>1. ctl.tmp # 0
    BY <1>1, <1>5, Numbers, Sizes DEF Ranges
  <2>. QED  BY <1>5, <2>1 DEF Keep
<1>6. CASE At = "rebuilt_main"
  <2>1. ni.main = 0 /\ ni.backup = 0
    BY <1>1, <1>6 DEF Ranges, Progress
  <2>. QED  BY <2>1 DEF Exposed
<1>7. CASE At \notin TableReturns
  <2>1. ni.main # 0 \/ ni.backup # 0
    BY DEF Exposed
  <2>2. Keep = {ni.main, ni.backup} \ {0}
    BY <1>7 DEF Keep, TableReturns
  <2>. QED  BY <2>1, <2>2
<1>. QED  BY <1>2, <1>3, <1>4, <1>5, <1>6, <1>7 DEF TableReturns

\* The invariant
Survival == ~skipped => Tabled

(* Whenever the power goes off, the tables lead to what was promised.      *)
LEMMA SurvivalShows == TypeInv /\ Session /\ Survival => Survives
<1>. SUFFICES ASSUME TypeInv, Session, Survival, ~skipped, ~(ctl.pc # "off" /\ Exposed)
              PROVE  Survives
  BY DEF Survives
<1>1. Safe /\ Tabled /\ InOrder
  BY DEF Session, Survival, Tabled
<1>2. CASE ctl.pc = "off"
  BY <1>1, <1>2, LeadsShows DEF Tabled
<1>3. CASE ctl.pc = "dead"
  BY <1>1, <1>3 DEF Tabled, Exposed
<1>4. CASE Up
  <2>1. Known /\ Kept /\ Older /\ Agree /\ Whole
    BY <1>1, <1>4 DEF Tabled, Safe, Known
  <2>2. ~Exposed
    BY <1>4 DEF Up
  <2>3. Copies # {}
    BY <1>1, <1>4, <2>1, <2>2, KeepSome DEF Whole
  <2>. QED  BY <1>1, <2>1, <2>3, AgreeLeads, LeadsShows
<1>. QED  BY <1>2, <1>3, <1>4 DEF Up

-----------------------------------------------------------------------------
(* Every step keeps the tables                                             *)

(* What a step leaves alone.                                               *)
LEMMA Shrink ==
  ASSUME InOrder, Copies' \subseteq Copies, mark \subseteq mark',
         \A b \in Copies' : flash'[b] = flash[b]
  PROVE  InOrder'
<1>1. \A b \in Copies' : MgmtStart <= b /\ b + 1 < SigBa
  BY DEF InOrder
<1>2. \A a, b, c \in Copies' : a = b \/ b = c \/ a = c
  BY DEF InOrder
<1>3. ASSUME NEW b \in Copies', NEW c \in Copies'
      PROVE  Pair(b, c)'
  <2>1. Pair(b, c) /\ flash'[b] = flash[b] /\ flash'[c] = flash[c]
    BY DEF InOrder
  <2>. QED  BY <2>1 DEF Pair, Low
<1>. QED  BY <1>1, <1>2, <1>3 DEF InOrder

(* A step in memory.                                                       *)
LEMMA SameFlash ==
  ASSUME flash' = flash, mark' = mark
  PROVE  Copies' = Copies /\ (InOrder => InOrder')
<1>1. Copies' = Copies
  BY DEF Copies
<1>. QED  BY <1>1, Shrink

(* Tables that stay lie below the top and outside the range at work.       *)
LEMMA KeepIs ==
  ASSUME TypeInv, Safe, Up, Progress
  PROVE  /\ \A c \in Keep : c \in Nat /\ c < ni.top /\ c # 0
         /\ ctl.pc = "range" => \A c \in Keep : c < ctl.ba \/ ctl.limit <= c
         /\ At \in TableReturns => \A c, d \in Keep : c = d
         /\ At \in Front => \A c \in Keep : ctl.limit <= c
         /\ At \in TableReturns \ Front => \A c \in Keep : c < ctl.ba /\ c = Floor
<1>1. /\ Layout /\ Ranges
      /\ MgmtStart > 0 /\ MgmtStart \in Nat
      /\ ni.main \in Nat /\ ni.backup \in Nat /\ ni.mapba \in Nat /\ ni.top \in Nat
      /\ ctl.ba \in Nat /\ ctl.limit \in Nat /\ ctl.wba \in Nat /\ ctl.tmp \in Nat
  BY Sizes, Numbers DEF Safe
<1>2. CASE At \in {"backup_written", "one_backup", "rebuilt_backup", "single_behind"}
  <2>1. Keep = {ni.main} \ {0} /\ Floor = ni.main /\ ctl.pc # "range"
    BY <1>2 DEF Keep, Floor, Front, At
  <2>2. ni.main # 0 /\ ni.main < ni.mapba /\ ni.mapba <= ni.top
    BY <1>1, <1>2 DEF Layout, Ranges, TableReturns
  <2>3. ni.main < ctl.ba
    <3>1. CASE At \in {"backup_written", "one_backup"}
      BY <1>1, <3>1 DEF Layout, Ranges
    <3>2. CASE At = "rebuilt_backup"
      BY <1>1, <3>2 DEF Ranges
    <3>3. CASE At = "single_behind"
      <4>1. ni.mapba <= ctl.wba /\ ctl.wba <= ctl.ba
        BY <1>1, <3>3 DEF Ranges
      <4>. QED  BY <1>1, <2>2, <4>1
    <3>. QED  BY <1>2, <3>1, <3>2, <3>3
  <2>. QED  BY <1>1, <1>2, <2>1, <2>2, <2>3 DEF Front
<1>3. CASE At = "single_front"
  <2>1. Keep = {ni.main} \ {0} /\ ctl.pc # "range"
    BY <1>3 DEF Keep, At
  <2>2. /\ ni.main # 0 /\ ni.main < ni.mapba /\ ni.mapba <= ni.top
        /\ ctl.limit <= ni.main
    BY <1>1, <1>3 DEF Layout, Ranges, TableReturns
  <2>. QED  BY <1>1, <1>3, <2>1, <2>2 DEF Front
<1>4. CASE At \in {"main_written", "one_main"}
  <2>1. Keep = {ni.backup} \ {0} /\ ctl.pc # "range"
    BY <1>4 DEF Keep, At
  <2>2. ni.backup # 0 => /\ ni.backup < ni.mapba /\ ni.mapba <= ni.top
                         /\ ctl.limit <= ni.backup
    BY <1>1, <1>4 DEF Layout, Ranges
  <2>. QED  BY <1>1, <1>4, <2>1, <2>2 DEF Front
<1>5. CASE At = "tmp_written"
  <2>1. Keep = {ni.backup} \ {0} /\ Floor = ni.backup /\ ctl.pc # "range"
    BY <1>5 DEF Keep, Floor, Front, At
  <2>2. /\ ni.backup # 0 /\ ni.backup < ni.mapba /\ ni.mapba <= ni.top
        /\ ni.mapba <= ctl.wba /\ ctl.wba <= ctl.ba
    BY <1>1, <1>5 DEF Layout, Ranges
  <2>. QED  BY <1>1, <1>5, <2>1, <2>2 DEF Front
<1>6. CASE At = "rescued_main"
  <2>1. Keep = {ctl.tmp} \ {0} /\ ctl.pc # "range"
    BY <1>6 DEF Keep, At
  <2>2. ctl.limit <= ctl.tmp /\ ctl.tmp < ni.mapba /\ ni.mapba <= ni.top
    BY <1>1, <1>6 DEF Layout, Ranges
  <2>. QED  BY <1>1, <1>6, <2>1, <2>2 DEF Front
<1>7. CASE At = "rebuilt_main"
  <2>1. Keep = {} /\ ctl.pc # "range"
    BY <1>7 DEF Keep, At
  <2>. QED  BY <2>1
<1>8. CASE At \notin TableReturns
  <2>1. Keep = {ni.main, ni.backup} \ {0}
    BY <1>8 DEF Keep, TableReturns
  <2>2. \A c \in Keep : c \in Nat /\ c < ni.top /\ c # 0
    BY <1>1, <2>1 DEF Layout
  <2>3. ctl.pc = "range" => ni.main < ctl.ba /\ ctl.limit <= ni.backup
    BY DEF Progress
  <2>4. At \notin Front
    BY <1>8 DEF Front, TableReturns
  <2>. QED  BY <1>8, <2>1, <2>2, <2>3, <2>4
<1>. QED  BY <1>2, <1>3, <1>4, <1>5, <1>6, <1>7, <1>8 DEF TableReturns

\* Not both an operation on a block and the marking of the block fail
MarksWork == fails' <= fails + 1

(* A block that failed holds nothing that is ever read again.              *)
LEMMA FailsMarked ==
  ASSUME TypeInv, NEW b \in Blocks, BlockFails(b), MarksWork
  PROVE  mark' = mark \cup {b} /\ flash' = [flash EXCEPT ![b] = Torn]
<1>1. fails \in Int
  BY NmbmAssumption DEF TypeInv, Types
<1>2. mark' = mark \cup {b}
  BY <1>1 DEF BlockFails, MarkBlock, MarksWork
<1>3. {b} \ mark' = {}
  BY <1>2
<1>. QED  BY <1>2, <1>3 DEF BlockFails

(* Blocks of the management area are not users'.                           *)
LEMMA AreaFree ==
  ASSUME TypeInv, Safe, Up, NEW b \in Nat, MgmtStart <= b, b <= ni.top
  PROVE  \A l \in Logic : ni.map[l] # b
<1>1. Separate /\ ni.top \in Nat /\ MgmtStart \in Nat
  BY Numbers, Sizes DEF Safe
<1>2. \A l \in Logic : ni.map[l] \in Int
  BY Numbers
<1>. QED  BY <1>1, <1>2 DEF Separate

(* A step in which blocks were only marked, and tables only lost.          *)
LEMMA Aging ==
  ASSUME TypeInv, Tabled, Up,
         Copies' \subseteq Copies, \A c \in Copies' : flash'[c] = flash[c],
         mark \subseteq mark', SameMap(ni, ni'), ni'.wc = ni.wc, disk' = disk,
         \A c \in Blocks : \/ ni'.state[c] = ni.state[c]
                           \/ ni'.state[c] = "BAD" /\ c \in mark',
         \A l \in Logic : disk[l] # Any => ni.map[l] \notin mark'
  PROVE  /\ InOrder' /\ Older' /\ Agree'
         /\ \A f : Low(ni.state, f) => Low(ni.state, f)'
         /\ Writing /\ ctl'.cache = ctl.cache /\ New' = {} => Cached'
<1>1. /\ InOrder /\ Older /\ Agree /\ (Writing => Cached)
      /\ ni'.map = ni.map /\ ni'.count = ni.count
  BY DEF Tabled, Known, SameMap
<1>2. InOrder'
  BY <1>1, Shrink
<1>3. Ages(ni.state, ni'.state)
  BY DEF Ages
<1>4. \A c \in Copies' : c \notin mark' /\ c \in Blocks
  BY DEF Copies
<1>5. Older'
  <2>. SUFFICES ASSUME NEW b \in Copies'
                PROVE  /\ ni'.state[b] = "GOOD" /\ Ages(flash'[b].state, ni'.state)
                       /\ flash'[b].wc <= ni'.wc
    BY DEF Older, Ages
  <2>1. /\ ni.state[b] = "GOOD" /\ Ages(flash[b].state, ni.state)
        /\ flash[b].wc <= ni.wc /\ flash'[b] = flash[b]
    BY <1>1 DEF Older
  <2>. QED  BY <1>3, <1>4, <2>1, AgesTrans
<1>6. Agree'
  BY <1>1 DEF Agree
<1>7. \A f : Low(ni.state, f) => Low(ni.state, f)'
  BY DEF Low
<1>8. ASSUME Writing, ctl'.cache = ctl.cache, New' = {}
      PROVE  Cached'
  <2>1. Cached
    BY <1>1, <1>8
  <2>2. Ages(ctl.cache.state, ni'.state)
    BY <1>3, <2>1, AgesTrans DEF Cached
  <2>3. \A c \in Blocks : ni'.state[c] # "GOOD" => c \in mark' \/ ctl.cache.state[c] # "GOOD"
    BY <2>1 DEF Cached
  <2>. QED  BY <1>1, <1>8, <2>1, <2>2, <2>3 DEF Cached, Ages
<1>. QED  BY <1>2, <1>5, <1>6, <1>7, <1>8

(* A block of the range at work was erased, or has failed.                 *)
LEMMA BlockStep ==
  ASSUME TypeInv, Safe, Tabled, ctl.pc \in {"table", "program"},
         NEW b \in Blocks, ctl.ba <= b, b < ctl.limit,
         \A c \in Copies : c \in Keep \/ c = b,
         \A c \in Blocks : ctl.ba <= c /\ c < b => c \in mark \/ ni.state[c] # "GOOD",
         flash' = [flash EXCEPT ![b] = Erased] \/ flash' = [flash EXCEPT ![b] = Torn],
         mark \subseteq mark', mark' \subseteq mark \cup {b},
         SameMap(ni, ni'), SamePlaces(ni, ni'), ni'.wc = ni.wc, disk' = disk,
         \A c \in Blocks : \/ ni'.state[c] = ni.state[c]
                           \/ ni'.state[c] = "BAD" /\ c \in mark',
         SameCaller(ctl, ctl'), ctl'.limit = ctl.limit, ctl'.next = ctl.next,
         \/ ctl'.pc = "program" /\ ctl'.ba = b /\ b \notin mark' /\ ni'.state[b] = "GOOD"
         \/ ctl'.pc = "table" /\ ctl'.ba = b + 1 /\ b \in mark'
  PROVE  Tabled'
<1>1. /\ Up /\ Up' /\ Writing /\ Writing' /\ New = {} /\ New' = {}
      /\ ctl.next \in TableReturns /\ At = ctl.next /\ At' = At
      /\ ctl'.pc # "off" /\ ctl'.pc # "dead" /\ ctl'.pc \notin TableReturns
      /\ ctl'.pc # "range"
  BY DEF Up, Writing, New, At, TypeInv, Control, TableReturns
<1>2. /\ Layout /\ Ranges /\ Separate
      /\ Whole /\ Progress /\ Agree /\ Placed /\ Current /\ Ahead
  BY <1>1 DEF Safe, Tabled, Known
<1>3. /\ ni'.main = ni.main /\ ni'.backup = ni.backup /\ ni'.top = ni.top
      /\ ni'.prot = ni.prot /\ ni'.map = ni.map /\ ctl'.tmp = ctl.tmp
      /\ ctl'.cache = ctl.cache
  BY DEF SamePlaces, SameMap, SameCaller
<1>4. Keep' = Keep
  BY <1>1, <1>3 DEF Keep
<1>5. ctl.ba \in Nat /\ b \in Nat /\ MgmtStart \in Nat /\ ctl.limit \in Nat /\ ni.top \in Nat
  BY Numbers, Sizes
<1>6. b \notin Keep
  BY <1>1, <1>2, <1>5, KeepIs, SMTT(20)
<1>7. /\ Copies' = Keep
      /\ \A c \in Keep : flash'[c] = flash[c] /\ c \in Copies
  <2>1. Keep \subseteq Copies
    BY <1>1, <1>2 DEF Whole
  <2>2. flash \in [Blocks -> Content]
    BY DEF TypeInv, Types
  <2>3. flash'[b].kind # "table" /\ \A c \in Blocks : c # b => flash'[c] = flash[c]
    BY <2>2 DEF Erased, Torn
  <2>4. \A c \in Copies' : c \in Copies /\ c # b
    BY <2>3 DEF Copies
  <2>5. \A c \in Keep : c \in Copies' /\ flash'[c] = flash[c]
    BY <1>6, <2>1, <2>3 DEF Copies
  <2>. QED  BY <2>1, <2>4, <2>5
<1>8. \A l \in Logic : disk[l] # Any => ni.map[l] \notin mark'
  <2>1. MgmtStart <= b /\ b <= ni.top
    BY <1>1, <1>2, <1>5, Numbers DEF Ranges
  <2>2. \A l \in Logic : ni.map[l] # b
    BY <1>1, <1>5, <2>1, AreaFree
  <2>. QED  BY <1>2, <2>2 DEF Agree
<1>9. /\ InOrder' /\ Older' /\ Agree' /\ Cached'
      /\ \A f : Low(ni.state, f) => Low(ni.state, f)'
  BY <1>1, <1>3, <1>7, <1>8, Aging
<1>10. Whole'
  BY <1>1, <1>4, <1>7 DEF Whole
<1>11. Progress'
  BY <1>1, <1>2, <1>3 DEF Progress, TableReturns
<1>12. Ahead'
  <2>1. ASSUME At \in Front, NEW k \in Keep, NEW c \in Blocks, c < ctl.limit,
               ni'.state[c] # "GOOD"
        PROVE  c \in mark' \/ flash'[k].state[c] # "GOOD"
    <3>1. ni.state[c] # "GOOD" => c \in mark \/ flash[k].state[c] # "GOOD"
      BY <1>2, <2>1 DEF Ahead
    <3>. QED  BY <1>7, <2>1, <3>1
  <2>. QED  BY <1>1, <1>3, <1>4, <2>1 DEF Ahead
<1>13. Placed'
  <2>1. CASE At \in Front
    <3>1. Floor = ctl.ba /\ Floor' = ctl'.ba /\ Low(ni.state, ctl.ba)
      BY <1>1, <1>2, <2>1 DEF Floor, Placed, TableReturns
    <3>2. ASSUME NEW c \in Blocks, MgmtStart <= c, c < ctl'.ba
          PROVE  c \in mark' \/ ni'.state[c] # "GOOD"
      <4>1. c \in Nat
        BY Sizes
      <4>2. CASE c < ctl.ba
        <5>1. c \in mark \/ ni.state[c] # "GOOD"
          BY <3>1, <3>2, <4>2 DEF Low
        <5>. QED  BY <5>1
      <4>3. CASE ctl.ba <= c /\ c < b
        <5>1. c \in mark \/ ni.state[c] # "GOOD"
          BY <4>3
        <5>. QED  BY <5>1
      <4>4. CASE c = b
        BY <1>5, <3>2, <4>4
      <4>. QED  BY <1>5, <3>2, <4>1, <4>2, <4>3, <4>4
    <3>3. Low(ni.state, Floor)'
      BY <3>1, <3>2 DEF Low
    <3>4. ASSUME NEW k \in Keep
          PROVE  Low(flash[k].state, Floor)' /\ TopFree(k)'
      <4>1. \A c \in Blocks : c < ctl.limit /\ ni'.state[c] # "GOOD" =>
               c \in mark' \/ flash'[k].state[c] # "GOOD"
        BY <1>1, <1>3, <1>4, <1>12, <2>1 DEF Ahead
      <4>2. ctl'.ba <= ctl.limit /\ ctl'.ba \in Nat
        BY <1>5
      <4>3. \A c \in Blocks : c < ctl'.ba => c < ctl.limit
        BY <1>5, <4>2, Sizes
      <4>4. Low(flash[k].state, Floor)'
        BY <3>1, <3>2, <4>1, <4>3 DEF Low
      <4>5. TopFree(k)'
        BY <1>2, <1>3, <1>7 DEF Placed, TopFree
      <4>. QED  BY <4>4, <4>5
    <3>. QED  BY <1>4, <3>3, <3>4 DEF Placed
  <2>2. CASE At \notin Front
    <3>1. Floor' = Floor
      BY <1>1, <1>3, <2>2 DEF Floor
    <3>2. Low(ni.state, Floor)'
      BY <1>2, <1>9, <3>1 DEF Placed
    <3>3. ASSUME NEW k \in Keep
          PROVE  Low(flash[k].state, Floor)' /\ TopFree(k)'
      <4>1. Low(flash[k].state, Floor) /\ TopFree(k) /\ flash'[k] = flash[k]
        BY <1>2, <1>7 DEF Placed
      <4>. QED  BY <1>3, <3>1, <4>1 DEF Low, TopFree
    <3>. QED  BY <1>4, <3>2, <3>3 DEF Placed
  <2>. QED  BY <2>1, <2>2
<1>14. Current'
  <2>1. At # "update" /\ At # "create"
    BY <1>1 DEF TableReturns
  <2>. QED  BY <1>1, <1>2, <1>3, <1>4, <1>7, <2>1 DEF Current, Synced
<1>. QED  BY <1>1, <1>9, <1>10, <1>11, <1>12, <1>13, <1>14 DEF Tabled, Known

(* The first block of the range that can be used, and those before it.     *)
LEMMA FirstUsable ==
  ASSUME TypeInv, Usable # {}
  PROVE  LET b == Min(Usable)
         IN  /\ b \in Blocks /\ ctl.ba <= b /\ b < ctl.limit /\ b \in Usable
             /\ b \notin mark /\ ni.state[b] = "GOOD" /\ b \notin PassedOver(b)
             /\ \A u \in Usable : b <= u
             /\ \A c \in Blocks : ctl.ba <= c /\ c < b => c \in mark \/ ni.state[c] # "GOOD"
<1>. DEFINE b == Min(Usable)
<1>1. b \in Blocks /\ ctl.ba <= b /\ b < ctl.limit
  BY UsableIs DEF TypeInv
<1>2. ctl.ba \in Nat /\ ctl.limit \in Nat
  BY Numbers
<1>3. Usable \subseteq Nat
  BY <1>2 DEF Usable, Good
<1>4. b \in Usable /\ \A u \in Usable : b <= u
  BY <1>3, MinOf
<1>. HIDE DEF b
<1>5. b \notin mark /\ ni.state[b] = "GOOD"
  BY <1>4 DEF Usable, Good
<1>6. b \notin PassedOver(b)
  BY <1>5 DEF PassedOver
<1>7. ASSUME NEW c \in Blocks, ctl.ba <= c, c < b
      PROVE  c \in mark \/ ni.state[c] # "GOOD"
  <2>1. c \in Nat /\ b \in Nat
    BY <1>1, Sizes
  <2>2. c \notin Usable
    BY <1>4, <1>7, <2>1
  <2>3. c \in ctl.ba..(ctl.limit - 1)
    BY <1>1, <1>2, <1>7, <2>1
  <2>. QED  BY <2>2, <2>3 DEF Usable, Good
<1>. QED  BY <1>1, <1>4, <1>5, <1>6, <1>7 DEF b

(* nmbm_write_info_table erases a block.                                   *)
LEMMA TableEraseTables ==
  ASSUME TypeInv, Safe, Tabled, MarksWork, TableErase
  PROVE  Tabled'
<1>. DEFINE b == Min(Usable)
            n == SetBad(ni, PassedOver(b))
<1>1. ctl.pc = "table" /\ Usable # {} /\ disk' = disk
  BY DEF TableErase, ghosts
<1>2. /\ b \in Blocks /\ ctl.ba <= b /\ b < ctl.limit
      /\ b \notin mark /\ ni.state[b] = "GOOD" /\ b \notin PassedOver(b)
      /\ b \in Usable /\ \A u \in Usable : b <= u
      /\ \A c \in Blocks : ctl.ba <= c /\ c < b => c \in mark \/ ni.state[c] # "GOOD"
  BY <1>1, FirstUsable
<1>3. PassedOver(b) \subseteq mark
  BY DEF PassedOver
<1>4. ni \in NiType /\ ctl \in CtlType
  BY DEF TypeInv, Types
<1>5. /\ n \in NiType /\ SameMap(ni, n) /\ SamePlaces(ni, n) /\ n.wc = ni.wc
      /\ \A c \in Blocks : n.state[c] = IF c \in PassedOver(b) THEN "BAD" ELSE ni.state[c]
  BY <1>4, SetBadIs
<1>6. \/ /\ flash' = [flash EXCEPT ![b] = Erased]
         /\ ni' = n
         /\ ctl' = [ctl EXCEPT !.pc = "program", !.ba = b]
         /\ mark' = mark
      \/ /\ BlockFails(b)
         /\ ni' = SetBad(n, {b})
         /\ ctl' = [ctl EXCEPT !.ba = b + 1]
  BY DEF TableErase
<1>. HIDE DEF b, n
<1>7. \A c \in Copies : c \in Keep \/ c = b
  <2>1. Whole /\ New = {}
    BY <1>1 DEF Tabled, Known, Up, New, TableReturns
  <2>2. ASSUME NEW c \in Copies, c \notin Keep
        PROVE  c = b
    <3>1. c \in Usable /\ \A u \in Usable : c <= u
      BY <2>1, <2>2 DEF Whole
    <3>2. c <= b /\ b <= c /\ c \in Nat /\ b \in Nat
      BY <1>2, <3>1, CopiesAre, Sizes
    <3>. QED  BY <3>2
  <2>. QED  BY <2>2
<1>8. CASE /\ flash' = [flash EXCEPT ![b] = Erased]
           /\ ni' = n
           /\ ctl' = [ctl EXCEPT !.pc = "program", !.ba = b]
           /\ mark' = mark
  <2>1. /\ SameCaller(ctl, ctl') /\ ctl'.limit = ctl.limit /\ ctl'.next = ctl.next
        /\ ctl'.pc = "program" /\ ctl'.ba = b
    BY <1>4, <1>8 DEF CtlType, SameCaller
  <2>2. \A c \in Blocks : \/ ni'.state[c] = ni.state[c]
                          \/ ni'.state[c] = "BAD" /\ c \in mark'
    BY <1>3, <1>5, <1>8
  <2>3. ni'.state[b] = "GOOD" /\ b \notin mark'
    BY <1>2, <1>5, <1>8
  <2>4. SameMap(ni, ni') /\ SamePlaces(ni, ni') /\ ni'.wc = ni.wc
    BY <1>5, <1>8
  <2>. QED  BY <1>1, <1>2, <1>7, <1>8, <2>1, <2>2, <2>3, <2>4, BlockStep
<1>9. CASE /\ BlockFails(b)
           /\ ni' = SetBad(n, {b})
           /\ ctl' = [ctl EXCEPT !.ba = b + 1]
  <2>1. /\ SameCaller(ctl, ctl') /\ ctl'.limit = ctl.limit /\ ctl'.next = ctl.next
        /\ ctl'.pc = "table" /\ ctl'.ba = b + 1
    BY <1>1, <1>4, <1>9 DEF CtlType, SameCaller
  <2>2. mark' = mark \cup {b} /\ flash' = [flash EXCEPT ![b] = Torn]
    BY <1>2, <1>9, FailsMarked
  <2>3. /\ SameMap(n, ni') /\ SamePlaces(n, ni') /\ ni'.wc = n.wc
        /\ \A c \in Blocks : ni'.state[c] = IF c \in {b} THEN "BAD" ELSE n.state[c]
    BY <1>5, <1>9, SetBadIs
  <2>4. \A c \in Blocks : \/ ni'.state[c] = ni.state[c]
                          \/ ni'.state[c] = "BAD" /\ c \in mark'
    BY <1>3, <1>5, <2>2, <2>3
  <2>5. SameMap(ni, ni') /\ SamePlaces(ni, ni') /\ ni'.wc = ni.wc
    BY <1>5, <2>3 DEF SameMap, SamePlaces
  <2>6. mark \subseteq mark' /\ mark' \subseteq mark \cup {b} /\ b \in mark'
    BY <2>2
  <2>. QED  BY <1>1, <1>2, <1>7, <2>1, <2>2, <2>4, <2>5, <2>6, BlockStep
<1>. QED  BY <1>6, <1>8, <1>9

(* nmbm_write_info_table programs a block it has erased.                   *)
LEMMA TableProgramTables ==
  ASSUME TypeInv, Safe, Tabled, MarksWork, TableProgram
  PROVE  Tabled'
<1>0. PICK b : b = ctl.ba
  OBVIOUS
<1>1. /\ ctl.pc = "program" /\ disk' = disk
      /\ ctl \in CtlType /\ ni \in NiType /\ flash \in [Blocks -> Content]
      /\ ctl.next \in TableReturns /\ b < ctl.limit
  BY <1>0 DEF TableProgram, ghosts, TypeInv, Types, Control
<1>2. /\ b \in Nat /\ ctl.limit \in Nat /\ ni.top \in Nat /\ MgmtStart \in Nat
      /\ b \in Blocks
  BY <1>0, <1>1, Numbers, Sizes DEF CtlType, Blocks
<1>3. /\ Up /\ Writing /\ New = {} /\ At = ctl.next
      /\ At # "update" /\ At # "create" /\ At # "range" /\ At \in TableReturns
  BY <1>1 DEF Up, Writing, New, At, TableReturns
<1>4. /\ Layout /\ Ranges /\ Separate
      /\ InOrder /\ Whole /\ Progress /\ Older /\ Agree /\ Placed /\ Current
      /\ Cached /\ Ahead
  BY <1>3 DEF Safe, Tabled, Known
<1>5. Copies = Keep /\ b \notin mark /\ ni.state[b] = "GOOD"
  BY <1>0, <1>1, <1>3, <1>4 DEF Whole, Progress
<1>6. \/ /\ flash' = [flash EXCEPT ![b] = ctl.cache]
         /\ ctl' = [ctl EXCEPT !.pc = ctl.next, !.ok = TRUE]
         /\ UNCHANGED <<ni, mark>>
      \/ /\ BlockFails(b)
         /\ ni' = SetBad(ni, {b})
         /\ ctl' = [ctl EXCEPT !.pc = "table", !.ba = b + 1]
  BY <1>0, <1>1 DEF TableProgram, CtlType
<1>7. CASE /\ BlockFails(b)
           /\ ni' = SetBad(ni, {b})
           /\ ctl' = [ctl EXCEPT !.pc = "table", !.ba = b + 1]
  <2>1. /\ SameCaller(ctl, ctl') /\ ctl'.limit = ctl.limit /\ ctl'.next = ctl.next
        /\ ctl'.pc = "table" /\ ctl'.ba = b + 1
    BY <1>1, <1>7 DEF CtlType, SameCaller
  <2>2. mark' = mark \cup {b} /\ flash' = [flash EXCEPT ![b] = Torn]
    BY <1>2, <1>7, FailsMarked
  <2>3. /\ SameMap(ni, ni') /\ SamePlaces(ni, ni') /\ ni'.wc = ni.wc
        /\ \A c \in Blocks : ni'.state[c] = IF c \in {b} THEN "BAD" ELSE ni.state[c]
    BY <1>1, <1>7, SetBadIs
  <2>4. \A c \in Blocks : \/ ni'.state[c] = ni.state[c]
                          \/ ni'.state[c] = "BAD" /\ c \in mark'
    BY <2>2, <2>3
  <2>5. mark \subseteq mark' /\ mark' \subseteq mark \cup {b} /\ b \in mark'
    BY <2>2
  <2>6. ctl.ba <= b /\ \A c \in Blocks : ~(ctl.ba <= c /\ c < b)
    BY <1>0, <1>2, Sizes
  <2>. QED  BY <1>1, <1>2, <1>5, <2>1, <2>2, <2>3, <2>4, <2>5, <2>6, BlockStep
<1>8. CASE /\ flash' = [flash EXCEPT ![b] = ctl.cache]
           /\ ctl' = [ctl EXCEPT !.pc = ctl.next, !.ok = TRUE]
           /\ UNCHANGED <<ni, mark>>
  <2>1. /\ ctl'.pc = ctl.next /\ ctl'.ok /\ ctl'.ba = b /\ ctl'.limit = ctl.limit
        /\ ctl'.next = ctl.next /\ ctl'.tmp = ctl.tmp /\ ctl'.cache = ctl.cache
        /\ ctl'.ret = ctl.ret
    BY <1>0, <1>1, <1>8 DEF CtlType
  <2>2. /\ At' = At /\ New' = {b} /\ Up' /\ Writing' /\ ctl'.pc \in TableReturns
        /\ ctl'.pc # "off" /\ ctl'.pc # "dead" /\ ctl'.pc # "range"
        /\ ctl'.pc # "program" /\ ctl'.pc # "created" /\ ctl'.pc = ctl'.next
    BY <1>1, <1>3, <2>1 DEF At, New, Up, Writing, TableReturns
  <2>3. Keep' = Keep
    BY <1>8, <2>1, <2>2 DEF Keep
  <2>4. Floor' = Floor
    BY <1>0, <1>1, <1>3, <1>8, <2>1, <2>2 DEF Floor, TableReturns
  <2>5. /\ \A c \in Keep : c \in Nat /\ c < ni.top /\ c # b
        /\ \A c, d \in Keep : c = d
        /\ At \in Front => Floor = b /\ \A c \in Keep : b < c
        /\ At \notin Front => \A c \in Keep : c < b /\ c = Floor
    <3>1. /\ \A c \in Keep : c \in Nat /\ c < ni.top
          /\ \A c, d \in Keep : c = d
          /\ At \in Front => \A c \in Keep : ctl.limit <= c
          /\ At \notin Front => \A c \in Keep : c < b /\ c = Floor
      BY <1>0, <1>3, <1>4, KeepIs
    <3>2. At \in Front => Floor = b
      BY <1>0, <1>1 DEF Floor, TableReturns
    <3>3. At \in Front => \A c \in Keep : b < c
      BY <1>1, <1>2, <3>1
    <3>. QED  BY <1>2, <3>1, <3>2, <3>3
  <2>6. /\ flash'[b] = ctl.cache
        /\ \A c \in Blocks : c # b => flash'[c] = flash[c]
        /\ \A c \in Keep : flash'[c] = flash[c] /\ c \in Copies /\ c \in Blocks
    BY <1>1, <1>2, <1>5, <1>8, <2>5, CopiesAre
  <2>7. Copies' = Keep \cup {b}
    <3>1. ctl.cache.kind = "table"
      BY <1>4 DEF Cached
    <3>2. \A c \in Blocks : c \in Copies' <=> c \in Copies \/ c = b
      BY <1>2, <1>5, <1>8, <2>6, <3>1 DEF Copies
    <3>3. Copies' \subseteq Blocks /\ Copies \subseteq Blocks
      BY DEF Copies
    <3>. QED  BY <1>2, <1>5, <3>2, <3>3
  <2>8. /\ MgmtStart <= b /\ b + 1 <= ni.top /\ b + 1 < SigBa
    <3>1. MgmtStart <= b /\ ctl.limit <= ni.top
      BY <1>0, <1>1, <1>4 DEF Ranges
    <3>2. ctl.limit < SigBa
      BY <1>1, Sizes DEF CtlType, Blocks
    <3>. QED  BY <1>1, <1>2, <3>1, <3>2, Sizes
  <2>. DEFINE t == ctl.cache
  <2>9. /\ t.wc = ni.wc /\ t.map = ni.map /\ Ages(t.state, ni.state) /\ t.wc \in Nat
        /\ \A c \in Blocks : ni.state[c] # "GOOD" => c \in mark \/ t.state[c] # "GOOD"
        /\ Low(t.state, Floor)
    <3>1. /\ t.wc = ni.wc /\ t.map = ni.map /\ Ages(t.state, ni.state)
          /\ \A c \in Blocks : ni.state[c] # "GOOD" => c \in mark \/ t.state[c] # "GOOD"
      BY <1>4 DEF Cached
    <3>2. Low(t.state, Floor)
      BY <1>4, <3>1 DEF Placed, Low
    <3>3. ni.wc \in Nat
      BY <1>1 DEF NiType
    <3>. QED  BY <3>1, <3>2, <3>3
  <2>10. \A l \in Logic : t.map[l] >= MgmtStart => t.map[l] > ni.top
    BY <1>4, <2>9 DEF Separate
  <2>11. \A l \in Logic : t.map[l] \in Int
    BY <2>9, Numbers
  <2>. HIDE DEF t
  <2>12. ASSUME NEW c \in Keep
         PROVE  /\ Pair(c, c)' /\ Pair(c, b)' /\ Pair(b, c)'
    <3>1. /\ flash'[c] = flash[c] /\ flash'[b] = t /\ mark' = mark
          /\ c \in Copies /\ c \in Blocks /\ c \in Nat /\ c + 1 <= ni.top
      BY <1>2, <1>8, <2>5, <2>6 DEF t
    <3>2. Pair(c, c)'
      <4>1. Pair(c, c)
        BY <3>1, <1>4 DEF InOrder
      <4>. QED  BY <3>1, <4>1 DEF Pair, Low
    <3>3. /\ ni.state[c] = "GOOD" /\ Ages(flash[c].state, ni.state)
          /\ flash[c].wc <= ni.wc /\ flash[c].wc \in Nat
          /\ \A l \in Logic : flash[c].map[l] \in Int
      BY <1>4, <3>1, CopiesAre DEF Older
    <3>4. /\ Ages(flash[c].state, t.state)
          /\ flash[c].wc = t.wc => flash[c].map = t.map /\ Ages(t.state, flash[c].state)
      BY <1>4, <3>1 DEF Cached, t
    <3>5. flash[c].state[b] = "GOOD" /\ t.state[c] = "GOOD"
      BY <1>2, <1>5, <2>9, <3>1, <3>3 DEF Ages
    <3>6. \A l \in Logic : flash[c].map[l] >= MgmtStart => flash[c].map[l] > b + 1
      BY <1>2, <1>4, <2>8, <3>3 DEF Placed, TopFree
    <3>7. \A l \in Logic : t.map[l] >= MgmtStart => t.map[l] > c + 1
      BY <1>2, <2>10, <2>11, <3>1
    <3>8. Low(flash[c].state, Floor) /\ Low(t.state, Floor)
      BY <1>4, <2>9 DEF Placed
    <3>9. c < b => c = Floor
      BY <1>2, <2>5, <3>1
    <3>10. b < c => b = Floor
      BY <1>2, <2>5, <3>1
    <3>11. t.wc <= flash[c].wc => flash[c].wc = t.wc
      BY <2>9, <3>3
    <3>12. Pair(c, b)'
      BY <3>1, <3>4, <3>5, <3>6, <3>8, <3>9 DEF Pair, Low
    <3>13. Pair(b, c)'
      BY <3>1, <3>4, <3>5, <3>7, <3>8, <3>10, <3>11 DEF Pair, Low
    <3>. QED  BY <3>2, <3>12, <3>13
  <2>13. Pair(b, b)'
    <3>1. t.state[b] = "GOOD"
      BY <1>2, <1>5, <2>9 DEF Ages
    <3>2. \A l \in Logic : t.map[l] >= MgmtStart => t.map[l] > b + 1
      BY <1>2, <2>8, <2>10, <2>11
    <3>3. flash'[b] = t /\ ~(b < b)
      BY <1>2, <2>6 DEF t
    <3>. QED  BY <3>1, <3>2, <3>3, AgesRefl DEF Pair
  <2>14. InOrder'
    <3>1. \A c \in Copies' : MgmtStart <= c /\ c + 1 < SigBa
      BY <1>4, <1>5, <2>7, <2>8 DEF InOrder
    <3>2. \A x, y, z \in Copies' : x = y \/ y = z \/ x = z
      BY <2>5, <2>7
    <3>3. \A x, y \in Copies' : Pair(x, y)'
      <4>. SUFFICES ASSUME NEW x \in Copies', NEW y \in Copies' PROVE Pair(x, y)'
        OBVIOUS
      <4>1. CASE x = b /\ y = b
        BY <2>13, <4>1
      <4>2. CASE x = b /\ y \in Keep
        BY <2>12, <4>2
      <4>3. CASE x \in Keep /\ y = b
        BY <2>12, <4>3
      <4>4. CASE x \in Keep /\ y \in Keep
        BY <2>5, <2>12, <4>4
      <4>. QED  BY <2>7, <4>1, <4>2, <4>3, <4>4
    <3>. QED  BY <3>1, <3>2, <3>3 DEF InOrder
  <2>15. Whole'
    BY <2>2, <2>3, <2>7 DEF Whole
  <2>16. Progress'
    BY <1>1, <1>4, <1>8, <2>1, <2>2 DEF Progress
  <2>17. Older'
    <3>1. \A c \in Keep : /\ ni.state[c] = "GOOD" /\ Ages(flash[c].state, ni.state)
                          /\ flash[c].wc <= ni.wc
      BY <1>4, <2>6 DEF Older
    <3>2. ni'.state[b] = "GOOD" /\ Ages(flash'[b].state, ni'.state) /\ flash'[b].wc <= ni'.wc
      BY <1>5, <1>8, <2>6, <2>9 DEF t
    <3>3. \A c \in Copies' : /\ ni'.state[c] = "GOOD" /\ Ages(flash'[c].state, ni'.state)
                             /\ flash'[c].wc <= ni'.wc
      BY <1>8, <2>6, <2>7, <3>1, <3>2
    <3>. QED  BY <3>3 DEF Older, Ages
  <2>18. Agree'
    <3>1. \A l \in Logic : disk[l] # Any => ni.map[l] \notin mark
      BY <1>4 DEF Agree
    <3>2. \A l \in Logic : disk[l] # Any => \A c \in Copies' : flash'[c].map[l] = ni.map[l]
      BY <1>4, <2>6, <2>7, <2>9 DEF Agree, t
    <3>. QED  BY <1>1, <1>8, <3>1, <3>2 DEF Agree
  <2>19. Placed'
    <3>1. Low(ni.state, Floor) /\ \A c \in Keep : Low(flash[c].state, Floor) /\ TopFree(c)
      BY <1>4 DEF Placed
    <3>2. Low(ni.state, Floor)'
      BY <1>8, <2>4, <3>1 DEF Low
    <3>3. \A c \in Keep : Low(flash[c].state, Floor)' /\ TopFree(c)'
      BY <1>8, <2>4, <2>6, <3>1 DEF Low, TopFree
    <3>. QED  BY <2>3, <3>2, <3>3 DEF Placed
  <2>20. Current'
    BY <1>3, <1>4, <1>8, <2>2, <2>3, <2>6 DEF Current, Synced
  <2>21. Cached'
    <3>1. \A c \in Keep : /\ Ages(flash[c].state, t.state)
                          /\ flash[c].wc = t.wc => /\ flash[c].map = t.map
                                                   /\ Ages(t.state, flash[c].state)
      BY <1>4, <2>6 DEF Cached, t
    <3>2. \A c \in Copies' : /\ Ages(flash'[c].state, t.state)
                             /\ flash'[c].wc = t.wc => /\ flash'[c].map = t.map
                                                       /\ Ages(t.state, flash'[c].state)
      BY <2>6, <2>7, <3>1, AgesRefl DEF t
    <3>3. ctl'.cache = t /\ t.kind = "table"
      BY <1>4, <2>1 DEF Cached, t
    <3>4. \A c \in New' : flash'[c] = t
      BY <2>2, <2>6 DEF t
    <3>. QED  BY <1>8, <2>9, <3>2, <3>3, <3>4 DEF Cached, Ages
  <2>22. Ahead'
    BY <1>4, <1>8, <2>1, <2>2, <2>3, <2>6 DEF Ahead
  <2>. QED  BY <2>2, <2>14, <2>15, <2>16, <2>17, <2>18, <2>19, <2>20, <2>21, <2>22
            DEF Tabled, Known
<1>. QED  BY <1>6, <1>7, <1>8

(* nmbm_write_info_table finds no block.                                   *)
LEMMA NoRoomTables ==
  ASSUME TypeInv, Safe, Tabled, TableNoRoom
  PROVE  Tabled'
<1>1. /\ ctl.pc = "table" /\ Usable = {} /\ UNCHANGED <<flash, mark, disk>>
      /\ ni' = SetBad(ni, PassedOver(ctl.limit))
      /\ ctl' = [ctl EXCEPT !.pc = ctl.next, !.ok = FALSE]
      /\ ctl \in CtlType /\ ni \in NiType /\ ctl.next \in TableReturns
  BY DEF TableNoRoom, ghosts, TypeInv, Types, Control
<1>2. /\ ctl'.pc = ctl.next /\ ~ctl'.ok /\ ctl'.ba = ctl.ba /\ ctl'.limit = ctl.limit
      /\ ctl'.next = ctl.next /\ ctl'.tmp = ctl.tmp /\ ctl'.cache = ctl.cache
      /\ ctl'.ret = ctl.ret
  BY <1>1 DEF CtlType
<1>3. /\ Up /\ Writing /\ New = {} /\ At = ctl.next
      /\ At' = At /\ New' = {} /\ Up' /\ Writing'
      /\ At # "update" /\ At # "create" /\ At # "range" /\ At \in TableReturns
      /\ ctl'.pc \in TableReturns
      /\ ctl'.pc # "off" /\ ctl'.pc # "dead" /\ ctl'.pc # "range"
      /\ ctl'.pc # "program" /\ ctl'.pc # "created" /\ ctl'.pc = ctl'.next
  BY <1>1, <1>2 DEF Up, Writing, New, At, TableReturns
<1>4. /\ InOrder /\ Whole /\ Progress /\ Older /\ Agree /\ Placed /\ Current
      /\ Cached /\ Ahead
  BY <1>3 DEF Safe, Tabled, Known
<1>5. /\ SameMap(ni, ni') /\ SamePlaces(ni, ni') /\ ni'.wc = ni.wc
      /\ \A c \in Blocks : ni'.state[c] =
           IF c \in PassedOver(ctl.limit) THEN "BAD" ELSE ni.state[c]
  BY <1>1, SetBadIs
<1>6. \A c \in Blocks : \/ ni'.state[c] = ni.state[c]
                        \/ ni'.state[c] = "BAD" /\ c \in mark
  BY <1>5 DEF PassedOver
<1>7. /\ ni'.main = ni.main /\ ni'.backup = ni.backup /\ ni'.top = ni.top
      /\ ni'.prot = ni.prot /\ ni'.map = ni.map
  BY <1>5 DEF SamePlaces, SameMap
<1>8. Copies' = Copies /\ Keep' = Keep /\ Copies = Keep
  <2>1. Copies' = Copies
    BY <1>1, SameFlash
  <2>2. Keep' = Keep
    BY <1>2, <1>3, <1>7 DEF Keep
  <2>3. Copies = Keep
    BY <1>1, <1>3, <1>4 DEF Whole
  <2>. QED  BY <2>1, <2>2, <2>3
<1>9. /\ InOrder' /\ Older' /\ Agree' /\ Cached'
      /\ \A f : Low(ni.state, f) => Low(ni.state, f)'
  <2>1. \A l \in Logic : disk[l] # Any => ni.map[l] \notin mark'
    BY <1>1, <1>4 DEF Agree
  <2>. QED  BY <1>1, <1>2, <1>3, <1>5, <1>6, <1>8, <2>1, Aging
<1>10. Whole'
  BY <1>3, <1>8 DEF Whole
<1>11. Progress'
  BY <1>1, <1>2, <1>3, <1>4, <1>7 DEF Progress
<1>12. Ahead'
  BY <1>1, <1>2, <1>3, <1>4, <1>6, <1>8 DEF Ahead
<1>13. Placed'
  <2>1. CASE At \in Front
    <3>1. Floor = ctl.ba /\ Floor' = ctl.limit /\ Low(ni.state, ctl.ba)
      BY <1>1, <1>2, <1>3, <1>4, <2>1 DEF Floor, Placed, TableReturns
    <3>2. ASSUME NEW c \in Blocks, MgmtStart <= c, c < ctl.limit
          PROVE  c \in mark \/ ni.state[c] # "GOOD"
      <4>1. c \in Nat /\ ctl.ba \in Nat /\ ctl.limit \in Nat
        BY Numbers, Sizes
      <4>2. CASE c < ctl.ba
        BY <3>1, <3>2, <4>2 DEF Low
      <4>3. CASE c \in ctl.ba..(ctl.limit - 1)
        BY <1>1, <4>3 DEF Usable, Good
      <4>. QED  BY <3>2, <4>1, <4>2, <4>3
    <3>3. Low(ni.state, Floor)'
      BY <1>1, <1>6, <3>1, <3>2 DEF Low
    <3>4. ASSUME NEW k \in Keep
          PROVE  Low(flash[k].state, Floor)' /\ TopFree(k)'
      <4>1. \A c \in Blocks : c < ctl.limit /\ ni.state[c] # "GOOD" =>
               c \in mark \/ flash[k].state[c] # "GOOD"
        BY <1>4, <2>1 DEF Ahead
      <4>2. Low(flash[k].state, Floor)'
        BY <1>1, <3>1, <3>2, <4>1 DEF Low
      <4>3. TopFree(k)'
        BY <1>1, <1>4, <1>7 DEF Placed, TopFree
      <4>. QED  BY <4>2, <4>3
    <3>. QED  BY <1>8, <3>3, <3>4 DEF Placed
  <2>2. CASE At \notin Front
    <3>1. Floor' = Floor
      BY <1>3, <1>7, <2>2 DEF Floor
    <3>2. Low(ni.state, Floor)'
      BY <1>4, <1>9, <3>1 DEF Placed
    <3>3. \A k \in Keep : Low(flash[k].state, Floor)' /\ TopFree(k)'
      BY <1>1, <1>4, <1>7, <3>1 DEF Placed, Low, TopFree
    <3>. QED  BY <1>8, <3>2, <3>3 DEF Placed
  <2>. QED  BY <2>1, <2>2
<1>14. Current'
  BY <1>1, <1>3, <1>4, <1>7, <1>8 DEF Current, Synced
<1>. QED  BY <1>3, <1>9, <1>10, <1>11, <1>12, <1>13, <1>14 DEF Tabled, Known

(* nmbm_erase_range, between the two tables.                               *)
LEMMA RangeEraseTables ==
  ASSUME TypeInv, Safe, Tabled, MarksWork, RangeErase \/ RangeDone
  PROVE  Tabled'
<1>1. /\ ctl.pc = "range" /\ disk' = disk
      /\ ctl \in CtlType /\ ni \in NiType /\ flash \in [Blocks -> Content]
      /\ ctl.next \in RangeReturns
  BY DEF RangeErase, RangeDone, ghosts, TypeInv, Types, Control
<1>2. /\ Up /\ ~Writing /\ New = {} /\ At = "range"
      /\ Keep = {ni.main, ni.backup} \ {0} /\ Floor = ni.main
  BY <1>1 DEF Up, Writing, New, At, TableReturns, Keep, Floor, Front
<1>3. /\ InOrder /\ Whole /\ Progress /\ Older /\ Agree /\ Placed /\ Current /\ Ranges
  BY <1>2 DEF Safe, Tabled, Known
<1>4. Copies = Keep
  BY <1>1, <1>2, <1>3 DEF Whole
<1>5. /\ SameMap(ni, ni') /\ SamePlaces(ni, ni') /\ ni'.wc = ni.wc
      /\ mark \subseteq mark' /\ Copies' = Copies
      /\ \A c \in Copies : flash'[c] = flash[c]
      /\ \A c \in Blocks : \/ ni'.state[c] = ni.state[c]
                           \/ ni'.state[c] = "BAD" /\ c \in mark'
      /\ \A l \in Logic : disk[l] # Any => ni.map[l] \notin mark'
  <2>1. CASE RangeErase
    <3>. DEFINE b == Min(Usable)
                n == SetBad(ni, PassedOver(b))
    <3>1. /\ b \in Blocks /\ ctl.ba <= b /\ b < ctl.limit
      BY <2>1, FirstUsable DEF RangeErase
    <3>2. PassedOver(b) \subseteq mark
      BY DEF PassedOver
    <3>3. /\ n \in NiType /\ SameMap(ni, n) /\ SamePlaces(ni, n) /\ n.wc = ni.wc
          /\ \A c \in Blocks : n.state[c] = IF c \in PassedOver(b) THEN "BAD" ELSE ni.state[c]
      BY <1>1, SetBadIs
    <3>4. \/ /\ flash' = [flash EXCEPT ![b] = Erased]
             /\ ni' = n /\ mark' = mark
          \/ /\ BlockFails(b)
             /\ ni' = SetBad(n, {b})
      BY <2>1 DEF RangeErase
    <3>. HIDE DEF b, n
    <3>5. /\ b \in Nat /\ ctl.ba \in Nat /\ ctl.limit \in Nat /\ ni.top \in Nat
          /\ MgmtStart \in Nat
      BY <3>1, Numbers, Sizes
    <3>6. b \notin Keep
      BY <1>1, <1>2, <1>3, <3>1, <3>5, KeepIs
    <3>7. MgmtStart <= b /\ b <= ni.top
      BY <1>1, <1>3, <3>1, <3>5 DEF Ranges
    <3>8. \A l \in Logic : ni.map[l] # b
      BY <1>2, <3>5, <3>7, AreaFree
    <3>9. /\ mark \subseteq mark' /\ mark' \subseteq mark \cup {b}
          /\ flash' = [flash EXCEPT ![b] = Erased] \/ flash' = [flash EXCEPT ![b] = Torn]
      BY <3>1, <3>4, FailsMarked
    <3>10. \A c \in Blocks : c # b => flash'[c] = flash[c]
      BY <1>1, <3>9
    <3>11. flash'[b].kind # "table"
      BY <1>1, <3>1, <3>9 DEF Erased, Torn
    <3>12. Copies' = Copies
      <4>1. \A c \in Blocks : c # b => (c \in mark' <=> c \in mark)
        BY <3>9
      <4>2. b \notin Copies /\ b \notin Copies'
        BY <1>4, <3>6, <3>11 DEF Copies
      <4>3. \A c \in Blocks : c \in Copies' <=> c \in Copies
        BY <3>10, <4>1, <4>2 DEF Copies
      <4>4. Copies \subseteq Blocks /\ Copies' \subseteq Blocks
        BY DEF Copies
      <4>. QED  BY <4>3, <4>4
    <3>13. \A c \in Copies : flash'[c] = flash[c]
      BY <1>4, <3>6, <3>10, CopiesAre
    <3>14. \A l \in Logic : disk[l] # Any => ni.map[l] \notin mark'
      BY <1>3, <3>8, <3>9 DEF Agree
    <3>15. CASE ni' = n
      BY <3>2, <3>3, <3>9, <3>12, <3>13, <3>14, <3>15
    <3>16. CASE BlockFails(b) /\ ni' = SetBad(n, {b})
      <4>1. /\ SameMap(n, ni') /\ SamePlaces(n, ni') /\ ni'.wc = n.wc
            /\ \A c \in Blocks : ni'.state[c] = IF c \in {b} THEN "BAD" ELSE n.state[c]
        BY <3>3, <3>16, SetBadIs
      <4>2. b \in mark'
        BY <3>1, <3>16, FailsMarked
      <4>3. SameMap(ni, ni') /\ SamePlaces(ni, ni') /\ ni'.wc = ni.wc
        BY <3>3, <4>1 DEF SameMap, SamePlaces
      <4>. QED  BY <3>2, <3>3, <3>9, <3>12, <3>13, <3>14, <4>1, <4>2, <4>3
    <3>. QED  BY <3>4, <3>15, <3>16
  <2>2. CASE RangeDone
    <3>1. /\ ni' = SetBad(ni, PassedOver(ctl.limit))
          /\ UNCHANGED <<flash, mark>>
      BY <2>2 DEF RangeDone
    <3>2. /\ SameMap(ni, ni') /\ SamePlaces(ni, ni') /\ ni'.wc = ni.wc
          /\ \A c \in Blocks : ni'.state[c] =
               IF c \in PassedOver(ctl.limit) THEN "BAD" ELSE ni.state[c]
      BY <1>1, <3>1, SetBadIs
    <3>3. PassedOver(ctl.limit) \subseteq mark
      BY DEF PassedOver
    <3>. QED  BY <1>3, <3>1, <3>2, <3>3, SameFlash DEF Agree
  <2>. QED  BY <2>1, <2>2
<1>6. /\ InOrder' /\ Older' /\ Agree'
      /\ \A f : Low(ni.state, f) => Low(ni.state, f)'
  BY <1>1, <1>2, <1>5, Aging
<1>7. /\ ni'.main = ni.main /\ ni'.backup = ni.backup /\ ni'.top = ni.top
      /\ ni'.prot = ni.prot /\ ni'.map = ni.map
  BY <1>5 DEF SamePlaces, SameMap
<1>8. /\ ctl'.limit = ctl.limit /\ ctl'.next = ctl.next
      /\ \/ ctl'.pc = "range" /\ ni.main < ctl'.ba
         \/ ctl'.pc = ctl.next
  <2>1. CASE RangeErase
    <3>1. ctl' = [ctl EXCEPT !.ba = Min(Usable) + 1] /\ Usable # {}
      BY <2>1 DEF RangeErase
    <3>2. Min(Usable) \in Nat /\ ctl.ba <= Min(Usable)
      BY <3>1, FirstUsable, Sizes
    <3>3. ni.main < ctl.ba /\ ni.main \in Nat /\ ctl.ba \in Nat
      BY <1>1, <1>3, Numbers DEF Progress
    <3>4. ni.main < Min(Usable) + 1
      BY <3>2, <3>3
    <3>. QED  BY <1>1, <3>1, <3>4 DEF CtlType
  <2>2. CASE RangeDone
    <3>1. ctl' = [ctl EXCEPT !.pc = ctl.next, !.ok = TRUE]
      BY <2>2 DEF RangeDone
    <3>. QED  BY <1>1, <3>1 DEF CtlType
  <2>. QED  BY <2>1, <2>2
<1>9. /\ Up' /\ ~Writing' /\ New' = {} /\ At' = ctl'.pc
      /\ Keep' = {ni'.main, ni'.backup} \ {0} /\ Floor' = ni'.main
      /\ ctl'.pc # "off" /\ ctl'.pc # "dead" /\ ctl'.pc # "created"
      /\ ctl'.pc \notin TableReturns /\ ctl'.pc # "program"
  BY <1>1, <1>8 DEF Up, Writing, New, At, TableReturns, RangeReturns, Keep, Floor, Front
<1>10. Keep' = Keep /\ Floor' = Floor
  BY <1>2, <1>7, <1>9
<1>11. Whole'
  BY <1>4, <1>5, <1>9, <1>10 DEF Whole
<1>12. Progress'
  <2>1. At' # "rebuilt_main" /\ At' \notin TableReturns /\ "range" \notin RangeReturns
    BY <1>9 DEF TableReturns, RangeReturns
  <2>2. ctl.limit <= ni.backup /\ (ni.prot => ni.main = 0)
    BY <1>1, <1>3 DEF Progress
  <2>. QED  BY <1>1, <1>7, <1>8, <1>9, <2>1, <2>2 DEF Progress, TableReturns
<1>13. Placed'
  <2>1. Low(ni.state, Floor)'
    BY <1>3, <1>6, <1>10 DEF Placed
  <2>2. \A k \in Keep : Low(flash[k].state, Floor)' /\ TopFree(k)'
    BY <1>3, <1>4, <1>5, <1>7, <1>10 DEF Placed, Low, TopFree
  <2>. QED  BY <1>10, <2>1, <2>2 DEF Placed
<1>14. Current'
  BY <1>2, <1>3, <1>4, <1>5, <1>7, <1>9, <1>10 DEF Current, Synced
<1>. QED  BY <1>6, <1>9, <1>11, <1>12, <1>13, <1>14 DEF Tabled, Known

(* An operation on a range, and its return.                                *)
LEMMA RangeTables ==
  ASSUME TypeInv, Safe, Tabled, MarksWork,
         TableErase \/ TableProgram \/ TableNoRoom \/ RangeErase \/ RangeDone
  PROVE  Tabled'
BY TableEraseTables, TableProgramTables, NoRoomTables, RangeEraseTables

-----------------------------------------------------------------------------
(* Steps in memory keep the tables                                         *)

(* The parts of the memory after a step, and the count of table writes.    *)
LEMMA NextNumbers ==
  ASSUME TypeInv, TypeInv'
  PROVE  /\ ni'.main \in Nat /\ ni'.backup \in Nat /\ ni'.mapba \in Nat /\ ni'.top \in Nat
         /\ ctl'.ba \in Nat /\ ctl'.limit \in Nat /\ ctl'.tmp \in Nat
         /\ ni.wc \in Nat /\ ni'.wc \in Nat
         /\ Floor' \in Nat
<1>1. ni \in NiType /\ ni' \in NiType /\ ctl' \in CtlType
  BY DEF TypeInv, Types
<1>2. /\ ni'.main \in Blocks /\ ni'.backup \in Blocks /\ ni'.mapba \in Blocks
      /\ ni'.top \in Blocks /\ ctl'.ba \in 0..SigBa /\ ctl'.limit \in Blocks
      /\ ctl'.tmp \in Blocks /\ ni.wc \in Nat /\ ni'.wc \in Nat
  BY <1>1 DEF NiType, CtlType
<1>3. \A x \in Blocks \cup 0..SigBa : x \in Nat
  BY Sizes
<1>4. /\ ni'.main \in Nat /\ ni'.backup \in Nat /\ ni'.mapba \in Nat /\ ni'.top \in Nat
      /\ ctl'.ba \in Nat /\ ctl'.limit \in Nat /\ ctl'.tmp \in Nat
  BY <1>2, <1>3
<1>. QED  BY <1>2, <1>4 DEF Floor

(* A step that leaves the flash alone.                                     *)
LEMMA Quiet ==
  ASSUME TypeInv, TypeInv', InOrder, Older, Agree,
         flash' = flash, mark' = mark, disk' = disk,
         ni'.state = ni.state, ni'.map = ni.map, ni.wc <= ni'.wc
  PROVE  /\ Copies' = Copies /\ InOrder' /\ Older' /\ Agree'
         /\ \A s, f : Low(s, f) => Low(s, f)'
<1>1. Copies' = Copies /\ InOrder'
  BY SameFlash
<1>2. ni.wc \in Nat /\ ni'.wc \in Nat /\ \A b \in Copies : flash[b].wc \in Nat
  BY CopiesAre DEF TypeInv, Types, NiType
<1>3. \A b \in Copies : flash[b].wc <= ni'.wc
  BY <1>2 DEF Older
<1>4. Older'
  BY <1>1, <1>3 DEF Older, Ages
<1>5. Agree'
  BY <1>1 DEF Agree
<1>6. \A s, f : Low(s, f) => Low(s, f)'
  BY DEF Low
<1>. QED  BY <1>1, <1>4, <1>5, <1>6

(* The return of a table write: which tables there are.                    *)
LEMMA AtReturn ==
  ASSUME TypeInv, Safe, Tabled, ctl.pc \in TableReturns
  PROVE  /\ At = ctl.pc /\ ctl.next = ctl.pc /\ Up /\ Layout /\ Ranges /\ Separate
         /\ InOrder /\ Progress /\ Older /\ Agree /\ Placed /\ Cached /\ Ahead
         /\ ~ni.prot
         /\ Copies = Keep \cup New
         /\ Low(ni.state, Floor) /\ Floor \in Nat
         /\ \A b \in Copies : Low(flash[b].state, Floor) /\ TopFree(b)
         /\ \A b \in New : Synced(b)
         /\ At # "backup_written" => \A b \in Keep : Synced(b)
         /\ \A b \in New, c \in Blocks :
              ni.state[c] # "GOOD" => c \in mark \/ flash[b].state[c] # "GOOD"
<1>1. /\ At = ctl.pc /\ Up /\ Writing
      /\ At # "update" /\ At # "create" /\ ctl.pc # "table"
      /\ ctl.pc \notin {"idle", "detached", "update"}
  BY DEF At, Up, Writing, TableReturns
<1>2. /\ Layout /\ Ranges /\ Separate
      /\ InOrder /\ Whole /\ Progress /\ Older /\ Agree /\ Placed /\ Current
      /\ Cached /\ Ahead
  BY <1>1 DEF Safe, Tabled, Known
<1>3. ctl.next = ctl.pc
  BY <1>2 DEF Progress
<1>4. ~ni.prot
  BY <1>1, <1>2 DEF Progress, Ranges
<1>5. Copies = Keep \cup New
  BY <1>1, <1>2 DEF Whole
<1>6. /\ \A b \in New : flash[b] = ctl.cache
      /\ ctl.cache.map = ni.map
      /\ \A c \in Blocks : ni.state[c] # "GOOD" => c \in mark \/ ctl.cache.state[c] # "GOOD"
  BY <1>2 DEF Cached
<1>7. /\ Low(ni.state, Floor)
      /\ \A b \in Keep : Low(flash[b].state, Floor) /\ TopFree(b)
  BY <1>2 DEF Placed
<1>8. \A b \in New : Low(flash[b].state, Floor) /\ TopFree(b) /\ Synced(b)
  <2>. SUFFICES ASSUME NEW b \in New
                PROVE  Low(flash[b].state, Floor) /\ TopFree(b) /\ Synced(b)
    OBVIOUS
  <2>1. flash[b].map = ni.map /\ flash[b] = ctl.cache
    BY <1>6
  <2>2. Low(flash[b].state, Floor)
    BY <1>6, <1>7, <2>1 DEF Low
  <2>3. TopFree(b)
    BY <1>2, <2>1 DEF TopFree, Separate
  <2>4. Synced(b)
    BY <2>1 DEF Synced
  <2>. QED  BY <2>2, <2>3, <2>4
<1>9. At # "backup_written" => \A b \in Keep : Synced(b)
  BY <1>1, <1>2, <1>4 DEF Current
<1>10. Floor \in Nat
  BY Numbers DEF Floor
<1>. QED  BY <1>1, <1>2, <1>3, <1>4, <1>5, <1>6, <1>7, <1>8, <1>9, <1>10

(* No room in front of a block, so none in front of an earlier one.        *)
LEMMA LowBelow ==
  ASSUME NEW s, NEW f \in Nat, NEW g \in Nat, g <= f, Low(s, f)
  PROVE  Low(s, g)
BY Sizes DEF Low

(* The procedure that wrote a table has put down where the tables are.     *)
LEMMA Settle ==
  ASSUME TypeInv, TypeInv', Safe, Tabled, ctl.pc \in TableReturns \ {"backup_written"},
         Memory, ni'.state = ni.state, ni'.map = ni.map, ni'.wc = ni.wc,
         ni'.top = ni.top, ni'.prot = ni.prot,
         ctl'.pc \in {"update", "create", "attached", "single_clean", "range"},
         Copies = {ni'.main, ni'.backup} \ {0}, ni'.main <= Floor,
         ctl'.pc = "range" => ni'.main < ctl'.ba /\ ctl'.limit <= ni'.backup
  PROVE  Tabled'
<1>1. /\ InOrder /\ Older /\ Agree /\ ~ni.prot /\ Copies = Keep \cup New
      /\ Low(ni.state, Floor) /\ Floor \in Nat /\ At = ctl.pc
      /\ \A b \in Copies : Low(flash[b].state, Floor) /\ TopFree(b)
      /\ \A b \in New : Synced(b)
      /\ \A b \in Keep : Synced(b)
  BY AtReturn
<1>2. flash' = flash /\ mark' = mark /\ disk' = disk
  BY DEF Memory
<1>3. ni.wc <= ni'.wc /\ ni'.main \in Nat
  BY NextNumbers
<1>4. /\ Copies' = Copies /\ InOrder' /\ Older' /\ Agree'
      /\ \A s, f : Low(s, f) => Low(s, f)'
  BY <1>1, <1>2, <1>3, Quiet
<1>5. /\ Up' /\ ~Writing' /\ New' = {} /\ At' = ctl'.pc
      /\ Keep' = {ni'.main, ni'.backup} \ {0} /\ Floor' = ni'.main
      /\ ctl'.pc # "off" /\ ctl'.pc # "dead" /\ ctl'.pc # "created"
      /\ ctl'.pc \notin TableReturns /\ ctl'.pc # "program" /\ ctl'.pc # "table"
  BY DEF Up, Writing, New, At, TableReturns, Keep, Floor, Front
<1>6. Keep' = Copies
  BY <1>5
<1>7. Whole'
  BY <1>4, <1>5, <1>6 DEF Whole
<1>8. Progress'
  <2>1. At' \notin TableReturns
    BY <1>5
  <2>. QED  BY <1>1, <1>5, <2>1 DEF Progress, TableReturns
<1>9. Placed'
  <2>1. Low(ni.state, ni'.main) /\ \A b \in Copies : Low(flash[b].state, ni'.main)
    BY <1>1, <1>3, LowBelow
  <2>2. Low(ni.state, Floor)'
    BY <1>2, <1>5, <2>1 DEF Low
  <2>3. \A b \in Copies : Low(flash[b].state, Floor)' /\ TopFree(b)'
    BY <1>1, <1>2, <1>5, <2>1 DEF Low, TopFree
  <2>. QED  BY <1>6, <2>2, <2>3 DEF Placed
<1>10. Current'
  <2>1. \A b \in Copies : Synced(b)'
    BY <1>1, <1>2 DEF Synced
  <2>. QED  BY <1>6, <2>1 DEF Current
<1>. QED  BY <1>4, <1>5, <1>7, <1>8, <1>9, <1>10 DEF Tabled, Known

(* The procedure goes on to write another table.                           *)
LEMMA Continue ==
  ASSUME TypeInv, TypeInv', Safe, Tabled, ctl.pc \in TableReturns,
         Memory, ni'.state = ni.state, ni'.map = ni.map, ni'.wc = ni.wc,
         ni'.top = ni.top, ni'.prot = ni.prot,
         ctl'.pc = "table", ctl'.cache = ctl.cache, ctl'.next # "backup_written",
         Keep' \subseteq Copies,
         \A b \in Keep' : b \in New \/ ctl.pc # "backup_written",
         \A b \in Copies \ Keep' : b \in Usable' /\ \A u \in Usable' : b <= u,
         Floor' <= Floor \/ Floor' = MgmtStart, Progress',
         At' \in Front => \A b \in Keep' :
           b \in New \/ (At \in Front /\ ctl'.limit <= ctl.limit)
  PROVE  Tabled'
<1>1. /\ InOrder /\ Older /\ Agree /\ ~ni.prot /\ Copies = Keep \cup New
      /\ Low(ni.state, Floor) /\ Floor \in Nat /\ At = ctl.pc
      /\ \A b \in Copies : Low(flash[b].state, Floor) /\ TopFree(b)
      /\ \A b \in New : Synced(b)
      /\ At # "backup_written" => \A b \in Keep : Synced(b)
      /\ Cached /\ Ahead
      /\ \A b \in New, c \in Blocks :
              ni.state[c] # "GOOD" => c \in mark \/ flash[b].state[c] # "GOOD"
  BY AtReturn
<1>2. flash' = flash /\ mark' = mark /\ disk' = disk
  BY DEF Memory
<1>3. /\ ni.wc <= ni'.wc /\ Floor' \in Nat
      /\ ctl'.limit \in Nat /\ ctl.limit \in Nat
  BY Numbers, NextNumbers
<1>4. /\ Copies' = Copies /\ InOrder' /\ Older' /\ Agree'
      /\ \A s, f : Low(s, f) => Low(s, f)'
  BY <1>1, <1>2, <1>3, Quiet
<1>5. /\ Up' /\ Writing' /\ New' = {} /\ At' = ctl'.next
      /\ ctl'.pc # "off" /\ ctl'.pc # "dead"
  BY DEF Up, Writing, New, At, TableReturns
<1>7. Whole'
  BY <1>4, <1>5 DEF Whole
<1>9. Placed'
  <2>0. \A s : Low(s, MgmtStart)
    BY Sizes DEF Low
  <2>1. Low(ni.state, Floor') /\ \A b \in Copies : Low(flash[b].state, Floor')
    BY <1>1, <1>3, <2>0, LowBelow
  <2>2. Low(ni.state, Floor)'
    BY <1>2, <2>1 DEF Low
  <2>3. \A b \in Copies : Low(flash[b].state, Floor)' /\ TopFree(b)'
    BY <1>1, <1>2, <2>1 DEF Low, TopFree
  <2>. QED  BY <2>2, <2>3 DEF Placed
<1>10. Current'
  <2>1. \A b \in Keep' : Synced(b)
    BY <1>1
  <2>2. \A b \in Keep' : Synced(b)'
    BY <1>2, <2>1 DEF Synced
  <2>. QED  BY <2>2 DEF Current
<1>11. Cached'
  BY <1>1, <1>2, <1>4, <1>5 DEF Cached, Ages
<1>12. Ahead'
  <2>. SUFFICES ASSUME At' \in Front, NEW b \in Keep', NEW c \in Blocks,
                       c < ctl'.limit, ni.state[c] # "GOOD"
                PROVE  c \in mark \/ flash[b].state[c] # "GOOD"
    BY <1>2 DEF Ahead
  <2>1. CASE b \in New
    BY <1>1, <2>1
  <2>2. CASE b \notin New
    <3>1. b \in Keep /\ At \in Front /\ ctl'.limit <= ctl.limit
      BY <1>1, <2>2
    <3>2. c < ctl.limit
      BY <1>3, <3>1, Sizes
    <3>. QED  BY <1>1, <3>1, <3>2 DEF Ahead
  <2>. QED  BY <2>1, <2>2
<1>. QED  BY <1>4, <1>5, <1>7, <1>9, <1>10, <1>11, <1>12 DEF Tabled, Known

(* A table below which there is no room is the first to be written over.   *)
LEMMA FirstInRange ==
  ASSUME TypeInv, TypeInv', Older, NEW b \in Copies, mark' = mark, ni'.state = ni.state,
         ctl'.ba <= b, b < ctl'.limit,
         \A c \in Blocks : ctl'.ba <= c /\ c < b => c \in mark \/ ni.state[c] # "GOOD"
  PROVE  b \in Usable' /\ \A u \in Usable' : b <= u
<1>1. /\ b \in Nat /\ b \notin mark /\ ni.state[b] = "GOOD"
      /\ ctl'.ba \in Nat /\ ctl'.limit \in Nat /\ ctl'.limit \in Blocks
  BY CopiesAre, NextNumbers DEF Older, TypeInv, Types, CtlType
<1>2. b \in Usable'
  <2>1. b \in ctl'.ba..(ctl'.limit - 1)
    BY <1>1
  <2>. QED  BY <1>1, <2>1 DEF Usable, Good
<1>3. ASSUME NEW u \in Usable'
      PROVE  b <= u
  <2>1. u \in ctl'.ba..(ctl'.limit - 1) /\ ni.state[u] = "GOOD" /\ u \notin mark
    BY DEF Usable, Good
  <2>2. u \in Blocks /\ u \in Nat /\ ctl'.ba <= u
    BY <1>1, <2>1, Sizes DEF Blocks
  <2>. QED  BY <1>1, <2>1, <2>2
<1>. QED  BY <1>2, <1>3

(* nmbm_update_info_table has written the backup table, or gives it up.    *)
LEMMA BackupTables ==
  ASSUME TypeInv, TypeInv', Safe, Tabled, BackupWritten
  PROVE  Tabled'
<1>1. /\ ctl.pc = "backup_written" /\ Memory /\ mark' = mark
      /\ ctl \in CtlType /\ ni \in NiType /\ ctl.pc \in TableReturns
  BY Places DEF BackupWritten, Memory, TypeInv, Types
<1>2. /\ Layout /\ Ranges /\ Older /\ At = "backup_written" /\ ~ni.prot
      /\ Copies = Keep \cup New
  BY <1>1, AtReturn
<1>3. /\ ni.main \in Nat /\ ni.backup \in Nat /\ ni.top \in Nat /\ ni.mapba \in Nat
      /\ ctl.ba \in Nat /\ ctl.limit \in Nat /\ MgmtStart \in Nat /\ MgmtStart > 0
  BY Numbers, Sizes
<1>4. /\ ni.main # 0 /\ ni.backup # 0 /\ MgmtStart <= ni.main /\ ni.main < ni.backup
      /\ ni.backup < ni.mapba /\ ni.mapba <= ni.top /\ ni.backup <= ctl.ba
  BY <1>1, <1>2 DEF Layout, Ranges
<1>5. Keep = {ni.main} /\ Floor = ni.main
  BY <1>2, <1>4 DEF Keep, Floor, Front
<1>6. CASE ctl.ok
  <2>1. /\ ni' = [Clean(ni) EXCEPT !.backup = ctl.ba, !.mapba = ctl.ba + 1]
        /\ ctl' = WriteTable(ctl, ni.main, ctl.ba, "main_written")
    BY <1>1, <1>6 DEF BackupWritten, WriteMain, Here, End, Clean, NiType
  <2>2. /\ ni'.state = ni.state /\ ni'.map = ni.map /\ ni'.wc = ni.wc /\ ni'.top = ni.top
        /\ ni'.prot = ni.prot /\ ni'.main = ni.main /\ ni'.backup = ctl.ba
    BY <1>1, <2>1 DEF Clean, NiType
  <2>3. /\ ctl'.pc = "table" /\ ctl'.ba = ni.main /\ ctl'.limit = ctl.ba
        /\ ctl'.next = "main_written" /\ ctl'.cache = ctl.cache
    BY <1>1, <2>1 DEF WriteTable, CtlType
  <2>4. New = {ctl.ba} /\ Copies = {ni.main, ctl.ba}
    BY <1>1, <1>2, <1>5, <1>6 DEF New
  <2>5. At' = "main_written" /\ Keep' = {ctl.ba} /\ Floor' = ni.main
    BY <1>3, <1>4, <2>2, <2>3 DEF At, Keep, Floor, Front, TableReturns
  <2>6. Progress'
    BY <1>2, <2>2, <2>3, <2>5 DEF Progress, TableReturns
  <2>7. \A b \in Copies \ Keep' : b \in Usable' /\ \A u \in Usable' : b <= u
    <3>1. ni.main \in Copies /\ ni.main < ctl.ba /\ \A c \in Blocks : ~(ni.main <= c /\ c < ni.main)
      BY <1>3, <1>4, <2>4, Sizes
    <3>2. ni.main \in Usable' /\ \A u \in Usable' : ni.main <= u
      BY <1>1, <1>2, <1>3, <2>2, <2>3, <3>1, FirstInRange
    <3>. QED  BY <2>4, <2>5, <3>2
  <2>. QED  BY <1>1, <1>3, <1>5, <2>2, <2>3, <2>4, <2>5, <2>6, <2>7, Continue
<1>7. CASE ~ctl.ok
  <2>1. /\ ni' = [ni EXCEPT !.mapba = ni.backup, !.backup = 0]
        /\ ctl' = WriteTable(ctl, ni.main, ni.top, "main_written")
    BY <1>1, <1>7 DEF BackupWritten, WriteMain, NiType
  <2>2. /\ ni'.state = ni.state /\ ni'.map = ni.map /\ ni'.wc = ni.wc /\ ni'.top = ni.top
        /\ ni'.prot = ni.prot /\ ni'.main = ni.main /\ ni'.backup = 0
    BY <1>1, <2>1 DEF NiType
  <2>3. /\ ctl'.pc = "table" /\ ctl'.ba = ni.main /\ ctl'.limit = ni.top
        /\ ctl'.next = "main_written" /\ ctl'.cache = ctl.cache
    BY <1>1, <2>1 DEF WriteTable, CtlType
  <2>4. New = {} /\ Copies = {ni.main}
    BY <1>1, <1>2, <1>5, <1>7 DEF New
  <2>5. At' = "main_written" /\ Keep' = {} /\ Floor' = ni.main
    BY <1>3, <1>4, <2>2, <2>3 DEF At, Keep, Floor, Front, TableReturns
  <2>6. Progress'
    BY <1>2, <2>2, <2>3, <2>5 DEF Progress, TableReturns
  <2>7. \A b \in Copies \ Keep' : b \in Usable' /\ \A u \in Usable' : b <= u
    <3>1. ni.main \in Copies /\ ni.main < ni.top /\ \A c \in Blocks : ~(ni.main <= c /\ c < ni.main)
      BY <1>3, <1>4, <2>4, Sizes
    <3>2. ni.main \in Usable' /\ \A u \in Usable' : ni.main <= u
      BY <1>1, <1>2, <1>3, <2>2, <2>3, <3>1, FirstInRange
    <3>. QED  BY <2>4, <2>5, <3>2
  <2>. QED  BY <1>1, <1>3, <1>5, <2>2, <2>3, <2>4, <2>5, <2>6, <2>7, Continue
<1>. QED  BY <1>6, <1>7

(* nmbm_update_info_table has written the main table.                      *)
LEMMA MainTables ==
  ASSUME TypeInv, TypeInv', Safe, Tabled, MainWritten
  PROVE  Tabled'
<1>1. /\ ctl.pc = "main_written" /\ ctl.ok /\ Memory
      /\ ctl \in CtlType /\ ni \in NiType /\ ctl.pc \in TableReturns
  BY Places DEF MainWritten, TypeInv, Types
<1>2. At = "main_written" /\ Copies = Keep \cup New
  BY <1>1, AtReturn
<1>3. /\ ctl.ba \in Nat /\ ni.backup \in Nat /\ MgmtStart <= ctl.ba /\ ctl.ba # 0
  <2>1. MgmtStart <= ctl.ba
    BY <1>1, AtReturn DEF Ranges
  <2>. QED  BY <2>1, Numbers, Sizes
<1>4. Keep = {ni.backup} \ {0} /\ New = {ctl.ba} /\ Floor = ctl.ba
  BY <1>1, <1>2 DEF Keep, New, Floor, Front
<1>5. /\ ni'.state = ni.state /\ ni'.map = ni.map /\ ni'.wc = ni.wc /\ ni'.top = ni.top
      /\ ni'.prot = ni.prot /\ ni'.main = ctl.ba /\ ni'.backup = ni.backup
  BY <1>1 DEF MainWritten, Clean, Here, NiType
<1>6. ctl'.pc = "update"
  BY <1>1 DEF MainWritten, CtlType
<1>7. Copies = {ni'.main, ni'.backup} \ {0} /\ ni'.main <= Floor
  BY <1>2, <1>3, <1>4, <1>5
<1>. QED  BY <1>1, <1>5, <1>6, <1>7, Settle

(* There is no room for the main table.                                    *)
LEMMA FailedTables ==
  ASSUME TypeInv, TypeInv', Safe, Tabled, MainFailed
  PROVE  Tabled'
<1>1. /\ ctl.pc = "main_written" /\ ~ctl.ok /\ Memory /\ mark' = mark
      /\ ctl \in CtlType /\ ni \in NiType /\ ctl.pc \in TableReturns
  BY Places DEF MainFailed, Memory, TypeInv, Types
<1>2. /\ Layout /\ Ranges /\ Progress /\ Older /\ At = "main_written" /\ ~ni.prot
      /\ Copies = Keep \cup New
  BY <1>1, AtReturn
<1>3. /\ ni.main \in Nat /\ ni.backup \in Nat /\ ni.top \in Nat /\ ni.mapba \in Nat
      /\ ctl.ba \in Nat /\ ctl.limit \in Nat /\ MgmtStart \in Nat /\ MgmtStart > 0
  BY Numbers, Sizes
<1>4. Keep = {ni.backup} \ {0} /\ New = {} /\ Floor = ctl.limit
  BY <1>1, <1>2 DEF Keep, New, Floor, Front
<1>5. Copies = {ni.backup} \ {0}
  BY <1>2, <1>4
<1>6. CASE ni.backup = 0
  <2>1. /\ ni' = [ni EXCEPT !.main = 0, !.backup = 0, !.mapba = ni.top]
        /\ ctl' = WriteTable([ctl EXCEPT !.built = "update"], MgmtStart, ni.top, "rebuilt_main")
    BY <1>6 DEF MainFailed, Rebuild
  <2>2. /\ ni'.state = ni.state /\ ni'.map = ni.map /\ ni'.wc = ni.wc /\ ni'.top = ni.top
        /\ ni'.prot = ni.prot /\ ni'.main = 0 /\ ni'.backup = 0
    BY <1>1, <2>1 DEF NiType
  <2>3. /\ ctl'.pc = "table" /\ ctl'.ba = MgmtStart /\ ctl'.limit = ni.top
        /\ ctl'.next = "rebuilt_main" /\ ctl'.cache = ctl.cache
    BY <1>1, <2>1 DEF WriteTable, CtlType
  <2>4. At' = "rebuilt_main" /\ Keep' = {} /\ Floor' = MgmtStart
    BY <2>3 DEF At, Keep, Floor, Front, TableReturns
  <2>5. Progress'
    BY <1>2, <2>2, <2>3, <2>4 DEF Progress, TableReturns
  <2>. QED  BY <1>1, <1>5, <1>6, <2>2, <2>3, <2>4, <2>5, Continue
<1>7. CASE ni.backup # 0
  <2>1. Floor = ni.backup /\ Copies = {ni.backup}
    BY <1>2, <1>4, <1>5, <1>7 DEF Progress
  <2>2. CASE Reserve(ni, ni.mapba) = 0
    <3>1. /\ ni' = [ni EXCEPT !.main = ni.backup, !.backup = 0]
          /\ ctl' = [ctl EXCEPT !.pc = "update"]
      BY <1>7, <2>2 DEF MainFailed
    <3>2. /\ ni'.state = ni.state /\ ni'.map = ni.map /\ ni'.wc = ni.wc /\ ni'.top = ni.top
          /\ ni'.prot = ni.prot /\ ni'.main = ni.backup /\ ni'.backup = 0
          /\ ctl'.pc = "update"
      BY <1>1, <3>1 DEF NiType, CtlType
    <3>3. Copies = {ni'.main, ni'.backup} \ {0} /\ ni'.main <= Floor
      BY <1>3, <1>7, <2>1, <3>2
    <3>. QED  BY <1>1, <3>2, <3>3, Settle
  <2>3. CASE Reserve(ni, ni.mapba) # 0
    <3>1. PICK w : /\ ctl' = [WriteTable(ctl, w, ni.top, "tmp_written") EXCEPT !.wba = w]
                   /\ ni' = ni
      BY <1>7, <2>3 DEF MainFailed
    <3>2. /\ ctl'.pc = "table" /\ ctl'.next = "tmp_written" /\ ctl'.cache = ctl.cache
      BY <1>1, <3>1 DEF WriteTable, CtlType
    <3>3. At' = "tmp_written" /\ Keep' = {ni.backup} /\ Floor' = ni.backup
      BY <1>7, <3>1, <3>2 DEF At, Keep, Floor, Front, TableReturns
    <3>4. Progress'
      BY <1>2, <3>1, <3>2, <3>3 DEF Progress, TableReturns
    <3>5. At' \notin Front
      BY <3>3 DEF Front
    <3>. QED  BY <1>1, <1>3, <2>1, <3>1, <3>2, <3>3, <3>4, <3>5, Continue
  <2>. QED  BY <2>2, <2>3
<1>. QED  BY <1>6, <1>7

(* nmbm_rescue_main_info_table and its temporary table.                    *)
LEMMA TmpTables ==
  ASSUME TypeInv, TypeInv', Safe, Tabled, TmpWritten
  PROVE  Tabled'
<1>1. /\ ctl.pc = "tmp_written" /\ Memory /\ mark' = mark
      /\ ctl \in CtlType /\ ni \in NiType /\ ctl.pc \in TableReturns
  BY Places DEF TmpWritten, Memory, TypeInv, Types
<1>2. /\ Layout /\ Ranges /\ Older /\ At = "tmp_written" /\ ~ni.prot
      /\ Copies = Keep \cup New /\ Low(ni.state, Floor)
  BY <1>1, AtReturn
<1>3. /\ ni.main \in Nat /\ ni.backup \in Nat /\ ni.top \in Nat /\ ni.mapba \in Nat
      /\ ctl.ba \in Nat /\ ctl.limit \in Nat /\ ctl.wba \in Nat
      /\ MgmtStart \in Nat /\ MgmtStart > 0
  BY Numbers, Sizes
<1>4. /\ ni.main # 0 /\ ni.backup # 0 /\ MgmtStart <= ni.main /\ ni.main < ni.backup
      /\ ni.backup < ni.mapba /\ ni.mapba <= ctl.wba /\ ctl.wba <= ctl.ba
  BY <1>1, <1>2 DEF Layout, Ranges
<1>5. Keep = {ni.backup} /\ Floor = ni.backup
  BY <1>2, <1>4 DEF Keep, Floor, Front
<1>6. CASE ctl.ok
  <2>1. /\ ni' = [ni EXCEPT !.mapba = ctl.ba + 1]
        /\ ctl' = [WriteTable(ctl, MgmtStart, ctl.ba, "rescued_main") EXCEPT !.tmp = ctl.ba]
    BY <1>6 DEF TmpWritten, Here, End
  <2>2. /\ ni'.state = ni.state /\ ni'.map = ni.map /\ ni'.wc = ni.wc /\ ni'.top = ni.top
        /\ ni'.prot = ni.prot /\ ni'.main = ni.main /\ ni'.backup = ni.backup
    BY <1>1, <2>1 DEF NiType
  <2>3. /\ ctl'.pc = "table" /\ ctl'.ba = MgmtStart /\ ctl'.limit = ctl.ba
        /\ ctl'.next = "rescued_main" /\ ctl'.cache = ctl.cache /\ ctl'.tmp = ctl.ba
    BY <1>1, <2>1 DEF WriteTable, CtlType
  <2>4. New = {ctl.ba} /\ Copies = {ni.backup, ctl.ba}
    BY <1>1, <1>2, <1>5, <1>6 DEF New
  <2>5. At' = "rescued_main" /\ Keep' = {ctl.ba} /\ Floor' = MgmtStart
    BY <1>3, <1>4, <2>3 DEF At, Keep, Floor, Front, TableReturns
  <2>6. Progress'
    BY <1>2, <2>2, <2>3, <2>5 DEF Progress, TableReturns
  <2>7. \A b \in Copies \ Keep' : b \in Usable' /\ \A u \in Usable' : b <= u
    <3>1. /\ ni.backup \in Copies /\ MgmtStart <= ni.backup /\ ni.backup < ctl.ba
          /\ \A c \in Blocks : MgmtStart <= c /\ c < ni.backup => c \in mark \/ ni.state[c] # "GOOD"
      BY <1>2, <1>3, <1>4, <1>5, <2>4 DEF Low
    <3>2. ni.backup \in Usable' /\ \A u \in Usable' : ni.backup <= u
      BY <1>1, <1>2, <1>3, <2>2, <2>3, <3>1, FirstInRange
    <3>. QED  BY <2>4, <2>5, <3>2
  <2>. QED  BY <1>1, <2>2, <2>3, <2>4, <2>5, <2>6, <2>7, Continue
<1>7. CASE ~ctl.ok /\ ctl.wba > ni.mapba
  <2>1. /\ ctl' = [WriteTable(ctl, ctl.wba - 1, ni.top, "tmp_written") EXCEPT !.wba = @ - 1]
        /\ ni' = ni
    BY <1>7 DEF TmpWritten
  <2>2. ctl'.pc = "table" /\ ctl'.next = "tmp_written" /\ ctl'.cache = ctl.cache
    BY <1>1, <2>1 DEF WriteTable, CtlType
  <2>3. At' = "tmp_written" /\ Keep' = {ni.backup} /\ Floor' = ni.backup
    BY <1>4, <2>1, <2>2 DEF At, Keep, Floor, Front, TableReturns
  <2>4. Progress'
    BY <1>2, <2>1, <2>2, <2>3 DEF Progress, TableReturns
  <2>5. At' \notin Front /\ Copies = {ni.backup}
    BY <1>1, <1>2, <1>5, <1>7, <2>3 DEF Front, New
  <2>. QED  BY <1>1, <1>3, <1>5, <2>1, <2>2, <2>3, <2>4, <2>5, Continue
<1>8. CASE ~ctl.ok /\ ~(ctl.wba > ni.mapba)
  <2>1. /\ ni' = [ni EXCEPT !.main = ni.backup, !.backup = 0]
        /\ ctl' = [ctl EXCEPT !.pc = "update"]
    BY <1>8 DEF TmpWritten
  <2>2. /\ ni'.state = ni.state /\ ni'.map = ni.map /\ ni'.wc = ni.wc /\ ni'.top = ni.top
        /\ ni'.prot = ni.prot /\ ni'.main = ni.backup /\ ni'.backup = 0
        /\ ctl'.pc = "update"
    BY <1>1, <2>1 DEF NiType, CtlType
  <2>3. Copies = {ni.backup}
    BY <1>1, <1>2, <1>5, <1>8 DEF New
  <2>4. Copies = {ni'.main, ni'.backup} \ {0} /\ ni'.main <= Floor
    BY <1>3, <1>4, <1>5, <2>2, <2>3
  <2>. QED  BY <1>1, <2>2, <2>4, Settle
<1>. QED  BY <1>6, <1>7, <1>8

(* nmbm_rescue_main_info_table, at its end.                                *)
LEMMA RescuedTables ==
  ASSUME TypeInv, TypeInv', Safe, Tabled, RescuedMain
  PROVE  Tabled'
<1>1. /\ ctl.pc = "rescued_main" /\ Memory
      /\ ctl \in CtlType /\ ni \in NiType /\ ctl.pc \in TableReturns
  BY Places DEF RescuedMain, TypeInv, Types
<1>2. /\ Ranges /\ Progress /\ At = "rescued_main" /\ Copies = Keep \cup New
  BY <1>1, AtReturn
<1>3. /\ ctl.ba \in Nat /\ ctl.tmp \in Nat /\ ctl.ba # 0 /\ ctl.tmp # 0
  <2>1. MgmtStart <= ctl.ba /\ MgmtStart <= ctl.tmp
    BY <1>1, <1>2 DEF Ranges
  <2>. QED  BY <2>1, Numbers, Sizes
<1>4. Keep = {ctl.tmp} /\ ctl.limit = ctl.tmp
  BY <1>2, <1>3 DEF Keep, Progress
<1>5. /\ ni'.state = ni.state /\ ni'.map = ni.map /\ ni'.wc = ni.wc /\ ni'.top = ni.top
      /\ ni'.prot = ni.prot /\ ctl'.pc = "update"
      /\ ctl.ok => ni'.main = ctl.ba /\ ni'.backup = ctl.tmp
      /\ ~ctl.ok => ni'.main = ctl.tmp /\ ni'.backup = 0
  BY <1>1 DEF RescuedMain, Clean, Here, NiType, CtlType
<1>6. CASE ctl.ok
  <2>1. Floor = ctl.ba /\ New = {ctl.ba}
    BY <1>1, <1>2, <1>6 DEF Floor, New, Front
  <2>2. Copies = {ni'.main, ni'.backup} \ {0} /\ ni'.main <= Floor
    BY <1>2, <1>3, <1>4, <1>5, <1>6, <2>1
  <2>. QED  BY <1>1, <1>5, <2>2, Settle
<1>7. CASE ~ctl.ok
  <2>1. Floor = ctl.tmp /\ New = {}
    BY <1>1, <1>2, <1>4, <1>7 DEF Floor, New, Front
  <2>2. Copies = {ni'.main, ni'.backup} \ {0} /\ ni'.main <= Floor
    BY <1>2, <1>3, <1>4, <1>5, <1>7, <2>1
  <2>. QED  BY <1>1, <1>5, <2>2, Settle
<1>. QED  BY <1>6, <1>7

(* nmbm_rebuild_info_table has written the main table, or gives up.        *)
LEMMA RebuiltTables ==
  ASSUME TypeInv, TypeInv', Safe, Tabled, RebuiltMain
  PROVE  Tabled'
<1>1. /\ ctl.pc = "rebuilt_main" /\ Memory /\ flash' = flash /\ mark' = mark /\ disk' = disk
      /\ ctl \in CtlType /\ ni \in NiType /\ ctl.pc \in TableReturns
  BY Places DEF RebuiltMain, Memory, TypeInv, Types
<1>2. /\ Ranges /\ Progress /\ InOrder /\ Older /\ Agree /\ At = "rebuilt_main" /\ ~ni.prot
      /\ Copies = Keep \cup New
  BY <1>1, AtReturn
<1>3. /\ ctl.ba \in Nat /\ ctl.ba # 0
  <2>1. MgmtStart <= ctl.ba
    BY <1>1, <1>2 DEF Ranges
  <2>. QED  BY <2>1, Numbers, Sizes
<1>4. Keep = {} /\ ni.main = 0 /\ ni.backup = 0
  BY <1>2 DEF Keep, Progress, Ranges
<1>5. ctl.built = "update" => ctl.ret \in UpdateRets
  BY <1>2 DEF TypeInv, Control, InUpdate
<1>6. CASE ctl.ok
  <2>. DEFINE n == [Clean(ni) EXCEPT !.main = Here, !.mapba = End]
  <2>1. ni' = n
    BY <1>6 DEF RebuiltMain
  <2>2. /\ ni'.state = ni.state /\ ni'.map = ni.map /\ ni'.wc = ni.wc /\ ni'.top = ni.top
        /\ ni'.prot = ni.prot /\ ni'.main = ctl.ba /\ ni'.backup = 0
    BY <1>1, <1>4, <2>1 DEF Clean, Here, NiType
  <2>3. New = {ctl.ba} /\ Copies = {ctl.ba} /\ Floor = ctl.ba
    BY <1>1, <1>2, <1>4, <1>6 DEF New, Floor, Front
  <2>4. CASE Reserve(n, End) = 0
    <3>1. ctl' = RebuildReturns(TRUE)
      BY <1>6, <2>4 DEF RebuiltMain
    <3>2. ctl'.pc \in {"update", "create"}
      BY <1>1, <1>5, <3>1, RebuildReturnsIs DEF CtlType
    <3>3. Copies = {ni'.main, ni'.backup} \ {0} /\ ni'.main <= Floor
      BY <1>3, <2>2, <2>3
    <3>. QED  BY <1>1, <2>2, <3>2, <3>3, Settle
  <2>5. CASE Reserve(n, End) # 0
    <3>1. PICK w : ctl' = WriteTable(ctl, w, ni.top, "rebuilt_backup")
      BY <1>6, <2>5 DEF RebuiltMain
    <3>2. ctl'.pc = "table" /\ ctl'.next = "rebuilt_backup" /\ ctl'.cache = ctl.cache
      BY <1>1, <3>1 DEF WriteTable, CtlType
    <3>3. At' = "rebuilt_backup" /\ Keep' = {ctl.ba} /\ Floor' = ctl.ba
      BY <1>3, <2>2, <3>2 DEF At, Keep, Floor, Front, TableReturns
    <3>4. Progress'
      BY <1>2, <2>2, <3>2, <3>3 DEF Progress, TableReturns
    <3>5. At' \notin Front
      BY <3>3 DEF Front
    <3>. QED  BY <1>1, <1>3, <2>2, <2>3, <3>2, <3>3, <3>4, <3>5, Continue
  <2>. QED  BY <2>4, <2>5
<1>7. CASE ~ctl.ok
  <2>1. ni' = [ni EXCEPT !.prot = TRUE] /\ ctl' = RebuildReturns(FALSE)
    BY <1>7 DEF RebuiltMain
  <2>2. /\ ni'.state = ni.state /\ ni'.map = ni.map /\ ni'.wc = ni.wc
        /\ ni'.prot /\ ni'.main = 0 /\ ni'.backup = 0
    BY <1>1, <1>4, <2>1 DEF NiType
  <2>3. ctl'.pc = IF ctl.built = "update" THEN ctl.ret ELSE "dead"
    BY <1>1, <1>5, <2>1, RebuildReturnsIs
  <2>4. Copies = {}
    BY <1>1, <1>2, <1>4, <1>7 DEF New
  <2>5. Copies' = {} /\ InOrder'
    BY <1>1, <1>2, <2>4, SameFlash
  <2>6. CASE ctl'.pc = "dead"
    BY <2>2, <2>5, <2>6 DEF Tabled, Up
  <2>7. CASE ctl'.pc \in UpdateRets
    <3>1. /\ ~Writing' /\ New' = {} /\ At' = ctl'.pc /\ Keep' = {} /\ Floor' = 0
          /\ ctl'.pc # "off" /\ ctl'.pc # "dead" /\ ctl'.pc # "range" /\ ctl'.pc # "program"
          /\ ctl'.pc \notin TableReturns
      BY <2>2, <2>7 DEF UpdateRets, Writing, New, At, Keep, Floor, Front, TableReturns
    <3>2. Whole' /\ Older'
      BY <2>5, <3>1 DEF Whole, Older
    <3>3. Progress'
      BY <2>2, <3>1 DEF Progress, TableReturns
    <3>4. Agree'
      BY <1>1, <1>2, <2>2, <2>5 DEF Agree
    <3>5. Placed'
      <4>1. \A c \in Blocks : ~(c < 0)
        BY Sizes
      <4>. QED  BY <3>1, <4>1 DEF Placed, Low
    <3>6. Current'
      BY <2>2 DEF Current
    <3>. QED  BY <2>5, <3>1, <3>2, <3>3, <3>4, <3>5, <3>6 DEF Tabled, Known
  <2>. QED  BY <1>5, <2>3, <2>6, <2>7, <1>1 DEF CtlType
<1>. QED  BY <1>6, <1>7

(* nmbm_rebuild_info_table has written the backup table, or has no room.   *)
LEMMA RebuiltBackupTables ==
  ASSUME TypeInv, TypeInv', Safe, Tabled, RebuiltBackup
  PROVE  Tabled'
<1>1. /\ ctl.pc = "rebuilt_backup" /\ Memory
      /\ ctl \in CtlType /\ ni \in NiType /\ ctl.pc \in TableReturns
  BY Places DEF RebuiltBackup, TypeInv, Types
<1>2. /\ Ranges /\ At = "rebuilt_backup" /\ Copies = Keep \cup New
  BY <1>1, AtReturn
<1>3. /\ ctl.ba \in Nat /\ ctl.ba # 0 /\ ni.main \in Nat /\ ni.main # 0 /\ ni.backup = 0
  <2>1. MgmtStart <= ctl.ba /\ ni.main # 0 /\ ni.backup = 0
    BY <1>1, <1>2 DEF Ranges
  <2>. QED  BY <2>1, Numbers, Sizes
<1>4. Keep = {ni.main} /\ Floor = ni.main
  BY <1>2, <1>3 DEF Keep, Floor, Front
<1>5. ctl.built = "update" => ctl.ret \in UpdateRets
  BY <1>2 DEF TypeInv, Control, InUpdate
<1>6. CASE ctl.ok
  <2>1. /\ ni' = [ni EXCEPT !.backup = ctl.ba, !.mapba = ctl.ba + 1]
        /\ ctl' = EraseRange(ctl, ni.main + 1, ctl.ba, ctl.built)
    BY <1>6 DEF RebuiltBackup, Here, End
  <2>2. /\ ni'.state = ni.state /\ ni'.map = ni.map /\ ni'.wc = ni.wc /\ ni'.top = ni.top
        /\ ni'.prot = ni.prot /\ ni'.main = ni.main /\ ni'.backup = ctl.ba
    BY <1>1, <2>1 DEF NiType
  <2>3. ctl'.pc = "range" /\ ctl'.ba = ni.main + 1 /\ ctl'.limit = ctl.ba
    BY <1>1, <2>1 DEF EraseRange, CtlType
  <2>4. New = {ctl.ba}
    BY <1>1, <1>6 DEF New
  <2>5. /\ Copies = {ni'.main, ni'.backup} \ {0} /\ ni'.main <= Floor
        /\ ni'.main < ctl'.ba /\ ctl'.limit <= ni'.backup
    BY <1>2, <1>3, <1>4, <2>2, <2>3, <2>4
  <2>. QED  BY <1>1, <2>2, <2>3, <2>5, Settle
<1>7. CASE ~ctl.ok
  <2>1. ni' = ni /\ ctl' = RebuildReturns(TRUE)
    BY <1>7 DEF RebuiltBackup
  <2>2. ctl'.pc \in {"update", "create"}
    BY <1>1, <1>5, <2>1, RebuildReturnsIs DEF CtlType
  <2>3. New = {}
    BY <1>1, <1>7 DEF New
  <2>4. Copies = {ni'.main, ni'.backup} \ {0} /\ ni'.main <= Floor
    BY <1>2, <1>3, <1>4, <2>1, <2>3
  <2>. QED  BY <1>1, <2>1, <2>2, <2>4, Settle
<1>. QED  BY <1>6, <1>7

(* nmbm_update_single_info_table, for the main table.                      *)
LEMMA OneMainTables ==
  ASSUME TypeInv, TypeInv', Safe, Tabled, OneMainWritten
  PROVE  Tabled'
<1>1. /\ ctl.pc = "one_main" /\ Memory
      /\ ctl \in CtlType /\ ni \in NiType /\ ctl.pc \in TableReturns
  BY Places DEF OneMainWritten, TypeInv, Types
<1>2. /\ Ranges /\ Progress /\ At = "one_main" /\ Copies = Keep \cup New /\ ~ni.prot
  BY <1>1, AtReturn
<1>3. /\ ctl.ba \in Nat /\ ctl.ba # 0 /\ ni.backup \in Nat /\ ni.backup # 0
      /\ ctl.limit = ni.backup
  <2>1. MgmtStart <= ctl.ba /\ ni.backup # 0 /\ ctl.limit = ni.backup
    BY <1>1, <1>2 DEF Ranges, Progress
  <2>. QED  BY <2>1, Numbers, Sizes
<1>4. Keep = {ni.backup}
  BY <1>2, <1>3 DEF Keep
<1>5. CASE ctl.ok
  <2>1. ni' = [Clean(ni) EXCEPT !.main = ctl.ba] /\ ctl' = [ctl EXCEPT !.pc = "attached"]
    BY <1>5 DEF OneMainWritten, Here
  <2>2. /\ ni'.state = ni.state /\ ni'.map = ni.map /\ ni'.wc = ni.wc /\ ni'.top = ni.top
        /\ ni'.prot = ni.prot /\ ni'.main = ctl.ba /\ ni'.backup = ni.backup
        /\ ctl'.pc = "attached"
    BY <1>1, <2>1 DEF Clean, NiType, CtlType
  <2>3. New = {ctl.ba} /\ Floor = ctl.ba
    BY <1>1, <1>2, <1>5 DEF New, Floor, Front
  <2>4. Copies = {ni'.main, ni'.backup} \ {0} /\ ni'.main <= Floor
    BY <1>2, <1>3, <1>4, <2>2, <2>3
  <2>. QED  BY <1>1, <2>2, <2>4, Settle
<1>6. CASE ~ctl.ok
  <2>1. /\ ni' = [ni EXCEPT !.main = ni.backup, !.backup = 0]
        /\ ctl' = WriteTable(ctl, MgmtStart, ni'.main, "single_front")
    BY <1>6 DEF OneMainWritten, RescueSingle
  <2>2. /\ ni'.state = ni.state /\ ni'.map = ni.map /\ ni'.wc = ni.wc /\ ni'.top = ni.top
        /\ ni'.prot = ni.prot /\ ni'.main = ni.backup /\ ni'.backup = 0
    BY <1>1, <2>1 DEF NiType
  <2>3. /\ ctl'.pc = "table" /\ ctl'.ba = MgmtStart /\ ctl'.limit = ni.backup
        /\ ctl'.next = "single_front" /\ ctl'.cache = ctl.cache
    BY <1>1, <2>1, <2>2 DEF WriteTable, CtlType
  <2>4. New = {} /\ Copies = {ni.backup}
    BY <1>1, <1>2, <1>4, <1>6 DEF New
  <2>5. At' = "single_front" /\ Keep' = {ni.backup} /\ Floor' = MgmtStart
    BY <1>3, <2>2, <2>3 DEF At, Keep, Floor, Front, TableReturns
  <2>6. Progress'
    BY <1>2, <2>2, <2>3, <2>5 DEF Progress, TableReturns
  <2>7. At \in Front /\ ctl'.limit <= ctl.limit
    BY <1>2, <1>3, <2>3 DEF Front
  <2>. QED  BY <1>1, <2>2, <2>3, <2>4, <2>5, <2>6, <2>7, Continue
<1>. QED  BY <1>5, <1>6

(* nmbm_update_single_info_table, for the backup table.                    *)
LEMMA OneBackupTables ==
  ASSUME TypeInv, TypeInv', Safe, Tabled, OneBackupWritten
  PROVE  Tabled'
<1>1. /\ ctl.pc = "one_backup" /\ Memory
      /\ ctl \in CtlType /\ ni \in NiType /\ ctl.pc \in TableReturns
  BY Places DEF OneBackupWritten, TypeInv, Types
<1>2. /\ Ranges /\ At = "one_backup" /\ Copies = Keep \cup New
  BY <1>1, AtReturn
<1>3. /\ ctl.ba \in Nat /\ ctl.ba # 0 /\ ni.main \in Nat /\ ni.main # 0
  <2>1. MgmtStart <= ctl.ba /\ ni.main # 0
    BY <1>1, <1>2 DEF Ranges
  <2>. QED  BY <2>1, Numbers, Sizes
<1>4. Keep = {ni.main} /\ Floor = ni.main
  BY <1>2, <1>3 DEF Keep, Floor, Front
<1>5. /\ ni'.state = ni.state /\ ni'.map = ni.map /\ ni'.wc = ni.wc /\ ni'.top = ni.top
      /\ ni'.prot = ni.prot /\ ni'.main = ni.main /\ ctl'.pc = "attached"
      /\ ni'.backup = IF ctl.ok THEN ctl.ba ELSE 0
  BY <1>1 DEF OneBackupWritten, Clean, Here, NiType, CtlType
<1>6. New = IF ctl.ok THEN {ctl.ba} ELSE {}
  BY <1>1 DEF New
<1>7. Copies = {ni'.main, ni'.backup} \ {0} /\ ni'.main <= Floor
  BY <1>2, <1>3, <1>4, <1>5, <1>6
<1>. QED  BY <1>1, <1>5, <1>7, Settle

(* nmbm_rescue_single_info_table, in front of the only table.              *)
LEMMA FrontTables ==
  ASSUME TypeInv, TypeInv', Safe, Tabled, SingleFront
  PROVE  Tabled'
<1>1. /\ ctl.pc = "single_front" /\ Memory
      /\ ctl \in CtlType /\ ni \in NiType /\ ctl.pc \in TableReturns
  BY Places DEF SingleFront, TypeInv, Types
<1>2. /\ Ranges /\ Progress /\ At = "single_front" /\ Copies = Keep \cup New /\ ~ni.prot
  BY <1>1, AtReturn
<1>3. /\ ctl.ba \in Nat /\ ctl.ba # 0 /\ ni.main \in Nat /\ ni.main # 0 /\ ni.backup = 0
      /\ ctl.limit = ni.main
  <2>1. MgmtStart <= ctl.ba /\ ni.main # 0 /\ ni.backup = 0 /\ ctl.limit = ni.main
    BY <1>1, <1>2 DEF Ranges, Progress
  <2>. QED  BY <2>1, Numbers, Sizes
<1>4. Keep = {ni.main}
  BY <1>2, <1>3 DEF Keep
<1>5. CASE ctl.ok
  <2>1. /\ ni' = [Clean(ni) EXCEPT !.backup = ni.main, !.main = ctl.ba]
        /\ ctl' = EraseRange(ctl, ctl.ba + 1, ni.main, "attached")
    BY <1>5 DEF SingleFront, Here, End
  <2>2. /\ ni'.state = ni.state /\ ni'.map = ni.map /\ ni'.wc = ni.wc /\ ni'.top = ni.top
        /\ ni'.prot = ni.prot /\ ni'.main = ctl.ba /\ ni'.backup = ni.main
    BY <1>1, <2>1 DEF Clean, NiType
  <2>3. ctl'.pc = "range" /\ ctl'.ba = ctl.ba + 1 /\ ctl'.limit = ni.main
    BY <1>1, <2>1 DEF EraseRange, CtlType
  <2>4. New = {ctl.ba} /\ Floor = ctl.ba
    BY <1>1, <1>2, <1>5 DEF New, Floor, Front
  <2>5. /\ Copies = {ni'.main, ni'.backup} \ {0} /\ ni'.main <= Floor
        /\ ni'.main < ctl'.ba /\ ctl'.limit <= ni'.backup
    BY <1>2, <1>3, <1>4, <2>2, <2>3, <2>4
  <2>. QED  BY <1>1, <2>2, <2>3, <2>5, Settle
<1>6. CASE ~ctl.ok
  <2>1. /\ ni' = ni
        /\ \/ ctl' = [ctl EXCEPT !.pc = "attached"]
           \/ \E w : ctl' = [WriteTable(ctl, w, ni.top, "single_behind") EXCEPT !.wba = w]
    BY <1>6 DEF SingleFront
  <2>2. New = {} /\ Copies = {ni.main} /\ Floor = ni.main
    BY <1>1, <1>2, <1>3, <1>4, <1>6 DEF New, Floor, Front
  <2>3. CASE ctl' = [ctl EXCEPT !.pc = "attached"]
    <3>1. ctl'.pc = "attached"
      BY <1>1, <2>3 DEF CtlType
    <3>2. Copies = {ni'.main, ni'.backup} \ {0} /\ ni'.main <= Floor
      BY <1>3, <2>1, <2>2
    <3>. QED  BY <1>1, <2>1, <3>1, <3>2, Settle
  <2>4. ASSUME NEW w, ctl' = [WriteTable(ctl, w, ni.top, "single_behind") EXCEPT !.wba = w]
        PROVE  Tabled'
    <3>1. ctl'.pc = "table" /\ ctl'.next = "single_behind" /\ ctl'.cache = ctl.cache
      BY <1>1, <2>4 DEF WriteTable, CtlType
    <3>2. At' = "single_behind" /\ Keep' = {ni.main} /\ Floor' = ni.main
      BY <1>3, <2>1, <3>1 DEF At, Keep, Floor, Front, TableReturns
    <3>3. Progress' /\ At' \notin Front
      BY <1>2, <2>1, <3>1, <3>2 DEF Progress, TableReturns, Front
    <3>. QED  BY <1>1, <1>3, <2>1, <2>2, <3>1, <3>2, <3>3, Continue
  <2>. QED  BY <2>1, <2>3, <2>4
<1>. QED  BY <1>5, <1>6

(* nmbm_rescue_single_info_table, behind the only table.                   *)
LEMMA BehindTables ==
  ASSUME TypeInv, TypeInv', Safe, Tabled, SingleBehind
  PROVE  Tabled'
<1>1. /\ ctl.pc = "single_behind" /\ Memory
      /\ ctl \in CtlType /\ ni \in NiType /\ ctl.pc \in TableReturns
  BY Places DEF SingleBehind, TypeInv, Types
<1>2. /\ Layout /\ Ranges /\ At = "single_behind" /\ Copies = Keep \cup New /\ ~ni.prot
  BY <1>1, AtReturn
<1>3. /\ ctl.ba \in Nat /\ ctl.ba # 0 /\ ni.main \in Nat /\ ni.main # 0 /\ ni.backup = 0
      /\ ni.main < ni.mapba
  <2>1. MgmtStart <= ctl.ba /\ ni.main # 0 /\ ni.backup = 0 /\ ni.main < ni.mapba
    BY <1>1, <1>2 DEF Ranges, Layout
  <2>. QED  BY <2>1, Numbers, Sizes
<1>4. Keep = {ni.main} /\ Floor = ni.main
  BY <1>2, <1>3 DEF Keep, Floor, Front
<1>5. CASE ctl.ok
  <2>1. /\ ni' = [ni EXCEPT !.backup = ctl.ba, !.mapba = ctl.ba + 1]
        /\ ctl' = EraseRange(ctl, ni.mapba, ctl.ba, "single_clean")
    BY <1>5 DEF SingleBehind, Here, End
  <2>2. /\ ni'.state = ni.state /\ ni'.map = ni.map /\ ni'.wc = ni.wc /\ ni'.top = ni.top
        /\ ni'.prot = ni.prot /\ ni'.main = ni.main /\ ni'.backup = ctl.ba
    BY <1>1, <2>1 DEF NiType
  <2>3. ctl'.pc = "range" /\ ctl'.ba = ni.mapba /\ ctl'.limit = ctl.ba
    BY <1>1, <2>1 DEF EraseRange, CtlType
  <2>4. New = {ctl.ba}
    BY <1>1, <1>5 DEF New
  <2>5. /\ Copies = {ni'.main, ni'.backup} \ {0} /\ ni'.main <= Floor
        /\ ni'.main < ctl'.ba /\ ctl'.limit <= ni'.backup
    BY <1>2, <1>3, <1>4, <2>2, <2>3, <2>4
  <2>. QED  BY <1>1, <2>2, <2>3, <2>5, Settle
<1>6. CASE ~ctl.ok
  <2>1. /\ ni' = ni
        /\ \/ ctl' = [ctl EXCEPT !.pc = "attached"]
           \/ ctl' = [WriteTable(ctl, ctl.wba - 1, ni.top, "single_behind") EXCEPT !.wba = @ - 1]
    BY <1>6 DEF SingleBehind
  <2>2. New = {} /\ Copies = {ni.main}
    BY <1>1, <1>2, <1>4, <1>6 DEF New
  <2>3. CASE ctl' = [ctl EXCEPT !.pc = "attached"]
    <3>1. ctl'.pc = "attached"
      BY <1>1, <2>3 DEF CtlType
    <3>2. Copies = {ni'.main, ni'.backup} \ {0} /\ ni'.main <= Floor
      BY <1>3, <1>4, <2>1, <2>2
    <3>. QED  BY <1>1, <2>1, <3>1, <3>2, Settle
  <2>4. CASE ctl' = [WriteTable(ctl, ctl.wba - 1, ni.top, "single_behind") EXCEPT !.wba = @ - 1]
    <3>1. ctl'.pc = "table" /\ ctl'.next = "single_behind" /\ ctl'.cache = ctl.cache
      BY <1>1, <2>4 DEF WriteTable, CtlType
    <3>2. At' = "single_behind" /\ Keep' = {ni.main} /\ Floor' = ni.main
      BY <1>3, <2>1, <3>1 DEF At, Keep, Floor, Front, TableReturns
    <3>3. Progress' /\ At' \notin Front
      BY <1>2, <2>1, <3>1, <3>2 DEF Progress, TableReturns, Front
    <3>. QED  BY <1>1, <1>3, <1>4, <2>1, <2>2, <3>1, <3>2, <3>3, Continue
  <2>. QED  BY <2>1, <2>3, <2>4
<1>. QED  BY <1>5, <1>6

(* No table is being written: the tables are where the memory says.        *)
LEMMA AtRest ==
  ASSUME TypeInv, Safe, Tabled, Up, ~Writing
  PROVE  /\ At = ctl.pc /\ New = {} /\ Floor = ni.main
         /\ Layout /\ Separate /\ Caller /\ Kept
         /\ InOrder /\ Progress /\ Older /\ Agree /\ Current
         /\ Keep = Copies /\ Copies = {ni.main, ni.backup} \ {0}
         /\ Low(ni.state, ni.main)
         /\ \A b \in Copies : Low(flash[b].state, ni.main) /\ TopFree(b)
         /\ ni.main = 0 => Copies = {}
         /\ \A b \in Copies : MgmtStart <= b /\ b <= ni.top
<1>1. /\ At = ctl.pc /\ New = {} /\ Floor = ni.main /\ ctl.pc # "table"
      /\ Keep = {ni.main, ni.backup} \ {0}
  BY DEF Writing, At, New, Floor, Front, Keep, TableReturns
<1>2. /\ Layout /\ Separate /\ Caller /\ Kept /\ Whole
      /\ InOrder /\ Progress /\ Older /\ Agree /\ Placed /\ Current
  BY DEF Safe, Tabled, Known
<1>3. Keep = Copies
  BY <1>1, <1>2 DEF Whole
<1>4. /\ Low(ni.state, ni.main)
      /\ \A b \in Copies : Low(flash[b].state, ni.main) /\ TopFree(b)
  BY <1>1, <1>2, <1>3 DEF Placed
<1>5. ni.main = 0 => Copies = {}
  BY <1>1, <1>2, <1>3 DEF Layout
<1>6. \A b \in Copies : MgmtStart <= b /\ b <= ni.top
  BY <1>1, <1>2, <1>3, Numbers, Sizes DEF Layout
<1>. QED  BY <1>1, <1>2, <1>3, <1>4, <1>5, <1>6

(* A step that writes no table.                                            *)
LEMMA RestStep ==
  ASSUME TypeInv, TypeInv', Safe, Tabled, Up, ~Writing, Up', ~Writing',
         ctl'.pc # "range", ctl'.pc = "created" /\ ~ctl'.ok => ni.main = 0,
         mark \subseteq mark', Copies' = Copies,
         \A b \in Copies : flash'[b] = flash[b] /\ ni'.state[b] = ni.state[b],
         ni'.main = ni.main, ni'.backup = ni.backup, ni'.wc = ni.wc, ni'.top <= ni.top,
         Ages(ni.state, ni'.state),
         \A l \in Logic : disk'[l] # Any =>
           ni'.map[l] \notin mark' /\ \A b \in Copies : flash[b].map[l] = ni'.map[l],
         \/ ni'.prot
         \/ ctl'.pc \in {"update", "create"} /\ ni'.changed
         \/ \A b \in Copies, l \in Logic : ni'.map[l] >= 0 => flash[b].map[l] = ni'.map[l],
         ni'.prot => \/ ni.main = 0 \/ ctl'.pc \in {"idle", "detached"}
                     \/ ctl'.pc = "update" /\ ctl'.ret = "detached"
  PROVE  Tabled'
<1>1. /\ New = {} /\ InOrder /\ Older /\ Keep = Copies
      /\ Copies = {ni.main, ni.backup} \ {0}
      /\ Low(ni.state, ni.main)
      /\ \A b \in Copies : Low(flash[b].state, ni.main) /\ TopFree(b)
  BY AtRest
<1>2. /\ At' = ctl'.pc /\ New' = {} /\ Floor' = ni'.main
      /\ ctl'.pc # "off" /\ ctl'.pc # "dead" /\ ctl'.pc # "program"
      /\ ctl'.pc \notin TableReturns /\ ctl'.pc # "table"
      /\ Keep' = {ni'.main, ni'.backup} \ {0}
  BY DEF Up, Writing, At, New, Floor, Front, Keep, TableReturns
<1>3. Keep' = Copies
  BY <1>1, <1>2
<1>4. InOrder'
  BY <1>1, Shrink
<1>5. Whole'
  BY <1>2, <1>3 DEF Whole
<1>6. Progress'
  BY <1>2 DEF Progress, TableReturns
<1>7. Older'
  <2>. SUFFICES ASSUME NEW b \in Copies
                PROVE  /\ ni'.state[b] = "GOOD" /\ Ages(flash[b].state, ni'.state)
                       /\ flash[b].wc <= ni'.wc
    BY DEF Older, Ages
  <2>1. ni.state[b] = "GOOD" /\ Ages(flash[b].state, ni.state) /\ flash[b].wc <= ni.wc
    BY <1>1 DEF Older
  <2>. QED  BY <2>1, AgesTrans
<1>8. Agree'
  BY DEF Agree
<1>9. Placed'
  <2>1. Low(ni.state, Floor)'
    BY <1>1, <1>2, CopiesAre DEF Low, Ages
  <2>2. ASSUME NEW b \in Copies
        PROVE  Low(flash[b].state, Floor)' /\ TopFree(b)'
    <3>1. Low(flash[b].state, ni.main) /\ TopFree(b) /\ flash'[b] = flash[b]
      BY <1>1
    <3>2. Low(flash[b].state, Floor)'
      BY <1>2, <3>1 DEF Low
    <3>3. \A l \in Logic : flash[b].map[l] \in Int
      BY CopiesAre
    <3>4. TopFree(b)'
      BY <3>1, <3>3, Numbers, NextNumbers DEF TopFree
    <3>. QED  BY <3>2, <3>4
  <2>. QED  BY <1>3, <2>1, <2>2 DEF Placed
<1>10. Current'
  BY <1>2, <1>3 DEF Current, Synced
<1>. QED  BY <1>2, <1>4, <1>5, <1>6, <1>7, <1>8, <1>9, <1>10 DEF Tabled, Known

(* nmbm_update_info_table begins to write, or has nothing to do.           *)
LEMMA UpdateTables ==
  ASSUME TypeInv, TypeInv', Safe, Tabled, Update
  PROVE  Tabled'
<1>1. /\ ctl.pc = "update" /\ Memory /\ flash' = flash /\ mark' = mark /\ disk' = disk
      /\ ctl \in CtlType /\ ni \in NiType
  BY DEF Update, Memory, TypeInv, Types
<1>2. Up /\ ~Writing /\ ctl.ret \in UpdateRets
  BY <1>1 DEF Up, Writing, TableReturns, TypeInv, Control, InUpdate, At
<1>3. /\ At = "update" /\ New = {} /\ Floor = ni.main /\ Layout
      /\ InOrder /\ Progress /\ Older /\ Agree /\ Current /\ Separate
      /\ Keep = Copies /\ Copies = {ni.main, ni.backup} \ {0}
      /\ Low(ni.state, ni.main)
      /\ \A b \in Copies : Low(flash[b].state, ni.main) /\ TopFree(b)
      /\ ni.main = 0 => Copies = {}
  BY <1>1, <1>2, AtRest
<1>4. CASE ni.prot \/ ~ni.changed
  <2>1. ctl' = UpdateReturns(TRUE) /\ ni' = ni
    BY <1>4 DEF Update
  <2>2. ctl'.pc = ctl.ret /\ ctl'.ret = "off"
    BY <1>1, <1>2, <2>1, UpdateReturnsIs
  <2>3. ctl'.pc = "created" => ctl'.ok
    BY <2>1, <2>2, NoControlIs, IdleIs DEF UpdateReturns, CtlType
  <2>4. Up' /\ ~Writing' /\ ctl'.pc # "range"
    BY <1>2, <2>2 DEF UpdateRets, Up, Writing, TableReturns
  <2>5. Copies' = Copies
    BY <1>1, SameFlash
  <2>6. \/ ni.prot
        \/ \A b \in Copies, l \in Logic : ni.map[l] >= 0 => flash[b].map[l] = ni.map[l]
    BY <1>3, <1>4 DEF Current, Synced
  <2>7. ni.prot => ni.main = 0 \/ ctl'.pc \in {"idle", "detached"}
    BY <1>1, <1>3, <2>2 DEF Progress
  <2>8. ni.top <= ni.top /\ Ages(ni.state, ni'.state)
    BY <2>1, Numbers, AgesRefl
  <2>9. \A l \in Logic : disk'[l] # Any =>
           ni'.map[l] \notin mark' /\ \A b \in Copies : flash[b].map[l] = ni'.map[l]
    BY <1>1, <1>3, <2>1 DEF Agree
  <2>10. /\ mark \subseteq mark' /\ (ctl'.pc = "created" /\ ~ctl'.ok => ni.main = 0)
         /\ \A b \in Copies : flash'[b] = flash[b] /\ ni'.state[b] = ni.state[b]
         /\ ni'.main = ni.main /\ ni'.backup = ni.backup /\ ni'.wc = ni.wc /\ ni'.top <= ni.top
    BY <1>1, <2>1, <2>3, <2>8
  <2>11. \/ ni'.prot
         \/ ctl'.pc \in {"update", "create"} /\ ni'.changed
         \/ \A b \in Copies, l \in Logic : ni'.map[l] >= 0 => flash[b].map[l] = ni'.map[l]
    BY <2>1, <2>6
  <2>12. ni'.prot => \/ ni.main = 0 \/ ctl'.pc \in {"idle", "detached"}
                     \/ ctl'.pc = "update" /\ ctl'.ret = "detached"
    BY <2>1, <2>7
  <2>. QED  BY <1>2, <2>4, <2>5, <2>8, <2>9, <2>10, <2>11, <2>12, RestStep
<1>5. CASE ~ni.prot /\ ni.changed
  <2>. DEFINE n == Generate(ni)
              c == [ctl EXCEPT !.cache = Table(n)]
  <2>1. /\ ni' = n
        /\ ni.backup = 0 => ctl' = WriteTable(c, ni.main, ni.top, "main_written")
        /\ ni.backup # 0 => ctl' = WriteTable(c, ni.backup, ni.top, "backup_written")
    <3>1. n.main = ni.main
      BY <1>1, GenerateIs DEF SamePlaces
    <3>. QED  BY <1>5, <3>1 DEF Update, WriteMain
  <2>2. /\ ni'.state = ni.state /\ ni'.map = ni.map /\ ni'.top = ni.top /\ ni'.prot = ni.prot
        /\ ni'.main = ni.main /\ ni'.backup = ni.backup
    BY <1>1, <2>1, GenerateIs DEF SameMap, SamePlaces
  <2>3. ni'.wc = ni.wc + 1 /\ ni.wc \in Nat
    BY <1>1, <1>5, <2>1 DEF Generate, NiType
  <2>4. /\ ctl'.pc = "table" /\ ctl'.limit = ni.top /\ ctl'.cache = Table(ni')
        /\ ctl'.ba = IF ni.backup = 0 THEN ni.main ELSE ni.backup
        /\ ctl'.next = IF ni.backup = 0 THEN "main_written" ELSE "backup_written"
    <3>. HIDE DEF n
    <3>. QED  BY <1>1, <2>1 DEF WriteTable, CtlType
  <2>5. /\ ni.main # 0 /\ ni.main \in Nat /\ ni.backup \in Nat /\ ni.top \in Nat
        /\ ni.main < ni.top
        /\ ni.backup # 0 => ni.main < ni.backup /\ ni.backup < ni.top
    BY <1>3, <1>5, Numbers DEF Layout
  <2>. HIDE DEF n, c
  <2>6. /\ Copies' = Copies /\ InOrder' /\ Older' /\ Agree'
        /\ \A s, f : Low(s, f) => Low(s, f)'
    <3>1. ni.wc <= ni'.wc
      BY <2>3
    <3>. QED  BY <1>1, <1>3, <2>2, <3>1, Quiet
  <2>7. /\ Up' /\ Writing' /\ New' = {} /\ At' = ctl'.next /\ Floor' = ni.main
        /\ ctl'.pc # "off" /\ ctl'.pc # "dead"
        /\ Keep' = IF ni.backup = 0 THEN {} ELSE {ni.main}
    BY <2>2, <2>4, <2>5 DEF Up, Writing, New, At, Floor, Front, Keep, TableReturns
  <2>8. Whole'
    <3>1. ctl'.ba \in Copies /\ Copies \ Keep' = {ctl'.ba} /\ Keep' \subseteq Copies
      BY <1>3, <2>4, <2>5, <2>7
    <3>2. /\ ctl'.ba <= ctl'.ba /\ ctl'.ba < ctl'.limit
          /\ \A x \in Blocks : ~(ctl'.ba <= x /\ x < ctl'.ba)
      BY <2>4, <2>5, Sizes
    <3>3. ctl'.ba \in Usable' /\ \A u \in Usable' : ctl'.ba <= u
      BY <1>1, <1>3, <2>2, <3>1, <3>2, FirstInRange
    <3>. QED  BY <2>4, <2>6, <2>7, <3>1, <3>3 DEF Whole
  <2>9. Progress'
    BY <1>5, <2>2, <2>4, <2>7 DEF Progress, TableReturns
  <2>10. Placed'
    <3>1. Low(ni.state, Floor)' /\ \A b \in Copies : Low(flash[b].state, Floor)' /\ TopFree(b)'
      BY <1>1, <1>3, <2>2, <2>7 DEF Low, TopFree
    <3>. QED  BY <1>3, <2>7, <3>1 DEF Placed
  <2>11. Current'
    BY <2>4, <2>7 DEF Current
  <2>12. Cached'
    <3>1. /\ ctl'.cache.kind = "table" /\ ctl'.cache.wc = ni'.wc /\ ctl'.cache.map = ni'.map
          /\ ctl'.cache.state = ni'.state
      BY <2>4 DEF Table
    <3>2. \A b \in Copies : flash[b].wc # ni'.wc /\ Ages(flash[b].state, ni.state)
      BY <1>3, <2>3, CopiesAre DEF Older
    <3>. QED  BY <1>1, <2>2, <2>6, <2>7, <3>1, <3>2, AgesRefl DEF Cached, Ages
  <2>13. Ahead'
    BY <2>4, <2>7 DEF Ahead, Front
  <2>. QED  BY <2>6, <2>7, <2>8, <2>9, <2>10, <2>11, <2>12, <2>13 DEF Tabled, Known
<1>. QED  BY <1>4, <1>5

(* A step that writes no table and leaves the flash alone.                 *)
LEMMA MemoryRest ==
  ASSUME TypeInv, TypeInv', Safe, Tabled, Up, ~Writing, Up', ~Writing',
         ctl'.pc # "range", ctl'.pc = "created" /\ ~ctl'.ok => ni.main = 0,
         flash' = flash, mark' = mark,
         \A l \in Logic : disk'[l] # Any => disk[l] # Any /\ ni'.map[l] = ni.map[l],
         ni'.main = ni.main, ni'.backup = ni.backup, ni'.wc = ni.wc, ni'.top <= ni.top,
         \A c \in Blocks : \/ ni'.state[c] = ni.state[c]
                           \/ c \notin Copies /\ ni'.state[c] = "BAD",
         \/ ni'.prot
         \/ ctl'.pc \in {"update", "create"} /\ ni'.changed
         \/ /\ ~ni.prot \/ ni.main = 0
            /\ ~(ctl.pc \in {"update", "create"} /\ ni.changed)
            /\ \A l \in Logic : ni'.map[l] >= 0 => ni'.map[l] = ni.map[l],
         ni'.prot => \/ ni.main = 0 \/ ctl'.pc \in {"idle", "detached"}
                     \/ ctl'.pc = "update" /\ ctl'.ret = "detached"
  PROVE  Tabled'
<1>1. /\ At = ctl.pc /\ Agree /\ Current /\ Keep = Copies /\ (ni.main = 0 => Copies = {})
  BY AtRest
<1>2. Copies' = Copies /\ Copies \subseteq Blocks
  BY SameFlash, CopiesAre
<1>3. /\ mark \subseteq mark'
      /\ \A b \in Copies : flash'[b] = flash[b] /\ ni'.state[b] = ni.state[b]
      /\ Ages(ni.state, ni'.state)
  BY <1>2 DEF Ages
<1>4. \A l \in Logic : disk'[l] # Any =>
        ni'.map[l] \notin mark' /\ \A b \in Copies : flash[b].map[l] = ni'.map[l]
  BY <1>1 DEF Agree
<1>5. \/ ni'.prot
      \/ ctl'.pc \in {"update", "create"} /\ ni'.changed
      \/ \A b \in Copies, l \in Logic : ni'.map[l] >= 0 => flash[b].map[l] = ni'.map[l]
  <2>1. CASE /\ ~ni.prot \/ ni.main = 0
             /\ ~(ctl.pc \in {"update", "create"} /\ ni.changed)
             /\ \A l \in Logic : ni'.map[l] >= 0 => ni'.map[l] = ni.map[l]
    <3>1. CASE ctl.pc = "backup_written"
      BY <3>1 DEF Writing, TableReturns
    <3>2. CASE \A b \in Copies : Synced(b)
      BY <2>1, <3>2 DEF Synced
    <3>. QED  BY <1>1, <2>1, <3>1, <3>2 DEF Current
  <2>. QED  BY <2>1
<1>. QED  BY <1>2, <1>3, <1>4, <1>5, RestStep

(* The end of nmbm_load_info_table and of nmbm_create_info_table.          *)
LEMMA AttachedTables ==
  ASSUME TypeInv, TypeInv', Safe, Tabled,
         SingleClean \/ Attached \/ CreateMap \/ CreateFull \/ Created
  PROVE  Tabled'
<1>1. /\ ctl.pc \in {"single_clean", "attached", "create", "create_full", "created"}
      /\ ctl \in CtlType /\ ni \in NiType
      /\ flash' = flash /\ mark' = mark /\ disk' = disk
  BY DEF SingleClean, Attached, CreateMap, CreateFull, Created, Memory, TypeInv, Types
<1>2. Up /\ ~Writing
  BY <1>1 DEF Up, Writing, TableReturns
<1>3. /\ InOrder /\ Layout /\ Kept /\ Progress
      /\ ni.prot => ni.main = 0
  <2>1. InOrder /\ Layout /\ Kept /\ Progress
    BY <1>2, AtRest
  <2>. QED  BY <1>1, <2>1 DEF Progress
<1>4. /\ ni.top \in Nat /\ ni.mapba \in Nat /\ ni.top <= ni.top /\ ni.count \in Nat
      /\ ni.mapba <= ni.top
  BY <1>3, Numbers DEF Layout
<1>5. ASSUME ctl'.pc \in {"idle", "attached", "create", "update"}
      PROVE  Up' /\ ~Writing' /\ ctl'.pc # "range" /\ ctl'.pc # "created"
  BY <1>5 DEF Up, Writing, TableReturns
<1>6. CASE SingleClean
  <2>1. ni' = Clean(ni) /\ ctl' = [ctl EXCEPT !.pc = "attached"] /\ ctl.pc = "single_clean"
    BY <1>6 DEF SingleClean
  <2>2. /\ ni'.state = ni.state /\ ni'.map = ni.map /\ ni'.wc = ni.wc /\ ni'.top = ni.top
        /\ ni'.prot = ni.prot /\ ni'.main = ni.main /\ ni'.backup = ni.backup
        /\ ctl'.pc = "attached"
    BY <1>1, <2>1 DEF Clean, NiType, CtlType
  <2>. QED  BY <1>1, <1>2, <1>3, <1>4, <1>5, <2>1, <2>2, MemoryRest
<1>7. CASE Attached
  <2>1. ctl' = Idle /\ ctl.pc = "attached"
    BY <1>7 DEF Attached
  <2>2. /\ ni'.state = ni.state /\ ni'.map = ni.map /\ ni'.wc = ni.wc /\ ni'.top = ni.top
        /\ ni'.main = ni.main /\ ni'.backup = ni.backup
        /\ ni.prot => ni'.prot
    BY <1>1, <1>7 DEF Attached, NiType
  <2>3. ctl'.pc = "idle"
    BY <2>1, IdleIs
  <2>. QED  BY <1>1, <1>2, <1>3, <1>4, <1>5, <2>1, <2>2, <2>3, MemoryRest
<1>8. CASE CreateMap /\ ni.count < MgmtStart /\ Unused(ni) # {}
  <2>1. ni' = [MapBlock(ni, ni.count) EXCEPT !.count = @ + 1] /\ ctl' = ctl /\ ctl.pc = "create"
    BY <1>8 DEF CreateMap
  <2>. DEFINE n == MapBlock(ni, ni.count)
  <2>2. ni.count \in Logic
    BY <1>4, <1>8, Sizes DEF Logic
  <2>3. /\ n \in NiType /\ n.map = [ni.map EXCEPT ![ni.count] = Max(Unused(ni))]
        /\ n.top = ni.top - 1 /\ n.state = ni.state
        /\ n.main = ni.main /\ n.backup = ni.backup /\ n.prot = ni.prot
    BY <1>1, <1>8, <2>2, MapBlockIs
  <2>4. n.wc = ni.wc /\ n.changed
    BY <1>1 DEF MapBlock, NiType
  <2>. HIDE DEF n
  <2>5. /\ ni'.map = n.map /\ ni'.state = ni.state /\ ni'.wc = ni.wc
        /\ ni'.main = ni.main /\ ni'.backup = ni.backup /\ ni'.prot = ni.prot
        /\ ni'.changed /\ ni'.top = ni.top - 1
    BY <2>1, <2>3, <2>4 DEF n, NiType
  <2>6. \A l \in Logic : l # ni.count => ni'.map[l] = ni.map[l]
    BY <1>1, <2>3, <2>5 DEF NiType
  <2>7. disk[ni.count] = Any
    BY <1>3, <1>4, <2>2 DEF Kept
  <2>8. ni'.top <= ni.top
    BY <1>4, <2>5
  <2>. QED  BY <1>1, <1>2, <1>3, <1>5, <2>1, <2>5, <2>6, <2>7, <2>8, MemoryRest
<1>9. CASE CreateMap /\ ~(ni.count < MgmtStart /\ Unused(ni) # {})
  <2>1. ni' = ni /\ ctl.pc = "create" /\ \E r : ctl' = [ctl EXCEPT !.pc = "update", !.ret = r]
    BY <1>9 DEF CreateMap
  <2>2. ctl'.pc = "update"
    BY <1>1, <2>1 DEF CtlType
  <2>. QED  BY <1>1, <1>2, <1>3, <1>4, <1>5, <2>1, <2>2, MemoryRest
<1>10. CASE CreateFull
  <2>1. /\ ni' = [ni EXCEPT !.top = ni.mapba] /\ ctl.pc = "create_full"
        /\ ctl' = [ctl EXCEPT !.pc = "update", !.ret = "created"]
    BY <1>10 DEF CreateFull
  <2>2. /\ ni'.state = ni.state /\ ni'.map = ni.map /\ ni'.wc = ni.wc /\ ni'.top = ni.mapba
        /\ ni'.prot = ni.prot /\ ni'.main = ni.main /\ ni'.backup = ni.backup
        /\ ctl'.pc = "update"
    BY <1>1, <2>1 DEF NiType, CtlType
  <2>. QED  BY <1>1, <1>2, <1>3, <1>4, <1>5, <2>1, <2>2, MemoryRest
<1>11. CASE Created
  <2>1. /\ ni' = ni /\ ctl.pc = "created"
        /\ ctl' = [NoControl EXCEPT !.pc = IF ctl.ok THEN "idle" ELSE "dead"]
    BY <1>11 DEF Created
  <2>2. ctl'.pc = IF ctl.ok THEN "idle" ELSE "dead"
    BY <2>1, NoControlIs DEF CtlType
  <2>3. CASE ctl.ok
    BY <1>1, <1>2, <1>3, <1>4, <1>5, <2>1, <2>2, <2>3, MemoryRest
  <2>4. CASE ~ctl.ok
    <3>1. ni.main = 0 /\ ni.backup = 0
      BY <1>3, <2>1, <2>4 DEF Progress, Layout
    <3>2. InOrder'
      BY <1>1, <1>3, SameFlash
    <3>. QED  BY <2>1, <2>2, <2>4, <3>1, <3>2 DEF Tabled, Up
  <2>. QED  BY <2>3, <2>4
<1>. QED  BY <1>6, <1>7, <1>8, <1>9, <1>10, <1>11

-----------------------------------------------------------------------------
(* Calls keep the tables                                                   *)

\* A user's write does not go to a block that is marked bad
MarksHeeded == WriteOk => Physical \notin mark

(* Giving a block up makes it worse, if anything.                          *)
LEMMA CondemnWorse ==
  ASSUME NEW n \in NiType, NEW pb
  PROVE  LET m == Condemn(n, pb)
         IN  /\ m.wc = n.wc /\ (n.changed => m.changed)
             /\ \A c \in Blocks : \/ m.state[c] = n.state[c]
                                  \/ c = pb /\ m.state[c] = "BAD"
<1>1. CASE n.state[pb] = "NEED_REMAP"
  BY <1>1 DEF Condemn
<1>2. CASE n.state[pb] # "NEED_REMAP"
  <2>. DEFINE m == SetBad(n, {pb})
  <2>1. Condemn(n, pb) = m
    BY <1>2 DEF Condemn
  <2>2. m.wc = n.wc /\ \A c \in Blocks : m.state[c] = IF c \in {pb} THEN "BAD" ELSE n.state[c]
    BY SetBadIs
  <2>3. n.changed => m.changed
    BY DEF SetBad, SetState, NiType
  <2>. HIDE DEF m
  <2>. QED  BY <2>1, <2>2, <2>3
<1>. QED  BY <1>1, <1>2

(* Users' blocks hold no table.                                            *)
LEMMA UsersHaveNone ==
  ASSUME TypeInv, Safe, Tabled, Up, ~Writing
  PROVE  \A l \in Logic : ni.map[l] \notin Copies
<1>1. \A b \in Copies : b \in Nat /\ MgmtStart <= b /\ b <= ni.top
  BY AtRest, CopiesAre
<1>. QED  BY <1>1, AreaFree

(* A call changes the block of one logic block.                            *)
LEMMA BlockCall ==
  ASSUME TypeInv, TypeInv', Safe, Tabled, Up, ~Writing, Up', ~Writing',
         ctl.pc \notin {"update", "create"}, ni.prot => ni.main = 0,
         ctl'.pc # "range", ctl'.pc # "created",
         NEW lb \in Logic, NEW p \in Blocks, p = ni.map[lb],
         \A c \in Blocks : c # p => flash'[c] = flash[c] /\ ni'.state[c] = ni.state[c],
         flash'[p] = flash[p] \/ flash'[p].kind # "table",
         mark \subseteq mark', mark' \subseteq mark \cup {p},
         ni'.main = ni.main, ni'.backup = ni.backup, ni'.wc = ni.wc, ni'.top = ni.top,
         ni'.prot = ni.prot, Ages(ni.state, ni'.state),
         \A l \in Logic : l # lb => ni'.map[l] = ni.map[l] /\ disk'[l] = disk[l],
         ni'.map[lb] \in {p, -1},
         disk'[lb] # Any => ni'.map[lb] = p /\ p \notin mark'
  PROVE  Tabled'
<1>1. /\ At = ctl.pc /\ Agree /\ Current /\ Keep = Copies /\ Separate /\ Kept
      /\ ni.main = 0 => Copies = {}
  BY AtRest
<1>2. \A b \in Copies : Synced(b)
  <2>1. ctl.pc # "backup_written"
    BY DEF Writing, TableReturns
  <2>. QED  BY <1>1, <2>1 DEF Current
<1>3. p \notin Copies /\ Copies \subseteq Blocks
  BY UsersHaveNone, CopiesAre
<1>4. Copies' = Copies
  <2>1. p \notin Copies'
    BY <1>3 DEF Copies
  <2>2. \A c \in Blocks : c # p => (c \in Copies' <=> c \in Copies)
    BY DEF Copies
  <2>3. Copies' \subseteq Blocks
    BY DEF Copies
  <2>4. \A c \in Blocks : c \in Copies' <=> c \in Copies
    BY <1>3, <2>1, <2>2
  <2>. QED  BY <1>3, <2>3, <2>4
<1>5. \A b \in Copies : flash'[b] = flash[b] /\ ni'.state[b] = ni.state[b]
  BY <1>3
<1>6. p >= 0 /\ \A l \in Logic : l # lb /\ disk[l] # Any => ni.map[l] # p
  <2>1. p >= 0
    BY Sizes
  <2>. QED  BY <1>1, <2>1 DEF Separate, Injective
<1>7. ASSUME NEW l \in Logic, disk'[l] # Any
      PROVE  ni'.map[l] \notin mark' /\ \A b \in Copies : flash[b].map[l] = ni'.map[l]
  <2>1. CASE l = lb
    BY <1>2, <1>6, <1>7, <2>1 DEF Synced
  <2>2. CASE l # lb
    BY <1>1, <1>6, <1>7, <2>2 DEF Agree
  <2>. QED  BY <2>1, <2>2
<1>8. \A b \in Copies, l \in Logic : ni'.map[l] >= 0 => flash[b].map[l] = ni'.map[l]
  <2>. SUFFICES ASSUME NEW b \in Copies, NEW l \in Logic, ni'.map[l] >= 0
                PROVE  flash[b].map[l] = ni'.map[l]
    OBVIOUS
  <2>1. ni'.map[l] = ni.map[l]
    BY <1>6
  <2>. QED  BY <1>2, <2>1 DEF Synced
<1>9. ni'.top <= ni.top
  BY Numbers
<1>. QED  BY <1>4, <1>5, <1>7, <1>8, <1>9, RestStep

(* A user begins a call.                                                   *)
LEMMA CallsTables ==
  ASSUME TypeInv, TypeInv', Safe, Tabled, MarksWork, Calls
  PROVE  Tabled'
<1>1. /\ ni \in NiType /\ ctl \in CtlType /\ ctl.pc = "idle"
      /\ disk \in [Logic -> {Any, Erased} \cup DataType]
      /\ ni.map \in [Logic -> PhysicalOrNone]
  BY DEF Calls, Erase, MarkBad, Write, Detach, Begin, CanCall, TypeInv, Types, NiType
<1>2. Up /\ ~Writing
  BY <1>1 DEF Up, Writing, TableReturns
<1>3. ni.top <= ni.top
  BY Numbers
<1>4. ASSUME NEW lb \in Logic, NEW pc \in {"erase", "write"}, NEW v, Begin(lb, pc, v)
      PROVE  Tabled'
  <2>1. /\ ~ni.prot /\ ni' = ni /\ flash' = flash /\ mark' = mark
        /\ ctl' = [ctl EXCEPT !.pc = pc, !.lb = lb, !.val = v]
        /\ disk' = [disk EXCEPT ![lb] = Any]
    BY <1>4 DEF Begin, CanCall
  <2>2. ctl'.pc = pc
    BY <1>1, <2>1 DEF CtlType
  <2>3. Up' /\ ~Writing' /\ ctl'.pc # "range" /\ ctl'.pc # "created"
    BY <2>2 DEF Up, Writing, TableReturns
  <2>4. \A l \in Logic : disk'[l] # Any => disk[l] # Any
    BY <1>1, <2>1
  <2>. QED  BY <1>1, <1>2, <1>3, <2>1, <2>3, <2>4, MemoryRest
<1>5. ASSUME NEW lb \in Logic, MarkBad(lb)
      PROVE  Tabled'
  <2>0. PICK p : p = ni.map[lb]
    OBVIOUS
  <2>. DEFINE n == Unmap(ni, lb)
  <2>1. /\ ~ni.prot /\ ni' = SetBad(n, {p}) /\ flash' = flash /\ p >= 0
        /\ ctl' = [ctl EXCEPT !.pc = "update", !.ret = "idle"]
        /\ disk' = [disk EXCEPT ![lb] = Any]
        /\ MarkBlock(p, 1)
    BY <1>5, <2>0 DEF MarkBad, CanCall
  <2>2. p \in Blocks
    BY <2>0, <2>1, Numbers DEF PhysicalOrNone
  <2>3. mark \subseteq mark' /\ mark' \subseteq mark \cup {p}
    BY <2>1 DEF MarkBlock
  <2>4. /\ n \in NiType /\ n.count = ni.count /\ SamePlaces(ni, n) /\ n.state = ni.state
        /\ n.map = [ni.map EXCEPT ![lb] = -1]
    BY <1>1, UnmapIs
  <2>5. n.wc = ni.wc
    BY <1>1 DEF Unmap, NiType
  <2>. HIDE DEF n
  <2>6. /\ SameMap(n, ni') /\ SamePlaces(n, ni') /\ ni'.wc = n.wc
        /\ \A c \in Blocks : ni'.state[c] = IF c \in {p} THEN "BAD" ELSE n.state[c]
    BY <2>1, <2>4, SetBadIs
  <2>7. /\ ni'.map = [ni.map EXCEPT ![lb] = -1]
        /\ ni'.main = ni.main /\ ni'.backup = ni.backup /\ ni'.wc = ni.wc /\ ni'.top = ni.top
        /\ ni'.prot = ni.prot
        /\ \A c \in Blocks : c # p => flash'[c] = flash[c] /\ ni'.state[c] = ni.state[c]
        /\ Ages(ni.state, ni'.state)
    BY <2>1, <2>4, <2>5, <2>6 DEF SameMap, SamePlaces, Ages
  <2>8. ctl'.pc = "update"
    BY <1>1, <2>1 DEF CtlType
  <2>9. Up' /\ ~Writing' /\ ctl'.pc # "range" /\ ctl'.pc # "created"
    BY <2>8 DEF Up, Writing, TableReturns
  <2>10. /\ disk'[lb] = Any /\ ni'.map[lb] \in {p, -1}
         /\ \A l \in Logic : l # lb => ni'.map[l] = ni.map[l] /\ disk'[l] = disk[l]
    BY <1>1, <2>1, <2>7
  <2>. QED  BY <1>1, <1>2, <2>0, <2>1, <2>2, <2>3, <2>7, <2>9, <2>10, BlockCall
<1>6. ASSUME Detach
      PROVE  Tabled'
  <2>1. /\ ni' = ni /\ flash' = flash /\ mark' = mark /\ disk' = disk
        /\ ctl' = [ctl EXCEPT !.pc = "update", !.ret = "detached"]
    BY <1>6 DEF Detach, ghosts
  <2>2. ctl'.pc = "update" /\ ctl'.ret = "detached"
    BY <1>1, <2>1 DEF CtlType
  <2>3. Up' /\ ~Writing' /\ ctl'.pc # "range" /\ ctl'.pc # "created"
    BY <2>2 DEF Up, Writing, TableReturns
  <2>. QED  BY <1>1, <1>2, <1>3, <2>1, <2>2, <2>3, MemoryRest
<1>. QED  BY <1>4, <1>5, <1>6 DEF Calls, Erase, Write

(* The calls of users at work.                                             *)
LEMMA WorkingTables ==
  ASSUME TypeInv, TypeInv', Safe, Tabled, MarksWork, MarksHeeded,
         \/ EraseOk \/ EraseFails \/ EraseRefused \/ Remap \/ RemapFails \/ NoSpare
         \/ WriteOk \/ WriteFails \/ WriteRefused
  PROVE  Tabled'
<1>0. PICK lb, p : lb = ctl.lb /\ p = Physical
  OBVIOUS
<1>1. /\ ni \in NiType /\ ctl \in CtlType /\ flash \in [Blocks -> Content]
      /\ ctl.pc \in {"erase", "remap", "no_spare", "write"}
      /\ disk \in [Logic -> {Any, Erased} \cup DataType]
      /\ ni.map \in [Logic -> PhysicalOrNone]
      /\ ctl.val \in {Erased} \cup DataType
  BY DEF EraseOk, EraseFails, EraseRefused, Remap, RemapFails, NoSpare, WriteOk,
         WriteFails, WriteRefused, TypeInv, Types, NiType, CtlType
<1>2. /\ Up /\ ~Writing /\ ctl.pc \notin {"update", "create"}
      /\ lb \in Logic /\ p = ni.map[lb]
  BY <1>0, <1>1, Numbers DEF Up, Writing, TableReturns, Physical
<1>3. /\ Layout /\ Caller /\ Progress
      /\ \A l \in Logic : ni.map[l] \notin Copies
  BY <1>2, AtRest, UsersHaveNone
<1>4. /\ disk[lb] = Any /\ (ni.prot => ni.main = 0) /\ p \notin Copies
      /\ p >= 0 => p \in Blocks
      /\ ni.mapba <= ni.top /\ ni.top \in Nat /\ ni.mapba \in Nat /\ ni.top <= ni.top
  <2>1. disk[lb] = Any
    BY <1>0, <1>1, <1>3 DEF Caller, Callers
  <2>2. ni.prot => ni.main = 0
    BY <1>1, <1>3 DEF Progress
  <2>3. p >= 0 => p \in Blocks
    BY <1>2, Numbers DEF PhysicalOrNone
  <2>. QED  BY <1>2, <1>3, <2>1, <2>2, <2>3, Numbers DEF Layout
<1>5. ASSUME ctl'.pc \in {"idle", "update", "remap"}
      PROVE  Up' /\ ~Writing' /\ ctl'.pc # "range" /\ ctl'.pc # "created"
  BY <1>5 DEF Up, Writing, TableReturns
<1>6. \A x, r : /\ [ctl EXCEPT !.pc = x].pc = x
                /\ [ctl EXCEPT !.pc = x, !.ret = r].pc = x
  BY <1>1 DEF CtlType
<1>7. Idle.pc = "idle"
  BY IdleIs
<1>8. ASSUME NEW v, v.kind # "table", NEW d, p \in Blocks,
             flash' = [flash EXCEPT ![p] = v], disk' = [disk EXCEPT ![lb] = d],
             d # Any => p \notin mark, mark' = mark, ni' = ni, ctl' = Idle
      PROVE  Tabled'
  <2>1. /\ \A c \in Blocks : c # p => flash'[c] = flash[c] /\ ni'.state[c] = ni.state[c]
        /\ flash'[p] = flash[p] \/ flash'[p].kind # "table"
        /\ \A l \in Logic : l # lb => ni'.map[l] = ni.map[l] /\ disk'[l] = disk[l]
        /\ disk'[lb] # Any => p \notin mark'
        /\ Ages(ni.state, ni'.state)
    BY <1>1, <1>2, <1>8, AgesRefl
  <2>. QED  BY <1>2, <1>4, <1>5, <1>7, <1>8, <2>1, BlockCall
<1>9. CASE EraseOk
  <2>1. /\ p >= 0 /\ p \notin mark /\ flash' = [flash EXCEPT ![p] = Erased]
        /\ disk' = [disk EXCEPT ![lb] = Erased] /\ ctl' = Idle /\ mark' = mark /\ ni' = ni
    BY <1>0, <1>9 DEF EraseOk, Sound
  <2>2. Erased.kind # "table"
    BY DEF Erased
  <2>. QED  BY <1>4, <1>8, <2>1, <2>2
<1>10. CASE WriteOk
  <2>1. /\ p >= 0 /\ p \notin mark /\ ctl' = Idle /\ mark' = mark /\ ni' = ni
        /\ \/ /\ flash' = [flash EXCEPT ![p] = ctl.val]
              /\ disk' = [disk EXCEPT ![lb] = ctl.val]
           \/ /\ flash' = [flash EXCEPT ![p] = Torn]
              /\ disk' = [disk EXCEPT ![lb] = Any]
    BY <1>0, <1>10 DEF WriteOk, Writable, MarksHeeded
  <2>2. ctl.val.kind # "table" /\ Torn.kind # "table"
    BY <1>1 DEF Erased, Torn, DataType
  <2>. QED  BY <1>4, <1>8, <2>1, <2>2
<1>11. ASSUME NEW s \in States, p \in Blocks, ni' = SetState(ni, {p}, s),
              s = "BAD" \/ (s # "GOOD" /\ ni.state[p] # "BAD"),
              \A c \in Blocks : c # p => flash'[c] = flash[c],
              flash'[p] = flash[p] \/ flash'[p].kind # "table",
              mark \subseteq mark', mark' \subseteq mark \cup {p}, disk' = disk,
              ctl'.pc \in {"idle", "update", "remap"}
       PROVE  Tabled'
  <2>1. /\ SameMap(ni, ni') /\ SamePlaces(ni, ni') /\ ni'.wc = ni.wc
        /\ \A c \in Blocks : ni'.state[c] = IF c \in {p} THEN s ELSE ni.state[c]
    BY <1>1, <1>11, SetStateIs
  <2>2. /\ ni'.map = ni.map /\ ni'.main = ni.main /\ ni'.backup = ni.backup
        /\ ni'.top = ni.top /\ ni'.prot = ni.prot
        /\ \A c \in Blocks : c # p => flash'[c] = flash[c] /\ ni'.state[c] = ni.state[c]
    BY <1>11, <2>1 DEF SameMap, SamePlaces
  <2>3. Ages(ni.state, ni'.state)
    BY <1>11, <2>1 DEF Ages
  <2>4. disk'[lb] = Any /\ ni'.map[lb] \in {p, -1}
    BY <1>2, <1>4, <1>11, <2>2
  <2>5. Up' /\ ~Writing' /\ ctl'.pc # "range" /\ ctl'.pc # "created"
    BY <1>5, <1>11
  <2>. QED  BY <1>2, <1>4, <1>11, <2>1, <2>2, <2>3, <2>4, <2>5, BlockCall, SMTT(40)
<1>12. "BAD" \in States /\ "NEED_REMAP" \in States
  BY DEF States
<1>13. CASE EraseFails
  <2>1. /\ p >= 0 /\ BlockFails(p) /\ ni' = SetState(ni, {p}, "BAD") /\ disk' = disk
        /\ ctl' = [ctl EXCEPT !.pc = "remap"]
    BY <1>0, <1>13 DEF EraseFails, Sound, SetBad, ghosts
  <2>2. mark' = mark \cup {p} /\ flash' = [flash EXCEPT ![p] = Torn] /\ p \in Blocks
    BY <1>4, <2>1, FailsMarked
  <2>3. /\ \A c \in Blocks : c # p => flash'[c] = flash[c]
        /\ flash'[p].kind # "table"
    BY <1>1, <2>2 DEF Torn
  <2>4. ctl'.pc = "remap" /\ mark \subseteq mark' /\ mark' \subseteq mark \cup {p}
    BY <1>6, <2>1, <2>2
  <2>. QED  BY <1>11, <1>12, <2>1, <2>2, <2>3, <2>4
<1>14. CASE WriteFails
  <2>1. /\ p >= 0 /\ ni.state[p] # "BAD" /\ ni' = SetState(ni, {p}, "NEED_REMAP")
        /\ flash' = [flash EXCEPT ![p] = Torn] /\ disk' = disk /\ mark' = mark
        /\ ctl' = [ctl EXCEPT !.pc = "update", !.ret = "idle"]
    BY <1>0, <1>14 DEF WriteFails, Writable, ghosts
  <2>2. /\ \A c \in Blocks : c # p => flash'[c] = flash[c]
        /\ flash'[p].kind # "table" /\ p \in Blocks /\ ctl'.pc = "update"
    BY <1>1, <1>4, <1>6, <2>1 DEF Torn
  <2>. QED  BY <1>11, <1>12, <2>1, <2>2
<1>15. ASSUME ni' = ni, flash' = flash, mark' = mark, disk' = disk,
              ctl'.pc \in {"idle", "update", "remap"}
       PROVE  Tabled'
  BY <1>2, <1>4, <1>5, <1>15, MemoryRest
<1>16. CASE WriteRefused
  <2>1. ni' = ni /\ ctl' = Idle /\ Memory
    BY <1>16 DEF WriteRefused
  <2>. QED  BY <1>7, <1>15, <2>1 DEF Memory
<1>17. CASE EraseRefused
  <2>1. /\ flash' = flash /\ mark' = mark /\ disk' = disk
        /\ \/ ctl' = Idle /\ ni' = ni
           \/ ctl' = [ctl EXCEPT !.pc = "remap"] /\ ni' = ni
           \/ /\ ctl' = [ctl EXCEPT !.pc = "remap"] /\ ni' = SetState(ni, {p}, "BAD")
              /\ ~(p < 0)
    BY <1>0, <1>17 DEF EraseRefused, Memory, SetBad
  <2>2. CASE ni' = ni
    BY <1>6, <1>7, <1>15, <2>1, <2>2
  <2>3. CASE /\ ctl' = [ctl EXCEPT !.pc = "remap"] /\ ni' = SetState(ni, {p}, "BAD")
             /\ ~(p < 0)
    <3>1. p \in Blocks
      <4>1. p \in Int
        BY <1>2, Numbers
      <4>. QED  BY <1>4, <2>3, <4>1
    <3>. QED  BY <1>6, <1>11, <1>12, <2>1, <2>3, <3>1
  <2>. QED  BY <2>1, <2>2, <2>3
<1>18. ASSUME NEW n \in NiType, n.main = ni.main, n.backup = ni.backup, n.wc = ni.wc,
              n.state = ni.state, n.prot = ni.prot, n.top <= ni.top,
              \A l \in Logic : l # lb => n.map[l] = ni.map[l],
              n.map[lb] = -1 \/ n.changed, ni' = Condemn(n, p),
              flash' = flash, mark' = mark, disk' = disk, ctl'.pc = "update"
       PROVE  Tabled'
  <2>1. SameMap(n, ni') /\ SamePlaces(n, ni')
    BY <1>18, CondemnIs
  <2>2. /\ ni'.wc = n.wc /\ (n.changed => ni'.changed)
        /\ \A c \in Blocks : \/ ni'.state[c] = n.state[c]
                             \/ c = p /\ ni'.state[c] = "BAD"
    BY <1>18, CondemnWorse
  <2>3. /\ ni'.map = n.map /\ ni'.main = ni.main /\ ni'.backup = ni.backup
        /\ ni'.wc = ni.wc /\ ni'.top <= ni.top /\ ni'.prot = ni.prot
    BY <1>18, <2>1, <2>2 DEF SameMap, SamePlaces
  <2>4. \A c \in Blocks : \/ ni'.state[c] = ni.state[c]
                          \/ c \notin Copies /\ ni'.state[c] = "BAD"
    BY <1>4, <1>18, <2>2
  <2>5. \A l \in Logic : disk'[l] # Any => disk[l] # Any /\ ni'.map[l] = ni.map[l]
    BY <1>4, <1>18, <2>3
  <2>6. \/ ni'.changed
        \/ \A l \in Logic : ni'.map[l] >= 0 => ni'.map[l] = ni.map[l]
    <3>1. CASE n.map[lb] = -1
      <4>1. ~(-1 >= 0)
        OBVIOUS
      <4>. QED  BY <1>18, <2>3, <3>1, <4>1
    <3>. QED  BY <1>18, <2>2, <3>1
  <2>. QED  BY <1>2, <1>4, <1>5, <1>18, <2>3, <2>4, <2>5, <2>6, MemoryRest
<1>19. CASE Remap
  <2>. DEFINE n == MapBlock(ni, lb)
  <2>1. /\ Unused(ni) # {} /\ ni' = Condemn(n, p)
        /\ ctl' = [ctl EXCEPT !.pc = "update", !.ret = "erase"]
        /\ flash' = flash /\ mark' = mark /\ disk' = disk
    BY <1>0, <1>19 DEF Remap
  <2>2. /\ n \in NiType /\ n.map = [ni.map EXCEPT ![lb] = Max(Unused(ni))]
        /\ n.top = ni.top - 1 /\ n.state = ni.state
        /\ n.main = ni.main /\ n.backup = ni.backup /\ n.prot = ni.prot
    BY <1>1, <1>2, <2>1, MapBlockIs
  <2>3. n.wc = ni.wc /\ n.changed
    BY <1>1 DEF MapBlock, NiType
  <2>. HIDE DEF n
  <2>4. /\ \A l \in Logic : l # lb => n.map[l] = ni.map[l]
        /\ n.top <= ni.top /\ ctl'.pc = "update"
    BY <1>1, <1>4, <1>6, <2>1, <2>2
  <2>. QED  BY <1>18, <2>1, <2>2, <2>3, <2>4
<1>20. ASSUME NEW m \in NiType, m.main = ni.main, m.backup = ni.backup, m.wc = ni.wc,
              m.state = ni.state, m.prot = ni.prot, m.top <= ni.top, m.map = ni.map,
              ni' = Condemn(Unmap(m, lb), p),
              flash' = flash, mark' = mark, disk' = disk, ctl'.pc = "update"
       PROVE  Tabled'
  <2>. DEFINE n == Unmap(m, lb)
  <2>1. /\ n \in NiType /\ SamePlaces(m, n) /\ n.state = m.state
        /\ n.map = [m.map EXCEPT ![lb] = -1]
    BY <1>2, <1>20, UnmapIs
  <2>2. n.wc = m.wc
    BY <1>20 DEF Unmap, NiType
  <2>. HIDE DEF n
  <2>3. /\ \A l \in Logic : l # lb => n.map[l] = ni.map[l]
        /\ n.map[lb] = -1 /\ n.main = ni.main /\ n.backup = ni.backup /\ n.prot = ni.prot
        /\ n.top <= ni.top /\ ni' = Condemn(n, p) /\ n.state = ni.state /\ n.wc = ni.wc
    BY <1>1, <1>2, <1>20, <2>1, <2>2 DEF SamePlaces, n
  <2>. QED  BY <1>18, <1>20, <2>1, <2>3
<1>21. CASE RemapFails
  <2>1. /\ flash' = flash /\ mark' = mark /\ disk' = disk
        /\ \/ /\ ni' = Condemn(Unmap(ni, lb), p)
              /\ ctl' = [ctl EXCEPT !.pc = "update", !.ret = "idle"]
           \/ /\ ni' = ni
              /\ ctl' = [ctl EXCEPT !.pc = "update", !.ret = "no_spare"]
    BY <1>0, <1>21 DEF RemapFails, Memory
  <2>2. CASE /\ ni' = Condemn(Unmap(ni, lb), p)
             /\ ctl' = [ctl EXCEPT !.pc = "update", !.ret = "idle"]
    <3>1. ctl'.pc = "update" /\ ni.top <= ni.top
      BY <1>4, <1>6, <2>2
    <3>. QED  BY <1>1, <1>20, <2>1, <2>2, <3>1
  <2>3. CASE /\ ni' = ni
             /\ ctl' = [ctl EXCEPT !.pc = "update", !.ret = "no_spare"]
    <3>1. ctl'.pc = "update"
      BY <1>6, <2>3
    <3>. QED  BY <1>15, <2>1, <2>3, <3>1
  <2>. QED  BY <2>1, <2>2, <2>3
<1>22. CASE NoSpare
  <2>. DEFINE m == [ni EXCEPT !.top = ni.mapba]
  <2>1. /\ flash' = flash /\ mark' = mark /\ disk' = disk
        /\ ni' = Condemn(Unmap(m, lb), p)
        /\ ctl' = [ctl EXCEPT !.pc = "update", !.ret = "idle"]
    BY <1>0, <1>22 DEF NoSpare, Memory
  <2>2. /\ m \in NiType /\ m.main = ni.main /\ m.backup = ni.backup /\ m.wc = ni.wc
        /\ m.state = ni.state /\ m.prot = ni.prot /\ m.top = ni.mapba /\ m.map = ni.map
    BY <1>1 DEF NiType
  <2>. HIDE DEF m
  <2>. QED  BY <1>4, <1>6, <1>20, <2>1, <2>2
<1>. QED  BY <1>9, <1>10, <1>13, <1>14, <1>16, <1>17, <1>19, <1>21, <1>22

-----------------------------------------------------------------------------
(* nmbm_attach and the end of a session keep the tables                    *)

(* The memory after nmbm_load_info_table agrees with the tables.           *)
LEMMA LoadedTables ==
  ASSUME TypeInv, TypeInv', InOrder, Leads, Copies # {}, Memory,
         NEW n, n = LoadTables, SameMap(n, ni'), SamePlaces(n, ni'), ni'.state = n.state,
         ni'.wc = IF n.changed THEN n.wc + 1 ELSE n.wc
  PROVE  /\ Copies' = Copies /\ InOrder' /\ Older' /\ Agree' /\ ~ni'.prot
         /\ ni'.main = n.main /\ ni'.backup = n.backup /\ ni'.top = n.top /\ ni'.map = n.map
         /\ ni'.main < ni'.top
         /\ ni'.backup # 0 => /\ ni'.main < ni'.backup /\ ni'.backup < ni'.top
                              /\ \A b \in Copies : Low(flash[b].state, ni.main)'
                              /\ Low(ni.state, ni.main)'
         /\ \A b \in Copies : flash[b].map = n.map => TopFree(b)' /\ Synced(b)'
         /\ /\ New' = {} /\ ctl'.cache.kind = "table" /\ ctl'.cache.wc = ni'.wc
            /\ ctl'.cache.map = ni'.map /\ ctl'.cache.state = ni'.state
            => Cached'
<1>1. /\ flash' = flash /\ mark' = mark /\ disk' = disk /\ flash \in [Blocks -> Content]
      /\ ni'.main = n.main /\ ni'.backup = n.backup /\ ni'.mapba = n.mapba
      /\ ni'.top = n.top /\ ni'.map = n.map /\ ni'.prot = n.prot
  BY DEF Memory, SameMap, SamePlaces, TypeInv, Types
<1>2. Copies' = Copies /\ InOrder'
  BY <1>1, SameFlash
<1>3. /\ n \in NiType /\ ~n.prot /\ n.wc \in Nat
  <2>1. n \in NiType /\ ~n.prot
    BY <1>1, LoadIs
  <2>. QED  BY <2>1 DEF NiType
<1>4. /\ n.main \in Copies /\ n.main # 0
      /\ n.backup = 0 => Copies = {n.main}
      /\ n.backup # 0 => Copies = {n.main, n.backup} /\ n.main < n.backup
      /\ n.mapba <= n.top
  BY LoadSees
<1>5. PICK b \in Copies : Chosen(n, b)
  BY LoadSees
<1>6. /\ Ages(flash[b].state, n.state) /\ n.map = flash[b].map /\ n.wc = flash[b].wc
      /\ ~n.changed => n.state = flash[b].state
  <2>1. Ages(flash[b].state, n.state)
    BY <1>5, ChosenIs
  <2>. QED  BY <1>5, <2>1 DEF Chosen
<1>7. \A c \in Copies :
        /\ flash[c].wc <= n.wc /\ Ages(flash[c].state, n.state)
        /\ n.state[c] = "GOOD" /\ flash[c].wc \in Nat
        /\ flash[c].wc = n.wc => flash[c].map = n.map /\ Ages(flash[b].state, flash[c].state)
  BY <1>5, ChosenIs, CopiesAre
<1>8. /\ n.main < n.mapba /\ (n.backup # 0 => n.backup < n.mapba)
      /\ \A l \in Logic : n.map[l] >= MgmtStart => n.map[l] > n.top
  BY <1>1, <1>4, LoadIs
<1>9. ni'.main < ni'.top /\ (ni'.backup # 0 => ni'.main < ni'.backup /\ ni'.backup < ni'.top)
  BY <1>1, <1>4, <1>8, NextNumbers
<1>10. Older'
  <2>1. \A c \in Copies : flash[c].wc <= ni'.wc
    BY <1>3, <1>7
  <2>. QED  BY <1>1, <1>2, <1>7, <2>1 DEF Older, Ages
<1>11. Agree'
  <2>1. \A l \in Logic : disk[l] # Any =>
          n.map[l] \notin mark /\ \A c \in Copies : flash[c].map[l] = n.map[l]
    BY <1>6 DEF Leads
  <2>. QED  BY <1>1, <1>2, <2>1 DEF Agree
<1>12. ASSUME n.backup # 0
       PROVE  /\ \A c \in Copies : Low(flash[c].state, ni.main)'
              /\ Low(ni.state, ni.main)'
  <2>1. Pair(n.main, n.backup)
    BY <1>4, <1>12 DEF InOrder
  <2>2. \A c \in Copies : Low(flash[c].state, n.main)
    BY <1>4, <1>12, <2>1 DEF Pair
  <2>3. Low(n.state, n.main)
    BY <1>6, <2>2 DEF Low, Ages
  <2>. QED  BY <1>1, <2>2, <2>3 DEF Low
<1>13. \A c \in Copies : flash[c].map = n.map => TopFree(c)' /\ Synced(c)'
  BY <1>1, <1>8 DEF TopFree, Synced
<1>14. ASSUME New' = {}, ctl'.cache.kind = "table", ctl'.cache.wc = ni'.wc,
              ctl'.cache.map = ni'.map, ctl'.cache.state = ni'.state
       PROVE  Cached'
  <2>1. ASSUME NEW c \in Copies, flash[c].wc = ni'.wc
        PROVE  flash[c].map = ni'.map /\ Ages(ni'.state, flash[c].state)
    <3>1. ~n.changed /\ flash[c].wc = n.wc
      BY <1>3, <1>7, <2>1
    <3>. QED  BY <1>1, <1>6, <1>7, <3>1
  <2>2. Ages(ni'.state, ni'.state)
    BY AgesRefl
  <2>. QED  BY <1>1, <1>2, <1>7, <1>14, <2>1, <2>2 DEF Cached, Ages
<1>. QED  BY <1>1, <1>2, <1>3, <1>9, <1>10, <1>11, <1>12, <1>13, <1>14

(* One table was found.                                                    *)
LEMMA SingleTables ==
  ASSUME TypeInv, TypeInv', Tabled, AttachSingle
  PROVE  Tabled'
<1>0. PICK n : n = LoadTables
  OBVIOUS
<1>1. /\ ctl.pc = "off" /\ Memory /\ n.main # 0 /\ n.backup = 0 /\ ni' = Generate(n)
      /\ ctl' = WriteTable(Loading(ni'), MgmtStart, ni'.main, "single_front")
      /\ flash \in [Blocks -> Content] /\ flash' = flash /\ mark' = mark
  BY <1>0 DEF AttachSingle, RescueSingle, TypeInv, Types, Memory
<1>2. InOrder /\ Leads
  BY <1>1 DEF Tabled
<1>3. Copies # {} /\ Copies = {n.main}
  BY <1>0, <1>1, <1>2, LoadSees
<1>4. n \in NiType
  BY <1>0, <1>1, LoadIs
<1>5. /\ SameMap(n, ni') /\ SamePlaces(n, ni') /\ ni'.state = n.state
      /\ ni'.wc = IF n.changed THEN n.wc + 1 ELSE n.wc
  <2>1. SameMap(n, ni') /\ SamePlaces(n, ni') /\ ni'.state = n.state
    BY <1>1, <1>4, GenerateIs
  <2>2. ni'.wc = IF n.changed THEN n.wc + 1 ELSE n.wc
    BY <1>1, <1>4 DEF Generate, NiType
  <2>. QED  BY <2>1, <2>2
<1>6. Chosen(n, n.main)
  <2>1. PICK b \in Copies : Chosen(n, b)
    BY <1>0, <1>2, <1>3, LoadSees
  <2>. QED  BY <1>3, <2>1
<1>7. n.map = flash[n.main].map
  BY <1>6 DEF Chosen
<1>8. /\ Loading(ni') \in CtlType /\ Loading(ni').cache = Table(ni')
  <2>1. Loading(ni') \in CtlType
    BY <1>1, <1>4, LoadingIs
  <2>. QED  BY <2>1, NoControlIs DEF Loading, CtlType
<1>9. /\ ctl'.pc = "table" /\ ctl'.next = "single_front"
      /\ ctl'.ba = MgmtStart /\ ctl'.limit = ni'.main /\ ctl'.cache = Table(ni')
  BY <1>1, <1>8 DEF WriteTable, CtlType
<1>10. /\ ctl'.cache.kind = "table" /\ ctl'.cache.wc = ni'.wc
       /\ ctl'.cache.map = ni'.map /\ ctl'.cache.state = ni'.state
  BY <1>9 DEF Table
<1>11. /\ Up' /\ Writing' /\ New' = {} /\ At' = "single_front" /\ Floor' = MgmtStart
       /\ ctl'.pc # "off" /\ ctl'.pc # "dead" /\ Keep' = {ni'.main} \ {0}
       /\ ctl'.pc \notin TableReturns
  BY <1>9 DEF Up, Writing, New, At, Floor, Front, Keep, TableReturns
<1>12. /\ Copies' = Copies /\ InOrder' /\ Older' /\ Agree' /\ ~ni'.prot
       /\ ni'.main = n.main /\ TopFree(n.main)' /\ Synced(n.main)' /\ Cached'
  BY <1>0, <1>1, <1>2, <1>3, <1>5, <1>7, <1>10, <1>11, LoadedTables
<1>13. Keep' = Copies /\ Keep' = {n.main}
  BY <1>1, <1>3, <1>11, <1>12
<1>14. Whole'
  BY <1>11, <1>12, <1>13 DEF Whole
<1>15. Progress'
  BY <1>9, <1>11, <1>12 DEF Progress, TableReturns
<1>16. Placed'
  <2>1. \A c \in Blocks : ~(MgmtStart <= c /\ c < MgmtStart)
    BY Sizes
  <2>2. \A s : Low(s, Floor)'
    BY <1>11, <2>1 DEF Low
  <2>. QED  BY <1>12, <1>13, <2>2 DEF Placed
<1>17. Current'
  BY <1>12, <1>13 DEF Current
<1>18. Ahead'
  <2>1. n.main \in Nat
    BY <1>3, CopiesAre
  <2>2. ASSUME NEW c \in Blocks, c < n.main
        PROVE  ni'.state[c] = flash[n.main].state[c]
    <3>1. ~(n.main < c)
      BY <2>1, <2>2, Sizes
    <3>. QED  BY <1>5, <1>6, <3>1 DEF Chosen
  <2>. QED  BY <1>1, <1>9, <1>12, <1>13, <2>2 DEF Ahead
<1>19. Known'
  BY <1>12, <1>14, <1>15, <1>16, <1>17, <1>18 DEF Known
<1>. QED  BY <1>11, <1>12, <1>19 DEF Tabled

(* Two tables were found: the one written less often is written again.     *)
LEMMA TwoTables ==
  ASSUME TypeInv, TypeInv', Tabled, AttachTwo
  PROVE  Tabled'
<1>0. PICK n, g : n = LoadTables /\ g = Generate(n)
  OBVIOUS
<1>1. /\ ctl.pc = "off" /\ Memory /\ n.main # 0 /\ n.backup # 0
      /\ flash \in [Blocks -> Content] /\ flash' = flash /\ mark' = mark
      /\ \/ /\ flash[g.main].wc = flash[g.backup].wc
            /\ ni' = g /\ ctl' = [NoControl EXCEPT !.pc = "attached"]
         \/ /\ flash[g.main].wc # flash[g.backup].wc
            /\ ni' = [g EXCEPT !.changed = TRUE]
            /\ ctl' = IF flash[g.main].wc < flash[g.backup].wc
                      THEN WriteTable(Loading(g), g.main, g.backup, "one_main")
                      ELSE WriteTable(Loading(g), g.backup, g.top, "one_backup")
  BY <1>0 DEF AttachTwo, TypeInv, Types, Memory
<1>2. InOrder /\ Leads
  BY <1>1 DEF Tabled
<1>3. /\ Copies # {} /\ Copies = {n.main, n.backup} /\ n.main < n.backup
      /\ n.main \in Nat /\ n.backup \in Nat
      /\ flash[n.main].wc \in Nat /\ flash[n.backup].wc \in Nat
  <2>1. Copies # {} /\ Copies = {n.main, n.backup} /\ n.main < n.backup
    BY <1>0, <1>1, <1>2, LoadSees
  <2>. QED  BY <2>1, CopiesAre
<1>4. n \in NiType
  BY <1>0, <1>1, LoadIs
<1>5. /\ g \in NiType /\ SameMap(n, g) /\ SamePlaces(n, g) /\ g.state = n.state
      /\ g.wc = IF n.changed THEN n.wc + 1 ELSE n.wc
  <2>1. g \in NiType /\ SameMap(n, g) /\ SamePlaces(n, g) /\ g.state = n.state
    BY <1>0, <1>4, GenerateIs
  <2>2. g.wc = IF n.changed THEN n.wc + 1 ELSE n.wc
    BY <1>0, <1>4 DEF Generate, NiType
  <2>. QED  BY <2>1, <2>2
<1>6. /\ SameMap(n, ni') /\ SamePlaces(n, ni') /\ ni'.state = n.state
      /\ ni'.wc = IF n.changed THEN n.wc + 1 ELSE n.wc
      /\ ni'.wc = g.wc /\ ni'.map = g.map /\ ni'.state = g.state
  <2>1. /\ ni'.map = g.map /\ ni'.count = g.count /\ ni'.main = g.main
        /\ ni'.backup = g.backup /\ ni'.mapba = g.mapba /\ ni'.top = g.top
        /\ ni'.prot = g.prot /\ ni'.state = g.state /\ ni'.wc = g.wc
    BY <1>1, <1>5 DEF NiType
  <2>. QED  BY <1>5, <2>1 DEF SameMap, SamePlaces
<1>7. PICK b \in Copies : Chosen(n, b)
  BY <1>0, <1>2, <1>3, LoadSees
<1>8. /\ Copies' = Copies /\ InOrder' /\ Older' /\ Agree' /\ ~ni'.prot
      /\ ni'.main = n.main /\ ni'.backup = n.backup /\ ni'.top = n.top /\ ni'.map = n.map
      /\ ni'.main < ni'.backup /\ ni'.backup < ni'.top
      /\ \A c \in Copies : Low(flash[c].state, ni.main)'
      /\ Low(ni.state, ni.main)'
      /\ \A c \in Copies : flash[c].map = n.map => TopFree(c)' /\ Synced(c)'
      /\ /\ New' = {} /\ ctl'.cache.kind = "table" /\ ctl'.cache.wc = ni'.wc
         /\ ctl'.cache.map = ni'.map /\ ctl'.cache.state = ni'.state
         => Cached'
  <2>1. /\ Copies' = Copies /\ InOrder' /\ Older' /\ Agree' /\ ~ni'.prot
        /\ ni'.main = n.main /\ ni'.backup = n.backup /\ ni'.top = n.top /\ ni'.map = n.map
        /\ ni'.backup # 0 => /\ ni'.main < ni'.backup /\ ni'.backup < ni'.top
                             /\ \A c \in Copies : Low(flash[c].state, ni.main)'
                             /\ Low(ni.state, ni.main)'
        /\ \A c \in Copies : flash[c].map = n.map => TopFree(c)' /\ Synced(c)'
        /\ /\ New' = {} /\ ctl'.cache.kind = "table" /\ ctl'.cache.wc = ni'.wc
           /\ ctl'.cache.map = ni'.map /\ ctl'.cache.state = ni'.state
           => Cached'
    BY <1>0, <1>1, <1>2, <1>3, <1>6, LoadedTables
  <2>. QED  BY <1>1, <2>1
<1>9. /\ g.main = n.main /\ g.backup = n.backup /\ g.top = n.top
  BY <1>5 DEF SamePlaces
<1>10. /\ Loading(g) \in CtlType /\ Loading(g).cache = Table(g)
  <2>1. Loading(g) \in CtlType
    BY <1>0, <1>4, LoadingIs
  <2>. QED  BY <2>1, NoControlIs DEF Loading, CtlType
<1>11. /\ Table(g).kind = "table" /\ Table(g).wc = ni'.wc
       /\ Table(g).map = ni'.map /\ Table(g).state = ni'.state
  BY <1>6 DEF Table
<1>12. ni'.main # 0 /\ ni'.backup # 0 /\ ni'.main \in Nat /\ ni'.backup \in Nat /\ ni'.top \in Nat
  BY <1>1, <1>8, NextNumbers
<1>13. /\ n.map = flash[b].map
       /\ b = IF flash[n.backup].wc > flash[n.main].wc THEN n.backup ELSE n.main
  BY <1>1, <1>7 DEF Chosen
<1>14. CASE /\ flash[n.main].wc = flash[n.backup].wc
            /\ ctl' = [NoControl EXCEPT !.pc = "attached"]
  <2>1. \A c \in Copies : flash[c].map = n.map
    <3>1. b = n.main
      BY <1>3, <1>13, <1>14
    <3>2. Pair(n.main, n.backup)
      BY <1>2, <1>3 DEF InOrder
    <3>. QED  BY <1>3, <1>13, <1>14, <3>1, <3>2 DEF Pair
  <2>2. ctl'.pc = "attached"
    BY <1>14, NoControlIs DEF CtlType
  <2>3. /\ Up' /\ ~Writing' /\ New' = {} /\ At' = "attached" /\ Floor' = ni'.main
        /\ Keep' = {ni'.main, ni'.backup} \ {0} /\ ctl'.pc # "off" /\ ctl'.pc # "dead"
    BY <2>2 DEF Up, Writing, New, At, Floor, Front, Keep, TableReturns
  <2>4. Keep' = Copies
    BY <1>3, <1>8, <1>12, <2>3
  <2>5. Whole'
    BY <1>8, <2>3, <2>4 DEF Whole
  <2>6. Progress'
    BY <1>8, <2>2, <2>3 DEF Progress, TableReturns
  <2>7. Placed'
    BY <1>8, <2>1, <2>3, <2>4 DEF Placed
  <2>8. Current'
    BY <1>8, <2>1, <2>4 DEF Current
  <2>9. Known'
    BY <1>8, <2>3, <2>5, <2>6, <2>7, <2>8 DEF Known
  <2>. QED  BY <1>8, <2>3, <2>9 DEF Tabled
<1>15. ASSUME NEW k \in {n.main, n.backup}, NEW w \in {n.main, n.backup}, k # w, k = b,
              ctl'.pc = "table", ctl'.ba = w, w < ctl'.limit, ctl'.cache = Table(g),
              \/ ctl'.next = "one_main" /\ k = n.backup /\ ctl'.limit = n.backup
              \/ ctl'.next = "one_backup" /\ k = n.main
       PROVE  Tabled'
  <2>1. /\ Up' /\ Writing' /\ New' = {} /\ At' = ctl'.next
        /\ Keep' = {k} /\ ctl'.pc # "off" /\ ctl'.pc # "dead"
        /\ Floor' = ni'.main /\ ctl'.pc \notin TableReturns
    BY <1>8, <1>12, <1>15 DEF Up, Writing, New, At, Floor, Front, Keep, TableReturns
  <2>2. Cached'
    BY <1>8, <1>11, <1>15, <2>1
  <2>3. k \in Copies /\ w \in Copies /\ Copies = {k, w} /\ TopFree(k)' /\ Synced(k)'
    BY <1>3, <1>8, <1>13, <1>15
  <2>4. w \in Usable' /\ \A u \in Usable' : w <= u
    <3>1. w \in Nat /\ w \notin mark /\ ni'.state[w] = "GOOD" /\ ctl'.limit \in Nat
      BY <1>8, <2>3, CopiesAre, NextNumbers DEF Older
    <3>2. w \in ctl'.ba..(ctl'.limit - 1) /\ \A u \in ctl'.ba..(ctl'.limit - 1) : w <= u
      BY <1>15, <3>1
    <3>. QED  BY <1>1, <3>1, <3>2 DEF Usable, Good
  <2>5. Whole'
    BY <1>8, <1>15, <2>1, <2>3, <2>4 DEF Whole
  <2>6. Progress'
    BY <1>8, <1>15, <2>1 DEF Progress, TableReturns
  <2>7. Placed'
    BY <1>8, <2>1, <2>3 DEF Placed
  <2>8. Current'
    BY <2>1, <2>3 DEF Current
  <2>9. Ahead'
    <3>1. CASE k = n.backup
      <4>1. b # n.main
        BY <1>3, <1>15, <3>1
      <4>2. \A c \in Blocks : ni'.state[c] = flash[k].state[c]
        BY <1>6, <1>7, <1>15, <4>1 DEF Chosen
      <4>. QED  BY <1>1, <2>1, <4>2 DEF Ahead
    <3>2. CASE k = n.main
      <4>1. At' \notin Front
        BY <1>3, <1>15, <2>1, <3>2 DEF Front
      <4>. QED  BY <4>1 DEF Ahead
    <3>. QED  BY <3>1, <3>2
  <2>10. Known'
    BY <1>8, <2>2, <2>5, <2>6, <2>7, <2>8, <2>9 DEF Known
  <2>. QED  BY <1>8, <2>1, <2>10 DEF Tabled
<1>16. CASE /\ flash[n.main].wc < flash[n.backup].wc
            /\ ctl' = WriteTable(Loading(g), n.main, n.backup, "one_main")
  <2>1. /\ ctl'.pc = "table" /\ ctl'.ba = n.main /\ ctl'.limit = n.backup
        /\ ctl'.cache = Table(g) /\ ctl'.next = "one_main"
    BY <1>10, <1>16 DEF WriteTable, CtlType
  <2>2. b = n.backup /\ n.main # n.backup
    BY <1>3, <1>13, <1>16
  <2>. QED  BY <1>3, <1>15, <2>1, <2>2
<1>17. CASE /\ ~(flash[n.main].wc < flash[n.backup].wc)
            /\ ctl' = WriteTable(Loading(g), n.backup, n.top, "one_backup")
  <2>1. /\ ctl'.pc = "table" /\ ctl'.ba = n.backup /\ ctl'.limit = n.top
        /\ ctl'.cache = Table(g) /\ ctl'.next = "one_backup"
    BY <1>10, <1>17 DEF WriteTable, CtlType
  <2>2. b = n.main /\ n.main # n.backup
    BY <1>3, <1>13, <1>17
  <2>3. n.backup < n.top
    BY <1>8
  <2>. QED  BY <1>3, <1>15, <2>1, <2>2, <2>3
<1>. QED  BY <1>1, <1>9, <1>14, <1>16, <1>17

(* No table was found: nothing is promised, and the tables are made anew.  *)
LEMMA CreateTables ==
  ASSUME TypeInv, TypeInv', Tabled, AttachCreate
  PROVE  Tabled'
<1>0. PICK n, room, m : /\ n = BuildMapping(LoadTables)
                        /\ room = Good(n, MgmtStart + 1, SigBa - 1)
                        /\ m = Generate([n EXCEPT !.top = Max(room)])
  OBVIOUS
<1>1. /\ ctl.pc = "off" /\ Memory /\ LoadTables.main = 0
      /\ flash \in [Blocks -> Content] /\ flash' = flash /\ mark' = mark /\ disk' = disk
      /\ \/ /\ room = {} /\ ctl' = [NoControl EXCEPT !.pc = "dead"] /\ ni' = ni
         \/ /\ room # {} /\ Rebuild(m, Loading(m), "create")
  BY <1>0 DEF AttachCreate, TypeInv, Types, Memory
<1>2. InOrder /\ Leads
  BY <1>1 DEF Tabled
<1>3. Copies = {}
  BY <1>1, <1>2, LoadSees
<1>4. \A l \in Logic : disk[l] = Any
  BY <1>2, <1>3 DEF Leads
<1>5. Copies' = {} /\ InOrder'
  BY <1>1, <1>2, <1>3, SameFlash
<1>6. CASE ctl' = [NoControl EXCEPT !.pc = "dead"] /\ ni' = ni
  <2>1. ni = FreshInstance
    BY <1>1 DEF TypeInv, Control
  <2>2. ctl'.pc = "dead" /\ ni'.main = 0 /\ ni'.backup = 0
    BY <1>6, <2>1, NoControlIs, FreshIs DEF CtlType
  <2>. QED  BY <1>5, <2>2 DEF Tabled, Up
<1>7. CASE room # {} /\ Rebuild(m, Loading(m), "create")
  <2>1. LoadTables \in NiType /\ ~LoadTables.prot
    BY <1>1, LoadIs
  <2>2. n \in NiType /\ ~n.prot
    BY <1>0, <2>1, BuildMappingIs DEF SamePlaces
  <2>3. Max(room) \in Blocks
    <3>1. room \subseteq 0..SigBa /\ room \subseteq Blocks
      BY <1>0, Sizes DEF Good, Blocks
    <3>. QED  BY <1>7, <3>1, Sizes, MaxOf
  <2>. DEFINE t == [n EXCEPT !.top = Max(room)]
  <2>4. t \in NiType /\ ~t.prot
    BY <2>2, <2>3 DEF NiType
  <2>5. m = Generate(t)
    BY <1>0
  <2>. HIDE DEF t
  <2>6. m \in NiType /\ ~m.prot /\ Loading(m) \in CtlType
    BY <2>4, <2>5, GenerateIs, LoadingIs DEF SamePlaces
  <2>7. Loading(m).cache = Table(m)
    BY <2>6, NoControlIs DEF Loading, CtlType
  <2>8. /\ ni'.main = 0 /\ ni'.backup = 0 /\ ~ni'.prot /\ ni'.wc = m.wc
        /\ ni'.map = m.map /\ ni'.state = m.state
    BY <1>7, <2>6 DEF Rebuild, NiType
  <2>9. /\ ctl'.pc = "table" /\ ctl'.ba = MgmtStart /\ ctl'.next = "rebuilt_main"
        /\ ctl'.cache = Table(m)
    BY <1>7, <2>6, <2>7 DEF Rebuild, WriteTable, CtlType
  <2>10. /\ Up' /\ Writing' /\ New' = {} /\ At' = "rebuilt_main" /\ Floor' = MgmtStart
         /\ Keep' = {} /\ ctl'.pc # "off" /\ ctl'.pc # "dead" /\ ctl'.pc \notin TableReturns
    BY <2>9 DEF Up, Writing, New, At, Floor, Front, Keep, TableReturns
  <2>11. Whole' /\ Older' /\ Current'
    BY <1>5, <2>10 DEF Whole, Older, Current
  <2>12. Agree'
    BY <1>1, <1>4 DEF Agree
  <2>13. Progress'
    BY <2>8, <2>9, <2>10 DEF Progress, TableReturns
  <2>14. Placed'
    <3>1. \A c \in Blocks : ~(MgmtStart <= c /\ c < MgmtStart)
      BY Sizes
    <3>. QED  BY <2>10, <3>1 DEF Placed, Low
  <2>15. Cached'
    <3>1. /\ ctl'.cache.kind = "table" /\ ctl'.cache.wc = ni'.wc
          /\ ctl'.cache.map = ni'.map /\ ctl'.cache.state = ni'.state
      BY <2>8, <2>9 DEF Table
    <3>2. Ages(ni'.state, ni'.state)
      BY AgesRefl
    <3>. QED  BY <1>5, <2>10, <3>1, <3>2 DEF Cached, Ages
  <2>16. Ahead'
    BY <2>10 DEF Ahead
  <2>17. Known'
    BY <2>11, <2>12, <2>13, <2>14, <2>15, <2>16 DEF Known
  <2>. QED  BY <1>5, <2>10, <2>17 DEF Tabled
<1>. QED  BY <1>1, <1>6, <1>7

(* nmbm_attach, up to its first operation on the flash.                    *)
LEMMA AttachTables ==
  ASSUME TypeInv, TypeInv', Tabled, Attach
  PROVE  Tabled'
BY SingleTables, TwoTables, CreateTables DEF Attach

(* The block that an operation is under way on holds neither a table that  *)
(* is relied on nor anything that was promised.                            *)
LEMMA InFlightIs ==
  ASSUME TypeInv, Safe, Tabled, Up, NEW b \in InFlight
  PROVE  /\ b \notin Keep \cup New
         /\ \A l \in Logic : disk[l] # Any => ni.map[l] # b
<1>1. /\ Layout /\ Ranges /\ Caller /\ Kept /\ Separate /\ Whole /\ Progress
  BY DEF Safe, Tabled, Known
<1>2. /\ ctl.ba \in Nat /\ ctl.limit \in Nat /\ ni.top \in Nat /\ MgmtStart \in Nat
      /\ \A l \in Logic : ni.map[l] \in Int
  BY Numbers, Sizes
<1>3. ASSUME ctl.pc \in {"table", "range", "program"}, b \in Nat, ctl.ba <= b, b < ctl.limit
      PROVE  /\ b \notin Keep \cup New
             /\ \A l \in Logic : disk[l] # Any => ni.map[l] # b
  <2>1. MgmtStart <= ctl.ba /\ ctl.limit <= ni.top /\ New = {}
    BY <1>1, <1>3 DEF Ranges, New, TableReturns
  <2>2. \A l \in Logic : ni.map[l] # b
    BY <1>2, <1>3, <2>1, AreaFree
  <2>3. \A c \in Keep : c \in Nat /\ (c < ctl.ba \/ ctl.limit <= c)
    <3>1. /\ \A c \in Keep : c \in Nat
          /\ ctl.pc = "range" => \A c \in Keep : c < ctl.ba \/ ctl.limit <= c
          /\ At \in Front => \A c \in Keep : ctl.limit <= c
          /\ At \in TableReturns \ Front => \A c \in Keep : c < ctl.ba
      BY <1>1, KeepIs
    <3>2. ctl.pc # "range" => At \in TableReturns
      BY <1>3 DEF At, TypeInv, Control
    <3>. QED  BY <3>1, <3>2
  <2>. QED  BY <1>2, <1>3, <2>1, <2>2, <2>3
<1>4. ASSUME ctl.pc \in {"erase", "write"}, b = ni.map[ctl.lb]
      PROVE  /\ b \notin Keep \cup New
             /\ \A l \in Logic : disk[l] # Any => ni.map[l] # b
  <2>1. ctl.lb \in Logic /\ disk[ctl.lb] = Any
    BY <1>1, <1>4, Numbers DEF Caller, Callers
  <2>2. ~Writing
    BY <1>4 DEF Writing, TableReturns
  <2>3. b \notin Copies
    BY <1>4, <2>1, <2>2, UsersHaveNone
  <2>4. \A l \in Logic : disk[l] # Any => ni.map[l] # b
    BY <1>1, <1>4, <2>1 DEF Kept, Separate, Injective
  <2>. QED  BY <1>1, <2>3, <2>4 DEF Whole
<1>5. CASE ctl.pc \in {"table", "range"}
  <2>1. Usable # {} /\ b = Min(Usable)
    BY <1>5 DEF InFlight
  <2>2. b \in Blocks /\ ctl.ba <= b /\ b < ctl.limit
    BY <2>1, FirstUsable
  <2>. QED  BY <1>3, <1>5, <2>2, Sizes
<1>6. CASE ctl.pc = "program"
  <2>1. b = ctl.ba /\ b < ctl.limit
    BY <1>6 DEF InFlight, TypeInv, Control
  <2>. QED  BY <1>2, <1>3, <1>6, <2>1
<1>7. CASE ctl.pc \in {"erase", "write"}
  <2>1. b = ni.map[ctl.lb]
    BY <1>7 DEF InFlight, Physical
  <2>. QED  BY <1>4, <1>7, <2>1
<1>8. CASE ctl.pc \notin {"table", "range", "program", "erase", "write"}
  BY <1>8 DEF InFlight
<1>. QED  BY <1>5, <1>6, <1>7, <1>8

(* The power goes off, or the device is detached.                          *)
LEMMA OffTables ==
  ASSUME TypeInv, TypeInv', Safe, Tabled, PowerCut \/ Detached
  PROVE  Tabled'
<1>1. /\ ctl.pc # "off" /\ Off /\ mark' = mark
      /\ flash \in [Blocks -> Content]
      /\ flash' = flash \/ \E b \in InFlight : flash' = [flash EXCEPT ![b] = Torn]
  BY DEF PowerCut, Detached, TypeInv, Types
<1>2. ctl'.pc = "off" /\ disk' = IF Exposed THEN [l \in Logic |-> Any] ELSE disk
  BY <1>1, NoControlIs DEF Off
<1>3. \A c \in Blocks : flash'[c] = flash[c] \/ (flash'[c] = Torn /\ c \in InFlight)
  BY <1>1
<1>4. Copies' \subseteq Copies /\ \A c \in Copies' : flash'[c] = flash[c]
  BY <1>1, <1>3 DEF Copies, Torn
<1>5. InOrder'
  BY <1>1, <1>4, Shrink DEF Tabled
<1>6. Leads'
  <2>1. CASE Exposed
    BY <1>2, <2>1 DEF Leads
  <2>2. CASE ~Exposed
    <3>1. Up
      BY <1>1, <2>2 DEF Up, Tabled, Exposed
    <3>2. Known /\ Kept /\ Older /\ Agree /\ Whole
      BY <3>1 DEF Tabled, Known, Safe
    <3>3. PICK k : k \in Keep \cup New
      BY <2>2, <3>1, <3>2, KeepSome
    <3>4. k \in Copies
      BY <3>2, <3>3 DEF Whole
    <3>5. Leads
      BY <3>2, <3>4, AgreeLeads
    <3>6. k \in Copies'
      <4>1. k \notin InFlight
        BY <3>1, <3>3, InFlightIs
      <4>2. k \in Blocks
        BY <3>4, CopiesAre
      <4>. QED  BY <1>1, <1>3, <3>4, <4>1, <4>2 DEF Copies
    <3>7. ASSUME NEW l \in Logic, disk[l] # Any, NEW b \in Copies'
          PROVE  /\ flash'[b] = flash[b]
                 /\ flash[b].map[l] >= 0 /\ flash[b].map[l] \notin mark
                 /\ flash[b].state[flash[b].map[l]] # "BAD"
                 /\ flash'[flash[b].map[l]] = disk[l]
                 /\ \A c \in Copies' : flash'[c].map[l] = flash[b].map[l]
      <4>1. b \in Copies /\ flash'[b] = flash[b]
        BY <1>4
      <4>2. /\ flash[b].map[l] >= 0 /\ flash[b].map[l] \notin mark
            /\ flash[b].state[flash[b].map[l]] # "BAD"
            /\ flash[flash[b].map[l]] = disk[l]
            /\ \A c \in Copies : flash[c].map[l] = flash[b].map[l]
        BY <3>5, <3>7, <4>1 DEF Leads
      <4>3. flash[b].map[l] = ni.map[l]
        BY <3>2, <3>7, <4>1 DEF Agree
      <4>4. ni.map[l] \in Blocks
        BY <4>1, <4>2, <4>3, CopiesAre DEF PhysicalOrNone
      <4>5. ni.map[l] \notin InFlight
        BY <3>1, <3>7, InFlightIs
      <4>. QED  BY <1>3, <1>4, <4>1, <4>2, <4>3, <4>4, <4>5
    <3>. QED  BY <1>1, <1>2, <2>2, <3>6, <3>7 DEF Leads
  <2>. QED  BY <2>1, <2>2
<1>. QED  BY <1>2, <1>5, <1>6 DEF Tabled, Up

-----------------------------------------------------------------------------
(* The tables survive                                                      *)

(* A new chip has no tables and nothing is promised.                       *)
LEMMA InitTables == Init => Survival
<1>. SUFFICES ASSUME Init PROVE Tabled
  BY DEF Survival
<1>1. /\ flash = [b \in Blocks |-> Erased] /\ disk = [l \in Logic |-> Any]
      /\ ctl = NoControl
  BY DEF Init
<1>2. Copies = {} /\ ctl.pc = "off"
  BY <1>1, NoControlIs DEF Copies, Erased
<1>. QED  BY <1>1, <1>2 DEF Tabled, InOrder, Leads, Up

\* What is assumed of every step: a block that failed can be marked, and
\* nobody writes to a block that is marked
Marked == MarksWork /\ MarksHeeded

(* No step, a loss of power included, breaks what the tables rely on.      *)
LEMMA NextTables ==
  TypeInv /\ Session /\ Survival /\ [Next]_vars /\ [Marked]_vars => Survival'
<1>. SUFFICES ASSUME TypeInv, Session, Survival, [Next]_vars, [Marked]_vars, ~skipped'
              PROVE  Tabled'
  BY DEF Survival
<1>1. TypeInv'
  BY NextType
<1>2. CASE UNCHANGED vars
  <2>1. /\ flash' = flash /\ mark' = mark /\ ni' = ni /\ ctl' = ctl /\ disk' = disk
        /\ skipped' = skipped
    BY <1>2 DEF vars, ghosts
  <2>2. Tabled
    BY <2>1 DEF Survival
  <2>3. /\ Copies' = Copies /\ Up' = Up /\ At' = At /\ New' = New /\ Writing' = Writing
        /\ Usable' = Usable
    BY <2>1 DEF Copies, Up, At, New, Writing, Usable, Good
  <2>4. Keep' = Keep /\ Floor' = Floor
    BY <2>1, <2>3 DEF Keep, Floor
  <2>5. (\A s, f : Low(s, f)' = Low(s, f))
    BY <2>1 DEF Low
  <2>6. InOrder' /\ Leads' = Leads
    BY <2>1, <2>2, <2>3, SameFlash DEF Leads, Tabled
  <2>7. ASSUME Up, Known
        PROVE  Known'
    <3>1. Whole' /\ Progress' /\ Older' /\ Agree' /\ Current'
      BY <2>1, <2>3, <2>4, <2>7 DEF Known, Whole, Progress, Older, Agree, Current, Synced, Ages
    <3>2. Placed'
      BY <2>1, <2>3, <2>4, <2>7 DEF Known, Placed, TopFree, Low
    <3>3. Writing => Cached' /\ Ahead'
      BY <2>1, <2>3, <2>4, <2>7 DEF Known, Cached, Ahead, Ages
    <3>. QED  BY <2>3, <3>1, <3>2, <3>3 DEF Known
  <2>. QED  BY <2>1, <2>2, <2>3, <2>6, <2>7 DEF Tabled
<1>3. CASE Next /\ Marked
  <2>1. ~skipped
    BY <1>3, SkippedStays
  <2>2. Safe /\ Tabled /\ MarksWork /\ MarksHeeded
    BY <1>3, <2>1 DEF Session, Survival, Marked
  <2>3. CASE Tables
    BY <1>1, <2>2, <2>3, RangeTables, UpdateTables, BackupTables, MainTables, FailedTables,
       TmpTables, RescuedTables, RebuiltTables, RebuiltBackupTables DEF Tables
  <2>4. CASE Attaching
    BY <1>1, <2>2, <2>4, OneMainTables, OneBackupTables, FrontTables, BehindTables,
       AttachedTables DEF Attaching
  <2>5. CASE Working
    BY <1>1, <2>2, <2>5, WorkingTables, OffTables DEF Working
  <2>. QED  BY <1>1, <1>3, <2>2, <2>3, <2>4, <2>5, CallsTables, AttachTables, OffTables
            DEF Next, Step
<1>. QED  BY <1>2, <1>3

(* Together with what a session relies on.                                 *)
LEMMA NextSurvival ==
  /\ TypeInv /\ Session /\ Survival /\ [Next]_vars /\ [Marked]_vars
  => TypeInv' /\ Session' /\ Survival'
<1>. SUFFICES ASSUME TypeInv, Session, Survival, [Next]_vars, [Marked]_vars
              PROVE  TypeInv' /\ Session' /\ Survival'
  OBVIOUS
<1>1. Recovers
  BY SurvivalShows DEF Recovers
<1>. QED  BY <1>1, NextType, NextSession, NextTables

(* At every moment an attach would find tables that lead to everything     *)
(* users were promised (Survives), for a chip of any size, however many    *)
(* blocks fail, wherever in the writing, the rescue or the rebuilding of   *)
(* the tables the power goes off, and however often it does so while an    *)
(* attach repairs what an earlier loss of power has left. Assumed are only *)
(* that marking a block that failed does not fail as well, and that users  *)
(* do not write to a block that is marked: without either it is not true.  *)
THEOREM TablesSurvive == Spec /\ [][Marked]_vars => []Survives
<1>. QED  BY InitType, InitSession, InitTables, NextSurvival, SurvivalShows, PTL DEF Spec

(* Under the same conditions users read back what they wrote, across every *)
(* loss of power: nothing is assumed of what an attach finds.              *)
THEOREM PowerCutsReadBack == Spec /\ [][Marked]_vars => []ReadsBack
<1>1. TypeInv /\ Session => ReadsBack
  BY SessionShows
<1>. QED  BY <1>1, InitType, InitSession, InitTables, NextSurvival, PTL DEF Spec

(* And users' blocks stay apart from each other and from the tables.       *)
THEOREM PowerCutsKeepApart == Spec /\ [][Marked]_vars => []Apart
<1>1. TypeInv /\ Session => Apart
  BY SessionShows
<1>. QED  BY <1>1, InitType, InitSession, InitTables, NextSurvival, PTL DEF Spec
=============================================================================
