----------------------------- MODULE TimerList -----------------------------
(***************************************************************************)
(* timer_list.c: the singly linked lists that libzyuitimer keeps its       *)
(* timers in, node by node, with the iterator that unlinks the node it is  *)
(* at through a pointer to the pointer that leads there.                   *)
(*                                                                         *)
(* The callers hold timerMutex around every sequence of calls, so a call   *)
(* is one step; and, as they do, they call timer_list_get_first again      *)
(* before they use an iterator of a list that was changed behind its back. *)
(***************************************************************************)
EXTENDS Integers, Sequences, FiniteSets

CONSTANTS
  Nodes,     \* addresses malloc can return for a __node_t
  Nil,       \* the null pointer
  HeadField, \* the address of the field li->node
  Elements,  \* the elements put into lists
  None,      \* what the functions return for no element
  MaxLen     \* bound: elements in the list

ASSUME ListAssumption ==
  /\ MaxLen \in Nat
  /\ IsFiniteSet(Nodes)
  /\ Cardinality(Nodes) = MaxLen
  /\ {Nil, HeadField} \cap Nodes = {}
  /\ Nil # HeadField

VARIABLES
  nb_elt,   \* li->nb_elt
  next,     \* what the fields node (of HeadField) and next (of a node) point to
  element,  \* the element of each node
  alloc,    \* nodes that are allocated
  it,       \* the iterator: actual, prev and pos
  valid,    \* the list has not been changed behind the iterator's back
  ret       \* the last call: function, position and result

vars == <<nb_elt, next, element, alloc, it, valid, ret>>

Positions == -1..MaxLen

Answer(call, pos, value) == [call |-> call, pos |-> pos, value |-> value]

Init ==
  /\ nb_elt = 0
  /\ next = [n \in Nodes \cup {HeadField} |-> Nil]
  /\ element = [n \in Nodes |-> None]
  /\ alloc = {}
  /\ it = [actual |-> Nil, prev |-> HeadField, pos |-> 0]
  /\ valid = TRUE
  /\ ret = Answer("none", 0, None)

\* The address of the k-th pointer of the list: HeadField, then the nodes
Cell(k) ==
  LET c[i \in 0..MaxLen] == IF i = 0 THEN HeadField ELSE next[c[i - 1]]
  IN  c[k]
NodeAt(pos) == Cell(pos + 1)
-----------------------------------------------------------------------------
(* timer_list_add, timer_list_get, timer_list_remove *)

\* mutant: the walk to the position goes one node too far
InsertionPointLate(pos) == IF pos = -1 \/ pos >= nb_elt THEN nb_elt ELSE pos + 1

\* Where a new node goes: -1 and positions past the end mean the end
InsertionPoint(pos) == IF pos = -1 \/ pos >= nb_elt THEN nb_elt ELSE pos

timer_list_add(el, pos, n) ==
  LET p == Cell(InsertionPoint(pos))
  IN  /\ n \notin alloc
      /\ alloc' = alloc \cup {n}
      /\ element' = [element EXCEPT ![n] = el]
      /\ next' = [next EXCEPT ![p] = n, ![n] = next[p]]
      /\ nb_elt' = nb_elt + 1
      /\ valid' = FALSE
      /\ ret' = Answer("add", pos, nb_elt + 1)
      /\ UNCHANGED it

\* malloc gives NULL, which has already been stored in the pointer to the
\* new node: at the end it stays, elsewhere the old value is put back
timer_list_add_fail(pos) ==
  LET p == Cell(InsertionPoint(pos))
  IN  /\ next' = IF InsertionPoint(pos) = nb_elt
                 THEN [next EXCEPT ![p] = Nil]
                 ELSE next
      /\ valid' = FALSE
      /\ ret' = Answer("add", pos, -1)
      /\ UNCHANGED <<nb_elt, element, alloc, it>>

timer_list_get(pos) ==
  /\ ret' = Answer("get", pos, IF pos < 0 \/ pos >= nb_elt
                               THEN None ELSE element[NodeAt(pos)])
  /\ UNCHANGED <<nb_elt, next, element, alloc, it, valid>>

timer_list_remove(pos) ==
  IF pos < 0 \/ pos >= nb_elt
  THEN /\ ret' = Answer("remove", pos, -1)
       /\ UNCHANGED <<nb_elt, next, element, alloc, it, valid>>
  ELSE /\ next' = [next EXCEPT ![Cell(pos)] = next[NodeAt(pos)]]
       /\ alloc' = alloc \ {NodeAt(pos)}
       /\ nb_elt' = nb_elt - 1
       /\ valid' = FALSE
       /\ ret' = Answer("remove", pos, nb_elt - 1)
       /\ UNCHANGED <<element, it>>

\* timer_list_special_free: get and remove position 0 until the end
timer_list_special_free ==
  /\ next' = [next EXCEPT ![HeadField] = next[Cell(nb_elt)]]
  /\ alloc' = alloc \ {NodeAt(k) : k \in 0..(nb_elt - 1)}
  /\ nb_elt' = 0
  /\ valid' = FALSE
  /\ ret' = Answer("special_free", 0, None)
  /\ UNCHANGED <<element, it>>
-----------------------------------------------------------------------------
(* The iterator *)

\* timer_list_iterator_has_elem
HasElem(i, n) == i.actual # Nil /\ i.pos < n

timer_list_get_first ==
  /\ IF nb_elt <= 0
     THEN /\ it' = [it EXCEPT !.actual = Nil]
          /\ ret' = Answer("get_first", 0, None)
     ELSE /\ it' = [actual |-> next[HeadField], prev |-> HeadField, pos |-> 0]
          /\ ret' = Answer("get_first", 0, element[next[HeadField]])
  /\ valid' = TRUE
  /\ UNCHANGED <<nb_elt, next, element, alloc>>

timer_list_get_next ==
  LET moved == [actual |-> next[it.actual], prev |-> it.actual, pos |-> it.pos + 1]
  IN  /\ valid
      /\ it.actual # Nil
      /\ IF HasElem(moved, nb_elt)
         THEN /\ it' = moved
              /\ ret' = Answer("get_next", 0, element[moved.actual])
         ELSE /\ it' = [moved EXCEPT !.actual = Nil]
              /\ ret' = Answer("get_next", 0, None)
      /\ UNCHANGED <<nb_elt, next, element, alloc, valid>>

\* mutant: the iterator stays on the node it has freed
IteratorRemoveStays ==
  LET gone == it.actual
      n == next[gone]
  IN  /\ valid
      /\ HasElem(it, nb_elt)
      /\ nb_elt' = nb_elt - 1
      /\ next' = [next EXCEPT ![it.prev] = n]
      /\ alloc' = alloc \ {gone}
      /\ ret' = Answer("iterator_remove", 0, IF n = Nil THEN None ELSE element[n])
      /\ UNCHANGED <<element, it, valid>>

timer_list_iterator_remove ==
  /\ valid
  /\ IF HasElem(it, nb_elt)
     THEN LET n == next[it.actual]
          IN  /\ nb_elt' = nb_elt - 1
              /\ next' = [next EXCEPT ![it.prev] = n]
              /\ alloc' = alloc \ {it.actual}
              /\ it' = [it EXCEPT !.actual = n]
              /\ ret' = Answer("iterator_remove", 0,
                               IF HasElem(it', nb_elt') THEN element[n] ELSE None)
     ELSE /\ ret' = Answer("iterator_remove", 0, None)
          /\ UNCHANGED <<nb_elt, next, alloc, it>>
  /\ UNCHANGED <<element, valid>>
-----------------------------------------------------------------------------
Next ==
  \/ \E el \in Elements, pos \in Positions, n \in Nodes : timer_list_add(el, pos, n)
  \/ \E pos \in Positions : \/ timer_list_add_fail(pos)
                            \/ timer_list_get(pos)
                            \/ timer_list_remove(pos)
  \/ timer_list_special_free
  \/ timer_list_get_first
  \/ timer_list_get_next
  \/ timer_list_iterator_remove

Spec == Init /\ [][Next]_vars
-----------------------------------------------------------------------------
(* An iterator that may be used points to a linked node, and prev to the   *)
(* pointer that leads to it, also after it has removed nodes.              *)
IteratorInList ==
  valid /\ it.actual # Nil =>
    /\ it.actual \in alloc
    /\ it.pos < nb_elt
    /\ it.prev = Cell(it.pos)
    /\ next[it.prev] = it.actual

(* nb_elt agrees with the chain: it ends with a null pointer after nb_elt  *)
(* nodes, all of them allocated and different, and nothing else is         *)
(* allocated: no node is lost or freed while it is linked, and none that   *)
(* the iterator is about to unlink through.                                *)
Chained ==
  LET chain == {NodeAt(k) : k \in 0..(nb_elt - 1)}
  IN  /\ chain = alloc
      /\ Cardinality(chain) = nb_elt
      /\ next[Cell(nb_elt)] = Nil
      /\ IteratorInList

(* The linked list implements the sequence of timer_list.h: every call     *)
(* returns and leaves what it would there, at either end, in the middle    *)
(* and when malloc fails.                                                  *)
Abstract == INSTANCE TimerSeq WITH
  list <- [k \in 1..nb_elt |-> element[NodeAt(k - 1)]],
  cursor <- IF valid /\ it.actual # Nil THEN it.pos + 1 ELSE 0,
  out <- ret
SeqSpec == Abstract!SeqSpec
=============================================================================
