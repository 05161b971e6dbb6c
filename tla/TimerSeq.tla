----------------------------- MODULE TimerSeq ------------------------------
(***************************************************************************)
(* What timer_list.h promises: a list is a sequence of elements, reached   *)
(* by position, counted from 0, or with an iterator that may remove the    *)
(* element it is at and go on from there.                                  *)
(***************************************************************************)
EXTENDS Integers, SequencesExt

CONSTANTS Elements, None, MaxLen

VARIABLES
  list,    \* the elements
  cursor,  \* where the iterator is, counted from 1; 0 if it is at no element
  out      \* the last call: function, position and result

seqVars == <<list, cursor, out>>

ElementAt(s, i) == IF i \in 1..Len(s) THEN s[i] ELSE None

Answers(call, pos, value) == out' = [call |-> call, pos |-> pos, value |-> value]

SeqInit ==
  /\ list = <<>>
  /\ cursor = 0
  /\ out = [call |-> "none", pos |-> 0, value |-> None]

\* pos = -1, or one past the end and beyond, appends
Add(el, pos) ==
  /\ list' = InsertAt(list, (IF pos \in 0..Len(list) THEN pos ELSE Len(list)) + 1, el)
  /\ cursor' = 0
  /\ Answers("add", pos, Len(list) + 1)

AddFail(pos) ==
  /\ cursor' = 0
  /\ Answers("add", pos, -1)
  /\ UNCHANGED list

Get(pos) ==
  /\ Answers("get", pos, ElementAt(list, pos + 1))
  /\ UNCHANGED <<list, cursor>>

RemovePosition(pos) ==
  IF pos + 1 \in 1..Len(list)
  THEN /\ list' = RemoveAt(list, pos + 1)
       /\ cursor' = 0
       /\ Answers("remove", pos, Len(list) - 1)
  ELSE /\ Answers("remove", pos, -1)
       /\ UNCHANGED <<list, cursor>>

First ==
  /\ cursor' = IF list = <<>> THEN 0 ELSE 1
  /\ Answers("get_first", 0, ElementAt(list, 1))
  /\ UNCHANGED list

NextElement ==
  /\ cursor # 0
  /\ cursor' = IF cursor < Len(list) THEN cursor + 1 ELSE 0
  /\ Answers("get_next", 0, ElementAt(list, cursor + 1))
  /\ UNCHANGED list

IteratorRemove ==
  /\ list' = IF cursor = 0 THEN list ELSE RemoveAt(list, cursor)
  /\ cursor' = IF cursor < Len(list) THEN cursor ELSE 0
  /\ Answers("iterator_remove", 0,
             IF cursor = 0 THEN None ELSE ElementAt(list, cursor + 1))

FreeAll ==
  /\ list' = <<>>
  /\ cursor' = 0
  /\ Answers("special_free", 0, None)

SeqNext ==
  \/ \E el \in Elements, pos \in -1..MaxLen : Add(el, pos)
  \/ \E pos \in -1..MaxLen : AddFail(pos) \/ Get(pos) \/ RemovePosition(pos)
  \/ First
  \/ NextElement
  \/ IteratorRemove
  \/ FreeAll

SeqSpec == SeqInit /\ [][SeqNext]_seqVars
=============================================================================
