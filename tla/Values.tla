------------------------------- MODULE Values -------------------------------
(***************************************************************************)
(* The values of nash (sh/obj.go) and the builtin append                   *)
(* (internal/sh/builtin/append.go).  A list is a Go slice: a number of     *)
(* cells of an array that other lists may use too, because an assignment   *)
(* copies the slice and append writes in place while the array has room.   *)
(* A string is one rune, and the cells of a list hold strings.             *)
(***************************************************************************)
EXTENDS Integers, Sequences

CONSTANT Strings   \* the strings of the programs and of the output of commands

(* A cell that nothing was written to. *)
Hole == ""

ASSUME ValuesAssumption == {Hole, "o", "0", "1"} \subseteq Strings

Value(type, str, ref, len) == [type |-> type, str |-> str, ref |-> ref, len |-> len]

Vals == [type : {"none", "str", "list", "fn"}, str : Strings, ref : Nat, len : Nat]

Unset == Value("none", "", 0, 0)
Str(s) == Value("str", s, 0, 0)
List(array, len) == Value("list", "", array, len)
(* A function keeps the shell it was declared in; len tells a variadic one.*)
Fn(shell, variadic) == Value("fn", "", shell, IF variadic THEN 1 ELSE 0)

(* What the heap and the value are when the value is a new list: an array  *)
(* with just its elements.                                                 *)
NewList(heap, strs) ==
  [heap |-> Append(heap, strs), val |-> List(Len(heap) + 1, Len(strs))]

Contents(heap, v) == SubSeq(heap[v.ref], 1, v.len)

(* Get and Set compare an index with the length of the value.              *)
HasIndex(v, i) == \/ v.type = "list" /\ i < v.len
                  \/ v.type = "str" /\ i < 1
Get(heap, v, i) == IF v.type = "str" THEN v.str ELSE heap[v.ref][i + 1]

(* Only lists can be written to. *)
Writable(v, i) == v.type = "list" /\ i < v.len
Put(heap, v, i, s) == [heap EXCEPT ![v.ref][i + 1] = s]

(* Go's append: in place when the array has room, else a copy twice as     *)
(* large, or as large as needed.                                           *)
AppendList(heap, v, strs) ==
  LET need == v.len + Len(strs)
      old  == Len(heap[v.ref])
      size == IF need > 2 * old THEN need ELSE 2 * old
  IN  IF need <= old
      THEN [heap |-> [heap EXCEPT ![v.ref] =
                        [k \in 1 .. old |-> IF k \in v.len + 1 .. need
                                            THEN strs[k - v.len] ELSE @[k]]],
            val  |-> [v EXCEPT !.len = need]]
      ELSE [heap |-> Append(heap, Contents(heap, v) \o strs
                                    \o [k \in 1 .. size - need |-> Hole]),
            val  |-> List(Len(heap) + 1, need)]
=============================================================================
