----------------------------- MODULE WaitQueue -----------------------------
(***************************************************************************)
(* The wait lists of the locks: a struct list_head is the sequence of the  *)
(* tasks whose waiter structures are linked on it.  list_add_tail() is     *)
(* Append and the removal of the first entry is Tail.                      *)
(***************************************************************************)
EXTENDS Integers, Sequences

Positions(s) == 1..Len(s)

In(t, s) == \E i \in Positions(s) : s[i] = t

Distinct(s) == \A i, j \in Positions(s) : s[i] = s[j] => i = j

(* list_del(): the queue s without the entry at position i. *)
Without(s, i) == [k \in 1..(Len(s) - 1) |-> IF k < i THEN s[k] ELSE s[k + 1]]

(* The queue s without its first n entries, and those entries. *)
Drop(s, n) == [k \in 1..(Len(s) - n) |-> s[k + n]]
FirstOf(s, n) == {s[i] : i \in 1..n}

=============================================================================
