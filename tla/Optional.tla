------------------------------- MODULE Optional -------------------------------
(***************************************************************************)
(* An optional value is a set of at most one element, so that a value and   *)
(* its absence compare, and a set comprehension is the code's map; and what *)
(* the parsers share: a result that may be an error, and the two choices of *)
(* an iterator's extreme element.                                           *)
(***************************************************************************)
EXTENDS Naturals, Sequences

None == {}
Some(x) == {x}
The(option) == CHOOSE x \in option : TRUE
OrElse(option, default) == IF option = None THEN default ELSE The(option)
Either(option, other) == IF option = None THEN other ELSE option

(* A result: what was computed, or an error.                                 *)
Error == [ok |-> FALSE]
Good(value) == [ok |-> TRUE, value |-> value]

(* Keys are sequences of numbers, compared from the left.                    *)
Before(k, l) ==
    \E i \in DOMAIN k : k[i] < l[i] /\ \A j \in 1..(i - 1) : k[j] = l[j]

(* max_by_key returns the last of the greatest elements of an iterator,     *)
(* here the greatest index of a non-empty set of them.                      *)
MaxByKey(indexes, Key(_)) ==
    CHOOSE i \in indexes :
        \A j \in indexes : Before(Key(j), Key(i)) \/ (Key(j) = Key(i) /\ j <= i)

(* min_by_key returns the first of the least ones.                           *)
MinByKey(indexes, Key(_)) ==
    CHOOSE i \in indexes :
        \A j \in indexes : Before(Key(i), Key(j)) \/ (Key(j) = Key(i) /\ i <= j)
===============================================================================
