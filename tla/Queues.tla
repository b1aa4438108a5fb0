------------------------------- MODULE Queues -------------------------------
(***************************************************************************)
(* Operators on the queues of the modules, in a form that lemmas can be    *)
(* stated for: the elements to be removed are a set, not a predicate.      *)
(***************************************************************************)
EXTENDS Integers, Sequences, FiniteSets

\* What is left of a queue without the elements of X, in its order (retain of a Vec or VecDeque)
Without(s, X) ==
  LET left[i \in 0 .. Len(s)] ==
        IF i = 0 THEN <<>> ELSE IF s[i] \in X THEN left[i - 1] ELSE Append(left[i - 1], s[i])
  IN left[Len(s)]

\* How often x is in a queue
Occurrences(s, x) == Cardinality({i \in DOMAIN s : s[i] = x})

\* The elements of a finite set in every order, and in one of them
Orders(S) == {s \in [1 .. Cardinality(S) -> S] : \A x \in S : \E i \in DOMAIN s : s[i] = x}
AnOrder(S) == CHOOSE s \in Orders(S) : TRUE
=============================================================================
