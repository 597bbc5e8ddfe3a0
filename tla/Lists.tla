------------------------------- MODULE Lists -------------------------------
(***************************************************************************)
(* The two things the core's candidate lists are made with: leaving         *)
(* entries out (retain, filter) and keeping every address once (a HashSet   *)
(* or a contains test beside the Vec).                                      *)
(***************************************************************************)
EXTENDS Naturals, Sequences, FiniteSets

(* The entries of s at the positions I, in the order of s. *)
Picked(s, I) ==
    [k \in 1..Cardinality(I) |-> s[CHOOSE i \in I : Cardinality({j \in I : j <= i}) = k]]

(* The positions at which an entry of s comes for the first time. *)
FirstSeen(s) == {i \in 1..Len(s) : \A j \in 1..(i - 1) : s[j] # s[i]}

(* At most the first n entries of s. *)
Take(s, n) == SubSeq(s, 1, IF Len(s) < n THEN Len(s) ELSE n)

=============================================================================
