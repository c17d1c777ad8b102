----------------------------- MODULE MCUserTable -----------------------------
(***************************************************************************)
(* An instance of UserTable for TLC: room for one user and, by the server's  *)
(* check, one more; the people are interchangeable.  It starts with no file,  *)
(* behind the deletion of two people, and with two people on file who have a   *)
(* finger or a card.                                                        *)
(***************************************************************************)
EXTENDS UserTable, TLC

Symmetric == Permutations(People)

On(p, w) == [pin |-> p, who |-> <<w>>]

MCInit ==
  \/ Init
  \/ \E v, w \in People :
       /\ v # w
       /\ \/ Start(<<On(0, v), On(0, w)>>, {}, <<>>)
          \/ \E serial \in Serials :
               Start(<<On(1, v), On(2, w)>>, {On(1, v)}, <<[pin |-> 2, serial |-> serial]>>)

MCSpec == MCInit /\ [][Next]_vars

=============================================================================
