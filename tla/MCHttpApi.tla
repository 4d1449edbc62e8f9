----------------------------- MODULE MCHttpApi -----------------------------
(* Instance of HttpApi for TLC: the payer of an order, and the paths. *)
EXTENDS HttpApi, TLC

PayerOf == [x \in 1..MaxRows |-> IF x = 2 THEN 2 ELSE 1]
SomeBodies == {1, 2, 3, Unreadable}
Clocks == {-1, 0, 1}
EveryPath == Mappings \cup AuthPaths \cup PublicPaths
LoadTest == {<<"order", "purchase", "token">>, <<"order", "create">>, <<"order", "poll">>,
             <<"order", "get">>}
Rivals == {<<"ticket", "user", "add">>, <<"ticket", "user", "delete">>}
Symmetry == Permutations(Requests)
=============================================================================
