------------------------------- MODULE MCTunnel -------------------------------
(* Instances of Tunnel for model checking.                                 *)
EXTENDS Tunnel, TLC

(* Frames flow both ways, or from the clients only.                        *)
BothWays == [inlet |-> 2, outlet |-> 1]
UplinkOnly == [inlet |-> 3, outlet |-> 0]
OneUp == [inlet |-> 1, outlet |-> 0]

(* Sessions are interchangeable: the listener's seed only makes them fresh. *)
Symmetry == Permutations(Sessions)
=============================================================================
