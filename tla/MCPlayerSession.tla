---------------------------- MODULE MCPlayerSession ----------------------------
(* Instances of PlayerSession for model checking.                          *)
EXTENDS PlayerSession

CONSTANTS a, b  \* accounts

OneAccount == {a}
TwoAccounts == {a, b}
OneWay == {<<b, a>>}
Loop == {<<a, a>>}
=============================================================================
