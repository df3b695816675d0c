------------------------------- MODULE MCClient -------------------------------
(* UserClient for TLC: two clients whose persons use a uid each, or share one. *)
EXTENDS UserClient

CONSTANTS a, b, ua, ub

Own    == [c \in Client |-> IF c = a THEN {ua} ELSE {ub}]
Shared == [c \in Client |-> {ua}]
=============================================================================
