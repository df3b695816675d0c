----------------------------- MODULE MCDirectory -----------------------------
(* The main process for TLC, with a child that reads a group directory and    *)
(* clients that ask for the list of groups: two users, so that one can leave  *)
(* traces the other must not see, and two group slots, so that the limit is   *)
(* reached.  Numbers are written in base 2, so that the count of groups may   *)
(* have one digit or two.                                                     *)
EXTENDS UserListing, GroupListing

CONSTANTS u1, u2, short, long, msgDirectory

Lengths == [name \in GName |-> IF name = short THEN 1 ELSE 24]
Order   == [e \in Uid \cup Other |-> CASE e = u1 -> 1 [] e = u2 -> 3 [] OTHER -> 2]
=============================================================================
