----------------------------- MODULE GroupListing -----------------------------
(***************************************************************************)
(* GLS and GLM: the list of groups that listGroups (server/src/            *)
(* operations.c) writes into one datagram, and how groups and myGroups     *)
(* (client/src/commands.c) find the entries in it again.  The two sides    *)
(* agree on nothing but the widths of the fields, so an entry is modelled  *)
(* by its place.                                                           *)
(***************************************************************************)
EXTENDS DirectoryServer

CONSTANTS
    NameLen,        \* [GName -> 1 .. 24]
    Everyone,       \* GLS: uid = NULL
    Radix           \* numbers are written in base Radix, which is 10

ASSUME NameAssumption ==
    /\ NameLen \in [GName -> 1 .. 24] /\ Everyone \notin Uid
    /\ Radix \in Nat /\ MaxGroups < Radix * Radix

Digits(n) == IF n < Radix THEN 1 ELSE 2

-----------------------------------------------------------------------------
(* The server.                                                                *)

InList(u, g) == g \in 1 .. nGroups /\ (u = Everyone \/ u \in member[g])

Listed(u)   == {g \in Gid : InList(u, g)}
Refused(u)  == u # Everyone /\ ~userLoggedIn(u)

(* The widths w of the entries of the list up to group g, added up.           *)
WidthTo(u, w) ==
    LET f[g \in 0 .. MaxGroups] ==
            IF g = 0 THEN 0 ELSE f[g - 1] + (IF InList(u, g) THEN w[g] ELSE 0)
    IN  f

(* " %02d %s %s", with a mid of four digits.                                  *)
Entry == [g \in Gid |-> IF g \in groupDir THEN 1 + 2 + 1 + NameLen[groupName[g]] + 1 + 4 ELSE 0]

(* "RGL %d%s\n": where the gid of an entry begins.                            *)
GidAt(u, g) == 4 + Digits(Cardinality(Listed(u))) + WidthTo(u, Entry)[g - 1] + 1

-----------------------------------------------------------------------------
(* The client.                                                                *)

(* last_read_size after group g was read.                                     *)
Step == [g \in Gid |-> IF g \in groupDir THEN NameLen[groupName[g]] + 9 ELSE 0]

Base_OneDigit(u, g) == 3 + 1 + 2 + WidthTo(u, Step)[g - 1]     \* mutant: n taken for one digit

(* base, in the round for group g.                                            *)
Base(u, g) == 3 + Digits(Cardinality(Listed(u))) + 2 + WidthTo(u, Step)[g - 1]

(* The gids that groups or myGroups displays: none when the answer is         *)
(* "RGM E_USR", as atoi("E_") is 0.                                           *)
Displayed(u) == IF Refused(u) THEN {} ELSE {g \in Listed(u) : Base(u, g) = GidAt(u, g)}

-----------------------------------------------------------------------------
(* "The reply should be displayed as a list of group IDs, group names and the *)
(* number of the last message available" (README.md:56-58): the steps of the  *)
(* client through the answer, with a count of one digit or of two in front,   *)
(* land on every group that is there, or on every group the user has          *)
(* subscribed to when the uid is logged in.                                   *)
ListReadBack ==
    \A u \in Uid \cup {Everyone} :
        ~Refused(u) => Displayed(u) = {g \in groupDir : u = Everyone \/ u \in member[g]}
=============================================================================
