------------------------------ MODULE UserListing ------------------------------
(***************************************************************************)
(* ULS, the list of the users of a group: select and ulist at a client     *)
(* (client/src/commands.c), and the child of the server that reads the     *)
(* directory of the group (server/src/tcp_handling.h) while the main       *)
(* process goes on creating and deleting files in it.                      *)
(*                                                                         *)
(* readdir() fetches entries in batches and in an order of the file        *)
(* system.  An entry that is there for the whole time is met exactly once; *)
(* what comes or goes meanwhile may be met or not.                         *)
(***************************************************************************)
EXTENDS DirectoryServer, Sequences, SequencesExt

CONSTANTS
    Other,      \* the entries of a group directory that are no members: MSG, name.txt, ".", ".."
    Rank,       \* [Uid \cup Other -> Nat]: the order of the directory
    FlushAt     \* bound of the buffer, in uids: strlen > 512 in the code

ASSUME ListingAssumption ==
    /\ Other \cap Uid = {} /\ Rank \in [Uid \cup Other -> Nat] /\ FlushAt \in Nat
    /\ \A e, f \in Uid \cup Other : Rank[e] = Rank[f] => e = f

VARIABLES
    child,      \* "none", "asked", "reading", "ended" or "refused"
    snapshot,   \* N_GROUPS as the child inherited it
    gid,        \* the group asked for
    fetched,    \* entries that readdir has fetched and not yet returned, in their order
    cursor,     \* rank of the last entry fetched
    buffer,     \* the uids in the buffer
    sent,       \* the uids written to the connection
    ever,       \* history: the uids that were members at some time since opendir
    always      \* history: the uids that were members all the time since opendir

childVars   == <<child, snapshot, gid, fetched, cursor, buffer, sent>>
listingVars == <<dirVars, childVars, ever, always>>

Entries(g) == member[g] \cup Other

-----------------------------------------------------------------------------
(* The client.                                                                *)

(* selectGroup(g), then ulist, as often as the user likes; the main process   *)
(* forks a child.                                                             *)
ulist(g) ==
    /\ child \in {"none", "ended", "refused"}
    /\ child' = "asked" /\ gid' = g /\ snapshot' = nGroups
    /\ fetched' = <<>> /\ cursor' = -1 /\ buffer' = <<>> /\ sent' = <<>>
    /\ UNCHANGED <<dirVars, ever, always>>

-----------------------------------------------------------------------------
(* The child.                                                                 *)

Open ==
    /\ child = "asked"
    /\ \/ /\ gid > snapshot \/ gid \notin groupDir
          /\ child' = "refused" /\ UNCHANGED <<ever, always>>
       \/ /\ gid <= snapshot /\ gid \in groupDir
          /\ child' = "reading" /\ ever' = member[gid] /\ always' = member[gid]
    /\ UNCHANGED <<dirVars, snapshot, gid, fetched, cursor, buffer, sent>>

InOrder(s) == \A i, j \in DOMAIN s : i < j => Rank[s[i]] < Rank[s[j]]

(* getdents: some of the entries that follow, in one system call.             *)
Fetch ==
    /\ child = "reading" /\ fetched = <<>>
    /\ \E last \in {e \in Entries(gid) : Rank[e] > cursor} :
         /\ \E s \in SetToSeqs({e \in Entries(gid) : cursor < Rank[e] /\ Rank[e] <= Rank[last]}) :
              InOrder(s) /\ fetched' = s
         /\ cursor' = Rank[last]
    /\ UNCHANGED <<dirVars, child, snapshot, gid, buffer, sent, ever, always>>

Append_NotEmptied ==                       \* mutant: no bzero after the write
    /\ child = "reading" /\ fetched # <<>>
    /\ fetched' = Tail(fetched)
    /\ LET b == IF Head(fetched) \in Other THEN buffer ELSE Append(buffer, Head(fetched))
       IN  /\ buffer' = b
           /\ IF Len(b) > FlushAt THEN sent' = sent \o b ELSE UNCHANGED sent
    /\ UNCHANGED <<dirVars, child, snapshot, gid, cursor, ever, always>>

(* ulsAppendUser, and the write of a full buffer.                             *)
AppendUser ==
    /\ child = "reading" /\ fetched # <<>>
    /\ fetched' = Tail(fetched)
    /\ LET b == IF Head(fetched) \in Other THEN buffer ELSE Append(buffer, Head(fetched))
       IN  IF Len(b) > FlushAt THEN sent' = sent \o b /\ buffer' = <<>>
           ELSE buffer' = b /\ UNCHANGED sent
    /\ UNCHANGED <<dirVars, child, snapshot, gid, cursor, ever, always>>

(* readdir returns NULL.                                                      *)
LastWrite ==
    /\ child = "reading" /\ fetched = <<>> /\ {e \in Entries(gid) : Rank[e] > cursor} = {}
    /\ child' = "ended" /\ sent' = sent \o buffer
    /\ UNCHANGED <<dirVars, snapshot, gid, fetched, cursor, buffer, ever, always>>

-----------------------------------------------------------------------------
(* The main process handles a command while the child reads.                  *)
MainStep ==
    /\ UdpCommand
    /\ IF child = "reading"
       THEN ever' = ever \cup member'[gid] /\ always' = always \cap member'[gid]
       ELSE UNCHANGED <<ever, always>>
    /\ UNCHANGED childVars

ListingInit ==
    /\ DirInit
    /\ child = "none" /\ snapshot = 0 /\ gid = 0 /\ fetched = <<>> /\ cursor = -1
    /\ buffer = <<>> /\ sent = <<>> /\ ever = {} /\ always = {}

Child == Open \/ Fetch \/ AppendUser \/ LastWrite

ListingNext ==
    \/ \E g \in Gid : ulist(g)
    \/ Child
    \/ MainStep

ListingSpec == ListingInit /\ [][ListingNext]_listingVars

-----------------------------------------------------------------------------
(* The answer names each user who was a member all the time, nobody who never *)
(* was one while the directory was read, and nobody twice, however the reads  *)
(* of the directory and of the main process interleave and however the list   *)
(* is cut into writes.                                                        *)
ListsTheMembers ==
    child = "ended" =>
        /\ always \subseteq ToSet(sent)
        /\ ToSet(sent) \subseteq ever
        /\ IsInjective(sent)
=============================================================================
