------------------------------- MODULE Shutdown -------------------------------
(***************************************************************************)
(* SIGINT at the server: signalHandler of server/src/main.c calls          *)
(* deleteState, which removes the trees GROUPS/ and USERS/ with            *)
(* removeDirRecursive (server/src/operations.c), one entry at a time.      *)
(*                                                                         *)
(* The children of fork() have the handler too.  Ctrl-C reaches them as    *)
(* well as the main process, and then several processes remove the same    *)
(* trees; kill reaches the main process only, and then the children go on  *)
(* with the posts they are in.                                             *)
(***************************************************************************)
EXTENDS Integers, Sequences, SequencesExt

CONSTANTS
    Entry,      \* files and directories that may exist, by their paths
    Dir,        \* the directories among them
    Groups,     \* GROUPS
    Users,      \* USERS
    Parent,     \* [Entry -> Dir], Groups and Users are their own parents
    TreeOf,     \* [Entry -> {Groups, Users}]: the tree an entry is in
    Rank,       \* [Entry -> Int]: the order in which the file system lists entries
    Stored,     \* the entries that no post is creating when the signal is sent
    Process,    \* the main process and its children
    Main,
    Creates     \* [Process -> Seq(Entry)]: what the post of a child creates

ASSUME TreeAssumption ==
    /\ Dir \subseteq Entry /\ Groups \in Dir /\ Users \in Dir /\ Groups # Users
    /\ Parent \in [Entry -> Dir]
    /\ \A e \in Entry : Parent[e] = e <=> e \in {Groups, Users}
    /\ TreeOf \in [Entry -> {Groups, Users}] /\ TreeOf[Groups] = Groups /\ TreeOf[Users] = Users
    /\ \A e \in Entry : TreeOf[Parent[e]] = TreeOf[e]
    /\ Stored \subseteq Entry /\ \A e \in Stored : Parent[e] \in Stored

(* Every path begins with GROUPS or with USERS.                               *)
ASSUME PathAssumption ==
    \A S \in SUBSET Entry :
        S # {} /\ (\A e \in S : Parent[e] \in S) => S \cap {Groups, Users} # {}

(* A directory lists its entries in one order to everybody.                   *)
ASSUME RankAssumption ==
    /\ Rank \in [Entry -> Int]
    /\ \A e, f \in Entry : Parent[e] = Parent[f] /\ Rank[e] = Rank[f] => e = f

(* post() creates files in GROUPS/ only, each in a directory it found or made. *)
ASSUME ProcessAssumption ==
    /\ Main \in Process
    /\ Creates \in [Process -> Seq(Entry \ {Groups, Users})] /\ Creates[Main] = <<>>
    /\ \A p \in Process : \A i \in DOMAIN Creates[p] :
         /\ TreeOf[Creates[p][i]] = Groups
         /\ Parent[Creates[p][i]] \in Stored \cup {Creates[p][j] : j \in 1 .. (i - 1)}

VARIABLES
    onDisk,     \* the entries that exist
    at,         \* what process p does: "running", a tree to remove, "gone"
    scan,       \* the directories p is in, outermost first, with the entries it has still to visit
    made        \* how many entries of Creates[p] the child has created

vars == <<onDisk, at, scan, made>>

Kids(d) == {e \in Entry \ {Groups, Users} : Parent[e] = d}
Inside(d) == Kids(d) \cap onDisk

Frame == [dir : Dir, todo : SUBSET Entry]
Top(p) == scan[p][Len(scan[p])]

-----------------------------------------------------------------------------
(* The post of a child, from its mkdir of the message directory on.  What     *)
(* cannot be created is passed over: post() looks at no result on its way.    *)

Create(p) ==
    /\ at[p] = "running" /\ made[p] < Len(Creates[p])
    /\ LET e == Creates[p][made[p] + 1]
       IN  onDisk' = IF Parent[e] \in onDisk THEN onDisk \cup {e} ELSE onDisk
    /\ made' = [made EXCEPT ![p] = @ + 1]
    /\ UNCHANGED <<at, scan>>

Finish(p) ==
    /\ at[p] = "running" /\ p # Main /\ made[p] = Len(Creates[p])
    /\ at' = [at EXCEPT ![p] = "gone"]
    /\ UNCHANGED <<onDisk, scan, made>>

-----------------------------------------------------------------------------
(* signalHandler.  The process never returns to what it was doing.  Ctrl-C    *)
(* reaches the children too, kill only the process that is named.             *)

Handle(p) ==
    /\ at[p] = "running"
    /\ at' = [at EXCEPT ![p] = "GROUPS"]
    /\ UNCHANGED <<onDisk, scan, made>>

Root(p) == IF at[p] = "GROUPS" THEN Groups ELSE Users

NextTree_OnlyAfterSuccess(p, ok) ==        \* mutant: USERS only when GROUPS could be removed
    /\ at' = [at EXCEPT ![p] = IF @ = "GROUPS" /\ ok THEN "USERS" ELSE "gone"]
    /\ scan' = [scan EXCEPT ![p] = <<>>]

NextTree_KeepsPlace(p, ok) ==              \* mutant: the loops of GROUPS are not left
    /\ at' = [at EXCEPT ![p] = IF @ = "GROUPS" THEN "USERS" ELSE "gone"]
    /\ UNCHANGED scan

(* deleteState goes from GROUPS to USERS and then exits, whatever             *)
(* removeDirRecursive returned: ok is not looked at.                          *)
NextTree(p, ok) ==
    /\ at' = [at EXCEPT ![p] = IF @ = "GROUPS" THEN "USERS" ELSE "gone"]
    /\ scan' = [scan EXCEPT ![p] = <<>>]

(* A failure anywhere ends every loop above it and leaves those directories:  *)
(* the -1 becomes the res1 of each caller.                                    *)
Fail(p) == NextTree(p, FALSE) /\ UNCHANGED <<onDisk, made>>

EnterRoot(p) ==
    /\ at[p] \in {"GROUPS", "USERS"} /\ scan[p] = <<>>
    /\ \/ /\ Root(p) \in onDisk
          /\ scan' = [scan EXCEPT ![p] = <<[dir |-> Root(p), todo |-> Inside(Root(p))]>>]
          /\ UNCHANGED <<onDisk, at, made>>
       \/ Root(p) \notin onDisk /\ Fail(p)

(* The entry the loop comes to: readdir gives what was there when the         *)
(* directory was opened, in the order of the file system.                     *)
IsNext(p, e) ==
    /\ scan[p] # <<>> /\ e \in Top(p).todo
    /\ \A f \in Top(p).todo : Rank[e] <= Rank[f]

Visited(p, e) == [scan[p] EXCEPT ![Len(scan[p])].todo = @ \ {e}]

Visit(p, e) ==
    /\ IsNext(p, e)
    /\ \/ /\ e \in onDisk /\ e \notin Dir
          /\ onDisk' = onDisk \ {e}
          /\ scan' = [scan EXCEPT ![p] = Visited(p, e)]
          /\ UNCHANGED <<at, made>>
       \/ /\ e \in onDisk /\ e \in Dir
          /\ scan' = [scan EXCEPT ![p] = Append(Visited(p, e), [dir |-> e, todo |-> Inside(e)])]
          /\ UNCHANGED <<onDisk, at, made>>
       \/ e \notin onDisk /\ Fail(p)

(* Entries created after the directory was opened may be returned at the end, *)
(* or not: that is up to the file system.                                     *)
ReadMore(p) ==
    /\ scan[p] # <<>> /\ Top(p).todo = {} /\ Inside(Top(p).dir) # {}
    /\ scan' = [scan EXCEPT ![p] = [@ EXCEPT ![Len(@)].todo = Inside(Top(p).dir)]]
    /\ UNCHANGED <<onDisk, at, made>>

RemoveDir_FilesOnly(p) ==                  \* mutant: rmdir forgotten
    /\ scan[p] # <<>> /\ Top(p).todo = {}
    /\ \/ /\ Len(scan[p]) = 1 /\ NextTree(p, TRUE)
       \/ /\ Len(scan[p]) > 1 /\ scan' = [scan EXCEPT ![p] = Front(@)] /\ UNCHANGED at
    /\ UNCHANGED <<onDisk, made>>

RemoveDir_Retries(p) ==                    \* mutant: a directory that is not empty is tried again
    /\ scan[p] # <<>> /\ Top(p).todo = {}
    /\ Inside(Top(p).dir) = {} /\ Top(p).dir \in onDisk
    /\ onDisk' = onDisk \ {Top(p).dir}
    /\ \/ /\ Len(scan[p]) = 1 /\ NextTree(p, TRUE)
       \/ /\ Len(scan[p]) > 1 /\ scan' = [scan EXCEPT ![p] = Front(@)] /\ UNCHANGED at
    /\ UNCHANGED made

(* rmdir, and the return to the directory above.                              *)
RemoveDir(p) ==
    /\ scan[p] # <<>> /\ Top(p).todo = {}
    /\ \/ /\ Inside(Top(p).dir) = {} /\ Top(p).dir \in onDisk
          /\ onDisk' = onDisk \ {Top(p).dir}
          /\ \/ /\ Len(scan[p]) = 1 /\ NextTree(p, TRUE)
             \/ /\ Len(scan[p]) > 1 /\ scan' = [scan EXCEPT ![p] = Front(@)] /\ UNCHANGED at
          /\ UNCHANGED made
       \/ /\ Inside(Top(p).dir) # {} \/ Top(p).dir \notin onDisk
          /\ Fail(p)

-----------------------------------------------------------------------------
PostUnderWay == \E p \in Process : made[p] < Len(Creates[p])

(* Each child is about to begin its post, or has come to the end of it.       *)
Init ==
    /\ \E posting \in SUBSET Process :
         /\ made = [p \in Process |-> IF p \in posting THEN 0 ELSE Len(Creates[p])]
         /\ onDisk = Stored \cup UNION {ToSet(Creates[p]) : p \in Process \ posting}
    /\ at = [p \in Process |-> "running"]
    /\ scan = [p \in Process |-> <<>>]

Delete(p) ==
    \/ EnterRoot(p) \/ ReadMore(p) \/ RemoveDir(p)
    \/ \E e \in Entry : Visit(p, e)

Next == \E p \in Process : Create(p) \/ Finish(p) \/ Handle(p) \/ Delete(p)

Spec == Init /\ [][Next]_vars

(* The kernel runs every process, and the signal comes to the main process.   *)
FairSpec ==
    /\ Spec /\ WF_vars(Handle(Main))
    /\ \A p \in Process : WF_vars(Create(p) \/ Finish(p) \/ Delete(p))

-----------------------------------------------------------------------------
(* Every entry on disk is in a directory on disk, and the directories a       *)
(* process is in lead from the root of its tree down.                         *)
TypeOK ==
    /\ onDisk \subseteq Entry /\ \A e \in onDisk : Parent[e] \in onDisk
    /\ at \in [Process -> {"running", "GROUPS", "USERS", "gone"}]
    /\ scan \in [Process -> Seq(Frame)]
    /\ made \in [Process -> Nat]
    /\ \A p \in Process : scan[p] # <<>> => scan[p][1].dir = Root(p)

AllGone == \A p \in Process : at[p] = "gone"

(* "Deletes all the files the server had previously stored"                   *)
(* (operations.c:498): when the last process is gone, nothing is on disk,     *)
(* however many of them got the signal and trip over each other's deletions:  *)
(* the one that is furthest meets nothing another one has removed.  A post    *)
(* that is under way can create files in a directory about to be removed.     *)
DeletesAll == ~PostUnderWay => [](AllGone => onDisk = {})

(* Passwords and logins never outlive the server, even when messages do:      *)
(* children create nothing in USERS/, and a failure in GROUPS/ does not keep  *)
(* the handler from it.                                                       *)
UsersEmptied == AllGone => Users \notin onDisk

(* The main process ends after the signal, although others keep changing the  *)
(* trees it walks.                                                            *)
ShutdownEnds == <>(at[Main] = "gone")
=============================================================================
