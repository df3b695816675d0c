------------------------------- MODULE Restart -------------------------------
(***************************************************************************)
(* The life of the directory trees over several runs of the server.  A run *)
(* ends with SIGINT, which removes USERS/ and GROUPS/ themselves as well   *)
(* (see Shutdown for how), or the process is killed and leaves them.  The  *)
(* next run starts with N_GROUPS = 0 either way and looks at nothing that  *)
(* is on disk; only a person creates USERS/ and GROUPS/.                   *)
(***************************************************************************)
EXTENDS DirectoryServer

VARIABLE installed      \* USERS/ and GROUPS/ exist

restartVars == <<dirVars, installed>>

(* Without USERS/ the mkdir in registerUser fails, and the answer is DUP as it *)
(* is for a uid that is taken; every other command is refused by its own      *)
(* checks.                                                                    *)
Command ==
    /\ \/ installed /\ UdpCommand
       \/ ~installed /\ UNCHANGED dirVars
    /\ UNCHANGED installed

(* SIGINT with no child under way: deleteState empties and removes both.      *)
Interrupted ==
    /\ installed' = FALSE
    /\ userDir' = {} /\ password' = [u \in Uid |-> NoFile] /\ login' = {}
    /\ nGroups' = 0 /\ groupDir' = {}
    /\ groupName' = [g \in Gid |-> NoFile] /\ member' = [g \in Gid |-> {}]
    /\ numMsg' = [g \in Gid |-> NoFile] /\ msgDir' = [g \in Gid |-> {}]

(* The process ends between two commands without its handler, and is started  *)
(* again on the same trees.                                                   *)
Killed ==
    /\ nGroups' = 0
    /\ UNCHANGED <<userVars, groupDir, groupName, member, numMsg, msgDir, installed>>

Install ==
    /\ ~installed /\ installed' = TRUE
    /\ UNCHANGED dirVars

-----------------------------------------------------------------------------
(* Someone has created USERS/ and GROUPS/, which the repository does not have. *)
RestartInit == DirInit /\ installed = TRUE

RestartNext == Command \/ Interrupted \/ Killed \/ Install

RestartSpec == RestartInit /\ [][RestartNext]_restartVars

-----------------------------------------------------------------------------
(* Properties of DirectoryServer that hold over several runs too.             *)
(*                                                                            *)
(* NoGhostUsers, FreshUserInheritsNothing: unregisterUser goes through all    *)
(* hundred gids, those above N_GROUPS included, and so finds subscriptions    *)
(* that earlier runs have left.                                               *)
(*                                                                            *)
(* NewGroupIsFresh: a group begins with its creator alone when its directory  *)
(* was not there.  It is, for the gids of a run that was killed: those groups *)
(* are adopted with their members.                                            *)

(* Nothing is on disk below directories that do not exist, and groups that    *)
(* are there have all their files, whatever N_GROUPS says of them.            *)
RestartTypeOK ==
    /\ DirTypeOK /\ installed \in BOOLEAN
    /\ ~installed => userDir = {} /\ groupDir = {}
    /\ 1 .. nGroups \subseteq groupDir
    /\ \A g \in groupDir : groupName[g] # NoFile /\ numMsg[g] # NoFile
    /\ \A g \in Gid \ groupDir : member[g] = {} /\ msgDir[g] = {}
=============================================================================
