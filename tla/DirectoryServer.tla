--------------------------- MODULE DirectoryServer ---------------------------
(***************************************************************************)
(* The main process of the Directory Server (DS): the UDP command handlers *)
(* of server/src/udp_handling.h and the operations of                      *)
(* server/src/operations.c they call.                                      *)
(*                                                                         *)
(* The server keeps its state in two directory trees, USERS/ and GROUPS/,  *)
(* and in one variable of the process, N_GROUPS.  A UDP command is handled *)
(* to the end before the next select(), so each handler is one action; the *)
(* TCP children that share the trees are added in MessageServer.           *)
(***************************************************************************)
EXTENDS Integers, FiniteSets

CONSTANTS
    Uid,        \* well-formed user ids
    Password,   \* well-formed passwords
    GName,      \* well-formed group names
    MaxGroups,  \* the limit on N_GROUPS, 99 in the code
    MaxMsg,     \* cap on message numbers, below the 9999 that "%04d" can write
    NoFile,     \* "the file does not exist"
    Malformed   \* any argument its parse function rejects

ASSUME LimitsAssumption == MaxGroups \in Nat /\ MaxMsg \in Nat

ASSUME NoFileAssumption ==
    /\ NoFile \notin Password \cup GName \cup Nat
    /\ Malformed \notin Uid \cup Password \cup GName \cup Nat

Gid == 1 .. MaxGroups
Mid == 1 .. MaxMsg

VARIABLES
    userDir,    \* the uids with a directory USERS/<uid>
    password,   \* content of USERS/<uid>/password.txt
    login,      \* the uids with a file USERS/<uid>/login.txt
    nGroups,    \* N_GROUPS
    groupDir,   \* the gids with directories GROUPS/<gid> and GROUPS/<gid>/MSG
    groupName,  \* content of GROUPS/<gid>/name.txt
    member,     \* the uids with a file GROUPS/<gid>/<uid>.txt
    numMsg,     \* number in GROUPS/<gid>/MSG/num_msg.txt
    msgDir      \* the mids with a directory GROUPS/<gid>/MSG/<mid>

userVars  == <<userDir, password, login>>
groupVars == <<nGroups, groupDir, groupName, member>>
dirVars   == <<userVars, groupVars, numMsg, msgDir>>

-----------------------------------------------------------------------------
(* Arguments, as the handlers parse them. *)

parseUID(u)      == u \in Uid
parsePassword(p) == p \in Password
parseGID(g)      == g \in Gid
parseGName(n)    == n \in GName

UidArg      == Uid \cup {Malformed}
PasswordArg == Password \cup {Malformed}
GNameArg    == GName \cup {Malformed}
GidArg      == {0} \cup Gid \cup {Malformed}   \* 0 is "00": a new group

(* Two helpers of operations.c. *)

userLoggedIn(u)    == u \in login
PasswordIs(u, p)   == u \in userDir /\ password[u] = p    \* checkFileContent
GroupNameIs(g, n)  == g \in groupDir /\ groupName[g] = n  \* checkFileContent

CreateGroup_NoSubscription(g, n, u) ==     \* mutant: <uid>.txt of the creator forgotten
    /\ groupDir'  = groupDir \cup {g}
    /\ numMsg'    = [numMsg EXCEPT ![g] = 0]
    /\ groupName' = [groupName EXCEPT ![g] = n]
    /\ UNCHANGED member

CreateGroup_NoCounter(g, n, u) ==          \* mutant: num_msg.txt forgotten
    /\ groupDir'  = groupDir \cup {g}
    /\ groupName' = [groupName EXCEPT ![g] = n]
    /\ member'    = [member EXCEPT ![g] = @ \cup {u}]
    /\ UNCHANGED numMsg

(* createFile and mkdir on the files of group g; both leave the other files  *)
(* of an already existing directory as they are.                             *)
CreateGroup(g, n, u) ==
    /\ groupDir'  = groupDir \cup {g}
    /\ numMsg'    = [numMsg EXCEPT ![g] = 0]
    /\ groupName' = [groupName EXCEPT ![g] = n]
    /\ member'    = [member EXCEPT ![g] = @ \cup {u}]

-----------------------------------------------------------------------------
(* The status word each handler answers with: the first of its checks that   *)
(* fails, in the order of the code.                                          *)

RegStatus(u, p) ==
    IF ~parseUID(u) \/ ~parsePassword(p) THEN "NOK"
    ELSE IF u \in userDir THEN "DUP"
    ELSE "OK"

UnrStatus(u, p) ==
    IF parseUID(u) /\ parsePassword(p) /\ PasswordIs(u, p) THEN "OK" ELSE "NOK"

LogStatus(u, p) ==
    IF parseUID(u) /\ parsePassword(p) /\ PasswordIs(u, p) THEN "OK" ELSE "NOK"

OutStatus(u, p) ==
    IF /\ parseUID(u) /\ parsePassword(p)
       /\ userLoggedIn(u)
       /\ PasswordIs(u, p)
    THEN "OK" ELSE "NOK"

GsrStatus_NoLimit(u, g, n) ==              \* mutant: the test against 99 dropped
    IF ~parseUID(u) THEN "E_USR"
    ELSE IF ~parseGID(g) /\ g # 0 THEN "E_GRP"
    ELSE IF ~parseGName(n) THEN "E_GNAME"
    ELSE IF g > nGroups \/ ~userLoggedIn(u) THEN "NOK"
    ELSE IF g = 0 THEN "NEW"
    ELSE IF GroupNameIs(g, n) THEN "OK" ELSE "NOK"

GsrStatus_NoLogin(u, g, n) ==              \* mutant: userLoggedIn not asked
    IF ~parseUID(u) THEN "E_USR"
    ELSE IF ~parseGID(g) /\ g # 0 THEN "E_GRP"
    ELSE IF ~parseGName(n) THEN "E_GNAME"
    ELSE IF g > nGroups THEN "NOK"
    ELSE IF g = 0 THEN (IF nGroups >= MaxGroups THEN "FULL" ELSE "NEW")
    ELSE IF GroupNameIs(g, n) THEN "OK" ELSE "NOK"

GsrStatus(u, g, n) ==
    IF ~parseUID(u) THEN "E_USR"
    ELSE IF ~parseGID(g) /\ g # 0 THEN "E_GRP"
    ELSE IF ~parseGName(n) THEN "E_GNAME"
    ELSE IF g > nGroups \/ ~userLoggedIn(u) THEN "NOK"
    ELSE IF g = 0 THEN (IF nGroups >= MaxGroups THEN "FULL" ELSE "NEW")
    ELSE IF GroupNameIs(g, n) THEN "OK" ELSE "NOK"

GurStatus(u, g) ==
    IF ~parseUID(u) THEN "E_USR"
    ELSE IF ~parseGID(g) THEN "E_GRP"
    ELSE IF g > nGroups \/ ~userLoggedIn(u) \/ u \notin member[g] THEN "NOK"
    ELSE "OK"

-----------------------------------------------------------------------------
(* The handlers.  A command that is refused changes nothing; it is a step of *)
(* the process all the same, and the client modules send its answer.         *)

REG(u, p) ==
    \/ /\ RegStatus(u, p) = "OK"
       /\ userDir'  = userDir \cup {u}
       /\ password' = [password EXCEPT ![u] = p]
       /\ UNCHANGED <<login, groupVars, numMsg, msgDir>>
    \/ RegStatus(u, p) # "OK" /\ UNCHANGED dirVars

UNR_MissesLastGroup(u, p) ==               \* mutant: the loop over the groups ends one early
    \/ /\ UnrStatus(u, p) = "OK"
       /\ password' = [password EXCEPT ![u] = NoFile]
       /\ login'    = login \ {u}
       /\ userDir'  = userDir \ {u}
       /\ member'   = [g \in Gid |-> IF g = MaxGroups THEN member[g] ELSE member[g] \ {u}]
       /\ UNCHANGED <<nGroups, groupDir, groupName, numMsg, msgDir>>
    \/ UnrStatus(u, p) # "OK" /\ UNCHANGED dirVars

UNR_UpToNGroups(u, p) ==                   \* mutant: the loop ends at N_GROUPS
    \/ /\ UnrStatus(u, p) = "OK"
       /\ password' = [password EXCEPT ![u] = NoFile]
       /\ login'    = login \ {u}
       /\ userDir'  = userDir \ {u}
       /\ member'   = [g \in Gid |-> IF g > nGroups THEN member[g] ELSE member[g] \ {u}]
       /\ UNCHANGED <<nGroups, groupDir, groupName, numMsg, msgDir>>
    \/ UnrStatus(u, p) # "OK" /\ UNCHANGED dirVars

UNR(u, p) ==
    \/ /\ UnrStatus(u, p) = "OK"
       /\ password' = [password EXCEPT ![u] = NoFile]
       /\ login'    = login \ {u}
       /\ userDir'  = userDir \ {u}
       /\ member'   = [g \in Gid |-> member[g] \ {u}]
       /\ UNCHANGED <<nGroups, groupDir, groupName, numMsg, msgDir>>
    \/ UnrStatus(u, p) # "OK" /\ UNCHANGED dirVars

LOG(u, p) ==
    \/ /\ LogStatus(u, p) = "OK"
       /\ login' = login \cup {u}
       /\ UNCHANGED <<userDir, password, groupVars, numMsg, msgDir>>
    \/ LogStatus(u, p) # "OK" /\ UNCHANGED dirVars

OUT(u, p) ==
    \/ /\ OutStatus(u, p) = "OK"
       /\ login' = login \ {u}
       /\ UNCHANGED <<userDir, password, groupVars, numMsg, msgDir>>
    \/ OutStatus(u, p) # "OK" /\ UNCHANGED dirVars

NewGroup(u, g, n) ==
    /\ GsrStatus(u, g, n) = "NEW"
    /\ nGroups' = nGroups + 1
    /\ CreateGroup(nGroups + 1, n, u)
    /\ UNCHANGED <<userVars, msgDir>>

JoinGroup_ResetsCounter(u, g, n) ==        \* mutant: num_msg.txt created again
    /\ GsrStatus(u, g, n) = "OK"
    /\ member' = [member EXCEPT ![g] = @ \cup {u}]
    /\ numMsg' = [numMsg EXCEPT ![g] = 0]
    /\ UNCHANGED <<userVars, nGroups, groupDir, groupName, msgDir>>

JoinGroup(u, g, n) ==
    /\ GsrStatus(u, g, n) = "OK"
    /\ member' = [member EXCEPT ![g] = @ \cup {u}]
    /\ UNCHANGED <<userVars, nGroups, groupDir, groupName, numMsg, msgDir>>

GSR(u, g, n) ==
    \/ NewGroup(u, g, n)
    \/ JoinGroup(u, g, n)
    \/ GsrStatus(u, g, n) \notin {"NEW", "OK"} /\ UNCHANGED dirVars

GUR(u, g) ==
    \/ /\ GurStatus(u, g) = "OK"
       /\ member' = [member EXCEPT ![g] = @ \ {u}]
       /\ UNCHANGED <<userVars, nGroups, groupDir, groupName, numMsg, msgDir>>
    \/ GurStatus(u, g) # "OK" /\ UNCHANGED dirVars

-----------------------------------------------------------------------------
(* The server starts on the empty directories USERS/ and GROUPS/ it was      *)
(* installed with; it never creates them itself.                             *)
DirInit ==
    /\ userDir = {}
    /\ password = [u \in Uid |-> NoFile]
    /\ login = {}
    /\ nGroups = 0
    /\ groupDir = {}
    /\ groupName = [g \in Gid |-> NoFile]
    /\ member = [g \in Gid |-> {}]
    /\ numMsg = [g \in Gid |-> NoFile]
    /\ msgDir = [g \in Gid |-> {}]

UdpCommand ==
    \/ \E u \in UidArg, p \in PasswordArg : REG(u, p) \/ UNR(u, p) \/ LOG(u, p) \/ OUT(u, p)
    \/ \E u \in UidArg, g \in GidArg, n \in GNameArg : GSR(u, g, n)
    \/ \E u \in UidArg, g \in GidArg : GUR(u, g)

DirSpec == DirInit /\ [][UdpCommand]_dirVars

-----------------------------------------------------------------------------
(* The directory trees have the shape the operations rely on. *)
DirTypeOK ==
    /\ userDir \in SUBSET Uid
    /\ password \in [Uid -> Password \cup {NoFile}]
    /\ login \in SUBSET Uid
    /\ nGroups \in 0 .. MaxGroups
    /\ groupDir \in SUBSET Gid
    /\ groupName \in [Gid -> GName \cup {NoFile}]
    /\ member \in [Gid -> SUBSET Uid]
    /\ numMsg \in [Gid -> (0 .. MaxMsg) \cup {NoFile}]
    /\ msgDir \in [Gid -> SUBSET Mid]

(* A uid that is logged in or subscribed to a group is the uid of a user that *)
(* is registered now.  USERS/ and GROUPS/ are separate trees, changed by      *)
(* different commands that check each other's files: subscribe trusts         *)
(* login.txt, and unregisterUser has to find every trace of the uid.          *)
NoGhostUsers ==
    /\ login \subseteq userDir
    /\ \A g \in Gid : member[g] \subseteq userDir

(* The gids below N_GROUPS are exactly the group directories on disk: every   *)
(* "atoi(gid) > N_GROUPS" test stands for "GROUPS/<gid> does not exist", and  *)
(* the code behind it opens files there without looking at the result.        *)
GroupsDense ==
    /\ groupDir = 1 .. nGroups
    /\ \A g \in groupDir : groupName[g] # NoFile /\ numMsg[g] # NoFile

(* A gid that was never handed out has no files: the mkdir of a new group     *)
(* ignores EEXIST and would adopt whatever it finds.                          *)
UnusedGroupsEmpty ==
    \A g \in Gid : g > nGroups =>
        /\ groupName[g] = NoFile /\ numMsg[g] = NoFile
        /\ member[g] = {} /\ msgDir[g] = {}

(* Someone who registers, also with a uid that was used before, starts logged *)
(* out and in no group: nothing of an earlier user of that uid is inherited.  *)
FreshUserInheritsNothing ==
    [][\A u \in userDir' \ userDir :
          u \notin login' /\ \A g \in Gid : u \notin member'[g]]_dirVars

(* A new group starts with its creator as the only member and no messages,    *)
(* whatever has happened on the server before.                                *)
NewGroupIsFresh ==
    [][\A g \in groupDir' \ groupDir :
          /\ Cardinality(member'[g]) = 1 /\ member'[g] \subseteq login'
          /\ numMsg'[g] = 0 /\ msgDir'[g] = {}]_dirVars

(* A group is never removed or renamed, and its message count never goes      *)
(* down: clients hold on to a gid and to message ids across their whole       *)
(* session.  The count is rewritten by every post (MessageServer) from a      *)
(* value it read before.                                                      *)
GroupsPermanent ==
    [][\A g \in groupDir :
          /\ g \in groupDir' /\ groupName'[g] = groupName[g]
          /\ numMsg'[g] # NoFile /\ numMsg'[g] >= numMsg[g]]_dirVars
=============================================================================
