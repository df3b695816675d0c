------------------------ MODULE DirectoryServerProofs ------------------------
(***************************************************************************)
(* DirectoryServer, proved for any users, group names and limits.  The     *)
(* four invariants are one inductive invariant, DirInv; the lemmas say     *)
(* what a command that is accepted knows, and that each command preserves  *)
(* DirInv.  MessageServerProofs uses the lemmas again for the composed     *)
(* server.                                                                 *)
(***************************************************************************)
EXTENDS DirectoryServer, FiniteSetTheorems, TLAPS

USE LimitsAssumption, NoFileAssumption DEF Gid, Mid

DirInv == DirTypeOK /\ NoGhostUsers /\ GroupsDense /\ UnusedGroupsEmpty

-----------------------------------------------------------------------------
(* What the checks of the handlers have established when they accept. *)

(* REG is answered OK only for a well-formed, unregistered uid. *)
LEMMA RegAccepted ==
    ASSUME NEW u, NEW p, RegStatus(u, p) = "OK"
    PROVE  u \in Uid /\ p \in Password /\ u \notin userDir
BY DEF RegStatus, parseUID, parsePassword

(* UNR, LOG and OUT are answered OK only for a registered user. *)
LEMMA PasswordAccepted ==
    ASSUME NEW u, NEW p,
           UnrStatus(u, p) = "OK" \/ LogStatus(u, p) = "OK" \/ OutStatus(u, p) = "OK"
    PROVE  u \in Uid /\ u \in userDir
BY DEF UnrStatus, LogStatus, OutStatus, parseUID, PasswordIs

(* GSR with gid 00 is answered NEW only to a logged-in user and below the     *)
(* limit on groups.                                                           *)
LEMMA NewAccepted ==
    ASSUME NEW u, NEW g, NEW n, GsrStatus(u, g, n) = "NEW", nGroups \in 0 .. MaxGroups
    PROVE  u \in Uid /\ u \in login /\ n \in GName /\ nGroups + 1 \in Gid
<1>1. u \in Uid /\ u \in login /\ n \in GName /\ ~(nGroups >= MaxGroups)
  BY DEF GsrStatus, parseUID, parseGName, userLoggedIn
<1> QED  BY <1>1

(* GSR with the gid of a group is answered OK only to a logged-in user and    *)
(* for a group on disk.                                                       *)
LEMMA JoinAccepted ==
    ASSUME NEW u, NEW g, NEW n, GsrStatus(u, g, n) = "OK"
    PROVE  u \in Uid /\ u \in login /\ g \in groupDir
BY DEF GsrStatus, parseUID, userLoggedIn, GroupNameIs

-----------------------------------------------------------------------------
(* Every command preserves DirInv. *)

(* REG adds a user who is in no group and not logged in. *)
LEMMA RegStep ==
    ASSUME DirInv, NEW u \in UidArg, NEW p \in PasswordArg, REG(u, p)
    PROVE  DirInv'
<1>1. CASE UNCHANGED dirVars
  BY <1>1 DEF DirInv, DirTypeOK, NoGhostUsers, GroupsDense, UnusedGroupsEmpty,
              dirVars, userVars, groupVars
<1>2. CASE RegStatus(u, p) = "OK" /\ ~UNCHANGED dirVars
  <2>1. u \in Uid /\ p \in Password  BY <1>2, RegAccepted
  <2>2. /\ userDir' = userDir \cup {u} /\ password' = [password EXCEPT ![u] = p]
        /\ UNCHANGED <<login, groupVars, numMsg, msgDir>>
    BY <1>2 DEF REG
  <2>3. DirTypeOK'  BY <2>1, <2>2 DEF DirInv, DirTypeOK, groupVars
  <2>4. NoGhostUsers'  BY <2>2 DEF DirInv, NoGhostUsers, groupVars
  <2>5. GroupsDense' /\ UnusedGroupsEmpty'
    BY <2>2 DEF DirInv, GroupsDense, UnusedGroupsEmpty, groupVars
  <2> QED  BY <2>3, <2>4, <2>5 DEF DirInv
<1> QED  BY <1>1, <1>2 DEF REG

(* UNR removes every trace of the user from both trees. *)
LEMMA UnrStep ==
    ASSUME DirInv, NEW u \in UidArg, NEW p \in PasswordArg, UNR(u, p)
    PROVE  DirInv'
<1>1. CASE UNCHANGED dirVars
  BY <1>1 DEF DirInv, DirTypeOK, NoGhostUsers, GroupsDense, UnusedGroupsEmpty,
              dirVars, userVars, groupVars
<1>2. CASE UnrStatus(u, p) = "OK" /\ ~UNCHANGED dirVars
  <2>1. u \in Uid  BY <1>2, PasswordAccepted
  <2>2. /\ password' = [password EXCEPT ![u] = NoFile]
        /\ login' = login \ {u} /\ userDir' = userDir \ {u}
        /\ member' = [g \in Gid |-> member[g] \ {u}]
        /\ UNCHANGED <<nGroups, groupDir, groupName, numMsg, msgDir>>
    BY <1>2 DEF UNR
  <2>3. DirTypeOK'  BY <2>1, <2>2 DEF DirInv, DirTypeOK
  <2>4. NoGhostUsers'  BY <2>2 DEF DirInv, NoGhostUsers
  <2>5. GroupsDense' /\ UnusedGroupsEmpty'
    BY <2>2 DEF DirInv, GroupsDense, UnusedGroupsEmpty
  <2> QED  BY <2>3, <2>4, <2>5 DEF DirInv
<1> QED  BY <1>1, <1>2 DEF UNR

(* LOG creates login.txt for a registered user, OUT removes it. *)
LEMMA LoginStep ==
    ASSUME DirInv, NEW u \in UidArg, NEW p \in PasswordArg, LOG(u, p) \/ OUT(u, p)
    PROVE  DirInv'
<1>1. CASE UNCHANGED dirVars
  BY <1>1 DEF DirInv, DirTypeOK, NoGhostUsers, GroupsDense, UnusedGroupsEmpty,
              dirVars, userVars, groupVars
<1>2. CASE ~UNCHANGED dirVars
  <2>1. LogStatus(u, p) = "OK" \/ OutStatus(u, p) = "OK"  BY <1>2 DEF LOG, OUT
  <2>2. u \in Uid /\ u \in userDir  BY <2>1, PasswordAccepted
  <2>3. /\ login' = login \cup {u} \/ login' = login \ {u}
        /\ UNCHANGED <<userDir, password, groupVars, numMsg, msgDir>>
    BY <1>2 DEF LOG, OUT
  <2>4. DirTypeOK'  BY <2>2, <2>3 DEF DirInv, DirTypeOK, groupVars
  <2>5. NoGhostUsers'  BY <2>2, <2>3 DEF DirInv, NoGhostUsers, groupVars
  <2>6. GroupsDense' /\ UnusedGroupsEmpty'
    BY <2>3 DEF DirInv, GroupsDense, UnusedGroupsEmpty, groupVars
  <2> QED  BY <2>4, <2>5, <2>6 DEF DirInv
<1> QED  BY <1>1, <1>2

(* GSR creates group N_GROUPS + 1, of which nothing is on disk yet, or adds a *)
(* registered user to a group that exists.                                    *)
LEMMA GsrStep ==
    ASSUME DirInv, NEW u \in UidArg, NEW g \in GidArg, NEW n \in GNameArg, GSR(u, g, n)
    PROVE  DirInv'
<1>1. CASE UNCHANGED dirVars
  BY <1>1 DEF DirInv, DirTypeOK, NoGhostUsers, GroupsDense, UnusedGroupsEmpty,
              dirVars, userVars, groupVars
<1>2. CASE NewGroup(u, g, n)
  <2>1. u \in Uid /\ u \in login /\ n \in GName /\ nGroups + 1 \in Gid
    BY <1>2, NewAccepted DEF NewGroup, DirInv, DirTypeOK
  <2>2. /\ nGroups' = nGroups + 1
        /\ groupDir'  = groupDir \cup {nGroups + 1}
        /\ numMsg'    = [numMsg EXCEPT ![nGroups + 1] = 0]
        /\ groupName' = [groupName EXCEPT ![nGroups + 1] = n]
        /\ member'    = [member EXCEPT ![nGroups + 1] = @ \cup {u}]
        /\ UNCHANGED <<userDir, password, login, msgDir>>
    BY <1>2 DEF NewGroup, CreateGroup, userVars
  <2>3. DirTypeOK'  BY <2>1, <2>2 DEF DirInv, DirTypeOK
  <2>4. NoGhostUsers'  BY <2>1, <2>2 DEF DirInv, DirTypeOK, NoGhostUsers
  <2>5. GroupsDense'  BY <2>1, <2>2 DEF DirInv, DirTypeOK, GroupsDense
  <2>6. UnusedGroupsEmpty'  BY <2>1, <2>2 DEF DirInv, DirTypeOK, UnusedGroupsEmpty
  <2> QED  BY <2>3, <2>4, <2>5, <2>6 DEF DirInv
<1>3. CASE JoinGroup(u, g, n)
  <2>1. u \in Uid /\ u \in login /\ g \in groupDir
    BY <1>3, JoinAccepted DEF JoinGroup
  <2>2. /\ member' = [member EXCEPT ![g] = @ \cup {u}]
        /\ UNCHANGED <<userDir, password, login, nGroups, groupDir, groupName, numMsg, msgDir>>
    BY <1>3 DEF JoinGroup, userVars
  <2>3. DirTypeOK'  BY <2>1, <2>2 DEF DirInv, DirTypeOK
  <2>4. NoGhostUsers'  BY <2>1, <2>2 DEF DirInv, DirTypeOK, NoGhostUsers
  <2>5. GroupsDense'  BY <2>2 DEF DirInv, GroupsDense
  <2>6. UnusedGroupsEmpty'
    BY <2>1, <2>2 DEF DirInv, DirTypeOK, GroupsDense, UnusedGroupsEmpty
  <2> QED  BY <2>3, <2>4, <2>5, <2>6 DEF DirInv
<1> QED  BY <1>1, <1>2, <1>3 DEF GSR

(* GUR removes one subscription. *)
LEMMA GurStep ==
    ASSUME DirInv, NEW u \in UidArg, NEW g \in GidArg, GUR(u, g)
    PROVE  DirInv'
<1>1. CASE UNCHANGED dirVars
  BY <1>1 DEF DirInv, DirTypeOK, NoGhostUsers, GroupsDense, UnusedGroupsEmpty,
              dirVars, userVars, groupVars
<1>2. CASE GurStatus(u, g) = "OK" /\ ~UNCHANGED dirVars
  <2>1. g \in Gid  BY <1>2 DEF GurStatus, parseGID
  <2>2. /\ member' = [member EXCEPT ![g] = @ \ {u}]
        /\ UNCHANGED <<userDir, password, login, nGroups, groupDir, groupName, numMsg, msgDir>>
    BY <1>2 DEF GUR, userVars
  <2>3. DirTypeOK'  BY <2>1, <2>2 DEF DirInv, DirTypeOK
  <2>4. NoGhostUsers'  BY <2>1, <2>2 DEF DirInv, DirTypeOK, NoGhostUsers
  <2>5. GroupsDense' /\ UnusedGroupsEmpty'
    BY <2>1, <2>2 DEF DirInv, DirTypeOK, GroupsDense, UnusedGroupsEmpty
  <2> QED  BY <2>3, <2>4, <2>5 DEF DirInv
<1> QED  BY <1>1, <1>2 DEF GUR

(* Any command of the main process preserves DirInv. *)
LEMMA UdpCommandStep ==
    ASSUME DirInv, UdpCommand
    PROVE  DirInv'
BY RegStep, UnrStep, LoginStep, GsrStep, GurStep DEF UdpCommand

(* The server starts in DirInv. *)
LEMMA DirInitInv == DirInit => DirInv
BY DEF DirInit, DirInv, DirTypeOK, NoGhostUsers, GroupsDense, UnusedGroupsEmpty

-----------------------------------------------------------------------------
(* The inductive invariant of the main process: types, no traces of users who *)
(* are gone, group directories that are exactly 1 .. N_GROUPS, and nothing on *)
(* disk beyond them.                                                          *)
THEOREM DirInvariant == DirSpec => []DirInv
<1>1. DirInit => DirInv  BY DirInitInv
<1>2. DirInv /\ [UdpCommand]_dirVars => DirInv'
  <2>1. CASE UNCHANGED dirVars
    BY <2>1 DEF DirInv, DirTypeOK, NoGhostUsers, GroupsDense, UnusedGroupsEmpty,
                dirVars, userVars, groupVars
  <2> QED  BY <2>1, UdpCommandStep
<1> QED  BY <1>1, <1>2, PTL DEF DirSpec

(* The trees keep their types. *)
THEOREM DirTypeCorrect == DirSpec => []DirTypeOK
BY DirInvariant, PTL DEF DirInv

(* No uid is logged in or subscribed that is not registered. *)
THEOREM NoGhosts == DirSpec => []NoGhostUsers
BY DirInvariant, PTL DEF DirInv

(* The comparison with N_GROUPS is exactly "the group is on disk". *)
THEOREM Dense == DirSpec => []GroupsDense
BY DirInvariant, PTL DEF DirInv

(* Nothing is on disk under a gid that was not handed out. *)
THEOREM UnusedEmpty == DirSpec => []UnusedGroupsEmpty
BY DirInvariant, PTL DEF DirInv

-----------------------------------------------------------------------------
(* The action properties, as facts about one command.                         *)

LEMMA FreshUserStep ==
    ASSUME DirInv, UdpCommand, NEW v \in userDir' \ userDir
    PROVE  v \notin login' /\ \A g \in Gid : v \notin member'[g]
<1>1. PICK u \in UidArg, p \in PasswordArg : REG(u, p) /\ RegStatus(u, p) = "OK"
  BY DEF UdpCommand, REG, UNR, LOG, OUT, GSR, NewGroup, JoinGroup, GUR, dirVars, userVars
<1>2. UNCHANGED <<login, member>>
  BY <1>1 DEF REG, groupVars
<1> QED  BY <1>2 DEF DirInv, NoGhostUsers

LEMMA NewGroupStep ==
    ASSUME DirInv, UdpCommand, NEW k \in groupDir' \ groupDir
    PROVE  /\ Cardinality(member'[k]) = 1 /\ member'[k] \subseteq login'
           /\ numMsg'[k] = 0 /\ msgDir'[k] = {}
<1>1. PICK u \in UidArg, g \in GidArg, n \in GNameArg : NewGroup(u, g, n)
  BY DEF UdpCommand, REG, UNR, LOG, OUT, GSR, JoinGroup, GUR, dirVars, groupVars
<1>2. u \in login /\ nGroups + 1 \in Gid
  BY <1>1, NewAccepted DEF NewGroup, DirInv, DirTypeOK
<1>3. k = nGroups + 1  BY <1>1 DEF NewGroup, CreateGroup
<1>4. member[k] = {} /\ msgDir[k] = {}
  BY <1>2, <1>3 DEF DirInv, DirTypeOK, UnusedGroupsEmpty
<1>5. member'[k] = {u} /\ numMsg'[k] = 0 /\ msgDir'[k] = {} /\ login' = login
  BY <1>1, <1>2, <1>3, <1>4 DEF NewGroup, CreateGroup, userVars, DirInv, DirTypeOK
<1>6. Cardinality({u}) = 1  BY FS_Singleton
<1> QED  BY <1>2, <1>5, <1>6

LEMMA PermanentStep ==
    ASSUME DirInv, UdpCommand, NEW k \in groupDir
    PROVE  /\ k \in groupDir' /\ groupName'[k] = groupName[k]
           /\ numMsg'[k] # NoFile /\ numMsg'[k] >= numMsg[k]
<1>1. k \in 1 .. nGroups /\ k \in Gid /\ numMsg[k] # NoFile /\ numMsg[k] \in 0 .. MaxMsg
  BY DEF DirInv, DirTypeOK, GroupsDense
<1>2. CASE UNCHANGED <<groupDir, groupName, numMsg>>  BY <1>1, <1>2
<1>3. CASE \E u \in UidArg, g \in GidArg, n \in GNameArg : NewGroup(u, g, n)
  BY <1>1, <1>3 DEF NewGroup, CreateGroup, DirInv, DirTypeOK
<1> QED
  BY <1>2, <1>3 DEF UdpCommand, REG, UNR, LOG, OUT, GSR, JoinGroup, GUR, dirVars, groupVars

(* Someone who registers starts logged out and in no group. *)
THEOREM FreshUser == DirSpec => FreshUserInheritsNothing
<1>1. DirInv /\ [UdpCommand]_dirVars =>
        [\A u \in userDir' \ userDir : u \notin login' /\ \A g \in Gid : u \notin member'[g]]_dirVars
  BY FreshUserStep
<1> QED  BY <1>1, DirInvariant, PTL DEF DirSpec, FreshUserInheritsNothing

(* A new group has its creator as its only member and no messages. *)
THEOREM NewGroups == DirSpec => NewGroupIsFresh
<1>1. DirInv /\ [UdpCommand]_dirVars =>
        [\A g \in groupDir' \ groupDir :
            /\ Cardinality(member'[g]) = 1 /\ member'[g] \subseteq login'
            /\ numMsg'[g] = 0 /\ msgDir'[g] = {}]_dirVars
  BY NewGroupStep
<1> QED  BY <1>1, DirInvariant, PTL DEF DirSpec, NewGroupIsFresh

(* A group is never removed or renamed and keeps its counter. *)
THEOREM Permanent == DirSpec => GroupsPermanent
<1>1. DirInv /\ [UdpCommand]_dirVars =>
        [\A g \in groupDir :
            /\ g \in groupDir' /\ groupName'[g] = groupName[g]
            /\ numMsg'[g] # NoFile /\ numMsg'[g] >= numMsg[g]]_dirVars
  BY PermanentStep
<1> QED  BY <1>1, DirInvariant, PTL DEF DirSpec, GroupsPermanent
=============================================================================
