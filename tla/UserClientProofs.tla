--------------------------- MODULE UserClientProofs ---------------------------
(***************************************************************************)
(* UserClient for any number of clients, sockets and users.  On a network  *)
(* that loses, duplicates and delays datagrams: types, and that a client   *)
(* never takes the answer to another command for the answer to its own.    *)
(* On a network that delivers, when no uid is used at two clients: the     *)
(* session of a client and the login at the server agree, and what a       *)
(* client says of a logout and of a subscription is true.                  *)
(***************************************************************************)
EXTENDS UserClient, DirectoryServerProofs

(* A datagram from or to the socket a client waits on is about the command it *)
(* waits on.                                                                  *)
OnSocket ==
    \A c \in Client : asked[c] # Nothing =>
        \A r \in requests \cup answers : r.client = c /\ r.socket = socket[c] => r.cmd = asked[c]

ClientInv == DirInv /\ ClientTypeOK /\ OnSocket

(* A command of a client is a command of the main process.                    *)
LEMMA ServeIsCommand ==
    ASSUME NEW k \in Command, Serve(k), DirInv
    PROVE  DirInv' /\ StatusOf(k) \in Status
<1> USE DEF Command, Credential, Logout, Subscription, Leaving
<1>1. UdpCommand
  BY DEF Serve, UdpCommand, UidArg, PasswordArg, GidArg, GNameArg
<1>2. StatusOf(k) \in Status
  BY DEF Serve, StatusOf, Status, RegStatus, UnrStatus, LogStatus, OutStatus, GsrStatus, GurStatus
<1> QED  BY <1>1, <1>2, UdpCommandStep

(* What a status word does to the session stays a session.                    *)
LEMMA ConcludeType ==
    ASSUME ClientTypeOK, NEW c \in Client, NEW status, asked[c] # Nothing, Conclude(c, status)
    PROVE  /\ session' \in [Client -> Session \cup {LoggedOut}]
           /\ asked' = [asked EXCEPT ![c] = Nothing]
<1>1. asked[c] \in Command  BY DEF ClientTypeOK
<1>2. asked[c].op \in {"LOG", "UNR"} =>
        [uid |-> asked[c].uid, pass |-> asked[c].pass] \in Session
  BY <1>1 DEF Command, Credential, Logout, Subscription, Leaving, Session
<1> QED  BY <1>2 DEF Conclude, ClientTypeOK

(* Steps of the clients.                                                      *)
LEMMA ClientStep ==
    ASSUME ClientInv, NEW c \in Client,
           \/ \E k \in Command : Send(c, k)
           \/ Receive(c) \/ Quit(c) \/ TimeOut(c) \/ Interrupt(c)
    PROVE  ClientInv'
<1>0. UNCHANGED dirVars  BY DEF Send, Receive, Quit, TimeOut, Interrupt
<1>1. DirInv' /\ DirTypeOK'
  BY <1>0 DEF ClientInv, DirInv, DirTypeOK, NoGhostUsers, GroupsDense, UnusedGroupsEmpty,
              dirVars, userVars, groupVars
<1>2. CASE \E k \in Command : Send(c, k)
  <2>1. PICK k \in Command : Send(c, k)  BY <1>2
  <2>2. PICK s \in FreshSocket(c) :
               /\ socket' = [socket EXCEPT ![c] = s]
               /\ requests' = requests \cup {[client |-> c, socket |-> s, cmd |-> k]}
    BY <2>1 DEF Send
  <2>3. s \in 1 .. MaxSockets /\ s \in 0 .. MaxSockets
    BY <2>2 DEF FreshSocket
  <2>4. asked' = [asked EXCEPT ![c] = k] /\ UNCHANGED <<session, answers>>
    BY <2>1 DEF Send
  <2>5. [client |-> c, socket |-> s, cmd |-> k] \in Request
    BY <2>3 DEF Request
  <2>6. ClientTypeOK'
    BY <1>1, <2>2, <2>3, <2>4, <2>5 DEF ClientInv, ClientTypeOK
  <2>7. OnSocket'
    <3> SUFFICES ASSUME NEW d \in Client, asked'[d] # Nothing,
                        NEW r \in requests' \cup answers', r.client = d, r.socket = socket'[d]
                 PROVE  r.cmd = asked'[d]
      BY DEF OnSocket
    <3>1. CASE r \in requests \cup answers
      <4>1. d = c => r.socket # s  BY <2>2, <3>1 DEF FreshSocket
      <4>2. d # c
        BY <2>2, <4>1 DEF ClientInv, ClientTypeOK
      <4> QED  BY <2>2, <2>4, <3>1, <4>2 DEF ClientInv, ClientTypeOK, OnSocket
    <3>2. CASE r = [client |-> c, socket |-> s, cmd |-> k]
      BY <2>4, <3>2 DEF ClientInv, ClientTypeOK
    <3> QED  BY <2>2, <2>4, <3>1, <3>2
  <2> QED  BY <1>1, <2>6, <2>7 DEF ClientInv
<1>3. CASE Receive(c) \/ Quit(c) \/ TimeOut(c) \/ Interrupt(c)
  <2>1. /\ UNCHANGED <<socket, requests>> /\ answers' \subseteq answers
        /\ session' \in [Client -> Session \cup {LoggedOut}]
        /\ asked' = asked \/ asked' = [asked EXCEPT ![c] = Nothing]
    <3>1. CASE Receive(c)  BY <3>1, ConcludeType DEF Receive, ClientInv
    <3>2. CASE TimeOut(c)  BY <3>2, ConcludeType DEF TimeOut, ClientInv
    <3>3. CASE Quit(c) \/ Interrupt(c)  BY <3>3 DEF Quit, Interrupt, ClientInv, ClientTypeOK
    <3> QED  BY <1>3, <3>1, <3>2, <3>3
  <2>2. ClientTypeOK'  BY <1>1, <2>1 DEF ClientInv, ClientTypeOK
  <2>3. OnSocket'  BY <2>1 DEF ClientInv, ClientTypeOK, OnSocket
  <2> QED  BY <1>1, <2>2, <2>3 DEF ClientInv
<1> QED  BY <1>2, <1>3

(* Steps of the server and of the network.                                    *)
LEMMA NetworkStep ==
    ASSUME ClientInv, (\E r \in requests : Deliver(r) \/ Duplicate(r) \/ Misread(r)) \/ Lose
    PROVE  ClientInv'
<1>1. CASE \E r \in requests : Deliver(r) \/ Duplicate(r)
  <2>1. PICK r \in requests : Handle(r) /\ requests' \subseteq requests
    BY <1>1 DEF Deliver, Duplicate
  <2>2. r \in Request /\ r.cmd \in Command  BY DEF ClientInv, ClientTypeOK, Request
  <2>3. DirInv' /\ StatusOf(r.cmd) \in Status
    BY <2>1, <2>2, ServeIsCommand DEF Handle, ClientInv
  <2> DEFINE reply == [client |-> r.client, socket |-> r.socket, cmd |-> r.cmd,
                       status |-> StatusOf(r.cmd)]
  <2>4. answers' = answers \cup {reply} /\ UNCHANGED <<session, asked, socket>>
    BY <2>1 DEF Handle
  <2>5. reply \in Answer  BY <2>2, <2>3 DEF Request, Answer
  <2>6. ClientTypeOK'
    BY <2>1, <2>3, <2>4, <2>5 DEF ClientInv, ClientTypeOK, DirInv
  <2>7. OnSocket'
    <3> SUFFICES ASSUME NEW d \in Client, asked'[d] # Nothing,
                        NEW q \in requests' \cup answers', q.client = d, q.socket = socket'[d]
                 PROVE  q.cmd = asked'[d]
      BY DEF OnSocket
    <3>1. CASE q \in requests \cup answers
      BY <2>4, <3>1 DEF ClientInv, OnSocket
    <3>2. CASE q = reply
      <4>1. q.client = r.client /\ q.socket = r.socket /\ q.cmd = r.cmd  BY <3>2
      <4> QED  BY <2>4, <4>1 DEF ClientInv, OnSocket
    <3> QED  BY <2>1, <2>4, <3>1, <3>2
  <2> QED  BY <2>3, <2>6, <2>7 DEF ClientInv
<1>2. CASE Lose
  <2>1. /\ UNCHANGED <<dirVars, session, asked, socket>>
        /\ requests' \subseteq requests /\ answers' \subseteq answers
    BY <1>2 DEF Lose
  <2>2. DirInv' /\ DirTypeOK'
    BY <2>1 DEF ClientInv, DirInv, DirTypeOK, NoGhostUsers, GroupsDense, UnusedGroupsEmpty,
                dirVars, userVars, groupVars
  <2> QED  BY <2>1, <2>2 DEF ClientInv, ClientTypeOK, OnSocket
<1>3. CASE \E r \in requests : Misread(r)
  <2>1. PICK r \in requests : Misread(r)  BY <1>3
  <2>2. r \in Request  BY DEF ClientInv, ClientTypeOK
  <2> DEFINE error == [client |-> r.client, socket |-> r.socket, cmd |-> r.cmd, status |-> "ERR"]
  <2>3. /\ answers' = answers \cup {error} /\ requests' \subseteq requests
        /\ UNCHANGED <<dirVars, session, asked, socket>>
    BY <2>1 DEF Misread
  <2>4. error \in Answer  BY <2>2 DEF Request, Answer, Status
  <2>5. DirInv' /\ DirTypeOK'
    BY <2>3 DEF ClientInv, DirInv, DirTypeOK, NoGhostUsers, GroupsDense, UnusedGroupsEmpty,
                dirVars, userVars, groupVars
  <2>6. ClientTypeOK'
    BY <2>3, <2>4, <2>5 DEF ClientInv, ClientTypeOK
  <2>7. OnSocket'
    <3> SUFFICES ASSUME NEW d \in Client, asked'[d] # Nothing,
                        NEW q \in requests' \cup answers', q.client = d, q.socket = socket'[d]
                 PROVE  q.cmd = asked'[d]
      BY DEF OnSocket
    <3>1. CASE q \in requests \cup answers
      BY <2>3, <3>1 DEF ClientInv, OnSocket
    <3>2. CASE q = error
      <4>1. q.client = r.client /\ q.socket = r.socket /\ q.cmd = r.cmd  BY <3>2
      <4> QED  BY <2>3, <4>1 DEF ClientInv, OnSocket
    <3> QED  BY <2>3, <3>1, <3>2
  <2> QED  BY <2>5, <2>6, <2>7 DEF ClientInv
<1> QED  BY <1>1, <1>2, <1>3

LEMMA ClientInitInv == ClientInit => ClientInv
BY DirInitInv, ClientAssumption
DEF ClientInit, ClientInv, DirInv, ClientTypeOK, OnSocket

LEMMA ClientInvStep ==
    ASSUME ClientInv, [LossyNext]_clientVars
    PROVE  ClientInv'
<1>1. CASE UNCHANGED clientVars
  BY <1>1 DEF ClientInv, ClientTypeOK, OnSocket, DirInv, DirTypeOK, NoGhostUsers,
              GroupsDense, UnusedGroupsEmpty, clientVars, dirVars, userVars, groupVars
<1>2. CASE \E c \in Client : \/ \E k \in Command : Send(c, k)
                             \/ Receive(c) \/ Quit(c) \/ TimeOut(c) \/ Interrupt(c)
  BY <1>2, ClientStep
<1>3. CASE (\E r \in requests : Deliver(r) \/ Duplicate(r) \/ Misread(r)) \/ Lose
  BY <1>3, NetworkStep
<1> QED  BY <1>1, <1>2, <1>3 DEF LossyNext, ReliableNext

(* The inductive invariant of clients, network and server.                    *)
THEOREM ClientInvariant == LossySpec => []ClientInv
BY ClientInitInv, ClientInvStep, PTL DEF LossySpec

(* Sessions, sockets and datagrams keep their types.                          *)
THEOREM ClientTypeCorrect == LossySpec => []ClientTypeOK
BY ClientInvariant, PTL DEF ClientInv

(* However late an answer is, a client takes only one to the command it waits *)
(* on: each command has a socket of its own.                                  *)
THEOREM AnswersMatch == LossySpec => []AnswerIsToTheCommand
<1>1. ClientInv => AnswerIsToTheCommand
  BY DEF ClientInv, OnSocket, AnswerIsToTheCommand
<1> QED  BY <1>1, ClientInvariant, PTL

-----------------------------------------------------------------------------
(* A network that delivers, and persons that use uids of their own.           *)

Apart == \A c, d \in Client : c # d => MayUse[c] \cap MayUse[d] = {}

(* A session the server agrees with.                                          *)
Valid(s) == s # LoggedOut => s.uid \in login /\ password[s.uid] = s.pass

(* The session of a client when it has taken answer a.                        *)
After(a) ==
    LET named == [uid |-> a.cmd.uid, pass |-> a.cmd.pass]
    IN  IF a.cmd.op = "LOG" /\ a.status # "NOK" THEN named
        ELSE IF \/ a.cmd.op = "UNR" /\ session[a.client] = named
                \/ a.cmd.op = "OUT" /\ a.status # "NOK"
             THEN LoggedOut
        ELSE session[a.client]

Answered(c) == \E a \in answers : a.client = c

(* A client that waits still may send what it has sent.                       *)
Owned ==
    \A c \in Client :
        /\ session[c] # LoggedOut => session[c].uid \in MayUse[c]
        /\ asked[c] # Nothing => MaySend(c, asked[c])

(* Of each client there is one datagram at most, that of the command it waits *)
(* on.                                                                        *)
OneUnderWay ==
    /\ \A r \in requests \cup answers :
          asked[r.client] = r.cmd /\ socket[r.client] = r.socket
    /\ \A r, q \in answers : r.client = q.client => r = q
    /\ \A r \in requests, a \in answers : r.client # a.client

Agreed ==
    /\ \A c \in Client : ~Answered(c) => Valid(session[c])
    /\ \A a \in answers : Valid(After(a))

IsMember(u, n) == \E g \in Gid : GroupNameIs(g, n) /\ u \in member[g]

(* What an answer says is so, while it is on its way.                         *)
Truthful ==
    \A a \in answers :
        /\ a.cmd.op = "OUT" => a.status = "OK"
        /\ a.cmd.op = "GSR" /\ SaysSubscribed(a.status) /\ a.cmd.gname \notin LongName =>
              IsMember(a.cmd.uid, a.cmd.gname)

ReliableInv == ClientInv /\ Owned /\ OneUnderWay /\ Agreed /\ Truthful

(* A command touches the files of its own uid only. *)
LEMMA OtherUsers ==
    ASSUME DirInv, NEW k \in Command, Serve(k), NEW u \in Uid, u # k.uid
    PROVE  /\ u \in login' <=> u \in login
           /\ password'[u] = password[u]
           /\ \A n : IsMember(u, n) => IsMember(u, n)'
<1>0. DirTypeOK  BY DEF DirInv
<1>1. CASE k.op \in {"REG", "LOG", "OUT"}
  <2>1. /\ UNCHANGED <<member, groupDir, groupName>>
        /\ u \in login' <=> u \in login
        /\ password'[u] = password[u]
    BY <1>0, <1>1 DEF Serve, REG, LOG, OUT, dirVars, userVars, groupVars, DirTypeOK
  <2> QED  BY <2>1 DEF IsMember, GroupNameIs
<1>2. CASE k.op = "UNR"
  <2>1. /\ UNCHANGED <<groupDir, groupName>>
        /\ u \in login' <=> u \in login
        /\ password'[u] = password[u]
        /\ \A g \in Gid : u \in member[g] => u \in member'[g]
    BY <1>0, <1>2 DEF Serve, UNR, dirVars, userVars, groupVars, DirTypeOK
  <2> QED  BY <2>1 DEF IsMember, GroupNameIs
<1>3. CASE k.op \in {"GSR", "GUR"}
  <2>1. UNCHANGED <<login, password>>
    BY <1>3 DEF Serve, GSR, NewGroup, JoinGroup, GUR, dirVars, userVars, groupVars
  <2>2. \A g \in Gid : /\ u \in member[g] => u \in member'[g]
                       /\ g \in groupDir => g \in groupDir' /\ groupName'[g] = groupName[g]
    <3>1. CASE k.op = "GUR"
      BY <1>0, <3>1 DEF Serve, GUR, dirVars, groupVars, DirTypeOK
    <3>2. CASE k.op = "GSR" /\ ~NewGroup(k.uid, k.gid, k.gname)
      BY <1>0, <3>2 DEF Serve, GSR, JoinGroup, dirVars, groupVars, DirTypeOK
    <3>3. CASE NewGroup(k.uid, k.gid, k.gname)
      <4>1. nGroups + 1 \notin groupDir
        BY LimitsAssumption DEF DirInv, DirTypeOK, GroupsDense
      <4> QED  BY <1>0, <3>3, <4>1 DEF NewGroup, CreateGroup, DirTypeOK
    <3> QED  BY <1>3, <3>1, <3>2, <3>3
  <2> QED  BY <2>1, <2>2 DEF IsMember, GroupNameIs
<1> QED
  BY <1>1, <1>2, <1>3 DEF Command, Credential, Logout, Subscription, Leaving

(* The answer to a command leads to a session the server agrees with when the *)
(* command was sent from one.                                                 *)
LEMMA OwnUser ==
    ASSUME DirInv, NEW k \in Command, Serve(k), NEW c \in Client, MaySend(c, k),
           session[c] \in Session \cup {LoggedOut}, Valid(session[c]), UNCHANGED session,
           NEW a, a = [client |-> c, socket |-> socket[c], cmd |-> k, status |-> StatusOf(k)]
    PROVE  /\ Valid(After(a))'
           /\ k.op = "OUT" => StatusOf(k) = "OK"
           /\ k.op = "GSR" /\ SaysSubscribed(StatusOf(k)) => IsMember(k.uid, k.gname)'
<1>0. DirTypeOK /\ login \subseteq userDir  BY DEF DirInv, NoGhostUsers
<1>1. a.client = c /\ a.cmd = k /\ a.status = StatusOf(k)  OBVIOUS
<1> DEFINE named == [uid |-> k.uid, pass |-> k.pass]
<1>2. CASE k.op = "REG"
  <2>1. After(a)' = session[c]  BY <1>1, <1>2 DEF After
  <2>2. REG(k.uid, k.pass) /\ k.uid \in Uid /\ k.pass \in Password
    BY <1>2 DEF Serve, Command, Credential, Logout, Subscription, Leaving
  <2>3. login' = login /\ \A u \in login : password'[u] = password[u]
    BY <1>0, <2>2 DEF REG, RegStatus, dirVars, userVars, DirTypeOK
  <2> QED  BY <1>2, <2>1, <2>3 DEF Valid
<1>3. CASE k.op = "UNR"
  <2>1. UNR(k.uid, k.pass) /\ k.uid \in Uid /\ k.pass \in Password
    BY <1>3 DEF Serve, Command, Credential, Logout, Subscription, Leaving
  <2>2. CASE session[c] = named \/ session[c] = LoggedOut
    <3>1. After(a)' = LoggedOut  BY <1>1, <1>3, <2>2 DEF After
    <3> QED  BY <1>3, <3>1 DEF Valid
  <2>3. CASE session[c] # named /\ session[c] # LoggedOut
    <3>1. After(a)' = session[c]  BY <1>1, <1>3, <2>3 DEF After
    <3>2. session[c].uid \in login /\ password[session[c].uid] = session[c].pass
      BY <2>3 DEF Valid
    <3>3. session[c] = [uid |-> session[c].uid, pass |-> session[c].pass]
      BY <2>3 DEF Session
    <3>4. session[c].uid # k.uid \/ session[c].pass # k.pass  BY <2>3, <3>3
    <3>5. UnrStatus(k.uid, k.pass) = "OK" => password[k.uid] = k.pass
      BY DEF UnrStatus, PasswordIs
    <3>6. UnrStatus(k.uid, k.pass) = "OK" => session[c].uid # k.uid
      BY <3>2, <3>4, <3>5
    <3>7. session[c].uid \in login' /\ password'[session[c].uid] = password[session[c].uid]
      BY <1>0, <2>1, <3>2, <3>6 DEF UNR, dirVars, userVars, DirTypeOK
    <3> QED  BY <1>3, <3>1, <3>2, <3>7 DEF Valid
  <2> QED  BY <2>2, <2>3
<1>4. CASE k.op = "LOG"
  <2>1. LOG(k.uid, k.pass) /\ StatusOf(k) = LogStatus(k.uid, k.pass) /\ session[c] = LoggedOut
    BY <1>4 DEF Serve, StatusOf, MaySend
  <2>2. CASE LogStatus(k.uid, k.pass) = "OK"
    <3>1. /\ k.uid \in login' /\ password' = password /\ password[k.uid] = k.pass
      BY <2>1, <2>2 DEF LOG, LogStatus, PasswordIs
    <3>2. After(a)' = named  BY <1>1, <1>4, <2>1, <2>2 DEF After
    <3> QED  BY <1>4, <3>1, <3>2 DEF Valid
  <2>3. CASE LogStatus(k.uid, k.pass) = "NOK"
    <3>1. After(a)' = LoggedOut  BY <1>1, <1>4, <2>1, <2>3 DEF After
    <3> QED  BY <1>4, <3>1 DEF Valid
  <2> QED  BY <2>2, <2>3 DEF LogStatus
<1>5. CASE k.op = "OUT"
  <2>1. /\ session[c] # LoggedOut /\ k.uid = session[c].uid /\ k.pass = session[c].pass
    BY <1>5 DEF MaySend
  <2>2. k.uid \in Uid /\ k.pass \in Password
    BY <1>5 DEF Command, Credential, Logout, Subscription, Leaving
  <2>3. OutStatus(k.uid, k.pass) = "OK" /\ StatusOf(k) = OutStatus(k.uid, k.pass)
    BY <1>0, <1>5, <2>1, <2>2
    DEF Valid, OutStatus, StatusOf, parseUID, parsePassword, userLoggedIn, PasswordIs
  <2>4. After(a)' = LoggedOut  BY <1>1, <1>5, <2>3 DEF After
  <2> QED  BY <1>5, <2>3, <2>4 DEF Valid
<1>6. CASE k.op \in {"GSR", "GUR"}
  <2>1. After(a)' = session[c]  BY <1>1, <1>6 DEF After
  <2>2. UNCHANGED <<login, password>>
    BY <1>6 DEF Serve, GSR, NewGroup, JoinGroup, GUR, dirVars, userVars, groupVars
  <2>3. ASSUME k.op = "GSR", SaysSubscribed(StatusOf(k))  PROVE IsMember(k.uid, k.gname)'
    <3>1. /\ GSR(k.uid, k.gid, k.gname) /\ k.uid \in Uid /\ k.gname \in GName
          /\ k.gid \in {0} \cup Gid /\ SaysSubscribed(GsrStatus(k.uid, k.gid, k.gname))
      BY <2>3 DEF Serve, StatusOf, Command, Credential, Logout, Subscription, Leaving
    <3>2. GsrStatus(k.uid, k.gid, k.gname) \in {"NEW", "OK"}
      BY <3>1 DEF SaysSubscribed, GsrStatus
    <3>3. CASE NewGroup(k.uid, k.gid, k.gname)
      <4>1. nGroups + 1 \in Gid
        BY <1>0, <3>3, LimitsAssumption DEF NewGroup, GsrStatus, DirTypeOK, Gid
      <4>2. /\ nGroups + 1 \in groupDir' /\ groupName'[nGroups + 1] = k.gname
            /\ k.uid \in member'[nGroups + 1]
        BY <1>0, <3>3, <4>1 DEF NewGroup, CreateGroup, DirTypeOK
      <4> QED  BY <4>1, <4>2 DEF IsMember, GroupNameIs
    <3>4. CASE JoinGroup(k.uid, k.gid, k.gname)
      <4>1. k.gid \in Gid /\ GroupNameIs(k.gid, k.gname)
        BY <3>1, <3>4 DEF JoinGroup, GsrStatus
      <4>2. /\ UNCHANGED <<groupDir, groupName>> /\ k.uid \in member'[k.gid]
        BY <1>0, <3>4, <4>1 DEF JoinGroup, DirTypeOK
      <4> QED  BY <4>1, <4>2 DEF IsMember, GroupNameIs
    <3> QED  BY <3>1, <3>2, <3>3, <3>4 DEF GSR
  <2> QED  BY <1>6, <2>1, <2>2, <2>3 DEF Valid
<1> QED
  BY <1>2, <1>3, <1>4, <1>5, <1>6 DEF Command, Credential, Logout, Subscription, Leaving

(* The uids behind the sessions and the datagrams of a client are its own.    *)
LEMMA OwnUids ==
    ASSUME ClientInv, Owned, NEW c \in Client
    PROVE  /\ asked[c] # Nothing => asked[c] \in Command /\ asked[c].uid \in MayUse[c]
           /\ session[c] # LoggedOut => session[c] \in Session
           /\ MayUse[c] \subseteq Uid
<1>1. /\ asked[c] # Nothing => asked[c] \in Command
      /\ session[c] # LoggedOut => session[c] \in Session
      /\ MayUse[c] \subseteq Uid
  BY ClientAssumption DEF ClientInv, ClientTypeOK
<1>2. ASSUME asked[c] # Nothing  PROVE asked[c].uid \in MayUse[c]
  <2>1. /\ MaySend(c, asked[c])
        /\ session[c] # LoggedOut => session[c].uid \in MayUse[c]
    BY <1>2 DEF Owned
  <2>2. asked[c].op \in {"REG", "UNR", "LOG"} \cup {"OUT", "GSR", "GUR"}
    BY <1>1, <1>2 DEF Command, Credential, Logout, Subscription, Leaving
  <2> QED  BY <2>1, <2>2 DEF MaySend
<1> QED  BY <1>1, <1>2

LEMMA Datagrams ==
    ASSUME ClientInv, OneUnderWay, NEW r \in requests \cup answers
    PROVE  /\ r.client \in Client /\ r.cmd \in Command
           /\ asked[r.client] = r.cmd /\ asked[r.client] # Nothing
<1>1. r.client \in Client /\ r.cmd \in Command
  BY DEF ClientInv, ClientTypeOK, Request, Answer
<1> QED  BY <1>1, NothingAssumption DEF OneUnderWay

LEMMA AfterUid ==
    ASSUME ClientInv, Owned, OneUnderWay, NEW a \in answers, After(a) # LoggedOut
    PROVE  After(a).uid \in MayUse[a.client]
<1>1. a.client \in Client /\ asked[a.client] = a.cmd /\ asked[a.client] # Nothing
  BY Datagrams
<1>2. a.cmd.uid \in MayUse[a.client]  BY <1>1, OwnUids
<1>3. session[a.client] # LoggedOut => session[a.client].uid \in MayUse[a.client]
  BY <1>1 DEF Owned
<1> QED  BY <1>2, <1>3 DEF After

LEMMA SendKeeps ==
    ASSUME ReliableInv, NEW c \in Client, NEW k \in Command, Send(c, k)
    PROVE  Owned' /\ OneUnderWay' /\ Agreed' /\ Truthful'
<1>1. /\ asked[c] = Nothing /\ MaySend(c, k) /\ asked' = [asked EXCEPT ![c] = k]
      /\ UNCHANGED <<dirVars, session, answers>>
  BY DEF Send
<1>2. PICK s : /\ socket' = [socket EXCEPT ![c] = s]
               /\ requests' = requests \cup {[client |-> c, socket |-> s, cmd |-> k]}
  BY DEF Send
<1>3. asked \in [Client -> Command \cup {Nothing}] /\ socket \in [Client -> 0 .. MaxSockets]
  BY DEF ReliableInv, ClientInv, ClientTypeOK
<1>4. \A r \in requests \cup answers : r.client \in Client /\ r.client # c
  BY <1>1, Datagrams DEF ReliableInv
<1>5. Owned'
  <2>1. ASSUME NEW d \in Client  PROVE asked'[d] # Nothing => MaySend(d, asked'[d])
    <3>1. CASE d = c  BY <1>1, <1>3, <3>1
    <3>2. CASE d # c  BY <1>1, <1>3, <3>2 DEF ReliableInv, Owned
    <3> QED  BY <3>1, <3>2
  <2>2. \A d \in Client : session[d] # LoggedOut => session[d].uid \in MayUse[d]
    BY DEF ReliableInv, Owned
  <2> QED  BY <1>1, <2>1, <2>2 DEF Owned, MaySend
<1>6. OneUnderWay'
  <2> DEFINE new == [client |-> c, socket |-> s, cmd |-> k]
  <2>1. /\ \A r \in requests \cup answers : asked[r.client] = r.cmd /\ socket[r.client] = r.socket
        /\ \A r, q \in answers : r.client = q.client => r = q
        /\ \A r \in requests, a \in answers : r.client # a.client
    BY DEF ReliableInv, OneUnderWay
  <2>2. \A r \in requests \cup answers : asked'[r.client] = r.cmd /\ socket'[r.client] = r.socket
    BY <1>1, <1>2, <1>3, <1>4, <2>1
  <2>3. asked'[c] = k /\ socket'[c] = s  BY <1>1, <1>2, <1>3
  <2>4. \A a \in answers : a.client # c  BY <1>4
  <2> QED  BY <1>1, <1>2, <2>1, <2>2, <2>3, <2>4 DEF OneUnderWay
<1>7. Agreed' /\ Truthful'
  BY <1>1 DEF ReliableInv, Agreed, Answered, Valid, After, Truthful, IsMember, GroupNameIs,
     SaysSubscribed, dirVars, userVars, groupVars
<1> QED  BY <1>5, <1>6, <1>7

(* The session a client has taken an answer to is the one that was announced. *)
LEMMA ConcludeIsAfter ==
    ASSUME ReliableInv, NEW c \in Client, NEW a \in answers, a.client = c,
           Conclude(c, a.status)
    PROVE  session' = [session EXCEPT ![c] = After(a)] /\ asked' = [asked EXCEPT ![c] = Nothing]
<1>1. a.cmd = asked[c]  BY Datagrams DEF ReliableInv
<1>2. session = [d \in Client |-> session[d]]
  BY DEF ReliableInv, ClientInv, ClientTypeOK
<1> QED  BY <1>1, <1>2 DEF Conclude, After

LEMMA ReceiveKeeps ==
    ASSUME ReliableInv, NEW c \in Client, Receive(c)
    PROVE  Owned' /\ OneUnderWay' /\ Agreed' /\ Truthful'
<1>1. PICK a \in answers : /\ a.client = c /\ Conclude(c, a.status)
                           /\ answers' = answers \ {a}
  BY DEF Receive
<1>2. UNCHANGED <<dirVars, socket, requests>>  BY DEF Receive
<1>3. session' = [session EXCEPT ![c] = After(a)] /\ asked' = [asked EXCEPT ![c] = Nothing]
  BY <1>1, ConcludeIsAfter
<1>4. /\ asked \in [Client -> Command \cup {Nothing}]
      /\ session \in [Client -> Session \cup {LoggedOut}]
  BY DEF ReliableInv, ClientInv, ClientTypeOK
<1>5. /\ \A b \in answers' : b.client \in Client /\ b.client # c
      /\ \A r \in requests : r.client \in Client /\ r.client # c
  BY <1>1, Datagrams DEF ReliableInv, OneUnderWay
<1>6. Owned'
  <2> SUFFICES ASSUME NEW d \in Client
               PROVE  /\ session'[d] # LoggedOut => session'[d].uid \in MayUse[d]
                      /\ asked'[d] # Nothing => MaySend(d, asked[d])'
    BY DEF Owned
  <2>1. CASE d = c
    BY <1>1, <1>3, <1>4, <2>1, AfterUid DEF ReliableInv
  <2>2. CASE d # c
    BY <1>3, <1>4, <2>2 DEF ReliableInv, Owned, MaySend
  <2> QED  BY <2>1, <2>2
<1>7. OneUnderWay'
  <2>1. \A r \in requests \cup answers' : asked'[r.client] = asked[r.client]
    BY <1>3, <1>4, <1>5
  <2> QED  BY <1>1, <1>2, <2>1 DEF ReliableInv, OneUnderWay
<1>8. Agreed'
  <2>1. ASSUME NEW d \in Client, ~Answered(d)'  PROVE Valid(session[d])'
    <3>1. CASE d = c
      <4>1. Valid(After(a))  BY DEF ReliableInv, Agreed
      <4>2. session'[d] = After(a)  BY <1>3, <1>4, <3>1
      <4> QED  BY <1>2, <4>1, <4>2 DEF Valid, dirVars, userVars
    <3>2. CASE d # c
      <4>1. ~Answered(d)  BY <1>1, <2>1, <3>2 DEF Answered
      <4>2. Valid(session[d]) /\ session'[d] = session[d]
        BY <1>3, <1>4, <3>2, <4>1 DEF ReliableInv, Agreed
      <4> QED  BY <1>2, <4>2 DEF Valid, dirVars, userVars
    <3> QED  BY <3>1, <3>2
  <2>2. ASSUME NEW b \in answers'  PROVE Valid(After(b))'
    <3>1. session'[b.client] = session[b.client]  BY <1>3, <1>4, <1>5
    <3>2. After(b)' = After(b)  BY <3>1 DEF After
    <3>3. Valid(After(b))  BY <1>1 DEF ReliableInv, Agreed
    <3> QED  BY <1>2, <3>2, <3>3 DEF Valid, dirVars, userVars
  <2> QED  BY <2>1, <2>2 DEF Agreed
<1>9. Truthful'
  BY <1>1, <1>2 DEF ReliableInv, Truthful, IsMember, GroupNameIs, SaysSubscribed, dirVars,
     groupVars
<1> QED  BY <1>6, <1>7, <1>8, <1>9

LEMMA QuitKeeps ==
    ASSUME ReliableInv, NEW c \in Client, Quit(c)
    PROVE  Owned' /\ OneUnderWay' /\ Agreed' /\ Truthful'
<1>1. /\ asked[c] = Nothing /\ session' = [session EXCEPT ![c] = LoggedOut]
      /\ UNCHANGED <<dirVars, asked, socket, requests, answers>>
  BY DEF Quit
<1>2. session \in [Client -> Session \cup {LoggedOut}]
  BY DEF ReliableInv, ClientInv, ClientTypeOK
<1>3. \A b \in answers : b.client \in Client /\ b.client # c
  BY <1>1, Datagrams DEF ReliableInv
<1>4. Owned'
  <2> SUFFICES ASSUME NEW d \in Client
               PROVE  /\ session'[d] # LoggedOut => session'[d].uid \in MayUse[d]
                      /\ asked'[d] # Nothing => MaySend(d, asked[d])'
    BY DEF Owned
  <2> QED  BY <1>1, <1>2 DEF ReliableInv, Owned, MaySend
<1>5. OneUnderWay' /\ Truthful'
  BY <1>1 DEF ReliableInv, OneUnderWay, Truthful, IsMember, GroupNameIs, SaysSubscribed, dirVars,
     groupVars
<1>6. Agreed'
  <2>1. ASSUME NEW d \in Client, ~Answered(d)'  PROVE Valid(session[d])'
    <3>1. ~Answered(d)  BY <1>1, <2>1 DEF Answered
    <3>2. Valid(session[d])  BY <3>1 DEF ReliableInv, Agreed
    <3> QED  BY <1>1, <1>2, <3>2 DEF Valid, dirVars, userVars
  <2>2. ASSUME NEW b \in answers'  PROVE Valid(After(b))'
    <3>1. session'[b.client] = session[b.client]  BY <1>1, <1>2, <1>3, <2>2
    <3>2. After(b)' = After(b)  BY <3>1 DEF After
    <3>3. Valid(After(b))  BY <1>1 DEF ReliableInv, Agreed
    <3> QED  BY <1>1, <3>2, <3>3 DEF Valid, dirVars, userVars
  <2> QED  BY <2>1, <2>2 DEF Agreed
<1> QED  BY <1>4, <1>5, <1>6

LEMMA DeliverKeeps ==
    ASSUME Apart, ReliableInv, NEW r \in requests, Deliver(r)
    PROVE  Owned' /\ OneUnderWay' /\ Agreed' /\ Truthful'
<1> DEFINE c == r.client
           k == r.cmd
<1> PICK reply :
      reply = [client |-> c, socket |-> socket[c], cmd |-> k, status |-> StatusOf(k)]
  OBVIOUS
<1>0. ClientInv /\ Owned /\ OneUnderWay /\ Agreed /\ Truthful /\ DirInv
  BY DEF ReliableInv, ClientInv
<1>1. /\ c \in Client /\ k \in Command /\ asked[c] = k /\ asked[c] # Nothing
      /\ r.socket = socket[c]
  BY <1>0, Datagrams DEF OneUnderWay
<1>2. /\ Serve(k) /\ answers' = answers \cup {reply} /\ requests' = requests \ {r}
      /\ UNCHANGED <<session, asked, socket>>
  BY <1>1 DEF Deliver, Handle
<1>3. k.uid \in MayUse[c] /\ MaySend(c, k) /\ MayUse[c] \subseteq Uid
  BY <1>0, <1>1, OwnUids DEF Owned
<1>4. \A a \in answers : a.client # c  BY <1>0 DEF OneUnderWay
<1>5. session[c] \in Session \cup {LoggedOut} /\ Valid(session[c])
  BY <1>0, <1>1, <1>4 DEF ClientInv, ClientTypeOK, Agreed, Answered
<1>6. /\ Valid(After(reply))'
      /\ k.op = "OUT" => StatusOf(k) = "OK"
      /\ k.op = "GSR" /\ SaysSubscribed(StatusOf(k)) => IsMember(k.uid, k.gname)'
  BY <1>0, <1>1, <1>2, <1>3, <1>5, OwnUser
<1>7. reply.client = c /\ reply.cmd = k /\ reply.socket = socket[c]
         /\ reply.status = StatusOf(k)
  OBVIOUS
<1>8. ASSUME NEW d \in Client, d # c, NEW u \in MayUse[d]
      PROVE  /\ u \in login' <=> u \in login
             /\ password'[u] = password[u]
             /\ \A n : IsMember(u, n) => IsMember(u, n)'
  <2>1. u \in Uid /\ u # k.uid  BY <1>0, <1>1, <1>3, <1>8, OwnUids DEF Apart
  <2> QED  BY <1>0, <1>1, <1>2, <2>1, OtherUsers
<1> HIDE DEF c, k
<1>9. Owned'  BY <1>0, <1>2 DEF Owned, MaySend
<1>10. OneUnderWay'
  <2>1. /\ \A q \in requests \cup answers : asked[q.client] = q.cmd /\ socket[q.client] = q.socket
        /\ \A q, a \in answers : q.client = a.client => q = a
        /\ \A q \in requests, a \in answers : q.client # a.client
    BY <1>0 DEF OneUnderWay
  <2>2. ASSUME NEW q \in requests', q.client = c  PROVE FALSE
    <3>1. q \in Request /\ r \in Request /\ q # r
      BY <1>0, <1>2, <2>2 DEF ClientInv, ClientTypeOK
    <3>2. q.client = r.client /\ q.socket = r.socket /\ q.cmd = r.cmd
      BY <1>2, <2>1, <2>2 DEF c
    <3> QED  BY <3>1, <3>2 DEF Request
  <2> QED  BY <1>1, <1>2, <1>4, <1>7, <2>1, <2>2 DEF OneUnderWay
<1>11. Agreed'
  <2>1. ASSUME NEW d \in Client, ~Answered(d)'  PROVE Valid(session[d])'
    <3>1. d # c  BY <1>2, <1>7, <2>1 DEF Answered
    <3>2. ~Answered(d)  BY <1>2, <2>1 DEF Answered
    <3>3. Valid(session[d])  BY <1>0, <3>2 DEF Agreed
    <3>4. session[d] # LoggedOut => session[d].uid \in MayUse[d]  BY <1>0 DEF Owned
    <3> QED  BY <1>2, <1>8, <3>1, <3>3, <3>4 DEF Valid
  <2>2. ASSUME NEW b \in answers'  PROVE Valid(After(b))'
    <3>1. CASE b = reply  BY <1>6, <3>1
    <3>2. CASE b \in answers
      <4>1. b.client \in Client /\ b.client # c  BY <1>0, <1>4, <3>2, Datagrams
      <4>2. After(b)' = After(b)  BY <1>2 DEF After
      <4>3. Valid(After(b))  BY <1>0, <3>2 DEF Agreed
      <4>4. After(b) # LoggedOut => After(b).uid \in MayUse[b.client]
        BY <1>0, <3>2, AfterUid
      <4> QED  BY <1>8, <4>1, <4>2, <4>3, <4>4 DEF Valid
    <3> QED  BY <1>2, <3>1, <3>2
  <2> QED  BY <2>1, <2>2 DEF Agreed
<1>12. Truthful'
  <2> SUFFICES ASSUME NEW b \in answers'
               PROVE  /\ b.cmd.op = "OUT" => b.status = "OK"
                      /\ b.cmd.op = "GSR" /\ SaysSubscribed(b.status)
                         /\ b.cmd.gname \notin LongName => IsMember(b.cmd.uid, b.cmd.gname)'
    BY DEF Truthful, SaysSubscribed
  <2>1. CASE b = reply  BY <1>6, <1>7, <2>1
  <2>2. CASE b \in answers
    <3>1. b.client \in Client /\ b.client # c /\ b.cmd.uid \in MayUse[b.client]
      BY <1>0, <1>4, <2>2, Datagrams, OwnUids
    <3> QED  BY <1>0, <1>8, <2>2, <3>1 DEF Truthful
  <2> QED  BY <1>2, <2>1, <2>2
<1> QED  BY <1>9, <1>10, <1>11, <1>12

LEMMA MisreadKeeps ==
    ASSUME ReliableInv, NEW r \in requests, Misread(r)
    PROVE  Owned' /\ OneUnderWay' /\ Agreed' /\ Truthful'
<1> DEFINE c == r.client
           error == [client |-> c, socket |-> r.socket, cmd |-> r.cmd, status |-> "ERR"]
<1>0. ClientInv /\ Owned /\ OneUnderWay /\ Agreed /\ Truthful  BY DEF ReliableInv
<1>1. /\ c \in Client /\ asked[c] = r.cmd /\ r.socket = socket[c] /\ r.cmd.op = "GSR"
      /\ r.cmd.gname \in LongName
  BY <1>0, Datagrams DEF OneUnderWay, Misread
<1>2. /\ answers' = answers \cup {error} /\ requests' = requests \ {r}
      /\ UNCHANGED <<dirVars, session, asked, socket>>
  BY DEF Misread
<1>3. \A a \in answers : a.client # c  BY <1>0 DEF OneUnderWay
<1>4. Valid(session[c])  BY <1>0, <1>1, <1>3 DEF Agreed, Answered
<1>5. error.client = c /\ error.cmd = r.cmd /\ error.socket = r.socket /\ error.status = "ERR"
  OBVIOUS
<1> HIDE DEF c, error
<1>6. Owned'  BY <1>0, <1>2 DEF Owned, MaySend
<1>7. OneUnderWay'
  <2>1. /\ \A q \in requests \cup answers : asked[q.client] = q.cmd /\ socket[q.client] = q.socket
        /\ \A q, a \in answers : q.client = a.client => q = a
        /\ \A q \in requests, a \in answers : q.client # a.client
    BY <1>0 DEF OneUnderWay
  <2>2. ASSUME NEW q \in requests', q.client = c  PROVE FALSE
    <3>1. q \in Request /\ r \in Request /\ q # r
      BY <1>0, <1>2, <2>2 DEF ClientInv, ClientTypeOK
    <3>2. q.client = r.client /\ q.socket = r.socket /\ q.cmd = r.cmd
      BY <1>2, <2>1, <2>2 DEF c
    <3> QED  BY <3>1, <3>2 DEF Request
  <2> QED  BY <1>1, <1>2, <1>3, <1>5, <2>1, <2>2 DEF OneUnderWay
<1>8. Agreed'
  <2>1. ASSUME NEW d \in Client, ~Answered(d)'  PROVE Valid(session[d])'
    <3>1. ~Answered(d)  BY <1>2, <2>1 DEF Answered
    <3> QED  BY <1>0, <1>2, <3>1 DEF Agreed, Valid, dirVars, userVars
  <2>2. ASSUME NEW b \in answers'  PROVE Valid(After(b))'
    <3>1. After(error) = session[c]  BY <1>1, <1>5 DEF After
    <3>2. Valid(After(b))  BY <1>0, <1>2, <1>4, <2>2, <3>1 DEF Agreed
    <3>3. After(b)' = After(b)  BY <1>2 DEF After
    <3> QED  BY <1>2, <3>2, <3>3 DEF Valid, dirVars, userVars
  <2> QED  BY <2>1, <2>2 DEF Agreed
<1>9. Truthful'
  BY <1>0, <1>1, <1>2, <1>5 DEF Truthful, IsMember, GroupNameIs, SaysSubscribed, dirVars,
     groupVars
<1> QED  BY <1>6, <1>7, <1>8, <1>9

LEMMA ReliableStep ==
    ASSUME Apart, ReliableInv, [ReliableNext]_clientVars
    PROVE  ReliableInv'
<1>1. ClientInv'
  BY ClientInvStep DEF ReliableInv, LossyNext
<1>2. CASE UNCHANGED clientVars
  BY <1>1, <1>2 DEF ReliableInv, Owned, MaySend, OneUnderWay, Agreed, Answered, Valid, After,
     Truthful, IsMember, GroupNameIs, SaysSubscribed, clientVars, dirVars, userVars, groupVars
<1>3. CASE ReliableNext
  <2>1. Owned' /\ OneUnderWay' /\ Agreed' /\ Truthful'
    BY <1>3, SendKeeps, ReceiveKeeps, QuitKeeps, DeliverKeeps, MisreadKeeps DEF ReliableNext
  <2> QED  BY <1>1, <2>1 DEF ReliableInv
<1> QED  BY <1>2, <1>3

LEMMA ReliableInitInv == ClientInit => ReliableInv
BY ClientInitInv
DEF ClientInit, ReliableInv, Owned, OneUnderWay, Agreed, Answered, Valid, Truthful

(* On a network that delivers, with uids that are not shared: what is under   *)
(* way is the command its client waits on, and taking its answer leads to a   *)
(* session the server agrees with.                                            *)
THEOREM ReliableInvariant == Apart => (ReliableSpec => []ReliableInv)
<1> SUFFICES ASSUME Apart  PROVE ReliableSpec => []ReliableInv
  OBVIOUS
<1>1. ReliableInv /\ [ReliableNext]_clientVars => ReliableInv'  BY ReliableStep
<1> QED  BY <1>1, ReliableInitInv, PTL DEF ReliableSpec

(* Who is at the prompt and believes to be logged in is, with the password    *)
(* the application holds.                                                     *)
THEOREM SessionsAgree == Apart => (ReliableSpec => []SessionAgrees)
<1>1. ReliableInv => SessionAgrees
  <2> SUFFICES ASSUME ReliableInv, NEW c \in Client, asked[c] = Nothing, session[c] # LoggedOut
               PROVE  session[c].uid \in login /\ password[session[c].uid] = session[c].pass
    BY DEF SessionAgrees
  <2>1. ~Answered(c)  BY Datagrams DEF ReliableInv, Answered
  <2> QED  BY <2>1 DEF ReliableInv, Agreed, Valid
<1> QED  BY <1>1, ReliableInvariant, PTL

(* A client that has come back from a wait has taken an answer. *)
LEMMA Answering ==
    ASSUME ReliableInv, ReliableNext, NEW c \in Client, asked[c] # Nothing, asked'[c] = Nothing
    PROVE  Receive(c)
<1>1. asked \in [Client -> Command \cup {Nothing}]
  BY DEF ReliableInv, ClientInv, ClientTypeOK
<1>2. ASSUME NEW d \in Client, NEW k \in Command, Send(d, k)  PROVE FALSE
  BY <1>1, <1>2, NothingAssumption DEF Send
<1>3. ASSUME NEW d \in Client, Receive(d)  PROVE d = c
  <2>1. asked' = [asked EXCEPT ![d] = Nothing]  BY <1>3 DEF Receive, Conclude
  <2> QED  BY <1>1, <2>1
<1>4. ~ \E d \in Client : Quit(d)  BY DEF Quit
<1>5. ~ \E r \in requests : Deliver(r) \/ Misread(r)  BY DEF Deliver, Handle, Misread
<1> QED  BY <1>2, <1>3, <1>4, <1>5 DEF ReliableNext

(* logout, once answered, has ended the session.                              *)
THEOREM LogoutsForget == Apart => (ReliableSpec => LogoutForgets)
<1> SUFFICES ASSUME Apart  PROVE ReliableSpec => LogoutForgets
  OBVIOUS
<1>1. ReliableInv /\ [ReliableNext]_clientVars =>
         [\A c \in Client : asked[c] # Nothing /\ asked[c].op = "OUT" /\ asked'[c] = Nothing =>
             session'[c] = LoggedOut]_clientVars
  <2> SUFFICES ASSUME ReliableInv, ReliableNext, NEW c \in Client, asked[c] # Nothing,
                      asked[c].op = "OUT", asked'[c] = Nothing
               PROVE  session'[c] = LoggedOut
    OBVIOUS
  <2>1. PICK a \in answers : a.client = c /\ Conclude(c, a.status)
    BY Answering DEF Receive
  <2>2. a.cmd = asked[c]  BY <2>1, Datagrams DEF ReliableInv
  <2>3. a.status = "OK"  BY <2>2 DEF ReliableInv, Truthful
  <2>4. session' = [session EXCEPT ![c] = After(a)]  BY <2>1, ConcludeIsAfter
  <2>5. After(a) = LoggedOut  BY <2>2, <2>3 DEF After
  <2> QED  BY <2>4, <2>5 DEF ReliableInv, ClientInv, ClientTypeOK
<1>2. ReliableSpec => []ReliableInv  BY ReliableInvariant
<1> QED  BY <1>1, <1>2, PTL DEF ReliableSpec, LogoutForgets

(* Who is told to be subscribed is a member of a group of that name.          *)
THEOREM SubscriptionsAreTrue == Apart => (ReliableSpec => SubscribedIsTrue)
<1> SUFFICES ASSUME Apart  PROVE ReliableSpec => SubscribedIsTrue
  OBVIOUS
<1>1. ReliableInv =>
         [\A a \in answers \ answers' :
             /\ asked[a.client] = a.cmd /\ asked'[a.client] = Nothing
             /\ a.cmd.op = "GSR" /\ SaysSubscribed(a.status) /\ a.cmd.gname \notin LongName
             => \E g \in Gid : GroupNameIs(g, a.cmd.gname) /\ a.cmd.uid \in member[g]]_clientVars
  BY DEF ReliableInv, Truthful, IsMember
<1>2. ReliableSpec => []ReliableInv  BY ReliableInvariant
<1> QED  BY <1>1, <1>2, PTL DEF ReliableSpec, SubscribedIsTrue
=============================================================================
