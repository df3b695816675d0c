------------------------------ MODULE UserClient ------------------------------
(***************************************************************************)
(* User applications and the main process of the DS, talking over UDP: the *)
(* session that client/src/commands.c keeps and the commands that          *)
(* client/src/main.c reads.  A command is one datagram, sent once from a   *)
(* socket of its own, and the client waits for one answer or for its       *)
(* time-out.  Datagrams may be lost, duplicated and late.                  *)
(*                                                                         *)
(* groups, my_groups, the local commands and those over TCP change nothing *)
(* of what is modelled here.                                               *)
(***************************************************************************)
EXTENDS DirectoryServer

CONSTANTS
    Client,     \* running user applications
    LongName,   \* the group names of 24 characters
    MayUse,     \* [Client -> SUBSET Uid]: the uids the person at a client types
    LoggedOut,  \* no session
    Nothing,    \* no command is waited for
    MaxSockets  \* bound: sockets of one client with a datagram under way

ASSUME ClientAssumption ==
    /\ MayUse \in [Client -> SUBSET Uid] /\ MaxSockets \in Nat
    /\ LoggedOut \notin [uid : Uid, pass : Password]

VARIABLES
    session,    \* UID and PASSWORD of client c, LoggedOut when LOGGED_IN is false
    asked,      \* the command client c waits on
    socket,     \* the socket c has open while it waits; 0 or a closed one otherwise
    requests,   \* datagrams on their way to the server
    answers     \* datagrams on their way to a socket of a client

clientVars == <<dirVars, session, asked, socket, requests, answers>>

Session == [uid : Uid, pass : Password]

Credential   == [op : {"REG", "UNR", "LOG"}, uid : Uid, pass : Password]
Logout       == [op : {"OUT"}, uid : Uid, pass : Password]
Subscription == [op : {"GSR"}, uid : Uid, gid : {0} \cup Gid, gname : GName]
Leaving      == [op : {"GUR"}, uid : Uid, gid : Gid]
Command      == Credential \cup Logout \cup Subscription \cup Leaving

ASSUME NothingAssumption == Nothing \notin Command

Status == {"OK", "NOK", "DUP", "NEW", "FULL", "E_USR", "E_GRP", "E_GNAME", "ERR"}

Request == [client : Client, socket : 1 .. MaxSockets, cmd : Command]
Answer  == [client : Client, socket : 1 .. MaxSockets, cmd : Command, status : Status]

-----------------------------------------------------------------------------
(* What the person at client c can have sent: the checks of readCommand and   *)
(* of the functions it calls.                                                 *)

MaySend(c, k) ==
    /\ k.op \in {"REG", "UNR", "LOG"} => k.uid \in MayUse[c]
    /\ k.op = "LOG" => session[c] = LoggedOut
    /\ k.op \in {"OUT", "GSR", "GUR"} => session[c] # LoggedOut /\ k.uid = session[c].uid
    /\ k.op = "OUT" => k.pass = session[c].pass

FreshSocket(c) ==
    1 .. MaxSockets \ ({r.socket : r \in {q \in requests : q.client = c}} \cup
                        {r.socket : r \in {q \in answers : q.client = c}})

Send_OneSocket(c, k) ==                    \* mutant: one socket for all commands
    /\ asked[c] = Nothing /\ MaySend(c, k)
    /\ socket' = [socket EXCEPT ![c] = 1]
    /\ asked' = [asked EXCEPT ![c] = k]
    /\ requests' = requests \cup {[client |-> c, socket |-> socket'[c], cmd |-> k]}
    /\ UNCHANGED <<dirVars, session, answers>>

(* sendCommandUDP, up to the wait for an answer.                              *)
Send(c, k) ==
    /\ asked[c] = Nothing /\ MaySend(c, k)
    /\ \E s \in FreshSocket(c) :
         /\ \A t \in FreshSocket(c) : s <= t
         /\ socket' = [socket EXCEPT ![c] = s]
         /\ requests' = requests \cup {[client |-> c, socket |-> s, cmd |-> k]}
    /\ asked' = [asked EXCEPT ![c] = k]
    /\ UNCHANGED <<dirVars, session, answers>>

Conclude_LogoutForgotten(c, status) ==     \* mutant: logout leaves LOGGED_IN
    LET k == asked[c]
    IN  /\ asked' = [asked EXCEPT ![c] = Nothing]
        /\ \/ /\ k.op = "LOG" /\ status # "NOK"
              /\ session' = [session EXCEPT ![c] = [uid |-> k.uid, pass |-> k.pass]]
           \/ /\ k.op = "UNR" /\ session[c] = [uid |-> k.uid, pass |-> k.pass]
              /\ session' = [session EXCEPT ![c] = LoggedOut]
           \/ /\ ~(k.op = "LOG" /\ status # "NOK")
              /\ ~(k.op = "UNR" /\ session[c] = [uid |-> k.uid, pass |-> k.pass])
              /\ UNCHANGED session

Conclude_UnrStaysIn(c, status) ==          \* mutant: the session survives unregister
    LET k == asked[c]
    IN  /\ asked' = [asked EXCEPT ![c] = Nothing]
        /\ \/ /\ k.op = "LOG" /\ status # "NOK"
              /\ session' = [session EXCEPT ![c] = [uid |-> k.uid, pass |-> k.pass]]
           \/ /\ k.op = "OUT" /\ status # "NOK"
              /\ session' = [session EXCEPT ![c] = LoggedOut]
           \/ /\ ~(k.op \in {"LOG", "OUT"} /\ status # "NOK")
              /\ UNCHANGED session

(* What login, logout and unregisterUser do with the status word.  Anything   *)
(* but "NOK" counts as success, and unregister ends the session of this uid   *)
(* and password whatever the answer.                                          *)
Conclude(c, status) ==
    LET k == asked[c]
        own == k.op = "UNR" /\ session[c] = [uid |-> k.uid, pass |-> k.pass]
    IN  /\ asked' = [asked EXCEPT ![c] = Nothing]
        /\ \/ /\ k.op = "LOG" /\ status # "NOK"
              /\ session' = [session EXCEPT ![c] = [uid |-> k.uid, pass |-> k.pass]]
           \/ /\ own \/ (k.op = "OUT" /\ status # "NOK")
              /\ session' = [session EXCEPT ![c] = LoggedOut]
           \/ /\ ~own /\ ~(k.op \in {"LOG", "OUT"} /\ status # "NOK")
              /\ UNCHANGED session

(* The answer to the socket that is open arrives.                             *)
Receive(c) ==
    /\ asked[c] # Nothing
    /\ \E a \in answers :
         /\ a.client = c /\ a.socket = socket[c]
         /\ Conclude(c, a.status)
         /\ answers' = answers \ {a}
    /\ UNCHANGED <<dirVars, socket, requests>>

TimeOut_Never(c) ==                        \* mutant: SO_RCVTIMEO not set
    FALSE /\ UNCHANGED clientVars

(* recvfrom gives up (or sendto has failed): status is then not assigned, and *)
(* the word that happens to be in it may be "NOK" or anything else.           *)
TimeOut(c) ==
    /\ asked[c] # Nothing
    /\ \E status \in {"NOK", "OK"} : Conclude(c, status)
    /\ UNCHANGED <<dirVars, socket, requests, answers>>

(* The exit command, end of input or SIGINT at the prompt; the application is *)
(* started again.  The server is not told.                                    *)
Quit(c) ==
    /\ asked[c] = Nothing /\ session[c] # LoggedOut
    /\ session' = [session EXCEPT ![c] = LoggedOut]
    /\ UNCHANGED <<dirVars, asked, socket, requests, answers>>

(* SIGINT while the client waits.                                             *)
Interrupt(c) ==
    /\ asked[c] # Nothing
    /\ session' = [session EXCEPT ![c] = LoggedOut]
    /\ asked' = [asked EXCEPT ![c] = Nothing]
    /\ UNCHANGED <<dirVars, socket, requests, answers>>

-----------------------------------------------------------------------------
(* handleCommandUDP: the command is carried out and its status word sent to   *)
(* the socket it came from.                                                   *)

Serve(k) ==
    \/ k.op = "REG" /\ REG(k.uid, k.pass)
    \/ k.op = "UNR" /\ UNR(k.uid, k.pass)
    \/ k.op = "LOG" /\ LOG(k.uid, k.pass)
    \/ k.op = "OUT" /\ OUT(k.uid, k.pass)
    \/ k.op = "GSR" /\ GSR(k.uid, k.gid, k.gname)
    \/ k.op = "GUR" /\ GUR(k.uid, k.gid)

StatusOf(k) ==
    CASE k.op = "REG" -> RegStatus(k.uid, k.pass)
      [] k.op = "UNR" -> UnrStatus(k.uid, k.pass)
      [] k.op = "LOG" -> LogStatus(k.uid, k.pass)
      [] k.op = "OUT" -> OutStatus(k.uid, k.pass)
      [] k.op = "GSR" -> GsrStatus(k.uid, k.gid, k.gname)
      [] k.op = "GUR" -> GurStatus(k.uid, k.gid)

Handle(r) ==
    /\ Serve(r.cmd)
    /\ answers' = answers \cup
         {[client |-> r.client, socket |-> r.socket, cmd |-> r.cmd, status |-> StatusOf(r.cmd)]}
    /\ UNCHANGED <<session, asked, socket>>

(* A GSR with the longest name fills command_buffer to its last byte, and     *)
(* sscanf reads on behind it: what it finds there may count as a fifth token. *)
Misread(r) ==
    /\ r.cmd.op = "GSR" /\ r.cmd.gname \in LongName
    /\ answers' = answers \cup
         {[client |-> r.client, socket |-> r.socket, cmd |-> r.cmd, status |-> "ERR"]}
    /\ requests' = requests \ {r}
    /\ UNCHANGED <<dirVars, session, asked, socket>>

Deliver(r)   == Handle(r) /\ requests' = requests \ {r}
Duplicate(r) == Handle(r) /\ UNCHANGED requests

Lose ==
    /\ \/ \E r \in requests : requests' = requests \ {r} /\ UNCHANGED answers
       \/ \E a \in answers : answers' = answers \ {a} /\ UNCHANGED requests
    /\ UNCHANGED <<dirVars, session, asked, socket>>

-----------------------------------------------------------------------------
ClientInit ==
    /\ DirInit
    /\ session = [c \in Client |-> LoggedOut]
    /\ asked = [c \in Client |-> Nothing]
    /\ socket = [c \in Client |-> 0]
    /\ requests = {} /\ answers = {}

(* The network delivers everything within the time-out.                       *)
ReliableNext ==
    \/ \E c \in Client :
         (\E k \in Command : Send(c, k)) \/ Receive(c) \/ Quit(c)
    \/ \E r \in requests : Deliver(r) \/ Misread(r)

LossyNext ==
    \/ ReliableNext
    \/ \E c \in Client : TimeOut(c) \/ Interrupt(c)
    \/ \E r \in requests : Duplicate(r)
    \/ Lose

ReliableSpec == ClientInit /\ [][ReliableNext]_clientVars
LossySpec    == ClientInit /\ [][LossyNext]_clientVars

(* The kernel wakes a client for an answer or, at the latest, for its         *)
(* time-out.                                                                  *)
WakingSpec == LossySpec /\ \A c \in Client : WF_clientVars(Receive(c) \/ TimeOut(c))

-----------------------------------------------------------------------------
(* The sessions and the datagrams have the shape the commands rely on. *)
ClientTypeOK ==
    /\ DirTypeOK
    /\ session \in [Client -> Session \cup {LoggedOut}]
    /\ asked \in [Client -> Command \cup {Nothing}]
    /\ socket \in [Client -> 0 .. MaxSockets]
    /\ requests \in SUBSET Request /\ answers \in SUBSET Answer

(* A user application that is not in the middle of a command and believes     *)
(* that it is logged in is logged in at the server, with the password it      *)
(* holds.  It needs a network that delivers, and that nobody else uses the    *)
(* uid.                                                                       *)
SessionAgrees ==
    \A c \in Client : asked[c] = Nothing /\ session[c] # LoggedOut =>
        session[c].uid \in login /\ password[session[c].uid] = session[c].pass

(* "logout - the User application (locally) forgets the credentials of the    *)
(* previously logged in user [...]. A new login command, with different       *)
(* credentials, can then be issued" (README.md:30).                           *)
LogoutForgets ==
    [][\A c \in Client : asked[c] # Nothing /\ asked[c].op = "OUT" /\ asked'[c] = Nothing =>
          session'[c] = LoggedOut]_clientVars

(* "with this command the User application sends a message in UDP to the DS   *)
(* to validate the user credentials" (README.md:26): a session begins only    *)
(* when the server has validated the credentials.                             *)
LoginWasValidated ==
    [][\A c \in Client : session[c] = LoggedOut /\ session'[c] # LoggedOut =>
          \E a \in answers : a.client = c /\ a.cmd = asked[c] /\ a.status = "OK"]_clientVars

(* What subscribe prints: an error for the status words it knows, and that    *)
(* the user is subscribed for any other answer.                               *)
SaysSubscribed(status) == status \notin {"E_USR", "E_GRP", "E_GNAME", "NOK", "FULL"}

(* "The confirmation of successful subscription (or not) should be displayed" *)
(* (README.md:49-50): who is told so is a member of a group of that name,     *)
(* unless the name has 24 characters, which the server may misread.           *)
SubscribedIsTrue ==
    [][\A a \in answers \ answers' :
          /\ asked[a.client] = a.cmd /\ asked'[a.client] = Nothing
          /\ a.cmd.op = "GSR" /\ SaysSubscribed(a.status) /\ a.cmd.gname \notin LongName
          => \E g \in Gid : GroupNameIs(g, a.cmd.gname) /\ a.cmd.uid \in member[g]]_clientVars

(* Whatever is late or duplicated, the answer a client takes is an answer to  *)
(* the command it waits on.                                                   *)
AnswerIsToTheCommand ==
    \A c \in Client : asked[c] # Nothing =>
        \A a \in answers : a.client = c /\ a.socket = socket[c] => a.cmd = asked[c]

(* A client comes back to its prompt, also when its datagram is lost.         *)
CommandsEnd == \A c \in Client : asked[c] # Nothing ~> asked[c] = Nothing
=============================================================================
