---------------------------- MODULE MessageServer ----------------------------
(***************************************************************************)
(* The whole Directory Server: the main process of DirectoryServer and the *)
(* children it forks, one per TCP connection, that post and retrieve       *)
(* messages (server/src/tcp_handling.h; post, getNumMsg and retrieve of    *)
(* server/src/operations.c).                                               *)
(*                                                                         *)
(* Nothing synchronises the processes: they meet only in the files.  A     *)
(* child is therefore modelled one system call at a time, while a UDP      *)
(* command of the main process stays one action: of the files it changes,  *)
(* a child looks only at login.txt and <uid>.txt, one at a time, and at    *)
(* the group files that exist before the fork.                             *)
(***************************************************************************)
EXTENDS DirectoryServer

CONSTANTS
    Child,      \* slots for the TCP children that are alive at a time
    Text,       \* message texts
    FName,      \* well-formed file names
    FileLen,    \* length of an attached file, in blocks that reach the disk together
    Window,     \* the most messages one RTV returns, 20 in the code
    Empty       \* content of a file that is created and not yet written

ASSUME MessageAssumption ==
    /\ FileLen \in Nat /\ Window \in Nat \ {0}
    /\ NoFile \notin Uid \cup Text \cup FName /\ Empty \notin Uid \cup Text \cup FName
    /\ Empty # NoFile /\ Empty \notin Nat

Lesser(a, b) == IF a < b THEN a ELSE b

VARIABLES
    authorFile, \* GROUPS/<gid>/MSG/<mid>/A U T H O R.txt
    textFile,   \* GROUPS/<gid>/MSG/<mid>/T E X T.txt
    nameFile,   \* GROUPS/<gid>/MSG/<mid>/F I L E.txt
    dataFile,   \* blocks on disk of GROUPS/<gid>/MSG/<mid>/<fname>
    pc,         \* what child c does next; "idle" when the slot has no process
    job,        \* the request of child c
    snap,       \* N_GROUPS as child c inherited it at the fork
    mid,        \* PST: the id of the new message.  RTV: the message being sent
    last,       \* RTV: the last message to send
    off,        \* blocks of the file received (PST) or sent (RTV) so far
    buf,        \* RTV: what retrieve() has read of the message
    acked,      \* history: the mids that clients were answered
    known,      \* history: the mids child c found complete in its group at the fork
    auth        \* history: child c's user was, since the fork, logged in and subscribed

files     == <<authorFile, textFile, nameFile, dataFile>>
procVars  == <<pc, job, snap, mid, last, off, buf, known>>
msgVars   == <<dirVars, files, procVars, acked, auth>>

NoBuf == [author |-> NoFile, text |-> NoFile, fname |-> NoFile, size |-> NoFile]

Huge == FileLen + 1     \* what ftell answers on a directory: LONG_MAX

PostJob == [op : {"PST"}, uid : UidArg, gid : Gid \cup {Malformed},
            text : Text, fname : FName \cup {NoFile}]
RetrieveJob == [op : {"RTV"}, uid : UidArg, gid : Gid \cup {Malformed}, first : Mid]

-----------------------------------------------------------------------------
(* The stages of a post that has its mid written to num_msg.txt and has not   *)
(* written all of its files, those of a post before that, and those of a      *)
(* retrieve that answers "RRT OK".                                            *)
Filing  == {"mkdir", "author", "author_w", "text", "text_w", "fname", "fname_w", "data", "recv"}
Admitting == {"login", "member", "count"}
Reading == {"r_text", "r_author", "r_fname", "r_open", "r_send", "r_done"}

Posting(c)  == pc[c] # "idle" /\ job[c].op = "PST"
Posters(g)  == {c \in Child : Posting(c) /\ job[c].gid = g}
InFlight(g, m) == \E c \in Posters(g) : pc[c] \in Filing /\ mid[c] = m

Counted(g)  == IF numMsg[g] = NoFile THEN {} ELSE 1 .. numMsg[g]
Settled(g)  == {m \in Counted(g) : ~InFlight(g, m)}

Entry(g, m) ==
    [author |-> authorFile[g][m], text |-> textFile[g][m], fname |-> nameFile[g][m],
     size   |-> IF nameFile[g][m] \in FName THEN dataFile[g][m][nameFile[g][m]] ELSE NoFile]

(* What getNumMsg makes of the count k: the four digits of num_msg.txt are    *)
(* read into a char n_msg[5] that nothing has set, so atoi may find one more  *)
(* digit behind them.  (Digits beyond the array would only make it larger.)   *)
Atoi(k) == {k} \cup {10 * k + digit : digit \in 0 .. 9}

(* getNumMsg: how many messages from m on an RTV gets when it takes the count *)
(* for n.                                                                     *)
NumToSend(n, m) ==
    IF n = 0 THEN 0
    ELSE IF n < m THEN -1
    ELSE IF n - m + 1 > Window THEN Window ELSE n - m + 1

Goto(c, stage) == pc' = [pc EXCEPT ![c] = stage]

(* exit(), or the death of the child by a signal. *)
Exit(c) ==
    /\ Goto(c, "idle")
    /\ job'   = [job EXCEPT ![c] = NoFile]
    /\ snap'  = [snap EXCEPT ![c] = 0]
    /\ mid'   = [mid EXCEPT ![c] = 0]
    /\ last'  = [last EXCEPT ![c] = 0]
    /\ off'   = [off EXCEPT ![c] = 0]
    /\ buf'   = [buf EXCEPT ![c] = NoBuf]
    /\ known' = [known EXCEPT ![c] = {}]

-----------------------------------------------------------------------------
(* executeCommand: a connection is accepted and a child forked for it.  The   *)
(* bound MaxMsg is kept here and, for posts that overlap, in ReadCounter: a   *)
(* post comes only to a group that has room.                                  *)
RoomToPost(g) == g \in groupDir => numMsg[g] < MaxMsg

Accept(c, j) ==
    /\ pc[c] = "idle"
    /\ j.op = "PST" => RoomToPost(j.gid)
    /\ Goto(c, "login")
    /\ job'   = [job EXCEPT ![c] = j]
    /\ snap'  = [snap EXCEPT ![c] = nGroups]
    /\ known' = [known EXCEPT ![c] = IF parseGID(j.gid) THEN Settled(j.gid) ELSE {}]
    /\ UNCHANGED <<dirVars, files, mid, last, off, buf, acked>>

CheckLogin_NoSnapshot(c) ==                \* mutant: N_GROUPS < atoi(gid) not tested
    /\ pc[c] = "login"
    /\ \/ /\ parseUID(job[c].uid) /\ parseGID(job[c].gid) /\ userLoggedIn(job[c].uid)
          /\ Goto(c, "member")
          /\ UNCHANGED <<job, snap, mid, last, off, buf, known>>
       \/ /\ ~ (parseUID(job[c].uid) /\ parseGID(job[c].gid) /\ userLoggedIn(job[c].uid))
          /\ Exit(c)
    /\ UNCHANGED <<dirVars, files, acked>>

(* The request is parsed, its gid compared with the inherited N_GROUPS and    *)
(* login.txt opened.                                                          *)
CheckLogin(c) ==
    /\ pc[c] = "login"
    /\ \/ /\ parseUID(job[c].uid) /\ parseGID(job[c].gid)
          /\ job[c].gid <= snap[c] /\ userLoggedIn(job[c].uid)
          /\ Goto(c, "member")
          /\ UNCHANGED <<job, snap, mid, last, off, buf, known>>
       \/ /\ ~ (/\ parseUID(job[c].uid) /\ parseGID(job[c].gid)
                /\ job[c].gid <= snap[c] /\ userLoggedIn(job[c].uid))
          /\ Exit(c)
    /\ UNCHANGED <<dirVars, files, acked>>

(* GROUPS/<gid>/<uid>.txt is opened.                                          *)
CheckMember(c) ==
    /\ pc[c] = "member"
    /\ \/ /\ job[c].uid \in member[job[c].gid]
          /\ Goto(c, "count")
          /\ UNCHANGED <<job, snap, mid, last, off, buf, known>>
       \/ /\ job[c].uid \notin member[job[c].gid]
          /\ Exit(c)
    /\ UNCHANGED <<dirVars, files, acked>>

-----------------------------------------------------------------------------
ReadCounter_SkipsOne(c) ==                 \* mutant: incremented twice
    /\ pc[c] = "count" /\ job[c].op = "PST"
    /\ numMsg[job[c].gid] + 1 < MaxMsg
    /\ mid' = [mid EXCEPT ![c] = numMsg[job[c].gid] + 2]
    /\ Goto(c, "bump")
    /\ UNCHANGED <<dirVars, files, job, snap, last, off, buf, known, acked>>

(* post: num_msg.txt is read, and rewritten by a later system call.           *)
ReadCounter(c) ==
    /\ pc[c] = "count" /\ job[c].op = "PST"
    /\ numMsg[job[c].gid] < MaxMsg
    /\ mid' = [mid EXCEPT ![c] = numMsg[job[c].gid] + 1]
    /\ Goto(c, "bump")
    /\ UNCHANGED <<dirVars, files, job, snap, last, off, buf, known, acked>>

WriteCounter_Lost(c) ==                    \* mutant: the new count never written
    /\ pc[c] = "bump"
    /\ Goto(c, "mkdir")
    /\ UNCHANGED <<dirVars, files, job, snap, mid, last, off, buf, known, acked>>

WriteCounter(c) ==
    /\ pc[c] = "bump"
    /\ numMsg' = [numMsg EXCEPT ![job[c].gid] = mid[c]]
    /\ Goto(c, "mkdir")
    /\ UNCHANGED <<userVars, groupVars, msgDir, files,
                   job, snap, mid, last, off, buf, known, acked>>

MakeMessageDir(c) ==
    /\ pc[c] = "mkdir"
    /\ msgDir' = [msgDir EXCEPT ![job[c].gid] = @ \cup {mid[c]}]
    /\ Goto(c, "author")
    /\ UNCHANGED <<userVars, groupVars, numMsg, files,
                   job, snap, mid, last, off, buf, known, acked>>

(* createFile, three times: fopen "w" creates or empties the file, fclose     *)
(* writes the content.                                                        *)
CreateAuthor(c) ==
    /\ \/ /\ pc[c] = "author"
          /\ authorFile' = [authorFile EXCEPT ![job[c].gid][mid[c]] = Empty]
          /\ Goto(c, "author_w")
       \/ /\ pc[c] = "author_w"
          /\ authorFile' = [authorFile EXCEPT ![job[c].gid][mid[c]] = job[c].uid]
          /\ Goto(c, "text")
    /\ UNCHANGED <<dirVars, textFile, nameFile, dataFile,
                   job, snap, mid, last, off, buf, known, acked>>

CreateText_Unwritten(c) ==                 \* mutant: the file is closed without its content
    /\ \/ /\ pc[c] = "text"
          /\ textFile' = [textFile EXCEPT ![job[c].gid][mid[c]] = Empty]
          /\ Goto(c, "text_w")
       \/ /\ pc[c] = "text_w"
          /\ Goto(c, IF job[c].fname = NoFile THEN "ack" ELSE "fname")
          /\ UNCHANGED textFile
    /\ UNCHANGED <<dirVars, authorFile, nameFile, dataFile,
                   job, snap, mid, last, off, buf, known, acked>>

CreateText(c) ==
    /\ \/ /\ pc[c] = "text"
          /\ textFile' = [textFile EXCEPT ![job[c].gid][mid[c]] = Empty]
          /\ Goto(c, "text_w")
       \/ /\ pc[c] = "text_w"
          /\ textFile' = [textFile EXCEPT ![job[c].gid][mid[c]] = job[c].text]
          /\ Goto(c, IF job[c].fname = NoFile THEN "ack" ELSE "fname")
    /\ UNCHANGED <<dirVars, authorFile, nameFile, dataFile,
                   job, snap, mid, last, off, buf, known, acked>>

CreateName(c) ==
    /\ \/ /\ pc[c] = "fname"
          /\ nameFile' = [nameFile EXCEPT ![job[c].gid][mid[c]] = Empty]
          /\ Goto(c, "fname_w")
       \/ /\ pc[c] = "fname_w"
          /\ nameFile' = [nameFile EXCEPT ![job[c].gid][mid[c]] = job[c].fname]
          /\ Goto(c, "data")
    /\ UNCHANGED <<dirVars, authorFile, textFile, dataFile,
                   job, snap, mid, last, off, buf, known, acked>>

OpenData_NotOpened(c) ==                   \* mutant: the file is opened with the first block
    /\ pc[c] = "data"
    /\ Goto(c, "recv")
    /\ UNCHANGED <<dirVars, files, job, snap, mid, last, off, buf, known, acked>>

OpenData(c) ==
    /\ pc[c] = "data"
    /\ dataFile' = [dataFile EXCEPT ![job[c].gid][mid[c]][job[c].fname] = 0]
    /\ Goto(c, "recv")
    /\ UNCHANGED <<dirVars, authorFile, textFile, nameFile,
                   job, snap, mid, last, off, buf, known, acked>>

ReceiveBlock_OneMore(c) ==                 \* mutant: <= for < in the loop condition
    /\ pc[c] = "recv" /\ off[c] <= FileLen
    /\ dataFile' = [dataFile EXCEPT ![job[c].gid][mid[c]][job[c].fname] =
                        IF @ > off[c] THEN @ ELSE off[c] + 1]
    /\ off' = [off EXCEPT ![c] = @ + 1]
    /\ UNCHANGED <<dirVars, authorFile, textFile, nameFile, pc,
                   job, snap, mid, last, buf, known, acked>>

(* A block arrives and is written at the child's own offset of the file.      *)
ReceiveBlock(c) ==
    /\ pc[c] = "recv" /\ off[c] < FileLen
    /\ dataFile' = [dataFile EXCEPT ![job[c].gid][mid[c]][job[c].fname] =
                        IF @ > off[c] THEN @ ELSE off[c] + 1]
    /\ off' = [off EXCEPT ![c] = @ + 1]
    /\ UNCHANGED <<dirVars, authorFile, textFile, nameFile, pc,
                   job, snap, mid, last, buf, known, acked>>

UploadDone_Early(c) ==                     \* mutant: answered before all blocks came
    /\ pc[c] = "recv"
    /\ Goto(c, "ack")
    /\ UNCHANGED <<dirVars, files, job, snap, mid, last, off, buf, known, acked>>

UploadDone(c) ==
    /\ pc[c] = "recv" /\ off[c] = FileLen
    /\ Goto(c, "ack")
    /\ UNCHANGED <<dirVars, files, job, snap, mid, last, off, buf, known, acked>>

(* The client is gone before all of the file came: read() ends the loop, what *)
(* came stays, and nobody hears the answer.                                   *)
UploadCut(c) ==
    /\ pc[c] = "recv" /\ off[c] < FileLen
    /\ Exit(c)
    /\ UNCHANGED <<dirVars, files, acked>>

(* "RPT <mid>" is written to the client.                                      *)
Acknowledge(c) ==
    /\ pc[c] = "ack"
    /\ acked' = [acked EXCEPT ![job[c].gid] = @ \cup {mid[c]}]
    /\ Exit(c)
    /\ UNCHANGED <<dirVars, files>>

-----------------------------------------------------------------------------
(* getNumMsg reads num_msg.txt; EOF and NOK end the child.  A child that is   *)
(* to go on behind MaxMsg ends there: the model has no such message, and the  *)
(* code dies of the missing T E X T.txt.                                      *)
CountToSend(c) ==
    /\ pc[c] = "count" /\ job[c].op = "RTV"
    /\ \E total \in Atoi(numMsg[job[c].gid]) :
         LET n == NumToSend(total, job[c].first)
         IN  \/ /\ n > 0
                /\ Goto(c, "r_text")
                /\ mid'  = [mid EXCEPT ![c] = job[c].first]
                /\ last' = [last EXCEPT ![c] = Lesser(job[c].first + n - 1, MaxMsg)]
                /\ UNCHANGED <<job, snap, off, buf, known>>
             \/ n <= 0 /\ Exit(c)
    /\ UNCHANGED <<dirVars, files, acked>>

(* retrieve opens the files of one message in turn, without a look at the     *)
(* result for all but F I L E.txt: a NULL ends the child with SIGSEGV.  A     *)
(* file that exists is never removed, so opening and reading it is one step.  *)
ReadText(c) ==
    /\ pc[c] = "r_text"
    /\ LET content == textFile[job[c].gid][mid[c]]
       IN  \/ /\ content # NoFile
              /\ buf' = [buf EXCEPT ![c].text = content]
              /\ Goto(c, "r_author")
              /\ UNCHANGED <<job, snap, mid, last, off, known>>
           \/ content = NoFile /\ Exit(c)
    /\ UNCHANGED <<dirVars, files, acked>>

ReadAuthor(c) ==
    /\ pc[c] = "r_author"
    /\ LET content == authorFile[job[c].gid][mid[c]]
       IN  \/ /\ content # NoFile
              /\ buf' = [buf EXCEPT ![c].author = content]
              /\ Goto(c, "r_fname")
              /\ UNCHANGED <<job, snap, mid, last, off, known>>
           \/ content = NoFile /\ Exit(c)
    /\ UNCHANGED <<dirVars, files, acked>>

ReadName(c) ==
    /\ pc[c] = "r_fname"
    /\ LET content == nameFile[job[c].gid][mid[c]]
       IN  /\ buf' = [buf EXCEPT ![c].fname = content]
           /\ Goto(c, IF content = NoFile THEN "r_done" ELSE "r_open")
    /\ UNCHANGED <<dirVars, files, job, snap, mid, last, off, known, acked>>

(* An empty name makes the path that of the message directory: it opens, has  *)
(* size LONG_MAX and no bytes.                                                *)
OpenToSend(c) ==
    /\ pc[c] = "r_open"
    /\ LET f == buf[c].fname
           size == IF f = Empty THEN Huge ELSE dataFile[job[c].gid][mid[c]][f]
       IN  \/ /\ size # NoFile
              /\ buf' = [buf EXCEPT ![c].size = size]
              /\ Goto(c, "r_send")
              /\ UNCHANGED <<job, snap, mid, last, off, known>>
           \/ size = NoFile /\ Exit(c)
    /\ UNCHANGED <<dirVars, files, acked>>

(* The header of the message is out; blocks are read and sent until the end   *)
(* of the file, wherever that is by now.                                      *)
MoreToSend(c) ==
    /\ buf[c].fname # Empty
    /\ off[c] < dataFile[job[c].gid][mid[c]][buf[c].fname]

SendBlock_UntilAnnounced(c) ==             \* mutant: sends until the announced size is reached
    /\ pc[c] = "r_send"
    /\ \/ /\ MoreToSend(c)
          /\ off' = [off EXCEPT ![c] = @ + 1]
          /\ UNCHANGED pc
       \/ /\ ~MoreToSend(c) /\ off[c] >= buf[c].size
          /\ Goto(c, "r_done")
          /\ UNCHANGED off
    /\ UNCHANGED <<dirVars, files, job, snap, mid, last, buf, known, acked>>

SendBlock(c) ==
    /\ pc[c] = "r_send"
    /\ \/ /\ MoreToSend(c)
          /\ off' = [off EXCEPT ![c] = @ + 1]
          /\ UNCHANGED pc
       \/ /\ ~MoreToSend(c)
          /\ Goto(c, "r_done")
          /\ UNCHANGED off
    /\ UNCHANGED <<dirVars, files, job, snap, mid, last, buf, known, acked>>

NextMessage_KeepsOffset(c) ==              \* mutant: the second file goes on where the first ended
    /\ pc[c] = "r_done"
    /\ \/ /\ mid[c] < last[c]
          /\ mid' = [mid EXCEPT ![c] = @ + 1]
          /\ buf' = [buf EXCEPT ![c] = NoBuf]
          /\ Goto(c, "r_text")
          /\ UNCHANGED <<job, snap, last, off, known>>
       \/ mid[c] = last[c] /\ Exit(c)
    /\ UNCHANGED <<dirVars, files, acked>>

NextMessage(c) ==
    /\ pc[c] = "r_done"
    /\ \/ /\ mid[c] < last[c]
          /\ mid' = [mid EXCEPT ![c] = @ + 1]
          /\ off' = [off EXCEPT ![c] = 0]
          /\ buf' = [buf EXCEPT ![c] = NoBuf]
          /\ Goto(c, "r_text")
          /\ UNCHANGED <<job, snap, last, known>>
       \/ mid[c] = last[c] /\ Exit(c)
    /\ UNCHANGED <<dirVars, files, acked>>

(* write() to a connection the client closed raises SIGPIPE.                  *)
HangUp(c) ==
    /\ pc[c] \in {"r_text", "r_send", "r_done"}
    /\ Exit(c)
    /\ UNCHANGED <<dirVars, files, acked>>

-----------------------------------------------------------------------------
MsgInit ==
    /\ DirInit
    /\ authorFile = [g \in Gid |-> [m \in Mid |-> NoFile]]
    /\ textFile   = [g \in Gid |-> [m \in Mid |-> NoFile]]
    /\ nameFile   = [g \in Gid |-> [m \in Mid |-> NoFile]]
    /\ dataFile   = [g \in Gid |-> [m \in Mid |-> [f \in FName |-> NoFile]]]
    /\ pc    = [c \in Child |-> "idle"]
    /\ job   = [c \in Child |-> NoFile]
    /\ snap  = [c \in Child |-> 0]
    /\ mid   = [c \in Child |-> 0]
    /\ last  = [c \in Child |-> 0]
    /\ off   = [c \in Child |-> 0]
    /\ buf   = [c \in Child |-> NoBuf]
    /\ known = [c \in Child |-> {}]
    /\ acked = [g \in Gid |-> {}]
    /\ auth  = [c \in Child |-> FALSE]

Post(c) ==
    \/ ReadCounter(c) \/ WriteCounter(c) \/ MakeMessageDir(c)
    \/ CreateAuthor(c) \/ CreateText(c) \/ CreateName(c)
    \/ OpenData(c) \/ ReceiveBlock(c) \/ UploadDone(c) \/ Acknowledge(c)

Retrieve(c) ==
    \/ CountToSend(c) \/ ReadText(c) \/ ReadAuthor(c) \/ ReadName(c)
    \/ OpenToSend(c) \/ SendBlock(c) \/ NextMessage(c)

Work(c) == CheckLogin(c) \/ CheckMember(c) \/ Post(c) \/ Retrieve(c)

TcpStep(c) ==
    \/ \E j \in PostJob \cup RetrieveJob : Accept(c, j)
    \/ Work(c) \/ UploadCut(c) \/ HangUp(c)

(* A refused command is a stuttering step here. *)
UdpStep == UdpCommand /\ dirVars' # dirVars /\ UNCHANGED <<files, procVars, acked>>

(* auth is updated in every step: it records states, not actions.             *)
Allowed(c) ==
    /\ job[c].uid \in login
    /\ parseGID(job[c].gid) /\ job[c].uid \in member[job[c].gid]

RecordAuth ==
    auth' = [c \in Child |->
                pc'[c] \in {"login", "member"} /\ (auth[c] \/ Allowed(c)')]

MsgNext == (UdpStep \/ \E c \in Child : TcpStep(c)) /\ RecordAuth

MsgSpec == MsgInit /\ [][MsgNext]_msgVars

(* The same server when its clients never have two posts to one group open   *)
(* at a time.                                                                 *)
OnePostAtATime == \A g \in Gid : \A c, d \in Posters(g) : c = d

SerialSpec == MsgInit /\ [][MsgNext /\ OnePostAtATime']_msgVars

-----------------------------------------------------------------------------
(* The processes have the shape their steps rely on. *)
MsgTypeOK ==
    /\ DirTypeOK
    /\ authorFile \in [Gid -> [Mid -> Uid \cup {Empty, NoFile}]]
    /\ textFile   \in [Gid -> [Mid -> Text \cup {Empty, NoFile}]]
    /\ nameFile   \in [Gid -> [Mid -> FName \cup {Empty, NoFile}]]
    /\ dataFile   \in [Gid -> [Mid -> [FName -> (0 .. FileLen) \cup {NoFile}]]]
    /\ pc \in [Child -> {"idle", "bump", "ack"} \cup Admitting \cup Filing \cup Reading]
    /\ job \in [Child -> PostJob \cup RetrieveJob \cup {NoFile}]
    /\ \A c \in Child : pc[c] # "idle" => job[c] \in PostJob \cup RetrieveJob
    /\ snap \in [Child -> 0 .. MaxGroups]
    /\ mid \in [Child -> 0 .. MaxMsg]
    /\ last \in [Child -> 0 .. MaxMsg]
    /\ off \in [Child -> 0 .. FileLen]
    /\ buf \in [Child -> [author : Uid \cup {Empty, NoFile}, text : Text \cup {Empty, NoFile},
                         fname : FName \cup {Empty, NoFile}, size : (0 .. Huge) \cup {NoFile}]]
    /\ known \in [Child -> SUBSET Mid]
    /\ acked \in [Gid -> SUBSET Mid]
    /\ auth \in [Child -> BOOLEAN]

Readable(g, m) ==
    /\ m \in msgDir[g] /\ authorFile[g][m] # NoFile /\ textFile[g][m] # NoFile
    /\ nameFile[g][m] \in FName => dataFile[g][m][nameFile[g][m]] # NoFile

Absent(g, m) ==
    /\ m \notin msgDir[g]
    /\ authorFile[g][m] = NoFile /\ textFile[g][m] = NoFile /\ nameFile[g][m] = NoFile
    /\ \A f \in FName : dataFile[g][m][f] = NoFile

(* The author, the text and the name are all written, the named file is there.*)
Whole(g, m) ==
    /\ authorFile[g][m] \in Uid /\ textFile[g][m] \in Text
    /\ nameFile[g][m] # Empty
    /\ nameFile[g][m] \in FName => dataFile[g][m][nameFile[g][m]] # NoFile

(* Every mid up to the count in num_msg.txt has all the files retrieve opens, *)
(* or a child that is still creating them: post writes the count first, and   *)
(* overlapping posts may write it in any order, even downwards.               *)
CountedMessagesExist ==
    \A g \in groupDir : \A m \in Counted(g) : Readable(g, m) \/ InFlight(g, m)

(* Also behind the count, where a lost increment or a stray digit lets a      *)
(* retrieve look, a message is all there or not there at all: only a post     *)
(* that is at it right now may have left it in between, so no retrieve sends  *)
(* a part of a message and then meets a file that will never exist.           *)
MessagesAreWhole ==
    \A g \in Gid, m \in Mid : Readable(g, m) \/ InFlight(g, m) \/ Absent(g, m)

(* Past the comparison with the N_GROUPS of the fork, the group and its       *)
(* num_msg.txt exist: post and getNumMsg use the FILE* of it unchecked.       *)
AdmittedGroupExists ==
    \A c \in Child : pc[c] \notin {"idle", "login"} =>
        job[c].gid \in groupDir /\ numMsg[job[c].gid] # NoFile

(* login.txt and <uid>.txt are looked at one after the other, with UDP        *)
(* commands in between.  A child that passes both checks nevertheless had a   *)
(* moment since its fork at which the user was logged in and subscribed.      *)
AdmittedWhileAllowed ==
    \A c \in Child : pc[c] = "member" => auth[c] \/ job[c].uid \notin member[job[c].gid]

(* When a post is about to be confirmed with a mid, the message under this    *)
(* mid is the one the client sent, and no other client was given the mid.     *)
AckNamesThePost ==
    \A c \in Child : pc[c] = "ack" =>
        /\ Entry(job[c].gid, mid[c]) =
             [author |-> job[c].uid, text |-> job[c].text, fname |-> job[c].fname,
              size   |-> IF job[c].fname = NoFile THEN NoFile ELSE FileLen]
        /\ mid[c] \notin acked[job[c].gid]

(* The number "groups" lists for a group is counted from the directories of   *)
(* its messages (listGroups), the one retrieve goes by is num_msg.txt: the    *)
(* listed one is never ahead, and behind by no more than the post under way.  *)
ListedIsLast ==
    \A g \in groupDir :
        /\ msgDir[g] \subseteq Counted(g)
        /\ Settled(g) \subseteq msgDir[g]

(* A mid that a client was told stays one a retrieve can ask for.             *)
AckedStayCounted == \A g \in Gid : acked[g] \subseteq Settled(g)

(* Every post adds one to the number of messages of its group, "increments    *)
(* number of messages on a group" (operations.c).                             *)
EachPostIncrements ==
    [][\A c \in Child : pc[c] = "bump" /\ pc'[c] = "mkdir" =>
          numMsg'[job[c].gid] = numMsg[job[c].gid] + 1]_msgVars

(* Every child comes to its end, whatever the others do: no step of one       *)
(* waits for another, and a file that grows while it is sent ends all the     *)
(* same.                                                                      *)
FairSpec == SerialSpec /\ \A c \in Child : WF_msgVars(Work(c) /\ RecordAuth)
ChildrenEnd == \A c \in Child : pc[c] # "idle" ~> pc[c] = "idle"

(* post counts a message before it writes any of its files.  From some time   *)
(* on all of them are there, written, and stay, also when the upload of the   *)
(* attached file is cut: a retrieve that dies of a counted message too early  *)
(* succeeds later.                                                            *)
CountedBecomesWhole ==
    \A g \in Gid, m \in Mid : m \in Counted(g) ~> []Whole(g, m)

(* What retrieve sent of a message, with an impossible size when the number   *)
(* of blocks is not the one in its header.                                    *)
Sent(c) ==
    IF buf[c].fname = NoFile \/ off[c] = buf[c].size THEN buf[c]
    ELSE [buf[c] EXCEPT !.size = Huge]

IsReader(c) == pc[c] \notin {"idle"} /\ job[c].op = "RTV" /\ parseGID(job[c].gid)

LogReader == [group : Gid, upTo : Nat, next : Mid]
LogEntry  == [author : Uid \cup {Empty}, text : Text \cup {Empty},
              fname : FName \cup {NoFile, Empty}, size : (0 .. Huge) \cup {NoFile}]

ASSUME LogAssumption == NoFile \notin LogReader \cup LogEntry

Log == INSTANCE MessageLog WITH
    Group   <- Gid,
    Reader  <- Child,
    Number  <- Mid,
    Message <- LogEntry,
    None    <- NoFile,
    log     <- [g \in Gid |-> [m \in 1 .. Cardinality(Settled(g)) |-> Entry(g, m)]],
    reader  <- [c \in Child |->
                  IF ~IsReader(c) THEN NoFile
                  ELSE [group |-> job[c].gid, upTo |-> Cardinality(known[c]),
                        next |-> IF pc[c] \in Reading THEN mid[c] ELSE job[c].first]],
    answer  <- [c \in Child |-> IF pc[c] = "r_done" THEN Sent(c) ELSE NoFile]

(* Posts are appended to a group one by one and never change again, and a     *)
(* retrieve sends what was posted, in order: SerialSpec implements            *)
(* MessageLog.                                                                *)
ImplementsLog == Log!LogSpec
=============================================================================
