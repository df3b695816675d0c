------------------------- MODULE MessageServerProofs -------------------------
(***************************************************************************)
(* MessageServer under any interleaving of any number of children, proved  *)
(* for all constants: types, "a counted message exists or is being         *)
(* written", "a message is all there or not there at all", and "who is     *)
(* admitted was allowed at some instant".                                  *)
(*                                                                         *)
(* The central fact is that Covered(g, m), once true, stays true: a post   *)
(* that finishes leaves all files of its message, or another post at the   *)
(* same mid that still has one to create.                                  *)
(***************************************************************************)
EXTENDS MessageServer, DirectoryServerProofs

USE MessageAssumption

Covered(g, m) == Readable(g, m) \/ InFlight(g, m)

(* What the stage of a child says about its request and its variables. *)
StageOK(c) ==
    /\ pc[c] \in {"bump", "ack"} \cup Filing => job[c] \in PostJob /\ mid[c] \in Mid
    /\ pc[c] \in {"fname", "fname_w", "data", "recv"} => job[c].fname \in FName
    /\ pc[c] \in Reading => job[c] \in RetrieveJob /\ mid[c] \in Mid /\ last[c] \in Mid
                            /\ mid[c] <= last[c]
    /\ pc[c] \notin {"idle", "login"} => job[c].uid \in Uid /\ job[c].gid \in groupDir
    /\ pc[c] \in {"r_open", "r_send"} => buf[c].fname \in FName \cup {Empty}
    /\ pc[c] = "r_send" /\ buf[c].fname # Empty =>
          dataFile[job[c].gid][mid[c]][buf[c].fname] # NoFile
    /\ snap[c] <= nGroups

(* The files a post has created by its stage. *)
FiledOK(c) ==
    /\ pc[c] \in Filing \ {"mkdir"} => mid[c] \in msgDir[job[c].gid]
    /\ pc[c] \in Filing \ {"mkdir", "author"} => authorFile[job[c].gid][mid[c]] # NoFile
    /\ pc[c] \in Filing \ {"mkdir", "author", "author_w", "text"} =>
          textFile[job[c].gid][mid[c]] # NoFile
    /\ pc[c] = "recv" => dataFile[job[c].gid][mid[c]][job[c].fname] # NoFile

(* A file that is named in F I L E.txt and missing is about to be created. *)
NamedOK ==
    \A g \in Gid, m \in Mid :
        nameFile[g][m] \in FName /\ dataFile[g][m][nameFile[g][m]] = NoFile =>
            \E c \in Child : /\ pc[c] = "data" /\ job[c].gid = g /\ mid[c] = m
                             /\ job[c].fname = nameFile[g][m]

(* The messages before the one a post is about to count. *)
BumpOK ==
    \A c \in Child : pc[c] = "bump" => \A m \in 1 .. mid[c] - 1 : Covered(job[c].gid, m)

FilesTypeOK ==
    /\ authorFile \in [Gid -> [Mid -> Uid \cup {Empty, NoFile}]]
    /\ textFile   \in [Gid -> [Mid -> Text \cup {Empty, NoFile}]]
    /\ nameFile   \in [Gid -> [Mid -> FName \cup {Empty, NoFile}]]
    /\ dataFile   \in [Gid -> [Mid -> [FName -> (0 .. FileLen) \cup {NoFile}]]]

Stages == {"idle", "bump", "ack"} \cup Admitting \cup Filing \cup Reading

Buffer == [author : Uid \cup {Empty, NoFile}, text : Text \cup {Empty, NoFile},
           fname : FName \cup {Empty, NoFile}, size : (0 .. Huge) \cup {NoFile}]

ProcTypeOK ==
    /\ pc \in [Child -> Stages]
    /\ job \in [Child -> PostJob \cup RetrieveJob \cup {NoFile}]
    /\ \A c \in Child : pc[c] # "idle" => job[c] \in PostJob \cup RetrieveJob
    /\ snap \in [Child -> 0 .. MaxGroups]
    /\ mid \in [Child -> 0 .. MaxMsg]
    /\ last \in [Child -> 0 .. MaxMsg]
    /\ off \in [Child -> 0 .. FileLen]
    /\ buf \in [Child -> Buffer]
    /\ known \in [Child -> SUBSET Mid]
    /\ acked \in [Gid -> SUBSET Mid]

MsgInv ==
    /\ DirInv /\ FilesTypeOK /\ ProcTypeOK
    /\ \A c \in Child : StageOK(c) /\ FiledOK(c)
    /\ NamedOK /\ BumpOK
    /\ CountedMessagesExist /\ MessagesAreWhole

-----------------------------------------------------------------------------
(* What every step of a child leaves alone. *)

OthersSame(c) ==
    \A d \in Child \ {c} :
        /\ pc'[d] = pc[d] /\ job'[d] = job[d] /\ snap'[d] = snap[d] /\ mid'[d] = mid[d]
        /\ last'[d] = last[d] /\ off'[d] = off[d] /\ buf'[d] = buf[d]
        /\ known'[d] = known[d]

FilesGrow ==
    \A g \in Gid, m \in Mid :
        /\ msgDir[g] \subseteq msgDir'[g]
        /\ authorFile[g][m] # NoFile => authorFile'[g][m] # NoFile
        /\ textFile[g][m] # NoFile => textFile'[g][m] # NoFile
        /\ \A f \in FName : dataFile[g][m][f] # NoFile => dataFile'[g][m][f] # NoFile

(* A child changes its own variables only. *)
LEMMA OthersUntouched ==
    ASSUME ProcTypeOK, NEW c \in Child, TcpStep(c)
    PROVE  OthersSame(c)
<1>1. CASE \E j \in PostJob \cup RetrieveJob : Accept(c, j)
  BY <1>1 DEF Accept, Goto, OthersSame, ProcTypeOK
<1>2. CASE Exit(c)
  BY <1>2 DEF Exit, Goto, OthersSame, ProcTypeOK
<1>3. CASE CheckLogin(c) \/ CheckMember(c)
  BY <1>2, <1>3 DEF CheckLogin, CheckMember, Goto, OthersSame, ProcTypeOK
<1>4. CASE ReadCounter(c) \/ WriteCounter(c) \/ MakeMessageDir(c) \/ OpenData(c)
  BY <1>4 DEF ReadCounter, WriteCounter, MakeMessageDir, OpenData, Goto, OthersSame, ProcTypeOK
<1>5. CASE CreateAuthor(c) \/ CreateText(c) \/ CreateName(c)
  BY <1>5 DEF CreateAuthor, CreateText, CreateName, Goto, OthersSame, ProcTypeOK
<1>6. CASE ReceiveBlock(c) \/ UploadDone(c)
  BY <1>6 DEF ReceiveBlock, UploadDone, Goto, OthersSame, ProcTypeOK
<1>7. CASE UploadCut(c) \/ HangUp(c) \/ Acknowledge(c)
  BY <1>2, <1>7 DEF UploadCut, HangUp, Acknowledge
<1>8. CASE CountToSend(c) \/ ReadText(c) \/ ReadAuthor(c) \/ ReadName(c)
  BY <1>2, <1>8 DEF CountToSend, ReadText, ReadAuthor, ReadName, Goto, OthersSame, ProcTypeOK
<1>9. CASE OpenToSend(c) \/ SendBlock(c) \/ NextMessage(c)
  BY <1>2, <1>9 DEF OpenToSend, SendBlock, NextMessage, Goto, OthersSame, ProcTypeOK
<1> QED
  BY <1>1, <1>3, <1>4, <1>5, <1>6, <1>7, <1>8, <1>9 DEF TcpStep, Work, Post, Retrieve

(* Most steps of a child change no file. *)
LEMMA QuietOrWriting ==
    ASSUME NEW c \in Child, TcpStep(c)
    PROVE  \/ UNCHANGED <<dirVars, files>>
           \/ WriteCounter(c) \/ MakeMessageDir(c) \/ CreateAuthor(c) \/ CreateText(c)
           \/ CreateName(c) \/ OpenData(c) \/ ReceiveBlock(c)
BY DEF TcpStep, Work, Post, Retrieve, Accept, CheckLogin, CheckMember, ReadCounter,
       UploadDone, UploadCut, Acknowledge, CountToSend, ReadText, ReadAuthor, ReadName,
       OpenToSend, SendBlock, NextMessage, HangUp

(* A step that changes no file keeps everything that is said of files only. *)
LEMMA QuietFiles ==
    ASSUME DirInv, FilesTypeOK, UNCHANGED <<dirVars, files>>
    PROVE  DirInv' /\ FilesTypeOK' /\ FilesGrow
<1>1. DirInv'
  BY DEF DirInv, DirTypeOK, NoGhostUsers, GroupsDense, UnusedGroupsEmpty,
         dirVars, userVars, groupVars
<1>2. FilesTypeOK'  BY DEF FilesTypeOK, files
<1>3. FilesGrow  BY DEF FilesGrow, files, dirVars
<1> QED  BY <1>1, <1>2, <1>3

(* Where a child that works on the files of a message works. *)
LEMMA Place ==
    ASSUME MsgInv, NEW c \in Child, pc[c] \in {"bump"} \cup Filing
    PROVE  /\ job[c] \in PostJob /\ job[c].gid \in Gid /\ job[c].gid \in groupDir
           /\ job[c].gid <= nGroups /\ mid[c] \in Mid
           /\ job[c].uid \in Uid /\ job[c].text \in Text
<1>1. job[c] \in PostJob /\ mid[c] \in Mid /\ job[c].gid \in groupDir /\ job[c].uid \in Uid
  BY DEF MsgInv, StageOK, Filing
<1>2. job[c].text \in Text  BY <1>1 DEF PostJob
<1>3. job[c].gid \in Gid /\ job[c].gid <= nGroups
  BY <1>1 DEF MsgInv, DirInv, DirTypeOK, GroupsDense
<1> QED  BY <1>1, <1>2, <1>3

(* A file of one message is set, the same file of all others is as before.    *)
LEMMA SetFile ==
    ASSUME NEW V, NEW F \in [Gid -> [Mid -> V]], NEW k \in Gid, NEW n \in Mid, NEW v \in V,
           NEW G, G = [F EXCEPT ![k][n] = v]
    PROVE  /\ G \in [Gid -> [Mid -> V]]
           /\ G[k][n] = v
           /\ \A g \in Gid, m \in Mid : g # k \/ m # n => G[g][m] = F[g][m]
OBVIOUS

(* What a child writes keeps the trees well formed, and no file or directory  *)
(* disappears.                                                                *)
LEMMA WritingFiles ==
    ASSUME MsgInv, NEW c \in Child, TcpStep(c)
    PROVE  DirInv' /\ FilesTypeOK' /\ FilesGrow
<1> USE DEF MsgInv
<1>1. CASE UNCHANGED <<dirVars, files>>  BY <1>1, QuietFiles
<1>2. CASE WriteCounter(c)
  <2>1. /\ job[c].gid \in Gid /\ job[c].gid \in groupDir /\ job[c].gid <= nGroups
        /\ mid[c] \in Mid
    BY <1>2, Place DEF WriteCounter
  <2>2. /\ numMsg' = [numMsg EXCEPT ![job[c].gid] = mid[c]]
        /\ UNCHANGED <<userDir, password, login, nGroups, groupDir, groupName, member,
                       msgDir, authorFile, textFile, nameFile, dataFile>>
    BY <1>2 DEF WriteCounter, userVars, groupVars, files
  <2>3. DirTypeOK'  BY <2>1, <2>2, LimitsAssumption DEF DirInv, DirTypeOK, Mid
  <2>4. NoGhostUsers' /\ GroupsDense' /\ UnusedGroupsEmpty'
    BY <2>1, <2>2, NoFileAssumption
    DEF DirInv, DirTypeOK, NoGhostUsers, GroupsDense, UnusedGroupsEmpty, Mid
  <2> QED  BY <2>2, <2>3, <2>4 DEF DirInv, FilesTypeOK, FilesGrow
<1>3. CASE MakeMessageDir(c)
  <2>1. /\ job[c].gid \in Gid /\ job[c].gid \in groupDir /\ job[c].gid <= nGroups
        /\ mid[c] \in Mid
    BY <1>3, Place DEF MakeMessageDir, Filing
  <2>2. /\ msgDir' = [msgDir EXCEPT ![job[c].gid] = @ \cup {mid[c]}]
        /\ UNCHANGED <<userDir, password, login, nGroups, groupDir, groupName, member,
                       numMsg, authorFile, textFile, nameFile, dataFile>>
    BY <1>3 DEF MakeMessageDir, userVars, groupVars, files
  <2>3. DirTypeOK'  BY <2>1, <2>2 DEF DirInv, DirTypeOK
  <2>4. NoGhostUsers' /\ GroupsDense' /\ UnusedGroupsEmpty'
    BY <2>1, <2>2, NoFileAssumption
    DEF DirInv, DirTypeOK, NoGhostUsers, GroupsDense, UnusedGroupsEmpty, Mid
  <2> QED  BY <2>1, <2>2, <2>3, <2>4 DEF DirInv, DirTypeOK, FilesTypeOK, FilesGrow
<1>4. CASE CreateAuthor(c) \/ CreateText(c) \/ CreateName(c) \/ OpenData(c) \/ ReceiveBlock(c)
  <2>1. /\ job[c].gid \in Gid /\ mid[c] \in Mid /\ job[c].uid \in Uid /\ job[c].text \in Text
    BY <1>4, Place DEF CreateAuthor, CreateText, CreateName, OpenData, ReceiveBlock, Filing
  <2>2. UNCHANGED dirVars
    BY <1>4 DEF CreateAuthor, CreateText, CreateName, OpenData, ReceiveBlock
  <2>3. DirInv' /\ msgDir' = msgDir
    BY <2>2 DEF DirInv, DirTypeOK, NoGhostUsers, GroupsDense, UnusedGroupsEmpty,
                dirVars, userVars, groupVars
  <2>4. FilesTypeOK' /\ FilesGrow
    <3>1. CASE CreateAuthor(c)
      <4>1. PICK v \in Uid \cup {Empty} :
              authorFile' = [authorFile EXCEPT ![job[c].gid][mid[c]] = v]
        BY <3>1, <2>1 DEF CreateAuthor
      <4>2. UNCHANGED <<textFile, nameFile, dataFile>>  BY <3>1 DEF CreateAuthor
      <4>3. authorFile \in [Gid -> [Mid -> Uid \cup {Empty, NoFile}]]  BY DEF FilesTypeOK
      <4> HIDE DEF MsgInv
      <4>4. v # NoFile /\ v \in Uid \cup {Empty, NoFile}  OBVIOUS
      <4>5. /\ authorFile' \in [Gid -> [Mid -> Uid \cup {Empty, NoFile}]]
            /\ authorFile'[job[c].gid][mid[c]] = v
            /\ \A g \in Gid, m \in Mid :
                 g # job[c].gid \/ m # mid[c] => authorFile'[g][m] = authorFile[g][m]
        BY <2>1, <4>1, <4>3, <4>4, SetFile
      <4> QED  BY <2>1, <2>3, <4>2, <4>4, <4>5 DEF MsgInv, FilesTypeOK, FilesGrow
    <3>2. CASE CreateText(c)
      <4>1. PICK v \in Text \cup {Empty} :
              textFile' = [textFile EXCEPT ![job[c].gid][mid[c]] = v]
        BY <3>2, <2>1 DEF CreateText
      <4>2. UNCHANGED <<authorFile, nameFile, dataFile>>  BY <3>2 DEF CreateText
      <4>3. textFile \in [Gid -> [Mid -> Text \cup {Empty, NoFile}]]  BY DEF FilesTypeOK
      <4> HIDE DEF MsgInv
      <4>4. v # NoFile /\ v \in Text \cup {Empty, NoFile}  OBVIOUS
      <4>5. /\ textFile' \in [Gid -> [Mid -> Text \cup {Empty, NoFile}]]
            /\ textFile'[job[c].gid][mid[c]] = v
            /\ \A g \in Gid, m \in Mid :
                 g # job[c].gid \/ m # mid[c] => textFile'[g][m] = textFile[g][m]
        BY <2>1, <4>1, <4>3, <4>4, SetFile
      <4> QED  BY <2>1, <2>3, <4>2, <4>4, <4>5 DEF MsgInv, FilesTypeOK, FilesGrow
    <3>3. CASE CreateName(c)
      <4>1. pc[c] = "fname_w" => job[c].fname \in FName  BY DEF StageOK
      <4>2. PICK v \in FName \cup {Empty} :
              nameFile' = [nameFile EXCEPT ![job[c].gid][mid[c]] = v]
        BY <3>3, <4>1 DEF CreateName
      <4>3. UNCHANGED <<authorFile, textFile, dataFile>>  BY <3>3 DEF CreateName
      <4>4. nameFile \in [Gid -> [Mid -> FName \cup {Empty, NoFile}]]  BY DEF FilesTypeOK
      <4> HIDE DEF MsgInv
      <4>5. nameFile' \in [Gid -> [Mid -> FName \cup {Empty, NoFile}]]
        BY <2>1, <4>2, <4>4, SetFile
      <4> QED  BY <2>3, <4>3, <4>5 DEF MsgInv, FilesTypeOK, FilesGrow
    <3>4. CASE OpenData(c) \/ ReceiveBlock(c)
      <4>1. job[c].fname \in FName  BY <3>4 DEF OpenData, ReceiveBlock, StageOK
      <4>2. PICK n \in 0 .. FileLen :
              dataFile' = [dataFile EXCEPT ![job[c].gid][mid[c]][job[c].fname] = n]
        <5>1. CASE OpenData(c)
          <6>1. 0 \in 0 .. FileLen  OBVIOUS
          <6> QED  BY <5>1, <6>1 DEF OpenData
        <5>2. CASE ReceiveBlock(c)
          <6>1. dataFile[job[c].gid][mid[c]][job[c].fname] \in 0 .. FileLen
            BY <5>2, <4>1, <2>1 DEF ReceiveBlock, FiledOK, FilesTypeOK
          <6>2. off[c] + 1 \in 0 .. FileLen  BY <5>2 DEF ReceiveBlock, ProcTypeOK
          <6> QED  BY <5>2, <6>1, <6>2 DEF ReceiveBlock
        <5> QED  BY <3>4, <5>1, <5>2
      <4>3. UNCHANGED <<authorFile, textFile, nameFile>>
        BY <3>4 DEF OpenData, ReceiveBlock
      <4>4. dataFile \in [Gid -> [Mid -> [FName -> (0 .. FileLen) \cup {NoFile}]]]
        BY DEF FilesTypeOK
      <4> HIDE DEF MsgInv
      <4>5. n # NoFile  BY NoFileAssumption
      <4> DEFINE old == dataFile[job[c].gid][mid[c]]
                 new == [old EXCEPT ![job[c].fname] = n]
      <4>6. new \in [FName -> (0 .. FileLen) \cup {NoFile}]  BY <2>1, <4>4
      <4>7. dataFile' = [dataFile EXCEPT ![job[c].gid][mid[c]] = new]
        BY <2>1, <4>2, <4>4
      <4>8. \A f \in FName : old[f] # NoFile => new[f] # NoFile
        BY <2>1, <4>4, <4>5
      <4> HIDE DEF new
      <4>9. /\ dataFile' \in [Gid -> [Mid -> [FName -> (0 .. FileLen) \cup {NoFile}]]]
            /\ dataFile'[job[c].gid][mid[c]] = new
            /\ \A g \in Gid, m \in Mid :
                 g # job[c].gid \/ m # mid[c] => dataFile'[g][m] = dataFile[g][m]
        BY <2>1, <4>4, <4>6, <4>7, SetFile
      <4>10. FilesGrow
        <5> SUFFICES ASSUME NEW g \in Gid, NEW m \in Mid, NEW f \in FName,
                            dataFile[g][m][f] # NoFile
                     PROVE  dataFile'[g][m][f] # NoFile
          BY <2>3, <4>3 DEF FilesGrow
        <5>1. CASE g = job[c].gid /\ m = mid[c]
          <6>1. dataFile'[g][m] = new  BY <4>9, <5>1
          <6> QED  BY <4>8, <5>1, <6>1
        <5>2. CASE g # job[c].gid \/ m # mid[c]
          <6>1. dataFile'[g][m] = dataFile[g][m]  BY <4>9, <5>2
          <6> QED  BY <6>1
        <5> QED  BY <5>1, <5>2
      <4> QED  BY <4>3, <4>9, <4>10 DEF MsgInv, FilesTypeOK
    <3> QED  BY <1>4, <3>1, <3>2, <3>3, <3>4
  <2> QED  BY <2>3, <2>4
<1> QED  BY <1>1, <1>2, <1>3, <1>4, QuietOrWriting

-----------------------------------------------------------------------------
(* Types of the process state. *)

(* A child that ends leaves a well-typed, empty slot. *)
LEMMA ExitType ==
    ASSUME ProcTypeOK, NEW c \in Child, Exit(c), acked' \in [Gid -> SUBSET Mid]
    PROVE  ProcTypeOK'
<1>1. NoBuf \in Buffer  BY DEF NoBuf, Buffer
<1>2. /\ 0 \in 0 .. MaxGroups /\ 0 \in 0 .. MaxMsg /\ 0 \in 0 .. FileLen
      /\ {} \in SUBSET Mid /\ "idle" \in Stages
  BY LimitsAssumption DEF Stages
<1> QED  BY <1>1, <1>2 DEF Exit, Goto, ProcTypeOK

(* A child that goes on moves to a stage and sets its variables to values of  *)
(* their types.                                                               *)
LEMMA GoOnType ==
    ASSUME ProcTypeOK, NEW c \in Child, NEW stage \in Stages, pc[c] # "idle",
           Goto(c, stage), UNCHANGED <<job, snap, known, acked>>,
           mid' \in [Child -> 0 .. MaxMsg], last' \in [Child -> 0 .. MaxMsg],
           off' \in [Child -> 0 .. FileLen], buf' \in [Child -> Buffer]
    PROVE  ProcTypeOK'
BY DEF ProcTypeOK, Goto

(* Whatever getNumMsg takes the count for, a retrieve gets the message it     *)
(* asked for first and no message behind the last one the model has.          *)
LEMMA ToSend ==
    ASSUME MsgInv, NEW c \in Child, CountToSend(c), ~Exit(c)
    PROVE  /\ job[c] \in RetrieveJob
           /\ \E to : /\ to \in Mid /\ job[c].first \in Mid /\ job[c].first <= to
                      /\ mid' = [mid EXCEPT ![c] = job[c].first]
                      /\ last' = [last EXCEPT ![c] = to]
<1>1. pc[c] = "count" /\ job[c].op = "RTV"  BY DEF CountToSend
<1>2. job[c] \in RetrieveJob /\ job[c].gid \in groupDir
  BY <1>1 DEF MsgInv, ProcTypeOK, StageOK, PostJob, RetrieveJob
<1>3. job[c].first \in Mid /\ numMsg[job[c].gid] \in 0 .. MaxMsg
  BY <1>2 DEF MsgInv, DirInv, DirTypeOK, GroupsDense, RetrieveJob
<1>4. PICK total \in Atoi(numMsg[job[c].gid]) :
         /\ NumToSend(total, job[c].first) > 0
         /\ mid' = [mid EXCEPT ![c] = job[c].first]
         /\ last' = [last EXCEPT ![c] =
                        Lesser(job[c].first + NumToSend(total, job[c].first) - 1, MaxMsg)]
  BY DEF CountToSend
<1>5. total \in Nat  BY <1>3, <1>4, LimitsAssumption DEF Atoi
<1> DEFINE n == NumToSend(total, job[c].first)
           to == Lesser(job[c].first + n - 1, MaxMsg)
<1>6. n \in Int  BY <1>3, <1>5, LimitsAssumption DEF NumToSend, Mid
<1>7. n > 0 /\ last' = [last EXCEPT ![c] = to]  BY <1>4
<1>8. to \in Mid /\ job[c].first <= to
  <2> HIDE DEF n
  <2> QED  BY <1>3, <1>6, <1>7, LimitsAssumption DEF Lesser, Mid
<1> HIDE DEF n, to
<1> QED  BY <1>2, <1>3, <1>4, <1>7, <1>8

(* The steps of a child keep the types of the process state. *)
LEMMA ProcTypeStep ==
    ASSUME MsgInv, NEW c \in Child, TcpStep(c)
    PROVE  ProcTypeOK'
<1>0. ProcTypeOK /\ FilesTypeOK /\ DirTypeOK /\ StageOK(c)
  BY DEF MsgInv, DirInv
<1>1. CASE \E j \in PostJob \cup RetrieveJob : Accept(c, j)
  <2>1. PICK j \in PostJob \cup RetrieveJob : Accept(c, j)  BY <1>1
  <2>2. parseGID(j.gid) => Settled(j.gid) \subseteq Mid
    BY <1>0, LimitsAssumption DEF parseGID, Settled, Counted, DirTypeOK, Mid
  <2>3. "login" \in Stages  BY DEF Stages, Admitting
  <2>4. nGroups \in 0 .. MaxGroups  BY <1>0 DEF DirTypeOK
  <2> QED  BY <1>0, <2>1, <2>2, <2>3, <2>4 DEF Accept, Goto, ProcTypeOK
<1>2. CASE Exit(c) /\ UNCHANGED acked  BY <1>0, <1>2, ExitType DEF ProcTypeOK
<1>3. CASE CheckLogin(c) \/ CheckMember(c)
  <2>1. "member" \in Stages /\ "count" \in Stages  BY DEF Stages, Admitting
  <2> QED
    BY <1>0, <1>2, <1>3, <2>1, GoOnType DEF CheckLogin, CheckMember, ProcTypeOK
<1>4. CASE ReadCounter(c)
  <2>1. job[c].gid \in Gid /\ numMsg[job[c].gid] \in 0 .. MaxMsg
    <3>1. job[c].gid \in groupDir  BY <1>0, <1>4 DEF ReadCounter, StageOK
    <3> QED  BY <3>1 DEF MsgInv, DirInv, DirTypeOK, GroupsDense
  <2>2. numMsg[job[c].gid] + 1 \in 0 .. MaxMsg
    BY <1>4, <2>1, LimitsAssumption DEF ReadCounter
  <2>3. mid' \in [Child -> 0 .. MaxMsg]  BY <1>0, <1>4, <2>2 DEF ReadCounter, ProcTypeOK
  <2>4. "bump" \in Stages  BY DEF Stages
  <2> QED  BY <1>0, <1>4, <2>3, <2>4, GoOnType DEF ReadCounter, ProcTypeOK
<1>5. CASE WriteCounter(c) \/ MakeMessageDir(c) \/ CreateAuthor(c) \/ CreateText(c)
           \/ CreateName(c) \/ OpenData(c) \/ UploadDone(c)
  <2>1. \A stage \in Filing \cup {"ack"} : stage \in Stages  BY DEF Stages
  <2>2. PICK stage \in Filing \cup {"ack"} : Goto(c, stage)
    BY <1>5 DEF WriteCounter, MakeMessageDir, CreateAuthor, CreateText, CreateName,
                OpenData, UploadDone, Filing
  <2>3. pc[c] # "idle" /\ UNCHANGED <<job, snap, known, acked, mid, last, off, buf>>
    BY <1>5 DEF WriteCounter, MakeMessageDir, CreateAuthor, CreateText, CreateName,
                OpenData, UploadDone
  <2> QED  BY <1>0, <2>1, <2>2, <2>3, GoOnType DEF ProcTypeOK
<1>6. CASE ReceiveBlock(c)
  BY <1>0, <1>6 DEF ReceiveBlock, ProcTypeOK
<1>7. CASE UploadCut(c) \/ HangUp(c)
  BY <1>2, <1>7 DEF UploadCut, HangUp
<1>8. CASE Acknowledge(c)
  <2>1. job[c].gid \in groupDir /\ mid[c] \in Mid  BY <1>0, <1>8 DEF Acknowledge, StageOK
  <2>2. job[c].gid \in Gid  BY <1>0, <2>1 DEF DirTypeOK
  <2>3. acked' \in [Gid -> SUBSET Mid]
    BY <1>0, <1>8, <2>1, <2>2 DEF Acknowledge, ProcTypeOK
  <2> QED  BY <1>0, <1>8, <2>3, ExitType DEF Acknowledge
<1>9. CASE CountToSend(c)
  <2>1. CASE Exit(c)  BY <1>2, <1>9, <2>1 DEF CountToSend
  <2>2. CASE ~Exit(c)
    <3>1. PICK to : /\ to \in Mid /\ job[c].first \in Mid
                    /\ mid' = [mid EXCEPT ![c] = job[c].first]
                    /\ last' = [last EXCEPT ![c] = to]
      BY <1>9, <2>2, ToSend
    <3>2. /\ pc[c] = "count" /\ Goto(c, "r_text")
          /\ UNCHANGED <<job, snap, off, buf, known, acked>>
      BY <1>9, <2>2 DEF CountToSend
    <3>3. "r_text" \in Stages  BY DEF Stages, Reading
    <3>4. mid' \in [Child -> 0 .. MaxMsg] /\ last' \in [Child -> 0 .. MaxMsg]
      <4>1. job[c].first \in 0 .. MaxMsg /\ to \in 0 .. MaxMsg
        BY <3>1, LimitsAssumption DEF Mid
      <4> QED  BY <1>0, <3>1, <4>1 DEF ProcTypeOK
    <3> QED  BY <1>0, <3>2, <3>3, <3>4, GoOnType DEF ProcTypeOK
  <2> QED  BY <2>1, <2>2
<1>10. CASE ReadText(c) \/ ReadAuthor(c) \/ ReadName(c) \/ OpenToSend(c)
  <2>1. CASE ~Exit(c)
    <3>1. job[c].gid \in Gid /\ mid[c] \in Mid
      BY <1>0, <1>10 DEF ReadText, ReadAuthor, ReadName, OpenToSend, StageOK, DirTypeOK, Reading
    <3>2. \A stage \in Reading : stage \in Stages  BY DEF Stages
    <3>3. /\ pc[c] # "idle" /\ UNCHANGED <<job, snap, mid, last, off, known, acked>>
          /\ \E stage \in Reading : Goto(c, stage)
      BY <1>10, <2>1 DEF ReadText, ReadAuthor, ReadName, OpenToSend, Reading
    <3>4. buf' \in [Child -> Buffer]
      <4>1. textFile[job[c].gid][mid[c]] \in Text \cup {Empty, NoFile}
        BY <1>0, <3>1 DEF FilesTypeOK
      <4>2. authorFile[job[c].gid][mid[c]] \in Uid \cup {Empty, NoFile}
        BY <1>0, <3>1 DEF FilesTypeOK
      <4>3. nameFile[job[c].gid][mid[c]] \in FName \cup {Empty, NoFile}
        BY <1>0, <3>1 DEF FilesTypeOK
      <4>4. CASE ReadText(c)
        <5>1. PICK v \in Text \cup {Empty, NoFile} : buf' = [buf EXCEPT ![c].text = v]
          BY <2>1, <4>1, <4>4 DEF ReadText
        <5>2. buf \in [Child -> Buffer]  BY <1>0 DEF ProcTypeOK
        <5> QED  BY <5>1, <5>2 DEF Buffer
      <4>5. CASE ReadAuthor(c)
        <5>1. PICK v \in Uid \cup {Empty, NoFile} : buf' = [buf EXCEPT ![c].author = v]
          BY <2>1, <4>2, <4>5 DEF ReadAuthor
        <5>2. buf \in [Child -> Buffer]  BY <1>0 DEF ProcTypeOK
        <5> QED  BY <5>1, <5>2 DEF Buffer
      <4>6. CASE ReadName(c)
        BY <1>0, <2>1, <4>3, <4>6 DEF ReadName, ProcTypeOK, Buffer
      <4>7. CASE OpenToSend(c)
        <5>1. PICK size \in 0 .. Huge : buf' = [buf EXCEPT ![c].size = size]
          <6>1. Huge \in 0 .. Huge /\ \A k \in 0 .. FileLen : k \in 0 .. Huge
            BY DEF Huge
          <6>2. buf[c].fname # Empty =>
                  dataFile[job[c].gid][mid[c]][buf[c].fname] \in (0 .. FileLen) \cup {NoFile}
            BY <1>0, <3>1, <4>7 DEF OpenToSend, StageOK, FilesTypeOK
          <6> QED  BY <2>1, <4>7, <6>1, <6>2 DEF OpenToSend
        <5>2. buf \in [Child -> Buffer]  BY <1>0 DEF ProcTypeOK
        <5> QED  BY <5>1, <5>2 DEF Buffer
      <4> QED  BY <1>10, <4>4, <4>5, <4>6, <4>7
    <3> QED  BY <1>0, <3>2, <3>3, <3>4, GoOnType DEF ProcTypeOK
  <2>2. CASE Exit(c)
    BY <1>2, <1>10, <2>2 DEF ReadText, ReadAuthor, ReadName, OpenToSend
  <2> QED  BY <2>1, <2>2
<1>11. CASE SendBlock(c)
  <2>1. off' \in [Child -> 0 .. FileLen]
    <3>1. CASE UNCHANGED off  BY <1>0, <3>1 DEF ProcTypeOK
    <3>2. CASE MoreToSend(c) /\ off' = [off EXCEPT ![c] = @ + 1]
      <4>1. job[c].gid \in Gid /\ mid[c] \in Mid /\ buf[c].fname \in FName
        BY <1>0, <1>11, <3>2 DEF SendBlock, MoreToSend, StageOK, DirTypeOK, Reading
      <4>2. dataFile[job[c].gid][mid[c]][buf[c].fname] \in 0 .. FileLen
        BY <1>0, <1>11, <3>2, <4>1 DEF SendBlock, MoreToSend, StageOK, FilesTypeOK
      <4>3. off[c] + 1 \in 0 .. FileLen
        BY <1>0, <3>2, <4>2 DEF MoreToSend, ProcTypeOK
      <4> QED  BY <1>0, <3>2, <4>3 DEF ProcTypeOK
    <3> QED  BY <1>11, <3>1, <3>2 DEF SendBlock
  <2>2. pc' \in [Child -> Stages] /\ (pc'[c] # "idle" => pc[c] # "idle")
    <3>1. "r_done" \in Stages  BY DEF Stages, Reading
    <3> QED  BY <1>0, <1>11, <3>1 DEF SendBlock, Goto, ProcTypeOK
  <2>3. \A d \in Child : pc'[d] # "idle" => job[d] \in PostJob \cup RetrieveJob
    BY <1>0, <1>11 DEF SendBlock, Goto, ProcTypeOK
  <2>4. UNCHANGED <<job, snap, mid, last, buf, known, acked>>  BY <1>11 DEF SendBlock
  <2> QED  BY <1>0, <2>1, <2>2, <2>3, <2>4 DEF ProcTypeOK
<1>12. CASE NextMessage(c)
  <2>1. CASE Exit(c)  BY <1>2, <1>12, <2>1 DEF NextMessage
  <2>2. CASE mid[c] < last[c] /\ ~Exit(c)
    <3>1. mid[c] + 1 \in 0 .. MaxMsg
      BY <1>0, <2>2, LimitsAssumption DEF ProcTypeOK
    <3>2. 0 \in 0 .. FileLen /\ NoBuf \in Buffer /\ "r_text" \in Stages
      BY DEF NoBuf, Buffer, Stages, Reading
    <3>3. /\ pc[c] # "idle" /\ Goto(c, "r_text")
          /\ mid' = [mid EXCEPT ![c] = @ + 1] /\ off' = [off EXCEPT ![c] = 0]
          /\ buf' = [buf EXCEPT ![c] = NoBuf] /\ UNCHANGED <<job, snap, last, known, acked>>
      BY <1>12, <2>2 DEF NextMessage
    <3>4. /\ mid' \in [Child -> 0 .. MaxMsg] /\ off' \in [Child -> 0 .. FileLen]
          /\ buf' \in [Child -> Buffer] /\ last' \in [Child -> 0 .. MaxMsg]
      BY <1>0, <3>1, <3>2, <3>3 DEF ProcTypeOK
    <3> QED  BY <1>0, <3>2, <3>3, <3>4, GoOnType
  <2> QED  BY <1>12, <2>1, <2>2 DEF NextMessage
<1> QED
  BY <1>1, <1>3, <1>4, <1>5, <1>6, <1>7, <1>8, <1>9, <1>10, <1>11, <1>12
  DEF TcpStep, Work, Post, Retrieve

-----------------------------------------------------------------------------
(* What a stage says holds when the child reaches it, and later. *)

(* Users and groups are changed by UDP commands only. *)
LEMMA DirectoryUntouched ==
    ASSUME NEW c \in Child, TcpStep(c)
    PROVE  UNCHANGED <<userVars, groupVars>> /\ groupDir' = groupDir /\ nGroups' = nGroups
<1>1. UNCHANGED <<userVars, groupVars>>
  BY QuietOrWriting DEF dirVars, WriteCounter, MakeMessageDir, CreateAuthor, CreateText,
                        CreateName, OpenData, ReceiveBlock
<1> QED  BY <1>1 DEF groupVars

(* The other children stay where their stage says they are. *)
LEMMA OthersStage ==
    ASSUME MsgInv, NEW c \in Child, TcpStep(c), NEW d \in Child \ {c}
    PROVE  StageOK(d)' /\ FiledOK(d)'
<1>1. /\ pc'[d] = pc[d] /\ job'[d] = job[d] /\ snap'[d] = snap[d] /\ mid'[d] = mid[d]
      /\ last'[d] = last[d] /\ buf'[d] = buf[d]
  BY OthersUntouched DEF MsgInv, OthersSame
<1>2. groupDir' = groupDir /\ nGroups' = nGroups  BY DirectoryUntouched
<1>3. FilesGrow  BY WritingFiles
<1>4. StageOK(d) /\ FiledOK(d) /\ groupDir \subseteq Gid
  BY DEF MsgInv, DirInv, DirTypeOK
<1>5. StageOK(d)'
  <2>1. pc[d] = "r_send" => job[d].gid \in Gid /\ mid[d] \in Mid
    BY <1>4 DEF StageOK, Reading
  <2> QED  BY <1>1, <1>2, <1>3, <1>4, <2>1 DEF StageOK, FilesGrow
<1>6. FiledOK(d)'
  <2>1. pc[d] \in Filing => job[d].gid \in Gid /\ mid[d] \in Mid
    BY <1>4 DEF StageOK, Filing
  <2>2. pc[d] = "recv" => job[d].fname \in FName  BY <1>4 DEF StageOK
  <2>3. "recv" \in Filing  BY DEF Filing
  <2> QED  BY <1>1, <1>3, <1>4, <2>1, <2>2, <2>3 DEF FiledOK, FilesGrow
<1> QED  BY <1>5, <1>6

(* A child that ends has nothing left to be right about. *)
LEMMA ExitStage ==
    ASSUME MsgInv, NEW c \in Child, TcpStep(c), Exit(c)
    PROVE  StageOK(c)' /\ FiledOK(c)'
<1>1. pc'[c] = "idle" /\ snap'[c] = 0  BY DEF Exit, Goto, MsgInv, ProcTypeOK
<1>2. nGroups' \in Nat  BY DirectoryUntouched DEF MsgInv, DirInv, DirTypeOK
<1> QED  BY <1>1, <1>2 DEF StageOK, FiledOK, Filing, Reading

(* A post, one stage after the other. *)
LEMMA PostStage ==
    ASSUME MsgInv, NEW c \in Child, TcpStep(c), Post(c), ~Exit(c)
    PROVE  StageOK(c)' /\ FiledOK(c)'
<1>0. /\ StageOK(c) /\ FiledOK(c) /\ ProcTypeOK /\ FilesTypeOK /\ DirTypeOK
      /\ groupDir' = groupDir /\ nGroups' = nGroups /\ FilesGrow
  BY DirectoryUntouched, WritingFiles DEF MsgInv, DirInv
<1>1. CASE ReadCounter(c)
  <2>1. /\ pc[c] = "count" /\ job[c].op = "PST" /\ numMsg[job[c].gid] < MaxMsg
        /\ pc'[c] = "bump" /\ mid'[c] = numMsg[job[c].gid] + 1
        /\ UNCHANGED <<job, snap>>
    BY <1>0, <1>1 DEF ReadCounter, Goto, ProcTypeOK
  <2>2. job[c] \in PostJob  BY <1>0, <2>1 DEF ProcTypeOK, PostJob, RetrieveJob
  <2>3. job[c].gid \in groupDir /\ job[c].uid \in Uid  BY <1>0, <2>1 DEF StageOK
  <2>4. numMsg[job[c].gid] \in 0 .. MaxMsg
    BY <2>3 DEF MsgInv, DirInv, DirTypeOK, GroupsDense
  <2>5. mid'[c] \in Mid  BY <2>1, <2>4, LimitsAssumption DEF Mid
  <2>6. StageOK(c)'  BY <1>0, <2>1, <2>2, <2>3, <2>5 DEF StageOK, Filing, Reading
  <2> QED  BY <2>1, <2>6 DEF FiledOK, Filing
<1>2. CASE ~ReadCounter(c)
  <2>1. pc[c] \in {"bump"} \cup Filing
    BY <1>2 DEF Post, WriteCounter, MakeMessageDir, CreateAuthor, CreateText, CreateName,
                OpenData, ReceiveBlock, UploadDone, Acknowledge, Filing
  <2>2. /\ job[c] \in PostJob /\ job[c].gid \in Gid /\ job[c].gid \in groupDir
        /\ mid[c] \in Mid /\ job[c].uid \in Uid /\ job[c].text \in Text
    BY <2>1, Place
  <2>3. job'[c] = job[c] /\ mid'[c] = mid[c] /\ snap'[c] = snap[c]
    BY <1>2 DEF Post, WriteCounter, MakeMessageDir, CreateAuthor, CreateText, CreateName,
                OpenData, ReceiveBlock, UploadDone, Acknowledge
  <2>4. pc'[c] \in Filing \cup {"ack"}
    BY <1>0, <1>2 DEF Post, WriteCounter, MakeMessageDir, CreateAuthor, CreateText,
       CreateName, OpenData, ReceiveBlock, UploadDone, Acknowledge, Filing, Goto, ProcTypeOK
  <2>5. pc'[c] \in {"fname", "fname_w", "data", "recv"} => job[c].fname \in FName
    <3>1. job[c].fname # NoFile => job[c].fname \in FName  BY <2>2 DEF PostJob
    <3> QED
      BY <1>0, <1>2, <3>1 DEF Post, WriteCounter, MakeMessageDir, CreateAuthor, CreateText,
         CreateName, OpenData, ReceiveBlock, UploadDone, Acknowledge, Goto, ProcTypeOK, StageOK
  <2>6. StageOK(c)'
    <3>1. snap'[c] <= nGroups'  BY <1>0, <2>3 DEF StageOK
    <3>2. pc'[c] \notin Reading /\ pc'[c] # "r_open" /\ pc'[c] # "r_send"
      BY <2>4 DEF Filing, Reading
    <3> QED  BY <1>0, <2>2, <2>3, <2>5, <3>1, <3>2 DEF StageOK
  <2>7. /\ pc'[c] \in Filing \ {"mkdir"} => mid[c] \in msgDir'[job[c].gid]
        /\ pc'[c] \in Filing \ {"mkdir", "author"} => authorFile'[job[c].gid][mid[c]] # NoFile
        /\ pc'[c] \in Filing \ {"mkdir", "author", "author_w", "text"} =>
              textFile'[job[c].gid][mid[c]] # NoFile
        /\ pc'[c] = "recv" => dataFile'[job[c].gid][mid[c]][job[c].fname] # NoFile
    <3>1. CASE WriteCounter(c)
      BY <1>0, <3>1 DEF WriteCounter, Goto, ProcTypeOK, Filing
    <3>2. CASE MakeMessageDir(c)
      <4>1. pc'[c] = "author" /\ mid[c] \in msgDir'[job[c].gid]
        BY <1>0, <2>2, <3>2 DEF MakeMessageDir, Goto, ProcTypeOK, DirTypeOK
      <4> QED  BY <4>1 DEF Filing
    <3>3. CASE CreateAuthor(c)
      <4>1. authorFile'[job[c].gid][mid[c]] \in {Empty, job[c].uid}
        BY <1>0, <2>2, <3>3 DEF CreateAuthor, FilesTypeOK
      <4>2. pc[c] \in {"author", "author_w"} /\ pc'[c] \in {"author_w", "text"}
        BY <1>0, <3>3 DEF CreateAuthor, Goto, ProcTypeOK
      <4>3. mid[c] \in msgDir'[job[c].gid]
        BY <1>0, <2>2, <4>2 DEF FiledOK, Filing, FilesGrow
      <4> QED  BY <2>2, <4>1, <4>2, <4>3
    <3>4. CASE CreateText(c)
      <4>1. textFile'[job[c].gid][mid[c]] \in {Empty, job[c].text}
        BY <1>0, <2>2, <3>4 DEF CreateText, FilesTypeOK
      <4>2. pc[c] \in {"text", "text_w"} /\ pc'[c] \in {"text_w", "fname", "ack"}
        BY <1>0, <3>4 DEF CreateText, Goto, ProcTypeOK
      <4>3. mid[c] \in msgDir'[job[c].gid] /\ authorFile'[job[c].gid][mid[c]] # NoFile
        BY <1>0, <2>2, <4>2 DEF FiledOK, Filing, FilesGrow
      <4> QED  BY <2>2, <4>1, <4>2, <4>3
    <3>5. CASE CreateName(c) \/ OpenData(c) \/ ReceiveBlock(c) \/ UploadDone(c)
      <4>1. pc[c] \in {"fname", "fname_w", "data", "recv"}
        BY <3>5 DEF CreateName, OpenData, ReceiveBlock, UploadDone
      <4>2. /\ mid[c] \in msgDir'[job[c].gid] /\ authorFile'[job[c].gid][mid[c]] # NoFile
            /\ textFile'[job[c].gid][mid[c]] # NoFile
        BY <1>0, <2>2, <4>1 DEF FiledOK, Filing, FilesGrow
      <4>3. pc'[c] = "recv" => dataFile'[job[c].gid][mid[c]][job[c].fname] # NoFile
        <5>1. CASE OpenData(c)
          <6>1. job[c].fname \in FName  BY <1>0, <5>1 DEF OpenData, StageOK
          <6>2. dataFile'[job[c].gid][mid[c]][job[c].fname] = 0
            BY <1>0, <2>2, <5>1, <6>1 DEF OpenData, FilesTypeOK
          <6> QED  BY <6>2, NoFileAssumption
        <5>2. CASE CreateName(c) \/ UploadDone(c)
          BY <1>0, <5>2 DEF CreateName, UploadDone, Goto, ProcTypeOK
        <5>3. CASE ReceiveBlock(c)
          <6>1. pc[c] = "recv" /\ job[c].fname \in FName
            BY <1>0, <5>3 DEF ReceiveBlock, StageOK
          <6> QED  BY <1>0, <2>2, <6>1 DEF FiledOK, FilesGrow
        <5> QED  BY <3>5, <5>1, <5>2, <5>3
      <4> QED  BY <4>2, <4>3
    <3> QED
      BY <1>2, <3>1, <3>2, <3>3, <3>4, <3>5 DEF Post, Acknowledge
  <2> QED  BY <2>3, <2>6, <2>7 DEF FiledOK
<1> QED  BY <1>1, <1>2

(* A child from the fork to the two checks. *)
LEMMA AdmitStage ==
    ASSUME MsgInv, NEW c \in Child, TcpStep(c), ~Exit(c),
           \/ \E j \in PostJob \cup RetrieveJob : Accept(c, j)
           \/ CheckLogin(c) \/ CheckMember(c)
    PROVE  StageOK(c)' /\ FiledOK(c)'
<1>0. /\ StageOK(c) /\ ProcTypeOK /\ GroupsDense /\ DirTypeOK
      /\ groupDir' = groupDir /\ nGroups' = nGroups
  BY DirectoryUntouched DEF MsgInv, DirInv
<1>1. CASE \E j \in PostJob \cup RetrieveJob : Accept(c, j)
  <2>1. pc'[c] = "login" /\ snap'[c] = nGroups
    BY <1>0, <1>1 DEF Accept, Goto, ProcTypeOK
  <2>2. nGroups <= nGroups  BY <1>0 DEF DirTypeOK
  <2> QED  BY <1>0, <2>1, <2>2 DEF StageOK, FiledOK, Filing, Reading
<1>2. CASE CheckLogin(c)
  <2>1. /\ pc'[c] = "member" /\ UNCHANGED <<job, snap>>
        /\ job[c].uid \in Uid /\ job[c].gid \in Gid /\ job[c].gid <= snap[c]
    BY <1>0, <1>2 DEF CheckLogin, Goto, ProcTypeOK, parseUID, parseGID
  <2>2. snap[c] <= nGroups /\ snap[c] \in Nat /\ nGroups \in Nat
    BY <1>0 DEF StageOK, ProcTypeOK, DirTypeOK
  <2>3. job[c].gid \in groupDir
    BY <1>0, <2>1, <2>2 DEF GroupsDense, Gid
  <2> QED  BY <1>0, <2>1, <2>2, <2>3 DEF StageOK, FiledOK, Filing, Reading
<1>3. CASE CheckMember(c)
  <2>1. pc[c] = "member" /\ pc'[c] = "count" /\ UNCHANGED <<job, snap>>
    BY <1>0, <1>3 DEF CheckMember, Goto, ProcTypeOK
  <2> QED  BY <1>0, <2>1 DEF StageOK, FiledOK, Filing, Reading
<1> QED  BY <1>1, <1>2, <1>3

(* A retrieve, one stage after the other. *)
LEMMA RetrieveStage ==
    ASSUME MsgInv, NEW c \in Child, TcpStep(c), Retrieve(c), ~Exit(c)
    PROVE  StageOK(c)' /\ FiledOK(c)'
<1>0. /\ StageOK(c) /\ ProcTypeOK /\ FilesTypeOK /\ DirTypeOK
      /\ groupDir' = groupDir /\ nGroups' = nGroups /\ ProcTypeOK'
  BY DirectoryUntouched, ProcTypeStep DEF MsgInv, DirInv
<1>1. /\ UNCHANGED <<job, snap, dirVars, files>>
      /\ pc[c] \in {"count"} \cup Reading /\ pc'[c] \in Reading
  BY <1>0 DEF Retrieve, CountToSend, ReadText, ReadAuthor, ReadName, OpenToSend, SendBlock,
       NextMessage, Goto, ProcTypeOK, Reading
<1>2. job[c].uid \in Uid /\ job[c].gid \in groupDir  BY <1>0, <1>1 DEF StageOK, Reading
<1>3. job[c] \in RetrieveJob /\ mid'[c] \in Mid /\ last'[c] \in Mid /\ mid'[c] <= last'[c]
  <2>1. CASE CountToSend(c)
    <3>1. PICK to : /\ to \in Mid /\ job[c].first \in Mid /\ job[c].first <= to
                    /\ job[c] \in RetrieveJob
                    /\ mid' = [mid EXCEPT ![c] = job[c].first]
                    /\ last' = [last EXCEPT ![c] = to]
      BY <2>1, ToSend
    <3>2. mid'[c] = job[c].first /\ last'[c] = to  BY <1>0, <3>1 DEF ProcTypeOK
    <3> QED  BY <3>1, <3>2
  <2>2. CASE ~CountToSend(c)
    <3>1. pc[c] \in Reading
      BY <2>2 DEF Retrieve, ReadText, ReadAuthor, ReadName, OpenToSend, SendBlock,
                  NextMessage, Reading
    <3>2. job[c] \in RetrieveJob /\ mid[c] \in Mid /\ last[c] \in Mid /\ mid[c] <= last[c]
      BY <1>0, <3>1 DEF StageOK
    <3>3. last'[c] = last[c]
      BY <2>2 DEF Retrieve, ReadText, ReadAuthor, ReadName, OpenToSend, SendBlock, NextMessage
    <3>4. CASE mid'[c] = mid[c]  BY <3>2, <3>3, <3>4
    <3>5. CASE mid[c] < last[c] /\ mid'[c] = mid[c] + 1
      BY <3>2, <3>3, <3>5, LimitsAssumption DEF Mid
    <3> QED
      BY <1>0, <2>2, <3>4, <3>5 DEF Retrieve, ReadText, ReadAuthor, ReadName, OpenToSend,
         SendBlock, NextMessage, ProcTypeOK
  <2> QED  BY <2>1, <2>2
<1>4. /\ pc'[c] \in {"r_open", "r_send"} => buf'[c].fname \in FName \cup {Empty}
      /\ pc'[c] = "r_send" /\ buf'[c].fname # Empty =>
            dataFile'[job[c].gid][mid'[c]][buf'[c].fname] # NoFile
  <2>1. CASE ReadName(c)
    <3>1. /\ buf' = [buf EXCEPT ![c].fname = nameFile[job[c].gid][mid[c]]]
          /\ pc'[c] = IF nameFile[job[c].gid][mid[c]] = NoFile THEN "r_done" ELSE "r_open"
      BY <1>0, <2>1 DEF ReadName, Goto, ProcTypeOK
    <3>2. nameFile[job[c].gid][mid[c]] \in FName \cup {Empty, NoFile}
      <4>1. job[c].gid \in Gid /\ mid[c] \in Mid
        BY <1>0, <1>2, <2>1 DEF ReadName, StageOK, DirTypeOK, Reading
      <4> QED  BY <1>0, <4>1 DEF FilesTypeOK
    <3>3. buf'[c].fname = nameFile[job[c].gid][mid[c]]
      BY <1>0, <3>1 DEF ProcTypeOK, Buffer
    <3> QED  BY <3>1, <3>2, <3>3
  <2>2. CASE OpenToSend(c)
    <3> DEFINE f == buf[c].fname
               size == IF f = Empty THEN Huge ELSE dataFile[job[c].gid][mid[c]][f]
    <3>1. /\ pc[c] = "r_open" /\ size # NoFile /\ mid' = mid /\ UNCHANGED files
          /\ buf' = [buf EXCEPT ![c].size = size]
      BY <2>2 DEF OpenToSend
    <3>2. f \in FName \cup {Empty}  BY <1>0, <3>1 DEF StageOK
    <3>3. buf'[c].fname = f
      <4> HIDE DEF size
      <4> QED  BY <1>0, <3>1 DEF ProcTypeOK, Buffer
    <3> QED  BY <3>1, <3>2, <3>3 DEF files
  <2>3. CASE SendBlock(c)
    BY <1>0, <2>3 DEF SendBlock, StageOK, files
  <2>4. CASE CountToSend(c) \/ ReadText(c) \/ ReadAuthor(c) \/ NextMessage(c)
    BY <1>0, <2>4 DEF CountToSend, ReadText, ReadAuthor, NextMessage, Goto, ProcTypeOK
  <2> QED  BY <2>1, <2>2, <2>3, <2>4 DEF Retrieve
<1>5. snap'[c] <= nGroups'  BY <1>0, <1>1 DEF StageOK
<1>6. pc'[c] \notin {"idle", "login", "bump", "ack", "fname", "fname_w", "data", "recv"}
      /\ pc'[c] \notin Filing
  BY <1>1 DEF Reading, Filing
<1>7. StageOK(c)'  BY <1>0, <1>1, <1>2, <1>3, <1>4, <1>5, <1>6 DEF StageOK
<1>8. FiledOK(c)'  BY <1>6 DEF FiledOK
<1> QED  BY <1>7, <1>8

(* Every child is right about its stage after a step of any child. *)
LEMMA StageStep ==
    ASSUME MsgInv, NEW c \in Child, TcpStep(c), NEW d \in Child
    PROVE  StageOK(d)' /\ FiledOK(d)'
<1>1. CASE d # c  BY <1>1, OthersStage
<1>2. CASE d = c
  <2>1. UploadCut(c) \/ HangUp(c) => Exit(c)  BY DEF UploadCut, HangUp
  <2> QED  BY <1>2, <2>1, ExitStage, AdmitStage, PostStage, RetrieveStage DEF TcpStep, Work
<1> QED  BY <1>1, <1>2

-----------------------------------------------------------------------------
(* Once covered, a message stays covered. *)

(* A file that is named and missing stays the business of a post that is      *)
(* about to create it.                                                        *)
LEMMA NamedStep ==
    ASSUME MsgInv, NEW c \in Child, TcpStep(c)
    PROVE  NamedOK'
<1> SUFFICES ASSUME NEW g \in Gid, NEW m \in Mid, nameFile'[g][m] \in FName,
                    dataFile'[g][m][nameFile'[g][m]] = NoFile
             PROVE  \E d \in Child : /\ pc'[d] = "data" /\ job'[d].gid = g /\ mid'[d] = m
                                     /\ job'[d].fname = nameFile'[g][m]
  BY DEF NamedOK
<1>0. FilesGrow /\ FilesTypeOK /\ ProcTypeOK /\ NamedOK /\ OthersSame(c)
  BY WritingFiles, OthersUntouched DEF MsgInv
<1>1. CASE CreateName(c) /\ job[c].gid = g /\ mid[c] = m
  <2>1. nameFile'[g][m] = IF pc[c] = "fname" THEN Empty ELSE job[c].fname
    BY <1>0, <1>1 DEF CreateName, FilesTypeOK
  <2>2. pc[c] = "fname_w" /\ nameFile'[g][m] = job[c].fname
    BY <1>1, <2>1 DEF CreateName
  <2>3. pc'[c] = "data" /\ UNCHANGED <<job, mid>>
    BY <1>0, <1>1, <2>2 DEF CreateName, Goto, ProcTypeOK
  <2> QED  BY <1>1, <2>2, <2>3
<1>2. CASE nameFile'[g][m] = nameFile[g][m]
  <2>1. dataFile[g][m][nameFile[g][m]] = NoFile  BY <1>0, <1>2 DEF FilesGrow
  <2>2. PICK d \in Child : /\ pc[d] = "data" /\ job[d].gid = g /\ mid[d] = m
                           /\ job[d].fname = nameFile[g][m]
    BY <1>0, <1>2, <2>1 DEF NamedOK
  <2>3. CASE d # c  BY <1>0, <1>2, <2>2, <2>3 DEF OthersSame
  <2>4. CASE d = c
    <3>1. OpenData(c)
      BY <2>2, <2>4 DEF TcpStep, Work, Post, Retrieve, Accept, CheckLogin, CheckMember,
         ReadCounter, WriteCounter, MakeMessageDir, CreateAuthor, CreateText, CreateName,
         ReceiveBlock, UploadDone, UploadCut, Acknowledge, CountToSend, ReadText, ReadAuthor,
         ReadName, OpenToSend, SendBlock, NextMessage, HangUp
    <3>2. dataFile'[g][m][job[c].fname] = 0
      BY <1>0, <1>2, <2>2, <2>4, <3>1 DEF OpenData, FilesTypeOK
    <3> QED  BY <1>2, <2>2, <2>4, <3>2, NoFileAssumption
  <2> QED  BY <2>3, <2>4
<1>3. ~(CreateName(c) /\ job[c].gid = g /\ mid[c] = m) => nameFile'[g][m] = nameFile[g][m]
  <2>1. CASE UNCHANGED nameFile  BY <2>1
  <2>2. CASE CreateName(c)
    <3>1. job[c].gid \in Gid /\ mid[c] \in Mid  BY <2>2, Place DEF CreateName, Filing
    <3>2. pc[c] = "fname_w" => job[c].fname \in FName  BY DEF MsgInv, StageOK
    <3>3. PICK v \in FName \cup {Empty, NoFile} :
            nameFile' = [nameFile EXCEPT ![job[c].gid][mid[c]] = v]
      BY <2>2, <3>2 DEF CreateName
    <3>4. nameFile \in [Gid -> [Mid -> FName \cup {Empty, NoFile}]]  BY <1>0 DEF FilesTypeOK
    <3>5. \A k \in Gid, n \in Mid :
            k # job[c].gid \/ n # mid[c] => nameFile'[k][n] = nameFile[k][n]
      BY <3>1, <3>3, <3>4, SetFile
    <3> QED  BY <2>2, <3>5
  <2> QED
    BY <2>1, <2>2, QuietOrWriting DEF files, WriteCounter, MakeMessageDir, CreateAuthor,
       CreateText, OpenData, ReceiveBlock
<1> QED  BY <1>1, <1>2, <1>3

(* A message whose directory, author and text exist is covered: what it may   *)
(* lack is the named file, and then a post is about to create that.           *)
LEMMA PresentIsCovered ==
    ASSUME NamedOK', \A d \in Child : StageOK(d)', NEW g \in Gid, NEW m \in Mid,
           m \in msgDir'[g], authorFile'[g][m] # NoFile, textFile'[g][m] # NoFile
    PROVE  Covered(g, m)'
<1>1. CASE nameFile'[g][m] \in FName => dataFile'[g][m][nameFile'[g][m]] # NoFile
  BY <1>1 DEF Covered, Readable
<1>2. CASE nameFile'[g][m] \in FName /\ dataFile'[g][m][nameFile'[g][m]] = NoFile
  <2>1. PICK d \in Child : pc'[d] = "data" /\ job'[d].gid = g /\ mid'[d] = m
    BY <1>2 DEF NamedOK
  <2>2. pc'[d] \in Filing  BY <2>1 DEF Filing
  <2>3. job'[d].op = "PST"  BY <2>2 DEF StageOK, PostJob
  <2> QED  BY <2>1, <2>2, <2>3 DEF Covered, InFlight, Posters, Posting
<1> QED  BY <1>1, <1>2

(* No step of a child uncovers a message. *)
LEMMA CoveredStable ==
    ASSUME MsgInv, NEW c \in Child, TcpStep(c), NEW g \in Gid, NEW m \in Mid, Covered(g, m)
    PROVE  Covered(g, m)'
<1>0. /\ FilesGrow /\ FilesTypeOK /\ ProcTypeOK /\ OthersSame(c)
      /\ NamedOK' /\ \A d \in Child : StageOK(d)'
  BY WritingFiles, OthersUntouched, NamedStep, StageStep DEF MsgInv
<1>1. CASE Readable(g, m)
  <2>1. m \in msgDir'[g] /\ authorFile'[g][m] # NoFile /\ textFile'[g][m] # NoFile
    BY <1>0, <1>1 DEF Readable, FilesGrow
  <2> QED  BY <1>0, <2>1, PresentIsCovered
<1>2. CASE InFlight(g, m)
  <2>1. PICK d \in Child : /\ pc[d] \in Filing /\ pc[d] # "idle" /\ job[d].op = "PST"
                           /\ job[d].gid = g /\ mid[d] = m
    BY <1>2 DEF InFlight, Posters, Posting
  <2>2. CASE pc'[d] \in Filing /\ job'[d] = job[d] /\ mid'[d] = mid[d]
    <3>1. pc'[d] # "idle"  BY <2>2 DEF Filing
    <3> QED  BY <2>1, <2>2, <3>1 DEF Covered, InFlight, Posters, Posting
  <2>3. CASE ~(pc'[d] \in Filing /\ job'[d] = job[d] /\ mid'[d] = mid[d])
    <3>1. d = c  BY <1>0, <2>1, <2>3 DEF OthersSame
    <3>2. pc[c] \in {"text_w", "recv"}
      BY <1>0, <2>1, <2>3, <3>1 DEF TcpStep, Work, Post, Retrieve, Accept, CheckLogin,
         CheckMember, ReadCounter, WriteCounter, MakeMessageDir, CreateAuthor, CreateText,
         CreateName, OpenData, ReceiveBlock, UploadDone, UploadCut, Acknowledge, CountToSend,
         ReadText, ReadAuthor, ReadName, OpenToSend, SendBlock, NextMessage, HangUp, Goto,
         ProcTypeOK, Filing
    <3>3. m \in msgDir[g] /\ authorFile[g][m] # NoFile /\ textFile[g][m] # NoFile
      BY <2>1, <3>1, <3>2 DEF MsgInv, FiledOK, Filing
    <3>4. m \in msgDir'[g] /\ authorFile'[g][m] # NoFile /\ textFile'[g][m] # NoFile
      BY <1>0, <3>3 DEF FilesGrow
    <3> QED  BY <1>0, <3>4, PresentIsCovered
  <2> QED  BY <2>2, <2>3
<1> QED  BY <1>1, <1>2 DEF Covered

-----------------------------------------------------------------------------
(* Counts, and what was concluded from them. *)

(* The mids up to a count are those before the last one and the last one.     *)
LEMMA CountStep ==
    ASSUME MsgInv, NEW c \in Child, TcpStep(c)
    PROVE  CountedMessagesExist'
<1> SUFFICES ASSUME NEW g \in groupDir', NEW m \in Counted(g)'
             PROVE  Covered(g, m)'
  BY DEF CountedMessagesExist, Covered
<1>0. /\ g \in groupDir /\ g \in Gid /\ numMsg[g] \in 0 .. MaxMsg /\ numMsg[g] # NoFile
      /\ ProcTypeOK
  BY DirectoryUntouched DEF MsgInv, DirInv, DirTypeOK, GroupsDense
<1>1. CASE WriteCounter(c) /\ job[c].gid = g
  <2>1. numMsg'[g] = mid[c] /\ mid[c] \in Mid
    BY <1>0, <1>1, Place DEF WriteCounter, MsgInv, DirInv, DirTypeOK
  <2>2. m \in Mid /\ m <= mid[c]
    BY <2>1, LimitsAssumption DEF Counted, Mid
  <2>3. CASE m < mid[c]
    <3>1. Covered(g, m)
      <4>1. m \in 1 .. mid[c] - 1  BY <2>1, <2>2, <2>3 DEF Mid
      <4> QED  BY <1>1, <4>1 DEF MsgInv, BumpOK, WriteCounter
    <3> QED  BY <1>0, <2>2, <3>1, CoveredStable
  <2>4. CASE m = mid[c]
    <3>1. pc'[c] = "mkdir" /\ UNCHANGED <<job, mid>>
      BY <1>0, <1>1 DEF WriteCounter, Goto, ProcTypeOK
    <3>2. job[c].op = "PST"  BY <1>1, Place DEF WriteCounter, PostJob
    <3> QED
      BY <1>1, <2>4, <3>1, <3>2 DEF Covered, InFlight, Posters, Posting, Filing
  <2> QED  BY <2>1, <2>2, <2>3, <2>4 DEF Mid
<1>2. CASE ~(WriteCounter(c) /\ job[c].gid = g)
  <2>1. numMsg'[g] = numMsg[g]
    <3>1. CASE WriteCounter(c)
      <4>1. job[c].gid \in Gid  BY <3>1, Place DEF WriteCounter
      <4> QED  BY <1>0, <1>2, <3>1, <4>1 DEF WriteCounter, MsgInv, DirInv, DirTypeOK
    <3>2. CASE UNCHANGED numMsg  BY <3>2
    <3> QED
      BY <3>1, <3>2, QuietOrWriting DEF dirVars, MakeMessageDir, CreateAuthor, CreateText,
         CreateName, OpenData, ReceiveBlock
  <2>2. m \in Counted(g) /\ m \in Mid
    BY <1>0, <2>1, LimitsAssumption DEF Counted, Mid
  <2>3. Covered(g, m)  BY <1>0, <2>2 DEF MsgInv, CountedMessagesExist, Covered
  <2> QED  BY <1>0, <2>2, <2>3, CoveredStable
<1> QED  BY <1>1, <1>2

(* What a post concluded from the count it read stays true until it writes.   *)
LEMMA BumpStep ==
    ASSUME MsgInv, NEW c \in Child, TcpStep(c)
    PROVE  BumpOK'
<1>0. ProcTypeOK /\ DirTypeOK /\ ProcTypeOK' /\ groupDir' = groupDir
  BY DirectoryUntouched, ProcTypeStep DEF MsgInv, DirInv
<1> SUFFICES ASSUME NEW d \in Child, pc'[d] = "bump", NEW m \in 1 .. mid'[d] - 1,
                    NEW g \in Gid, g = job'[d].gid, g \in groupDir
             PROVE  Covered(g, m)'
  <2> SUFFICES ASSUME NEW d \in Child, pc'[d] = "bump", NEW m \in 1 .. mid'[d] - 1
               PROVE  Covered(job[d].gid, m)'
    BY DEF BumpOK
  <2>1. job'[d].gid \in groupDir /\ job'[d].gid \in Gid
    BY <1>0, StageStep DEF StageOK, DirTypeOK
  <2> QED  BY <2>1 DEF Covered, Readable, InFlight, Posters
<1>2. m \in Mid
  <2>1. mid'[d] \in 0 .. MaxMsg  BY <1>0 DEF ProcTypeOK
  <2> QED  BY <2>1, LimitsAssumption DEF Mid
<1>3. Covered(g, m)
  <2>1. CASE pc[d] = "bump" /\ job'[d] = job[d] /\ mid'[d] = mid[d]
    BY <2>1 DEF MsgInv, BumpOK
  <2>2. CASE ~(pc[d] = "bump" /\ job'[d] = job[d] /\ mid'[d] = mid[d])
    <3>0. d = c  BY <1>0, <2>2, OthersUntouched DEF OthersSame
    <3>1. ReadCounter(c)
      BY <1>0, <2>2, <3>0 DEF TcpStep, Work, Post, Retrieve, Accept,
         CheckLogin, CheckMember, WriteCounter, MakeMessageDir, CreateAuthor, CreateText,
         CreateName, OpenData, ReceiveBlock, UploadDone, UploadCut, Acknowledge, CountToSend,
         ReadText, ReadAuthor, ReadName, OpenToSend, SendBlock, NextMessage, HangUp, Goto,
         Exit, ProcTypeOK
    <3>2. job'[d] = job[d] /\ mid'[d] = numMsg[job[d].gid] + 1
      BY <1>0, <3>0, <3>1 DEF ReadCounter, ProcTypeOK
    <3>3. numMsg[job[d].gid] \in 0 .. MaxMsg /\ numMsg[job[d].gid] # NoFile
      BY <3>2 DEF MsgInv, DirInv, DirTypeOK, GroupsDense
    <3>4. m \in Counted(job[d].gid)
      BY <3>2, <3>3, LimitsAssumption DEF Counted
    <3> QED  BY <3>2, <3>4 DEF MsgInv, CountedMessagesExist, Covered
  <2> QED  BY <2>1, <2>2
<1> QED  BY <1>2, <1>3, CoveredStable

(* A child writes to the message it files, and nowhere else. *)
LEMMA WritesOwn ==
    ASSUME MsgInv, NEW c \in Child, TcpStep(c), NEW g \in Gid, NEW m \in Mid,
           ~(pc[c] \in Filing /\ job[c].gid = g /\ mid[c] = m)
    PROVE  /\ authorFile'[g][m] = authorFile[g][m] /\ textFile'[g][m] = textFile[g][m]
           /\ nameFile'[g][m] = nameFile[g][m] /\ dataFile'[g][m] = dataFile[g][m]
<1>1. CASE UNCHANGED files  BY <1>1 DEF files
<1>2. CASE CreateAuthor(c) \/ CreateText(c) \/ CreateName(c) \/ OpenData(c) \/ ReceiveBlock(c)
  <2>1. pc[c] \in Filing
    BY <1>2 DEF CreateAuthor, CreateText, CreateName, OpenData, ReceiveBlock, Filing
  <2>2. job[c].gid \in Gid /\ mid[c] \in Mid  BY <2>1, Place
  <2>3. g # job[c].gid \/ m # mid[c]  BY <2>1
  <2>4. FilesTypeOK  BY DEF MsgInv
  <2>5. CASE CreateAuthor(c)
    BY <2>2, <2>3, <2>4, <2>5 DEF CreateAuthor, FilesTypeOK
  <2>6. CASE CreateText(c)
    BY <2>2, <2>3, <2>4, <2>6 DEF CreateText, FilesTypeOK
  <2>7. CASE CreateName(c)
    BY <2>2, <2>3, <2>4, <2>7 DEF CreateName, FilesTypeOK
  <2>8. CASE OpenData(c) \/ ReceiveBlock(c)
    BY <2>2, <2>3, <2>4, <2>8 DEF OpenData, ReceiveBlock, FilesTypeOK
  <2> QED  BY <1>2, <2>5, <2>6, <2>7, <2>8
<1> QED
  BY <1>1, <1>2, QuietOrWriting DEF WriteCounter, MakeMessageDir

(* A message that is not there is created by a post that is at it.            *)
LEMMA AbsentStep ==
    ASSUME MsgInv, NEW c \in Child, TcpStep(c)
    PROVE  MessagesAreWhole'
<1> SUFFICES ASSUME NEW g \in Gid, NEW m \in Mid  PROVE Covered(g, m)' \/ Absent(g, m)'
  BY DEF MessagesAreWhole, Covered
<1>1. CASE Covered(g, m)  BY <1>1, CoveredStable
<1>2. CASE ~Covered(g, m)
  <2>1. Absent(g, m)  BY <1>2 DEF MsgInv, MessagesAreWhole, Covered
  <2>2. ~(pc[c] \in Filing /\ job[c].gid = g /\ mid[c] = m)
    <3> SUFFICES ASSUME pc[c] \in Filing, job[c].gid = g, mid[c] = m  PROVE FALSE
      OBVIOUS
    <3>1. job[c].op = "PST" /\ pc[c] # "idle"  BY Place DEF PostJob, Filing
    <3> QED  BY <1>2, <3>1 DEF Covered, InFlight, Posters, Posting
  <2>3. /\ authorFile'[g][m] = authorFile[g][m] /\ textFile'[g][m] = textFile[g][m]
        /\ nameFile'[g][m] = nameFile[g][m] /\ dataFile'[g][m] = dataFile[g][m]
    BY <2>2, WritesOwn
  <2>4. m \notin msgDir'[g]
    <3>1. m \notin msgDir[g]  BY <2>1 DEF Absent
    <3>2. CASE MakeMessageDir(c)
      <4>1. pc[c] \in Filing  BY <3>2 DEF MakeMessageDir, Filing
      <4>2. job[c].gid \in Gid  BY <4>1, Place
      <4> QED
        BY <2>2, <3>1, <3>2, <4>1, <4>2 DEF MakeMessageDir, MsgInv, DirInv, DirTypeOK
    <3>3. CASE UNCHANGED msgDir  BY <3>1, <3>3
    <3> QED
      BY <3>2, <3>3, QuietOrWriting DEF dirVars, groupVars, WriteCounter, CreateAuthor,
         CreateText, CreateName, OpenData, ReceiveBlock
  <2> QED  BY <2>1, <2>3, <2>4 DEF Absent
<1> QED  BY <1>1, <1>2

-----------------------------------------------------------------------------
(* UDP commands between the steps of the children. *)

(* What a command of the main process leaves of what a child may have seen.   *)
LEMMA UdpFrame ==
    ASSUME DirInv, UdpCommand
    PROVE  /\ groupDir \subseteq groupDir' /\ nGroups <= nGroups' /\ msgDir' = msgDir
           /\ \A g \in groupDir : numMsg'[g] = numMsg[g]
           /\ \A g \in groupDir' \ groupDir : numMsg'[g] = 0
<1>0. nGroups \in 0 .. MaxGroups  BY DEF DirInv, DirTypeOK
<1>1. CASE UNCHANGED <<groupDir, nGroups, numMsg, msgDir>>
  BY <1>0, <1>1, LimitsAssumption
<1>2. CASE \E u \in UidArg, g \in GidArg, n \in GNameArg : NewGroup(u, g, n)
  <2>1. PICK u \in UidArg, g \in GidArg, n \in GNameArg : NewGroup(u, g, n)  BY <1>2
  <2>2. nGroups + 1 \in Gid /\ nGroups + 1 \notin groupDir
    BY <1>0, <2>1, NewAccepted, LimitsAssumption DEF NewGroup, DirInv, GroupsDense
  <2>3. /\ nGroups' = nGroups + 1 /\ groupDir' = groupDir \cup {nGroups + 1}
        /\ numMsg' = [numMsg EXCEPT ![nGroups + 1] = 0] /\ msgDir' = msgDir
    BY <2>1 DEF NewGroup, CreateGroup
  <2> QED  BY <1>0, <2>2, <2>3, LimitsAssumption DEF DirInv, DirTypeOK
<1> QED
  BY <1>1, <1>2 DEF UdpCommand, REG, UNR, LOG, OUT, GSR, JoinGroup, GUR, dirVars, groupVars

(* A command of the main process, at any point of any child, keeps MsgInv.    *)
LEMMA UdpKeepsMsgInv ==
    ASSUME MsgInv, UdpStep
    PROVE  MsgInv'
<1>0. /\ DirInv /\ DirInv' /\ FilesTypeOK /\ ProcTypeOK
      /\ UNCHANGED <<authorFile, textFile, nameFile, dataFile, pc, job, snap, mid, last, off,
                     buf, known, acked>>
  BY UdpCommandStep DEF UdpStep, MsgInv, files, procVars
<1>1. /\ groupDir \subseteq groupDir' /\ nGroups <= nGroups' /\ msgDir' = msgDir
      /\ \A g \in groupDir : numMsg'[g] = numMsg[g]
      /\ \A g \in groupDir' \ groupDir : numMsg'[g] = 0
  BY <1>0, UdpFrame DEF UdpStep
<1>2. FilesTypeOK' /\ ProcTypeOK'  BY <1>0 DEF FilesTypeOK, ProcTypeOK
<1>3. ASSUME NEW c \in Child  PROVE StageOK(c)' /\ FiledOK(c)'
  <2>1. StageOK(c) /\ FiledOK(c)  BY DEF MsgInv
  <2>2. snap[c] <= nGroups => snap[c] <= nGroups'
    BY <1>0, <1>1, LimitsAssumption DEF ProcTypeOK, DirInv, DirTypeOK
  <2> QED  BY <1>0, <1>1, <2>1, <2>2 DEF StageOK, FiledOK
<1>4. NamedOK'  BY <1>0 DEF MsgInv, NamedOK
<1>5. ASSUME NEW g, NEW m, Covered(g, m)  PROVE Covered(g, m)'
  BY <1>0, <1>1, <1>5 DEF Covered, Readable, InFlight, Posters, Posting
<1>6. BumpOK'
  <2> SUFFICES ASSUME NEW d \in Child, pc'[d] = "bump", NEW m \in 1 .. mid'[d] - 1,
                      NEW g, g = job'[d].gid
               PROVE  Covered(g, m)'
    BY DEF BumpOK, Covered, Readable, InFlight, Posters
  <2>1. Covered(g, m)  BY <1>0 DEF MsgInv, BumpOK
  <2> QED  BY <1>5, <2>1
<1>7. MessagesAreWhole'
  <2> SUFFICES ASSUME NEW g \in Gid, NEW m \in Mid  PROVE Covered(g, m)' \/ Absent(g, m)'
    BY DEF MessagesAreWhole, Covered
  <2>1. Covered(g, m) \/ Absent(g, m)  BY DEF MsgInv, MessagesAreWhole, Covered
  <2>2. Absent(g, m) => Absent(g, m)'  BY <1>0, <1>1 DEF Absent
  <2> QED  BY <1>5, <2>1, <2>2
<1>8. CountedMessagesExist'
  <2> SUFFICES ASSUME NEW g \in groupDir', NEW m \in Counted(g)'
               PROVE  Covered(g, m)'
    BY DEF CountedMessagesExist, Covered
  <2>1. CASE g \in groupDir
    <3>1. m \in Counted(g)  BY <1>1, <2>1 DEF Counted
    <3>2. Covered(g, m)  BY <2>1, <3>1 DEF MsgInv, CountedMessagesExist, Covered
    <3> QED  BY <1>5, <3>2
  <2>2. CASE g \notin groupDir
    <3>1. numMsg'[g] = 0  BY <1>1, <2>2
    <3> QED  BY <3>1, NoFileAssumption DEF Counted
  <2> QED  BY <2>1, <2>2
<1> QED  BY <1>0, <1>2, <1>3, <1>4, <1>6, <1>7, <1>8 DEF MsgInv

-----------------------------------------------------------------------------
(* Every step of the server keeps MsgInv. *)
LEMMA MsgNextStep ==
    ASSUME MsgInv, [MsgNext]_msgVars
    PROVE  MsgInv'
<1>1. CASE UNCHANGED msgVars
  <2>1. /\ UNCHANGED <<dirVars, files>>
        /\ UNCHANGED <<pc, job, snap, mid, last, off, buf, known, acked, groupDir, numMsg,
                       msgDir, nGroups, authorFile, textFile, nameFile, dataFile>>
    BY <1>1 DEF msgVars, dirVars, groupVars, files, procVars
  <2>2. DirInv' /\ FilesTypeOK'  BY <2>1, QuietFiles DEF MsgInv
  <2>3. ProcTypeOK'  BY <2>1 DEF MsgInv, ProcTypeOK
  <2>4. ASSUME NEW d \in Child  PROVE StageOK(d)' /\ FiledOK(d)'
    <3>1. StageOK(d) /\ FiledOK(d)  BY DEF MsgInv
    <3> QED  BY <2>1, <3>1 DEF StageOK, FiledOK, Posting
  <2>5. NamedOK'  BY <2>1 DEF MsgInv, NamedOK
  <2>6. \A g, m : Covered(g, m)' = Covered(g, m)
    BY <2>1 DEF Covered, Readable, InFlight, Posters, Posting
  <2>7. BumpOK'  BY <2>1, <2>6 DEF MsgInv, BumpOK, Posting
  <2>8. CountedMessagesExist'
    <3>1. \A g : Counted(g)' = Counted(g)  BY <2>1 DEF Counted
    <3> QED  BY <2>1, <2>6, <3>1 DEF MsgInv, CountedMessagesExist, Covered
  <2>9. MessagesAreWhole'
    BY <2>1, <2>6 DEF MsgInv, MessagesAreWhole, Covered, Absent
  <2> QED  BY <2>2, <2>3, <2>4, <2>5, <2>7, <2>8, <2>9 DEF MsgInv
<1>2. CASE UdpStep  BY <1>2, UdpKeepsMsgInv
<1>3. ASSUME NEW c \in Child, TcpStep(c)  PROVE MsgInv'
  <2>1. DirInv' /\ FilesTypeOK'  BY <1>3, WritingFiles
  <2>2. ProcTypeOK'  BY <1>3, ProcTypeStep
  <2>3. \A d \in Child : StageOK(d)' /\ FiledOK(d)'  BY <1>3, StageStep
  <2>4. NamedOK'  BY <1>3, NamedStep
  <2>5. BumpOK'  BY <1>3, BumpStep
  <2>6. CountedMessagesExist'  BY <1>3, CountStep
  <2>7. MessagesAreWhole'  BY <1>3, AbsentStep
  <2> QED  BY <2>1, <2>2, <2>3, <2>4, <2>5, <2>6, <2>7 DEF MsgInv
<1> QED  BY <1>1, <1>2, <1>3 DEF MsgNext

(* The server starts in MsgInv. *)
LEMMA MsgInitInv == MsgInit => MsgInv
<1> SUFFICES ASSUME MsgInit  PROVE MsgInv
  OBVIOUS
<1>0. DirInit /\ DirInv  BY DirInitInv DEF MsgInit
<1>1. FilesTypeOK  BY DEF MsgInit, FilesTypeOK
<1>2. NoBuf \in Buffer  BY DEF NoBuf, Buffer
<1>3. ProcTypeOK
  BY <1>2, LimitsAssumption DEF MsgInit, ProcTypeOK, Stages
<1>4. \A c \in Child : pc[c] = "idle" /\ snap[c] = 0  BY DEF MsgInit
<1>5. \A c \in Child : StageOK(c) /\ FiledOK(c)
  BY <1>0, <1>4, LimitsAssumption DEF StageOK, FiledOK, Filing, Reading, DirInit
<1>6. NamedOK  BY DEF MsgInit, NamedOK
<1>7. BumpOK  BY <1>4 DEF BumpOK
<1>9. MessagesAreWhole  BY <1>0 DEF MsgInit, DirInit, MessagesAreWhole, Absent
<1>8. CountedMessagesExist  BY <1>0 DEF DirInit, CountedMessagesExist
<1> QED  BY <1>0, <1>1, <1>3, <1>5, <1>6, <1>7, <1>8, <1>9 DEF MsgInv

(* The inductive invariant of the server. *)
THEOREM MsgInvariant == MsgSpec => []MsgInv
BY MsgInitInv, MsgNextStep, PTL DEF MsgSpec

(* A message that num_msg.txt counts has all the files retrieve opens without *)
(* a look, or is being written at that moment, however posts overlap.         *)
THEOREM CountedExist == MsgSpec => []CountedMessagesExist
BY MsgInvariant, PTL DEF MsgInv

(* No message is left in between, counted or not: a retrieve that goes on     *)
(* behind the count finds whole messages, one that is being posted, or none.  *)
THEOREM MessagesWhole == MsgSpec => []MessagesAreWhole
BY MsgInvariant, PTL DEF MsgInv

(* The N_GROUPS of the fork is stale and still only admits children to groups *)
(* that exist.                                                                *)
THEOREM AdmittedGroups == MsgSpec => []AdmittedGroupExists
<1>1. MsgInv => AdmittedGroupExists
  BY DEF MsgInv, StageOK, DirInv, GroupsDense, AdmittedGroupExists
<1> QED  BY <1>1, MsgInvariant, PTL

-----------------------------------------------------------------------------
(* Admission: the history variable auth and the two checks of a child. *)

AuthInv ==
    /\ auth \in [Child -> BOOLEAN]
    /\ \A c \in Child : pc[c] \in {"login", "member"} /\ Allowed(c) => auth[c]
    /\ AdmittedWhileAllowed

(* A user becomes a member of a group only while logged in.                   *)
LEMMA JoinedLoggedIn ==
    ASSUME DirInv, UdpCommand, NEW g \in Gid, NEW u, u \in member'[g], u \notin member[g]
    PROVE  u \in login'
<1>1. CASE UNCHANGED member  BY <1>1
<1>2. CASE \E v \in UidArg, k \in GidArg, n \in GNameArg :
              NewGroup(v, k, n) \/ JoinGroup(v, k, n)
  <2>1. PICK v \in UidArg, k \in GidArg, n \in GNameArg :
               NewGroup(v, k, n) \/ JoinGroup(v, k, n)
    BY <1>2
  <2>2. v \in login
    BY <2>1, NewAccepted, JoinAccepted DEF NewGroup, JoinGroup, DirInv, DirTypeOK
  <2>3. login' = login /\ \E k1 : member' = [member EXCEPT ![k1] = @ \cup {v}]
    BY <2>1 DEF NewGroup, JoinGroup, CreateGroup, userVars
  <2>4. u = v  BY <2>3 DEF DirInv, DirTypeOK
  <2> QED  BY <2>2, <2>3, <2>4
<1>3. CASE \E v \in UidArg, p \in PasswordArg : UNR(v, p) /\ ~UNCHANGED dirVars
  BY <1>3 DEF UNR
<1>4. CASE \E v \in UidArg, k \in GidArg : GUR(v, k) /\ ~UNCHANGED dirVars
  BY <1>4 DEF GUR, DirInv, DirTypeOK
<1> QED
  BY <1>1, <1>2, <1>3, <1>4 DEF UdpCommand, REG, LOG, OUT, UNR, GUR, GSR, dirVars, groupVars

(* Between its two checks a child is either remembered as allowed, or not yet *)
(* a member; whoever joins in between is logged in at that instant.           *)
LEMMA AuthStep ==
    ASSUME MsgInv, AuthInv, [MsgNext]_msgVars
    PROVE  AuthInv'
<1>1. CASE UNCHANGED msgVars
  BY <1>1 DEF AuthInv, AdmittedWhileAllowed, Allowed, msgVars, dirVars, userVars, groupVars,
              procVars
<1>2. CASE MsgNext
  <2>0. RecordAuth  BY <1>2 DEF MsgNext
  <2>1. auth' \in [Child -> BOOLEAN]
    <3>1. \A c \in Child :
            (pc'[c] \in {"login", "member"} /\ (auth[c] \/ Allowed(c)')) \in BOOLEAN
      OBVIOUS
    <3> QED  BY <2>0, <3>1 DEF RecordAuth
  <2>2. ASSUME NEW c \in Child, pc'[c] \in {"login", "member"}, auth[c] \/ Allowed(c)'
        PROVE  auth'[c]
    BY <2>0, <2>2 DEF RecordAuth
  <2>3. ASSUME NEW c \in Child, pc'[c] = "member", job'[c].uid \in member'[job'[c].gid],
               ~auth[c]
        PROVE  Allowed(c)'
    <3>0. /\ ProcTypeOK /\ DirTypeOK /\ StageOK(c) /\ DirInv
          /\ pc[c] = "member" => job[c].uid \notin member[job[c].gid]
      BY <2>3 DEF MsgInv, DirInv, AuthInv, AdmittedWhileAllowed
    <3>1. CASE UdpStep
      <4>1. pc[c] = "member" /\ job'[c] = job[c]
        BY <2>3, <3>1 DEF UdpStep, procVars
      <4>2. job[c].gid \in Gid  BY <3>0, <4>1 DEF StageOK, DirTypeOK
      <4>3. job[c].uid \in login'
        BY <2>3, <3>0, <3>1, <4>1, <4>2, JoinedLoggedIn DEF UdpStep
      <4> QED  BY <2>3, <4>1, <4>2, <4>3 DEF Allowed, parseGID
    <3>2. CASE \E d \in Child : TcpStep(d)
      <4>1. PICK d \in Child : TcpStep(d)  BY <3>2
      <4>2. login' = login /\ member' = member
        BY <4>1, QuietOrWriting DEF WriteCounter, MakeMessageDir, CreateAuthor, CreateText,
           CreateName, OpenData, ReceiveBlock, dirVars, userVars, groupVars
      <4>3. ~(pc[c] = "member" /\ job'[c] = job[c])  BY <2>3, <3>0, <4>2
      <4>4. c = d  BY <2>3, <3>0, <4>1, <4>3, OthersUntouched DEF OthersSame
      <4>5. CheckLogin(c) /\ ~Exit(c)
        BY <2>3, <3>0, <4>1, <4>3, <4>4 DEF TcpStep, Work, Post, Retrieve, Accept,
           CheckMember, ReadCounter, WriteCounter, MakeMessageDir, CreateAuthor, CreateText,
           CreateName, OpenData, ReceiveBlock, UploadDone, UploadCut, Acknowledge,
           CountToSend, ReadText, ReadAuthor, ReadName, OpenToSend, SendBlock, NextMessage,
           HangUp, Goto, Exit, ProcTypeOK
      <4>6. job'[c] = job[c] /\ parseGID(job[c].gid) /\ job[c].uid \in login
        BY <4>5 DEF CheckLogin, userLoggedIn
      <4> QED  BY <2>3, <4>2, <4>6 DEF Allowed, parseGID
    <3> QED  BY <1>2, <3>1, <3>2 DEF MsgNext
  <2> QED  BY <2>1, <2>2, <2>3 DEF AuthInv, AdmittedWhileAllowed
<1> QED  BY <1>1, <1>2

(* A child that passes the check of login.txt and then that of <uid>.txt had  *)
(* an instant since its fork at which both would have passed, although UDP    *)
(* commands come in between.                                                  *)
THEOREM Admitted == MsgSpec => []AdmittedWhileAllowed
<1>1. MsgInit => AuthInv
  BY DEF MsgInit, AuthInv, AdmittedWhileAllowed
<1>2. MsgInv /\ AuthInv /\ [MsgNext]_msgVars => AuthInv'
  BY AuthStep
<1>3. AuthInv => AdmittedWhileAllowed  BY DEF AuthInv
<1> QED  BY <1>1, <1>2, <1>3, MsgInvariant, PTL DEF MsgSpec

(* The files and the children keep their types.                               *)
THEOREM MsgTypeCorrect == MsgSpec => []MsgTypeOK
<1>1. MsgInit => AuthInv
  BY DEF MsgInit, AuthInv, AdmittedWhileAllowed
<1>2. MsgInv /\ AuthInv /\ [MsgNext]_msgVars => AuthInv'
  BY AuthStep
<1>3. MsgInv /\ AuthInv => MsgTypeOK
  BY DEF MsgInv, AuthInv, DirInv, FilesTypeOK, ProcTypeOK, Stages, Buffer, MsgTypeOK
<1> QED  BY <1>1, <1>2, <1>3, MsgInvariant, PTL DEF MsgSpec

-----------------------------------------------------------------------------
(* The action properties of DirectoryServer, next to running children.        *)

(* The files in which a child writes are in groups that were handed out; it   *)
(* changes neither who is a user or a member nor which groups there are.      *)
LEMMA ChildFrame ==
    ASSUME MsgInv, [MsgNext]_msgVars, ~UdpStep
    PROVE  /\ UNCHANGED <<userVars, groupDir, groupName, member>>
           /\ \A g \in groupDir' : numMsg'[g] # NoFile
<1>1. DirInv'  BY MsgNextStep DEF MsgInv
<1>2. \A g \in groupDir' : numMsg'[g] # NoFile
  BY <1>1 DEF DirInv, DirTypeOK, GroupsDense
<1>3. CASE UNCHANGED msgVars
  BY <1>2, <1>3 DEF msgVars, dirVars, userVars, groupVars
<1>4. CASE \E c \in Child : TcpStep(c)
  <2>1. UNCHANGED <<userVars, groupVars>> /\ groupDir' = groupDir  BY <1>4, DirectoryUntouched
  <2> QED  BY <1>2, <2>1 DEF groupVars
<1> QED  BY <1>3, <1>4 DEF MsgNext

(* A new group begins with its creator alone and without a message, although  *)
(* children with an older N_GROUPS are posting at that moment: none of them   *)
(* leaves anything under a gid that is not handed out.                        *)
THEOREM NewGroupsNextToPosts == MsgSpec => NewGroupIsFresh
<1> DEFINE A == \A g \in groupDir' \ groupDir :
                   /\ Cardinality(member'[g]) = 1 /\ member'[g] \subseteq login'
                   /\ numMsg'[g] = 0 /\ msgDir'[g] = {}
<1>1. MsgInv /\ [MsgNext]_msgVars => A
  BY ChildFrame, NewGroupStep DEF UdpStep, MsgInv
<1>2. MsgInv /\ [MsgNext]_msgVars => [A]_dirVars  BY <1>1
<1> QED  BY <1>2, MsgInvariant, PTL DEF MsgSpec, NewGroupIsFresh

(* Who registers inherits no login and no subscription, next to posts.        *)
THEOREM FreshUserNextToPosts == MsgSpec => FreshUserInheritsNothing
<1> DEFINE A == \A u \in userDir' \ userDir :
                   u \notin login' /\ \A g \in Gid : u \notin member'[g]
<1>1. MsgInv /\ [MsgNext]_msgVars => A
  BY ChildFrame, FreshUserStep DEF UdpStep, MsgInv, userVars
<1>2. MsgInv /\ [MsgNext]_msgVars => [A]_dirVars  BY <1>1
<1> QED  BY <1>2, MsgInvariant, PTL DEF MsgSpec, FreshUserInheritsNothing
=============================================================================
