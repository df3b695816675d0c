--------------------------- MODULE MessageLogProofs ---------------------------
(***************************************************************************)
(* MessageServer when posts to one group do not overlap (SerialSpec), for  *)
(* all constants: a confirmed mid names what the client sent, the listed   *)
(* number is the last message, no message is lost again, and the files are *)
(* an append-only log in the sense of MessageLog.                          *)
(***************************************************************************)
EXTENDS MessageServerProofs, SequenceTheorems

Writing == {"bump", "ack"} \cup Filing

(* Messages that are not counted have no F I L E.txt. *)
FreshOK == \A g \in Gid, m \in Mid : m \notin Counted(g) => nameFile[g][m] = NoFile

OffsetOK == \A c \in Child : pc[c] \notin {"recv", "ack", "r_send", "r_done"} => off[c] = 0

(* The only post to a group writes the last message of it. *)
CountIsMid(c) ==
    /\ pc[c] = "bump" => mid[c] = numMsg[job[c].gid] + 1
    /\ pc[c] \in Filing \cup {"ack"} => mid[c] = numMsg[job[c].gid]

Named(c) == pc[c] \in {"data", "recv"} \/ (pc[c] = "ack" /\ job[c].fname # NoFile)

(* What the files of the message hold at each stage of its post. *)
WrittenOK(c) ==
    LET g == job[c].gid
        m == mid[c]
    IN  /\ pc[c] \in {"text", "text_w", "fname", "fname_w", "data", "recv", "ack"} =>
              authorFile[g][m] = job[c].uid
        /\ pc[c] \in {"fname", "fname_w", "data", "recv", "ack"} => textFile[g][m] = job[c].text
        /\ Named(c) => nameFile[g][m] = job[c].fname
        /\ pc[c] \in Writing \ {"bump", "fname_w"} /\ ~Named(c) => nameFile[g][m] = NoFile
        /\ pc[c] = "recv" => dataFile[g][m][job[c].fname] = off[c]
        /\ pc[c] = "ack" /\ Named(c) => dataFile[g][m][job[c].fname] = FileLen
        /\ pc[c] = "ack" => m \in msgDir[g]
        /\ pc[c] \in Writing => m \notin acked[g]

(* A message no post is writing has all its files. *)
SettledWhole == \A g \in Gid : \A m \in Settled(g) : Whole(g, m)

SerialInv ==
    /\ OnePostAtATime /\ FreshOK /\ OffsetOK
    /\ \A c \in Child : CountIsMid(c) /\ WrittenOK(c)
    /\ SettledWhole /\ ListedIsLast /\ AckedStayCounted

-----------------------------------------------------------------------------
(* Where files change, and when a message becomes settled. *)

(* A child that writes is a post to the group, and the only one. *)
LEMMA WritersPost ==
    ASSUME MsgInv, NEW c \in Child, pc[c] \in Writing
    PROVE  Posting(c) /\ job[c].gid \in Gid /\ job[c].gid \in groupDir
           /\ c \in Posters(job[c].gid) /\ mid[c] \in Mid /\ job[c] \in PostJob
           /\ numMsg[job[c].gid] \in 0 .. MaxMsg /\ numMsg[job[c].gid] # NoFile
<1>1. job[c] \in PostJob /\ mid[c] \in Mid /\ pc[c] # "idle" /\ job[c].gid \in groupDir
  BY DEF MsgInv, StageOK, Writing, Filing
<1>2. job[c].op = "PST"  BY <1>1 DEF PostJob
<1>3. job[c].gid \in Gid /\ numMsg[job[c].gid] \in 0 .. MaxMsg /\ numMsg[job[c].gid] # NoFile
  BY <1>1 DEF MsgInv, DirInv, DirTypeOK, GroupsDense
<1> QED  BY <1>1, <1>2, <1>3 DEF Posting, Posters

(* How a step of a child changes what it is filing, and the counts. *)
LEMMA FilingMoves ==
    ASSUME MsgInv, NEW c \in Child, TcpStep(c)
    PROVE  \/ /\ pc[c] \notin Filing /\ pc'[c] \notin Filing /\ numMsg' = numMsg
           \/ WriteCounter(c)
           \/ /\ pc[c] \in Filing /\ pc'[c] \in Filing /\ numMsg' = numMsg
              /\ job'[c] = job[c] /\ mid'[c] = mid[c]
           \/ /\ pc[c] \in {"text_w", "recv"} /\ pc'[c] \notin Filing /\ numMsg' = numMsg
              /\ UNCHANGED msgDir /\ UNCHANGED nameFile /\ UNCHANGED dataFile
              /\ (pc[c] = "text_w" => job[c].fname = NoFile /\ CreateText(c))
              /\ (pc[c] = "recv" => UNCHANGED files)
<1>0. pc \in [Child -> Stages]  BY DEF MsgInv, ProcTypeOK
<1>2. CASE \E j \in PostJob \cup RetrieveJob : Accept(c, j)
  BY <1>0, <1>2 DEF Accept, Goto, Filing, dirVars
<1>3. CASE CheckLogin(c) \/ CheckMember(c)
  BY <1>0, <1>3 DEF CheckLogin, CheckMember, Exit, Goto, Filing, dirVars
<1>4. CASE ReadCounter(c)  BY <1>0, <1>4 DEF ReadCounter, Goto, Filing, dirVars
<1>5. CASE MakeMessageDir(c) \/ CreateAuthor(c) \/ CreateName(c) \/ OpenData(c)
  BY <1>0, <1>5 DEF MakeMessageDir, CreateAuthor, CreateName, OpenData, Goto, Filing, dirVars
<1>6. CASE CreateText(c)
  BY <1>0, <1>6 DEF CreateText, Goto, Filing, dirVars
<1>7. CASE ReceiveBlock(c)
  BY <1>0, <1>7 DEF ReceiveBlock, Filing, dirVars
<1>8. CASE UploadDone(c) \/ UploadCut(c)
  BY <1>0, <1>8 DEF UploadDone, UploadCut, Exit, Goto, Filing, dirVars, files
<1>9. CASE Acknowledge(c) \/ HangUp(c)
  BY <1>0, <1>9 DEF Acknowledge, HangUp, Exit, Goto, Filing, dirVars
<1>10. CASE CountToSend(c) \/ ReadText(c) \/ ReadAuthor(c) \/ ReadName(c)
  BY <1>0, <1>10 DEF CountToSend, ReadText, ReadAuthor, ReadName, Exit, Goto, Filing, dirVars
<1>11. CASE OpenToSend(c) \/ SendBlock(c) \/ NextMessage(c)
  BY <1>0, <1>11 DEF OpenToSend, SendBlock, NextMessage, Exit, Goto, Filing, dirVars
<1> QED
  BY <1>2, <1>3, <1>4, <1>5, <1>6, <1>7, <1>8, <1>9, <1>10, <1>11
  DEF TcpStep, Work, Post, Retrieve

FiledBy(d, g, m) == d \in Child /\ pc[d] \in Filing /\ job[d].gid = g /\ mid[d] = m

LEMMA InFlightBy == MsgInv => \A g, m : InFlight(g, m) <=> \E d : FiledBy(d, g, m)
BY DEF MsgInv, StageOK, PostJob, FiledBy, InFlight, Posters, Posting, Filing

LEMMA InFlightByNext == MsgInv' => (\A g, m : InFlight(g, m) <=> \E d : FiledBy(d, g, m))'
BY InFlightBy, PTL

(* While a child writes a message of a group, it is the only one.             *)
LEMMA OnlyWriter ==
    ASSUME MsgInv, OnePostAtATime, NEW c \in Child, pc[c] \in Writing,
           NEW d \in Child, pc[d] \in Writing, job[d].gid = job[c].gid
    PROVE  d = c
<1>1. d \in Posters(job[c].gid) /\ c \in Posters(job[c].gid) /\ job[c].gid \in Gid
  BY WritersPost
<1> QED  BY <1>1 DEF OnePostAtATime

LEMMA OnlyOneInFlight ==
    ASSUME MsgInv, OnePostAtATime, NEW c \in Child, pc[c] \in Writing,
           NEW d, NEW m, FiledBy(d, job[c].gid, m)
    PROVE  d = c /\ m = mid[c]
BY OnlyWriter DEF FiledBy, Writing

(* A message becomes settled when its post stops writing, and stays settled.  *)
LEMMA SettledStep ==
    ASSUME MsgInv, MsgInv', SerialInv, NEW c \in Child, TcpStep(c), NEW g \in Gid
    PROVE  Settled(g)' = IF pc[c] \in Filing /\ pc'[c] \notin Filing /\ job[c].gid = g
                         THEN Settled(g) \cup {mid[c]} ELSE Settled(g)
<1>1. \A k, m : InFlight(k, m) <=> \E d : FiledBy(d, k, m)  BY InFlightBy
<1>2. \A k, m : InFlight(k, m)' <=> \E d : FiledBy(d, k, m)'
  BY InFlightByNext
<1>3. \A d, k, m : d # c => (FiledBy(d, k, m)' <=> FiledBy(d, k, m))
  BY OthersUntouched DEF MsgInv, OthersSame, FiledBy
<1>4. CASE /\ pc[c] \notin Filing /\ pc'[c] \notin Filing /\ numMsg' = numMsg
  <2>1. \A d, k, m : FiledBy(d, k, m)' <=> FiledBy(d, k, m)  BY <1>3, <1>4 DEF FiledBy
  <2> QED  BY <1>1, <1>2, <1>4, <2>1 DEF Settled, Counted
<1>5. CASE WriteCounter(c)
  <2>1. /\ pc[c] = "bump" /\ pc'[c] = "mkdir" /\ job'[c] = job[c] /\ mid'[c] = mid[c]
        /\ numMsg' = [numMsg EXCEPT ![job[c].gid] = mid[c]]
    BY <1>5 DEF WriteCounter, Goto, MsgInv, ProcTypeOK
  <2>2. /\ job[c].gid \in Gid /\ numMsg[job[c].gid] \in 0 .. MaxMsg
        /\ numMsg[job[c].gid] # NoFile /\ mid[c] \in Mid /\ pc[c] \in Writing
    BY <2>1, WritersPost DEF Writing
  <2>3. mid[c] = numMsg[job[c].gid] + 1  BY <2>1 DEF SerialInv, CountIsMid
  <2>4. \A m : ~FiledBy(c, g, m) /\ (FiledBy(c, g, m)' <=> job[c].gid = g /\ m = mid[c])
    BY <2>1 DEF FiledBy, Filing
  <2>5. CASE job[c].gid = g
    <3>1. \A d, m : ~FiledBy(d, g, m)
      BY <2>2, <2>4, <2>5, OnlyOneInFlight DEF SerialInv
    <3>2. Settled(g) = 1 .. numMsg[g]  BY <1>1, <2>2, <2>5, <3>1 DEF Settled, Counted
    <3>3. \A m : InFlight(g, m)' <=> m = mid[c]
      BY <1>2, <1>3, <2>4, <2>5, <3>1
    <3>4. numMsg'[g] = numMsg[g] + 1 /\ numMsg'[g] # NoFile
      BY <2>1, <2>2, <2>3, <2>5, NoFileAssumption DEF MsgInv, DirInv, DirTypeOK
    <3>5. Settled(g)' = {m \in 1 .. numMsg'[g] : m # mid[c]}
      BY <3>3, <3>4 DEF Settled, Counted
    <3>6. numMsg[g] \in Nat /\ mid[c] = numMsg[g] + 1  BY <2>2, <2>3, <2>5
    <3>7. {m \in 1 .. numMsg'[g] : m # mid[c]} = 1 .. numMsg[g]
      BY <3>4, <3>6
    <3> QED  BY <2>1, <3>2, <3>5, <3>7 DEF Filing
  <2>6. CASE job[c].gid # g
    <3>1. numMsg'[g] = numMsg[g]  BY <2>1, <2>6 DEF MsgInv, DirInv, DirTypeOK
    <3>2. \A m : InFlight(g, m)' <=> InFlight(g, m)  BY <1>1, <1>2, <1>3, <2>4, <2>6
    <3> QED  BY <2>6, <3>1, <3>2 DEF Settled, Counted
  <2> QED  BY <2>5, <2>6
<1>6. CASE /\ pc[c] \in Filing /\ pc'[c] \in Filing /\ numMsg' = numMsg
           /\ job'[c] = job[c] /\ mid'[c] = mid[c]
  <2>1. \A d, k, m : FiledBy(d, k, m)' <=> FiledBy(d, k, m)  BY <1>3, <1>6 DEF FiledBy
  <2> QED  BY <1>1, <1>2, <1>6, <2>1 DEF Settled, Counted
<1>7. CASE pc[c] \in Filing /\ pc'[c] \notin Filing /\ numMsg' = numMsg
  <2>1. /\ job[c].gid \in Gid /\ numMsg[job[c].gid] \in 0 .. MaxMsg
        /\ numMsg[job[c].gid] # NoFile /\ mid[c] \in Mid /\ pc[c] \in Writing
    BY <1>7, WritersPost DEF Writing
  <2>2. mid[c] = numMsg[job[c].gid]  BY <1>7 DEF SerialInv, CountIsMid
  <2>3. \A m : ~FiledBy(c, g, m)' /\ (FiledBy(c, g, m) <=> job[c].gid = g /\ m = mid[c])
    BY <1>7 DEF FiledBy
  <2>4. CASE job[c].gid = g
    <3>1. \A d, m : FiledBy(d, g, m) => d = c /\ m = mid[c]
      BY <2>1, <2>4, OnlyOneInFlight DEF SerialInv
    <3>2. \A m : (InFlight(g, m) <=> m = mid[c]) /\ ~InFlight(g, m)'
      BY <1>1, <1>2, <1>3, <2>3, <2>4, <3>1
    <3>3. mid[c] \in Counted(g) /\ Counted(g)' = Counted(g)
      BY <1>7, <2>1, <2>2, <2>4 DEF Counted, Mid
    <3> QED  BY <1>7, <2>4, <3>2, <3>3 DEF Settled
  <2>5. CASE job[c].gid # g
    <3>1. \A m : InFlight(g, m)' <=> InFlight(g, m)  BY <1>1, <1>2, <1>3, <2>3, <2>5
    <3> QED  BY <1>7, <2>5, <3>1 DEF Settled, Counted
  <2> QED  BY <2>4, <2>5
<1>8. {"text_w", "recv"} \subseteq Filing  BY DEF Filing
<1> QED  BY <1>4, <1>5, <1>6, <1>7, <1>8, FilingMoves

(* A settled message is written by nobody. *)
LEMMA SettledUntouched ==
    ASSUME MsgInv, NEW c \in Child, TcpStep(c), NEW g \in Gid, NEW m \in Settled(g)
    PROVE  /\ authorFile'[g][m] = authorFile[g][m] /\ textFile'[g][m] = textFile[g][m]
           /\ nameFile'[g][m] = nameFile[g][m] /\ dataFile'[g][m] = dataFile[g][m]
           /\ m \in Mid
<1>1. m \in Counted(g) /\ ~InFlight(g, m)  BY DEF Settled
<1>2. m \in Mid
  BY <1>1, LimitsAssumption DEF Counted, MsgInv, DirInv, DirTypeOK, Mid
<1>3. ~FiledBy(c, g, m)  BY <1>1, InFlightBy
<1> QED  BY <1>2, <1>3, WritesOwn DEF FiledBy

(* The settled messages of a group are the first ones. *)
LEMMA SettledPrefix ==
    MsgInv /\ SerialInv => \A g \in Gid : \E n \in 0 .. MaxMsg : Settled(g) = 1 .. n
<1> SUFFICES ASSUME MsgInv, SerialInv, NEW g \in Gid
             PROVE  \E n \in 0 .. MaxMsg : Settled(g) = 1 .. n
  OBVIOUS
<1>1. CASE numMsg[g] = NoFile
  <2>1. Settled(g) = 1 .. 0  BY <1>1 DEF Settled, Counted
  <2> QED  BY <2>1, LimitsAssumption
<1>2. CASE numMsg[g] # NoFile /\ \A m : ~InFlight(g, m)
  BY <1>2 DEF Settled, Counted, MsgInv, DirInv, DirTypeOK
<1>3. CASE numMsg[g] # NoFile /\ \E m : InFlight(g, m)
  <2>1. PICK c, m : FiledBy(c, g, m)  BY <1>3, InFlightBy
  <2>2. /\ c \in Child /\ pc[c] \in Writing /\ mid[c] = numMsg[g] /\ job[c].gid = g
        /\ pc[c] \in Filing
    BY <2>1 DEF FiledBy, SerialInv, CountIsMid, Writing
  <2>3. numMsg[g] \in Mid  BY <2>2, WritersPost
  <2>4. \A k : InFlight(g, k) <=> k = numMsg[g]
    <3>1. ASSUME NEW k, InFlight(g, k)  PROVE k = numMsg[g]
      <4>1. PICK d : FiledBy(d, g, k)  BY <3>1, InFlightBy
      <4> QED  BY <2>2, <4>1, OnlyOneInFlight DEF SerialInv
    <3>2. FiledBy(c, g, numMsg[g])  BY <2>2 DEF FiledBy
    <3> QED  BY <3>1, <3>2, InFlightBy
  <2>5. Settled(g) = {k \in 1 .. numMsg[g] : k # numMsg[g]}
    BY <1>3, <2>4 DEF Settled, Counted
  <2>6. {k \in 1 .. numMsg[g] : k # numMsg[g]} = 1 .. (numMsg[g] - 1)
    BY <2>3 DEF Mid
  <2> QED  BY <2>3, <2>5, <2>6, LimitsAssumption DEF Mid
<1> QED  BY <1>1, <1>2, <1>3

-----------------------------------------------------------------------------
(* The conjuncts of SerialInv, after a step of a child. *)

(* Counts never go down when posts do not overlap. *)
LEMMA CountsGrow ==
    ASSUME MsgInv, SerialInv, NEW c \in Child, TcpStep(c), NEW g \in Gid
    PROVE  Counted(g) \subseteq Counted(g)'
<1>1. CASE numMsg' = numMsg  BY <1>1 DEF Counted
<1>2. CASE WriteCounter(c)
  <2>1. pc[c] = "bump" /\ numMsg' = [numMsg EXCEPT ![job[c].gid] = mid[c]]
    BY <1>2 DEF WriteCounter
  <2>2. /\ job[c].gid \in Gid /\ numMsg[job[c].gid] \in 0 .. MaxMsg /\ mid[c] \in Mid
    BY <2>1, WritersPost DEF Writing
  <2>3. mid[c] = numMsg[job[c].gid] + 1  BY <2>1 DEF SerialInv, CountIsMid
  <2>4. CASE g = job[c].gid
    <3>1. numMsg'[g] = mid[c] /\ numMsg[g] # NoFile /\ numMsg'[g] # NoFile
      BY <2>1, <2>2, <2>4, NoFileAssumption DEF MsgInv, DirInv, DirTypeOK, Mid
    <3> QED  BY <2>2, <2>3, <2>4, <3>1 DEF Counted
  <2>5. CASE g # job[c].gid
    BY <2>1, <2>5 DEF Counted, MsgInv, DirInv, DirTypeOK
  <2> QED  BY <2>4, <2>5
<1> QED  BY <1>1, <1>2, FilingMoves

(* What is not counted yet has no name. *)
LEMMA FreshStep ==
    ASSUME MsgInv, SerialInv, NEW c \in Child, TcpStep(c)
    PROVE  FreshOK'
<1> SUFFICES ASSUME NEW g \in Gid, NEW m \in Mid, m \notin Counted(g)'
             PROVE  nameFile'[g][m] = NoFile
  BY DEF FreshOK
<1>1. m \notin Counted(g) /\ nameFile[g][m] = NoFile
  BY CountsGrow DEF SerialInv, FreshOK
<1>2. ~(pc[c] \in Filing /\ job[c].gid = g /\ mid[c] = m)
  <2> SUFFICES ASSUME pc[c] \in Filing, job[c].gid = g, mid[c] = m  PROVE FALSE
    OBVIOUS
  <2>1. m = numMsg[g]  BY DEF SerialInv, CountIsMid
  <2>2. numMsg[g] # NoFile  BY WritersPost DEF Writing
  <2> QED  BY <1>1, <2>1, <2>2 DEF Counted, Mid
<1> QED  BY <1>1, <1>2, WritesOwn

(* An offset is set back before a file is sent or received. *)
LEMMA OffsetStep ==
    ASSUME MsgInv, SerialInv, NEW c \in Child, TcpStep(c)
    PROVE  OffsetOK'
<1> SUFFICES ASSUME NEW d \in Child, pc'[d] \notin {"recv", "ack", "r_send", "r_done"}
             PROVE  off'[d] = 0
  BY DEF OffsetOK
<1>0. /\ pc \in [Child -> Stages] /\ off \in [Child -> 0 .. FileLen] /\ OthersSame(c)
      /\ \A e \in Child : pc[e] \notin {"recv", "ack", "r_send", "r_done"} => off[e] = 0
  BY OthersUntouched DEF MsgInv, ProcTypeOK, SerialInv, OffsetOK
<1>1. CASE d # c  BY <1>0, <1>1 DEF OthersSame
<1>2. CASE d = c /\ (off'[c] = 0 \/ UNCHANGED off)
  <2>1. CASE off'[c] = 0  BY <1>2, <2>1
  <2>2. CASE UNCHANGED off /\ pc[c] \notin {"recv", "ack", "r_send", "r_done"}
    BY <1>0, <1>2, <2>2
  <2>3. CASE pc[c] \in {"recv", "ack", "r_send", "r_done"}
    BY <1>0, <1>2, <2>3 DEF TcpStep, Work, Post, Retrieve, Accept, CheckLogin, CheckMember,
       ReadCounter, WriteCounter, MakeMessageDir, CreateAuthor, CreateText, CreateName,
       OpenData, ReceiveBlock, UploadDone, UploadCut, Acknowledge, CountToSend, ReadText,
       ReadAuthor, ReadName, OpenToSend, SendBlock, NextMessage, HangUp, Goto, Exit
  <2> QED  BY <1>2, <2>1, <2>2, <2>3
<1>3. CASE d = c /\ ~(off'[c] = 0 \/ UNCHANGED off)
  <2>1. (ReceiveBlock(c) \/ SendBlock(c)) /\ pc'[c] = pc[c]
    BY <1>0, <1>3 DEF TcpStep, Work, Post, Retrieve, Accept, CheckLogin, CheckMember,
       ReadCounter, WriteCounter, MakeMessageDir, CreateAuthor, CreateText, CreateName,
       OpenData, UploadDone, UploadCut, Acknowledge, CountToSend, ReadText,
       ReadAuthor, ReadName, OpenToSend, SendBlock, NextMessage, HangUp, ReceiveBlock, Exit
  <2> QED  BY <1>3, <2>1 DEF ReceiveBlock, SendBlock
<1> QED  BY <1>1, <1>2, <1>3

(* The count and the mid of the only post to a group. *)
LEMMA CountIsMidStep ==
    ASSUME MsgInv, MsgInv', SerialInv, NEW c \in Child, TcpStep(c), NEW d \in Child
    PROVE  CountIsMid(d)'
<1>0. /\ pc \in [Child -> Stages] /\ mid \in [Child -> 0 .. MaxMsg]
      /\ CountIsMid(d) /\ OnePostAtATime
  BY DEF MsgInv, ProcTypeOK, SerialInv
<1>1. CASE d # c
  <2>1. pc'[d] = pc[d] /\ mid'[d] = mid[d] /\ job'[d] = job[d]
    BY <1>1, OthersUntouched DEF OthersSame, MsgInv
  <2>2. ASSUME pc[d] \in Writing  PROVE numMsg'[job[d].gid] = numMsg[job[d].gid]
    <3>1. CASE WriteCounter(c)
      <4>1. pc[c] = "bump" /\ numMsg' = [numMsg EXCEPT ![job[c].gid] = mid[c]]
        BY <3>1 DEF WriteCounter
      <4>2. job[c].gid # job[d].gid  BY <1>0, <1>1, <2>2, <4>1, OnlyWriter DEF Writing
      <4>3. job[d].gid \in Gid  BY <2>2, WritersPost
      <4> QED  BY <4>1, <4>2, <4>3 DEF MsgInv, DirInv, DirTypeOK
    <3> QED  BY <3>1, FilingMoves
  <2>3. pc[d] \in {"bump", "ack"} \cup Filing => pc[d] \in Writing  BY DEF Writing
  <2> QED  BY <1>0, <2>1, <2>2, <2>3 DEF CountIsMid
<1>2. CASE d = c
  <2>1. CASE ReadCounter(c)
    BY <1>0, <1>2, <2>1 DEF ReadCounter, Goto, CountIsMid, Filing, dirVars
  <2>2. CASE WriteCounter(c)
    <3>1. /\ pc'[c] = "mkdir" /\ mid' = mid /\ job' = job /\ pc[c] = "bump"
          /\ numMsg' = [numMsg EXCEPT ![job[c].gid] = mid[c]]
      BY <1>0, <2>2 DEF WriteCounter, Goto
    <3>2. job[c].gid \in Gid  BY <3>1, WritersPost DEF Writing
    <3>3. numMsg'[job[c].gid] = mid[c]  BY <3>1, <3>2 DEF MsgInv, DirInv, DirTypeOK
    <3> QED  BY <1>2, <3>1, <3>3 DEF CountIsMid, Filing
  <2>3. CASE /\ pc[c] \in Filing /\ pc'[c] \in Filing \cup {"ack"} /\ numMsg' = numMsg
             /\ job'[c] = job[c] /\ mid'[c] = mid[c]
    BY <1>0, <1>2, <2>3 DEF CountIsMid, Filing
  <2>4. CASE pc'[c] \notin Writing
    BY <1>2, <2>4 DEF CountIsMid, Writing
  <2> QED
    BY <1>0, <2>1, <2>2, <2>3, <2>4 DEF TcpStep, Work, Post, Retrieve, Accept, CheckLogin,
       CheckMember, MakeMessageDir, CreateAuthor, CreateText, CreateName, OpenData,
       ReceiveBlock, UploadDone, UploadCut, Acknowledge, CountToSend, ReadText, ReadAuthor,
       ReadName, OpenToSend, SendBlock, NextMessage, HangUp, Goto, Exit, Writing, Filing,
       dirVars
<1> QED  BY <1>1, <1>2

(* The posts to other groups find their message as they left it. *)
LEMMA OthersWritten ==
    ASSUME MsgInv, SerialInv, NEW c \in Child, TcpStep(c), NEW d \in Child \ {c}
    PROVE  WrittenOK(d)'
<1>0. /\ pc'[d] = pc[d] /\ job'[d] = job[d] /\ mid'[d] = mid[d] /\ off'[d] = off[d]
      /\ WrittenOK(d) /\ OnePostAtATime /\ FilesGrow
  BY OthersUntouched, WritingFiles DEF OthersSame, MsgInv, SerialInv
<1>1. CASE pc[d] \notin Writing
  BY <1>0, <1>1 DEF WrittenOK, Named, Writing, Filing
<1>2. CASE pc[d] \in Writing
  <2> DEFINE g == job[d].gid
             m == mid[d]
  <2>1. g \in Gid /\ m \in Mid  BY <1>2, WritersPost
  <2>2. pc[c] \in Writing => job[c].gid # g  BY <1>0, <1>2, OnlyWriter
  <2>3. /\ authorFile'[g][m] = authorFile[g][m] /\ textFile'[g][m] = textFile[g][m]
        /\ nameFile'[g][m] = nameFile[g][m] /\ dataFile'[g][m] = dataFile[g][m]
    BY <2>1, <2>2, WritesOwn DEF Writing
  <2>4. acked'[g] = acked[g]
    <3>1. CASE Acknowledge(c)
      BY <2>1, <2>2, <3>1 DEF Acknowledge, Writing, MsgInv, ProcTypeOK
    <3>2. CASE UNCHANGED acked  BY <3>2
    <3> QED
      BY <3>1, <3>2 DEF TcpStep, Work, Post, Retrieve, Accept, CheckLogin, CheckMember,
         ReadCounter, WriteCounter, MakeMessageDir, CreateAuthor, CreateText, CreateName,
         OpenData, ReceiveBlock, UploadDone, UploadCut, CountToSend, ReadText, ReadAuthor,
         ReadName, OpenToSend, SendBlock, NextMessage, HangUp
  <2>5. m \in msgDir[g] => m \in msgDir'[g]  BY <1>0, <2>1 DEF FilesGrow
  <2> QED  BY <1>0, <2>3, <2>4, <2>5 DEF WrittenOK, Named
<1> QED  BY <1>1, <1>2

(* Each stage of a post adds its file to those of the stages before. *)
LEMMA OwnWritten ==
    ASSUME MsgInv, SerialInv, NEW c \in Child, TcpStep(c)
    PROVE  WrittenOK(c)'
<1>0. /\ ProcTypeOK /\ FilesTypeOK /\ WrittenOK(c) /\ CountIsMid(c) /\ FilesGrow
      /\ StageOK(c) /\ FiledOK(c)
  BY WritingFiles DEF MsgInv, SerialInv
<1> DEFINE g == job[c].gid
           m == mid[c]
<1>1. CASE pc'[c] \notin Writing
  BY <1>1 DEF WrittenOK, Named, Writing, Filing
<1>2. ASSUME g \in Gid, NEW n, n \notin Counted(g)  PROVE n \notin acked[g]
  BY <1>2 DEF SerialInv, AckedStayCounted, Settled
<1>3. CASE ReadCounter(c)
  <2>1. /\ pc'[c] = "bump" /\ mid'[c] = numMsg[g] + 1 /\ UNCHANGED <<job, acked>>
        /\ pc[c] = "count"
    BY <1>0, <1>3 DEF ReadCounter, Goto, ProcTypeOK
  <2>2. g \in Gid /\ numMsg[g] \in 0 .. MaxMsg /\ numMsg[g] # NoFile
    BY <1>0, <2>1 DEF StageOK, MsgInv, DirInv, DirTypeOK, GroupsDense
  <2>3. numMsg[g] + 1 \notin Counted(g)  BY <2>2 DEF Counted
  <2> QED  BY <1>2, <2>1, <2>2, <2>3 DEF WrittenOK, Named
<1>4. CASE WriteCounter(c)
  <2>1. pc[c] = "bump" /\ pc'[c] = "mkdir" /\ UNCHANGED <<job, mid, acked, files>>
    BY <1>0, <1>4 DEF WriteCounter, Goto, ProcTypeOK
  <2>2. g \in Gid /\ m \in Mid /\ numMsg[g] \in 0 .. MaxMsg /\ m = numMsg[g] + 1
    BY <1>0, <2>1, WritersPost DEF Writing, CountIsMid
  <2>3. m \notin Counted(g)  BY <2>2 DEF Counted
  <2>4. nameFile[g][m] = NoFile  BY <2>2, <2>3 DEF SerialInv, FreshOK
  <2> QED  BY <1>2, <2>1, <2>2, <2>3, <2>4 DEF WrittenOK, Named, files
<1>5. ASSUME pc[c] \in Filing, UNCHANGED <<job, mid, acked>>
      PROVE  /\ g \in Gid /\ m \in Mid /\ job[c] \in PostJob /\ m \notin acked'[g]
             /\ \A k \in Gid : msgDir[k] \subseteq msgDir'[k]
  BY <1>0, <1>5, WritersPost DEF Writing, WrittenOK, FilesGrow
<1>6. CASE MakeMessageDir(c)
  <2>1. /\ pc[c] = "mkdir" /\ pc'[c] = "author" /\ UNCHANGED <<job, mid, acked, files>>
    BY <1>0, <1>6 DEF MakeMessageDir, Goto, ProcTypeOK
  <2>2. g \in Gid /\ m \in Mid /\ m \notin acked'[g]  BY <1>5, <2>1 DEF Filing
  <2>3. nameFile[g][m] = NoFile  BY <1>0, <2>1 DEF WrittenOK, Named, Writing, Filing
  <2> QED  BY <2>1, <2>2, <2>3 DEF WrittenOK, Named, files
<1>7. CASE CreateAuthor(c)
  <2>1. /\ \/ pc[c] = "author" /\ pc'[c] = "author_w"
           \/ /\ pc[c] = "author_w" /\ pc'[c] = "text"
              /\ authorFile' = [authorFile EXCEPT ![g][m] = job[c].uid]
        /\ UNCHANGED <<job, mid, acked, nameFile>>
    BY <1>0, <1>7 DEF CreateAuthor, Goto, ProcTypeOK
  <2>2. g \in Gid /\ m \in Mid /\ m \notin acked'[g]  BY <1>5, <2>1 DEF Filing
  <2>3. nameFile[g][m] = NoFile  BY <1>0, <2>1 DEF WrittenOK, Named, Writing, Filing
  <2>4. pc'[c] = "text" => authorFile'[g][m] = job[c].uid
    BY <1>0, <2>1, <2>2 DEF FilesTypeOK
  <2> QED  BY <2>1, <2>2, <2>3, <2>4 DEF WrittenOK, Named
<1>8. CASE CreateText(c)
  <2>1. /\ \/ pc[c] = "text" /\ pc'[c] = "text_w"
           \/ /\ pc[c] = "text_w"
              /\ pc'[c] = IF job[c].fname = NoFile THEN "ack" ELSE "fname"
              /\ textFile' = [textFile EXCEPT ![g][m] = job[c].text]
        /\ UNCHANGED <<job, mid, acked, nameFile, authorFile, dataFile, msgDir>>
    BY <1>0, <1>8 DEF CreateText, Goto, ProcTypeOK, dirVars
  <2>2. g \in Gid /\ m \in Mid /\ m \notin acked'[g]  BY <1>5, <2>1 DEF Filing
  <2>3. nameFile[g][m] = NoFile /\ authorFile[g][m] = job[c].uid
    BY <1>0, <2>1 DEF WrittenOK, Named, Writing, Filing
  <2>4. pc'[c] # "text_w" => textFile'[g][m] = job[c].text
    BY <1>0, <2>1, <2>2 DEF FilesTypeOK
  <2>5. m \in msgDir[g]  BY <1>0, <2>1 DEF FiledOK, Filing
  <2> QED  BY <2>1, <2>2, <2>3, <2>4, <2>5 DEF WrittenOK, Named
<1>9. CASE CreateName(c)
  <2>1. /\ \/ pc[c] = "fname" /\ pc'[c] = "fname_w"
           \/ /\ pc[c] = "fname_w" /\ pc'[c] = "data"
              /\ nameFile' = [nameFile EXCEPT ![g][m] = job[c].fname]
        /\ UNCHANGED <<job, mid, acked, textFile, authorFile, dataFile>>
    BY <1>0, <1>9 DEF CreateName, Goto, ProcTypeOK
  <2>2. g \in Gid /\ m \in Mid /\ m \notin acked'[g]  BY <1>5, <2>1 DEF Filing
  <2>3. textFile[g][m] = job[c].text /\ authorFile[g][m] = job[c].uid
    BY <1>0, <2>1 DEF WrittenOK
  <2>4. pc'[c] = "data" => nameFile'[g][m] = job[c].fname
    BY <1>0, <2>1, <2>2 DEF FilesTypeOK
  <2> QED  BY <2>1, <2>2, <2>3, <2>4 DEF WrittenOK, Named
<1>10. CASE OpenData(c) \/ ReceiveBlock(c)
  <2>1. /\ pc[c] \in {"data", "recv"} /\ pc'[c] = "recv"
        /\ UNCHANGED <<job, mid, acked, textFile, authorFile, nameFile>>
    BY <1>0, <1>10 DEF OpenData, ReceiveBlock, Goto, ProcTypeOK
  <2>2. g \in Gid /\ m \in Mid /\ m \notin acked'[g] /\ job[c].fname \in FName
    BY <1>0, <1>5, <2>1 DEF Filing, StageOK
  <2>3. textFile[g][m] = job[c].text /\ authorFile[g][m] = job[c].uid
        /\ nameFile[g][m] = job[c].fname
    BY <1>0, <2>1 DEF WrittenOK, Named
  <2>4. dataFile'[g][m][job[c].fname] = off'[c]
    <3>1. CASE OpenData(c)
      <4>1. off[c] = 0 /\ off' = off  BY <3>1 DEF OpenData, SerialInv, OffsetOK
      <4> QED  BY <1>0, <2>2, <3>1, <4>1 DEF OpenData, FilesTypeOK
    <3>2. CASE ReceiveBlock(c)
      <4>1. dataFile[g][m][job[c].fname] = off[c] /\ off[c] \in 0 .. FileLen
        BY <1>0, <3>2 DEF ReceiveBlock, WrittenOK, ProcTypeOK
      <4>2. ~(dataFile[g][m][job[c].fname] > off[c])  BY <4>1
      <4>3. /\ off'[c] = off[c] + 1
            /\ dataFile' = [dataFile EXCEPT ![g][m][job[c].fname] =
                                IF @ > off[c] THEN @ ELSE off[c] + 1]
        BY <1>0, <3>2 DEF ReceiveBlock, ProcTypeOK
      <4>4. dataFile'[g][m][job[c].fname] = off[c] + 1
        BY <1>0, <2>2, <4>2, <4>3 DEF FilesTypeOK
      <4> QED  BY <4>3, <4>4
    <3> QED  BY <1>10, <3>1, <3>2
  <2> QED  BY <2>1, <2>2, <2>3, <2>4 DEF WrittenOK, Named
<1>11. CASE UploadDone(c)
  <2>1. /\ pc[c] = "recv" /\ pc'[c] = "ack" /\ off[c] = FileLen
        /\ UNCHANGED <<job, mid, acked, textFile, authorFile, nameFile, dataFile, msgDir>>
    BY <1>0, <1>11 DEF UploadDone, Goto, ProcTypeOK, files, dirVars
  <2>2. g \in Gid /\ m \in Mid /\ m \notin acked'[g] /\ job[c].fname \in FName
    BY <1>0, <1>5, <2>1 DEF Filing, StageOK
  <2>3. /\ textFile[g][m] = job[c].text /\ authorFile[g][m] = job[c].uid
        /\ nameFile[g][m] = job[c].fname /\ dataFile[g][m][job[c].fname] = FileLen
        /\ m \in msgDir[g]
    BY <1>0, <2>1 DEF WrittenOK, Named, FiledOK, Filing
  <2>4. job[c].fname # NoFile  BY <2>2, MessageAssumption
  <2> QED  BY <2>1, <2>2, <2>3, <2>4 DEF WrittenOK, Named
<1> QED
  BY <1>0, <1>1, <1>3, <1>4, <1>6, <1>7, <1>8, <1>9, <1>10, <1>11 DEF TcpStep, Work, Post,
     Retrieve, Accept, CheckLogin, CheckMember, UploadCut, Acknowledge, CountToSend, ReadText,
     ReadAuthor, ReadName, OpenToSend, SendBlock, NextMessage, HangUp, Goto, Exit, Writing,
     Filing, ProcTypeOK

(* A message that its post leaves has all its files. *)
LEMMA WholeStep ==
    ASSUME MsgInv, MsgInv', SerialInv, NEW c \in Child, TcpStep(c)
    PROVE  SettledWhole'
<1> SUFFICES ASSUME NEW g \in Gid, NEW m, m \in Settled(g)'
             PROVE  Whole(g, m)'
  BY DEF SettledWhole
<1>1. CASE m \in Settled(g)
  <2>1. Whole(g, m)  BY <1>1 DEF SerialInv, SettledWhole
  <2> QED  BY <1>1, <2>1, SettledUntouched DEF Whole
<1>2. CASE m \notin Settled(g)
  <2>1. /\ pc[c] \in Filing /\ pc'[c] \notin Filing /\ job[c].gid = g /\ m = mid[c]
    BY <1>2, SettledStep
  <2>2. m \in Mid /\ job[c] \in PostJob /\ job[c].uid \in Uid /\ job[c].text \in Text
    BY <2>1, Place
  <2>3. WrittenOK(c) /\ StageOK(c) /\ FiledOK(c) /\ FilesTypeOK
    BY DEF SerialInv, MsgInv
  <2>4. CASE pc[c] = "text_w" /\ CreateText(c)
    <3>1. /\ authorFile' = authorFile /\ nameFile' = nameFile
          /\ textFile' = [textFile EXCEPT ![g][m] = job[c].text]
      BY <2>1, <2>4 DEF CreateText
    <3>2. authorFile[g][m] = job[c].uid /\ nameFile[g][m] = NoFile
      BY <2>1, <2>3, <2>4 DEF WrittenOK, Named, Writing, Filing
    <3>3. textFile'[g][m] = job[c].text  BY <2>2, <2>3, <3>1 DEF FilesTypeOK
    <3> QED  BY <2>2, <3>1, <3>2, <3>3, MessageAssumption DEF Whole
  <2>5. CASE pc[c] = "recv" /\ UNCHANGED files
    <3>1. /\ authorFile[g][m] = job[c].uid /\ textFile[g][m] = job[c].text
          /\ nameFile[g][m] = job[c].fname /\ job[c].fname \in FName
          /\ dataFile[g][m][job[c].fname] # NoFile
      BY <2>1, <2>3, <2>5 DEF WrittenOK, Named, StageOK, FiledOK
    <3> QED  BY <2>2, <2>5, <3>1, MessageAssumption DEF Whole, files
  <2> QED  BY <2>1, <2>4, <2>5, FilingMoves DEF WriteCounter, Filing
<1> QED  BY <1>1, <1>2

(* The directories of a group are the messages counted, but for the one that  *)
(* is being posted.                                                           *)
LEMMA ListedStep ==
    ASSUME MsgInv, MsgInv', SerialInv, NEW c \in Child, TcpStep(c)
    PROVE  ListedIsLast'
<1> SUFFICES ASSUME NEW g \in Gid, g \in groupDir
             PROVE  msgDir'[g] \subseteq Counted(g)' /\ Settled(g)' \subseteq msgDir'[g]
  BY DirectoryUntouched DEF ListedIsLast, MsgInv, DirInv, DirTypeOK
<1>0. /\ msgDir[g] \subseteq Counted(g) /\ Settled(g) \subseteq msgDir[g]
      /\ Counted(g) \subseteq Counted(g)' /\ FilesGrow
  BY CountsGrow, WritingFiles DEF SerialInv, ListedIsLast
<1>1. msgDir'[g] \subseteq Counted(g)'
  <2>1. CASE MakeMessageDir(c) /\ job[c].gid = g
    <3>1. pc[c] = "mkdir" /\ msgDir' = [msgDir EXCEPT ![g] = @ \cup {mid[c]}]
      BY <2>1 DEF MakeMessageDir
    <3>2. mid[c] \in Mid /\ numMsg[g] # NoFile /\ mid[c] = numMsg[g]
      BY <2>1, <3>1, WritersPost DEF SerialInv, CountIsMid, Writing, Filing
    <3>3. mid[c] \in Counted(g)  BY <3>2 DEF Counted, Mid
    <3> QED  BY <1>0, <3>1, <3>3 DEF MsgInv, DirInv, DirTypeOK
  <2>2. CASE msgDir'[g] = msgDir[g]  BY <1>0, <2>2
  <2>3. CASE MakeMessageDir(c) /\ job[c].gid # g
    BY <1>0, <2>3 DEF MakeMessageDir, MsgInv, DirInv, DirTypeOK
  <2> QED
    BY <2>1, <2>2, <2>3, QuietOrWriting DEF dirVars, WriteCounter, CreateAuthor, CreateText,
       CreateName, OpenData, ReceiveBlock
<1>2. ASSUME NEW m, m \in Settled(g)'  PROVE m \in msgDir'[g]
  <2>1. CASE m \in Settled(g)
    <3>1. m \in Mid  BY <2>1, SettledUntouched
    <3> QED  BY <1>0, <2>1, <3>1 DEF FilesGrow
  <2>2. CASE m \notin Settled(g)
    <3>1. /\ pc[c] \in Filing /\ pc'[c] \notin Filing /\ job[c].gid = g /\ m = mid[c]
      BY <1>2, <2>2, SettledStep
    <3>2. pc[c] # "mkdir"
      BY <3>1, FilingMoves DEF WriteCounter
    <3>3. m \in Mid /\ m \in msgDir[g]  BY <3>1, <3>2, Place DEF MsgInv, FiledOK
    <3> QED  BY <1>0, <3>3 DEF FilesGrow
  <2> QED  BY <2>1, <2>2
<1> QED  BY <1>1, <1>2

(* A mid is confirmed when its message is settled. *)
LEMMA AckedStep ==
    ASSUME MsgInv, MsgInv', SerialInv, NEW c \in Child, TcpStep(c)
    PROVE  AckedStayCounted'
<1> SUFFICES ASSUME NEW g \in Gid, NEW m, m \in acked'[g]
             PROVE  m \in Settled(g)'
  BY DEF AckedStayCounted
<1>1. CASE m \in acked[g]
  BY <1>1, SettledStep DEF SerialInv, AckedStayCounted
<1>2. CASE m \notin acked[g]
  <2>1. Acknowledge(c) /\ job[c].gid = g /\ m = mid[c]
    <3>1. Acknowledge(c)
      BY <1>2 DEF TcpStep, Work, Post, Retrieve, Accept, CheckLogin, CheckMember, ReadCounter,
         WriteCounter, MakeMessageDir, CreateAuthor, CreateText, CreateName, OpenData,
         ReceiveBlock, UploadDone, UploadCut, CountToSend, ReadText, ReadAuthor, ReadName,
         OpenToSend, SendBlock, NextMessage, HangUp
    <3>2. acked' = [acked EXCEPT ![job[c].gid] = @ \cup {mid[c]}]
      BY <3>1 DEF Acknowledge
    <3> QED  BY <1>2, <3>1, <3>2 DEF MsgInv, ProcTypeOK
  <2>2. pc[c] = "ack" /\ pc[c] \in Writing  BY <2>1 DEF Acknowledge, Writing
  <2>3. m \in Mid /\ numMsg[g] # NoFile /\ m = numMsg[g]
    BY <2>1, <2>2, WritersPost DEF SerialInv, CountIsMid
  <2>4. \A d, k : ~FiledBy(d, g, k)
    <3>1. ASSUME NEW d, NEW k, FiledBy(d, g, k)  PROVE FALSE
      <4>1. d = c  BY <2>1, <2>2, <3>1, OnlyOneInFlight DEF SerialInv
      <4> QED  BY <2>2, <3>1, <4>1 DEF FiledBy, Filing
    <3> QED  BY <3>1
  <2>5. m \in Settled(g)  BY <2>3, <2>4, InFlightBy DEF Settled, Counted, Mid
  <2> QED  BY <2>5, SettledStep
<1> QED  BY <1>1, <1>2

(* A command of the main process changes no count and no message. *)
LEMMA UdpCounted ==
    ASSUME MsgInv, UdpStep, NEW g \in Gid
    PROVE  Counted(g)' = Counted(g) /\ (g \in groupDir => numMsg'[g] = numMsg[g])
<1>0. DirInv /\ DirInv' /\ UdpCommand  BY UdpCommandStep DEF UdpStep, MsgInv
<1>1. CASE g \in groupDir  BY <1>0, <1>1, UdpFrame DEF Counted
<1>2. CASE g \notin groupDir
  <2>1. numMsg[g] = NoFile
    BY <1>0, <1>2, LimitsAssumption DEF DirInv, DirTypeOK, GroupsDense, UnusedGroupsEmpty, Gid
  <2>2. CASE g \in groupDir'
    <3>1. numMsg'[g] = 0 /\ NoFile # 0  BY <1>0, <1>2, <2>2, UdpFrame, NoFileAssumption
    <3> QED  BY <1>2, <2>1, <3>1 DEF Counted
  <2>3. CASE g \notin groupDir'
    <3>1. numMsg'[g] = NoFile
      BY <1>0, <2>3, LimitsAssumption
      DEF DirInv, DirTypeOK, GroupsDense, UnusedGroupsEmpty, Gid
    <3> QED  BY <1>2, <2>1, <3>1 DEF Counted
  <2> QED  BY <2>2, <2>3
<1> QED  BY <1>1, <1>2

LEMMA UdpSettled ==
    ASSUME MsgInv, UdpStep, NEW g \in Gid
    PROVE  Settled(g)' = Settled(g)
BY UdpCounted DEF UdpStep, procVars, Settled, InFlight, Posters, Posting

(* A new group is listed with no message. *)
LEMMA UdpKeepsSerialInv ==
    ASSUME MsgInv, SerialInv, UdpStep
    PROVE  SerialInv'
<1>0. /\ UNCHANGED <<authorFile, textFile, nameFile, dataFile, pc, job, snap, mid, last, off,
                     buf, known, acked, msgDir>>
      /\ MsgInv' /\ groupDir \subseteq groupDir'
  BY UdpKeepsMsgInv, UdpFrame DEF UdpStep, files, procVars, MsgInv
<1>1. \A g : Posters(g)' = Posters(g)  BY <1>0 DEF Posters, Posting
<1>2. \A g, m : InFlight(g, m)' <=> InFlight(g, m)  BY <1>0, <1>1 DEF InFlight
<1>3. \A g \in Gid : Counted(g)' = Counted(g) /\ Settled(g)' = Settled(g)
  BY <1>2, UdpCounted DEF Settled
<1>4. OnePostAtATime' /\ FreshOK' /\ OffsetOK'
  BY <1>0, <1>1, <1>3 DEF SerialInv, OnePostAtATime, FreshOK, OffsetOK
<1>5. ASSUME NEW c \in Child  PROVE CountIsMid(c)' /\ WrittenOK(c)'
  <2>1. CountIsMid(c) /\ WrittenOK(c)  BY DEF SerialInv
  <2>2. pc[c] \in Writing => numMsg'[job[c].gid] = numMsg[job[c].gid]
    BY WritersPost, UdpCounted
  <2>3. CountIsMid(c)'  BY <1>0, <2>1, <2>2 DEF CountIsMid, Writing
  <2> QED  BY <1>0, <2>1, <2>3 DEF WrittenOK, Named
<1>6. SettledWhole' /\ AckedStayCounted'
  BY <1>0, <1>3 DEF SerialInv, SettledWhole, Whole, AckedStayCounted
<1>7. ListedIsLast'
  <2> SUFFICES ASSUME NEW g \in Gid, g \in groupDir'
               PROVE  msgDir[g] \subseteq Counted(g) /\ Settled(g) \subseteq msgDir[g]
    BY <1>0, <1>3 DEF ListedIsLast, MsgInv, DirInv, DirTypeOK
  <2>1. CASE g \in groupDir  BY <2>1 DEF SerialInv, ListedIsLast
  <2>2. CASE g \notin groupDir
    <3>1. msgDir[g] = {} /\ numMsg[g] = NoFile
      BY <2>2, LimitsAssumption
      DEF MsgInv, DirInv, DirTypeOK, GroupsDense, UnusedGroupsEmpty, Gid
    <3> QED  BY <3>1 DEF Settled, Counted
  <2> QED  BY <2>1, <2>2
<1> QED  BY <1>4, <1>5, <1>6, <1>7 DEF SerialInv

(* Every step of the server that leaves posts to a group apart keeps          *)
(* SerialInv.                                                                 *)
LEMMA SerialStep ==
    ASSUME MsgInv, MsgInv', SerialInv, [MsgNext /\ OnePostAtATime']_msgVars
    PROVE  SerialInv'
<1>1. CASE UNCHANGED msgVars
  <2>1. UNCHANGED <<authorFile, textFile, nameFile, dataFile, pc, job, mid, off, acked,
                    numMsg, msgDir, groupDir>>
    BY <1>1 DEF msgVars, files, procVars, dirVars, groupVars
  <2>2. \A g : Posters(g)' = Posters(g)  BY <2>1 DEF Posters, Posting
  <2>3. \A g : Counted(g)' = Counted(g) /\ Settled(g)' = Settled(g)
    BY <2>1, <2>2 DEF Counted, Settled, InFlight
  <2>4. OnePostAtATime' /\ FreshOK' /\ OffsetOK'
    BY <2>1, <2>2, <2>3 DEF SerialInv, OnePostAtATime, FreshOK, OffsetOK
  <2>5. ASSUME NEW c \in Child  PROVE CountIsMid(c)' /\ WrittenOK(c)'
    <3>1. CountIsMid(c) /\ WrittenOK(c)  BY DEF SerialInv
    <3> QED  BY <2>1, <3>1 DEF CountIsMid, WrittenOK, Named
  <2>6. SettledWhole' /\ AckedStayCounted' /\ ListedIsLast'
    BY <2>1, <2>3 DEF SerialInv, SettledWhole, Whole, AckedStayCounted, ListedIsLast
  <2> QED  BY <2>4, <2>5, <2>6 DEF SerialInv
<1>2. CASE UdpStep  BY <1>2, UdpKeepsSerialInv
<1>3. ASSUME NEW c \in Child, TcpStep(c), OnePostAtATime'  PROVE SerialInv'
  <2>1. FreshOK' /\ OffsetOK'  BY <1>3, FreshStep, OffsetStep
  <2>2. \A d \in Child : CountIsMid(d)'  BY <1>3, CountIsMidStep
  <2>3. \A d \in Child : WrittenOK(d)'
    <3>1. \A d \in Child \ {c} : WrittenOK(d)'  BY <1>3, OthersWritten
    <3>2. WrittenOK(c)'  BY <1>3, OwnWritten
    <3> QED  BY <3>1, <3>2
  <2>4. SettledWhole' /\ ListedIsLast' /\ AckedStayCounted'
    BY <1>3, WholeStep, ListedStep, AckedStep
  <2> QED  BY <1>3, <2>1, <2>2, <2>3, <2>4 DEF SerialInv
<1> QED  BY <1>1, <1>2, <1>3 DEF MsgNext

LEMMA SerialInitInv == MsgInit => SerialInv
<1> SUFFICES ASSUME MsgInit  PROVE SerialInv
  OBVIOUS
<1>1. /\ \A c \in Child : pc[c] = "idle" /\ off[c] = 0
      /\ \A g \in Gid : numMsg[g] = NoFile /\ acked[g] = {}
      /\ \A g \in Gid, m \in Mid : nameFile[g][m] = NoFile
      /\ groupDir = {}
  BY DEF MsgInit, DirInit
<1>2. \A g \in Gid : Posters(g) = {} /\ Counted(g) = {} /\ Settled(g) = {}
  BY <1>1 DEF Posters, Posting, Counted, Settled
<1> QED
  BY <1>1, <1>2 DEF SerialInv, OnePostAtATime, FreshOK, OffsetOK, CountIsMid, WrittenOK, Named,
     SettledWhole, ListedIsLast, AckedStayCounted, Writing, Filing

(* The inductive invariant of the server whose posts to a group do not        *)
(* overlap: what each stage of a post has written, and that all that is       *)
(* counted is written but for the post under way.                             *)
THEOREM SerialInvariant == SerialSpec => [](MsgInv /\ SerialInv)
<1>1. MsgInit => MsgInv /\ SerialInv  BY MsgInitInv, SerialInitInv
<1>2. MsgInv /\ SerialInv /\ [MsgNext /\ OnePostAtATime']_msgVars => (MsgInv /\ SerialInv)'
  BY MsgNextStep, SerialStep
<1> QED  BY <1>1, <1>2, PTL DEF SerialSpec

(* A client is told the mid under which its own message is stored, whole, and *)
(* that nobody else was told.                                                 *)
THEOREM AckNames == SerialSpec => []AckNamesThePost
<1>1. MsgInv /\ SerialInv => AckNamesThePost
  <2> SUFFICES ASSUME MsgInv, SerialInv, NEW c \in Child, pc[c] = "ack"
               PROVE  /\ Entry(job[c].gid, mid[c]) =
                           [author |-> job[c].uid, text |-> job[c].text,
                            fname |-> job[c].fname,
                            size |-> IF job[c].fname = NoFile THEN NoFile ELSE FileLen]
                      /\ mid[c] \notin acked[job[c].gid]
    BY DEF AckNamesThePost
  <2>1. WrittenOK(c) /\ job[c] \in PostJob /\ "ack" \in Writing
    BY WritersPost DEF SerialInv, Writing
  <2>2. job[c].fname = NoFile \/ job[c].fname \in FName  BY <2>1 DEF PostJob
  <2> QED  BY <2>1, <2>2, MessageAssumption DEF WrittenOK, Named, Entry, Filing
<1> QED  BY <1>1, SerialInvariant, PTL

(* The number "groups" lists is the last message, or one less while it is     *)
(* being posted.                                                              *)
THEOREM ListedLast == SerialSpec => []ListedIsLast
BY SerialInvariant, PTL DEF SerialInv

(* A step of a child lowers no count, as its post is the only one.            *)
LEMMA CountGrows ==
    ASSUME MsgInv, SerialInv, NEW c \in Child, TcpStep(c), NEW g \in groupDir
    PROVE  numMsg'[g] # NoFile /\ numMsg'[g] >= numMsg[g]
<1>1. g \in Gid /\ numMsg[g] \in 0 .. MaxMsg /\ numMsg[g] # NoFile
  BY DEF MsgInv, DirInv, DirTypeOK, GroupsDense
<1>2. CASE UNCHANGED numMsg  BY <1>1, <1>2
<1>3. CASE WriteCounter(c)
  <2>1. mid[c] = numMsg[job[c].gid] + 1 /\ mid[c] \in Mid /\ job[c].gid \in Gid
    BY <1>3, Place DEF WriteCounter, SerialInv, CountIsMid
  <2>2. mid[c] # NoFile  BY <2>1, NoFileAssumption DEF Mid
  <2>3. CASE g = job[c].gid
    <3>1. numMsg'[g] = mid[c]
      BY <1>3, <2>1, <2>3 DEF WriteCounter, MsgInv, DirInv, DirTypeOK
    <3> QED  BY <1>1, <2>1, <2>2, <2>3, <3>1
  <2>4. CASE g # job[c].gid
    <3>1. numMsg'[g] = numMsg[g]
      BY <1>1, <1>3, <2>4 DEF WriteCounter, MsgInv, DirInv, DirTypeOK
    <3> QED  BY <1>1, <3>1
  <2> QED  BY <2>3, <2>4
<1> QED
  BY <1>2, <1>3, QuietOrWriting DEF dirVars, groupVars, MakeMessageDir, CreateAuthor,
     CreateText, CreateName, OpenData, ReceiveBlock

(* Groups stay, keep their names, and their counts never go down.             *)
THEOREM PermanentNextToPosts == SerialSpec => GroupsPermanent
<1> DEFINE A == \A g \in groupDir :
                   /\ g \in groupDir' /\ groupName'[g] = groupName[g]
                   /\ numMsg'[g] # NoFile /\ numMsg'[g] >= numMsg[g]
<1>1. ASSUME MsgInv, SerialInv, [MsgNext]_msgVars  PROVE A
  <2> SUFFICES ASSUME NEW g \in groupDir
               PROVE  /\ g \in groupDir' /\ groupName'[g] = groupName[g]
                      /\ numMsg'[g] # NoFile /\ numMsg'[g] >= numMsg[g]
    OBVIOUS
  <2>0. DirInv  BY <1>1 DEF MsgInv
  <2>1. numMsg[g] \in 0 .. MaxMsg /\ numMsg[g] # NoFile
    BY <2>0 DEF DirInv, DirTypeOK, GroupsDense
  <2>2. CASE UdpStep
    <3>1. UdpCommand  BY <2>2 DEF UdpStep
    <3> QED  BY <2>0, <3>1, PermanentStep
  <2>3. CASE ~UdpStep
    <3>1. UNCHANGED <<groupDir, groupName>>  BY <1>1, <2>3, ChildFrame
    <3>2. CASE UNCHANGED msgVars
      BY <2>1, <3>1, <3>2 DEF msgVars, dirVars, groupVars
    <3>3. CASE \E c \in Child : TcpStep(c)  BY <1>1, <3>1, <3>3, CountGrows
    <3> QED  BY <1>1, <2>3, <3>2, <3>3 DEF MsgNext
  <2> QED  BY <2>2, <2>3
<1>2. MsgInv /\ SerialInv /\ [MsgNext /\ OnePostAtATime']_msgVars => [A]_dirVars
  BY <1>1
<1> QED  BY <1>2, SerialInvariant, PTL DEF SerialSpec, GroupsPermanent

(* What was confirmed can be retrieved from then on.                          *)
THEOREM AckedStay == SerialSpec => []AckedStayCounted
BY SerialInvariant, PTL DEF SerialInv

-----------------------------------------------------------------------------
(* Retrieves: what they have read of the messages that were settled when      *)
(* they began.                                                                *)

KnownOK(c) ==
    IsReader(c) => /\ \E n \in 0 .. MaxMsg : known[c] = 1 .. n
                   /\ known[c] \subseteq Settled(job[c].gid)

ReadOK(c) ==
    LET g == job[c].gid
        m == mid[c]
        f == buf[c].fname
    IN  /\ pc[c] \in {"r_author", "r_fname", "r_open", "r_send", "r_done"} =>
              buf[c].text # NoFile /\ (m \in known[c] => buf[c].text = textFile[g][m])
        /\ pc[c] \in {"r_fname", "r_open", "r_send", "r_done"} =>
              buf[c].author # NoFile /\ (m \in known[c] => buf[c].author = authorFile[g][m])
        /\ pc[c] \in {"r_open", "r_send", "r_done"} /\ m \in known[c] => f = nameFile[g][m]
        /\ pc[c] \in {"r_text", "r_author", "r_fname", "r_open"} => buf[c].size = NoFile
        /\ pc[c] = "r_done" /\ f = NoFile => buf[c].size = NoFile
        /\ pc[c] \in {"r_send", "r_done"} /\ m \in known[c] /\ f # NoFile =>
              buf[c].size = dataFile[g][m][f] /\ off[c] <= buf[c].size
        /\ pc[c] = "r_done" /\ m \in known[c] /\ f # NoFile => off[c] = buf[c].size

ReaderInv ==
    \A c \in Child :
        /\ KnownOK(c) /\ ReadOK(c)
        /\ pc[c] \in {"idle"} \cup Admitting => buf[c] = NoBuf

(* The group and the message of a child that is sending one. *)
LEMMA ReadingPlace ==
    ASSUME MsgInv, NEW c \in Child, pc[c] \in Reading
    PROVE  /\ job[c] \in RetrieveJob /\ job[c].op = "RTV" /\ IsReader(c)
           /\ job[c].gid \in Gid /\ mid[c] \in Mid /\ last[c] \in Mid /\ mid[c] <= last[c]
<1>1. /\ job[c] \in RetrieveJob /\ mid[c] \in Mid /\ last[c] \in Mid /\ mid[c] <= last[c]
      /\ job[c].gid \in groupDir
  BY DEF MsgInv, StageOK, Reading
<1>2. job[c].gid \in Gid /\ pc[c] # "idle"
  BY <1>1 DEF MsgInv, DirInv, DirTypeOK, GroupsDense, Reading
<1> QED  BY <1>1, <1>2 DEF IsReader, parseGID, RetrieveJob

(* The message a retrieve reads, when it was settled at the fork, has its     *)
(* files.                                                                     *)
LEMMA KnownIsWhole ==
    ASSUME MsgInv, SerialInv, NEW c \in Child, pc[c] \in Reading, KnownOK(c),
           mid[c] \in known[c]
    PROVE  /\ mid[c] \in Settled(job[c].gid) /\ Whole(job[c].gid, mid[c])
           /\ nameFile[job[c].gid][mid[c]] \in FName \cup {NoFile}
           /\ nameFile[job[c].gid][mid[c]] \in FName =>
                 dataFile[job[c].gid][mid[c]][nameFile[job[c].gid][mid[c]]] \in 0 .. FileLen
<1>1. /\ job[c].gid \in Gid /\ mid[c] \in Mid /\ IsReader(c)  BY ReadingPlace
<1>2. mid[c] \in Settled(job[c].gid)  BY <1>1 DEF KnownOK
<1>3. Whole(job[c].gid, mid[c])  BY <1>1, <1>2 DEF SerialInv, SettledWhole
<1>4. /\ nameFile[job[c].gid][mid[c]] \in FName \cup {Empty, NoFile}
      /\ \A f \in FName : dataFile[job[c].gid][mid[c]][f] \in (0 .. FileLen) \cup {NoFile}
  BY <1>1 DEF MsgInv, FilesTypeOK
<1>5. nameFile[job[c].gid][mid[c]] \in FName \cup {NoFile}  BY <1>3, <1>4 DEF Whole
<1>6. nameFile[job[c].gid][mid[c]] \in FName =>
         dataFile[job[c].gid][mid[c]][nameFile[job[c].gid][mid[c]]] \in 0 .. FileLen
  BY <1>3, <1>4 DEF Whole
<1> QED  BY <1>2, <1>3, <1>5, <1>6

(* Nobody else's step changes what a retrieve knows or has read. *)
LEMMA OthersRead ==
    ASSUME MsgInv, MsgInv', SerialInv, ReaderInv, NEW c \in Child, TcpStep(c),
           NEW d \in Child \ {c}
    PROVE  KnownOK(d)' /\ ReadOK(d)' /\ (pc'[d] \in {"idle"} \cup Admitting => buf'[d] = NoBuf)
<1>1. /\ pc'[d] = pc[d] /\ job'[d] = job[d] /\ mid'[d] = mid[d]
      /\ off'[d] = off[d] /\ buf'[d] = buf[d] /\ known'[d] = known[d]
  BY OthersUntouched DEF MsgInv, OthersSame
<1>2. KnownOK(d) /\ ReadOK(d) /\ (pc[d] \in {"idle"} \cup Admitting => buf[d] = NoBuf)
  BY DEF ReaderInv
<1>3. IsReader(d)' <=> IsReader(d)  BY <1>1 DEF IsReader
<1>4. ASSUME IsReader(d)  PROVE Settled(job[d].gid) \subseteq Settled(job[d].gid)'
  <2>1. job[d].gid \in Gid  BY <1>4 DEF IsReader, parseGID
  <2>2. ASSUME NEW g \in Gid  PROVE Settled(g) \subseteq Settled(g)'
    BY SettledStep
  <2>3. PICK g \in Gid : g = job[d].gid  BY <2>1
  <2>4. Settled(g)' = Settled(job[d].gid)'  BY <1>1, <2>3 DEF Settled, Counted, InFlight, Posters
  <2> QED  BY <2>2, <2>3, <2>4
<1>5. KnownOK(d)'  BY <1>1, <1>2, <1>3, <1>4 DEF KnownOK
<1>6. ReadOK(d)'
  <2>1. CASE pc[d] \notin Reading  BY <1>1, <2>1 DEF ReadOK, Reading
  <2>2. CASE pc[d] \in Reading /\ mid[d] \notin known[d]  BY <1>1, <1>2, <2>2 DEF ReadOK
  <2>3. CASE pc[d] \in Reading /\ mid[d] \in known[d]
    <3>1. mid[d] \in Settled(job[d].gid) /\ job[d].gid \in Gid
      BY <1>2, <2>3, KnownIsWhole, ReadingPlace
    <3>2. /\ authorFile'[job[d].gid][mid[d]] = authorFile[job[d].gid][mid[d]]
          /\ textFile'[job[d].gid][mid[d]] = textFile[job[d].gid][mid[d]]
          /\ nameFile'[job[d].gid][mid[d]] = nameFile[job[d].gid][mid[d]]
          /\ dataFile'[job[d].gid][mid[d]] = dataFile[job[d].gid][mid[d]]
      BY <3>1, SettledUntouched
    <3> QED  BY <1>1, <1>2, <3>2 DEF ReadOK
  <2> QED  BY <2>1, <2>2, <2>3
<1> QED  BY <1>1, <1>2, <1>5, <1>6

(* A child keeps its request and what it knows until it ends. *)
LEMMA ChildMoves ==
    ASSUME MsgInv, NEW c \in Child, TcpStep(c)
    PROVE  \/ \E j \in PostJob \cup RetrieveJob : Accept(c, j)
           \/ pc'[c] = "idle"
           \/ pc[c] # "idle" /\ job'[c] = job[c] /\ known'[c] = known[c]
<1>0. ProcTypeOK  BY DEF MsgInv
<1>4. CASE CheckLogin(c) \/ CheckMember(c) \/ ReadCounter(c) \/ WriteCounter(c)
  BY <1>0, <1>4
  DEF CheckLogin, CheckMember, ReadCounter, WriteCounter, Goto, Exit, ProcTypeOK
<1>5. CASE MakeMessageDir(c) \/ CreateAuthor(c) \/ CreateText(c) \/ CreateName(c) \/ OpenData(c)
  BY <1>5 DEF MakeMessageDir, CreateAuthor, CreateText, CreateName, OpenData
<1>6. CASE ReceiveBlock(c) \/ UploadDone(c) \/ UploadCut(c) \/ Acknowledge(c) \/ HangUp(c)
  BY <1>0, <1>6
  DEF ReceiveBlock, UploadDone, UploadCut, Acknowledge, HangUp, Goto, Exit, ProcTypeOK
<1>7. CASE CountToSend(c) \/ ReadText(c) \/ ReadAuthor(c) \/ ReadName(c)
  BY <1>0, <1>7
  DEF CountToSend, ReadText, ReadAuthor, ReadName, Goto, Exit, ProcTypeOK
<1>8. CASE OpenToSend(c) \/ SendBlock(c) \/ NextMessage(c)
  BY <1>0, <1>8 DEF OpenToSend, SendBlock, NextMessage, Goto, Exit, ProcTypeOK
<1> QED  BY <1>4, <1>5, <1>6, <1>7, <1>8 DEF TcpStep, Work, Post, Retrieve

(* Only a retrieve comes to a message to send. *)
LEMMA OnlyRetrieveReads ==
    ASSUME MsgInv, NEW c \in Child, TcpStep(c), pc'[c] \in Reading
    PROVE  Retrieve(c)
<1>0. ProcTypeOK  BY DEF MsgInv
<1> SUFFICES ASSUME ~Retrieve(c)  PROVE FALSE
  OBVIOUS
<1>1. CASE \E j \in PostJob \cup RetrieveJob : Accept(c, j)
  BY <1>0, <1>1 DEF Accept, Goto, ProcTypeOK, Reading
<1>2. CASE CheckLogin(c) \/ CheckMember(c) \/ ReadCounter(c) \/ WriteCounter(c)
  BY <1>0, <1>2 DEF CheckLogin, CheckMember, ReadCounter, WriteCounter, Goto, Exit, ProcTypeOK,
     Reading
<1>3. CASE MakeMessageDir(c) \/ CreateAuthor(c) \/ CreateText(c) \/ CreateName(c) \/ OpenData(c)
  BY <1>0, <1>3 DEF MakeMessageDir, CreateAuthor, CreateText, CreateName, OpenData, Goto,
     ProcTypeOK, Reading
<1>4. CASE ReceiveBlock(c) \/ UploadDone(c) \/ UploadCut(c) \/ Acknowledge(c) \/ HangUp(c)
  BY <1>0, <1>4 DEF ReceiveBlock, UploadDone, UploadCut, Acknowledge, HangUp, Goto, Exit,
     ProcTypeOK, Reading
<1> QED  BY <1>1, <1>2, <1>3, <1>4 DEF TcpStep, Work, Post

(* What a retrieve knows is what was settled at its fork. *)
LEMMA OwnKnown ==
    ASSUME MsgInv, MsgInv', SerialInv, ReaderInv, NEW c \in Child, TcpStep(c)
    PROVE  KnownOK(c)'
<1>0. KnownOK(c) /\ ProcTypeOK  BY DEF ReaderInv, MsgInv
<1>1. CASE \E j \in PostJob \cup RetrieveJob : Accept(c, j)
  <2>1. PICK j \in PostJob \cup RetrieveJob : Accept(c, j)  BY <1>1
  <2>2. /\ job'[c] = j /\ pc[c] = "idle" /\ pc'[c] = "login"
        /\ known'[c] = IF parseGID(j.gid) THEN Settled(j.gid) ELSE {}
    BY <1>0, <2>1 DEF Accept, Goto, ProcTypeOK
  <2>3. ASSUME NEW g \in Gid  PROVE Settled(g)' = Settled(g)
    BY <2>2, SettledStep DEF Filing
  <2> SUFFICES ASSUME IsReader(c)'
               PROVE  (\E n \in 0 .. MaxMsg : known'[c] = 1 .. n)
                      /\ known'[c] \subseteq Settled(job[c].gid)'
    BY DEF KnownOK
  <2>4. j.gid \in Gid  BY <2>2 DEF IsReader, parseGID
  <2>5. PICK g \in Gid : g = j.gid  BY <2>4
  <2>6. known'[c] = Settled(g)  BY <2>2, <2>5 DEF parseGID
  <2>7. Settled(g)' = Settled(job[c].gid)'
    BY <2>2, <2>5 DEF Settled, Counted, InFlight, Posters
  <2> QED  BY <2>3, <2>6, <2>7, SettledPrefix
<1>2. CASE pc'[c] = "idle"  BY <1>2 DEF KnownOK, IsReader
<1>3. CASE /\ pc[c] # "idle" /\ job'[c] = job[c] /\ known'[c] = known[c]
  <2> SUFFICES ASSUME IsReader(c)  PROVE known[c] \subseteq Settled(job[c].gid)'
    BY <1>0, <1>3 DEF KnownOK, IsReader
  <2>1. job[c].gid \in Gid  BY DEF IsReader, parseGID
  <2>2. PICK g \in Gid : g = job[c].gid  BY <2>1
  <2>3. Settled(g) \subseteq Settled(g)'  BY SettledStep
  <2>4. Settled(g)' = Settled(job[c].gid)'
    BY <1>3, <2>2 DEF Settled, Counted, InFlight, Posters
  <2> QED  BY <1>0, <2>2, <2>3, <2>4 DEF KnownOK
<1> QED  BY <1>1, <1>2, <1>3, ChildMoves

(* The buffer of a child that is not sending is empty. *)
LEMMA BufferStep ==
    ASSUME MsgInv, ReaderInv, NEW c \in Child, TcpStep(c)
    PROVE  pc'[c] \in {"idle"} \cup Admitting => buf'[c] = NoBuf
<1>0. ProcTypeOK /\ (pc[c] \in {"idle"} \cup Admitting => buf[c] = NoBuf)
  BY DEF ReaderInv, MsgInv
<1>1. CASE Exit(c)  BY <1>0, <1>1 DEF Exit, ProcTypeOK
<1>2. CASE \E j \in PostJob \cup RetrieveJob : Accept(c, j)
  BY <1>0, <1>2 DEF Accept
<1>3. CASE ~Exit(c) /\ (CheckLogin(c) \/ CheckMember(c) \/ ReadCounter(c) \/ CountToSend(c))
  BY <1>0, <1>3 DEF CheckLogin, CheckMember, ReadCounter, CountToSend, Admitting
<1>4. CASE WriteCounter(c) \/ MakeMessageDir(c) \/ CreateAuthor(c) \/ CreateText(c) \/ CreateName(c)
  BY <1>0, <1>4 DEF WriteCounter, MakeMessageDir, CreateAuthor, CreateText, CreateName, Goto,
     Admitting, ProcTypeOK
<1>5. CASE OpenData(c) \/ ReceiveBlock(c) \/ UploadDone(c)
  BY <1>0, <1>5 DEF OpenData, ReceiveBlock, UploadDone, Goto, Admitting, ProcTypeOK
<1>6. CASE ~Exit(c) /\ (ReadText(c) \/ ReadAuthor(c) \/ ReadName(c))
  BY <1>0, <1>6 DEF ReadText, ReadAuthor, ReadName, Goto, Admitting, ProcTypeOK
<1>7. CASE ~Exit(c) /\ (OpenToSend(c) \/ SendBlock(c) \/ NextMessage(c))
  BY <1>0, <1>7 DEF OpenToSend, SendBlock, NextMessage, Goto, Admitting, ProcTypeOK
<1> QED
  BY <1>1, <1>2, <1>3, <1>4, <1>5, <1>6, <1>7 DEF TcpStep, Work, Post, Retrieve, UploadCut,
     Acknowledge, HangUp

(* A retrieve reads of a message, one file after the other, what is in it. *)
LEMMA OwnRead ==
    ASSUME MsgInv, MsgInv', SerialInv, ReaderInv, NEW c \in Child, TcpStep(c)
    PROVE  ReadOK(c)'
<1> DEFINE g == job[c].gid
           m == mid[c]
<1>0. ProcTypeOK /\ KnownOK(c) /\ ReadOK(c) /\ StageOK(c) /\ FilesTypeOK
  BY DEF ReaderInv, MsgInv
<1>1. CASE pc'[c] \notin Reading  BY <1>1 DEF ReadOK, Reading
<1>2. CASE CountToSend(c) /\ pc'[c] \in Reading
  <2>1. pc[c] = "count" /\ pc'[c] = "r_text" /\ buf'[c] = buf[c]
    BY <1>0, <1>2 DEF CountToSend, Exit, Goto, Reading, ProcTypeOK
  <2>2. buf[c] = NoBuf  BY <2>1 DEF ReaderInv, Admitting
  <2> QED  BY <2>1, <2>2 DEF ReadOK, NoBuf
<1>3. CASE ReadText(c) /\ pc'[c] \in Reading
  <2>1. /\ pc[c] = "r_text" /\ pc'[c] = "r_author" /\ textFile[g][m] # NoFile
        /\ buf' = [buf EXCEPT ![c].text = textFile[g][m]]
        /\ UNCHANGED <<job, mid, known, off, textFile>>
    BY <1>0, <1>3 DEF ReadText, Exit, Goto, Reading, ProcTypeOK, files
  <2>2. buf'[c].text = textFile[g][m] /\ buf'[c].size = buf[c].size
    BY <1>0, <2>1 DEF ProcTypeOK, Buffer
  <2> QED  BY <1>0, <2>1, <2>2 DEF ReadOK
<1>4. CASE ReadAuthor(c) /\ pc'[c] \in Reading
  <2>1. /\ pc[c] = "r_author" /\ pc'[c] = "r_fname" /\ authorFile[g][m] # NoFile
        /\ buf' = [buf EXCEPT ![c].author = authorFile[g][m]]
        /\ UNCHANGED <<job, mid, known, off, textFile, authorFile>>
    BY <1>0, <1>4 DEF ReadAuthor, Exit, Goto, Reading, ProcTypeOK, files
  <2>2. /\ buf'[c].author = authorFile[g][m]
        /\ buf'[c].text = buf[c].text /\ buf'[c].size = buf[c].size
    BY <1>0, <2>1 DEF ProcTypeOK, Buffer
  <2> QED  BY <1>0, <2>1, <2>2 DEF ReadOK
<1>5. CASE ReadName(c)
  <2>1. /\ pc[c] = "r_fname"
        /\ pc'[c] = IF nameFile[g][m] = NoFile THEN "r_done" ELSE "r_open"
        /\ buf' = [buf EXCEPT ![c].fname = nameFile[g][m]]
        /\ UNCHANGED <<job, mid, known, off, textFile, authorFile, nameFile>>
    BY <1>0, <1>5 DEF ReadName, Goto, ProcTypeOK, files
  <2>2. /\ buf'[c].fname = nameFile[g][m] /\ buf'[c].author = buf[c].author
        /\ buf'[c].text = buf[c].text /\ buf'[c].size = buf[c].size
    BY <1>0, <2>1 DEF ProcTypeOK, Buffer
  <2> QED  BY <1>0, <2>1, <2>2 DEF ReadOK
<1>6. CASE OpenToSend(c) /\ pc'[c] \in Reading
  <2>1. /\ pc[c] = "r_open" /\ pc'[c] = "r_send"
        /\ buf' = [buf EXCEPT ![c].size = IF buf[c].fname = Empty THEN Huge
                                          ELSE dataFile[g][m][buf[c].fname]]
        /\ UNCHANGED <<job, mid, known, off, textFile, authorFile, nameFile, dataFile>>
    BY <1>0, <1>6 DEF OpenToSend, Exit, Goto, Reading, ProcTypeOK, files
  <2>2. /\ buf'[c].fname = buf[c].fname /\ buf'[c].author = buf[c].author
        /\ buf'[c].text = buf[c].text
        /\ buf[c].fname # Empty => buf'[c].size = dataFile[g][m][buf[c].fname]
    BY <1>0, <2>1 DEF ProcTypeOK, Buffer
  <2>3. m \in known[c] /\ buf[c].fname # NoFile =>
           /\ buf[c].fname \in FName
           /\ dataFile[g][m][buf[c].fname] \in 0 .. FileLen
    <3> SUFFICES ASSUME m \in known[c], buf[c].fname # NoFile
                 PROVE  /\ buf[c].fname \in FName
                        /\ dataFile[g][m][buf[c].fname] \in 0 .. FileLen
      OBVIOUS
    <3>1. buf[c].fname = nameFile[g][m]  BY <1>0, <2>1 DEF ReadOK
    <3>2. pc[c] \in Reading  BY <2>1 DEF Reading
    <3>3. nameFile[g][m] \in FName \cup {NoFile}  BY <1>0, <3>2, KnownIsWhole
    <3>4. nameFile[g][m] \in FName => dataFile[g][m][nameFile[g][m]] \in 0 .. FileLen
      BY <1>0, <3>2, KnownIsWhole
    <3> QED  BY <3>1, <3>3, <3>4
  <2>4. off[c] = 0  BY <2>1 DEF SerialInv, OffsetOK
  <2> QED  BY <1>0, <2>1, <2>2, <2>3, <2>4, MessageAssumption DEF ReadOK
<1>7. CASE SendBlock(c)
  <2>1. /\ pc[c] = "r_send"
        /\ UNCHANGED <<job, mid, known, buf, textFile, authorFile, nameFile, dataFile>>
    BY <1>0, <1>7 DEF SendBlock, Goto, ProcTypeOK, files
  <2>2. m \in known[c] /\ buf[c].fname # NoFile =>
           /\ buf[c].fname \in FName /\ buf[c].fname # Empty
           /\ dataFile[g][m][buf[c].fname] \in 0 .. FileLen
           /\ buf[c].size = dataFile[g][m][buf[c].fname] /\ off[c] <= buf[c].size
    <3> SUFFICES ASSUME m \in known[c], buf[c].fname # NoFile
                 PROVE  /\ buf[c].fname \in FName /\ buf[c].fname # Empty
                        /\ dataFile[g][m][buf[c].fname] \in 0 .. FileLen
                        /\ buf[c].size = dataFile[g][m][buf[c].fname]
                        /\ off[c] <= buf[c].size
      OBVIOUS
    <3>1. /\ buf[c].fname = nameFile[g][m]
          /\ buf[c].size = dataFile[g][m][buf[c].fname] /\ off[c] <= buf[c].size
      BY <1>0, <2>1 DEF ReadOK
    <3>2. pc[c] \in Reading  BY <2>1 DEF Reading
    <3>3. nameFile[g][m] \in FName \cup {NoFile}  BY <1>0, <3>2, KnownIsWhole
    <3>4. nameFile[g][m] \in FName => dataFile[g][m][nameFile[g][m]] \in 0 .. FileLen
      BY <1>0, <3>2, KnownIsWhole
    <3>5. nameFile[g][m] \in FName  BY <3>1, <3>3
    <3>6. nameFile[g][m] # Empty  BY <3>5, MessageAssumption
    <3>7. dataFile[g][m][nameFile[g][m]] \in 0 .. FileLen  BY <3>4, <3>5
    <3> QED  BY <3>1, <3>5, <3>6, <3>7, Zenon
  <2>3. off[c] \in Nat /\ FileLen \in Nat
    BY <1>0, MessageAssumption DEF ProcTypeOK
  <2>4. buf[c].fname # NoFile  BY <1>0, <2>1, MessageAssumption DEF StageOK
  <2>5. CASE MoreToSend(c)
    <3>1. off'[c] = off[c] + 1 /\ pc'[c] = "r_send"
      BY <1>0, <1>7, <2>1, <2>5 DEF SendBlock, ProcTypeOK
    <3>2. m \in known[c] => off[c] + 1 <= buf[c].size
      BY <2>2, <2>3, <2>4, <2>5 DEF MoreToSend
    <3> QED  BY <1>0, <2>1, <3>1, <3>2 DEF ReadOK
  <2>6. CASE ~MoreToSend(c)
    <3>1. off' = off /\ pc'[c] = "r_done"
      BY <1>0, <1>7, <2>6 DEF SendBlock, Goto, ProcTypeOK
    <3>2. m \in known[c] => off[c] = buf[c].size
      BY <2>2, <2>3, <2>4, <2>6 DEF MoreToSend
    <3> QED  BY <1>0, <2>1, <2>4, <3>1, <3>2 DEF ReadOK
  <2> QED  BY <2>5, <2>6
<1>8. CASE NextMessage(c) /\ pc'[c] \in Reading
  <2>1. pc'[c] = "r_text" /\ buf'[c] = NoBuf
    BY <1>0, <1>8 DEF NextMessage, Exit, Goto, Reading, ProcTypeOK
  <2> QED  BY <2>1 DEF ReadOK, NoBuf
<1> QED
  BY <1>0, <1>1, <1>2, <1>3, <1>4, <1>5, <1>6, <1>7, <1>8 DEF TcpStep, Work, Post, Retrieve,
     Accept, CheckLogin, CheckMember, ReadCounter, WriteCounter, MakeMessageDir, CreateAuthor,
     CreateText, CreateName, OpenData, ReceiveBlock, UploadDone, UploadCut, Acknowledge,
     HangUp, Goto, Exit, Reading, ProcTypeOK

LEMMA ReaderStep ==
    ASSUME MsgInv, MsgInv', SerialInv, ReaderInv, [MsgNext]_msgVars
    PROVE  ReaderInv'
<1>1. CASE UNCHANGED msgVars
  <2>1. UNCHANGED <<authorFile, textFile, nameFile, dataFile, pc, job, mid, off, buf, known,
                    numMsg>>
    BY <1>1 DEF msgVars, files, procVars, dirVars, groupVars
  <2>2. \A g : Settled(g)' = Settled(g)
    BY <2>1 DEF Counted, Settled, InFlight, Posters, Posting
  <2> QED  BY <2>1, <2>2 DEF ReaderInv, KnownOK, ReadOK, IsReader
<1>2. CASE UdpStep
  <2>1. UNCHANGED <<authorFile, textFile, nameFile, dataFile, pc, job, mid, off, buf, known>>
    BY <1>2 DEF UdpStep, files, procVars
  <2>2. \A g \in Gid : Settled(g)' = Settled(g)  BY <1>2, UdpSettled
  <2>3. ASSUME NEW c \in Child  PROVE KnownOK(c)' /\ ReadOK(c)'
    <3>1. KnownOK(c) /\ ReadOK(c)  BY DEF ReaderInv
    <3>2. KnownOK(c)'
      <4>1. CASE ~IsReader(c)  BY <2>1, <4>1 DEF KnownOK, IsReader
      <4>2. CASE IsReader(c)
        <5>1. PICK g \in Gid : g = job[c].gid  BY <4>2 DEF IsReader, parseGID
        <5>2. Settled(g)' = Settled(job[c].gid)'
          BY <2>1, <5>1 DEF Settled, Counted, InFlight, Posters
        <5> QED  BY <2>1, <2>2, <3>1, <4>2, <5>1, <5>2 DEF KnownOK
      <4> QED  BY <4>1, <4>2
    <3>3. ReadOK(c)'  BY <2>1, <3>1 DEF ReadOK
    <3> QED  BY <3>2, <3>3
  <2> QED  BY <2>1, <2>3 DEF ReaderInv
<1>3. ASSUME NEW c \in Child, TcpStep(c)  PROVE ReaderInv'
  <2>1. \A d \in Child \ {c} :
           KnownOK(d)' /\ ReadOK(d)' /\ (pc'[d] \in {"idle"} \cup Admitting => buf'[d] = NoBuf)
    BY <1>3, OthersRead
  <2>2. KnownOK(c)' /\ ReadOK(c)' /\ (pc'[c] \in {"idle"} \cup Admitting => buf'[c] = NoBuf)
    BY <1>3, OwnKnown, OwnRead, BufferStep
  <2> QED  BY <2>1, <2>2 DEF ReaderInv
<1> QED  BY <1>1, <1>2, <1>3 DEF MsgNext

LEMMA ReaderInitInv == MsgInit => ReaderInv
BY DEF MsgInit, ReaderInv, KnownOK, ReadOK, IsReader

-----------------------------------------------------------------------------
(* The mapping to MessageLog: a group's log is its settled messages.          *)

LogOf    == [g \in Gid |-> [m \in 1 .. Cardinality(Settled(g)) |-> Entry(g, m)]]
ReaderOf == [c \in Child |->
               IF ~IsReader(c) THEN NoFile
               ELSE [group |-> job[c].gid, upTo |-> Cardinality(known[c]),
                     next |-> IF pc[c] \in Reading THEN mid[c] ELSE job[c].first]]
AnswerOf == [c \in Child |-> IF pc[c] = "r_done" THEN Sent(c) ELSE NoFile]

LEMMA SettledEntries ==
    MsgInv /\ SerialInv => \A g \in Gid : \A m \in Settled(g) : Entry(g, m) \in LogEntry
<1> SUFFICES ASSUME MsgInv, SerialInv, NEW g \in Gid, NEW m, m \in Settled(g)
             PROVE  Entry(g, m) \in LogEntry
  OBVIOUS
<1>1. Whole(g, m)  BY DEF SerialInv, SettledWhole
<1>2. m \in Mid  BY LimitsAssumption DEF Settled, Counted, MsgInv, DirInv, DirTypeOK, Mid
<1>3. nameFile[g][m] \in FName \cup {NoFile}
  BY <1>1, <1>2 DEF Whole, MsgInv, FilesTypeOK
<1>4. nameFile[g][m] \in FName => dataFile[g][m][nameFile[g][m]] \in 0 .. Huge
  BY <1>1, <1>2, MessageAssumption DEF Whole, MsgInv, FilesTypeOK, Huge
<1> QED  BY <1>1, <1>3, <1>4 DEF Whole, Entry, LogEntry

(* Every group's log is a sequence of posts, and the settled messages are its *)
(* positions.                                                                 *)
LEMMA LogShape ==
    MsgInv /\ SerialInv =>
        \A g \in Gid : /\ LogOf[g] \in Seq(LogEntry)
                       /\ Len(LogOf[g]) = Cardinality(Settled(g))
                       /\ Settled(g) = 1 .. Len(LogOf[g])
                       /\ \A m \in Settled(g) : LogOf[g][m] = Entry(g, m)
<1> SUFFICES ASSUME MsgInv, SerialInv, NEW g \in Gid
             PROVE  /\ LogOf[g] \in Seq(LogEntry)
                    /\ Len(LogOf[g]) = Cardinality(Settled(g))
                    /\ Settled(g) = 1 .. Len(LogOf[g])
                    /\ \A m \in Settled(g) : LogOf[g][m] = Entry(g, m)
  OBVIOUS
<1>1. PICK n \in 0 .. MaxMsg : Settled(g) = 1 .. n  BY SettledPrefix
<1>2. n \in Nat /\ 1 \in Int /\ n \in Int  BY <1>1, LimitsAssumption
<1>3. Cardinality(Settled(g)) = n  BY <1>1, <1>2, FS_Interval
<1>4. LogOf[g] = [m \in 1 .. n |-> Entry(g, m)]  BY <1>3 DEF LogOf
<1>5. \A m \in 1 .. n : Entry(g, m) \in LogEntry  BY <1>1, SettledEntries
<1>6. LogOf[g] \in Seq(LogEntry) /\ Len(LogOf[g]) = n  BY <1>2, <1>4, <1>5
<1>7. \A m \in 1 .. n : LogOf[g][m] = Entry(g, m)  BY <1>4
<1> QED  BY <1>1, <1>3, <1>6, <1>7

LEMMA LogShapeNext ==
    MsgInv' /\ SerialInv' =>
        (\A g \in Gid : /\ LogOf[g] \in Seq(LogEntry)
                        /\ Len(LogOf[g]) = Cardinality(Settled(g))
                        /\ Settled(g) = 1 .. Len(LogOf[g])
                        /\ \A m \in Settled(g) : LogOf[g][m] = Entry(g, m))'
BY LogShape, PTL

(* The log is as before when the settled messages are.                        *)
LEMMA LogSame ==
    ASSUME MsgInv, MsgInv', SerialInv, SerialInv', NEW g \in Gid, Settled(g)' = Settled(g),
           \A m \in Settled(g) : Entry(g, m)' = Entry(g, m)
    PROVE  LogOf'[g] = LogOf[g]
<1>1. /\ LogOf[g] \in Seq(LogEntry) /\ LogOf'[g] \in Seq(LogEntry)
      /\ Settled(g) = 1 .. Len(LogOf[g])
      /\ \A m \in Settled(g) : LogOf[g][m] = Entry(g, m) /\ LogOf'[g][m] = Entry(g, m)'
  BY LogShape, LogShapeNext
<1>2. Len(LogOf'[g]) = Len(LogOf[g])  BY LogShape, LogShapeNext
<1> QED  BY <1>1, <1>2, SeqEqual

(* Nobody writes to a settled message. *)
LEMMA EntrySame ==
    ASSUME MsgInv, NEW c \in Child, TcpStep(c), NEW g \in Gid, NEW m \in Settled(g)
    PROVE  Entry(g, m)' = Entry(g, m)
BY SettledUntouched DEF Entry

(* When a post leaves its message, the message is appended to the log.        *)
LEMMA LogAppend ==
    ASSUME MsgInv, MsgInv', SerialInv, SerialInv', NEW c \in Child, TcpStep(c),
           pc[c] \in Filing, pc'[c] \notin Filing
    PROVE  /\ LogOf' # LogOf
           /\ \E g \in Gid, e \in LogEntry : LogOf' = [LogOf EXCEPT ![g] = Append(@, e)]
<1>1. job[c].gid \in Gid /\ mid[c] \in Mid  BY Place
<1>2. PICK g \in Gid : g = job[c].gid  BY <1>1
<1>3. Settled(g)' = Settled(g) \cup {mid[c]}  BY <1>2, SettledStep
<1>4. mid[c] \notin Settled(g)
  BY <1>2, InFlightBy DEF FiledBy, Settled
<1>5. /\ LogOf[g] \in Seq(LogEntry) /\ LogOf'[g] \in Seq(LogEntry)
      /\ Settled(g) = 1 .. Len(LogOf[g]) /\ Settled(g)' = 1 .. Len(LogOf'[g])
      /\ \A m \in Settled(g) : LogOf[g][m] = Entry(g, m)
      /\ \A m \in Settled(g)' : LogOf'[g][m] = Entry(g, m)'
  BY LogShape, LogShapeNext
<1>6. Len(LogOf'[g]) = Len(LogOf[g]) + 1
  <2>1. Len(LogOf[g]) \in Nat /\ Len(LogOf'[g]) \in Nat  BY <1>5, LenProperties
  <2>2. 1 .. Len(LogOf'[g]) = (1 .. Len(LogOf[g])) \cup {mid[c]}
        /\ mid[c] \notin 1 .. Len(LogOf[g]) /\ mid[c] \in Nat
    BY <1>1, <1>3, <1>4, <1>5 DEF Mid
  <2>3. Len(LogOf[g]) + 1 \in 1 .. Len(LogOf'[g])
    <3>1. mid[c] \in 1 .. Len(LogOf'[g])  BY <2>2
    <3> QED  BY <2>1, <2>2, <3>1
  <2>4. Len(LogOf[g]) + 2 \notin 1 .. Len(LogOf'[g])
    <3>1. mid[c] = Len(LogOf[g]) + 1  BY <2>1, <2>2, <2>3
    <3> QED  BY <2>1, <2>2, <3>1
  <2> QED  BY <2>1, <2>3, <2>4
<1> DEFINE e == LogOf'[g][Len(LogOf'[g])]
<1>7. e \in LogEntry  BY <1>5, <1>6, ElementOfSeq, LenProperties
<1>8. LogOf'[g] = Append(LogOf[g], e)
  <2>1. /\ Append(LogOf[g], e) \in Seq(LogEntry)
        /\ Len(Append(LogOf[g], e)) = Len(LogOf[g]) + 1
        /\ \A i \in 1 .. Len(LogOf[g]) : Append(LogOf[g], e)[i] = LogOf[g][i]
        /\ Append(LogOf[g], e)[Len(LogOf[g]) + 1] = e
    BY <1>5, <1>7, AppendProperties
  <2>2. \A i \in 1 .. Len(LogOf[g]) : LogOf'[g][i] = LogOf[g][i]
    BY <1>3, <1>5, EntrySame
  <2>3. Len(LogOf[g]) \in Nat  BY <1>5, LenProperties
  <2>4. ASSUME NEW i \in 1 .. Len(LogOf'[g])  PROVE LogOf'[g][i] = Append(LogOf[g], e)[i]
    <3>1. i \in 1 .. Len(LogOf[g]) \/ i = Len(LogOf[g]) + 1  BY <1>6, <2>3
    <3> QED  BY <1>6, <2>1, <2>2, <3>1
  <2>5. Len(LogOf'[g]) = Len(Append(LogOf[g], e))  BY <1>6, <2>1
  <2> HIDE DEF e
  <2> QED  BY <1>5, <2>1, <2>4, <2>5, SeqEqual
<1>9. ASSUME NEW h \in Gid, h # g  PROVE LogOf'[h] = LogOf[h]
  <2>1. Settled(h)' = Settled(h)  BY <1>2, <1>9, SettledStep
  <2> QED  BY <2>1, EntrySame, LogSame
<1>10. LogOf'[g] # LogOf[g]
  <2>1. Len(LogOf[g]) \in Nat  BY <1>5, LenProperties
  <2> QED  BY <1>6, <2>1
<1>11. LogOf' = [LogOf EXCEPT ![g] = Append(@, e)]
  <2>1. LogOf' = [h \in Gid |-> LogOf'[h]] /\ LogOf = [h \in Gid |-> LogOf[h]]
    BY DEF LogOf
  <2> HIDE DEF e, LogOf
  <2> QED  BY <1>8, <1>9, <2>1
<1> QED  BY <1>7, <1>10, <1>11

(* Any other step leaves the log alone. *)
LEMMA LogStays ==
    ASSUME MsgInv, MsgInv', SerialInv, SerialInv', NEW c \in Child, TcpStep(c),
           ~(pc[c] \in Filing /\ pc'[c] \notin Filing)
    PROVE  LogOf' = LogOf
<1>1. ASSUME NEW g \in Gid  PROVE LogOf'[g] = LogOf[g]
  <2>1. Settled(g)' = Settled(g)  BY SettledStep
  <2> QED  BY <2>1, EntrySame, LogSame
<1>2. LogOf' = [g \in Gid |-> LogOf'[g]] /\ LogOf = [g \in Gid |-> LogOf[g]]
  BY DEF LogOf
<1> QED  BY <1>1, <1>2

(* What a retrieve has sent of a message is a message, and the posted one     *)
(* when that was settled at the fork.                                         *)
LEMMA SentIsEntry ==
    MsgInv /\ SerialInv /\ ReaderInv =>
        \A c \in Child : pc[c] = "r_done" =>
            /\ Sent(c) \in LogEntry
            /\ mid[c] \in known[c] => Sent(c) = Entry(job[c].gid, mid[c])
<1> SUFFICES ASSUME MsgInv, SerialInv, ReaderInv, NEW c \in Child, pc[c] = "r_done"
             PROVE  /\ Sent(c) \in LogEntry
                    /\ mid[c] \in known[c] => Sent(c) = Entry(job[c].gid, mid[c])
  OBVIOUS
<1>1. buf[c] \in Buffer /\ off[c] \in 0 .. FileLen /\ ReadOK(c) /\ KnownOK(c)
  BY DEF MsgInv, ProcTypeOK, ReaderInv
<1>2. /\ buf[c].author \in Uid \cup {Empty} /\ buf[c].text \in Text \cup {Empty}
      /\ buf[c].fname \in FName \cup {NoFile, Empty} /\ buf[c].size \in (0 .. Huge) \cup {NoFile}
  BY <1>1 DEF ReadOK, Buffer
<1>3. buf[c] = [author |-> buf[c].author, text |-> buf[c].text, fname |-> buf[c].fname,
                size |-> buf[c].size]
  BY <1>1 DEF Buffer
<1>4. Huge \in 0 .. Huge  BY MessageAssumption DEF Huge
<1>5. [buf[c] EXCEPT !.size = Huge] =
         [author |-> buf[c].author, text |-> buf[c].text, fname |-> buf[c].fname, size |-> Huge]
  BY <1>3
<1>6. Sent(c) \in LogEntry
  <2>1. CASE Sent(c) = buf[c]  BY <1>2, <1>3, <2>1 DEF LogEntry
  <2>2. CASE Sent(c) = [buf[c] EXCEPT !.size = Huge]
    BY <1>2, <1>4, <1>5, <2>2 DEF LogEntry
  <2> QED  BY <2>1, <2>2 DEF Sent
<1>7. ASSUME mid[c] \in known[c]  PROVE Sent(c) = Entry(job[c].gid, mid[c])
  <2>1. /\ buf[c].text = textFile[job[c].gid][mid[c]]
        /\ buf[c].author = authorFile[job[c].gid][mid[c]]
        /\ buf[c].fname = nameFile[job[c].gid][mid[c]]
        /\ buf[c].fname = NoFile => buf[c].size = NoFile
        /\ buf[c].fname # NoFile => /\ buf[c].size = dataFile[job[c].gid][mid[c]][buf[c].fname]
                                    /\ off[c] = buf[c].size
    BY <1>1, <1>7 DEF ReadOK
  <2>2. Sent(c) = buf[c]  BY <2>1 DEF Sent
  <2>3. pc[c] \in Reading  BY DEF Reading
  <2>4. nameFile[job[c].gid][mid[c]] \in FName \cup {NoFile}
    BY <1>1, <1>7, <2>3, KnownIsWhole
  <2> QED  BY <1>3, <2>1, <2>2, <2>4, MessageAssumption DEF Entry
<1> QED  BY <1>6, <1>7

LEMMA SentIsEntryNext ==
    MsgInv' /\ SerialInv' /\ ReaderInv' =>
        (\A c \in Child : pc[c] = "r_done" =>
            /\ Sent(c) \in LogEntry
            /\ mid[c] \in known[c] => Sent(c) = Entry(job[c].gid, mid[c]))'
BY SentIsEntry, PTL

LEMMA ReaderShape ==
    MsgInv /\ ReaderInv =>
        \A c \in Child : IsReader(c) =>
            /\ ReaderOf[c] \in LogReader /\ job[c] \in RetrieveJob
            /\ \E n \in Nat : known[c] = 1 .. n /\ Cardinality(known[c]) = n
<1> SUFFICES ASSUME MsgInv, ReaderInv, NEW c \in Child, IsReader(c)
             PROVE  /\ ReaderOf[c] \in LogReader /\ job[c] \in RetrieveJob
                    /\ \E n \in Nat : known[c] = 1 .. n /\ Cardinality(known[c]) = n
  OBVIOUS
<1>1. PICK n \in 0 .. MaxMsg : known[c] = 1 .. n  BY DEF ReaderInv, KnownOK
<1>2. n \in Nat /\ n \in Int /\ 1 \in Int  BY <1>1, LimitsAssumption
<1>3. Cardinality(known[c]) = n  BY <1>1, <1>2, FS_Interval
<1>4. job[c] \in RetrieveJob /\ job[c].gid \in Gid
  BY DEF IsReader, MsgInv, ProcTypeOK, PostJob, parseGID
<1>5. job[c].first \in Mid /\ (pc[c] \in Reading => mid[c] \in Mid)
  BY <1>4, ReadingPlace DEF RetrieveJob
<1>6. ReaderOf[c] = [group |-> job[c].gid, upTo |-> n,
                     next |-> IF pc[c] \in Reading THEN mid[c] ELSE job[c].first]
  BY <1>3 DEF ReaderOf
<1>7. ReaderOf[c] \in LogReader  BY <1>2, <1>4, <1>5, <1>6 DEF LogReader
<1> QED  BY <1>1, <1>2, <1>3, <1>4, <1>7

LEMMA ReaderShapeNext ==
    MsgInv' /\ ReaderInv' =>
        (\A c \in Child : IsReader(c) =>
            /\ ReaderOf[c] \in LogReader /\ job[c] \in RetrieveJob
            /\ \E n \in Nat : known[c] = 1 .. n /\ Cardinality(known[c]) = n)'
BY ReaderShape, PTL

(* The others are seen as before. *)
LEMMA OthersViewed ==
    ASSUME MsgInv, NEW c \in Child, TcpStep(c), NEW d \in Child, d # c
    PROVE  ReaderOf'[d] = ReaderOf[d] /\ AnswerOf'[d] = AnswerOf[d]
<1>1. /\ pc'[d] = pc[d] /\ job'[d] = job[d] /\ mid'[d] = mid[d]
      /\ off'[d] = off[d] /\ buf'[d] = buf[d] /\ known'[d] = known[d]
  BY OthersUntouched DEF MsgInv, OthersSame
<1> QED  BY <1>1 DEF ReaderOf, AnswerOf, IsReader, Sent

(* A step of a child seen as a change of its reader and its answer. *)
LEMMA ViewChange ==
    ASSUME MsgInv, NEW c \in Child, TcpStep(c)
    PROVE  /\ ReaderOf' = [ReaderOf EXCEPT ![c] = ReaderOf'[c]]
           /\ AnswerOf' = [AnswerOf EXCEPT ![c] = AnswerOf'[c]]
<1>1. /\ ReaderOf' = [d \in Child |-> ReaderOf'[d]] /\ ReaderOf = [d \in Child |-> ReaderOf[d]]
      /\ AnswerOf' = [d \in Child |-> AnswerOf'[d]] /\ AnswerOf = [d \in Child |-> AnswerOf[d]]
  BY DEF ReaderOf, AnswerOf
<1>2. \A d \in Child \ {c} : ReaderOf'[d] = ReaderOf[d] /\ AnswerOf'[d] = AnswerOf[d]
  BY OthersViewed
<1> HIDE DEF ReaderOf, AnswerOf
<1> QED  BY <1>1, <1>2

-----------------------------------------------------------------------------
(* Every step of the server is one of MessageLog, or changes nothing there.   *)

LEMMA StutterMaps ==
    ASSUME LogOf' = LogOf, ReaderOf' = ReaderOf, AnswerOf' = AnswerOf
    PROVE  UNCHANGED Log!logVars
BY DEF Log!logVars, LogOf, ReaderOf, AnswerOf

LEMMA PostMaps ==
    ASSUME LogOf' # LogOf, ReaderOf' = ReaderOf, AnswerOf' = AnswerOf,
           \E g \in Gid, e \in LogEntry : LogOf' = [LogOf EXCEPT ![g] = Append(@, e)]
    PROVE  Log!LogNext
<1>1. Log!AppendPost  BY DEF Log!AppendPost, LogOf, ReaderOf, AnswerOf
<1> QED  BY <1>1 DEF Log!LogNext

LEMMA BeginMaps ==
    ASSUME NEW c \in Child, ReaderOf[c] = NoFile, ReaderOf'[c] # NoFile,
           NEW g \in Gid, NEW m \in Mid,
           ReaderOf' = [ReaderOf EXCEPT ![c] = [group |-> g, upTo |-> Len(LogOf[g]), next |-> m]],
           LogOf' = LogOf, AnswerOf' = AnswerOf
    PROVE  Log!LogNext
<1>1. Log!Begin(c)  BY DEF Log!Begin, LogOf, ReaderOf, AnswerOf
<1> QED  BY <1>1 DEF Log!LogNext

LEMMA DeliverMaps ==
    ASSUME NEW c \in Child, ReaderOf[c] # NoFile, AnswerOf[c] = NoFile, AnswerOf'[c] # NoFile,
           LogOf' = LogOf, ReaderOf' = ReaderOf, NEW e \in LogEntry,
           ReaderOf[c].next <= ReaderOf[c].upTo =>
               e = LogOf[ReaderOf[c].group][ReaderOf[c].next],
           AnswerOf' = [AnswerOf EXCEPT ![c] = e]
    PROVE  Log!LogNext
<1>1. Log!Deliver(c)  BY DEF Log!Deliver, LogOf, ReaderOf, AnswerOf
<1> QED  BY <1>1 DEF Log!LogNext

LEMMA ContinueMaps ==
    ASSUME NEW c \in Child, AnswerOf[c] # NoFile, AnswerOf' = [AnswerOf EXCEPT ![c] = NoFile],
           ReaderOf' = [ReaderOf EXCEPT ![c].next = @ + 1], LogOf' = LogOf
    PROVE  Log!LogNext
<1>1. Log!Continue(c)  BY DEF Log!Continue, LogOf, ReaderOf, AnswerOf
<1> QED  BY <1>1 DEF Log!LogNext

LEMMA FinishMaps ==
    ASSUME NEW c \in Child, ReaderOf[c] # NoFile, ReaderOf' = [ReaderOf EXCEPT ![c] = NoFile],
           AnswerOf' = [AnswerOf EXCEPT ![c] = NoFile], LogOf' = LogOf
    PROVE  Log!LogNext
<1>1. Log!Finish(c)  BY DEF Log!Finish, LogOf, ReaderOf, AnswerOf
<1> QED  BY <1>1 DEF Log!LogNext

(* A child that is no retrieve appends at most. *)
LEMMA PosterMaps ==
    ASSUME MsgInv, MsgInv', SerialInv, SerialInv', NEW c \in Child, TcpStep(c),
           ~IsReader(c), ~IsReader(c)'
    PROVE  [Log!LogNext]_(Log!logVars)
<1>1. ReaderOf'[c] = ReaderOf[c]  BY DEF ReaderOf
<1>2. AnswerOf'[c] = AnswerOf[c]
  <2>1. pc[c] # "r_done"  BY ReadingPlace DEF Reading
  <2>2. pc'[c] # "r_done"
    <3>1. pc'[c] = "r_done" => pc[c] \in Reading
      <4> SUFFICES ASSUME pc'[c] = "r_done"  PROVE pc[c] \in Reading
        OBVIOUS
      <4>1. Retrieve(c)  BY OnlyRetrieveReads DEF Reading
      <4> QED
        BY <4>1 DEF Retrieve, CountToSend, ReadText, ReadAuthor, ReadName, OpenToSend,
           SendBlock, NextMessage, Goto, Exit, MsgInv, ProcTypeOK, Reading
    <3> QED  BY <3>1, ReadingPlace
  <2> QED  BY <2>1, <2>2 DEF AnswerOf
<1>3. ReaderOf' = ReaderOf /\ AnswerOf' = AnswerOf
  <2>1. \A d \in Child : ReaderOf'[d] = ReaderOf[d] /\ AnswerOf'[d] = AnswerOf[d]
    BY <1>1, <1>2, OthersViewed
  <2>2. /\ ReaderOf' = [d \in Child |-> ReaderOf'[d]] /\ ReaderOf = [d \in Child |-> ReaderOf[d]]
        /\ AnswerOf' = [d \in Child |-> AnswerOf'[d]] /\ AnswerOf = [d \in Child |-> AnswerOf[d]]
    BY DEF ReaderOf, AnswerOf
  <2> HIDE DEF ReaderOf, AnswerOf
  <2> QED  BY <2>1, <2>2
<1>4. CASE pc[c] \in Filing /\ pc'[c] \notin Filing
  BY <1>3, <1>4, LogAppend, PostMaps
<1>5. CASE ~(pc[c] \in Filing /\ pc'[c] \notin Filing)
  BY <1>3, <1>5, LogStays, StutterMaps
<1> QED  BY <1>4, <1>5

(* A retrieve that is accepted begins. *)
LEMMA AcceptMaps ==
    ASSUME MsgInv, MsgInv', SerialInv, SerialInv', ReaderInv, ReaderInv',
           NEW c \in Child, TcpStep(c), ~IsReader(c), IsReader(c)'
    PROVE  Log!LogNext
<1>1. PICK j \in PostJob \cup RetrieveJob : Accept(c, j)
  BY ChildMoves DEF IsReader
<1>2. /\ job'[c] = j /\ pc[c] = "idle" /\ pc'[c] = "login" /\ UNCHANGED <<dirVars, files>>
      /\ known'[c] = IF parseGID(j.gid) THEN Settled(j.gid) ELSE {}
  BY <1>1 DEF Accept, Goto, MsgInv, ProcTypeOK
<1>3. j \in RetrieveJob /\ j.gid \in Gid /\ j.first \in Mid
  BY <1>2 DEF IsReader, parseGID, PostJob, RetrieveJob
<1>4. PICK g \in Gid, m \in Mid : g = j.gid /\ m = j.first  BY <1>3
<1>5. known'[c] = Settled(g) /\ Len(LogOf[g]) = Cardinality(Settled(g))
  BY <1>2, <1>4, LogShape DEF parseGID
<1>6. ReaderOf[c] = NoFile  BY DEF ReaderOf
<1>7. ReaderOf'[c] = [group |-> g, upTo |-> Len(LogOf[g]), next |-> m]
  BY <1>2, <1>4, <1>5 DEF ReaderOf, Reading
<1>8. ReaderOf'[c] # NoFile  BY ReaderShapeNext, LogAssumption
<1>9. AnswerOf'[c] = AnswerOf[c]  BY <1>2 DEF AnswerOf
<1>10. LogOf' = LogOf  BY <1>2, LogStays DEF Filing
<1>11. AnswerOf' = AnswerOf
  <2>1. AnswerOf' = [AnswerOf EXCEPT ![c] = AnswerOf'[c]]  BY ViewChange
  <2>2. AnswerOf = [d \in Child |-> AnswerOf[d]]  BY DEF AnswerOf
  <2> HIDE DEF AnswerOf
  <2> QED  BY <1>9, <2>1, <2>2
<1>12. ReaderOf' = [ReaderOf EXCEPT ![c] = [group |-> g, upTo |-> Len(LogOf[g]), next |-> m]]
  BY <1>7, ViewChange
<1> HIDE DEF LogOf, ReaderOf, AnswerOf
<1> QED  BY <1>6, <1>8, <1>10, <1>11, <1>12, BeginMaps, Zenon

(* A retrieve reads on, sends the message, goes to the next or ends. *)
LEMMA RetrieveMaps ==
    ASSUME MsgInv, MsgInv', SerialInv, SerialInv', ReaderInv, ReaderInv',
           NEW c \in Child, TcpStep(c), IsReader(c)
    PROVE  [Log!LogNext]_(Log!logVars)
<1>0. ProcTypeOK /\ ReaderOf[c] \in LogReader /\ ReaderOf[c] # NoFile /\ job[c] \in RetrieveJob
      /\ job[c].op = "RTV" /\ pc[c] # "idle"
  BY ReaderShape, LogAssumption DEF MsgInv, IsReader
<1>1. pc[c] \notin Writing  BY <1>0, WritersPost DEF Posting
<1>2. LogOf' = LogOf  BY <1>1, LogStays DEF Writing
<1>3. /\ ReaderOf' = [ReaderOf EXCEPT ![c] = ReaderOf'[c]]
      /\ AnswerOf' = [AnswerOf EXCEPT ![c] = AnswerOf'[c]]
  BY ViewChange
<1>4. CheckLogin(c) \/ CheckMember(c) \/ Retrieve(c) \/ HangUp(c)
  <2>1. ~UploadCut(c) /\ \A j \in PostJob \cup RetrieveJob : ~Accept(c, j)
    BY <1>0, <1>1 DEF Accept, UploadCut, Writing, Filing
  <2>2. ~ReadCounter(c) /\ ~WriteCounter(c) /\ ~MakeMessageDir(c) /\ ~OpenData(c)
    BY <1>0, <1>1 DEF ReadCounter, WriteCounter, MakeMessageDir, OpenData, Writing, Filing
  <2>3. ~CreateAuthor(c) /\ ~CreateText(c) /\ ~CreateName(c)
    BY <1>1 DEF CreateAuthor, CreateText, CreateName, Writing, Filing
  <2>4. ~ReceiveBlock(c) /\ ~UploadDone(c) /\ ~Acknowledge(c)
    BY <1>1 DEF ReceiveBlock, UploadDone, Acknowledge, Writing, Filing
  <2> QED  BY <2>1, <2>2, <2>3, <2>4 DEF TcpStep, Work, Post
<1>5. CASE pc'[c] = "idle"
  <2>1. ReaderOf'[c] = NoFile /\ AnswerOf'[c] = NoFile
    BY <1>5 DEF ReaderOf, AnswerOf, IsReader
  <2> QED  BY <1>0, <1>2, <1>3, <2>1, FinishMaps
<1>6. CASE pc[c] = "r_done" /\ pc'[c] # "idle"
  <2>1. /\ pc'[c] = "r_text" /\ mid'[c] = mid[c] + 1 /\ job'[c] = job[c] /\ known'[c] = known[c]
    BY <1>0, <1>4, <1>6 DEF Retrieve, CheckLogin, CheckMember, CountToSend, ReadText,
       ReadAuthor, ReadName, OpenToSend, SendBlock, NextMessage, HangUp, Goto, Exit, ProcTypeOK
  <2>2. AnswerOf[c] \in LogEntry  BY <1>6, SentIsEntry DEF AnswerOf
  <2>3. AnswerOf[c] # NoFile /\ AnswerOf'[c] = NoFile
    BY <2>1, <2>2, LogAssumption DEF AnswerOf
  <2>4. ReaderOf'[c] = [ReaderOf[c] EXCEPT !.next = @ + 1]
    <3>1. ReaderOf[c] = [group |-> job[c].gid, upTo |-> Cardinality(known[c]), next |-> mid[c]]
      BY <1>6 DEF ReaderOf, Reading
    <3>2. ReaderOf'[c] = [group |-> job[c].gid, upTo |-> Cardinality(known[c]),
                          next |-> mid[c] + 1]
      BY <1>0, <2>1 DEF ReaderOf, Reading, IsReader
    <3> QED  BY <3>1, <3>2
  <2>5. ReaderOf' = [ReaderOf EXCEPT ![c].next = @ + 1]  BY <1>3, <2>4
  <2> QED  BY <1>2, <1>3, <2>3, <2>5, ContinueMaps
<1>7. CASE pc[c] # "r_done" /\ pc'[c] # "idle"
  <2>1. /\ job'[c] = job[c] /\ known'[c] = known[c]
        /\ pc[c] \in Reading => pc'[c] \in Reading /\ mid'[c] = mid[c]
        /\ pc[c] \notin Reading /\ pc'[c] \in Reading => mid'[c] = job[c].first
    BY <1>0, <1>4, <1>7 DEF Retrieve, CheckLogin, CheckMember, CountToSend, ReadText,
       ReadAuthor, ReadName, OpenToSend, SendBlock, NextMessage, HangUp, Goto, Exit,
       ProcTypeOK, Reading
  <2>2. ReaderOf'[c] = ReaderOf[c]
    BY <1>0, <1>7, <2>1 DEF ReaderOf, IsReader
  <2>3. ReaderOf' = ReaderOf
    <3>1. ReaderOf = [d \in Child |-> ReaderOf[d]]  BY DEF ReaderOf
    <3> HIDE DEF ReaderOf
    <3> QED  BY <1>3, <2>2, <3>1
  <2>4. AnswerOf[c] = NoFile  BY <1>7 DEF AnswerOf
  <2>5. CASE pc'[c] # "r_done"
    <3>1. AnswerOf'[c] = AnswerOf[c]  BY <2>4, <2>5 DEF AnswerOf
    <3>2. AnswerOf = [d \in Child |-> AnswerOf[d]]  BY DEF AnswerOf
    <3>3. AnswerOf' = AnswerOf
      <4> HIDE DEF AnswerOf
      <4> QED  BY <1>3, <3>1, <3>2
    <3> QED  BY <1>2, <2>3, <3>3, StutterMaps
  <2>6. CASE pc'[c] = "r_done"
    <3> DEFINE e == AnswerOf'[c]
    <3>1. /\ e \in LogEntry
          /\ mid'[c] \in known'[c] => e = Entry(job[c].gid, mid[c])'
      BY <2>6, SentIsEntryNext DEF AnswerOf
    <3>2. e # NoFile  BY <3>1, LogAssumption
    <3>3. pc[c] \in Reading /\ mid'[c] = mid[c] /\ mid[c] \in Mid
      <4>1. pc[c] \in Reading
        BY <1>0, <1>4, <2>6 DEF Retrieve, CheckLogin, CheckMember, CountToSend, ReadText,
           ReadAuthor, ReadName, OpenToSend, SendBlock, NextMessage, HangUp, Goto, Exit,
           ProcTypeOK, Reading
      <4> QED  BY <2>1, <4>1, ReadingPlace
    <3>4. ReaderOf[c].group = job[c].gid /\ ReaderOf[c].upTo = Cardinality(known[c])
          /\ ReaderOf[c].next = mid[c]
      BY <3>3 DEF ReaderOf
    <3>5. ASSUME mid[c] <= Cardinality(known[c])  PROVE e = LogOf[job[c].gid][mid[c]]
      <4>1. PICK n \in Nat : known[c] = 1 .. n /\ Cardinality(known[c]) = n  BY ReaderShape
      <4>2. mid[c] \in known[c]  BY <3>3, <3>5, <4>1 DEF Mid
      <4>3. PICK g \in Gid : g = job[c].gid  BY <3>3, ReadingPlace
      <4>4. mid[c] \in Settled(g)  BY <3>3, <4>2, <4>3 DEF ReaderInv, KnownOK
      <4>5. LogOf[g][mid[c]] = Entry(g, mid[c])  BY <4>4, LogShape
      <4>6. Entry(job[c].gid, mid[c])' = Entry(g, mid[c])
        <5>1. /\ authorFile'[g][mid[c]] = authorFile[g][mid[c]]
              /\ textFile'[g][mid[c]] = textFile[g][mid[c]]
              /\ nameFile'[g][mid[c]] = nameFile[g][mid[c]]
              /\ dataFile'[g][mid[c]] = dataFile[g][mid[c]]
          BY <4>4, SettledUntouched
        <5> QED  BY <2>1, <3>3, <4>3, <5>1 DEF Entry
      <4> QED  BY <2>1, <3>1, <3>3, <4>2, <4>3, <4>5, <4>6
    <3>6. ReaderOf[c].next <= ReaderOf[c].upTo =>
              e = LogOf[ReaderOf[c].group][ReaderOf[c].next]
      BY <3>4, <3>5
    <3> HIDE DEF e
    <3> QED  BY <1>0, <1>2, <1>3, <2>3, <2>4, <3>1, <3>2, <3>6, DeliverMaps DEF e
  <2> QED  BY <2>5, <2>6
<1> QED  BY <1>5, <1>6, <1>7

LEMMA UdpMaps ==
    ASSUME MsgInv, MsgInv', SerialInv, SerialInv', UdpStep
    PROVE  UNCHANGED Log!logVars
<1>1. UNCHANGED <<files, procVars>>  BY DEF UdpStep
<1>2. ASSUME NEW g \in Gid  PROVE LogOf'[g] = LogOf[g]
  <2>1. Settled(g)' = Settled(g)  BY UdpSettled
  <2>2. \A m : Entry(g, m)' = Entry(g, m)  BY <1>1 DEF Entry, files
  <2> QED  BY <2>1, <2>2, LogSame
<1>3. LogOf' = [g \in Gid |-> LogOf'[g]] /\ LogOf = [g \in Gid |-> LogOf[g]]  BY DEF LogOf
<1>4. LogOf' = LogOf
  <2> HIDE DEF LogOf
  <2> QED  BY <1>2, <1>3
<1>5. ReaderOf' = ReaderOf /\ AnswerOf' = AnswerOf
  BY <1>1 DEF ReaderOf, AnswerOf, IsReader, Sent, procVars
<1> QED  BY <1>4, <1>5, StutterMaps

LEMMA LogInitMaps == MsgInit => Log!LogInit
<1> SUFFICES ASSUME MsgInit  PROVE Log!LogInit
  OBVIOUS
<1>1. \A c \in Child : ~IsReader(c) /\ pc[c] # "r_done"  BY DEF MsgInit, IsReader
<1>2. ASSUME NEW g \in Gid  PROVE LogOf[g] = <<>>
  <2>1. Settled(g) = {}  BY DEF MsgInit, DirInit, Settled, Counted
  <2>2. LogOf[g] \in Seq(LogEntry) /\ Len(LogOf[g]) = Cardinality({})
    BY <2>1, LogShape, MsgInitInv, SerialInitInv
  <2>3. Len(LogOf[g]) = 0  BY <2>2, FS_EmptySet
  <2> QED  BY <2>2, <2>3, EmptySeq
<1>3. LogOf = [g \in Gid |-> <<>>]
  <2>1. LogOf = [g \in Gid |-> LogOf[g]]  BY DEF LogOf
  <2> HIDE DEF LogOf
  <2> QED  BY <1>2, <2>1
<1> QED  BY <1>1, <1>3 DEF Log!LogInit, LogOf, ReaderOf, AnswerOf

LEMMA LogStep ==
    ASSUME MsgInv, MsgInv', SerialInv, SerialInv', ReaderInv, ReaderInv', [MsgNext]_msgVars
    PROVE  [Log!LogNext]_(Log!logVars)
<1>1. CASE UNCHANGED msgVars
  <2>1. UNCHANGED <<authorFile, textFile, nameFile, dataFile, pc, job, mid, off, buf, known,
                    numMsg>>
    BY <1>1 DEF msgVars, files, procVars, dirVars, groupVars
  <2>2. \A g : Settled(g)' = Settled(g)
    BY <2>1 DEF Counted, Settled, InFlight, Posters, Posting
  <2>3. \A g, m : Entry(g, m)' = Entry(g, m)  BY <2>1 DEF Entry
  <2>4. LogOf' = LogOf  BY <2>2, <2>3 DEF LogOf
  <2>5. ReaderOf' = ReaderOf /\ AnswerOf' = AnswerOf
    BY <2>1 DEF ReaderOf, AnswerOf, IsReader, Sent
  <2> QED  BY <2>4, <2>5, StutterMaps
<1>2. CASE UdpStep  BY <1>2, UdpMaps
<1>3. ASSUME NEW c \in Child, TcpStep(c)  PROVE [Log!LogNext]_(Log!logVars)
  <2>1. CASE IsReader(c)  BY <1>3, <2>1, RetrieveMaps
  <2>2. CASE ~IsReader(c) /\ IsReader(c)'  BY <1>3, <2>2, AcceptMaps
  <2>3. CASE ~IsReader(c) /\ ~IsReader(c)'  BY <1>3, <2>3, PosterMaps
  <2> QED  BY <2>1, <2>2, <2>3
<1> QED  BY <1>1, <1>2, <1>3 DEF MsgNext

(* When posts to a group do not overlap, the files and the processes of the   *)
(* server are a log to which whole posts are appended, and a retrieve gets    *)
(* the posts that were there at its fork, in order and exactly as they were   *)
(* sent.                                                                      *)
THEOREM ServerImplementsLog == SerialSpec => ImplementsLog
<1>1. MsgInit => MsgInv /\ SerialInv /\ ReaderInv
  BY MsgInitInv, SerialInitInv, ReaderInitInv
<1>2. MsgInv /\ SerialInv /\ ReaderInv /\ [MsgNext /\ OnePostAtATime']_msgVars
         => (MsgInv /\ SerialInv /\ ReaderInv)'
  BY MsgNextStep, SerialStep, ReaderStep
<1>3. MsgInv /\ SerialInv /\ ReaderInv /\ (MsgInv /\ SerialInv /\ ReaderInv)'
         /\ [MsgNext /\ OnePostAtATime']_msgVars
         => [Log!LogNext]_(Log!logVars)
  BY LogStep
<1> QED
  BY <1>1, <1>2, <1>3, LogInitMaps, PTL DEF SerialSpec, ImplementsLog, Log!LogSpec
=============================================================================
