-------------------------- MODULE PostTransferProofs --------------------------
(***************************************************************************)
(* PostTransfer, proved for texts and files of all lengths, reads of any   *)
(* size and a stream that is cut at any byte: while every read() brings    *)
(* its whole field, the byte places the server takes are the ones the      *)
(* client has written.                                                     *)
(***************************************************************************)
EXTENDS PostTransfer, TLAPS

(* The text has been read, and the file is stored up to the place the server  *)
(* has come to.                                                               *)
TextRead == text = [from |-> TextStart, to |-> TextEnd]

Stored ==
    /\ job.file # NoFile /\ TextRead
    /\ data = [from |-> HeaderEnd, to |-> pos] /\ missing = DataEnd - pos
    /\ HeaderEnd <= pos /\ pos <= DataEnd + 1
    /\ pos = DataEnd + 1 => Tail + job.file + 1 <= TailRead

Types ==
    /\ job \in Job /\ (job.file # NoFile => job.file \in Nat)
    /\ client \in {"header", "data", "reply"} \cup Ended
    /\ server \in {"op", "ids", "size", "text", "separator", "tail", "copy", "closed"}
    /\ link \in {"open", "fin", "reset", "broken"}
    /\ verdict \in Verdicts /\ missing \in Int /\ torn \in BOOLEAN
    /\ answer \in {"none", "mid", "NOK", "ERR"}
    /\ sent \in Nat /\ arrived \in Nat /\ pos \in Nat

(* What has been taken from the stream lies before the place of the reads.    *)
TextTaken == text \in [from : 0 .. pos, to : 0 .. pos] \/ (torn /\ text = Garbled)

DataTaken ==
    \/ data = NoFile
    \/ data \in [from : {HeaderEnd}, to : HeaderEnd .. pos]
    \/ torn /\ data = Garbled

Takes == TextTaken /\ DataTaken

(* The client writes the header, then the file, then one byte; nothing comes  *)
(* that was not sent.                                                         *)
Written ==
    /\ pos <= arrived /\ arrived <= sent
    /\ sent > 0 => sent >= HeaderEnd
    /\ client = "header" => sent = 0
    /\ client = "data" => job.file # NoFile /\ sent >= HeaderEnd /\ sent <= DataEnd
    /\ job.file # NoFile => sent <= DataEnd + 1
    /\ client \in {"posted", "killed"} => server = "closed"

(* Until it closes the connection the child has not answered, and its reads   *)
(* of the text ask for no negative number of bytes.                           *)
Open ==
    /\ server # "closed" => answer = "none" /\ link = "open"
    /\ link = "broken" => arrived < sent
    /\ server = "op" => pos = 0
    /\ server \in {"ids", "size"} => pos >= 3
    /\ server = "text" => missing \in Nat

(* Where the reads of the server are between its steps.                       *)
Reading ==
    /\ verdict = job.verdict
    /\ server \in {"op", "ids", "size", "text", "separator", "tail"} => data = NoFile
    /\ data = NoFile \/ Stored
    /\ server = "ids" => pos = 4
    /\ server = "size" => pos = 13
    /\ server = "text" =>
         /\ text = [from |-> TextStart, to |-> pos] /\ missing = TextEnd - pos
         /\ TextStart <= pos /\ pos <= TextEnd
    /\ server = "separator" => pos = TextEnd /\ TextRead
    /\ server = "tail" => pos = TextEnd + 1 /\ job.file # NoFile /\ TextRead
    /\ server = "copy" => Stored

(* What the answer says of what is stored.                                    *)
Answered ==
    /\ answer = "NOK" => data = NoFile /\ job.verdict # "fine"
    /\ answer # "ERR"
    /\ answer = "mid" =>
         /\ TextRead
         /\ \/ (job.file = NoFile \/ job.text = 1) /\ data = NoFile
            \/ Stored /\ (pos >= DataEnd \/ (sent < DataEnd /\ client \in Ended \ {"posted"}))

PostInv == Types /\ Takes /\ Written /\ Open /\ (~torn => Reading /\ Answered)

-----------------------------------------------------------------------------
(* The places of the fields, in the order of the request.                     *)
LEMMA Places ==
    ASSUME job \in Job
    PROVE  /\ OpEnd = 4 /\ IdsEnd = 13 /\ job.text \in 1 .. 240
           /\ Digits(job.text) \in 1 .. 3 /\ TextStart = 14 + Digits(job.text)
           /\ TextEnd = TextStart + job.text /\ TextEnd \in Nat
           /\ HeaderEnd \in Nat /\ HeaderEnd >= 17 /\ HeaderEnd >= TextEnd + 1
           /\ job.file # NoFile =>
                /\ job.file \in Nat /\ HeaderEnd = TextEnd + 1 + Tail
                /\ Tail \in Nat /\ Tail >= 2 /\ Tail <= TailRead
                /\ DataEnd = HeaderEnd + job.file /\ DataEnd \in Nat
           /\ job.text = 1 => TextStart = 15
           /\ job.text # 1 => TextEnd >= 17
<1>1. job.text \in 1 .. 240 /\ (job.file # NoFile => job.file \in FileLen /\ job.file \in Nat)
  BY LengthAssumption DEF Job
<1>2. /\ Digits(job.text) \in 1 .. 3 /\ (job.text = 1 => Digits(job.text) = 1)
      /\ job.text # 1 => Digits(job.text) + job.text >= 3
  BY <1>1 DEF Digits
<1>3. /\ TextStart = 14 + Digits(job.text) /\ TextEnd = TextStart + job.text
  BY <1>1, <1>2 DEF TextStart, TextEnd, IdsEnd
<1>4. HeaderEnd = TextEnd + 1 \/ (job.file # NoFile /\ HeaderEnd = TextEnd + 1 + Tail)
  BY DEF HeaderEnd
<1>5. job.file # NoFile => HeaderEnd = TextEnd + 1 + Tail /\ DataEnd = HeaderEnd + job.file
  BY DEF HeaderEnd, DataEnd
<1>6. ASSUME job.file # NoFile
      PROVE  Tail \in Nat /\ Tail >= 2 /\ Tail <= TailRead
  <2>1. SizeLen[job.file] \in 1 .. 10 /\ Name + SizeLen[job.file] + 2 <= TailRead
    BY <1>1, <1>6, LengthAssumption
  <2>2. Name \in Nat /\ TailRead \in Nat  BY LengthAssumption
  <2> QED  BY <2>1, <2>2 DEF Tail
<1>7. TextEnd \in Nat /\ TextEnd >= 16  BY <1>1, <1>2, <1>3
<1>8. HeaderEnd \in Nat /\ HeaderEnd >= TextEnd + 1  BY <1>4, <1>6, <1>7
<1>9. job.file # NoFile => DataEnd \in Nat  BY <1>1, <1>5, <1>8
<1> QED  BY <1>1, <1>2, <1>3, <1>5, <1>6, <1>7, <1>8, <1>9 DEF OpEnd, IdsEnd

(* The places belong to the post and do not move.                             *)
LEMMA PlacesStay ==
    ASSUME job' = job
    PROVE  /\ TextStart' = TextStart /\ TextEnd' = TextEnd
           /\ HeaderEnd' = HeaderEnd /\ DataEnd' = DataEnd /\ Tail' = Tail
BY DEF TextStart, TextEnd, HeaderEnd, DataEnd, Tail

(* The smaller of two numbers.                                                *)
LEMMA LesserOfTwo ==
    ASSUME NEW a \in Int, NEW b \in Int
    PROVE  /\ Lesser(a, b) \in Int /\ Lesser(a, b) <= a /\ Lesser(a, b) <= b
           /\ Lesser(a, b) = a \/ Lesser(a, b) = b
BY DEF Lesser

(* What is stored does not change while the server does not read.             *)
LEMMA StoredStays ==
    ASSUME UNCHANGED <<job, pos, text, data, missing>>
    PROVE  Stored' = Stored /\ TextRead' = TextRead
BY PlacesStay DEF Stored, TextRead

-----------------------------------------------------------------------------
(* Steps of the client and of the network. *)

(* The client goes on, or ends, and writes what comes next.                   *)
LEMMA ClientStep ==
    ASSUME PostInv, WriteHeader \/ WriteData \/ ReadReply \/ NoSuchFile \/ TimeOut \/ Interrupt
    PROVE  PostInv'
<1> USE DEF PostInv
<1>1. UNCHANGED <<job, server, arrived, pos, link, answer, verdict, missing, text, data, torn>>
  BY DEF seen, WriteHeader, WriteData, Write, WriteKilled, WriteReset, ReadReply, NoSuchFile, TimeOut,
         Interrupt
<1>2. /\ Stored' = Stored /\ TextRead' = TextRead /\ HeaderEnd' = HeaderEnd /\ DataEnd' = DataEnd
      /\ TextStart' = TextStart /\ TextEnd' = TextEnd
  BY <1>1, StoredStays, PlacesStay
<1>3. /\ HeaderEnd \in Nat /\ HeaderEnd >= 17
      /\ job.file # NoFile => DataEnd = HeaderEnd + job.file /\ job.file \in Nat
  BY Places DEF Types
<1>4. /\ sent' \in Nat /\ sent <= sent'
      /\ client' \in {"data", "reply"} \cup Ended
      /\ sent' # sent => client \notin Ended /\ client' \notin Ended
      /\ client \in Ended => client' = client
      /\ client' = "data" => job.file # NoFile /\ sent' >= HeaderEnd /\ sent' <= DataEnd
      /\ client' \in {"posted", "killed"} => server = "closed"
      /\ sent' > 0 => sent' >= HeaderEnd
      /\ job.file # NoFile => sent' <= DataEnd + 1
  <2>1. CASE WriteHeader
    BY <1>3, <2>1 DEF WriteHeader, Written, Types, Ended
  <2>2. CASE WriteData
    <3>1. client = "data" /\ job.file # NoFile /\ sent >= HeaderEnd /\ sent <= DataEnd
      BY <2>2 DEF WriteData, Written
    <3>2. CASE sent < DataEnd /\ Write(Lesser(Block, DataEnd - sent), "data")
      <4>0. DataEnd - sent \in Nat /\ Block \in Nat
        BY <1>3, <3>1, LengthAssumption DEF Types
      <4>1. Lesser(Block, DataEnd - sent) <= DataEnd - sent /\ Lesser(Block, DataEnd - sent) \in Nat
        BY <4>0 DEF Lesser
      <4> QED  BY <1>3, <3>1, <3>2, <4>1 DEF Write, Types, Ended
    <3>3. CASE sent = DataEnd /\ Write(1, "reply")
      BY <1>3, <3>1, <3>3 DEF Write, Types, Ended
    <3>4. CASE WriteKilled \/ WriteReset(Outcome) \/ WriteReset({"failed"})
      BY <1>3, <3>1, <3>4 DEF WriteKilled, WriteReset, Outcome, Types, Open, Ended
    <3> QED  BY <2>2, <3>2, <3>3, <3>4 DEF WriteData
  <2>3. CASE ReadReply \/ NoSuchFile \/ TimeOut \/ Interrupt
    <3>1. sent' = sent /\ client \notin Ended /\ client' \in Ended
      BY <2>3 DEF ReadReply, NoSuchFile, TimeOut, Interrupt, Outcome, Ended
    <3>2. client' \in {"posted", "killed"} => server = "closed"
      BY <2>3 DEF ReadReply, NoSuchFile, TimeOut, Interrupt, Outcome, Ended, Open
    <3> QED  BY <3>1, <3>2 DEF Written, Types, Ended
  <2> QED  BY <2>1, <2>2, <2>3
<1>5. Types'  BY <1>1, <1>4 DEF Types
<1>6. Written'  BY <1>1, <1>2, <1>4 DEF Written, Types, Ended
<1>7. Takes' /\ Open'  BY <1>1, <1>2, <1>4 DEF Takes, TextTaken, DataTaken, Open, Types
<1>8. ASSUME ~torn  PROVE Reading' /\ Answered'
  <2>1. Reading /\ Answered  BY <1>8
  <2>2. Reading'  BY <1>1, <1>2, <2>1 DEF Reading
  <2>3. ASSUME sent < DataEnd, client \in Ended \ {"posted"}
        PROVE  sent' < DataEnd /\ client' \in Ended \ {"posted"}
    BY <1>4, <2>3
  <2>4. Answered'  BY <1>1, <1>2, <2>1, <2>3 DEF Answered
  <2> QED  BY <2>2, <2>4
<1> QED  BY <1>1, <1>5, <1>6, <1>7, <1>8

(* Bytes arrive, or a reset.                                                  *)
LEMMA NetworkStep ==
    ASSUME PostInv, Arrive \/ ResetComes
    PROVE  PostInv'
<1> USE DEF PostInv
<1>1. /\ UNCHANGED <<job, client, server, sent, pos, answer, verdict, missing, text, data, torn>>
      /\ arrived' \in Nat /\ arrived <= arrived' /\ arrived' <= sent
      /\ server # "closed" => link' = link
      /\ link' = "broken" => arrived' < sent
      /\ link' \in {"open", "fin", "reset", "broken"}
  <2>1. CASE Arrive  BY <2>1 DEF Arrive, Types, Written, Open, seen
  <2>2. CASE ResetComes  BY <2>2 DEF ResetComes, Types, Written, Open, seen
  <2> QED  BY <2>1, <2>2
<1>2. /\ Stored' = Stored /\ TextRead' = TextRead
      /\ HeaderEnd' = HeaderEnd /\ DataEnd' = DataEnd
      /\ TextStart' = TextStart /\ TextEnd' = TextEnd
  BY <1>1, StoredStays, PlacesStay
<1>3. Types'  BY <1>1 DEF Types
<1>4. Written'  BY <1>1, <1>2 DEF Written, Types
<1>5. Takes' /\ Open'  BY <1>1, <1>2 DEF Takes, TextTaken, DataTaken, Open, Types
<1>6. ASSUME ~torn  PROVE Reading' /\ Answered'
  BY <1>1, <1>2, <1>6 DEF Reading, Answered
<1> QED  BY <1>1, <1>3, <1>4, <1>5, <1>6

-----------------------------------------------------------------------------
(* Steps of the child. *)

(* The child reads no more than has arrived.                                  *)
LEMMA GotBytes ==
    ASSUME PostInv, NEW want \in Nat
    PROVE  /\ Got(want) \in Nat /\ Got(want) <= want /\ pos + Got(want) <= arrived
           /\ arrived - pos >= want => Got(want) = want
           /\ arrived - pos < want => pos + Got(want) = arrived
BY DEF Got, Lesser, PostInv, Types, Written

(* One read(): the place moves on, and a field that ends is not torn.         *)
LEMMA FieldRead ==
    ASSUME PostInv, NEW want \in Nat, NEW end \in Nat, ReadField(want, end)
    PROVE  /\ pos' \in Nat /\ pos <= pos' /\ pos' <= pos + want /\ pos' <= arrived
           /\ pos' < pos + want => pos' = arrived
           /\ pos' = pos /\ want > 0 => arrived = sent /\ Hung /\ arrived = pos
           /\ torn' \in BOOLEAN /\ (~torn' => ~torn /\ pos' >= end)
           /\ UNCHANGED <<job, client, sent, arrived>>
<1>1. pos \in Nat /\ arrived \in Nat /\ pos <= arrived /\ torn \in BOOLEAN
  BY DEF PostInv, Types, Written
<1>2. /\ pos' = pos + Got(want) /\ CanRead /\ torn' = (torn \/ pos' < end)
      /\ UNCHANGED <<job, client, sent, arrived>>
  BY DEF ReadField
<1>3. /\ Got(want) \in Nat /\ Got(want) <= want /\ pos + Got(want) <= arrived
      /\ arrived - pos >= want => Got(want) = want
      /\ arrived - pos < want => pos + Got(want) = arrived
  BY GotBytes
<1>4. pos' \in Nat /\ pos <= pos' /\ pos' <= pos + want /\ pos' <= arrived
  BY <1>1, <1>2, <1>3
<1>5. pos' < pos + want => pos' = arrived  BY <1>1, <1>2, <1>3
<1>6. ASSUME pos' = pos, want > 0  PROVE arrived = sent /\ Hung /\ arrived = pos
  <2>1. Got(want) = 0  BY <1>1, <1>2, <1>3, <1>6
  <2>2. arrived = pos  BY <1>1, <1>3, <1>6, <2>1
  <2> QED  BY <1>1, <1>2, <2>2 DEF CanRead
<1>7. torn' \in BOOLEAN /\ (~torn' => ~torn /\ pos' >= end)
  <2>1. (~torn' => ~torn /\ ~(pos' < end)) /\ torn' \in BOOLEAN  BY <1>1, <1>2
  <2> QED  BY <1>4, <2>1
<1> QED  BY <1>2, <1>4, <1>5, <1>6, <1>7

(* What a step of the child does in any case: it goes on without an answer,   *)
(* or answers and closes.                                                     *)
ReadsOn ==
    /\ server' \in {"ids", "size", "text", "separator", "tail", "copy"}
    /\ UNCHANGED <<link, answer>>

Closes(a) == server' = "closed" /\ answer' = a /\ link' \in {"fin", "reset"}

LEMMA CloseIs ==
    ASSUME NEW a, Close(a)
    PROVE  Closes(a)
BY DEF Close, Closes

(* A step of the child keeps what holds whether a field was torn or not, and  *)
(* the rest has to be shown when none was.                                    *)
LEMMA ChildStep ==
    ASSUME PostInv, server # "closed",
           UNCHANGED <<job, client, sent, arrived>>,
           pos' \in Nat, pos' <= arrived, verdict' \in Verdicts, missing' \in Int,
           torn' \in BOOLEAN,
           ReadsOn \/ \E a \in {"none", "mid", "NOK", "ERR"} : Closes(a),
           server' # "op", server' \in {"ids", "size"} => pos' >= 3,
           server' = "text" => missing' \in Nat,
           Takes', ~torn' => Reading' /\ Answered'
    PROVE  PostInv'
<1> USE DEF PostInv
<1>1. HeaderEnd' = HeaderEnd /\ DataEnd' = DataEnd  BY PlacesStay
<1>2. Types'  BY DEF Types, ReadsOn, Closes
<1>3. Written'  BY <1>1 DEF Written, Closes
<1>4. Open'  BY DEF Open, ReadsOn, Closes
<1> QED  BY <1>2, <1>3, <1>4

(* What was taken stays before the place of the reads.                        *)
LEMMA TextStays ==
    ASSUME PostInv, UNCHANGED text, pos' \in Nat, pos <= pos', torn => torn'
    PROVE  TextTaken'
<1>1. pos \in Nat  BY DEF PostInv, Types
<1>2. 0 .. pos \subseteq 0 .. pos'  BY <1>1
<1>3. [from : 0 .. pos, to : 0 .. pos] \subseteq [from : 0 .. pos', to : 0 .. pos']
  BY <1>2
<1> QED  BY <1>3 DEF PostInv, Takes, TextTaken

LEMMA DataStays ==
    ASSUME PostInv, UNCHANGED <<job, data>>, pos' \in Nat, pos <= pos', torn => torn'
    PROVE  DataTaken'
<1>1. HeaderEnd' = HeaderEnd  BY PlacesStay
<1>2. pos \in Nat /\ HeaderEnd \in Nat  BY Places DEF PostInv, Types
<1>3. HeaderEnd .. pos \subseteq HeaderEnd .. pos'
  BY <1>2
<1>4. [from : {HeaderEnd}, to : HeaderEnd .. pos] \subseteq [from : {HeaderEnd}, to : HeaderEnd .. pos']
  BY <1>3
<1> QED  BY <1>1, <1>4 DEF PostInv, Takes, DataTaken

(* The command, uid and gid.                                                  *)
LEMMA IdsStep ==
    ASSUME PostInv, ReadOp \/ ReadIds
    PROVE  PostInv'
<1>0. /\ job \in Job /\ pos \in Nat /\ verdict \in Verdicts /\ missing \in Int
      /\ OpEnd = 4 /\ IdsEnd = 13 /\ arrived \in Nat
  BY DEF PostInv, Types, OpEnd, IdsEnd
<1>1. CASE ReadOp
  <2>1. server = "op" /\ ReadField(4, OpEnd) /\ UNCHANGED <<verdict, missing, text, data>> /\ pos = 0
    BY <1>1 DEF ReadOp, PostInv, Open
  <2>2. /\ pos' \in Nat /\ pos <= pos' /\ pos' <= pos + 4 /\ pos' <= arrived
        /\ torn' \in BOOLEAN /\ (~torn' => ~torn /\ pos' >= 4)
        /\ UNCHANGED <<job, client, sent, arrived>>
    BY <1>0, <2>1, FieldRead
  <2>3. Takes'  BY <2>1, <2>2, TextStays, DataStays DEF PostInv, Types, Takes
  <2>4. CASE pos' >= 3 /\ GoOn("ids")
    <3>1. ASSUME ~torn'  PROVE Reading' /\ Answered'
      <4>1. ~torn /\ pos' = 4 /\ Reading /\ Answered  BY <2>1, <2>2, <3>1 DEF PostInv
      <4>2. server' = "ids" /\ answer' = "none" /\ data' = NoFile /\ verdict' = job'.verdict
        BY <2>1, <2>2, <2>4, <4>1 DEF GoOn, Reading, PostInv, Open
      <4> QED  BY <4>1, <4>2 DEF Reading, Answered
    <3> QED  BY <1>0, <2>1, <2>2, <2>3, <2>4, <3>1, ChildStep DEF GoOn, ReadsOn
  <2>5. CASE pos' < 3 /\ Close("ERR")
    <3>1. torn'  BY <2>2, <2>5
    <3>2. Closes("ERR")  BY <2>5, CloseIs
    <3> QED  BY <1>0, <2>1, <2>2, <2>3, <3>1, <3>2, ChildStep DEF Closes
  <2> QED  BY <1>1, <2>2, <2>4, <2>5 DEF ReadOp
<1>2. CASE ReadIds
  <2>1. server = "ids" /\ ReadField(9, IdsEnd) /\ UNCHANGED <<missing, text, data>> /\ GoOn("size")
        /\ pos >= 3
    BY <1>2 DEF ReadIds, PostInv, Open
  <2>2. /\ pos' \in Nat /\ pos <= pos' /\ pos' <= pos + 9 /\ pos' <= arrived
        /\ torn' \in BOOLEAN /\ (~torn' => ~torn /\ pos' >= 13)
        /\ UNCHANGED <<job, client, sent, arrived>>
    BY <1>0, <2>1, FieldRead
  <2>3. Takes'  BY <2>1, <2>2, TextStays, DataStays DEF PostInv, Types, Takes
  <2>4. verdict' \in Verdicts /\ (pos' >= 13 => verdict' = verdict)
    BY <1>0, <1>2, <2>2 DEF ReadIds, Verdicts
  <2>5. ASSUME ~torn'  PROVE Reading' /\ Answered'
    <3>1. ~torn /\ Reading /\ Answered  BY <2>2, <2>5 DEF PostInv
    <3>2. pos' = 13  BY <2>1, <2>2, <2>5, <3>1 DEF Reading
    <3>3. server' = "size" /\ answer' = "none" /\ data' = NoFile /\ verdict' = job'.verdict
      BY <2>1, <2>2, <2>4, <3>1, <3>2 DEF GoOn, Reading, PostInv, Open
    <3> QED  BY <3>2, <3>3 DEF Reading, Answered
  <2>6. pos' >= 3  BY <1>0, <2>1, <2>2
  <2> QED  BY <1>0, <2>1, <2>2, <2>3, <2>4, <2>5, <2>6, ChildStep DEF GoOn, ReadsOn
<1> QED  BY <1>1, <1>2

(* The number and the place that come out of tsize: the length and the place  *)
(* of the text when it is whole, and in no case less than was taken already.  *)
LEMMA SizeIs ==
    ASSUME PostInv, pos' \in Nat, pos <= pos', pos' <= pos + 4, pos' >= 1,
           NEW s \in SizeSeen
    PROVE  /\ s.size \in Int /\ s.text \in Int /\ 0 <= s.text /\ s.text <= pos'
           /\ s.size > 1 => s.size >= pos' - s.text
           /\ pos = 13 /\ pos' >= TextStart => s.size = job.text /\ s.text = TextStart
<1>1. PICK t \in 1 .. 240 : t = job.text  BY Places DEF PostInv, Types
<1>2. PICK p \in Nat : p = pos  BY DEF PostInv, Types
<1>3. PICK e \in Nat : e = pos'  OBVIOUS
<1>4. p <= e /\ e <= p + 4 /\ e >= 1  BY <1>2, <1>3
<1>5. Digits(t) \in 1 .. 3 /\ TextStart = 14 + Digits(t)
  BY <1>1, Places DEF PostInv, Types
<1>6. PICK k \in Int : k = Lesser(e - 13, Digits(t))  BY <1>5 DEF Lesser
<1>7. SizeSeen = IF p >= 12 /\ k > 0
                 THEN {[size |-> Leading(t, k), text |-> Lesser(p + k + 1, e)]}
                 ELSE [size : StraySize, text : {e - 1, e}]
  BY <1>1, <1>2, <1>3, <1>6 DEF SizeSeen, IdsEnd
<1>8. CASE p >= 12 /\ k > 0
  <2>1. PICK b \in Int : b = Lesser(p + k + 1, e)  BY <1>6 DEF Lesser
  <2>2. s.size = Leading(t, k) /\ s.text = b  BY <1>7, <1>8, <2>1
  <2>3. /\ Leading(t, k) \in Nat /\ 0 <= b /\ b <= e
        /\ Leading(t, k) > 1 => Leading(t, k) >= e - b
        /\ p = 13 /\ e >= 14 + Digits(t) => Leading(t, k) = t /\ b = 14 + Digits(t)
    <3>1. Digits(t) \in 1 .. 3 /\ (Digits(t) = 1 \/ t >= 10)  BY <1>1 DEF Digits
    <3>2. k <= Digits(t) /\ k <= e - 13 /\ (k = Digits(t) \/ k = e - 13)
      <4>1. e - 13 \in Int /\ Digits(t) \in Int  BY <3>1
      <4> QED  BY <1>6, <4>1, LesserOfTwo
    <3>3. 0 <= b /\ b <= e /\ (b = e \/ b = p + k + 1) /\ (p + k + 1 <= e => b = p + k + 1)
      BY <1>6, <1>8, <2>1 DEF Lesser
    <3>4. Leading(t, k) \in Nat /\ (k = Digits(t) => Leading(t, k) = t)
      <4>1. t \div 10 \in Nat /\ t \div 100 \in Nat /\ t \in Nat  OBVIOUS
      <4> QED  BY <1>6, <3>1, <3>2, <4>1 DEF Leading
    <3>5. ASSUME Leading(t, k) > 1  PROVE Leading(t, k) >= e - b
      <4>1. CASE b = e  BY <3>4, <3>5, <4>1
      <4>2. CASE b # e
        <5>1. b = p + k + 1 /\ p + k + 1 < e  BY <1>6, <3>3, <4>2
        <5>2. k # e - 13  BY <1>6, <1>8, <5>1
        <5>3. k = Digits(t) /\ Leading(t, k) = t  BY <3>2, <3>4, <5>2
        <5>4. e - b <= 3 - k  BY <1>4, <1>6, <5>1
        <5> QED  BY <1>6, <3>1, <3>5, <5>3, <5>4
      <4> QED  BY <4>1, <4>2
    <3>6. ASSUME p = 13, e >= 14 + Digits(t)
          PROVE  Leading(t, k) = t /\ b = 14 + Digits(t)
      <4>1. k = Digits(t)  BY <1>6, <3>1, <3>2, <3>6
      <4> QED  BY <3>1, <3>3, <3>4, <3>6, <4>1
    <3> QED  BY <3>3, <3>4, <3>5, <3>6
  <2> QED  BY <1>1, <1>2, <1>3, <1>5, <2>2, <2>3
<1>9. CASE ~(p >= 12 /\ k > 0)
  <2>1. s \in [size : StraySize, text : {e - 1, e}]  BY <1>7, <1>9
  <2>2. s.size \in 0 .. 240 /\ s.text \in {e - 1, e}  BY <2>1, LengthAssumption
  <2>3. ~(p = 13 /\ e >= 14 + Digits(t))  BY <1>5, <1>6, <1>9 DEF Lesser
  <2> QED  BY <1>2, <1>3, <1>4, <1>5, <2>2, <2>3
<1> QED  BY <1>8, <1>9

(* The length of the text, and what came of the text with it.                 *)
LEMMA SizeStep ==
    ASSUME PostInv, ReadSize
    PROVE  PostInv'
<1> DEFINE end == IF job.text = 1 THEN TextEnd ELSE TextStart
<1>0. /\ job \in Job /\ pos \in Nat /\ verdict \in Verdicts /\ missing \in Int /\ arrived \in Nat
      /\ server = "size" /\ pos >= 3 /\ ReadField(4, end) /\ UNCHANGED <<verdict, data>>
      /\ answer = "none"
  BY DEF PostInv, Types, Open, ReadSize
<1>1. /\ job.text \in 1 .. 240 /\ TextStart \in 15 .. 17 /\ TextEnd = TextStart + job.text
      /\ HeaderEnd \in Nat /\ HeaderEnd >= TextEnd + 1
      /\ job.text = 1 => TextStart = 15 /\ TextEnd = 16
  BY <1>0, Places
<1>2. end \in Nat /\ end >= TextStart  BY <1>1
<1> HIDE DEF end
<1>3. /\ pos' \in Nat /\ pos <= pos' /\ pos' <= pos + 4 /\ pos' <= arrived
      /\ torn' \in BOOLEAN /\ (~torn' => ~torn /\ pos' >= end)
      /\ UNCHANGED <<job, client, sent, arrived>>
  BY <1>0, <1>2, FieldRead
<1>4. pos' >= 1 /\ pos' >= 3  BY <1>0, <1>3
<1>5. /\ TextStart' = TextStart /\ TextEnd' = TextEnd /\ HeaderEnd' = HeaderEnd /\ DataEnd' = DataEnd
  BY <1>3, PlacesStay
<1>6. PICK s \in SizeSeen :
         \/ (verdict = "badFields" \/ s.size = 0) /\ Close("NOK") /\ UNCHANGED <<missing, text>>
         \/ /\ verdict # "badFields" /\ s.size = 1 /\ Close(Posted)
            /\ text' = Taken(s.text, s.text + 1) /\ UNCHANGED missing
         \/ /\ verdict # "badFields" /\ s.size > 1 /\ GoOn("text")
            /\ text' = Taken(s.text, pos') /\ missing' = s.size - (pos' - s.text)
  BY DEF ReadSize
<1>7. /\ s.size \in Int /\ s.text \in Int /\ 0 <= s.text /\ s.text <= pos'
      /\ s.size > 1 => s.size >= pos' - s.text
      /\ pos = 13 /\ pos' >= TextStart => s.size = job.text /\ s.text = TextStart
  BY <1>3, <1>4, SizeIs
<1>8. ASSUME ~torn'
      PROVE  /\ ~torn /\ verdict = job.verdict /\ data = NoFile /\ pos' >= TextStart /\ pos' <= 17
             /\ s.size = job.text /\ s.text = TextStart
             /\ job.text = 1 => pos' >= 16
  <2>1. ~torn /\ Reading /\ pos = 13  BY <1>0, <1>3, <1>8 DEF PostInv, Reading
  <2>2. pos' >= end  BY <1>3, <1>8
  <2>3. job.text = 1 => end = 16  BY <1>1 DEF end
  <2>4. pos' >= TextStart  BY <1>1, <1>2, <1>3, <2>2
  <2> QED  BY <1>0, <1>3, <1>7, <2>1, <2>2, <2>3, <2>4 DEF Reading
<1>9. DataTaken'  BY <1>0, <1>3, DataStays DEF PostInv, Types
<1>10. CASE (verdict = "badFields" \/ s.size = 0) /\ Close("NOK") /\ UNCHANGED <<missing, text>>
  <2>1. Takes'  BY <1>0, <1>3, <1>10, TextStays, DataStays DEF PostInv, Types, Takes
  <2>2. Closes("NOK")  BY <1>10, CloseIs
  <2>3. ASSUME ~torn'  PROVE Reading' /\ Answered'
    <3>1. data' = NoFile /\ job'.verdict # "fine" /\ verdict' = job'.verdict
      BY <1>0, <1>1, <1>3, <1>8, <1>10, <2>3
    <3> QED  BY <2>2, <3>1 DEF Reading, Answered, Closes
  <2> QED  BY <1>0, <1>3, <1>10, <2>1, <2>2, <2>3, ChildStep DEF Closes
<1>11. CASE /\ verdict # "badFields" /\ s.size = 1 /\ Close(Posted)
            /\ text' = Taken(s.text, s.text + 1) /\ UNCHANGED missing
  <2>1. Posted \in {"mid", "NOK"} /\ (Posted = "NOK" => verdict = "refused")  BY DEF Posted
  <2>2. Closes(Posted)  BY <1>11, CloseIs
  <2>3. ASSUME ~torn'
        PROVE  text' = [from |-> 15, to |-> 16] /\ TextRead' /\ job'.text = 1 /\ data' = NoFile
               /\ verdict' = job'.verdict /\ pos' >= 16
    BY <1>0, <1>1, <1>3, <1>5, <1>8, <1>11, <2>3 DEF Taken, TextRead
  <2>4. Takes'
    <3>1. CASE torn'  BY <1>9, <1>11, <3>1 DEF Taken, Takes, TextTaken
    <3>2. CASE ~torn'  BY <1>3, <1>9, <2>3, <3>2 DEF Takes, TextTaken
    <3> QED  BY <1>3, <3>1, <3>2
  <2>5. ASSUME ~torn'  PROVE Reading' /\ Answered'
    BY <1>0, <2>1, <2>2, <2>3, <2>5 DEF Reading, Answered, Closes
  <2> QED  BY <1>0, <1>3, <1>11, <2>1, <2>2, <2>4, <2>5, ChildStep DEF Closes
<1>12. CASE /\ verdict # "badFields" /\ s.size > 1 /\ GoOn("text")
            /\ text' = Taken(s.text, pos') /\ missing' = s.size - (pos' - s.text)
  <2>1. missing' \in Nat  BY <1>3, <1>7, <1>12
  <2>2. ASSUME ~torn'
        PROVE  /\ text' = [from |-> TextStart, to |-> pos'] /\ data' = NoFile
               /\ verdict' = job'.verdict /\ missing' = TextEnd - pos'
               /\ TextStart <= pos' /\ pos' <= TextEnd
    BY <1>0, <1>1, <1>3, <1>7, <1>8, <1>12, <2>1, <2>2 DEF Taken
  <2>3. Takes'
    <3>1. CASE torn'  BY <1>9, <1>12, <3>1 DEF Taken, Takes, TextTaken
    <3>2. CASE ~torn'  BY <1>1, <1>3, <1>9, <2>2, <3>2 DEF Takes, TextTaken
    <3> QED  BY <1>3, <3>1, <3>2
  <2>4. ASSUME ~torn'  PROVE Reading' /\ Answered'
    <3>1. server' = "text" /\ answer' = "none"  BY <1>0, <1>12 DEF GoOn
    <3> QED  BY <1>5, <2>2, <2>4, <3>1 DEF Reading, Answered
  <2> QED  BY <1>0, <1>3, <1>12, <2>1, <2>3, <2>4, ChildStep DEF GoOn, ReadsOn
<1> QED  BY <1>6, <1>10, <1>11, <1>12

(* The text comes, or a part of it.                                           *)
LEMMA TextStep ==
    ASSUME PostInv, ReadText
    PROVE  PostInv'
<1>0. /\ job \in Job /\ pos \in Nat /\ verdict \in Verdicts /\ missing \in Nat /\ arrived \in Nat
      /\ server = "text" /\ GoOn("separator") /\ UNCHANGED <<verdict, data>> /\ missing' = 0
      /\ text' = Taken(text.from, pos') /\ answer = "none" /\ torn \in BOOLEAN /\ pos <= arrived
  BY DEF PostInv, Types, Open, ReadText, Written
<1>1. /\ job.text \in 1 .. 240 /\ TextStart \in 15 .. 17 /\ TextEnd = TextStart + job.text
      /\ TextEnd \in Nat /\ HeaderEnd \in Nat
  BY <1>0, Places
<1>2. /\ pos' \in Nat /\ pos <= pos' /\ pos' <= pos + missing /\ pos' <= arrived
      /\ torn' \in BOOLEAN /\ (~torn' => ~torn /\ (missing # 0 => pos' >= TextEnd))
      /\ UNCHANGED <<job, client, sent, arrived>>
  <2>1. CASE ReadField(missing, TextEnd)  BY <1>0, <1>1, <2>1, FieldRead
  <2>2. CASE missing = 0 /\ UNCHANGED <<job, client, sent, arrived, pos, torn>>
    BY <1>0, <2>2
  <2> QED  BY <2>1, <2>2 DEF ReadText
<1>3. /\ TextStart' = TextStart /\ TextEnd' = TextEnd
  BY <1>2, PlacesStay
<1>4. ASSUME ~torn'
      PROVE  /\ ~torn /\ verdict = job.verdict /\ data = NoFile /\ pos' = TextEnd
             /\ text.from = TextStart /\ text' = [from |-> TextStart, to |-> TextEnd]
  <2>1. ~torn /\ Reading  BY <1>2, <1>4 DEF PostInv
  <2>2. /\ verdict = job.verdict /\ data = NoFile /\ text = [from |-> TextStart, to |-> pos]
        /\ missing = TextEnd - pos /\ pos <= TextEnd
    BY <1>0, <2>1 DEF Reading
  <2>3. pos' = TextEnd
    <3>1. CASE missing = 0
      <4>1. pos = TextEnd  BY <1>0, <1>1, <2>2, <3>1
      <4>2. pos' = pos  BY <1>0, <1>2, <3>1
      <4> QED  BY <4>1, <4>2
    <3>2. CASE missing # 0
      <4>1. pos' >= TextEnd  BY <1>2, <1>4, <3>2
      <4> QED  BY <1>0, <1>1, <1>2, <2>2, <4>1
    <3> QED  BY <3>1, <3>2
  <2> QED  BY <1>0, <1>4, <2>1, <2>2, <2>3 DEF Taken
<1>5. DataTaken'  BY <1>0, <1>2, DataStays
<1>6. TextTaken'
  <2>1. CASE torn'  BY <1>0, <2>1 DEF Taken, TextTaken
  <2>2. CASE ~torn'  BY <1>1, <1>4, <2>2 DEF TextTaken
  <2> QED  BY <2>1, <2>2
<1>7. ASSUME ~torn'  PROVE Reading' /\ Answered'
  <2>1. TextRead' /\ data' = NoFile /\ verdict' = job'.verdict /\ pos' = TextEnd'
    BY <1>0, <1>2, <1>3, <1>4, <1>7 DEF TextRead
  <2>2. server' = "separator" /\ answer' = "none"  BY <1>0 DEF GoOn
  <2> QED  BY <2>1, <2>2 DEF Reading, Answered
<1> QED  BY <1>0, <1>2, <1>5, <1>6, <1>7, ChildStep DEF GoOn, ReadsOn, Takes

(* The byte behind the text.                                                  *)
LEMMA SeparatorStep ==
    ASSUME PostInv, ReadSeparator
    PROVE  PostInv'
<1>0. /\ job \in Job /\ pos \in Nat /\ verdict \in Verdicts /\ missing \in Int /\ arrived \in Nat
      /\ server = "separator" /\ ReadField(1, 0) /\ UNCHANGED <<verdict, missing, text, data>>
      /\ answer = "none" /\ sent \in Nat /\ torn \in BOOLEAN
  BY DEF PostInv, Types, Open, ReadSeparator
<1>1. /\ TextEnd \in Nat /\ HeaderEnd \in Nat /\ HeaderEnd >= TextEnd + 1 /\ TextEnd >= 1
  BY <1>0, Places
<1>2. /\ pos' \in Nat /\ pos <= pos' /\ pos' <= pos + 1 /\ pos' <= arrived
      /\ pos' = pos => arrived = sent /\ arrived = pos
      /\ torn' \in BOOLEAN /\ (~torn' => ~torn)
      /\ UNCHANGED <<job, client, sent, arrived>>
  BY <1>0, FieldRead
<1>3. /\ TextStart' = TextStart /\ TextEnd' = TextEnd
  BY <1>2, PlacesStay
<1>4. Takes'  BY <1>0, <1>2, TextStays, DataStays DEF Takes
<1>5. ASSUME ~torn'
      PROVE  /\ ~torn /\ verdict = job.verdict /\ data = NoFile /\ TextRead /\ TextRead'
             /\ pos' = TextEnd + 1
             /\ NextByte = IF job.file = NoFile THEN {"newline"} ELSE {"blank"}
  <2>1. ~torn /\ Reading  BY <1>2, <1>5 DEF PostInv
  <2>2. /\ verdict = job.verdict /\ data = NoFile /\ TextRead /\ pos = TextEnd
    BY <1>0, <2>1 DEF Reading
  <2>3. TextRead'  BY <1>0, <1>3, <2>2 DEF TextRead
  <2>4. pos < arrived
    <3>1. pos <= arrived /\ arrived <= sent /\ (sent > 0 => sent >= HeaderEnd)
      BY DEF PostInv, Written
    <3>2. sent > 0 /\ sent > pos  BY <1>0, <1>1, <2>2, <3>1
    <3> QED  BY <1>0, <1>2, <3>1, <3>2
  <2>5. pos' = TextEnd + 1  BY <1>0, <1>1, <1>2, <2>2, <2>4
  <2>6. NextByte = IF job.file = NoFile THEN {"newline"} ELSE {"blank"}
    BY <1>1, <2>2, <2>4 DEF NextByte
  <2> QED  BY <2>1, <2>2, <2>3, <2>5, <2>6
<1>6. PICK c \in NextByte :
         \/ c = "newline" /\ Close(Posted)
         \/ c = "blank"   /\ GoOn("tail")
         \/ c = "other"   /\ Close("NOK")
  BY DEF ReadSeparator
<1>7. CASE c = "newline" /\ Close(Posted)
  <2>1. Posted \in {"mid", "NOK"} /\ (Posted = "NOK" => verdict = "refused")  BY DEF Posted
  <2>2. Closes(Posted)  BY <1>7, CloseIs
  <2>3. ASSUME ~torn'  PROVE Reading' /\ Answered'
    <3>1. job.file = NoFile  BY <1>5, <1>7, <2>3
    <3> QED  BY <1>0, <1>2, <1>5, <2>1, <2>2, <2>3, <3>1 DEF Reading, Answered, Closes
  <2> QED  BY <1>0, <1>2, <1>4, <2>1, <2>2, <2>3, ChildStep DEF Closes
<1>8. CASE c = "blank" /\ GoOn("tail")
  <2>1. ASSUME ~torn'  PROVE Reading' /\ Answered'
    <3>1. job.file # NoFile  BY <1>5, <1>8, <2>1
    <3> QED  BY <1>0, <1>2, <1>3, <1>5, <1>8, <2>1, <3>1 DEF Reading, Answered, GoOn
  <2> QED  BY <1>0, <1>2, <1>4, <1>8, <2>1, ChildStep DEF GoOn, ReadsOn
<1>9. CASE c = "other" /\ Close("NOK")
  <2>1. torn'  BY <1>2, <1>5, <1>9
  <2>2. Closes("NOK")  BY <1>9, CloseIs
  <2> QED  BY <1>0, <1>2, <1>4, <2>1, <2>2, ChildStep DEF Closes
<1> QED  BY <1>6, <1>7, <1>8, <1>9

(* The read of the name takes the first bytes of the file, and at most the    *)
(* byte behind a file that is short enough.                                   *)
LEMMA TailStep ==
    ASSUME PostInv, ReadTail
    PROVE  PostInv'
<1>0. /\ job \in Job /\ pos \in Nat /\ verdict \in Verdicts /\ missing \in Int /\ arrived \in Nat
      /\ server = "tail" /\ ReadField(TailRead, HeaderEnd) /\ UNCHANGED <<verdict, text>>
      /\ answer = "none" /\ sent \in Nat /\ TailRead \in Nat /\ torn \in BOOLEAN
      /\ (job.file # NoFile => job.file \in Nat)
  BY LengthAssumption DEF PostInv, Types, Open, ReadTail
<1>1. HeaderEnd \in Nat /\ TextEnd \in Nat  BY <1>0, Places
<1>2. /\ pos' \in Nat /\ pos <= pos' /\ pos' <= pos + TailRead /\ pos' <= arrived
      /\ torn' \in BOOLEAN /\ (~torn' => ~torn /\ pos' >= HeaderEnd)
      /\ UNCHANGED <<job, client, sent, arrived>>
  BY <1>0, <1>1, FieldRead
<1>3. /\ HeaderEnd' = HeaderEnd /\ DataEnd' = DataEnd /\ TextStart' = TextStart /\ TextEnd' = TextEnd
      /\ Tail' = Tail
  BY <1>2, PlacesStay
<1>4. TextTaken' /\ (data' = data => DataTaken')  BY <1>0, <1>2, TextStays, DataStays
<1>5. ASSUME ~torn'
      PROVE  /\ ~torn /\ verdict = job.verdict /\ data = NoFile /\ TextRead' /\ job.file # NoFile
             /\ pos = TextEnd + 1 /\ HeaderEnd = TextEnd + 1 + Tail /\ job.file \in Nat
             /\ DataEnd = HeaderEnd + job.file /\ Tail \in Nat
             /\ HeaderEnd <= pos' /\ pos' <= DataEnd + 1
             /\ pos' = DataEnd + 1 => Tail + job.file + 1 <= TailRead
  <2>1. ~torn /\ Reading  BY <1>2, <1>5 DEF PostInv
  <2>2. /\ verdict = job.verdict /\ data = NoFile /\ TextRead /\ pos = TextEnd + 1 /\ job.file # NoFile
    BY <1>0, <2>1 DEF Reading
  <2>3. TextRead'  BY <1>0, <1>3, <2>2 DEF TextRead
  <2>4. /\ HeaderEnd = TextEnd + 1 + Tail /\ job.file \in Nat /\ DataEnd = HeaderEnd + job.file
        /\ Tail \in Nat
    BY <1>0, <2>2, Places
  <2>5. arrived <= sent /\ sent <= DataEnd + 1  BY <2>2 DEF PostInv, Written
  <2>6. pos' <= DataEnd + 1  BY <1>0, <1>1, <1>2, <2>4, <2>5
  <2>7. pos' = DataEnd + 1 => Tail + job.file + 1 <= TailRead  BY <1>0, <1>1, <1>2, <2>2, <2>4
  <2> QED  BY <1>2, <1>5, <2>1, <2>2, <2>3, <2>4, <2>6, <2>7
<1>6. CASE RefuseFile /\ (torn' \/ verdict # "fine")
  <2>1. Closes("NOK") /\ UNCHANGED <<data, missing>>  BY <1>6, CloseIs DEF RefuseFile
  <2>2. ASSUME ~torn'  PROVE Reading' /\ Answered'
    <3>1. data' = NoFile /\ verdict' = job'.verdict /\ job'.verdict # "fine"
      BY <1>0, <1>2, <1>5, <1>6, <2>1, <2>2
    <3> QED  BY <2>1, <3>1 DEF Reading, Answered, Closes
  <2> QED  BY <1>0, <1>2, <1>4, <2>1, <2>2, ChildStep DEF Closes, Takes
<1>7. ASSUME torn', NEW b, NEW n \in Int, TakeFile(b, n)  PROVE PostInv'
  <2>1. data' = Garbled /\ missing' = n /\ GoOn("copy")  BY <1>7 DEF TakeFile, Taken
  <2>2. DataTaken'  BY <1>7, <2>1 DEF DataTaken
  <2> QED  BY <1>0, <1>2, <1>4, <1>7, <2>1, <2>2, ChildStep DEF GoOn, ReadsOn, Takes
<1>8. CASE ~torn' /\ TakeFile(HeaderEnd, job.file - (pos' - HeaderEnd))
  <2>1. /\ data' = [from |-> HeaderEnd, to |-> pos'] /\ GoOn("copy")
        /\ missing' = job.file - (pos' - HeaderEnd)
    BY <1>8 DEF TakeFile, Taken
  <2>2. DataTaken'  BY <1>1, <1>2, <1>3, <1>5, <1>8, <2>1 DEF DataTaken
  <2>3. missing' = DataEnd - pos' /\ missing' \in Int  BY <1>1, <1>2, <1>5, <1>8, <2>1
  <2>4. Stored'
    <3>1. job' = job  BY <1>2
    <3> QED  BY <1>3, <1>5, <1>8, <2>1, <2>3, <3>1 DEF Stored
  <2>5. Reading' /\ Answered'
    <3>1. server' = "copy" /\ answer' = "none" /\ verdict' = job'.verdict
      BY <1>0, <1>2, <1>5, <1>8, <2>1 DEF GoOn
    <3> QED  BY <2>4, <3>1 DEF Reading, Answered
  <2> QED  BY <1>0, <1>2, <1>4, <2>1, <2>2, <2>3, <2>5, ChildStep DEF GoOn, ReadsOn, Takes
<1>9. CASE /\ ~torn /\ pos' >= HeaderEnd - 1
           /\ \/ verdict = "fine" /\ TakeFile(HeaderEnd, job.file - (pos' - HeaderEnd))
              \/ verdict # "fine" /\ RefuseFile
  <2>1. CASE verdict # "fine" /\ RefuseFile  BY <1>6, <2>1
  <2>2. CASE TakeFile(HeaderEnd, job.file - (pos' - HeaderEnd)) /\ torn'
    <3>1. job.file \in Nat
      <4>1. Reading  BY <1>9 DEF PostInv
      <4> QED  BY <1>0, <4>1 DEF Reading
    <3>2. job.file - (pos' - HeaderEnd) \in Int  BY <1>1, <1>2, <3>1
    <3> QED  BY <1>7, <2>2, <3>2
  <2> QED  BY <1>2, <1>8, <1>9, <2>1, <2>2
<1>10. CASE /\ ~torn /\ NumberAt < pos' /\ pos' < HeaderEnd - 1
            /\ \/ \E n \in 0 .. job.file - 1 :
                     verdict \in {"fine", "badFile"} /\ TakeFile(pos', n + 1)
               \/ verdict # "fine" /\ RefuseFile
  <2>1. torn'  BY <1>1, <1>2, <1>10
  <2>2. CASE \E n \in 0 .. job.file - 1 :
                verdict \in {"fine", "badFile"} /\ TakeFile(pos', n + 1)
    <3>1. PICK n \in 0 .. job.file - 1 : TakeFile(pos', n + 1)  BY <2>2
    <3>2. n + 1 \in Int  OBVIOUS
    <3> QED  BY <1>7, <2>1, <3>1, <3>2
  <2>3. CASE verdict # "fine" /\ RefuseFile  BY <1>6, <2>3
  <2> QED  BY <1>10, <2>2, <2>3
<1>11. CASE /\ torn \/ pos' <= NumberAt
            /\ \/ \E n \in StrayFile : verdict # "refused" /\ TakeFile(pos', n)
               \/ RefuseFile
  <2>1. torn'
    <3>1. CASE torn  BY <1>2, <3>1
    <3>2. CASE ~torn /\ pos' <= NumberAt
      <4>1. Reading  BY <3>2 DEF PostInv
      <4>2. job.file # NoFile /\ job.file \in FileLen
        BY <1>0, <4>1 DEF Reading, Job
      <4>3. SizeLen[job.file] \in 1 .. 10 /\ Name \in Nat  BY <4>2, LengthAssumption
      <4>4. HeaderEnd = TextEnd + 1 + (Name + 1 + SizeLen[job.file] + 1)
        BY <4>2 DEF HeaderEnd, Tail
      <4>5. NumberAt = TextEnd + 1 + Name + 1  BY DEF NumberAt
      <4>6. pos' < HeaderEnd  BY <1>1, <1>2, <3>2, <4>3, <4>4, <4>5
      <4> QED  BY <1>1, <1>2, <4>6
    <3> QED  BY <1>11, <3>1, <3>2
  <2>2. CASE \E n \in StrayFile : verdict # "refused" /\ TakeFile(pos', n)
    <3>1. PICK n \in StrayFile : TakeFile(pos', n)  BY <2>2
    <3>2. n \in Int  BY LengthAssumption
    <3> QED  BY <1>7, <2>1, <3>1, <3>2
  <2>3. CASE RefuseFile  BY <1>6, <2>1, <2>3
  <2> QED  BY <1>11, <2>2, <2>3
<1> QED  BY <1>9, <1>10, <1>11 DEF ReadTail

(* The loop takes no byte behind the file, and ends with the file or with a   *)
(* client that has gone without sending the rest.                             *)
LEMMA CopyStep ==
    ASSUME PostInv, CopyData \/ CopyEnds
    PROVE  PostInv'
<1>0. /\ job \in Job /\ pos \in Nat /\ verdict \in Verdicts /\ missing \in Int /\ arrived \in Nat
      /\ UNCHANGED <<job, client, sent, arrived, text, verdict, torn>> /\ torn \in BOOLEAN
      /\ server = "copy" /\ answer = "none" /\ Block \in Nat /\ pos <= arrived
      /\ sent \in Nat /\ (job.file # NoFile => job.file \in Nat)
  BY LengthAssumption DEF PostInv, Types, Open, Written, CopyData, CopyEnds, seen
<1>1. /\ HeaderEnd' = HeaderEnd /\ DataEnd' = DataEnd /\ TextStart' = TextStart /\ TextEnd' = TextEnd
      /\ Tail' = Tail /\ HeaderEnd \in Nat
  BY <1>0, PlacesStay, Places
<1>2. ASSUME ~torn
      PROVE  /\ Reading /\ Answered /\ Stored /\ job.file \in Nat /\ DataEnd = HeaderEnd + job.file
             /\ missing = DataEnd - pos /\ verdict' = job'.verdict
  <2>1. Reading /\ Answered /\ Stored /\ verdict = job.verdict  BY <1>0, <1>2 DEF PostInv, Reading
  <2> QED  BY <1>0, <2>1, Places DEF Stored
<1>3. CASE CopyData
  <2> DEFINE w == Lesser(Block, missing)
  <2>1. missing > 0 /\ w \in Nat /\ w <= missing
    BY <1>0, <1>3 DEF CopyData, Lesser
  <2>2. pos' = pos + Got(w) /\ missing' = missing - (pos' - pos) /\ data' = Taken(data.from, pos')
        /\ UNCHANGED <<server, link, answer>>
    BY <1>3 DEF CopyData
  <2> HIDE DEF w
  <2>3. Got(w) \in Nat /\ Got(w) <= w /\ pos + Got(w) <= arrived  BY <2>1, GotBytes
  <2>4. pos' \in Nat /\ pos <= pos' /\ pos' <= pos + missing /\ pos' <= arrived
        /\ missing' = missing - (pos' - pos) /\ missing' \in Int
    BY <1>0, <2>1, <2>2, <2>3
  <2>5. TextTaken'  BY <1>0, <2>4, TextStays
  <2>6. CASE torn
    <3>1. torn' /\ data' = Garbled  BY <1>0, <2>2, <2>6 DEF Taken
    <3>2. DataTaken'  BY <3>1 DEF DataTaken
    <3> QED  BY <1>0, <2>2, <2>4, <2>5, <3>1, <3>2, ChildStep DEF ReadsOn, Takes
  <2>7. CASE ~torn
    <3>1. data' = [from |-> HeaderEnd, to |-> pos']
      BY <1>0, <1>2, <2>2, <2>7 DEF Taken, Stored
    <3>2. missing' = DataEnd - pos' /\ HeaderEnd <= pos' /\ pos' <= DataEnd
      BY <1>0, <1>1, <1>2, <2>4, <2>7 DEF Stored
    <3>3. Stored'
      <4>1. TextRead'  BY <1>0, <1>1, <1>2, <2>7 DEF Stored, TextRead
      <4>2. job'.file # NoFile  BY <1>0, <1>2, <2>7 DEF Stored
      <4>3. pos' <= DataEnd + 1 /\ pos' # DataEnd + 1
        BY <1>1, <1>2, <2>4, <2>7, <3>2
      <4> QED  BY <1>1, <3>1, <3>2, <4>1, <4>2, <4>3 DEF Stored
    <3>4. DataTaken'  BY <1>1, <2>4, <3>1, <3>2 DEF DataTaken
    <3>5. Reading' /\ Answered'
      <4>1. server' = "copy" /\ answer' = "none"  BY <1>0, <2>2
      <4> QED  BY <1>2, <2>7, <3>3, <4>1 DEF Reading, Answered
    <3> QED  BY <1>0, <2>2, <2>4, <2>5, <3>4, <3>5, ChildStep DEF ReadsOn, Takes
  <2> QED  BY <1>0, <2>6, <2>7
<1>4. CASE CopyEnds
  <2>1. UNCHANGED <<pos, data, missing>> /\ Close("mid")  BY <1>4 DEF CopyEnds, seen
  <2>2. Closes("mid")  BY <2>1, CloseIs
  <2>3. Takes'  BY <1>0, <2>1, TextStays, DataStays DEF Takes
  <2>4. ASSUME ~torn'  PROVE Reading' /\ Answered'
    <3>1. ~torn  BY <1>0, <2>4
    <3>2. Stored' /\ TextRead'  BY <1>0, <1>2, <2>1, <3>1, StoredStays DEF Stored
    <3>3. pos >= DataEnd \/ (sent < DataEnd /\ client \in Ended \ {"posted"})
      <4>1. missing <= 0 \/ (CanRead /\ arrived = pos)  BY <1>4 DEF CopyEnds
      <4>2. client # "posted"  BY <1>0 DEF PostInv, Written
      <4>3. CASE missing <= 0  BY <1>0, <1>1, <1>2, <3>1, <4>3
      <4>4. CASE arrived = pos /\ CanRead
        BY <1>0, <1>1, <1>2, <3>1, <4>2, <4>4 DEF CanRead, Hung
      <4> QED  BY <4>1, <4>3, <4>4
    <3> QED  BY <1>0, <1>1, <1>2, <2>1, <2>2, <3>1, <3>2, <3>3 DEF Reading, Answered, Closes
  <2> QED  BY <1>0, <2>1, <2>2, <2>3, <2>4, ChildStep DEF Closes
<1> QED  BY <1>3, <1>4

(* A child that dies leaves what it has stored, and no answer.                *)
LEMMA DieStep ==
    ASSUME PostInv, Die
    PROVE  PostInv'
<1>1. /\ server # "closed" /\ UNCHANGED <<job, client, sent, arrived, pos, verdict, missing, text, data, torn>>
      /\ Closes("none") /\ answer = "none" /\ pos \in Nat /\ pos <= arrived /\ missing \in Int
      /\ verdict \in Verdicts /\ torn \in BOOLEAN
  BY CloseIs DEF Die, Closes, PostInv, Open, Types, Written, seen
<1>2. Takes'  BY <1>1, TextStays, DataStays DEF Takes
<1>3. ASSUME ~torn'  PROVE Reading' /\ Answered'
  <2>1. Reading  BY <1>1, <1>3 DEF PostInv
  <2>2. Stored' = Stored  BY <1>1, StoredStays
  <2> QED  BY <1>1, <2>1, <2>2 DEF Reading, Answered, Closes
<1> QED  BY <1>1, <1>2, <1>3, ChildStep DEF Closes

-----------------------------------------------------------------------------
(* The inductive invariant of a post, for all lengths and sizes of reads and  *)
(* a stream that is cut anywhere.                                             *)
THEOREM PostInvariant == Spec => []PostInv
<1>1. Init => PostInv
  <2> SUFFICES ASSUME Init PROVE PostInv
    OBVIOUS
  <2>1. job \in Job /\ (job.file # NoFile => job.file \in Nat)
    BY Places DEF Init
  <2>2. HeaderEnd \in Nat /\ (job.file # NoFile => DataEnd \in Nat)  BY <2>1, Places
  <2>3. job.verdict \in Verdicts  BY <2>1, LengthAssumption DEF Job
  <2>4. Types
    <3>1. verdict \in Verdicts /\ torn \in BOOLEAN  BY <2>3 DEF Init
    <3> QED  BY <2>1, <3>1 DEF Init, Types
  <2>5. Takes  BY DEF Init, Takes, TextTaken, DataTaken
  <2>6. Written  BY <2>2 DEF Init, Written
  <2>7. Open /\ Reading /\ Answered  BY DEF Init, Open, Reading, Answered
  <2> QED  BY <2>4, <2>5, <2>6, <2>7 DEF PostInv
<1>2. PostInv /\ [Next]_vars => PostInv'
  <2> SUFFICES ASSUME PostInv, [Next]_vars  PROVE PostInv'
    OBVIOUS
  <2>1. CASE UNCHANGED vars
    <3>1. UNCHANGED <<job, client, server, sent, arrived, pos, link, answer, verdict, missing,
                      text, data, torn>>
      BY <2>1 DEF vars, seen
    <3>2. /\ Stored' = Stored /\ TextRead' = TextRead /\ HeaderEnd' = HeaderEnd /\ DataEnd' = DataEnd
          /\ TextStart' = TextStart /\ TextEnd' = TextEnd
      BY <3>1, StoredStays, PlacesStay
    <3>3. Types' /\ Takes' /\ Written' /\ Open'
      BY <3>1, <3>2 DEF PostInv, Types, Takes, TextTaken, DataTaken, Written, Open
    <3>4. ~torn => Reading' /\ Answered'
      BY <3>1, <3>2 DEF PostInv, Reading, Answered
    <3> QED  BY <3>1, <3>3, <3>4 DEF PostInv
  <2>2. CASE WriteHeader \/ WriteData \/ ReadReply \/ NoSuchFile \/ TimeOut \/ Interrupt
    BY <2>2, ClientStep
  <2>3. CASE Arrive \/ ResetComes  BY <2>3, NetworkStep
  <2>4. CASE Child
    BY <2>4, IdsStep, SizeStep, TextStep, SeparatorStep, TailStep, CopyStep DEF Child
  <2>5. CASE Die  BY <2>5, DieStep
  <2> QED  BY <2>1, <2>2, <2>3, <2>4, <2>5 DEF Next, Post
<1> QED  BY <1>1, <1>2, PTL DEF Spec

(* Both sides keep their counts in step, for all lengths and all cuts.        *)
THEOREM PostTypeCorrect == Spec => []TypeOK
<1>1. PostInv => TypeOK
  <2> SUFFICES ASSUME PostInv PROVE TypeOK
    OBVIOUS
  <2>1. 0 <= pos /\ pos <= arrived /\ arrived <= sent  BY DEF PostInv, Types, Written
  <2>2. TextTaken /\ DataTaken  BY DEF PostInv, Takes
  <2> QED  BY <2>1, <2>2 DEF TypeOK, PostInv, Types, TextTaken, DataTaken
<1> QED  BY <1>1, PostInvariant, PTL

(* A file that was sent to its end is stored to its end, however the data was *)
(* cut and whatever came with the name of the file.                           *)
THEOREM UploadsComplete == Spec => []UploadComplete
<1>1. PostInv => UploadComplete
  <2> SUFFICES ASSUME PostInv, answer = "mid", data # NoFile, ~torn, sent >= DataEnd
               PROVE  /\ data.from = HeaderEnd
                      /\ data.to = DataEnd \/ (data.to = DataEnd + 1 /\ Tail + job.file < TailRead)
    BY DEF UploadComplete
  <2>1. Stored /\ (pos >= DataEnd \/ sent < DataEnd)
    BY DEF PostInv, Reading, Answered
  <2>2. /\ DataEnd \in Nat /\ pos \in Nat /\ sent \in Nat /\ job.file \in Nat /\ Tail \in Nat
        /\ TailRead \in Nat
    BY <2>1, Places, LengthAssumption DEF Stored, PostInv, Types
  <2>3. pos = DataEnd \/ (pos = DataEnd + 1 /\ Tail + job.file + 1 <= TailRead)
    BY <2>1, <2>2 DEF Stored
  <2>4. data.from = HeaderEnd /\ data.to = pos  BY <2>1 DEF Stored
  <2> QED  BY <2>2, <2>3, <2>4
<1> QED  BY <1>1, PostInvariant, PTL

(* What an accepted post displays as posted is stored, byte for byte.         *)
THEOREM PostsAreStored == Spec => []PostedIsStored
<1>1. PostInv => PostedIsStored
  <2> SUFFICES ASSUME PostInv, client = "posted", answer = "mid", ~torn,
                      job.file # NoFile => job.text # 1 /\ Tail + job.file >= TailRead
               PROVE  /\ text = [from |-> TextStart, to |-> TextEnd]
                      /\ IF job.file = NoFile THEN data = NoFile
                         ELSE data = [from |-> HeaderEnd, to |-> DataEnd]
    BY DEF PostedIsStored
  <2>1. text = [from |-> TextStart, to |-> TextEnd]  BY DEF PostInv, Answered, TextRead
  <2>2. CASE job.file = NoFile  BY <2>1, <2>2 DEF PostInv, Answered, Stored
  <2>3. CASE job.file # NoFile
    <3>1. Stored /\ pos >= DataEnd  BY <2>3 DEF PostInv, Answered
    <3>2. DataEnd \in Nat /\ pos \in Nat /\ job.file \in Nat /\ Tail \in Nat /\ TailRead \in Nat
      BY <2>3, Places, LengthAssumption DEF PostInv, Types
    <3>3. pos = DataEnd  BY <2>3, <3>1, <3>2 DEF Stored
    <3> QED  BY <2>1, <2>3, <3>1, <3>3 DEF Stored
  <2> QED  BY <2>2, <2>3
<1> QED  BY <1>1, PostInvariant, PTL

(* Only a field that was cut on its way makes the server refuse a good post.  *)
THEOREM FinePostsAccepted == Spec => []FinePostAccepted
<1>1. PostInv => FinePostAccepted
  BY DEF PostInv, Types, Answered, FinePostAccepted
<1> QED  BY <1>1, PostInvariant, PTL

(* While fields come whole the client is not killed while it writes a post    *)
(* that the server accepts: the server does not close before it has the file. *)
THEOREM FinePostsAreConfirmed == Spec => []ConfirmationDisplayed
<1>1. Init => ConfirmationDisplayed  BY DEF Init, ConfirmationDisplayed
<1>2. PostInv /\ ConfirmationDisplayed /\ [Next]_vars => ConfirmationDisplayed'
  <2> SUFFICES ASSUME PostInv, ConfirmationDisplayed, [Next]_vars,
                      client' = "killed", answer' = "mid", job'.text # 1, ~torn'
               PROVE  FALSE
    BY DEF ConfirmationDisplayed
  <2>1. job' = job
    BY DEF Next, Post, Child, WriteHeader, WriteData, Write, WriteKilled, WriteReset, ReadReply,
           NoSuchFile, TimeOut, Interrupt, Arrive, ResetComes, ReadField, ReadOp, ReadIds, ReadSize,
           ReadText, ReadSeparator, ReadTail, CopyData, CopyEnds, Die, vars
  <2>2. CASE client = "killed"
    <3>1. server = "closed"  BY <2>2 DEF PostInv, Written
    <3>2. UNCHANGED <<answer, torn>>
      BY <3>1 DEF Next, Post, Child, WriteHeader, WriteData, Write, WriteKilled, WriteReset,
                  ReadReply, NoSuchFile, TimeOut, Interrupt, Arrive, ResetComes, ReadOp, ReadIds,
                  ReadSize, ReadText, ReadSeparator, ReadTail, CopyData, CopyEnds, Die, vars, seen
    <3> QED  BY <2>1, <2>2, <3>2 DEF ConfirmationDisplayed
  <2>3. CASE client # "killed"
    <3>1. WriteKilled /\ client = "data"
      BY <2>3 DEF Next, Post, Child, WriteHeader, WriteData, Write, WriteReset, ReadReply, NoSuchFile,
                  TimeOut, Interrupt, Outcome, Arrive, ResetComes, ReadField, ReadOp, ReadIds,
                  ReadSize, ReadText, ReadSeparator, ReadTail, CopyData, CopyEnds, Die, vars
    <3>2. /\ link = "broken" /\ arrived < sent /\ answer = "mid" /\ pos <= arrived /\ sent <= DataEnd
          /\ job.file # NoFile /\ sent \in Nat /\ arrived \in Nat /\ pos \in Nat /\ ~torn
      BY <3>1 DEF WriteKilled, PostInv, Types, Written, Open, seen
    <3>3. client \notin Ended  BY <3>1 DEF Ended
    <3>4. pos >= DataEnd  BY <2>1, <3>2, <3>3 DEF PostInv, Answered
    <3>5. DataEnd \in Nat  BY <3>2, Places DEF PostInv, Types
    <3> QED  BY <3>2, <3>4, <3>5
  <2> QED  BY <2>2, <2>3
<1> QED  BY <1>1, <1>2, PostInvariant, PTL DEF Spec
=============================================================================
