----------------------------- MODULE PostTransfer -----------------------------
(***************************************************************************)
(* One PST connection: post() of client/src/commands.c writes a request,   *)
(*                                                                         *)
(*   PST uid gid tsize text\n      PST uid gid tsize text fname fsize data\n*)
(*                                                                         *)
(* and handleTCPCommand of server/src/tcp_handling.h splits it into fields *)
(* with one read() each.  TCP keeps no record boundaries: a read() returns *)
(* what has arrived, and the server never asks for the rest of a field.  A *)
(* byte is modelled by its place in the request and what the server stores *)
(* by the places it took: nothing else of the contents matters, but which  *)
(* number comes out of the digits that were read.                          *)
(***************************************************************************)
EXTENDS Integers

CONSTANTS
    TextLen,    \* lengths of the text, within 1 .. 240
    FileLen,    \* lengths of the file
    Name,       \* bytes of fname
    SizeLen,    \* digits of fsize
    TailRead,   \* the read() for fname and fsize, 36 bytes
    Block,      \* the buffer of 1024 bytes at either side
    StraySize,  \* numbers in a tsize that holds no digit of the text's length
    StrayFile,  \* numbers in an fsize that holds no digit of the file's length
    Verdict,    \* what the server's checks say: see Verdicts
    NoFile,     \* a post without a file, or none stored
    Garbled     \* a text or a file taken after a field was cut

Verdicts == {"fine",        \* every field is accepted and post() finds the user a member
             "badFields",   \* parseUID, parseGID or parseTSize refuses
             "badFile",     \* parseFName or parseFileSize refuses
             "refused"}     \* post() returns NULL

ASSUME LengthAssumption ==
    /\ TextLen \subseteq 1 .. 240 /\ FileLen \subseteq Nat
    /\ Name \in Nat \ {0} /\ SizeLen \in [FileLen -> 1 .. 10]
    /\ TailRead \in Nat /\ \A n \in FileLen : Name + SizeLen[n] + 2 <= TailRead
    /\ Block \in Nat \ {0}
    /\ StraySize \subseteq 0 .. 240 /\ StrayFile \subseteq Nat
    /\ NoFile \notin Int /\ Garbled # NoFile /\ Verdict \subseteq Verdicts

VARIABLES
    job,        \* what is posted: [text, file, verdict]
    client,     \* where post() of the client is, or how it ended
    server,     \* where the child is
    sent,       \* bytes the client has written
    arrived,    \* bytes that have come to the server
    pos,        \* bytes the server has read
    link,       \* the connection as the client's kernel sees it
    verdict,    \* what the checks say of the fields as they were read
    missing,    \* bytes of the text, then of the file, that the child still asks for
    text,       \* the places of the bytes taken for the text: [from, to)
    data,       \* the places of the bytes stored as the file: [from, to)
    answer,     \* "mid", "NOK" or "ERR", "none" before
    torn        \* history: a read() brought only a part of its field

seen == <<verdict, missing, text, data, torn>>    \* what the child made of the request
vars == <<job, client, server, sent, arrived, pos, link, answer, seen>>

Lesser(a, b) == IF a <= b THEN a ELSE b
Digits(n) == IF n < 10 THEN 1 ELSE IF n < 100 THEN 2 ELSE 3

(* atoi of the first k digits of a number of up to three.                     *)
Leading(n, k) == CASE k >= Digits(n)    -> n
                   [] k = Digits(n) - 1 -> n \div 10
                   [] OTHER             -> n \div 100

(* Places in the request: the ends of the fields.                             *)
OpEnd     == 4
IdsEnd    == 13
TextStart == IdsEnd + Digits(job.text) + 1
TextEnd   == TextStart + job.text
NumberAt  == TextEnd + 1 + Name + 1                  \* the first digit of fsize
Tail      == Name + 1 + SizeLen[job.file] + 1
HeaderEnd == IF job.file = NoFile THEN TextEnd + 1 ELSE TextEnd + 1 + Tail
DataEnd   == HeaderEnd + job.file

Ended == {"posted", "refused", "failed", "killed", "noSuchFile", "interrupted"}

-----------------------------------------------------------------------------
(* The client.                                                                *)

(* The header goes out in one write.                                          *)
WriteHeader ==
    /\ client = "header"
    /\ sent' = HeaderEnd
    /\ client' = IF job.file = NoFile THEN "reply" ELSE "data"
    /\ UNCHANGED <<job, server, arrived, pos, link, answer, seen>>

(* fopen fails: post() returns and leaves the connection as it is.            *)
NoSuchFile ==
    /\ client = "header" /\ job.file # NoFile
    /\ client' = "noSuchFile"
    /\ UNCHANGED <<job, server, sent, arrived, pos, link, answer, seen>>

(* A write of n bytes that the kernel takes: it does so too when the server   *)
(* has closed and its reset has not come yet.                                 *)
Write(n, next) ==
    /\ link # "broken"
    /\ sent' = sent + n /\ client' = next
    /\ UNCHANGED <<job, server, arrived, pos, link, answer, seen>>

(* A write after the server closed and a reset came: nobody handles SIGPIPE.  *)
WriteKilled ==
    /\ link = "broken"
    /\ client' = "killed"
    /\ UNCHANGED <<job, server, sent, arrived, pos, link, answer, seen>>

(* What the client makes of an answer: of "ERR" it leaves status unassigned.  *)
Outcome == CASE answer = "mid" -> {"posted"}
             [] answer = "NOK" -> {"refused"}
             [] answer = "ERR" -> {"posted", "refused"}
             [] OTHER          -> {"failed"}

(* A write after the server closed with bytes unread: ECONNRESET.             *)
WriteReset(next) ==
    /\ link = "reset"
    /\ client' \in next
    /\ UNCHANGED <<job, server, sent, arrived, pos, link, answer, seen>>

WriteData ==
    /\ client = "data"
    /\ \/ /\ sent < DataEnd
          /\ \/ Write(Lesser(Block, DataEnd - sent), "data")
             \/ WriteKilled
             \/ WriteReset(Outcome)
       \/ sent = DataEnd /\ (Write(1, "reply") \/ WriteKilled \/ WriteReset({"failed"}))

(* The answer; end of input without one leaves status as it was, and the word *)
(* in it may be "NOK" or anything else; after a reset read() fails.           *)
ReadReply ==
    /\ client = "reply"
    /\ \/ answer # "none" /\ client' \in Outcome
       \/ /\ answer = "none" /\ server = "closed"
          /\ client' \in IF link = "reset" THEN {"failed"} ELSE {"posted", "refused"}
    /\ UNCHANGED <<job, server, sent, arrived, pos, link, answer, seen>>

(* SO_RCVTIMEO, 15 seconds; the answer may be on its way.                     *)
TimeOut ==
    /\ client = "reply"
    /\ client' = "failed"
    /\ UNCHANGED <<job, server, sent, arrived, pos, link, answer, seen>>

(* SIGINT at the client: exitClient.                                          *)
Interrupt ==
    /\ client \notin Ended
    /\ client' = "interrupted"
    /\ UNCHANGED <<job, server, sent, arrived, pos, link, answer, seen>>

(* The application has left the connection: post() closes it on every way     *)
(* out but one.                                                               *)
Hung == client \in Ended \ {"noSuchFile"}

-----------------------------------------------------------------------------
(* TCP.  A segment brings a part of what was written: the stream may be cut   *)
(* at every byte, whatever the writes were.                                   *)

Arrive ==
    /\ server # "closed"
    /\ arrived' \in arrived + 1 .. sent
    /\ UNCHANGED <<job, client, server, sent, pos, link, answer, seen>>

(* Bytes that reach a closed socket are answered with a reset.                *)
ResetComes ==
    /\ link = "fin" /\ arrived < sent
    /\ link' = "broken"
    /\ UNCHANGED <<job, client, server, sent, arrived, pos, answer, seen>>

-----------------------------------------------------------------------------
(* The child of the server.                                                   *)

(* read() returns what there is, at least one byte unless the client is gone. *)
CanRead == arrived > pos \/ (Hung /\ arrived = sent)
Got(want) == Lesser(want, arrived - pos)

(* One read() of a field that ends at the place end.                          *)
ReadField(want, end) ==
    /\ CanRead
    /\ pos' = pos + Got(want)
    /\ torn' = (torn \/ pos' < end)
    /\ UNCHANGED <<job, client, sent, arrived>>

(* What a read has taken: its places, unless a field was cut.                 *)
Taken(from, to) == IF torn' THEN Garbled ELSE [from |-> from, to |-> to]

GoOn(next) == server' = next /\ UNCHANGED <<link, answer>>

(* Answers and ends; close() with bytes unread resets the connection.         *)
Close(a) ==
    /\ server' = "closed" /\ answer' = a
    /\ link' = IF arrived > pos' THEN "reset" ELSE "fin"

Posted == IF verdict = "refused" THEN "NOK" ELSE "mid"

(* "PST " or "PST"; anything shorter is no command.                           *)
ReadOp ==
    /\ server = "op" /\ ReadField(4, OpEnd)
    /\ IF pos' >= 3 THEN GoOn("ids") ELSE Close("ERR")
    /\ UNCHANGED <<verdict, missing, text, data>>

(* uid and gid in one read.  A part of either is refused; a gid of which      *)
(* nothing came is not assigned and may be any group.                         *)
ReadIds ==
    /\ server = "ids" /\ ReadField(9, IdsEnd)
    /\ \/ pos' >= IdsEnd - 1 /\ UNCHANGED verdict
       \/ pos' \in {9, 10} /\ verdict' \in Verdicts
       \/ pos' < IdsEnd - 1 /\ pos' \notin {9, 10} /\ verdict' = "badFields"
    /\ GoOn("size")
    /\ UNCHANGED <<missing, text, data>>

(* tsize, from the place pos on: the number, and where the text begins.  The  *)
(* byte behind the digits is passed over.  Without a digit tsize holds those  *)
(* of gid or is not assigned, and of the last byte one cannot say whether it  *)
(* belongs to the text.                                                       *)
SizeSeen ==
    LET k == Lesser(pos' - IdsEnd, Digits(job.text)) IN
    IF pos >= IdsEnd - 1 /\ k > 0
    THEN {[size |-> Leading(job.text, k), text |-> Lesser(pos + k + 1, pos')]}
    ELSE [size : StraySize, text : {pos' - 1, pos'}]

(* The rest of the four bytes begins the text.  A text of one byte is posted  *)
(* at once.                                                                   *)
ReadSize ==
    /\ server = "size" /\ ReadField(4, IF job.text = 1 THEN TextEnd ELSE TextStart)
    /\ \E s \in SizeSeen :
         \/ (verdict = "badFields" \/ s.size = 0) /\ Close("NOK") /\ UNCHANGED <<missing, text>>
         \/ /\ verdict # "badFields" /\ s.size = 1 /\ Close(Posted)
            /\ text' = Taken(s.text, s.text + 1) /\ UNCHANGED missing
         \/ /\ verdict # "badFields" /\ s.size > 1 /\ GoOn("text")
            /\ text' = Taken(s.text, pos') /\ missing' = s.size - (pos' - s.text)
    /\ UNCHANGED <<verdict, data>>

ReadText_Whole ==                          \* mutant: reads tsize bytes, not what is missing of them
    /\ server = "text" /\ ReadField(missing + 17 - TextStart, TextEnd)
    /\ text' = Taken(text.from, pos')
    /\ GoOn("separator") /\ missing' = 0
    /\ UNCHANGED <<verdict, data>>

(* One read() for the rest of the text; of nothing if there is no rest.       *)
ReadText ==
    /\ server = "text"
    /\ \/ ReadField(missing, TextEnd)
       \/ missing = 0 /\ UNCHANGED <<job, client, sent, arrived, pos, torn>>
    /\ text' = Taken(text.from, pos')
    /\ GoOn("separator") /\ missing' = 0
    /\ UNCHANGED <<verdict, data>>

(* What the next byte may be.  A text, a name and a file may contain blanks.  *)
(* At the end of input c is not assigned.                                     *)
NextByte ==
    CASE pos < arrived /\ pos = TextEnd -> IF job.file = NoFile THEN {"newline"} ELSE {"blank"}
      [] pos < arrived /\ pos < TextEnd -> {"blank", "other"}
      [] OTHER                          -> {"newline", "blank", "other"}

(* One byte more: a newline ends the post, behind a blank comes a file.  When *)
(* the text came in two parts it is a byte of the text.                       *)
ReadSeparator ==
    /\ server = "separator" /\ ReadField(1, 0)
    /\ \E c \in NextByte :
         \/ c = "newline" /\ Close(Posted)
         \/ c = "blank"   /\ GoOn("tail")
         \/ c = "other"   /\ Close("NOK")
    /\ UNCHANGED <<verdict, missing, text, data>>

TakeFile_FromName(b, n) ==                 \* mutant: writes the read from its first byte
    /\ data' = Taken(pos, pos') /\ missing' = n
    /\ GoOn("copy")

(* fname and fsize in one read, with whatever comes behind them: the bytes    *)
(* from b on go to the file, and the loop waits for n more.                   *)
TakeFile(b, n) ==
    /\ data' = Taken(b, pos') /\ missing' = n
    /\ GoOn("copy")

RefuseFile == Close("NOK") /\ UNCHANGED <<data, missing>>

ReadTail_CountsNone ==                     \* mutant: fbytes_read starts at 0
    /\ server = "tail" /\ ReadField(TailRead, HeaderEnd)
    /\ \/ verdict = "fine" /\ ~torn /\ pos' >= HeaderEnd - 1
          /\ TakeFile(HeaderEnd, job.file)
       \/ (verdict # "fine" \/ torn') /\ RefuseFile
    /\ UNCHANGED <<verdict, text>>

(* With all digits the size is right, and -1 is what fbytes_read is without   *)
(* the blank behind them.  With some of them the number is smaller.  With     *)
(* none, or when the text was cut, name and size are anything.                *)
ReadTail ==
    /\ server = "tail" /\ ReadField(TailRead, HeaderEnd)
    /\ \/ /\ ~torn /\ pos' >= HeaderEnd - 1
          /\ \/ verdict = "fine"
                /\ TakeFile(HeaderEnd, job.file - (pos' - HeaderEnd))
             \/ verdict # "fine" /\ RefuseFile
       \/ /\ ~torn /\ NumberAt < pos' /\ pos' < HeaderEnd - 1
          /\ \/ \E n \in 0 .. job.file - 1 :
                   verdict \in {"fine", "badFile"} /\ TakeFile(pos', n + 1)
             \/ verdict # "fine" /\ RefuseFile
       \/ /\ torn \/ pos' <= NumberAt
          /\ \/ \E n \in StrayFile : verdict # "refused" /\ TakeFile(pos', n)
             \/ RefuseFile
    /\ UNCHANGED <<verdict, text>>

CopyData_FullBlocks ==                     \* mutant: reads sizeof(buffer) whatever is left
    /\ server = "copy" /\ missing > 0 /\ arrived > pos
    /\ UNCHANGED <<job, client, server, sent, arrived, link, verdict, text, answer, torn>>
    /\ pos' = pos + Got(Block)
    /\ data' = Taken(data.from, pos') /\ missing' = missing - Got(Block)

CopyData ==
    /\ server = "copy" /\ missing > 0 /\ arrived > pos
    /\ UNCHANGED <<job, client, server, sent, arrived, link, verdict, text, answer, torn>>
    /\ pos' = pos + Got(Lesser(Block, missing))
    /\ data' = Taken(data.from, pos') /\ missing' = missing - (pos' - pos)

CopyEnds_Early ==                          \* mutant: one byte short of the whole file
    /\ server = "copy" /\ (missing <= 1 \/ (CanRead /\ arrived = pos))
    /\ pos' = pos /\ Close("mid")
    /\ UNCHANGED <<job, client, sent, arrived, seen>>

(* The whole file, or end of input: acknowledged either way.                  *)
CopyEnds ==
    /\ server = "copy" /\ (missing <= 0 \/ (CanRead /\ arrived = pos))
    /\ pos' = pos /\ Close("mid")
    /\ UNCHANGED <<job, client, sent, arrived, seen>>

(* The child ends in the middle: SIGINT reaches it with the main process, or  *)
(* it uses a FILE* that is NULL.                                              *)
Die ==
    /\ server # "closed"
    /\ pos' = pos /\ Close(answer)
    /\ UNCHANGED <<job, client, sent, arrived, seen>>

-----------------------------------------------------------------------------
Job == [text : TextLen, file : FileLen \cup {NoFile}, verdict : Verdict]

Init ==
    /\ job \in {j \in Job : j.file = NoFile => j.verdict # "badFile"}
    /\ client = "header" /\ server = "op"
    /\ sent = 0 /\ arrived = 0 /\ pos = 0 /\ link = "open"
    /\ verdict = job.verdict /\ missing = 0 /\ text = [from |-> 0, to |-> 0]
    /\ data = NoFile /\ answer = "none" /\ torn = FALSE

Post == WriteHeader \/ WriteData \/ ReadReply

Child ==
    \/ ReadOp \/ ReadIds \/ ReadSize \/ ReadText \/ ReadSeparator \/ ReadTail
    \/ CopyData \/ CopyEnds

Next ==
    \/ Post \/ NoSuchFile \/ TimeOut \/ Interrupt
    \/ Child \/ Die
    \/ Arrive \/ ResetComes

Spec == Init /\ [][Next]_vars

(* Both sides are scheduled and the network delivers; nobody has to time out. *)
FairSpec == Spec /\ WF_vars(Post) /\ WF_vars(Child) /\ WF_vars(Arrive)

-----------------------------------------------------------------------------
(* Nothing is read before it is sent, and nothing is stored that was not read.*)
TypeOK ==
    /\ job \in Job
    /\ client \in {"header", "data", "reply"} \cup Ended
    /\ server \in {"op", "ids", "size", "text", "separator", "tail", "copy", "closed"}
    /\ 0 <= pos /\ pos <= arrived /\ arrived <= sent
    /\ link \in {"open", "fin", "reset", "broken"}
    /\ verdict \in Verdicts /\ missing \in Int /\ torn \in BOOLEAN
    /\ text \in [from : 0 .. pos, to : 0 .. pos] \/ (torn /\ text = Garbled)
    /\ \/ data = NoFile
       \/ data \in [from : {HeaderEnd}, to : HeaderEnd .. pos]
       \/ torn /\ data = Garbled
    /\ answer \in {"none", "mid", "NOK", "ERR"}

(* "the User [...] sends a message containing text [...], and possibly also a *)
(* file with name Fname. The confirmation of success (or not) should be       *)
(* displayed" (README.md:69-72): when the client displays a MID it was given, *)
(* the server has the text, and the file with exactly the bytes of the file   *)
(* that was posted, if each read() before the data brought its whole field.   *)
(* Two kinds of posts are left out: the server drops the file of a text of    *)
(* one character, and a file that fits into the read of its name is stored    *)
(* with the newline that ends the request.                                    *)
PostedIsStored ==
    /\ client = "posted" /\ answer = "mid" /\ ~torn
    /\ job.file # NoFile => job.text # 1 /\ Tail + job.file >= TailRead
    => /\ text = [from |-> TextStart, to |-> TextEnd]
       /\ IF job.file = NoFile THEN data = NoFile
          ELSE data = [from |-> HeaderEnd, to |-> DataEnd]

(* However the data is cut into segments, and also for small files that come  *)
(* in the same read as their name: the bytes of the file are all there when   *)
(* the server acknowledges what a client sent to the end, and at most the     *)
(* newline that ends the request is stored behind them.                       *)
UploadComplete ==
    answer = "mid" /\ data # NoFile /\ ~torn /\ sent >= DataEnd =>
        /\ data.from = HeaderEnd
        /\ data.to = DataEnd \/ (data.to = DataEnd + 1 /\ Tail + job.file < TailRead)

(* A post the server can accept is refused only when a read() brought a part  *)
(* of a field, as the one that "reads the rest of the text message"           *)
(* (tcp_handling.h:141) may: the framing itself refuses nothing.              *)
FinePostAccepted ==
    job.verdict = "fine" /\ answer \in {"NOK", "ERR"} => torn

(* "The confirmation of success (or not) should be displayed" (README.md:72): *)
(* while fields come whole SIGPIPE ends no client whose post is accepted,     *)
(* however fast the server closes; it may end one that is refused while it    *)
(* still sends its file, or whose file is dropped because the text has one    *)
(* character.                                                                 *)
ConfirmationDisplayed ==
    client = "killed" => answer # "mid" \/ job.text = 1 \/ torn

(* While fields come whole, the reads of the server never wait for bytes that *)
(* the client does not send: without any time-out, the client comes to an     *)
(* answer and the child to its end.  When a field was cut the child may wait  *)
(* for them, at most until the client's time-out (SO_RCVTIMEO).  Only post()  *)
(* of a file that does not exist leaves its child waiting, until the          *)
(* application ends.                                                          *)
PostsEnd ==
    ([]~torn \/ WF_vars(TimeOut)) =>
        <>(client \in Ended /\ (server = "closed" \/ client = "noSuchFile"))
=============================================================================
