--------------------------- MODULE RetrieveTransfer ---------------------------
(***************************************************************************)
(* One RTV connection that the server has answered with "RRT OK n": the    *)
(* loop of handleTCPCommand (server/src/tcp_handling.h) that sends n       *)
(* messages, and retrieve() of client/src/commands.c, which collects all   *)
(* it receives in temp.bin, takes it apart and makes a local file for each *)
(* message and for each file that came with one.                           *)
(*                                                                         *)
(* What was sent is given by the number of headers and of the bytes behind *)
(* each: the client finds the next header, bytes of a file where it looks  *)
(* for one, or the end.  It works in one directory, so that a posted file  *)
(* may have the name of the local file of a message, or that of temp.bin.  *)
(***************************************************************************)
EXTENDS Integers

CONSTANTS
    Mid,        \* 1 .. N, the messages asked for
    FName,      \* names of posted files
    FileLen,    \* lengths of posted files, in bytes
    Drift,      \* bytes by which a file may differ when it is sent from what was announced
    TextName,   \* GROUP_<gid>_MSG_<mid>.txt
    Temp,       \* temp.bin
    NoFile,     \* a message without a file
    Nameless,   \* a message with an empty F I L E.txt
    Unsigned,   \* a message with an empty A U T H O R.txt
    Junk        \* a message number that is not one

N == IF Mid = {} THEN 0 ELSE CHOOSE n \in Mid : \A m \in Mid : m <= n

Local == Mid \cup {Junk}

ASSUME MessageAssumption ==
    /\ N \in Nat /\ Mid = 1 .. N /\ Junk \notin Nat
    /\ FileLen \subseteq Nat /\ Drift \subseteq Int
    /\ Nameless # Unsigned /\ Nameless # NoFile /\ Unsigned # NoFile

ASSUME NameAssumption ==
    /\ DOMAIN TextName = Local
    /\ \A m, k \in Local : TextName[m] = TextName[k] => m = k
    /\ \A m \in Local : TextName[m] # Temp

WithFile == [fname : FName, len : FileLen]

ASSUME RecordAssumption == {NoFile, Nameless, Unsigned} \cap WithFile = {}

Message == WithFile \cup {NoFile, Nameless, Unsigned}
Name    == FName \cup {TextName[m] : m \in Local} \cup {Temp}

VARIABLES
    message,    \* the messages, as they are stored when the retrieve comes to them
    sending,    \* the message whose header comes next
    total,      \* the bytes its file turns out to have, for each message whose header is out
    sent,       \* those of them that are sent
    child,      \* "sending", "ended" or "dead"
    client,     \* what the client does: see TypeOK
    at,         \* the message whose header is the next in temp.bin
    ahead,      \* what lies before that: "header" when nothing does, the "file" header of
                \* the message before, or "bytes" of its file
    count,      \* how many rounds the client's loop has made
    back,       \* fseek(-1) at the end of temp.bin
    curr,       \* curr_mid
    disk        \* the local files

serverVars == <<message, sending, total, sent, child>>
clientVars == <<client, at, ahead, count, back, curr, disk>>
vars == <<serverVars, clientVars>>

HasFile(m) == message[m] \in WithFile

(* Contents of local files. *)
TextOf(m)  == [kind |-> "text", of |-> m, len |-> 0]
Part(m, n) == [kind |-> "file", of |-> m, len |-> n]        \* the first n bytes of its file
Zeros      == [kind |-> "zeros", of |-> Junk, len |-> 0]    \* as many as the last text had
Garbled    == [kind |-> "garbled", of |-> Junk, len |-> 0]
Missing    == [kind |-> "missing", of |-> Junk, len |-> 0]

-----------------------------------------------------------------------------
(* The child of the server.                                                   *)

FileSent == sending > 1 => sent[sending - 1] = total[sending - 1]

(* retrieve() of the server reads the message and makes its header, with the  *)
(* size of the file, which is out in one write.  A post that adds to the file *)
(* or starts it again makes what is sent longer or shorter.                   *)
SendHeader ==
    /\ child = "sending" /\ sending <= N /\ FileSent
    /\ IF HasFile(sending)
       THEN \E d \in Drift :
              /\ message[sending].len + d >= 0
              /\ total' = [total EXCEPT ![sending] = message[sending].len + d]
       ELSE UNCHANGED total
    /\ sending' = sending + 1
    /\ UNCHANGED <<message, sent, child, clientVars>>

(* The loop of readFile and write: a write goes out whole or is cut by the    *)
(* signal that ends the child.                                                *)
SendBytes ==
    /\ child = "sending" /\ ~FileSent
    /\ \E n \in sent[sending - 1] + 1 .. total[sending - 1] :
         sent' = [sent EXCEPT ![sending - 1] = n]
    /\ UNCHANGED <<message, sending, total, child, clientVars>>

SendEnd ==
    /\ child = "sending" /\ sending > N /\ FileSent
    /\ child' = "ended"
    /\ UNCHANGED <<message, sending, total, sent, clientVars>>

(* SIGINT, the FILE* of a text that a post has not created yet, or SIGPIPE.   *)
Die ==
    /\ child = "sending"
    /\ child' = "dead"
    /\ UNCHANGED <<message, sending, total, sent, clientVars>>

-----------------------------------------------------------------------------
(* The client.                                                                *)

(* read() returns 0: the server has closed or is dead, all it sent is there.  *)
Collected ==
    /\ client = "collect" /\ child # "sending"
    /\ client' = "message"
    /\ UNCHANGED <<serverVars, at, ahead, count, back, curr, disk>>

(* read() gives up after 15 seconds: nothing is taken apart.                  *)
TimeOut ==
    /\ client = "collect" /\ child = "sending"
    /\ client' = "failed"
    /\ UNCHANGED <<serverVars, at, ahead, count, back, curr, disk>>

AtHeader == ahead = "header" /\ at < sending
AtEnd    == ahead = "header" /\ at = sending

(* mid, uid, tsize and text.  At the end of temp.bin the scan leaves the      *)
(* variables as they are, or takes the last byte once more unless it is a     *)
(* blank, and a local file is written all the same.                           *)
ReadMessage ==
    /\ client = "message" /\ count < N
    /\ \/ /\ AtHeader
          /\ curr' = at /\ at' = at + 1
          /\ ahead' = IF message[at] = NoFile THEN "header" ELSE "file"
          /\ IF message[at] = Unsigned      \* the text is taken for its size
             THEN client' = "lost" /\ disk' = [disk EXCEPT ![TextName[at]] = Garbled]
             ELSE client' = "after" /\ disk' = [disk EXCEPT ![TextName[at]] = TextOf(at)]
          /\ UNCHANGED back
       \/ /\ AtEnd
          /\ curr' \in IF back THEN {curr, Junk} ELSE {curr}
          /\ disk' = [disk EXCEPT ![TextName[curr']] = Zeros]
          /\ back' = FALSE /\ client' = "after"
          /\ UNCHANGED <<at, ahead>>
       \/ /\ ahead # "header"
          /\ client' = "lost"
          /\ UNCHANGED <<at, ahead, back, curr, disk>>
    /\ UNCHANGED <<serverVars, count>>

Again == client' = "message" /\ count' = count + 1

After_NoPeek ==                            \* mutant: a message is taken to have no file
    /\ client = "after"
    /\ \/ (AtHeader \/ ahead = "file") /\ Again /\ UNCHANGED back
       \/ AtEnd /\ child = "ended" /\ client' = "unlink" /\ UNCHANGED <<count, back>>
       \/ AtEnd /\ child = "dead" /\ Again /\ back' = TRUE
    /\ UNCHANGED <<serverVars, at, ahead, curr, disk>>

(* The byte after the text, and the one after that: the next message, a file, *)
(* the newline that ends the answer, or nothing.                              *)
After ==
    /\ client = "after"
    /\ \/ AtHeader /\ Again /\ UNCHANGED back
       \/ ahead = "file" /\ client' = "file" /\ UNCHANGED <<count, back>>
       \/ AtEnd /\ child = "ended" /\ client' = "unlink" /\ UNCHANGED <<count, back>>
       \/ AtEnd /\ child = "dead" /\ Again /\ back' = TRUE
    /\ UNCHANGED <<serverVars, at, ahead, curr, disk>>

(* temp.bin ends with the bytes that were sent of this file. *)
CutHere == at = sending /\ child = "dead"

(* A file by the name of temp.bin empties that: the client goes on only if    *)
(* stdio has the rest in its buffer.                                          *)
GoOn(name) ==
    \/ Again
    \/ /\ name = Temp
       /\ client' = "lost" /\ UNCHANGED count

ReadFile_WholeBlocks(m) ==                 \* mutant: iter - j not looked at
    /\ disk' = [disk EXCEPT ![message[m].fname] = Part(m, sent[m] + 1)]
    /\ ahead' = "header"
    /\ Again

(* fsize bytes, or what there is of them.  Whatever more was sent lies before *)
(* the next header; whatever is missing is taken from behind.                 *)
ReadFile(m) ==
    LET fname == message[m].fname
        len   == message[m].len
    IN  \/ /\ sent[m] >= len
           /\ disk' = [disk EXCEPT ![fname] = Part(m, len)]
           /\ ahead' = IF sent[m] = len THEN "header" ELSE "bytes"
           /\ GoOn(fname)
        \/ /\ sent[m] < len /\ CutHere
           /\ disk' = [disk EXCEPT ![fname] = Part(m, sent[m])]
           /\ ahead' = "header"
           /\ GoOn(fname)
        \/ /\ sent[m] < len /\ ~CutHere
           /\ disk' = [disk EXCEPT ![fname] = Garbled]
           /\ client' = "lost" /\ UNCHANGED <<ahead, count>>

(* The size 9223372036854775807 is taken for the name, and the next mid for   *)
(* the size; if there is none, what fsize held makes an empty file.           *)
ReadNameless ==
    \/ at < sending /\ client' = "lost" /\ UNCHANGED <<ahead, count, disk>>
    \/ at = sending /\ ahead' = "header" /\ Again /\ UNCHANGED disk

TakeFile ==
    /\ client = "file"
    /\ IF message[at - 1] = Nameless THEN ReadNameless ELSE ReadFile(at - 1)
    /\ UNCHANGED <<serverVars, at, back, curr>>

(* The loop is over; temp.bin is unlinked.                                    *)
Finish ==
    /\ client = "unlink" \/ (client = "message" /\ count = N)
    /\ client' = "done" /\ disk' = [disk EXCEPT ![Temp] = Missing]
    /\ UNCHANGED <<serverVars, at, ahead, count, back, curr>>

-----------------------------------------------------------------------------
(* curr_mid is not initialised.                                               *)
Init ==
    /\ message \in [Mid -> Message]
    /\ sending = 1 /\ child = "sending"
    /\ total = [m \in Mid |-> 0] /\ sent = [m \in Mid |-> 0]
    /\ client = "collect" /\ at = 1 /\ ahead = "header" /\ count = 0 /\ back = FALSE
    /\ curr \in Local
    /\ disk = [f \in Name |-> Missing]

Next ==
    \/ SendHeader \/ SendBytes \/ SendEnd \/ Die
    \/ Collected \/ TimeOut \/ ReadMessage \/ After \/ TakeFile \/ Finish

Spec == Init /\ [][Next]_vars

-----------------------------------------------------------------------------
(* The server and the client have the shape their steps rely on: no more is   *)
(* sent than the file holds, and no local file is longer than what was sent.  *)
TypeOK ==
    /\ message \in [Mid -> Message] /\ sending \in 1 .. N + 1
    /\ total \in [Mid -> Nat] /\ sent \in [Mid -> Nat] /\ \A m \in Mid : sent[m] <= total[m]
    /\ child \in {"sending", "ended", "dead"}
    /\ client \in {"collect", "message", "after", "file", "unlink", "done", "lost", "failed"}
    /\ at \in 1 .. sending /\ ahead \in {"header", "file", "bytes"}
    /\ count \in 0 .. N /\ back \in BOOLEAN /\ curr \in Local
    /\ \A f \in Name : \/ disk[f] \in {Zeros, Garbled, Missing}
                       \/ \E m \in Mid : \/ disk[f] = TextOf(m)
                                        \/ \E n \in 0 .. sent[m] : disk[f] = Part(m, n)

Sent == {m \in Mid : m < sending}

(* The client can tell where each message ends: the files had the size that   *)
(* was announced, every message its author and every file its name, and none  *)
(* of them that of temp.bin.                                                  *)
InStep ==
    \A m \in Sent :
        /\ message[m] \in WithFile \cup {NoFile}
        /\ HasFile(m) => total[m] = message[m].len /\ message[m].fname # Temp

(* Message m is the last of the answer that makes a local file of name f. *)
Writes(m, f) == TextName[m] = f \/ (HasFile(m) /\ message[m].fname = f)
Leaves(m, f) == Writes(m, f) /\ \A k \in Sent : k > m => ~Writes(k, f)

Content(m, f, n) ==
    IF HasFile(m) /\ message[m].fname = f THEN Part(m, n) ELSE TextOf(m)

(* "creating local files for each message retrieved" (commands.c:730): what   *)
(* the client leaves under a name is what the last message with that name     *)
(* brought, its text or its whole file, and it leaves nothing else.  When the *)
(* child dies, of the last message that came the file may be short, and its   *)
(* text, like that of a message number that is not one, may be zeros: the     *)
(* client goes on for as many rounds as it was promised messages.             *)
LocalFilesFaithful ==
    client \in {"done", "lost"} /\ InStep =>
        /\ client = "done"
        /\ \A f \in Name, m \in Sent : Leaves(m, f) =>
              \/ disk[f] = Content(m, f, message[m].len)
              \/ /\ child = "dead"
                 /\ \/ f \in {TextName[sending - 1], TextName[Junk]} /\ disk[f] = Zeros
                    \/ m = sending - 1 /\ disk[f] = Content(m, f, sent[m])
        /\ child = "ended" =>
              \A f \in Name : (\A m \in Sent : ~Writes(m, f)) => disk[f] = Missing
=============================================================================
