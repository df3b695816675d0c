------------------------ MODULE RetrieveTransferProofs ------------------------
(***************************************************************************)
(* RetrieveTransfer, proved for any number of messages, files of any       *)
(* length and names in any arrangement, and a child that dies anywhere.    *)
(*                                                                         *)
(* Only the file of the last message can be short, and only when the child *)
(* is dead (Shape).  As long as the client is in step, it is at the header *)
(* it looks for and the local files are those of all that lies behind it,  *)
(* up to text K and file F (DiskOK).  When the child has died the client   *)
(* goes on at the end (Overrun), where it reaches the local file of the    *)
(* last message that came, that of a number that is none, and no other.    *)
(***************************************************************************)
EXTENDS RetrieveTransfer, TLAPS

USE MessageAssumption, NameAssumption

(* What TypeOK allows a local file to hold. *)
Holds(x) ==
    \/ x \in {Zeros, Garbled, Missing}
    \/ \E m \in Mid : x = TextOf(m) \/ \E n \in 0 .. sent[m] : x = Part(m, n)

Places ==
    /\ message \in [Mid -> Message] /\ sending \in 1 .. N + 1
    /\ total \in [Mid -> Nat] /\ sent \in [Mid -> Nat] /\ \A m \in Mid : sent[m] <= total[m]
    /\ child \in {"sending", "ended", "dead"}
    /\ client \in {"collect", "message", "after", "file", "unlink", "done", "lost", "failed"}
    /\ at \in 1 .. sending /\ ahead \in {"header", "file", "bytes"}
    /\ count \in 0 .. N /\ back \in BOOLEAN /\ curr \in Local
    /\ disk = [f \in Name |-> disk[f]]

TypeInv == Places /\ \A f \in Name : Holds(disk[f])

Shape ==
    /\ \A m \in Mid : m + 1 < sending => sent[m] = total[m]
    /\ \A m \in Mid : m >= sending => sent[m] = 0
    /\ child = "ended" => sending = N + 1 /\ \A m \in Mid : sent[m] = total[m]
    /\ client \notin {"collect", "failed"} => child # "sending"
    /\ client \in {"after", "file"} => count < N
    /\ client = "file" => ahead = "file"
    /\ ahead = "file" /\ client # "lost" =>
          at > 1 /\ message[at - 1] \in WithFile \cup {Nameless}
    /\ client \in {"collect", "failed"} =>
          /\ at = 1 /\ count = 0 /\ back = FALSE /\ ahead = "header"
          /\ \A f \in Name : disk[f] = Missing

-----------------------------------------------------------------------------
(* The local files when the texts of 1 .. K and the files of 1 .. F were made.*)

Makes(F, m, f) == TextName[m] = f \/ (m <= F /\ HasFile(m) /\ message[m].fname = f)

Made(F, m, f) ==
    IF m <= F /\ HasFile(m) /\ message[m].fname = f THEN Part(m, sent[m]) ELSE TextOf(m)

LastMade(K, F, m, f) == Makes(F, m, f) /\ \A k \in m + 1 .. K : ~Makes(F, k, f)

DiskOK(K, F) ==
    \A f \in Name :
        /\ (\A m \in 1 .. K : ~Makes(F, m, f)) => disk[f] = Missing
        /\ \A m \in 1 .. K : LastMade(K, F, m, f) => disk[f] = Made(F, m, f)

DiskOver ==
    \A f \in Name : \A m \in 1 .. sending - 1 :
        LastMade(sending - 1, sending - 1, m, f) =>
            \/ disk[f] = Made(sending - 1, m, f)
            \/ f \in {TextName[sending - 1], TextName[Junk]} /\ disk[f] = Zeros

AtMessage ==
    /\ client = "message" /\ ahead = "header" /\ count = at - 1 /\ back = FALSE
    /\ at > 1 => curr = at - 1
    /\ DiskOK(at - 1, at - 1)

BehindText ==
    /\ client \in {"after", "file"} /\ at > 1 /\ count = at - 2 /\ back = FALSE
    /\ curr = at - 1 /\ DiskOK(at - 1, at - 2)
    /\ ahead = IF HasFile(at - 1) THEN "file" ELSE "header"

AtNewline ==
    client = "unlink" /\ child = "ended" /\ DiskOK(sending - 1, sending - 1)

Overrun ==
    /\ child = "dead" /\ client \in {"message", "after"} /\ at = sending /\ ahead = "header"
    /\ sending > 1 => curr \in {sending - 1, Junk}
    /\ DiskOver

Done ==
    /\ client = "done" /\ child \in {"ended", "dead"}
    /\ child = "ended" => DiskOK(sending - 1, sending - 1)
    /\ child = "dead" => DiskOver

Parsed == AtMessage \/ BehindText \/ AtNewline \/ Overrun \/ Done

RetrieveInv ==
    /\ TypeInv /\ Shape
    /\ client \notin {"collect", "failed"} /\ InStep => Parsed

-----------------------------------------------------------------------------
(* Types.                                                                     *)

LEMMA NameFacts ==
    /\ \A m \in Local : TextName[m] \in Name
    /\ Temp \in Name /\ FName \subseteq Name
    /\ Junk \in Local /\ \A m \in Mid : m \in Local
BY DEF Name, Local

LEMMA FileFacts ==
    ASSUME message \in [Mid -> Message], NEW m \in Mid, HasFile(m)
    PROVE  message[m].fname \in FName /\ message[m].len \in Nat
BY DEF HasFile, WithFile

LEMMA PlacesInit == Init => Places
<1> SUFFICES ASSUME Init  PROVE Places
  OBVIOUS
<1>1. disk = [f \in Name |-> disk[f]]  BY DEF Init
<1>2. /\ sent \in [Mid -> Nat] /\ total \in [Mid -> Nat]
      /\ \A m \in Mid : sent[m] <= total[m]
  BY DEF Init
<1>3. sending \in 1 .. N + 1 /\ at \in 1 .. sending /\ count \in 0 .. N
  BY DEF Init
<1>4. message \in [Mid -> Message] /\ back \in BOOLEAN /\ curr \in Local
  BY DEF Init
<1> QED  BY <1>1, <1>2, <1>3, <1>4 DEF Init, Places

(* A local file is rewritten. *)
LEMMA DiskWritten ==
    ASSUME TypeInv, NEW f \in Name, NEW x, disk' = [disk EXCEPT ![f] = x],
           UNCHANGED sent, Holds(x)
    PROVE  /\ disk' = [g \in Name |-> disk'[g]]
           /\ \A g \in Name : Holds(disk[g])'
<1>1. disk = [g \in Name |-> disk[g]]
  BY DEF TypeInv, Places
<1>2. disk' = [g \in Name |-> IF g = f THEN x ELSE disk[g]]  BY <1>1
<1>3. ASSUME NEW g \in Name  PROVE Holds(disk[g])'
  <2>1. disk'[g] = x \/ disk'[g] = disk[g]  BY <1>2
  <2>2. Holds(disk[g])  BY DEF TypeInv
  <2> QED  BY <2>1, <2>2 DEF Holds
<1> QED  BY <1>2, <1>3

LEMMA ServerType ==
    ASSUME TypeInv, Shape, SendHeader \/ SendBytes \/ SendEnd \/ Die
    PROVE  TypeInv' /\ Shape'
<1>0. /\ message \in [Mid -> Message] /\ sending \in 1 .. N + 1 /\ sending \in Nat
      /\ total \in [Mid -> Nat] /\ sent \in [Mid -> Nat] /\ \A m \in Mid : sent[m] <= total[m]
      /\ child = "sending" /\ at \in 1 .. sending
      /\ \A m \in Mid : m + 1 < sending => sent[m] = total[m]
      /\ \A m \in Mid : m >= sending => sent[m] = 0
      /\ UNCHANGED <<message, clientVars>>
  BY DEF TypeInv, Places, Shape, SendHeader, SendBytes, SendEnd, Die
<1>1. client \in {"collect", "failed"}  BY <1>0 DEF Shape, TypeInv, Places
<1>2. /\ sending' \in 1 .. N + 1 /\ sending <= sending'
      /\ total' \in [Mid -> Nat] /\ sent' \in [Mid -> Nat]
      /\ \A m \in Mid : sent'[m] <= total'[m] /\ sent[m] <= sent'[m]
      /\ child' \in {"sending", "ended", "dead"}
      /\ \A m \in Mid : m + 1 < sending' => sent'[m] = total'[m]
      /\ \A m \in Mid : m >= sending' => sent'[m] = 0
      /\ child' = "ended" => sending' = N + 1 /\ \A m \in Mid : sent'[m] = total'[m]
  <2>1. CASE SendHeader
    <3>0. sending \in Mid /\ sending' = sending + 1 /\ UNCHANGED <<sent, child>>
      BY <1>0, <2>1 DEF SendHeader
    <3>1. PICK n \in Nat : total' = [total EXCEPT ![sending] = n] \/ total' = total
      <4>1. CASE HasFile(sending)
        <5>1. PICK d \in Drift : message[sending].len + d >= 0 /\
                 total' = [total EXCEPT ![sending] = message[sending].len + d]
          BY <2>1, <4>1 DEF SendHeader
        <5>2. message[sending].len + d \in Nat  BY <1>0, <3>0, <4>1, <5>1, FileFacts
        <5> QED  BY <5>1, <5>2
      <4>2. CASE ~HasFile(sending)  BY <2>1, <4>2 DEF SendHeader
      <4> QED  BY <4>1, <4>2
    <3>2. sending > 1 => sent[sending - 1] = total[sending - 1]
      BY <2>1 DEF SendHeader, FileSent
    <3>3. total' \in [Mid -> Nat] /\ \A m \in Mid : m # sending => total'[m] = total[m]
      BY <1>0, <3>1
    <3>4. sent[sending] = 0 /\ total'[sending] \in Nat  BY <1>0, <3>0, <3>3
    <3>5. \A m \in Mid : m + 1 < sending' => sent[m] = total'[m]
      <4> SUFFICES ASSUME NEW m \in Mid, m + 1 < sending'  PROVE sent[m] = total'[m]
        OBVIOUS
      <4>1. m < sending /\ total'[m] = total[m]  BY <1>0, <3>0, <3>3
      <4> QED  BY <1>0, <3>2, <4>1
    <3>6. \A m \in Mid : sent[m] <= total'[m]
      <4> SUFFICES ASSUME NEW m \in Mid  PROVE sent[m] <= total'[m]
        OBVIOUS
      <4>1. CASE m = sending  BY <3>4, <4>1
      <4>2. CASE m # sending  BY <1>0, <3>3, <4>2
      <4> QED  BY <4>1, <4>2
    <3> QED  BY <1>0, <3>0, <3>3, <3>5, <3>6
  <2>2. CASE SendBytes
    <3>0. /\ sending > 1 /\ UNCHANGED <<sending, total, child>>
          /\ \E n \in sent[sending - 1] + 1 .. total[sending - 1] :
                sent' = [sent EXCEPT ![sending - 1] = n]
      BY <1>0, <2>2 DEF SendBytes, FileSent
    <3>1. sending - 1 \in Mid  BY <1>0, <3>0
    <3> QED  BY <1>0, <3>0, <3>1
  <2>3. CASE SendEnd
    <3>1. /\ sending = N + 1 /\ child' = "ended" /\ UNCHANGED <<sending, total, sent>>
          /\ sending > 1 => sent[sending - 1] = total[sending - 1]
      BY <1>0, <2>3 DEF SendEnd, FileSent
    <3>2. \A m \in Mid : sent[m] = total[m]  BY <1>0, <3>1
    <3> QED  BY <1>0, <3>1, <3>2
  <2>4. CASE Die  BY <1>0, <2>4 DEF Die
  <2> QED  BY <2>1, <2>2, <2>3, <2>4
<1>3. at' \in 1 .. sending'  BY <1>0, <1>2 DEF clientVars
<1>4. \A f \in Name : Holds(disk[f])'
  <2> SUFFICES ASSUME NEW f \in Name  PROVE Holds(disk[f])'
    OBVIOUS
  <2>1. disk[f] = Missing /\ disk'[f] = disk[f]  BY <1>0, <1>1 DEF Shape, clientVars
  <2> QED  BY <2>1 DEF Holds, Missing
<1>5. Places'  BY <1>0, <1>2, <1>3 DEF TypeInv, Places, clientVars
<1>6. Shape'
  <2>1. client' = client /\ ahead' = ahead /\ at' = at /\ count' = count /\ back' = back
    BY <1>0 DEF clientVars
  <2>2. at = 1 /\ count = 0 /\ back = FALSE /\ ahead = "header"
    BY <1>1 DEF Shape
  <2>3. \A f \in Name : disk'[f] = Missing'
    BY <1>0, <1>1 DEF Shape, clientVars, Missing
  <2> QED  BY <1>1, <1>2, <2>1, <2>2, <2>3 DEF Shape
<1> QED  BY <1>4, <1>5, <1>6 DEF TypeInv

LEMMA ClientStays ==
    ASSUME TypeInv, Shape, Collected \/ TimeOut
    PROVE  TypeInv' /\ Shape'
<1>1. /\ UNCHANGED <<serverVars, at, ahead, count, back, curr, disk>>
      /\ client = "collect" /\ client' \in {"message", "failed"}
      /\ client' = "message" => child # "sending"
  BY DEF Collected, TimeOut
<1>2. TypeInv'  BY <1>1 DEF TypeInv, Places, Holds, serverVars
<1>3. Shape'  BY <1>1 DEF Shape, serverVars, HasFile
<1> QED  BY <1>2, <1>3

(* The local file that each step of the client may write. *)
LEMMA ReadMessageType ==
    ASSUME TypeInv, Shape, ReadMessage
    PROVE  TypeInv' /\ Shape'
<1>0. /\ message \in [Mid -> Message] /\ sending \in 1 .. N + 1 /\ at \in 1 .. sending
      /\ client = "message" /\ count < N /\ UNCHANGED <<serverVars, count>>
      /\ curr \in Local /\ back \in BOOLEAN /\ child # "sending"
  BY DEF TypeInv, Places, Shape, ReadMessage
<1>1. CASE AtHeader
  <2>1. /\ at \in Mid /\ at \in Local /\ at < sending
        /\ curr' = at /\ at' = at + 1 /\ UNCHANGED back
        /\ ahead' = IF message[at] = NoFile THEN "header" ELSE "file"
        /\ client' = "after" \/ (client' = "lost" /\ message[at] = Unsigned)
        /\ message[at] = Unsigned => client' = "lost"
    BY <1>0, <1>1 DEF ReadMessage, AtHeader, AtEnd, Local
  <2>2. PICK x \in {Garbled, TextOf(at)} : disk' = [disk EXCEPT ![TextName[at]] = x]
    BY <1>0, <1>1, <2>1 DEF ReadMessage, AtHeader, AtEnd
  <2>3. Holds(x)  BY <2>1, <2>2 DEF Holds
  <2>4. /\ disk' = [g \in Name |-> disk'[g]]
        /\ \A g \in Name : Holds(disk[g])'
    BY <1>0, <2>1, <2>2, <2>3, NameFacts, DiskWritten DEF serverVars
  <2>5. Places'  BY <1>0, <2>1, <2>4 DEF TypeInv, Places, serverVars
  <2>6. message[at] \in Message  BY <1>0, <2>1
  <2>7. Shape'  BY <1>0, <2>1, <2>6 DEF Shape, serverVars, Message
  <2> QED  BY <2>4, <2>5, <2>7 DEF TypeInv
<1>2. CASE AtEnd
  <2>1. /\ curr' \in Local /\ disk' = [disk EXCEPT ![TextName[curr']] = Zeros]
        /\ back' = FALSE /\ client' = "after" /\ UNCHANGED <<at, ahead>>
        /\ ahead = "header"
    BY <1>0, <1>2, NameFacts DEF ReadMessage, AtHeader, AtEnd
  <2>2. PICK c \in Local : c = curr'  BY <2>1
  <2>3. Holds(Zeros)  BY DEF Holds
  <2>4. /\ disk' = [g \in Name |-> disk'[g]]
        /\ \A g \in Name : Holds(disk[g])'
    BY <1>0, <2>1, <2>2, <2>3, NameFacts, DiskWritten DEF serverVars
  <2>5. Places'  BY <1>0, <2>1, <2>4 DEF TypeInv, Places, serverVars
  <2>6. Shape'  BY <1>0, <2>1 DEF Shape, serverVars
  <2> QED  BY <2>4, <2>5, <2>6 DEF TypeInv
<1>3. CASE ahead # "header"
  <2>1. client' = "lost" /\ UNCHANGED <<at, ahead, back, curr, disk>>
    BY <1>3 DEF ReadMessage, AtHeader, AtEnd
  <2>2. TypeInv'  BY <1>0, <2>1 DEF TypeInv, Places, Holds, serverVars
  <2>3. Shape'  BY <1>0, <2>1 DEF Shape, serverVars
  <2> QED  BY <2>2, <2>3
<1> QED  BY <1>0, <1>1, <1>2, <1>3 DEF AtHeader, AtEnd

LEMMA AfterType ==
    ASSUME TypeInv, Shape, After
    PROVE  TypeInv' /\ Shape'
<1>1. /\ client = "after" /\ UNCHANGED <<serverVars, at, ahead, curr, disk>>
      /\ client' \in {"message", "file", "unlink"}
      /\ client' = "file" => ahead = "file" /\ UNCHANGED count
      /\ count' = count \/ count' = count + 1
      /\ back' \in BOOLEAN
  BY DEF After, Again, TypeInv, Places
<1>2. count < N /\ count \in 0 .. N /\ N \in Nat /\ child # "sending"
  BY <1>1 DEF TypeInv, Places, Shape
<1>3. TypeInv'  BY <1>1, <1>2 DEF TypeInv, Places, Holds, serverVars
<1>4. Shape'  BY <1>1, <1>2 DEF Shape, serverVars
<1> QED  BY <1>3, <1>4

LEMMA TakeFileType ==
    ASSUME TypeInv, Shape, TakeFile
    PROVE  TypeInv' /\ Shape'
<1>0. /\ message \in [Mid -> Message] /\ sending \in 1 .. N + 1 /\ at \in 1 .. sending
      /\ sent \in [Mid -> Nat] /\ child # "sending" /\ client = "file"
      /\ at > 1 /\ message[at - 1] \in WithFile \cup {Nameless}
      /\ count < N /\ count \in 0 .. N /\ N \in Nat
      /\ UNCHANGED <<serverVars, at, back, curr>>
  BY DEF TypeInv, Places, Shape, TakeFile
<1>1. at - 1 \in Mid  BY <1>0
<1>2. /\ client' \in {"message", "lost"}
      /\ count' \in {count, count + 1}
      /\ ahead' \in {"header", "bytes"} \/ (ahead' = ahead /\ client' = "lost")
  BY <1>0 DEF TakeFile, ReadNameless, ReadFile, GoOn, Again
<1>3. disk' = [g \in Name |-> disk'[g]] /\ \A g \in Name : Holds(disk[g])'
  <2>1. CASE message[at - 1] = Nameless
    <3>1. UNCHANGED disk  BY <2>1 DEF TakeFile, ReadNameless
    <3> QED  BY <1>0, <3>1 DEF TypeInv, Places, Holds, serverVars
  <2>2. CASE message[at - 1] # Nameless
    <3>0. HasFile(at - 1)  BY <1>0, <2>2 DEF HasFile
    <3>1. message[at - 1].fname \in Name /\ message[at - 1].len \in Nat
      BY <1>0, <1>1, <3>0, FileFacts, NameFacts
    <3>2. PICK x : Holds(x) /\ disk' = [disk EXCEPT ![message[at - 1].fname] = x]
      <4>1. ReadFile(at - 1)  BY <2>2 DEF TakeFile
      <4>2. sent[at - 1] \in Nat  BY <1>0, <1>1
      <4>3. CASE sent[at - 1] >= message[at - 1].len
        <5>1. disk' = [disk EXCEPT ![message[at - 1].fname] = Part(at - 1, message[at - 1].len)]
          BY <3>1, <4>1, <4>2, <4>3 DEF ReadFile
        <5>2. Holds(Part(at - 1, message[at - 1].len))  BY <1>1, <3>1, <4>2, <4>3 DEF Holds
        <5> QED  BY <5>1, <5>2
      <4>4. CASE sent[at - 1] < message[at - 1].len /\ CutHere
        <5>1. disk' = [disk EXCEPT ![message[at - 1].fname] = Part(at - 1, sent[at - 1])]
          BY <3>1, <4>1, <4>2, <4>4 DEF ReadFile
        <5>2. Holds(Part(at - 1, sent[at - 1]))  BY <1>1, <4>2 DEF Holds
        <5> QED  BY <5>1, <5>2
      <4>5. CASE sent[at - 1] < message[at - 1].len /\ ~CutHere
        <5>1. disk' = [disk EXCEPT ![message[at - 1].fname] = Garbled]
          BY <3>1, <4>1, <4>2, <4>5 DEF ReadFile
        <5> QED  BY <5>1 DEF Holds
      <4> QED  BY <3>1, <4>2, <4>3, <4>4, <4>5
    <3> QED  BY <1>0, <3>1, <3>2, DiskWritten DEF serverVars
  <2> QED  BY <2>1, <2>2
<1>4. Places'  BY <1>0, <1>2, <1>3 DEF TypeInv, Places, serverVars
<1>5. Shape'  BY <1>0, <1>2 DEF Shape, serverVars
<1> QED  BY <1>3, <1>4, <1>5 DEF TypeInv

LEMMA FinishType ==
    ASSUME TypeInv, Shape, Finish
    PROVE  TypeInv' /\ Shape'
<1>1. /\ client \in {"unlink", "message"} /\ client' = "done"
      /\ disk' = [disk EXCEPT ![Temp] = Missing]
      /\ UNCHANGED <<serverVars, at, ahead, count, back, curr>>
  BY DEF Finish
<1>2. Holds(Missing)  BY DEF Holds
<1>3. disk' = [g \in Name |-> disk'[g]] /\ \A g \in Name : Holds(disk[g])'
  BY <1>1, <1>2, NameFacts, DiskWritten DEF serverVars
<1>4. Places'  BY <1>1, <1>3 DEF TypeInv, Places, serverVars
<1>5. Shape'  BY <1>1 DEF Shape, serverVars
<1> QED  BY <1>3, <1>4, <1>5 DEF TypeInv

LEMMA ServerSteps ==
    ASSUME SendHeader \/ SendBytes \/ SendEnd \/ Die
    PROVE  child = "sending" /\ UNCHANGED clientVars
BY DEF SendHeader, SendBytes, SendEnd, Die

-----------------------------------------------------------------------------
(* What a step of the client does to the local files.                         *)

LEMMA TextStep ==
    ASSUME TypeInv, NEW K \in Nat, K + 1 \in Mid, DiskOK(K, K),
           disk' = [disk EXCEPT ![TextName[K + 1]] = TextOf(K + 1)],
           UNCHANGED <<message, sent>>
    PROVE  DiskOK(K + 1, K)'
<1> SUFFICES ASSUME NEW f \in Name
             PROVE  /\ (\A m \in 1 .. K + 1 : ~Makes(K, m, f)') => disk'[f] = Missing
                    /\ \A m \in 1 .. K + 1 : LastMade(K + 1, K, m, f)' => disk'[f] = Made(K, m, f)'
  BY DEF DiskOK
<1>0. disk = [g \in Name |-> disk[g]]  BY DEF TypeInv, Places
<1>1. \A m : (Makes(K, m, f)' <=> Makes(K, m, f)) /\ Made(K, m, f)' = Made(K, m, f)
  BY DEF Makes, Made, HasFile, Part, TextOf
<1>2. \A m : LastMade(K + 1, K, m, f)' <=> LastMade(K + 1, K, m, f)
  BY <1>1 DEF LastMade
<1>3. CASE f = TextName[K + 1]
  <2>1. disk'[f] = TextOf(K + 1)  BY <1>0, <1>3
  <2>2. Makes(K, K + 1, f)  BY <1>3 DEF Makes
  <2>3. \A m \in 1 .. K + 1 : LastMade(K + 1, K, m, f) => m = K + 1  BY <2>2 DEF LastMade
  <2>4. Made(K, K + 1, f) = TextOf(K + 1)  BY DEF Made
  <2> QED  BY <1>1, <1>2, <2>1, <2>2, <2>3, <2>4
<1>4. CASE f # TextName[K + 1]
  <2>1. disk'[f] = disk[f]  BY <1>0, <1>4
  <2>2. ~Makes(K, K + 1, f)  BY <1>4 DEF Makes
  <2>3. \A m \in 1 .. K + 1 : m \in 1 .. K \/ m = K + 1  OBVIOUS
  <2>4. \A m \in 1 .. K : m \in 1 .. K + 1  OBVIOUS
  <2>5. \A m \in 1 .. K + 1 : LastMade(K + 1, K, m, f) => m \in 1 .. K /\ LastMade(K, K, m, f)
    BY <2>2, <2>3 DEF LastMade
  <2>6. (\A m \in 1 .. K : ~Makes(K, m, f)) => disk[f] = Missing  BY DEF DiskOK
  <2>7. \A m \in 1 .. K : LastMade(K, K, m, f) => disk[f] = Made(K, m, f)  BY DEF DiskOK
  <2> QED  BY <1>1, <1>2, <2>1, <2>4, <2>5, <2>6, <2>7
<1> QED  BY <1>3, <1>4

LEMMA NoFileStep ==
    ASSUME NEW K \in Nat, ~HasFile(K + 1), DiskOK(K + 1, K)
    PROVE  DiskOK(K + 1, K + 1)
<1>1. \A m \in 1 .. K + 1 : \A f : /\ Makes(K + 1, m, f) <=> Makes(K, m, f)
                                   /\ Made(K + 1, m, f) = Made(K, m, f)
  <2> SUFFICES ASSUME NEW m \in 1 .. K + 1, NEW f
               PROVE  (m <= K + 1 /\ HasFile(m)) <=> (m <= K /\ HasFile(m))
    BY DEF Makes, Made
  <2>1. m = K + 1 \/ m <= K  OBVIOUS
  <2> QED  BY <2>1
<1>2. \A m \in 1 .. K + 1 : \A f : LastMade(K + 1, K + 1, m, f) <=> LastMade(K + 1, K, m, f)
  <2> SUFFICES ASSUME NEW m \in 1 .. K + 1, NEW f
               PROVE  LastMade(K + 1, K + 1, m, f) <=> LastMade(K + 1, K, m, f)
    OBVIOUS
  <2>1. \A k \in m + 1 .. K + 1 : k \in 1 .. K + 1  OBVIOUS
  <2> QED  BY <1>1, <2>1 DEF LastMade
<1> QED  BY <1>1, <1>2 DEF DiskOK

LEMMA FileStep ==
    ASSUME TypeInv, NEW K \in Nat, K + 1 \in Mid, HasFile(K + 1), DiskOK(K + 1, K),
           disk' = [disk EXCEPT ![message[K + 1].fname] = Part(K + 1, sent[K + 1])],
           UNCHANGED <<message, sent>>
    PROVE  DiskOK(K + 1, K + 1)'
<1> SUFFICES ASSUME NEW f \in Name
             PROVE  /\ (\A m \in 1 .. K + 1 : ~Makes(K + 1, m, f)') => disk'[f] = Missing
                    /\ \A m \in 1 .. K + 1 :
                          LastMade(K + 1, K + 1, m, f)' => disk'[f] = Made(K + 1, m, f)'
  BY DEF DiskOK
<1>0. disk = [g \in Name |-> disk[g]]  BY DEF TypeInv, Places
<1>1. \A m : (Makes(K + 1, m, f)' <=> Makes(K + 1, m, f)) /\ Made(K + 1, m, f)' = Made(K + 1, m, f)
  BY DEF Makes, Made, HasFile, Part, TextOf
<1>2. \A m : LastMade(K + 1, K + 1, m, f)' <=> LastMade(K + 1, K + 1, m, f)
  BY <1>1 DEF LastMade
<1>3. CASE f = message[K + 1].fname
  <2>1. disk'[f] = Part(K + 1, sent[K + 1])  BY <1>0, <1>3
  <2>2. Makes(K + 1, K + 1, f)  BY <1>3 DEF Makes
  <2>3. \A m \in 1 .. K + 1 : LastMade(K + 1, K + 1, m, f) => m = K + 1
    BY <2>2 DEF LastMade
  <2>4. Made(K + 1, K + 1, f) = Part(K + 1, sent[K + 1])  BY <1>3 DEF Made
  <2> QED  BY <1>1, <1>2, <2>1, <2>2, <2>3, <2>4
<1>4. CASE f # message[K + 1].fname
  <2>1. disk'[f] = disk[f]  BY <1>0, <1>4
  <2>2. \A m \in 1 .. K + 1 : /\ Makes(K + 1, m, f) <=> Makes(K, m, f)
                              /\ Made(K + 1, m, f) = Made(K, m, f)
    <3> SUFFICES ASSUME NEW m \in 1 .. K + 1
                 PROVE  (m <= K + 1 /\ HasFile(m) /\ message[m].fname = f)
                           <=> (m <= K /\ HasFile(m) /\ message[m].fname = f)
      BY DEF Makes, Made
    <3>1. m = K + 1 \/ m <= K  OBVIOUS
    <3> QED  BY <1>4, <3>1
  <2>3. \A m \in 1 .. K + 1 : LastMade(K + 1, K + 1, m, f) => LastMade(K + 1, K, m, f)
    <3> SUFFICES ASSUME NEW m \in 1 .. K + 1, LastMade(K + 1, K + 1, m, f)
                 PROVE  LastMade(K + 1, K, m, f)
      OBVIOUS
    <3>1. \A k \in m + 1 .. K + 1 : k \in 1 .. K + 1  OBVIOUS
    <3> QED  BY <2>2, <3>1 DEF LastMade
  <2>4. (\A m \in 1 .. K + 1 : ~Makes(K, m, f)) => disk[f] = Missing  BY DEF DiskOK
  <2>5. \A m \in 1 .. K + 1 : LastMade(K + 1, K, m, f) => disk[f] = Made(K, m, f)
    BY DEF DiskOK
  <2> QED  BY <1>1, <1>2, <2>1, <2>2, <2>3, <2>4, <2>5
<1> QED  BY <1>3, <1>4

LEMMA AtTheEnd ==
    ASSUME DiskOK(sending - 1, sending - 1)
    PROVE  DiskOver
BY DEF DiskOK, DiskOver

LEMMA ZerosStep ==
    ASSUME TypeInv, DiskOver, NEW c \in Local, sending > 1 => c \in {sending - 1, Junk},
           disk' = [disk EXCEPT ![TextName[c]] = Zeros], UNCHANGED serverVars
    PROVE  DiskOver'
<1>0. disk = [g \in Name |-> disk[g]] /\ sending \in Nat  BY DEF TypeInv, Places
<1>1. \A m, f : Made(sending - 1, m, f)' = Made(sending - 1, m, f)
  BY DEF Made, HasFile, Part, TextOf, serverVars
<1>2. \A m, f : LastMade(sending - 1, sending - 1, m, f)'
                   <=> LastMade(sending - 1, sending - 1, m, f)
  BY DEF LastMade, Makes, HasFile, serverVars
<1>3. sending' = sending  BY DEF serverVars
<1> SUFFICES ASSUME NEW f \in Name, NEW m \in 1 .. sending - 1,
                    LastMade(sending - 1, sending - 1, m, f)
             PROVE  \/ disk'[f] = Made(sending - 1, m, f)
                    \/ f \in {TextName[sending - 1], TextName[Junk]} /\ disk'[f] = Zeros
  BY <1>1, <1>2, <1>3 DEF DiskOver
<1>4. CASE f = TextName[c]
  <2>1. disk'[f] = Zeros  BY <1>0, <1>4
  <2>2. sending > 1  BY <1>0
  <2> QED  BY <1>4, <2>1, <2>2
<1>5. CASE f # TextName[c]
  <2>1. disk'[f] = disk[f]  BY <1>0, <1>5
  <2> QED  BY <2>1 DEF DiskOver
<1> QED  BY <1>4, <1>5

(* No message that the client is in step with makes a file by the name of     *)
(* temp.bin.                                                                  *)
LEMMA NotTemp ==
    ASSUME TypeInv, InStep, NEW m \in 1 .. sending - 1, NEW F
    PROVE  ~Makes(F, m, Temp)
<1>1. m \in Mid /\ m \in Sent /\ m \in Local  BY DEF TypeInv, Places, Sent, Local
<1>2. HasFile(m) => message[m].fname # Temp  BY <1>1 DEF InStep
<1>3. TextName[m] # Temp  BY <1>1
<1> QED  BY <1>2, <1>3 DEF Makes

LEMMA UnlinkStep ==
    ASSUME TypeInv, InStep, disk' = [disk EXCEPT ![Temp] = Missing], UNCHANGED serverVars
    PROVE  /\ DiskOK(sending - 1, sending - 1) => DiskOK(sending - 1, sending - 1)'
           /\ DiskOver => DiskOver'
<1>0. disk = [g \in Name |-> disk[g]] /\ sending \in Nat /\ sending' = sending
  BY DEF TypeInv, Places, serverVars
<1>1. \A m, f : Made(sending - 1, m, f)' = Made(sending - 1, m, f)
  BY DEF Made, HasFile, Part, TextOf, serverVars
<1>2. \A m, f : /\ LastMade(sending - 1, sending - 1, m, f)'
                      <=> LastMade(sending - 1, sending - 1, m, f)
                /\ Makes(sending - 1, m, f)' <=> Makes(sending - 1, m, f)
  BY DEF LastMade, Makes, HasFile, serverVars
<1>3. \A m \in 1 .. sending - 1 : ~LastMade(sending - 1, sending - 1, m, Temp)
  BY NotTemp DEF LastMade
<1>4. disk'[Temp] = Missing /\ \A f \in Name : f # Temp => disk'[f] = disk[f]
  BY <1>0, NameFacts
<1>5. ASSUME DiskOK(sending - 1, sending - 1)  PROVE DiskOK(sending - 1, sending - 1)'
  <2> SUFFICES ASSUME NEW f \in Name
               PROVE  /\ (\A m \in 1 .. sending - 1 : ~Makes(sending - 1, m, f))
                            => disk'[f] = Missing
                      /\ \A m \in 1 .. sending - 1 :
                            LastMade(sending - 1, sending - 1, m, f)
                               => disk'[f] = Made(sending - 1, m, f)
    BY <1>0, <1>1, <1>2 DEF DiskOK
  <2>1. CASE f = Temp  BY <1>3, <1>4, <2>1
  <2>2. CASE f # Temp  BY <1>4, <1>5, <2>2 DEF DiskOK
  <2> QED  BY <2>1, <2>2
<1>6. ASSUME DiskOver  PROVE DiskOver'
  <2> SUFFICES ASSUME NEW f \in Name, NEW m \in 1 .. sending - 1,
                      LastMade(sending - 1, sending - 1, m, f)
               PROVE  \/ disk'[f] = Made(sending - 1, m, f)
                      \/ f \in {TextName[sending - 1], TextName[Junk]} /\ disk'[f] = Zeros
    BY <1>0, <1>1, <1>2 DEF DiskOver
  <2>1. f # Temp  BY <1>3
  <2> QED  BY <1>4, <1>6, <2>1 DEF DiskOver
<1> QED  BY <1>5, <1>6

-----------------------------------------------------------------------------
(* The client stays in step.                                                  *)

LEMMA CollectedParsed ==
    ASSUME TypeInv, Shape, Collected
    PROVE  Parsed'
<1>1. /\ at = 1 /\ count = 0 /\ back = FALSE /\ ahead = "header"
      /\ \A f \in Name : disk[f] = Missing
      /\ client' = "message" /\ UNCHANGED <<serverVars, at, ahead, count, back, curr, disk>>
  BY DEF Collected, Shape
<1>2. \A m \in 1 .. at' - 1 : FALSE  BY <1>1
<1>3. at' - 1 = 0 /\ \A f \in Name : disk'[f] = Missing  BY <1>1 DEF Missing
<1>4. DiskOK(at - 1, at - 1)'  BY <1>2, <1>3 DEF DiskOK, Missing
<1>5. AtMessage'  BY <1>1, <1>4 DEF AtMessage
<1> QED  BY <1>5 DEF Parsed

LEMMA ReadMessageParsed ==
    ASSUME TypeInv, Shape, InStep, Parsed, ReadMessage
    PROVE  Parsed'
<1>0. /\ sending \in 1 .. N + 1 /\ at \in 1 .. sending /\ at \in Nat /\ sending \in Nat
      /\ N \in Nat /\ count \in Nat
      /\ message \in [Mid -> Message]
      /\ client = "message" /\ count < N /\ UNCHANGED <<serverVars, count>>
      /\ child \in {"ended", "dead"}
      /\ child = "ended" => sending = N + 1
  BY DEF TypeInv, Places, Shape, ReadMessage
<1>1. AtMessage \/ Overrun  BY <1>0 DEF Parsed, BehindText, AtNewline, Done
<1>2. CASE AtMessage /\ AtHeader
  <2>1. at \in Mid /\ at \in Sent /\ at < sending  BY <1>0, <1>2 DEF AtHeader, Sent
  <2>2. message[at] \in WithFile \cup {NoFile}  BY <2>1 DEF InStep
  <2>3. message[at] # Unsigned /\ (HasFile(at) <=> message[at] # NoFile)
    BY <2>2, RecordAssumption DEF HasFile
  <2>4. /\ curr' = at /\ at' = at + 1 /\ back' = back /\ client' = "after"
        /\ ahead' = IF HasFile(at) THEN "file" ELSE "header"
        /\ disk' = [disk EXCEPT ![TextName[at]] = TextOf(at)]
    BY <1>0, <1>2, <2>3 DEF ReadMessage, AtHeader, AtEnd
  <2>5. PICK K \in Nat : K = at - 1 /\ K + 1 = at  BY <1>0
  <2>6. DiskOK(K, K)  BY <1>2, <2>5 DEF AtMessage
  <2>7. UNCHANGED <<message, sent>>  BY <1>0 DEF serverVars
  <2>8. DiskOK(K + 1, K)'  BY <2>1, <2>4, <2>5, <2>6, <2>7, TextStep
  <2>9. at' - 1 = K + 1 /\ at' - 2 = K /\ at' > 1 /\ at' - 1 = at  BY <1>0, <2>4, <2>5
  <2>10. count' = at' - 2 /\ back' = FALSE /\ curr' = at' - 1
    BY <1>0, <1>2, <2>4, <2>5, <2>9 DEF AtMessage
  <2>11. DiskOK(at - 1, at - 2)'  BY <2>8, <2>9
  <2>12. HasFile(at - 1)' <=> HasFile(at)  BY <2>7, <2>9 DEF HasFile
  <2>13. BehindText'  BY <2>4, <2>9, <2>10, <2>11, <2>12 DEF BehindText
  <2> QED  BY <2>13 DEF Parsed
<1>3. CASE AtMessage /\ AtEnd
  <2>1. at = sending /\ count = at - 1 /\ back = FALSE /\ ahead = "header"
    BY <1>3 DEF AtMessage, AtEnd
  <2>2. child = "dead"
    <3>1. sending # N + 1  BY <1>0, <2>1
    <3> QED  BY <1>0, <3>1
  <2>3. /\ curr' = curr /\ UNCHANGED <<at, ahead>> /\ client' = "after"
        /\ disk' = [disk EXCEPT ![TextName[curr']] = Zeros]
    BY <1>0, <1>3, <2>1 DEF ReadMessage, AtHeader, AtEnd
  <2>4. curr \in Local /\ (sending > 1 => curr \in {sending - 1, Junk})
    BY <1>3, <2>1 DEF AtMessage, TypeInv, Places
  <2>5. DiskOver  BY <1>3, <2>1, AtTheEnd DEF AtMessage
  <2>6. DiskOver'  BY <1>0, <2>3, <2>4, <2>5, ZerosStep
  <2>7. Overrun'  BY <1>0, <2>1, <2>2, <2>3, <2>4, <2>6 DEF Overrun, serverVars
  <2> QED  BY <2>7 DEF Parsed
<1>4. CASE Overrun
  <2>1. at = sending /\ ahead = "header" /\ child = "dead"  BY <1>4 DEF Overrun
  <2>2. /\ curr' \in {curr, Junk} /\ UNCHANGED <<at, ahead>> /\ client' = "after"
        /\ disk' = [disk EXCEPT ![TextName[curr']] = Zeros]
    BY <1>0, <2>1 DEF ReadMessage, AtHeader, AtEnd
  <2>3. PICK c \in Local : c = curr' /\ c \in {curr, Junk}
    BY <2>2, NameFacts DEF TypeInv, Places
  <2>4. sending > 1 => c \in {sending - 1, Junk}  BY <1>4, <2>3 DEF Overrun
  <2>5. DiskOver  BY <1>4 DEF Overrun
  <2>6. disk' = [disk EXCEPT ![TextName[c]] = Zeros]  BY <2>2, <2>3
  <2>7. DiskOver'  BY <1>0, <2>3, <2>4, <2>5, <2>6, ZerosStep
  <2>8. Overrun'  BY <1>0, <2>1, <2>2, <2>3, <2>4, <2>7 DEF Overrun, serverVars
  <2> QED  BY <2>8 DEF Parsed
<1>5. AtMessage => AtHeader \/ AtEnd
  <2>1. at < sending \/ at = sending  BY <1>0
  <2> QED  BY <2>1 DEF AtMessage, AtHeader, AtEnd
<1> QED  BY <1>1, <1>2, <1>3, <1>4, <1>5

LEMMA AfterParsed ==
    ASSUME TypeInv, Shape, InStep, Parsed, After
    PROVE  Parsed'
<1>0. /\ sending \in 1 .. N + 1 /\ at \in 1 .. sending /\ at \in Nat /\ sending \in Nat
      /\ client = "after" /\ UNCHANGED <<serverVars, at, ahead, curr, disk>>
      /\ child \in {"ended", "dead"}
  BY DEF TypeInv, Places, Shape, After
<1>1. BehindText \/ Overrun  BY <1>0 DEF Parsed, AtMessage, AtNewline, Done
<1>2. UNCHANGED <<message, sending, sent, child, at, disk>>  BY <1>0 DEF serverVars
<1>3. CASE BehindText /\ ahead = "file"
  <2>1. client' = "file" /\ UNCHANGED <<count, back>>
    BY <1>3 DEF After, AtHeader, AtEnd
  <2>2. DiskOK(at - 1, at - 2)'
    BY <1>2, <1>3 DEF BehindText, DiskOK, LastMade, Makes, Made, HasFile, Part, TextOf, Missing
  <2>3. HasFile(at - 1)' <=> HasFile(at - 1)  BY <1>2 DEF HasFile
  <2>4. BehindText'  BY <1>0, <1>3, <2>1, <2>2, <2>3 DEF BehindText
  <2> QED  BY <2>4 DEF Parsed
<1>4. CASE BehindText /\ ahead = "header"
  <2>1. /\ ~HasFile(at - 1) /\ at > 1 /\ count = at - 2 /\ back = FALSE /\ curr = at - 1
        /\ DiskOK(at - 1, at - 2)
    BY <1>4 DEF BehindText
  <2>2. PICK K \in Nat : K = at - 2 /\ K + 1 = at - 1  BY <1>0, <2>1
  <2>3. DiskOK(at - 1, at - 1)
    <3>1. ~HasFile(K + 1) /\ DiskOK(K + 1, K)  BY <2>1, <2>2
    <3>2. DiskOK(K + 1, K + 1)  BY <2>2, <3>1, NoFileStep
    <3> QED  BY <2>2, <3>2
  <2>4. DiskOK(at - 1, at - 1)'
    BY <1>2, <2>3 DEF DiskOK, LastMade, Makes, Made, HasFile, Part, TextOf, Missing
  <2>5. CASE AtHeader
    <3>1. client' = "message" /\ count' = count + 1 /\ UNCHANGED back
      BY <1>0, <1>4, <2>5 DEF After, Again, AtHeader, AtEnd
    <3>2. count' = at' - 1  BY <1>0, <2>1, <3>1
    <3>3. AtMessage'  BY <1>0, <1>4, <2>1, <2>4, <3>1, <3>2 DEF AtMessage
    <3> QED  BY <3>3 DEF Parsed
  <2>6. CASE AtEnd /\ child = "ended"
    <3>1. client' = "unlink" /\ at = sending  BY <1>0, <1>4, <2>6 DEF After, AtHeader, AtEnd
    <3>2. DiskOK(sending - 1, sending - 1)'  BY <1>2, <2>4, <3>1
    <3>3. AtNewline'  BY <1>2, <2>6, <3>1, <3>2 DEF AtNewline
    <3> QED  BY <3>3 DEF Parsed
  <2>7. CASE AtEnd /\ child = "dead"
    <3>1. client' = "message" /\ at = sending
      BY <1>0, <1>4, <2>7 DEF After, Again, AtHeader, AtEnd
    <3>2. DiskOver'
      <4>1. DiskOK(sending - 1, sending - 1)'  BY <1>2, <2>4, <3>1
      <4> QED  BY <4>1 DEF DiskOK, DiskOver
    <3>3. Overrun'  BY <1>0, <1>2, <1>4, <2>1, <2>7, <3>1, <3>2 DEF Overrun
    <3> QED  BY <3>3 DEF Parsed
  <2> QED  BY <1>0, <1>4, <2>5, <2>6, <2>7 DEF AtHeader, AtEnd
<1>5. CASE Overrun
  <2>1. at = sending /\ ahead = "header" /\ child = "dead"  BY <1>5 DEF Overrun
  <2>2. client' = "message"  BY <1>0, <2>1 DEF After, Again, AtHeader, AtEnd
  <2>3. DiskOver'
    BY <1>2, <1>5 DEF Overrun, DiskOver, LastMade, Makes, Made, HasFile, Part, TextOf, Zeros
  <2>4. Overrun'  BY <1>0, <1>2, <1>5, <2>1, <2>2, <2>3 DEF Overrun
  <2> QED  BY <2>4 DEF Parsed
<1> QED  BY <1>1, <1>3, <1>4, <1>5 DEF BehindText

LEMMA TakeFileParsed ==
    ASSUME TypeInv, Shape, InStep, Parsed, TakeFile
    PROVE  Parsed'
<1>0. /\ sending \in 1 .. N + 1 /\ at \in 1 .. sending /\ at \in Nat /\ sending \in Nat
      /\ message \in [Mid -> Message] /\ sent \in [Mid -> Nat] /\ \A m \in Mid : sent[m] <= total[m]
      /\ client = "file" /\ UNCHANGED <<serverVars, at, back, curr>>
      /\ child \in {"ended", "dead"} /\ ahead = "file"
      /\ child = "ended" => \A m \in Mid : sent[m] = total[m]
      /\ \A m \in Mid : m + 1 < sending => sent[m] = total[m]
  BY DEF TypeInv, Places, Shape, TakeFile
<1>1. /\ at > 1 /\ count = at - 2 /\ back = FALSE /\ curr = at - 1
      /\ DiskOK(at - 1, at - 2) /\ HasFile(at - 1)
  BY <1>0 DEF Parsed, AtMessage, BehindText, AtNewline, Overrun, Done
<1>2. PICK K \in Nat : K = at - 2 /\ K + 1 = at - 1 /\ K + 2 = at  BY <1>0, <1>1
<1>3. K + 1 \in Mid /\ K + 1 \in Sent  BY <1>0, <1>2 DEF Sent
<1>4. HasFile(K + 1) /\ DiskOK(K + 1, K)  BY <1>1, <1>2
<1>5. message[K + 1].fname # Temp /\ total[K + 1] = message[K + 1].len
  BY <1>3, <1>4 DEF InStep
<1>6. message[K + 1].len \in Nat /\ sent[K + 1] \in Nat /\ sent[K + 1] <= message[K + 1].len
  BY <1>0, <1>3, <1>4, <1>5, FileFacts
<1>7. message[K + 1] # Nameless  BY <1>4, RecordAssumption DEF HasFile
<1>8. ReadFile(K + 1)  BY <1>2, <1>7 DEF TakeFile
<1>9. sent[K + 1] < message[K + 1].len => CutHere
  <2> SUFFICES ASSUME sent[K + 1] < message[K + 1].len, ~CutHere  PROVE FALSE
    OBVIOUS
  <2>1. sent[K + 1] # total[K + 1]  BY <1>5, <1>6
  <2>2. child = "dead"  BY <1>0, <1>3, <2>1
  <2>3. at # sending  BY <2>2 DEF CutHere
  <2>4. K + 1 + 1 < sending  BY <1>0, <1>2, <2>3
  <2> QED  BY <1>0, <1>3, <2>1, <2>4
<1>10. /\ disk' = [disk EXCEPT ![message[K + 1].fname] = Part(K + 1, sent[K + 1])]
       /\ ahead' = "header" /\ client' = "message" /\ count' = count + 1
  <2>1. CASE sent[K + 1] = message[K + 1].len
    BY <1>5, <1>6, <1>8, <2>1 DEF ReadFile, GoOn, Again
  <2>2. CASE sent[K + 1] < message[K + 1].len
    BY <1>5, <1>6, <1>8, <1>9, <2>2 DEF ReadFile, GoOn, Again
  <2> QED  BY <1>6, <2>1, <2>2
<1>11. UNCHANGED <<message, sent>>  BY <1>0 DEF serverVars
<1>12. DiskOK(K + 1, K + 1)'  BY <1>3, <1>4, <1>10, <1>11, FileStep
<1>13. at' - 1 = K + 1 /\ count' = at' - 1 /\ curr' = at' - 1 /\ back' = FALSE
  BY <1>0, <1>1, <1>2, <1>10
<1>14. DiskOK(at - 1, at - 1)'  BY <1>12, <1>13
<1>15. AtMessage'  BY <1>10, <1>13, <1>14 DEF AtMessage
<1> QED  BY <1>15 DEF Parsed

LEMMA FinishParsed ==
    ASSUME TypeInv, Shape, InStep, Parsed, Finish
    PROVE  Parsed'
<1>0. /\ sending \in 1 .. N + 1 /\ at \in 1 .. sending /\ N \in Nat
      /\ client' = "done" /\ disk' = [disk EXCEPT ![Temp] = Missing]
      /\ UNCHANGED serverVars
      /\ client = "unlink" \/ (client = "message" /\ count = N)
      /\ child \in {"ended", "dead"}
  BY DEF TypeInv, Places, Shape, Finish
<1>1. DiskOK(sending - 1, sending - 1) \/ (child = "dead" /\ DiskOver)
  <2>1. CASE AtMessage
    <3>1. count = at - 1 /\ count = N /\ DiskOK(at - 1, at - 1)  BY <1>0, <2>1 DEF AtMessage
    <3>2. at = sending  BY <1>0, <3>1
    <3> QED  BY <3>1, <3>2
  <2>2. CASE AtNewline  BY <2>2 DEF AtNewline
  <2>3. CASE Overrun  BY <2>3 DEF Overrun
  <2> QED  BY <1>0, <2>1, <2>2, <2>3 DEF Parsed, BehindText, Done
<1>2. DiskOK(sending - 1, sending - 1) => DiskOver  BY AtTheEnd
<1>3. /\ DiskOK(sending - 1, sending - 1) => DiskOK(sending - 1, sending - 1)'
      /\ DiskOver => DiskOver'
  BY <1>0, UnlinkStep
<1>4. child' = child  BY <1>0 DEF serverVars
<1>5. Done'  BY <1>0, <1>1, <1>2, <1>3, <1>4 DEF Done
<1> QED  BY <1>5 DEF Parsed

-----------------------------------------------------------------------------
(* The theorems.                                                              *)

(* RetrieveInv: the types, the shape of what was sent, and, while every       *)
(* message sent tells the client where it ends, a client that reads each of   *)
(* them where it begins and has made the local files of those behind it.      *)
THEOREM RetrieveInvariant == Spec => []RetrieveInv
<1>1. Init => RetrieveInv
  <2> SUFFICES ASSUME Init  PROVE RetrieveInv
    OBVIOUS
  <2>1. client = "collect" /\ \A f \in Name : disk[f] = Missing  BY DEF Init
  <2>2. TypeInv  BY <2>1, PlacesInit DEF TypeInv, Holds
  <2>3. Shape  BY <2>1, <2>2 DEF Init, Shape, TypeInv, Places
  <2> QED  BY <2>1, <2>2, <2>3 DEF RetrieveInv
<1>2. RetrieveInv /\ [Next]_vars => RetrieveInv'
  <2> SUFFICES ASSUME RetrieveInv, [Next]_vars  PROVE RetrieveInv'
    OBVIOUS
  <2>0. TypeInv /\ Shape /\ (client \notin {"collect", "failed"} /\ InStep => Parsed)
    BY DEF RetrieveInv
  <2>1. CASE SendHeader \/ SendBytes \/ SendEnd \/ Die
    <3>1. TypeInv' /\ Shape'  BY <2>0, <2>1, ServerType
    <3>2. child = "sending" /\ client' = client  BY <2>1, ServerSteps DEF clientVars
    <3>3. client' \in {"collect", "failed"}  BY <2>0, <3>2 DEF Shape
    <3> QED  BY <3>1, <3>3 DEF RetrieveInv
  <2>2. ASSUME UNCHANGED serverVars  PROVE InStep' <=> InStep
    BY <2>2 DEF serverVars, InStep, Sent, HasFile
  <2>3. CASE Collected
    <3>1. TypeInv' /\ Shape'  BY <2>0, <2>3, ClientStays
    <3>2. Parsed'  BY <2>0, <2>3, CollectedParsed
    <3> QED  BY <3>1, <3>2 DEF RetrieveInv
  <2>4. CASE TimeOut
    <3>1. TypeInv' /\ Shape'  BY <2>0, <2>4, ClientStays
    <3>2. client' = "failed"  BY <2>4 DEF TimeOut
    <3> QED  BY <3>1, <3>2 DEF RetrieveInv
  <2>5. CASE ReadMessage
    <3>1. TypeInv' /\ Shape'  BY <2>0, <2>5, ReadMessageType
    <3>2. client \notin {"collect", "failed"} /\ UNCHANGED serverVars
      BY <2>5 DEF ReadMessage
    <3>3. InStep' => Parsed'  BY <2>0, <2>2, <2>5, <3>2, ReadMessageParsed
    <3> QED  BY <3>1, <3>3 DEF RetrieveInv
  <2>6. CASE After
    <3>1. TypeInv' /\ Shape'  BY <2>0, <2>6, AfterType
    <3>2. client \notin {"collect", "failed"} /\ UNCHANGED serverVars  BY <2>6 DEF After
    <3>3. InStep' => Parsed'  BY <2>0, <2>2, <2>6, <3>2, AfterParsed
    <3> QED  BY <3>1, <3>3 DEF RetrieveInv
  <2>7. CASE TakeFile
    <3>1. TypeInv' /\ Shape'  BY <2>0, <2>7, TakeFileType
    <3>2. client \notin {"collect", "failed"} /\ UNCHANGED serverVars
      BY <2>7 DEF TakeFile
    <3>3. InStep' => Parsed'  BY <2>0, <2>2, <2>7, <3>2, TakeFileParsed
    <3> QED  BY <3>1, <3>3 DEF RetrieveInv
  <2>8. CASE Finish
    <3>1. TypeInv' /\ Shape'  BY <2>0, <2>8, FinishType
    <3>2. client \notin {"collect", "failed"} /\ UNCHANGED serverVars  BY <2>8 DEF Finish
    <3>3. InStep' => Parsed'  BY <2>0, <2>2, <2>8, <3>2, FinishParsed
    <3> QED  BY <3>1, <3>3 DEF RetrieveInv
  <2>9. CASE UNCHANGED vars
    <3>1. TypeInv' /\ Shape'
      BY <2>0, <2>9 DEF TypeInv, Places, Holds, Shape, HasFile, vars, serverVars, clientVars
    <3>2. UNCHANGED <<serverVars, clientVars>>  BY <2>9 DEF vars
    <3>3. AtMessage' = AtMessage
      BY <3>2 DEF serverVars, clientVars, AtMessage, DiskOK, LastMade, Makes, Made,
                  HasFile, Part, TextOf, Missing
    <3>4. BehindText' = BehindText
      BY <3>2 DEF serverVars, clientVars, BehindText, DiskOK, LastMade, Makes, Made,
                  HasFile, Part, TextOf, Missing
    <3>5. AtNewline' = AtNewline
      BY <3>2 DEF serverVars, clientVars, AtNewline, DiskOK, LastMade, Makes, Made,
                  HasFile, Part, TextOf, Missing
    <3>6. Overrun' = Overrun
      BY <3>2 DEF serverVars, clientVars, Overrun, DiskOver, LastMade, Makes, Made,
                  HasFile, Part, TextOf, Zeros
    <3>7. Done' = Done
      BY <3>2 DEF serverVars, clientVars, Done, DiskOK, DiskOver, LastMade, Makes, Made,
                  HasFile, Part, TextOf, Zeros, Missing
    <3>8. client' = client /\ (InStep' <=> InStep)  BY <2>2, <3>2 DEF clientVars
    <3> QED  BY <2>0, <3>1, <3>3, <3>4, <3>5, <3>6, <3>7, <3>8 DEF RetrieveInv, Parsed
  <2> QED  BY <2>1, <2>3, <2>4, <2>5, <2>6, <2>7, <2>8, <2>9 DEF Next
<1> QED  BY <1>1, <1>2, PTL DEF Spec

(* The client and the server keep the shape of TypeOK: no more is sent than   *)
(* the file holds, and no local file is longer than what was sent of it.      *)
THEOREM RetrieveTypeCorrect == Spec => []TypeOK
<1>1. RetrieveInv => TypeOK  BY DEF RetrieveInv, TypeInv, Places, Holds, TypeOK
<1> QED  BY <1>1, RetrieveInvariant, PTL

(* What the invariant says of a client that is through.                       *)
LEMMA DoneIsFaithful == RetrieveInv => LocalFilesFaithful
<1> SUFFICES ASSUME RetrieveInv, client \in {"done", "lost"}, InStep
             PROVE  /\ client = "done"
                    /\ \A f \in Name, m \in Sent : Leaves(m, f) =>
                          \/ disk[f] = Content(m, f, message[m].len)
                          \/ /\ child = "dead"
                             /\ \/ f \in {TextName[sending - 1], TextName[Junk]} /\ disk[f] = Zeros
                                \/ m = sending - 1 /\ disk[f] = Content(m, f, sent[m])
                    /\ child = "ended" =>
                          \A f \in Name : (\A m \in Sent : ~Writes(m, f)) => disk[f] = Missing
  BY DEF LocalFilesFaithful
<1>0. /\ sending \in 1 .. N + 1 /\ N \in Nat
      /\ child = "ended" => \A m \in Mid : sent[m] = total[m]
      /\ \A m \in Mid : m + 1 < sending => sent[m] = total[m]
  BY DEF RetrieveInv, TypeInv, Places, Shape
<1>1. Done  BY DEF RetrieveInv, Parsed, AtMessage, BehindText, AtNewline, Overrun, Done
<1>2. /\ client = "done" /\ child \in {"ended", "dead"}
      /\ child = "ended" => DiskOK(sending - 1, sending - 1)
      /\ child = "dead" => DiskOver
  BY <1>1 DEF Done
<1>3. Sent = 1 .. sending - 1  BY <1>0 DEF Sent
<1>4. \A m \in Sent : \A f : /\ Makes(sending - 1, m, f) <=> Writes(m, f)
                             /\ Made(sending - 1, m, f) = Content(m, f, sent[m])
  BY <1>0, <1>3 DEF Makes, Writes, Made, Content
<1>5. \A m \in Sent : \A f : Leaves(m, f) => LastMade(sending - 1, sending - 1, m, f)
  <2> SUFFICES ASSUME NEW m \in Sent, NEW f, Leaves(m, f)
               PROVE  LastMade(sending - 1, sending - 1, m, f)
    OBVIOUS
  <2>1. \A k \in m + 1 .. sending - 1 : k \in Sent /\ k > m  BY <1>0, <1>3
  <2> QED  BY <1>4, <2>1 DEF Leaves, LastMade
<1>6. \A m \in Sent : sent[m] = total[m] =>
         \A f : Content(m, f, sent[m]) = Content(m, f, message[m].len)
  BY DEF InStep, Content
<1>7. \A f \in Name, m \in Sent : Leaves(m, f) =>
         \/ disk[f] = Content(m, f, message[m].len)
         \/ /\ child = "dead"
            /\ \/ f \in {TextName[sending - 1], TextName[Junk]} /\ disk[f] = Zeros
               \/ m = sending - 1 /\ disk[f] = Content(m, f, sent[m])
  <2> SUFFICES ASSUME NEW f \in Name, NEW m \in Sent, Leaves(m, f)
               PROVE  \/ disk[f] = Content(m, f, message[m].len)
                      \/ /\ child = "dead"
                         /\ \/ f \in {TextName[sending - 1], TextName[Junk]} /\ disk[f] = Zeros
                            \/ m = sending - 1 /\ disk[f] = Content(m, f, sent[m])
    OBVIOUS
  <2>1. m \in Mid /\ (m = sending - 1 \/ m + 1 < sending)  BY <1>0, <1>3
  <2>2. CASE child = "ended"
    <3>1. disk[f] = Content(m, f, sent[m])  BY <1>2, <1>3, <1>4, <1>5, <2>2 DEF DiskOK
    <3>2. sent[m] = total[m]  BY <1>0, <2>1, <2>2
    <3> QED  BY <1>6, <3>1, <3>2
  <2>3. CASE child = "dead"
    <3>1. \/ disk[f] = Content(m, f, sent[m])
          \/ f \in {TextName[sending - 1], TextName[Junk]} /\ disk[f] = Zeros
      BY <1>2, <1>3, <1>4, <1>5, <2>3 DEF DiskOver
    <3>2. m = sending - 1 \/ sent[m] = total[m]  BY <1>0, <2>1
    <3> QED  BY <1>6, <2>3, <3>1, <3>2
  <2> QED  BY <1>2, <2>2, <2>3
<1>8. child = "ended" =>
         \A f \in Name : (\A m \in Sent : ~Writes(m, f)) => disk[f] = Missing
  BY <1>2, <1>3, <1>4 DEF DiskOK
<1> QED  BY <1>2, <1>7, <1>8

(* While the messages sent tell the client where they end, every local file   *)
(* holds what the last message that makes it brought; when the child has died *)
(* in between, the file of the last message may be short and its text zeros.  *)
THEOREM RetrievedIsFaithful == Spec => []LocalFilesFaithful
BY RetrieveInvariant, DoneIsFaithful, PTL
=============================================================================
