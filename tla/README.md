# A TLA+ model of the centralized messaging server and client

The repository holds a Directory Server (DS, `server/src/`) and a User
application (`client/src/`). Users register and log in over UDP, subscribe to
groups, and post and retrieve messages over TCP. This directory holds a model of
the program that TLC checks on small instances, and theorems about the model
that TLAPS proves for every value of the constants.

Paths below are relative to `src/`.

## The system

### Components, state, operations

| component | state | operations |
|---|---|---|
| users (`operations.c`, `udp_handling.h`) | `USERS/<uid>/password.txt`, `USERS/<uid>/login.txt` | REG, UNR, LOG, OUT |
| groups (same files) | `N_GROUPS` in memory; `GROUPS/<gid>/name.txt`, `GROUPS/<gid>/<uid>.txt`, `GROUPS/<gid>/MSG/num_msg.txt` | GSR (new group, existing group), GUR; GLS and GLM read |
| posting (`tcp_handling.h`, `post`) | `num_msg.txt`; `MSG/<mid>/` with `A U T H O R.txt`, `T E X T.txt`, `F I L E.txt` and the file | PST |
| retrieving (`tcp_handling.h`, `getNumMsg`, `retrieve`) | reads the files of a post | RTV |
| user listing (`ulist`, `ulsAppendUser`) | reads the group directory | ULS |
| server loop (`server/src/main.c`) | two sockets; one child per TCP connection with a copy of `N_GROUPS` | select, accept, fork; SIGINT deletes both trees |
| request framing (`tcp_handling.h`) | buffers of one request | fixed-size reads and `sscanf` |
| argument checks (`server/src/command_args_parsing.h`) | none | `parseUID`, `parseGID`, ... |
| client session (`client/src/commands.c`, `client/src/main.c`) | `UID`, `PASSWORD`, `LOGGED_IN`, `GID`, `GROUP_SELECTED` | one UDP datagram per command with a 15 s time-out, one TCP connection per ulist, post, retrieve |

### How they interact

* The main process handles a UDP command to the end before it looks at its
  sockets again. TCP connections are handled in forked children that nobody
  waits for and nothing synchronises. The processes share the file system and
  nothing else: a child has the `N_GROUPS` of its fork.
* A client holds at most one request at a time. UDP commands are sent once.
* `num_msg.txt` ties posts to retrieves: `post` rewrites it before the message
  exists, `getNumMsg` reads it to decide which messages `retrieve` opens.

### What is hard, and what makes each part correct

* Users and groups: two trees that different commands change and that check
  each other's files. Correct when nobody who is not registered is logged in or
  subscribed, when a reused uid or a new group inherits nothing, and when
  "gid <= N_GROUPS" is the same as "the group directory exists".
* Posting and retrieving: posts and retrieves of one group interleaved at every
  system call, a count that runs ahead of the files, uploads that end half way, a
  stale `N_GROUPS`, two admission checks with UDP commands in between. Correct
  when a group behaves like an append-only log; when what a client was told (a
  mid) stays true; when no message is left with some of its files; and when every
  child ends.
* Client: lost and late answers; a session at the client and a login file at the
  server that are meant to agree.
* Shutdown: SIGINT deletes the trees under running children; a server that was
  killed starts again with `N_GROUPS = 0` on old trees.

`PROJECT.json` lists each hazard at its line, with the properties that are about
it or the reason why none is.

## Modules

| module | models | extends |
|---|---|---|
| `DirectoryServer` | main process: REG, UNR, LOG, OUT, GSR, GUR on both trees | |
| `MessageServer` | children that post and retrieve, running next to the main process | `DirectoryServer` |
| `MessageLog` | abstract: an append-only log per group and readers of it | |
| `UserClient` | client sessions, their commands over a lossy UDP, and the main process | `DirectoryServer` |
| `GroupListing` | the answer to GLS and GLM, and how the client takes it apart | `DirectoryServer` |
| `UserListing` | ulist; a child that reads a group directory while the main process changes it | `DirectoryServer` |
| `Restart` | several runs of the server on one pair of trees | `DirectoryServer` |
| `Shutdown` | SIGINT: processes that remove the trees, entry by entry, next to posts | |
| `PostTransfer` | one PST connection: the bytes the client writes, the reads of the server | |
| `RetrieveTransfer` | one RTV connection: the stream the server sends, the local files the client makes of it | |
| `MCDirectory` | instance for TLC of `DirectoryServer`, next to a reader of a directory and the list of groups | `UserListing`, `GroupListing` |
| `MCMessages`, `MCClient`, `MCRestart`, `MCShutdown`, `MCPost`, `MCRetrieve` | instances of `MessageServer`, `UserClient`, `Restart`, `Shutdown`, `PostTransfer`, `RetrieveTransfer` | the module |
| `DirectoryServerProofs`, `MessageServerProofs`, `UserClientProofs`, `PostTransferProofs`, `RetrieveTransferProofs`, `ShutdownProofs` | theorems about the module of the name | that module |
| `MessageLogProofs` | theorems about `MessageServer` when posts do not overlap; it implements `MessageLog` | `MessageServerProofs` |
| `ListingAndRestartProofs` | theorems about `GroupListing`, `UserListing` and `Restart` | the three, `DirectoryServerProofs` |

How they fit together. `DirectoryServer` is the main process, and each of the modules
that extend it puts something next to it: children, clients, a reader of a
directory, the next run. `MessageServer` takes a PST or RTV request as a
whole; `PostTransfer` and `RetrieveTransfer` open up what happens on the
connection, with what `post` and `getNumMsg` decide as an input (`Verdict`, `Mid`).
`Restart` takes SIGINT as one step when no child is under way; `Shutdown` is that
step in detail, and shows what is different when children are.

### DirectoryServer

`userDir`, `password`, `login` are what is in `USERS/`; `groupDir`, `groupName`,
`member`, `numMsg`, `msgDir` what is in `GROUPS/`; `nGroups` is `N_GROUPS`. There
is one action per command. `RegStatus` ... `GurStatus` are the checks of a handler in the order of
the code, and the action is enabled by the status it answers with. A refused
command changes nothing.

Arguments are well-formed (a member of `Uid`, `Password`, ...) or `Malformed`;
what characters the regular expressions and `atoi` accept makes no difference to
any property. (A gid such as `1x` passes `parseGID` but names no directory, so
every operation refuses it, as it does a malformed one.) A command with missing
fields leaves `arg1`..`arg3` as the last command left them
(`udp_handling.h:42`): the handlers take every combination of arguments, so
whatever is found there is among the inputs.

### MessageServer

A slot in `Child` is a process. `pc[c]` is the system call it makes next:

| stage | code | action |
|---|---|---|
| `idle` | no process; `accept`, `fork` (`main.c:119-141`) | `Accept` |
| `login` | parse, compare gid with `N_GROUPS`, open `login.txt` (`operations.c:328`, `385`) | `CheckLogin` |
| `member` | open `<uid>.txt` (`335`, `392`) | `CheckMember` |
| `count` | read `num_msg.txt` (`344-347`; `398-420`) | `ReadCounter`, `CountToSend` |
| `bump` | write `num_msg.txt` (`349-350`) | `WriteCounter` |
| `mkdir` | `mkdir` of the message (`354`) | `MakeMessageDir` |
| `author`..`fname_w` | `createFile`: `fopen "w"`, then the write at `fclose` (`358`, `361`, `367`) | `CreateAuthor`, `CreateText`, `CreateName` |
| `data` | `fopen "wb"` of the file (`369`) | `OpenData` |
| `recv` | upload loop (`tcp_handling.h:202-208`) | `ReceiveBlock`, `UploadDone`, `UploadCut` |
| `ack` | `RPT <mid>` (`211-212`) | `Acknowledge` |
| `r_text`, `r_author`, `r_fname`, `r_open` | the four `fopen` of `retrieve` | `ReadText` ... `OpenToSend` |
| `r_send`, `r_done` | loop that sends the file (`268-278`), next message | `SendBlock`, `NextMessage`, `HangUp` |

A file has content `NoFile`, `Empty` (created, not written) or a value. An
`fopen` whose result is used unchecked ends the child when the file is missing,
as SIGSEGV does. A file that has a name but an empty `F I L E.txt` makes the path
that of the directory, which opens and has size `LONG_MAX`; `Huge` stands for it.
Attached files are counted in blocks, of which at most `FileLen` come.

`getNumMsg` reads the four digits of `num_msg.txt` into a `char n_msg[5]` that
nothing has set and calls `atoi` on it (`operations.c:401-414`). What is behind
the digits is undefined: `Atoi` is the count, or the count with one more digit,
and `CountToSend` takes either. With the digit a retrieve runs past the count, as
far as 20 messages, and its child dies of the first `T E X T.txt` that is not there
(`ReadText`; beyond `MaxMsg` the model ends the child at once).

Two abstractions shorten the model without losing an interleaving that matters.
A UDP command stays one action although it makes several system calls: of the
files it changes, a child looks only at `login.txt` and `<uid>.txt`, one at a
time, and at groups that existed before its fork. Opening a file and reading it
is one step in `retrieve`, because files of a message are never removed; `fopen
"w"` and the write are two, because the empty file in between can be seen.

`known`, `acked` and `auth` are history variables; no guard reads them.

### MessageLog

The promise: every group has a log, posts are appended one at a time, a reader
is given consecutive messages, and those that were in the log when it connected
come out exactly as they are in it. `MessageServer` implements it
(`ImplementsLog`) with the messages that are counted and not being written as
the log, provided posts to one group do not overlap (`SerialSpec`).

### UserClient

`session[c]` is `UID` and `PASSWORD` of client `c`, or `LoggedOut` when
`LOGGED_IN` is false; `asked[c]` is the command it waits on. `requests` and
`answers` are the datagrams under way. A command is two steps of the client,
with anything of the server and the network in between:

| code | action |
|---|---|
| `readCommand`, the checks of `LOGGED_IN`, `sendCommandUDP` up to `sendto` | `Send` (guard `MaySend`) |
| `recvfrom` returns an answer; the rest of the command | `Receive` (`Conclude`) |
| `recvfrom` or `sendto` fails; the rest of the command | `TimeOut` (`Conclude`) |
| `exit`, end of input, SIGINT; the application is started again | `Quit`, `Interrupt` |
| `handleCommandUDP`: one of the actions of `DirectoryServer`, and `sendto` | `Deliver`, `Duplicate` |
| a datagram is lost | `Lose` |

After a failed `recvfrom` the buffer is empty and `status` in `registerUser`,
`login`, ... is never assigned; after a failed `sendto` the buffer holds the
previous answer. What is compared with `"NOK"` may then be anything, so `TimeOut`
chooses a word freely. The server does not know who sent a datagram
and answers the port it came from: an answer carries the socket of its request.
The field `cmd` of an answer says which command it answers; no action reads it.

A client closes its socket after each command and opens a new one for the next.
Ports are reused in time. The model takes a number that no datagram under way
still carries (`FreshSocket`), which assumes that the kernel does not hand out a
port again within the life of a datagram.

`MayUse[c]` are the uids a person registers and logs in with at client `c`.
`groups`, `my_groups` and the local commands change no variable. A message is
not a string: what `%3s` cuts off a status word makes no difference to the
comparison with `"NOK"`.

A GSR whose name has 24 characters (`LongName`) fills `command_buffer[38]` to the last byte, so
that `sscanf` reads on beyond it. `Misread` lets the server take the command as
it is or answer `ERR` and change nothing, by what is found on the stack.
`SaysSubscribed` is the chain of comparisons in `subscribe`, which ends
in "subscribed" for every word it does not know.

### GroupListing

`listGroups` writes `" %02d %s %s"` for each group and the client steps through
the answer by field widths. Neither side changes a variable, so the module adds
operators to `DirectoryServer` and no state: `Entry` is the width the server
writes, `GidAt` where the gid of a group begins, `Base` where `groups` and
`myGroups` look for it, and `Displayed` the groups for which the two are the
same. `Refused` is `RGM E_USR`, of which the client takes `atoi("E_")`, that is
no, rounds. Numbers are written in base `Radix`, 10 in the code: a smaller one
lets a small instance have counts of one digit and of two.

### UserListing

`snapshot` is the `N_GROUPS` of the child, `buffer` and `sent` are what
`ulsAppendUser` collects and `write` sends.

| code | action |
|---|---|
| `ulist` of the client, `accept`, `fork` | `ulist` |
| `ulist` of the server: gid against `N_GROUPS`, `opendir` (`operations.c:268-277`) | `Open` |
| `readdir` has to ask the kernel | `Fetch` |
| `ulsAppendUser` of one entry, `write` and `bzero` of a full buffer (`tcp_handling.h:72-81`) | `AppendUser` |
| `readdir` returns NULL, the last `write` | `LastWrite` |
| the main process handles a command meanwhile | `MainStep` |

`readdir` is external: it fetches some of the entries that follow, in the order
of the directory. `ever` and `always` are history: who was a member at some time,
and all the time, since `opendir`.

### Shutdown

`onDisk` are the paths that exist. `at[p]` is what process `p` does: its own work,
`deleteState` in `GROUPS` or in `USERS`, or nothing any more. `scan[p]` is the stack
of calls of `removeDirRecursive`, each with the entries its `readdir` has still to return.

| code | action |
|---|---|
| `signalHandler` (`main.c:59`) | `Handle` |
| `opendir` of a tree, or its failure | `EnterRoot` |
| an entry: `unlink`, or the recursive call, or `stat` fails | `Visit` |
| `readdir` returns what came after `opendir` | `ReadMore` |
| `rmdir`, or its failure; return | `RemoveDir` |
| `post` creates the next file, ends | `Create`, `Finish` |

The signal reaches the main process (that is fair), and any of its children or
none: Ctrl-C goes to all of them, `kill` to one. `Init` chooses which children
are about to create the files of a message (`PostUnderWay`) and which have done so.

A failure returns -1 through all levels (`Fail`) and leaves what they were to
remove; `deleteState` goes on with `USERS`, then the process exits. The order of a listing
is a constant (`Rank`), the same for all processes.

### Restart

Adds `installed` (USERS/ and GROUPS/ exist) to the state of `DirectoryServer`.
`Interrupted` is SIGINT, which removes both; `Killed` leaves them as they are. After
either, `nGroups` is 0. `Install` is the person who creates the two directories:
no code does. While they are missing every command changes nothing: `registerUser` answers
`DUP`, the others what they answer for a missing file.

### PostTransfer

A byte is its place in the request, so that "the file is stored as posted" is
an interval of places. `sent`, `arrived` and `pos` count what the client has
written, what has come, and what the server has read. `Arrive` brings any part of
what was written: the stream may be cut at every byte, and the server never asks
for the rest of a field. `server` is the `read` the child is in:

| `server` | code (`tcp_handling.h`) | action | when the stream was cut |
|---|---|---|---|
| `op` | "PST " (20-28) | `ReadOp` | less than "PST" is answered `ERR` |
| `ids` | uid and gid (89-95) | `ReadIds` | a part of one is refused; a gid that did not come is not assigned |
| `size` | tsize and what of the text is in the same four bytes (97-138) | `ReadSize` | a part of the number is a smaller number (`Leading`); none is any (`StraySize`) |
| `text` | what is missing of the text (139-142) | `ReadText` | the text is short |
| `separator` | one byte: newline, blank or else (143-163) | `ReadSeparator` | a byte of the text, which may be a blank |
| `tail` | 36 bytes for name and size, the rest goes to the file (163-199) | `ReadTail` | a part of the number is a smaller number; none, or a text that was cut, is any (`StrayFile`) |
| `copy` | upload loop (201-213) | `CopyData`, `CopyEnds` | nothing: the loop reads until it has all |

`torn` is a history variable: some `read` before `copy` has brought a part of its
field. From then on what is stored is `Garbled`, and `verdict`, what the checks of the
server say of the fields, may differ from what they would say of the fields as sent.
The model goes on all the same, since what a torn request costs is whether it is
answered, refused, or keeps the child waiting.

| client (`commands.c`) | action |
|---|---|
| one `write` of the header (532-583) | `WriteHeader` |
| the file in blocks and the newline (585-626) | `WriteData` |
| `read` of the answer (628-647) | `ReadReply`, `TimeOut` |

`link` is what the client's kernel knows of the connection: a server that closes
with unread bytes resets it (`reset`), bytes that reach a closed socket bring a
reset (`broken`), after which a `write` raises SIGPIPE (`WriteKilled`). `Die` is a child
that ends before it answers, `NoSuchFile` a post whose file does not exist,
`Interrupt` a client that is ended: each may happen in every behaviour.

### RetrieveTransfer

What the server sends is given by counts: `sending` is the message whose header
comes next, `sent` the bytes behind each header.

| code | action |
|---|---|
| `retrieve` and the `write` of the header (`tcp_handling.h:257-262`) | `SendHeader` |
| the loop that sends the file (264-279) | `SendBytes` |
| the newline (282-291) | `SendEnd` |
| SIGINT, SIGPIPE, or the `fopen` of a text that does not exist yet | `Die` |
| the client copies the answer to `temp.bin` (`commands.c:713-726`) | `Collected`, `TimeOut` |
| `fscanf` of mid, uid, tsize; the text (735-751) | `ReadMessage` |
| the two bytes behind the text (753-764) | `After` |
| `fscanf` of name and size; the file (768-789) | `TakeFile` |
| `unlink` (791-794) | `Finish` |

The child may die anywhere, within a file too; only a header, at most a few hundred
bytes in one `write`, is taken to go out whole or not at all. `total` is what a file has
when it is sent: longer or shorter than announced by a member of `Drift`, as a post
may add to it or start it again. `Nameless` is a message whose `F I L E.txt` is empty
(the header has size `LONG_MAX` and no name, and no bytes follow), `Unsigned` one whose
`A U T H O R.txt` is.

The client is at the header of message `at`, or has the rest of a file `ahead` of it. It
makes all its files in one directory, so `FName` may hold the name of the local
file of a message (`TextName`) or that of `temp.bin` (`Temp`). At the end of the stream
`fscanf` assigns nothing and the loop goes on: `ReadMessage` then writes the file of
the last mid again, or, after the `fseek` of the round before (`back`), that of a mid made of
the last byte (`Junk`); when no message came, `curr` is not assigned. When the client takes bytes of one thing for another it is
`lost`, and the model does not follow it further. `InStep` says when that cannot
happen: the files had the size that was announced, and no message was `Nameless` or
`Unsigned` or had a file named `temp.bin`.

## Runs

| run | instance | shows |
|---|---|---|
| `directory` | 2 users, 2 passwords, 2 names, 2 group slots, one reader of a directory with a buffer of one uid, numbers in base 2 | the invariants of the main process under every order of commands; the list of users names every lasting member once and nobody else; the client lands on every entry of the list of groups |
| `messages_overlap` | 2 children, 2 mids, files without blocks, any overlap | what survives when posts overlap: counted messages exist or are being written, no message is left with some of its files, admission is right |
| `messages_serial` | 2 children, 2 mids, files of one block | without overlapping posts: the append-only log, the acknowledged mid, the listed count, a count that never goes down |
| `messages_live` | 2 children, 1 mid, files of one block, fairness | every child ends; every counted message gets all of its files, written, and keeps them |
| `client_own` | 2 clients with a uid each, 2 passwords, names short and of 24 characters, a network that delivers | the session of a client and the login of the server agree; logout is never refused; who is told so is subscribed |
| `client_lossy` | 1 client, 2 sockets, a network that loses, duplicates and delays, time-out | an answer is taken only for the command it answers; every command ends |
| `shutdown` | main process and 2 children, one of which may be about to post; one group, one message, one user; fairness | processes that remove the same trees leave nothing when no post is under way; USERS/ is always gone; the main process ends |
| `restart` | 2 users, 2 group slots, any number of runs | a reused uid and a new directory inherit nothing from earlier runs |
| `post` | texts of 1, 2 and 10 bytes, files of 0 and 3, reads scaled down, every verdict but one, fairness | acknowledged posts are stored to their last byte, good posts are accepted and confirmed, neither side waits for ever, while each `read` brings its whole field; a cut field is all that refuses a good post |
| `retrieve` | 3 messages, 3 names, one that of the second message's local file and one `temp.bin`; files of 0 and 2 bytes that may have one more or less | the local files are the messages, and when the child dies only those of the last one may differ |
| `lost_update` | as `messages_overlap` | finding: a post that increments nothing |
| `login_timeout` | 2 clients with a uid each, lossy | finding: a session without an answer |

Bounds. Two users are enough for one to leave traces the other must not see, and
two group slots for the limit to be reached with a group before it. Two children
give every pair of interleaved requests; that a third may read what two posts
write at once is part of the theorem `CountedExist`, which has any number. Two mids give a
retrieve that sends more than one message and a count that can go down. One
block is the shortest file that can be half there. `MaxMsg` caps the mids: a post
is accepted only for a group with room (`RoomToPost`), and of two that overlap
the second is not continued at `ReadCounter` when the first took the last mid.
The cap is below 9999, the last mid `"%04d"` writes in four characters.

A group directory with two uids and `MSG` lets one entry be fetched, one be in the
buffer and one be still to come; a buffer of one uid is flushed in the middle. In
base 2 two groups have a count of two digits, as ten have in base 10.

Two sockets let an answer to an earlier command be under way while the client waits
on the next. With a network that delivers one is enough: a client does not send
before it has its answer. One client is enough on the lossy network, where
clients meet only in the trees of the server: `UserClientProofs` has any number.

The reads of `PostTransfer` are scaled down: 7 bytes for a name and a size of
4 or 5, as the code reads 36 for a name and size that are shorter, and blocks of 2. What
matters is that a file may end within that read, and behind it after more than one block, and
that a text may fit into the read of its size (1), end in the read of the text, and have a size
of two digits (10); `PostTransferProofs` has all sizes. `badFields`, which needs no more than a
refusal at `size`, is reached by cut fields. `StraySize` and `StrayFile` have a number below, at
and above what is there. Three messages
are the shortest answer with a message before and behind the one that is looked at, and
with a name that is used before, by, and after the message whose local file has it.
In `Shutdown` one tree has a directory
in a directory in a directory, so that a failure returns through all levels.

`MessageServer`, `UserClient`, `DirectoryServer`, `Restart` and `UserListing` never stop
and their passing runs check for deadlock. A post, an answer and a shutdown
come to an end, so the runs of `PostTransfer`, `RetrieveTransfer` and `Shutdown` do
not; that they stop only where they should is `PostsEnd` and `ShutdownEnds`. `ChildSymmetry` permutes the
children, which no safety property tells apart; the run for liveness has none.

Fairness. `FairSpec` asks for weak fairness of the work of each child: the
operating system schedules every process, and the work of a child is never
blocked by another process. It includes the arrival of the next block of an
upload, so it assumes a client that goes on sending or closes the connection.
Nothing is assumed about accepting connections or about UDP commands.
`WakingSpec` asks for weak fairness of `Receive(c) \/ TimeOut(c)`: `SO_RCVTIMEO`
makes the kernel wake the client after 15 seconds (`commands.c:67-68`). It
does not ask that anything is ever delivered. `FairSpec` of `Shutdown` asks that
the signal comes to the main process and that every process is scheduled. `FairSpec`
of `PostTransfer` asks that client and child are scheduled and that TCP delivers what
was written. It asks for no time-out: `PostsEnd` needs the client's (`SO_RCVTIMEO`) only when a
`read` has brought a part of its field.

## Findings

**A lost update.** `post` (`server/src/operations.c:344-350`) reads `num_msg.txt` and writes it back
with nothing to keep another child out in between. `EachPostIncrements`
fails: two posts that overlap get one mid, one count is lost, and the files of
the later overwrite those of the earlier. The comment on the code says
"increments number of messages on a group" (`operations.c:342`). This is why
`messages_serial` assumes posts that do not overlap, and why `messages_overlap`
and the proofs, which do not assume it, state what remains true.

**A login without an answer.** When `recvfrom` times out, `login` compares an
uninitialised `status` with `"NOK"` (`commands.c:213-222`). Any other content of
those bytes begins a session, although the README says that the DS is to
"validate the user credentials" (`README.md:26`). On a network that delivers
`SessionAgrees` holds; with time-outs it cannot.

## Conditions

Some properties hold with an exception that is written into them, or in an
instance that is named here. Each exception is something the code does:

* `LogoutForgets`, `SessionAgrees`: a uid is used at one client at a time. With two,
  the server refuses the logout of a uid that the other client has logged out or
  unregistered, and the client then keeps its session (`client/src/commands.c:246`),
  although the application "(locally) forgets the credentials" (`README.md:30`).
* `SubscribedIsTrue`: the name is shorter than 24 characters. A GSR with the
  longest name may be answered `ERR` (`udp_handling.h:24`), and `subscribe`
  displays "subscribed" for every word it does not know (`commands.c:343`).
* `DeletesAll`: no post is under way. A post that creates files while `deleteState` walks
  the tree makes `rmdir` fail, and everything above it stays (`operations.c:606`).
* `NewGroupIsFresh` in `Restart`: the directory of the group is new. `N_GROUPS` starts
  at 0 on the trees of a killed server (`operations.c:15`), so the first new group is
  the old group 01 with another name, its members and its messages.
* `RestartTypeOK` has states in which USERS/ does not exist: SIGINT removes it,
  nothing creates it, and a server that is started again answers every REG with `DUP`
  (`operations.c:28`).
* `PostedIsStored`, `UploadComplete`, `ConfirmationDisplayed`, and `PostsEnd` without the client's
  time-out: each `read` up to the data brings its whole field (`~torn`). The server has one
  `read` per field and takes what comes. A cut within fsize ("50" of "5000 ") stores 50 bytes,
  acknowledges them and closes, so that the client is told a mid and may die of
  SIGPIPE on the rest of its file (`tcp_handling.h:167-211`); a cut in the text behind which a blank comes
  makes a name and a size of what follows, and with `hello a.txt 9999 more` the child waits for
  9999 bytes until the client times out (`tcp_handling.h:163`).
* `FinePostAccepted`: the same. A cut in the first fields, the text or the name refuses a good
  post (`tcp_handling.h:22`, `93`, `142`, `177`), and nothing else does.
* `PostedIsStored`: the text has more than one character, or there is no file. The server takes a text
  of one character for the end of the request and drops the file (`tcp_handling.h:120`).
* `PostedIsStored`, `UploadComplete`: name, size and file fill the read of 36 bytes. A
  shorter file is stored with the newline behind it (`tcp_handling.h:194`).
* `PostedIsStored`: the server has given a mid. When the child dies before that, the client
  compares a status that was not assigned, and may display a success (`commands.c:639`).
* `ConfirmationDisplayed`: the post is accepted. A client that is still writing the file of
  a refused post is ended by SIGPIPE (`commands.c:592`).
* `PostsEnd`: the file exists. `post` opens the connection before it looks for the file, and
  does not close it when there is none (`commands.c:571`).
* `LocalFilesFaithful`: the client is in step (`InStep`). A file that grows or shrinks between its size
  and its bytes (`operations.c:460`), an empty `F I L E.txt` or `A U T H O R.txt`, which a post that
  is being written leaves for a moment, make it take one thing for another. So may
  a posted file named `temp.bin`: `fopen` empties what the client is reading (`commands.c:777`).
* `LocalFilesFaithful`: the child lives to the end of the answer, or it is about another message
  than the last that came. That one's file is as long as what was sent of it, and the loop of the client goes
  on at the end of the stream and writes zeros over its text (`commands.c:738`), or into a file
  named after a mid that is a byte of the last message.
* `LocalFilesFaithful` speaks of what is left under a name: a posted file that has the name of
  the local file of a message, `GROUP_01_MSG_0001.txt`, overwrites it or is overwritten.
* `MessagesAreWhole` does not say that a retrieve stops at the count: a stray digit takes it
  further (`operations.c:405`), to messages that a lost count has hidden or that do not exist.
* `GroupsPermanent`, as far as the count goes, needs posts to one group that do not overlap: two
  that do may write it in any order.
* `ListReadBack`: the answer is not `RGM E_USR`, which `my_groups` displays as no
  groups (`commands.c:402`).

Two more that no property is about. `groups_buffer[3267]` (`operations.c:183`) is one
byte short for 99 groups with names of 24 characters, as 99 * 33 + 1 = 3268. And `ulist` needs
no login, at the client or at the server (`commands.c:457`), although the README
lists it under the commands that do (`README.md:44`).

## Proofs

`DirectoryServerProofs` proves the properties of `DirectoryServer` for all users,
names and limits. The inductive invariant is
`DirInv`, type correctness with three of them:
`GroupsDense` is what makes a new group fresh, `UnusedGroupsEmpty` what makes
it empty, and `NoGhostUsers` is what the subscription of a logged-in user needs.

`MessageServerProofs` proves the properties of `messages_overlap` for any number
of children and groups, files of any length and posts that overlap in any way.
`CountedMessagesExist` and `MessagesAreWhole` rest on one fact: `Covered(g, m)`
(all files `retrieve` opens are there, or a post is writing them), once true,
stays true (`CoveredStable`). A post leaves `Filing` only with the directory, the
author and the text in place (`FiledOK`); a name in `F I L E.txt` without
its file means that some post is at `data` (`NamedOK`). The count a post read
is a range of covered messages (`BumpOK`), and that does not change when the count does. For `MessagesAreWhole` a third state is added to these two, that
nothing of the message exists (`AbsentStep`): a post writes in no message but its own (`WritesOwn`), and
that one is covered while it does. The range a retrieve was told is not among what is
proved: it may lie beyond the count.
`MsgInv` is the conjunction. `AuthInv` adds the history variable `auth`:
whoever becomes a member between the two checks is logged in at that instant.
Two action properties of `DirectoryServer` are proved again for the composed server (`NewGroupsNextToPosts`,
`FreshUserNextToPosts`): children write only in groups that were handed out.

`MessageLogProofs` adds the assumption of `messages_serial`, that posts to one group do not
overlap, and proves the rest of what is said of a group. `SerialInv` says what the files of a message hold at
every stage of its post (`WrittenOK`), that the post is to the last counted
message or the one behind it (`CountIsMid`), that no `F I L E.txt` is on disk behind the count (`FreshOK`: a post
without a file creates none, and `retrieve` concludes from its absence that there is no file), and that every
counted message that is not being written has all its files (`SettledWhole`).
`PermanentNextToPosts` is here too, because only posts that do not overlap leave the count where it is or one
higher (`CountGrows`). `AckNamesThePost` follows, while `ListedIsLast` and `AckedStayCounted` are parts of it. `ServerImplementsLog` is
the refinement: `ReaderInv` says that the messages settled when a retrieve began are the first `n` of the
group, and that what it has read of one of those is what its files hold. Then there is one
lemma per action, which ends in a step of `MessageLog` or a stutter; `WriteCounter` with a message in
flight is a stutter, and the message is appended when its post leaves `Filing` (`ack`, or the end of the child).

`UserClientProofs` proves the safety properties of `client_lossy` for any number of
clients, sockets and users. The invariant `OnSocket` speaks of requests and answers
at once: whatever is under way from or to the socket a client waits on is about the
command it waits on. `AnswerIsToTheCommand` alone is not inductive, as a late
request becomes an answer. The server's part is `UdpCommandStep` of
`DirectoryServerProofs`.

The same module proves the properties of `client_own`, for clients none of which uses the uid of
another (`Apart`, which is what `MayUse` of that run says) and a network that delivers. `SessionAgrees` speaks of clients that
wait for nothing; between the command of the server and the answer the two disagree. `Agreed`
is what holds in between: the session that a client will have when it has taken the answer under way (`After`) is
one the server agrees with. It needs that a client has one datagram under way, that of the command it waits
on (`OneUnderWay`), and that what an answer says is still so when it comes (`Truthful`): a group keeps its
name and nobody else unsubscribes the uid.

`ListingAndRestartProofs` proves the two properties of the listings that `directory` checks next to
`DirInv`. The places of the groups in the answer to GLS and GLM are sums of widths, which a recursive function adds
up. That such a function is defined, and its values are numbers, takes an induction; the
theorems on induction in the library take an operator, which no prover here can
instantiate, so `SetInduction` is proved for a set of numbers from the well-foundedness of `<`.
`ListReadBack` then needs no more than that the server and the client add up widths that
differ by a fixed number for each group. For the list of users, `ListInv` says that what the
child has sent, what is in its buffer and what `readdir` has fetched follow each other in the order of the directory,
that all of them were members at some time, and that nobody up to the cursor who was a member all the time is missing.

It also proves the properties of the run `restart`, and `NoGhostUsers`, for any number of
runs of the server. `DirInv` does not survive a restart: `nGroups` is 0 again while
directories are on disk, so `GroupsDense` and `UnusedGroupsEmpty` fail. What remains is
`RestartInv`: the directories up to `nGroups` exist and those that exist are complete, and
`NoGhostUsers`. A new group may adopt members of an old one, but these are registered;
and `unregisterUser` goes through all gids, not only through those up to `nGroups`, which
is what `FreshUserAfterRestart` needs. That `member` is empty without a directory
gives `NewDirectoriesAreFresh`.

`PostTransferProofs` proves the safety properties of `post` for all lengths
of texts, files and reads, and a stream that is cut at any byte.
`PostInv` has a part that always holds and one that holds while no field was cut. Always: how far the client
has written in each state (`Written`), that nothing was taken from the stream behind the place of the
reads (`Takes`), and that an open connection has no answer (`Open`). While no field was cut: at which place of
the request each read of the server begins (`Reading`), and what an answer says of what is stored
(`Answered`). A child that was served at
`copy` has stored the places from the end of the header to `pos`, which is at most one beyond the
file, and only when name, size, file and newline fit into one read. `torn` never becomes false
again, so each step starts from a state in which every field so far was whole.

`RetrieveTransferProofs` proves both invariants of `retrieve` for any number of messages, files of
any length and names in any arrangement. `Shape` says that of all files sent only the last can be short, and only
when the child is dead; `TypeInv`, which holds also for a client out of step, gives
`TypeOK`. `DiskOK(K, F)` says that the local files are those of the texts `1 .. K` and the files `1 .. F`, with
the last one of each name: `TextStep` adds a text, `FileStep` the file that came with it. `Parsed` then puts a client in
step at one of five places: `AtMessage`, at the header it looks for with all that lies behind
it on disk; `BehindText`; `AtNewline`, which only an answer that ended has; `Overrun`, at the end of what a dead child sent,
where only the local file of the last message and that of a number that is none are still written (`DiskOver`);
and `Done`. That a client never reaches the end of what a living child sent without its newline is a
matter of counting: `AtMessage` has `count = at - 1`.

`ShutdownProofs` proves the properties of `shutdown`, `DeletesAll` among them, for any trees, any number of processes
and any posts under way. What is hard is that every process may fail: it meets an entry that another one has
removed under it and gives up. In a tree where nobody creates entries (`Quiet`), a process forgets no entry: each one is gone, to be
visited, or on its way (`Complete`), so `rmdir` of a directory fails only for one that is gone. And as all go through a
directory in one order, the entries a process will look for in vain come before all that are
left (`Behind`). A process that has just found what it looked for (`Fresh`) therefore finds whatever it looks
for next. `LeadInv`: while the root of a tree is on disk, the main process has
not come to that tree, or some process in it is `Fresh` - when it is overtaken, the one that overtakes it is. So the root
is gone when all processes are. `USERS` is always `Quiet`; `GROUPS` is when no post is under way.

`UnusedGroupsEmpty` is proved and not among the properties of a run: TLC checks what
follows from it, `NewGroupIsFresh`.

The proofs assume what the named assumptions of the modules say, and TLC evaluates all of them on the
instances of the runs:

| assumption | says |
|---|---|
| `LimitsAssumption`, `ClientAssumption`, `LengthAssumption` | limits, lengths and sizes are natural numbers, and reads are as long as the code needs them |
| `MessageAssumption` (two modules), `NoFileAssumption`, `NothingAssumption`, `LogAssumption` | `NoFile`, `Empty`, `Huge`, `Nothing`, `Junk` are not values of the other sets |
| `NameAssumption` (two modules) | names have 1 to 24 characters, gids have at most two digits; the local files of messages have names of their own, none of them `temp.bin` |
| `RecordAssumption` | a message with a file is none of `NoFile`, `Nameless`, `Unsigned` |
| `ListingAssumption`, `RankAssumption` | a directory has one order, and `MSG` is no uid |
| `TreeAssumption`, `PathAssumption` | entries form two trees: every path begins with GROUPS or USERS |
| `ProcessAssumption` | posts create entries in GROUPS, each in a directory that is there or that they made |

Every invariant that a passing run checks is stated by a theorem, and so are the action properties and the refinement.
Only model-checked is liveness: `ChildrenEnd`, `CountedBecomesWhole`, `CommandsEnd`, `ShutdownEnds`, `PostsEnd`. It
rests on fairness, hence on ENABLED, which is out of the prover's reach. The two findings are counterexamples
of TLC, which need no proof.

## Not modelled, and the plan

What is left out, and why:

* set-up of sockets, options, messages: no state after the start (`connection.h`,
  `init_args_parsing.h`, `interface.h`);
* what the regular expressions and `atoi` accept: an argument is well-formed or
  not, and no property depends on more (`command_args_parsing.h` of both sides);
* how `ulist` of the client prints what it reads: it keeps nothing;
* `select`, and `GID` over a change of user: a ulist, post or retrieve of the models
  carries any gid, so whatever is selected is among the inputs;
* `temp.bin`, which two clients started in one directory share;
* the process table: children are never waited for, and a server that runs long
  enough cannot fork any more; the bound is the kernel's;
* a signal in the middle of `malloc` or `fprintf`: the handler calls functions that are not
  async-signal-safe, and what then happens is up to the C library;
* the byte layout behind `char mid[5]`: the caps of the models are below 9999.

What is planned, in this order:

1. The part of liveness that needs no fairness: for each process that must end (a child, a shutdown, a post,
   a retrieve), a natural number that each of its steps lowers and no step of another raises without bound.
2. What remains of `SessionAgrees` when two clients use one uid: at most the session of the client that
   logged in last is one the server knows, and which commands tell the other.
3. That the connection-level modules stay within what `MessageServer` takes for granted: what `PostTransfer`
   stores is the text and the file of the job, cut only where `UploadCut` cuts it.
