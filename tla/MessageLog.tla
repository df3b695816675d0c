------------------------------ MODULE MessageLog ------------------------------
(***************************************************************************)
(* What posting and retrieving promise, without files or processes: every  *)
(* group has a log, posts are appended to it, and a reader is given        *)
(* consecutive messages.  Those that were in the log when the reader       *)
(* connected come exactly as they are in it; a message that is being       *)
(* posted at that time, or later, may come out in any shape.               *)
(* MessageServer implements it when posts to a group do not overlap.       *)
(***************************************************************************)
EXTENDS Naturals, Sequences

CONSTANTS
    Group,      \* the groups
    Reader,     \* the readers
    Number,     \* the message numbers a reader may ask for, starting at 1
    Message,    \* messages, and whatever else may be read in the place of one
    None        \* no reader, no message

VARIABLES
    log,        \* the messages of each group
    reader,     \* [group, upTo, next]: upTo messages were there at the start
    answer      \* the message a reader was given last, when it has just got it

logVars == <<log, reader, answer>>

LogInit ==
    /\ log = [g \in Group |-> <<>>]
    /\ reader = [r \in Reader |-> None]
    /\ answer = [r \in Reader |-> None]

AppendPost ==
    /\ log' # log /\ UNCHANGED <<reader, answer>>
    /\ \E g \in Group, e \in Message : log' = [log EXCEPT ![g] = Append(@, e)]

Begin(r) ==
    /\ reader[r] = None /\ reader'[r] # None
    /\ \E g \in Group, m \in Number :
         reader' = [reader EXCEPT ![r] = [group |-> g, upTo |-> Len(log[g]), next |-> m]]
    /\ UNCHANGED <<log, answer>>

Deliver(r) ==
    /\ reader[r] # None /\ answer[r] = None /\ answer'[r] # None
    /\ UNCHANGED <<log, reader>>
    /\ \E e \in Message :
         /\ reader[r].next <= reader[r].upTo => e = log[reader[r].group][reader[r].next]
         /\ answer' = [answer EXCEPT ![r] = e]

Continue(r) ==
    /\ answer[r] # None
    /\ answer' = [answer EXCEPT ![r] = None]
    /\ reader' = [reader EXCEPT ![r].next = @ + 1]
    /\ UNCHANGED log

Finish(r) ==
    /\ reader[r] # None
    /\ reader' = [reader EXCEPT ![r] = None]
    /\ answer' = [answer EXCEPT ![r] = None]
    /\ UNCHANGED log

LogNext ==
    \/ AppendPost
    \/ \E r \in Reader : Begin(r) \/ Deliver(r) \/ Continue(r) \/ Finish(r)

LogSpec == LogInit /\ [][LogNext]_logVars
=============================================================================
