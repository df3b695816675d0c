---------------------------- MODULE ShutdownProofs ----------------------------
(***************************************************************************)
(* Shutdown, proved for any trees, any number of processes and any posts   *)
(* that are under way.                                                     *)
(*                                                                         *)
(* A process that walks a tree keeps a stack of directories (Shape).  Two  *)
(* things make up for the deletions of the others, as long as nobody       *)
(* creates entries in the tree.  No entry of a directory is forgotten: it  *)
(* is gone, still to be visited, or the directory the process is in        *)
(* (Complete).  And entries go in the order of the listing, so that those  *)
(* a process will look for in vain come before all that are left (Behind). *)
(* Hence a process that has just found what it looked for finds everything *)
(* else, too (Fresh), and while the root of the tree is there, the main    *)
(* process has not come to the tree or some process is Fresh: it cannot    *)
(* fail, and the root is gone when all are.                                *)
(***************************************************************************)
EXTENDS Shutdown, SequenceTheorems, TLAPS

USE TreeAssumption, RankAssumption

-----------------------------------------------------------------------------
(* Stacks of directories. *)

TopOf(s) == s[Len(s)]

Retop(s, T) == [s EXCEPT ![Len(s)].todo = T]

Shape(s, R) ==
    \A j \in DOMAIN s :
        /\ TreeOf[s[j].dir] = R
        /\ s[j].todo \subseteq Kids(s[j].dir)
        /\ j = 1 => s[j].dir = R
        /\ j > 1 => /\ s[j].dir \in Kids(s[j - 1].dir)
                    /\ \A e \in s[j - 1].todo : Rank[s[j].dir] < Rank[e]

Complete(s, disk) ==
    \A j \in DOMAIN s : \A e \in Kids(s[j].dir) \cap disk :
        e \in s[j].todo \/ (j < Len(s) /\ e = s[j + 1].dir)

Behind(s, disk) ==
    \A j \in DOMAIN s : \A e \in s[j].todo \ disk, f \in Kids(s[j].dir) \cap disk : Rank[e] < Rank[f]

Fresh(s, disk) == s # <<>> => TopOf(s).dir \in disk /\ TopOf(s).todo \subseteq disk

(* The disk, as far as the tree R is concerned, has only lost entries, and    *)
(* each of them before its siblings.                                          *)
Shrinks(R, disk, disk2) ==
    /\ \A e \in disk2 : TreeOf[e] = R => e \in disk
    /\ \A e \in disk \ disk2, f \in disk2 :
         TreeOf[e] = R /\ e # R /\ f # R /\ Parent[e] = Parent[f] => Rank[e] < Rank[f]

LEMMA KidsFacts ==
    ASSUME NEW d \in Dir, NEW e \in Kids(d)
    PROVE  /\ e \in Entry /\ e \notin {Groups, Users} /\ Parent[e] = d
           /\ TreeOf[e] = TreeOf[d] /\ e # d
BY DEF Kids

(* The entries beside a kid are kids, too, unless one is the root itself. *)
LEMMA SiblingIsKid ==
    ASSUME NEW R \in {Groups, Users}, NEW d \in Dir, TreeOf[d] = R,
           NEW f \in Entry, Parent[f] = d, f # R
    PROVE  f \in Kids(d)
<1>1. TreeOf[f] = R  OBVIOUS
<1>2. f \notin {Groups, Users}  BY <1>1
<1> QED  BY <1>2 DEF Kids

LEMMA FrameFacts ==
    ASSUME NEW s \in Seq(Frame), NEW j \in DOMAIN s
    PROVE  /\ s[j] \in Frame /\ s[j].dir \in Dir /\ s[j].todo \subseteq Entry
           /\ j \in Nat /\ 1 <= j /\ j <= Len(s) /\ Len(s) \in Nat
<1>1. s[j] \in Frame /\ j \in Nat /\ 1 <= j /\ j <= Len(s) /\ Len(s) \in Nat
  OBVIOUS
<1> QED  BY <1>1 DEF Frame

LEMMA NewTodo ==
    ASSUME NEW f \in Frame, NEW T \in SUBSET Entry
    PROVE  /\ [f EXCEPT !.todo = T] \in Frame
           /\ [f EXCEPT !.todo = T].dir = f.dir /\ [f EXCEPT !.todo = T].todo = T
BY DEF Frame

LEMMA TopFacts ==
    ASSUME NEW s \in Seq(Frame), s # <<>>
    PROVE  Len(s) \in DOMAIN s /\ Len(s) \in Nat /\ Len(s) >= 1 /\ DOMAIN s = 1 .. Len(s)
OBVIOUS

LEMMA RetopFacts ==
    ASSUME NEW s \in Seq(Frame), s # <<>>, NEW T \in SUBSET Entry
    PROVE  /\ Retop(s, T) \in Seq(Frame) /\ Retop(s, T) # <<>>
           /\ Len(Retop(s, T)) = Len(s) /\ DOMAIN Retop(s, T) = DOMAIN s
           /\ \A j \in DOMAIN s : Retop(s, T)[j].dir = s[j].dir
           /\ \A j \in DOMAIN s : j # Len(s) => Retop(s, T)[j].todo = s[j].todo
           /\ Retop(s, T)[Len(s)].todo = T
<1>1. Len(s) \in DOMAIN s /\ Len(s) >= 1 /\ Len(s) \in Nat /\ DOMAIN s = 1 .. Len(s)
  BY TopFacts
<1>2. \A j \in DOMAIN s : s[j] \in Frame  BY FrameFacts
<1> DEFINE r == Retop(s, T)
<1> DEFINE f == [s[Len(s)] EXCEPT !.todo = T]
<1>3. f \in Frame /\ f.dir = s[Len(s)].dir /\ f.todo = T  BY <1>1, <1>2, NewTodo
<1>4. r = [s EXCEPT ![Len(s)] = f]  BY DEF Retop
<1> HIDE DEF r, f
<1>5. r \in Seq(Frame) /\ Len(r) = Len(s) /\ DOMAIN r = DOMAIN s  BY <1>1, <1>3, <1>4
<1>6. r[Len(s)] = f /\ \A j \in DOMAIN s : j # Len(s) => r[j] = s[j]  BY <1>1, <1>4
<1>7. r # <<>>  BY <1>1, <1>5
<1> QED  BY <1>1, <1>3, <1>5, <1>6, <1>7 DEF r

LEMMA PushFacts ==
    ASSUME NEW s \in Seq(Frame), NEW f \in Frame
    PROVE  /\ Append(s, f) \in Seq(Frame) /\ Append(s, f) # <<>>
           /\ Len(Append(s, f)) = Len(s) + 1 /\ DOMAIN Append(s, f) = 1 .. (Len(s) + 1)
           /\ \A j \in DOMAIN s : Append(s, f)[j] = s[j]
           /\ Append(s, f)[Len(s) + 1] = f
<1> HIDE DEF Frame
<1>1. /\ Append(s, f) \in Seq(Frame) /\ Append(s, f) # <<>>
      /\ Len(Append(s, f)) = Len(s) + 1 /\ Append(s, f)[Len(s) + 1] = f
      /\ \A j \in 1 .. Len(s) : Append(s, f)[j] = s[j]
  BY AppendProperties
<1>2. DOMAIN s = 1 .. Len(s) /\ DOMAIN Append(s, f) = 1 .. Len(Append(s, f))
  BY <1>1
<1> QED  BY <1>1, <1>2

LEMMA PopFacts ==
    ASSUME NEW s \in Seq(Frame), Len(s) > 1
    PROVE  /\ Front(s) \in Seq(Frame) /\ Front(s) # <<>>
           /\ Len(Front(s)) = Len(s) - 1 /\ DOMAIN Front(s) = 1 .. (Len(s) - 1)
           /\ \A j \in 1 .. (Len(s) - 1) : Front(s)[j] = s[j]
<1>1. Len(s) \in Nat  OBVIOUS
<1>2. Front(s) = SubSeq(s, 1, Len(s) - 1)  BY DEF Front
<1>3. \A j \in 1 .. (Len(s) - 1) : s[j] \in Frame  BY <1>1, FrameFacts
<1>4. /\ Front(s) \in Seq(Frame) /\ Len(Front(s)) = Len(s) - 1
      /\ \A j \in 1 .. (Len(s) - 1) : Front(s)[j] = s[j]
  <2>1. /\ SubSeq(s, 1, Len(s) - 1) \in Seq(Frame)
        /\ Len(SubSeq(s, 1, Len(s) - 1)) = Len(s) - 1
        /\ \A j \in 1 .. (Len(s) - 1) : SubSeq(s, 1, Len(s) - 1)[j] = s[j]
    BY <1>1, <1>3, SubSeqProperties
  <2> QED  BY <1>2, <2>1
<1>5. DOMAIN Front(s) = 1 .. (Len(s) - 1)  BY <1>4
<1> QED  BY <1>1, <1>4, <1>5

-----------------------------------------------------------------------------
(* What the deletions of the others do to a stack. *)

LEMMA CompleteStays ==
    ASSUME NEW R, NEW disk, NEW disk2, NEW s \in Seq(Frame),
           Shape(s, R), Complete(s, disk), Shrinks(R, disk, disk2)
    PROVE  Complete(s, disk2)
<1> SUFFICES ASSUME NEW j \in DOMAIN s, NEW e \in Kids(s[j].dir) \cap disk2
             PROVE  e \in s[j].todo \/ (j < Len(s) /\ e = s[j + 1].dir)
  BY DEF Complete
<1>1. s[j].dir \in Dir  BY FrameFacts
<1>2. TreeOf[e] = R  BY <1>1, KidsFacts DEF Shape
<1>3. e \in disk  BY <1>2 DEF Shrinks
<1> QED  BY <1>3 DEF Complete

LEMMA BehindStays ==
    ASSUME NEW R \in {Groups, Users}, NEW disk, NEW disk2, NEW s \in Seq(Frame),
           Shape(s, R), Behind(s, disk), Shrinks(R, disk, disk2)
    PROVE  Behind(s, disk2)
<1> SUFFICES ASSUME NEW j \in DOMAIN s, NEW e \in s[j].todo \ disk2,
                    NEW f \in Kids(s[j].dir) \cap disk2
             PROVE  Rank[e] < Rank[f]
  BY DEF Behind
<1>1. s[j].dir \in Dir /\ e \in Kids(s[j].dir)  BY FrameFacts DEF Shape
<1>2. /\ TreeOf[e] = R /\ TreeOf[f] = R /\ e # R /\ f # R /\ Parent[e] = Parent[f]
  BY <1>1, KidsFacts DEF Shape
<1>3. f \in disk  BY <1>2 DEF Shrinks
<1>4. CASE e \in disk  BY <1>2, <1>4 DEF Shrinks
<1>5. CASE e \notin disk  BY <1>3, <1>5 DEF Behind
<1> QED  BY <1>4, <1>5

(* Which changes of the disk leave a tree in that order. *)

LEMMA ElsewhereShrinks ==
    ASSUME NEW R, NEW disk, NEW e, TreeOf[e] # R
    PROVE  /\ Shrinks(R, disk, disk) /\ Shrinks(R, disk, disk \ {e})
           /\ Shrinks(R, disk, disk \cup {e})
BY DEF Shrinks

LEMMA UnchangedShrinks ==
    ASSUME NEW R, NEW disk
    PROVE  Shrinks(R, disk, disk)
BY DEF Shrinks

(* The file a process removes comes before all that is left in its directory. *)
LEMMA FileShrinks ==
    ASSUME NEW R \in {Groups, Users}, NEW disk \in SUBSET Entry, NEW s \in Seq(Frame), s # <<>>,
           Shape(s, R), Complete(s, disk),
           NEW e \in TopOf(s).todo, \A f \in TopOf(s).todo : Rank[e] <= Rank[f]
    PROVE  Shrinks(R, disk, disk \ {e})
<1>1. Len(s) \in DOMAIN s  BY TopFacts
<1>2. TopOf(s).dir \in Dir /\ e \in Kids(TopOf(s).dir) /\ TreeOf[TopOf(s).dir] = R
  BY <1>1, FrameFacts DEF Shape, TopOf
<1>3. e \in Entry /\ e # R /\ Parent[e] = TopOf(s).dir  BY <1>2, KidsFacts
<1> SUFFICES ASSUME NEW f \in disk \ {e}, f # R, Parent[e] = Parent[f]
             PROVE  Rank[e] < Rank[f]
  BY DEF Shrinks
<1>4. f \in Entry /\ f \in Kids(TopOf(s).dir)  BY <1>2, <1>3, SiblingIsKid
<1>5. f \in TopOf(s).todo
  <2>1. Len(s) \in Nat /\ ~(Len(s) < Len(s))  BY TopFacts
  <2> QED  BY <1>1, <1>4, <2>1 DEF Complete, TopOf
<1>6. Rank[e] <= Rank[f] /\ Rank[e] # Rank[f] /\ Rank[e] \in Int /\ Rank[f] \in Int
  BY <1>3, <1>5
<1> QED  BY <1>6

(* So does the directory it has emptied. *)
LEMMA DirShrinks ==
    ASSUME NEW R \in {Groups, Users}, NEW disk \in SUBSET Entry, NEW s \in Seq(Frame), s # <<>>,
           Shape(s, R), Complete(s, disk)
    PROVE  Shrinks(R, disk, disk \ {TopOf(s).dir})
<1> DEFINE n == Len(s)
           d == TopOf(s).dir
<1>1. n \in DOMAIN s /\ n \in Nat /\ n >= 1 /\ DOMAIN s = 1 .. n  BY TopFacts
<1>2. CASE n = 1
  <2>1. d = R  BY <1>1, <1>2 DEF Shape, TopOf
  <2> QED  BY <2>1 DEF Shrinks
<1>3. CASE n > 1
  <2>1. n - 1 \in DOMAIN s  BY <1>1, <1>3
  <2> DEFINE c == s[n - 1].dir
  <2>2. d \in Kids(c) /\ c \in Dir /\ TreeOf[c] = R /\ \A e \in s[n - 1].todo : Rank[d] < Rank[e]
    BY <1>1, <1>3, <2>1, FrameFacts DEF Shape, TopOf
  <2>3. Parent[d] = c  BY <2>2, KidsFacts
  <2> SUFFICES ASSUME NEW f \in disk \ {d}, f # R, Parent[d] = Parent[f]
               PROVE  Rank[d] < Rank[f]
    BY DEF Shrinks
  <2>4. f \in Kids(c)  BY <2>2, <2>3, SiblingIsKid
  <2>5. f \in s[n - 1].todo \/ f = s[(n - 1) + 1].dir  BY <2>1, <2>4 DEF Complete
  <2>6. (n - 1) + 1 = n  BY <1>1
  <2>7. f \in s[n - 1].todo  BY <2>5, <2>6 DEF TopOf
  <2> QED  BY <2>2, <2>7
<1> QED  BY <1>1, <1>2, <1>3

-----------------------------------------------------------------------------
(* What the moves of a process do to its own stack. *)

LEMMA RetopKeeps ==
    ASSUME NEW R, NEW s \in Seq(Frame), s # <<>>, NEW T \in SUBSET Entry, NEW disk
    PROVE  /\ Shape(s, R) /\ T \subseteq Kids(TopOf(s).dir) => Shape(Retop(s, T), R)
           /\ Complete(s, disk) /\ Kids(TopOf(s).dir) \cap disk \subseteq T
                 => Complete(Retop(s, T), disk)
           /\ Behind(s, disk) /\ T \ disk \subseteq TopOf(s).todo => Behind(Retop(s, T), disk)
<1> DEFINE r == Retop(s, T)
<1>1. /\ Len(r) = Len(s) /\ DOMAIN r = DOMAIN s
      /\ \A j \in DOMAIN s : r[j].dir = s[j].dir
      /\ \A j \in DOMAIN s : j # Len(s) => r[j].todo = s[j].todo
      /\ r[Len(s)].todo = T
  BY RetopFacts
<1>2. Len(s) \in DOMAIN s /\ Len(s) \in Nat /\ Len(s) >= 1 /\ DOMAIN s = 1 .. Len(s)  BY TopFacts
<1> HIDE DEF r
<1>3. ASSUME Shape(s, R), T \subseteq Kids(TopOf(s).dir) PROVE Shape(r, R)
  <2> SUFFICES ASSUME NEW j \in DOMAIN s
               PROVE  /\ TreeOf[r[j].dir] = R
                      /\ r[j].todo \subseteq Kids(r[j].dir)
                      /\ j = 1 => r[j].dir = R
                      /\ j > 1 => /\ r[j].dir \in Kids(r[j - 1].dir)
                                  /\ \A e \in r[j - 1].todo : Rank[r[j].dir] < Rank[e]
    BY <1>1 DEF Shape
  <2>1. r[j].todo \subseteq Kids(r[j].dir)
    BY <1>1, <1>3 DEF Shape, TopOf
  <2>2. j > 1 => j - 1 \in DOMAIN s /\ j - 1 # Len(s)  BY <1>2
  <2> QED  BY <1>1, <1>3, <2>1, <2>2 DEF Shape
<1>4. ASSUME Complete(s, disk), Kids(TopOf(s).dir) \cap disk \subseteq T
      PROVE  Complete(r, disk)
  <2> SUFFICES ASSUME NEW j \in DOMAIN s, NEW e \in Kids(r[j].dir) \cap disk
               PROVE  e \in r[j].todo \/ (j < Len(r) /\ e = r[j + 1].dir)
    BY <1>1 DEF Complete
  <2>1. CASE j = Len(s)  BY <1>1, <1>4, <2>1 DEF TopOf
  <2>2. CASE j # Len(s)
    <3>1. j + 1 \in DOMAIN s  BY <1>2, <2>2
    <3> QED  BY <1>1, <1>4, <2>2, <3>1 DEF Complete
  <2> QED  BY <2>1, <2>2
<1>5. ASSUME Behind(s, disk), T \ disk \subseteq TopOf(s).todo PROVE Behind(r, disk)
  <2> SUFFICES ASSUME NEW j \in DOMAIN s, NEW e \in r[j].todo \ disk, NEW f \in Kids(r[j].dir) \cap disk
               PROVE  Rank[e] < Rank[f]
    BY <1>1 DEF Behind
  <2>1. e \in s[j].todo  BY <1>1, <1>5 DEF TopOf
  <2> QED  BY <1>1, <1>5, <2>1 DEF Behind
<1> QED  BY <1>3, <1>4, <1>5 DEF r

(* Into a directory: the first entry that is left, with what is in it. *)
Enter(s, e, K) == Append(Retop(s, TopOf(s).todo \ {e}), [dir |-> e, todo |-> K])

LEMMA EnterKeeps ==
    ASSUME NEW R, NEW s \in Seq(Frame), s # <<>>, Shape(s, R),
           NEW disk, NEW e \in Dir, NEW K \in SUBSET Entry, K = Kids(e) \cap disk,
           e \in TopOf(s).todo, \A f \in TopOf(s).todo : Rank[e] <= Rank[f]
    PROVE  /\ Enter(s, e, K) \in Seq(Frame) /\ Enter(s, e, K) # <<>> /\ Shape(Enter(s, e, K), R)
           /\ Complete(s, disk) => Complete(Enter(s, e, K), disk)
           /\ Behind(s, disk) => Behind(Enter(s, e, K), disk)
           /\ e \in disk => Fresh(Enter(s, e, K), disk)
<1> DEFINE T == TopOf(s).todo \ {e}
           r == Retop(s, T)
           f == [dir |-> e, todo |-> K]
           n == Len(s)
           x == Enter(s, e, K)
<1>1. n \in DOMAIN s /\ n \in Nat /\ n >= 1 /\ DOMAIN s = 1 .. n  BY TopFacts
<1>2. /\ TopOf(s).dir \in Dir /\ TopOf(s).todo \subseteq Entry
      /\ TopOf(s).todo \subseteq Kids(TopOf(s).dir) /\ TreeOf[TopOf(s).dir] = R
  BY <1>1, FrameFacts DEF Shape, TopOf
<1>3. T \in SUBSET Entry  BY <1>2
<1> HIDE DEF T
<1>4. /\ r \in Seq(Frame) /\ Len(r) = n /\ DOMAIN r = DOMAIN s
      /\ \A j \in DOMAIN s : r[j].dir = s[j].dir
      /\ \A j \in DOMAIN s : j # n => r[j].todo = s[j].todo
      /\ r[n].todo = T
  BY <1>3, RetopFacts
<1>5. f \in Frame /\ f.dir = e /\ f.todo = K  BY DEF Frame
<1> HIDE DEF r, f
<1>6. x = Append(r, f)  BY DEF Enter, T, r, f
<1>7. /\ Append(r, f) \in Seq(Frame) /\ Append(r, f) # <<>>
       /\ Len(Append(r, f)) = Len(r) + 1 /\ DOMAIN Append(r, f) = 1 .. (Len(r) + 1)
       /\ \A j \in DOMAIN r : Append(r, f)[j] = r[j]
       /\ Append(r, f)[Len(r) + 1] = f
  BY <1>4, <1>5, PushFacts
<1> HIDE DEF x, n
<1>8. /\ x \in Seq(Frame) /\ x # <<>> /\ Len(x) = n + 1 /\ DOMAIN x = 1 .. (n + 1)
      /\ \A j \in DOMAIN s : x[j] = r[j]
      /\ x[n + 1] = f
  BY <1>4, <1>6, <1>7
<1>9. e \in Kids(TopOf(s).dir)  BY <1>2
<1>10. TreeOf[e] = R  BY <1>2, <1>9, KidsFacts
<1>11. \A g \in T : Rank[e] < Rank[g]
  <2> SUFFICES ASSUME NEW g \in T PROVE Rank[e] < Rank[g]
    OBVIOUS
  <2>1. g \in Kids(TopOf(s).dir) /\ g # e /\ Rank[e] <= Rank[g]  BY <1>2 DEF T
  <2>2. Parent[g] = Parent[e] /\ g \in Entry /\ e \in Entry  BY <1>2, <1>9, <2>1, KidsFacts
  <2>3. Rank[e] # Rank[g] /\ Rank[e] \in Int /\ Rank[g] \in Int  BY <2>1, <2>2
  <2> QED  BY <2>1, <2>3
<1>12. Shape(r, R)  BY <1>2, RetopKeeps DEF r, T
<1>13. Shape(x, R)
  <2> SUFFICES ASSUME NEW j \in 1 .. (n + 1)
               PROVE  /\ TreeOf[x[j].dir] = R
                      /\ x[j].todo \subseteq Kids(x[j].dir)
                      /\ j = 1 => x[j].dir = R
                      /\ j > 1 => /\ x[j].dir \in Kids(x[j - 1].dir)
                                  /\ \A g \in x[j - 1].todo : Rank[x[j].dir] < Rank[g]
    BY <1>8 DEF Shape
  <2>1. CASE j = n + 1
    <3>1. x[j].dir = e /\ x[j].todo = K  BY <1>5, <1>8, <2>1
    <3>2. j # 1 /\ j - 1 = n  BY <1>1, <2>1
    <3>3. x[j - 1].dir = TopOf(s).dir /\ x[j - 1].todo = T
      BY <1>1, <1>4, <1>8, <3>2 DEF TopOf, n
    <3> QED  BY <1>9, <1>10, <1>11, <3>1, <3>2, <3>3
  <2>2. CASE j # n + 1
    <3>1. j \in DOMAIN s /\ (j > 1 => j - 1 \in DOMAIN s)  BY <1>1, <2>2
    <3>2. x[j] = r[j] /\ (j > 1 => x[j - 1] = r[j - 1])  BY <1>8, <3>1
    <3> QED  BY <1>4, <1>12, <3>1, <3>2 DEF Shape
  <2> QED  BY <2>1, <2>2
<1>14. ASSUME Complete(s, disk) PROVE Complete(x, disk)
  <2> SUFFICES ASSUME NEW j \in 1 .. (n + 1), NEW g \in Kids(x[j].dir) \cap disk
               PROVE  g \in x[j].todo \/ (j < n + 1 /\ g = x[j + 1].dir)
    BY <1>8 DEF Complete
  <2>1. CASE j = n + 1  BY <1>5, <1>8, <2>1
  <2>2. CASE j = n
    <3>1. x[j].dir = s[n].dir /\ x[j].todo = T /\ x[j + 1].dir = e /\ j < n + 1 /\ ~(n < n)
      BY <1>1, <1>4, <1>5, <1>8, <2>2
    <3>2. g \in TopOf(s).todo
      <4>1. g \in s[n].todo  BY <1>1, <1>14, <2>2, <3>1 DEF Complete, n
      <4> QED  BY <4>1 DEF TopOf, n
    <3> QED  BY <3>1, <3>2 DEF T
  <2>3. CASE j < n
    <3>1. j \in DOMAIN s /\ j + 1 \in DOMAIN s /\ j # n /\ j < n + 1  BY <1>1, <2>3
    <3>2. x[j].dir = s[j].dir /\ x[j].todo = s[j].todo /\ x[j + 1].dir = s[j + 1].dir
      BY <1>4, <1>8, <3>1
    <3> QED  BY <1>14, <3>1, <3>2 DEF Complete
  <2>4. j = n + 1 \/ j = n \/ j < n  BY <1>1
  <2> QED  BY <2>1, <2>2, <2>3, <2>4
<1>15. ASSUME Behind(s, disk) PROVE Behind(x, disk)
  <2> SUFFICES ASSUME NEW j \in 1 .. (n + 1), NEW g \in x[j].todo \ disk, NEW h \in Kids(x[j].dir) \cap disk
               PROVE  Rank[g] < Rank[h]
    BY <1>8 DEF Behind
  <2>1. CASE j = n + 1  BY <1>5, <1>8, <2>1
  <2>2. CASE j # n + 1
    <3>1. j \in DOMAIN s  BY <1>1, <2>2
    <3>2. x[j] = r[j] /\ DOMAIN r = DOMAIN s  BY <1>4, <1>8, <3>1
    <3>3. Behind(r, disk)  BY <1>2, <1>15, RetopKeeps DEF r, T
    <3> QED  BY <3>1, <3>2, <3>3 DEF Behind
  <2> QED  BY <2>1, <2>2
<1>16. ASSUME e \in disk PROVE Fresh(x, disk)
  BY <1>5, <1>8, <1>16 DEF Fresh, TopOf
<1> QED  BY <1>8, <1>13, <1>14, <1>15, <1>16 DEF x

LEMMA PopKeeps ==
    ASSUME NEW R, NEW s \in Seq(Frame), Len(s) > 1, NEW disk
    PROVE  /\ Shape(s, R) => Shape(Front(s), R)
           /\ Complete(s, disk) /\ TopOf(s).dir \notin disk => Complete(Front(s), disk)
           /\ Behind(s, disk) => Behind(Front(s), disk)
<1> DEFINE n == Len(s)
           r == Front(s)
<1>1. /\ n \in Nat /\ n > 1 /\ DOMAIN s = 1 .. n /\ Len(r) = n - 1 /\ DOMAIN r = 1 .. (n - 1)
      /\ \A j \in 1 .. (n - 1) : r[j] = s[j] /\ j \in DOMAIN s
  BY PopFacts
<1>2. s[n] = TopOf(s) /\ Len(s) = n  BY DEF TopOf
<1> HIDE DEF r, n
<1>3. ASSUME Shape(s, R) PROVE Shape(r, R)
  <2> SUFFICES ASSUME NEW j \in 1 .. (n - 1)
               PROVE  /\ TreeOf[r[j].dir] = R
                      /\ r[j].todo \subseteq Kids(r[j].dir)
                      /\ j = 1 => r[j].dir = R
                      /\ j > 1 => /\ r[j].dir \in Kids(r[j - 1].dir)
                                  /\ \A g \in r[j - 1].todo : Rank[r[j].dir] < Rank[g]
    BY <1>1 DEF Shape
  <2>1. j > 1 => j - 1 \in 1 .. (n - 1)  BY <1>1
  <2> QED  BY <1>1, <1>3, <2>1 DEF Shape
<1>4. ASSUME Complete(s, disk), TopOf(s).dir \notin disk PROVE Complete(r, disk)
  <2> SUFFICES ASSUME NEW j \in 1 .. (n - 1), NEW e \in Kids(r[j].dir) \cap disk
               PROVE  e \in r[j].todo \/ (j < n - 1 /\ e = r[j + 1].dir)
    BY <1>1 DEF Complete
  <2>1. e \in s[j].todo \/ e = s[j + 1].dir  BY <1>1, <1>4 DEF Complete
  <2>2. CASE j = n - 1
    <3>1. j + 1 = n  BY <1>1, <2>2
    <3> QED  BY <1>1, <1>2, <1>4, <2>1, <3>1
  <2>3. CASE j < n - 1
    <3>1. j + 1 \in 1 .. (n - 1)  BY <1>1, <2>3
    <3> QED  BY <1>1, <2>1, <2>3, <3>1
  <2>4. j = n - 1 \/ j < n - 1  BY <1>1
  <2> QED  BY <2>2, <2>3, <2>4
<1>5. ASSUME Behind(s, disk) PROVE Behind(r, disk)
  BY <1>1, <1>5 DEF Behind
<1> QED  BY <1>3, <1>4, <1>5 DEF r

-----------------------------------------------------------------------------
(* Who has just found an entry finds the rest. *)

Closed(disk) == \A e \in disk : Parent[e] \in disk

LEMMA FreshAfterFile ==
    ASSUME NEW R, NEW s \in Seq(Frame), s # <<>>, Shape(s, R),
           NEW disk \in SUBSET Entry, Closed(disk), Behind(s, disk),
           NEW e \in TopOf(s).todo, e \in disk, \A f \in TopOf(s).todo : Rank[e] <= Rank[f]
    PROVE  Fresh(Retop(s, TopOf(s).todo \ {e}), disk \ {e})
<1>1. Len(s) \in DOMAIN s  BY TopFacts
<1>2. /\ TopOf(s).dir \in Dir /\ TopOf(s).todo \in SUBSET Entry
      /\ TopOf(s).todo \subseteq Kids(TopOf(s).dir)
  BY <1>1, FrameFacts DEF Shape, TopOf
<1>3. Parent[e] = TopOf(s).dir /\ e # TopOf(s).dir /\ e \in Kids(TopOf(s).dir) BY <1>2, KidsFacts
<1>4. TopOf(s).dir \in disk \ {e}  BY <1>3 DEF Closed
<1>5. \A f \in TopOf(s).todo \ {e} : f \in disk
  <2> SUFFICES ASSUME NEW f \in TopOf(s).todo \ {e}, f \notin disk PROVE FALSE
    OBVIOUS
  <2>1. Rank[f] < Rank[e]  BY <1>1, <1>3 DEF Behind, TopOf
  <2>2. Rank[e] <= Rank[f] /\ Rank[e] \in Int /\ Rank[f] \in Int  BY <1>2
  <2> QED  BY <2>1, <2>2
<1> DEFINE r == Retop(s, TopOf(s).todo \ {e})
<1>6. TopOf(r).dir = TopOf(s).dir /\ TopOf(r).todo = TopOf(s).todo \ {e}
  <2> DEFINE T == TopOf(s).todo \ {e}
  <2>1. T \in SUBSET Entry  BY <1>2
  <2> HIDE DEF T
  <2>2. /\ Len(Retop(s, T)) = Len(s) /\ Retop(s, T)[Len(s)].dir = s[Len(s)].dir
        /\ Retop(s, T)[Len(s)].todo = T
    BY <1>1, <2>1, RetopFacts
  <2> QED  BY <2>2 DEF TopOf, T
<1> HIDE DEF r
<1>7. Fresh(r, disk \ {e})  BY <1>4, <1>5, <1>6 DEF Fresh
<1> QED  BY <1>7 DEF r

LEMMA FreshAfterDir ==
    ASSUME NEW R, NEW s \in Seq(Frame), Len(s) > 1, Shape(s, R),
           NEW disk \in SUBSET Entry, Closed(disk), Behind(s, disk), TopOf(s).dir \in disk
    PROVE  Fresh(Front(s), disk \ {TopOf(s).dir})
<1> DEFINE n == Len(s)
           c == s[n - 1]
           d == TopOf(s).dir
<1>1. n \in Nat /\ n - 1 \in DOMAIN s /\ n \in DOMAIN s /\ n - 1 \in 1 .. (n - 1)  OBVIOUS
<1>2. TopOf(Front(s)) = c
  <2>1. Len(Front(s)) = n - 1 /\ Front(s)[n - 1] = s[n - 1]  BY <1>1, PopFacts
  <2> QED  BY <2>1 DEF TopOf
<1>3. /\ d \in Kids(c.dir) /\ c.dir \in Dir /\ c.todo \in SUBSET Entry
      /\ \A e \in c.todo : Rank[d] < Rank[e]
  BY <1>1, FrameFacts DEF Shape, TopOf
<1>4. Parent[d] = c.dir /\ d # c.dir /\ d \in Entry  BY <1>3, KidsFacts
<1>5. c.dir \in disk \ {d}  BY <1>4 DEF Closed
<1>6. \A f \in c.todo : f \in disk \ {d}
  <2> SUFFICES ASSUME NEW f \in c.todo, f \notin disk \ {d} PROVE FALSE
    OBVIOUS
  <2>1. Rank[d] < Rank[f] /\ Rank[d] \in Int /\ Rank[f] \in Int  BY <1>3, <1>4
  <2>2. f # d  BY <2>1
  <2>3. Rank[f] < Rank[d]  BY <1>1, <1>3, <2>2 DEF Behind
  <2> QED  BY <2>1, <2>3
<1> QED  BY <1>2, <1>5, <1>6 DEF Fresh

(* Who finds everything else cannot fail. *)
LEMMA FreshTop ==
    ASSUME NEW s \in Seq(Frame), s # <<>>, NEW disk, Complete(s, disk), TopOf(s).todo = {}
    PROVE  Kids(TopOf(s).dir) \cap disk = {}
<1>1. Len(s) \in DOMAIN s /\ Len(s) \in Nat /\ ~(Len(s) < Len(s))  BY TopFacts
<1> QED  BY <1>1 DEF Complete, TopOf

LEMMA FreshStays ==
    ASSUME NEW R, NEW s \in Seq(Frame), Shape(s, R), NEW disk, NEW disk2,
           Fresh(s, disk), \A e \in disk : TreeOf[e] = R => e \in disk2
    PROVE  Fresh(s, disk2)
<1> SUFFICES ASSUME s # <<>> PROVE TopOf(s).dir \in disk2 /\ TopOf(s).todo \subseteq disk2
  BY DEF Fresh
<1>1. Len(s) \in DOMAIN s  BY TopFacts
<1>2. TopOf(s).dir \in Dir /\ TreeOf[TopOf(s).dir] = R /\ TopOf(s).todo \subseteq Kids(TopOf(s).dir)
  BY <1>1, FrameFacts DEF Shape, TopOf
<1>3. \A e \in TopOf(s).todo : TreeOf[e] = R  BY <1>2, KidsFacts
<1> QED  BY <1>2, <1>3 DEF Fresh

-----------------------------------------------------------------------------
(* Types, and the stacks of all processes. *)

Place == {"running", "GROUPS", "USERS", "gone"}

RootAt(a) == IF a = "GROUPS" THEN Groups ELSE Users

TypeInv ==
    /\ onDisk \in SUBSET Entry /\ Closed(onDisk)
    /\ at \in [Process -> Place]
    /\ scan \in [Process -> Seq(Frame)]
    /\ made \in [Process -> Nat]
    /\ \A p \in Process : at[p] \in {"running", "gone"} => scan[p] = <<>>
    /\ \A p \in Process : Shape(scan[p], RootAt(at[p]))

LEMMA TypeInvImpliesTypeOK == TypeInv => TypeOK
<1> SUFFICES ASSUME TypeInv PROVE TypeOK
  OBVIOUS
<1>1. ASSUME NEW p \in Process, scan[p] # <<>> PROVE scan[p][1].dir = Root(p)
  <2>1. scan[p] \in Seq(Frame) /\ Shape(scan[p], RootAt(at[p]))  BY DEF TypeInv
  <2>2. 1 \in DOMAIN scan[p]  BY <1>1, <2>1
  <2> QED  BY <2>1, <2>2 DEF Shape, Root, RootAt
<1> QED  BY <1>1 DEF TypeInv, TypeOK, Closed, Place

LEMMA EmptyStack ==
    ASSUME NEW R, NEW disk
    PROVE  /\ <<>> \in Seq(Frame) /\ Shape(<<>>, R) /\ Complete(<<>>, disk)
           /\ Behind(<<>>, disk) /\ Fresh(<<>>, disk)
BY DEF Shape, Complete, Behind, Fresh

(* One process moves: it comes to the place a with the stack s. *)
Moves(p, a, s) == at' = [at EXCEPT ![p] = a] /\ scan' = [scan EXCEPT ![p] = s]

LEMMA MovesTypeInv ==
    ASSUME TypeInv, NEW p \in Process, NEW a \in Place, NEW s \in Seq(Frame), Moves(p, a, s),
           a \in {"running", "gone"} => s = <<>>, Shape(s, RootAt(a)),
           onDisk' \in SUBSET Entry, Closed(onDisk'), made' \in [Process -> Nat]
    PROVE  TypeInv'
<1>1. /\ at' \in [Process -> Place] /\ scan' \in [Process -> Seq(Frame)]
      /\ at'[p] = a /\ scan'[p] = s
      /\ \A q \in Process : q # p => at'[q] = at[q] /\ scan'[q] = scan[q]
  BY DEF TypeInv, Moves
<1>2. \A q \in Process : at'[q] \in {"running", "gone"} => scan'[q] = <<>>
  BY <1>1 DEF TypeInv
<1>3. \A q \in Process : Shape(scan'[q], RootAt(at'[q]))
  <2> TAKE q \in Process
  <2>1. CASE q = p  BY <1>1, <2>1
  <2>2. CASE q # p  BY <1>1, <2>2 DEF TypeInv
  <2> QED  BY <2>1, <2>2
<1> QED  BY <1>1, <1>2, <1>3 DEF TypeInv, Shape, RootAt, Closed

LEMMA StaysMoves ==
    ASSUME TypeInv, NEW p \in Process
    PROVE  /\ at = [at EXCEPT ![p] = at[p]] /\ scan = [scan EXCEPT ![p] = scan[p]]
           /\ at[p] \in Place /\ scan[p] \in Seq(Frame) /\ Shape(scan[p], RootAt(at[p]))
           /\ onDisk \in SUBSET Entry /\ Closed(onDisk) /\ made \in [Process -> Nat]
           /\ at[p] \in {"running", "gone"} => scan[p] = <<>>
BY DEF TypeInv

-----------------------------------------------------------------------------
(* The steps, as moves. *)

AfterTree(a) == IF a = "GROUPS" THEN "USERS" ELSE "gone"

Walks(p) == at[p] \in {"GROUPS", "USERS"}

LEMMA NextTreeMoves ==
    ASSUME TypeInv, NEW p \in Process, NEW ok, NextTree(p, ok)
    PROVE  Moves(p, AfterTree(at[p]), <<>>)
BY DEF TypeInv, NextTree, Moves, AfterTree

LEMMA FailMoves ==
    ASSUME TypeInv, NEW p \in Process, Fail(p)
    PROVE  Moves(p, AfterTree(at[p]), <<>>) /\ onDisk' = onDisk /\ made' = made
BY NextTreeMoves DEF Fail

LEMMA CreateMoves ==
    ASSUME TypeInv, NEW p \in Process, Create(p)
    PROVE  /\ at[p] = "running" /\ Moves(p, at[p], scan[p])
           /\ made[p] + 1 \in DOMAIN Creates[p]
           /\ made' = [made EXCEPT ![p] = made[p] + 1]
           /\ \/ onDisk' = onDisk
              \/ /\ onDisk' = onDisk \cup {Creates[p][made[p] + 1]}
                 /\ Parent[Creates[p][made[p] + 1]] \in onDisk
<1>1. Creates[p] \in Seq(Entry \ {Groups, Users}) /\ made[p] \in Nat
  BY ProcessAssumption DEF TypeInv
<1>2. made[p] + 1 \in DOMAIN Creates[p]  BY <1>1 DEF Create
<1>3. Moves(p, at[p], scan[p])  BY StaysMoves DEF Create, Moves
<1> QED  BY <1>2, <1>3 DEF Create

LEMMA EnterRootMoves ==
    ASSUME TypeInv, NEW p \in Process, EnterRoot(p)
    PROVE  /\ Walks(p) /\ scan[p] = <<>> /\ onDisk' = onDisk /\ made' = made
           /\ \/ /\ RootAt(at[p]) \in onDisk
                 /\ Moves(p, at[p], <<[dir |-> RootAt(at[p]), todo |-> Kids(RootAt(at[p])) \cap onDisk]>>)
              \/ /\ RootAt(at[p]) \notin onDisk
                 /\ Moves(p, AfterTree(at[p]), <<>>)
<1>1. Root(p) = RootAt(at[p])  BY DEF Root, RootAt
<1>2. CASE Root(p) \in onDisk  BY <1>1, <1>2, StaysMoves DEF EnterRoot, Moves, Walks, Inside
<1>3. CASE Root(p) \notin onDisk  BY <1>1, <1>3, FailMoves DEF EnterRoot, Walks
<1> QED  BY <1>2, <1>3

LEMMA StackWalks ==
    ASSUME TypeInv, NEW p \in Process, scan[p] # <<>>
    PROVE  Walks(p) /\ Top(p) = TopOf(scan[p]) /\ scan[p] \in Seq(Frame)
BY DEF TypeInv, Place, Walks, Top, TopOf

LEMMA VisitMoves ==
    ASSUME TypeInv, NEW p \in Process, NEW e \in Entry, Visit(p, e)
    PROVE  /\ Walks(p) /\ scan[p] # <<>> /\ made' = made
           /\ e \in TopOf(scan[p]).todo /\ \A f \in TopOf(scan[p]).todo : Rank[e] <= Rank[f]
           /\ \/ /\ e \in onDisk /\ e \notin Dir /\ onDisk' = onDisk \ {e}
                 /\ Moves(p, at[p], Retop(scan[p], TopOf(scan[p]).todo \ {e}))
              \/ /\ e \in onDisk /\ e \in Dir /\ onDisk' = onDisk
                 /\ Moves(p, at[p], Enter(scan[p], e, Kids(e) \cap onDisk))
              \/ /\ e \notin onDisk /\ onDisk' = onDisk
                 /\ Moves(p, AfterTree(at[p]), <<>>)
<1>1. scan[p] # <<>>  BY DEF Visit, IsNext
<1>2. Walks(p) /\ Top(p) = TopOf(scan[p])  BY <1>1, StackWalks
<1>3. e \in TopOf(scan[p]).todo /\ \A f \in TopOf(scan[p]).todo : Rank[e] <= Rank[f]
  BY <1>2 DEF Visit, IsNext
<1>4. Visited(p, e) = Retop(scan[p], TopOf(scan[p]).todo \ {e})
  BY DEF Visited, Retop, TopOf
<1>5. CASE e \in onDisk /\ e \notin Dir
  <2>1. onDisk' = onDisk \ {e} /\ made' = made /\ at' = at /\ scan' = [scan EXCEPT ![p] = Visited(p, e)]
    BY <1>5 DEF Visit
  <2> QED  BY <1>1, <1>2, <1>3, <1>4, <1>5, <2>1, StaysMoves DEF Moves
<1>6. CASE e \in onDisk /\ e \in Dir
  <2>1. /\ onDisk' = onDisk /\ made' = made /\ at' = at
        /\ scan' = [scan EXCEPT ![p] = Append(Visited(p, e), [dir |-> e, todo |-> Inside(e)])]
    BY <1>6 DEF Visit
  <2>2. Append(Visited(p, e), [dir |-> e, todo |-> Inside(e)]) = Enter(scan[p], e, Kids(e) \cap onDisk)
    BY <1>4 DEF Enter, Inside
  <2> QED  BY <1>1, <1>2, <1>3, <1>6, <2>1, <2>2, StaysMoves DEF Moves
<1>7. CASE e \notin onDisk
  BY <1>1, <1>2, <1>3, <1>7, FailMoves DEF Visit
<1> QED  BY <1>5, <1>6, <1>7

LEMMA ReadMoreMoves ==
    ASSUME TypeInv, NEW p \in Process, ReadMore(p)
    PROVE  /\ Walks(p) /\ scan[p] # <<>> /\ onDisk' = onDisk /\ made' = made
           /\ TopOf(scan[p]).todo = {} /\ Kids(TopOf(scan[p]).dir) \cap onDisk # {}
           /\ Moves(p, at[p], Retop(scan[p], Kids(TopOf(scan[p]).dir) \cap onDisk))
<1>1. scan[p] # <<>>  BY DEF ReadMore
<1>2. Walks(p) /\ Top(p) = TopOf(scan[p])  BY <1>1, StackWalks
<1>3. scan' = [scan EXCEPT ![p] = Retop(scan[p], Kids(TopOf(scan[p]).dir) \cap onDisk)]
  BY <1>2 DEF ReadMore, Retop, Inside, TypeInv
<1> QED  BY <1>1, <1>2, <1>3, StaysMoves DEF ReadMore, Inside, Moves

LEMMA RemoveDirMoves ==
    ASSUME TypeInv, NEW p \in Process, RemoveDir(p)
    PROVE  /\ Walks(p) /\ scan[p] # <<>> /\ made' = made /\ TopOf(scan[p]).todo = {}
           /\ \/ /\ Kids(TopOf(scan[p]).dir) \cap onDisk = {} /\ TopOf(scan[p]).dir \in onDisk
                 /\ onDisk' = onDisk \ {TopOf(scan[p]).dir}
                 /\ \/ Len(scan[p]) = 1 /\ Moves(p, AfterTree(at[p]), <<>>)
                    \/ Len(scan[p]) > 1 /\ Moves(p, at[p], Front(scan[p]))
              \/ /\ \/ Kids(TopOf(scan[p]).dir) \cap onDisk # {}
                    \/ TopOf(scan[p]).dir \notin onDisk
                 /\ onDisk' = onDisk /\ Moves(p, AfterTree(at[p]), <<>>)
<1>1. scan[p] # <<>>  BY DEF RemoveDir
<1>2. Walks(p) /\ Top(p) = TopOf(scan[p]) /\ TopOf(scan[p]).todo = {}
  BY <1>1, StackWalks DEF RemoveDir
<1>3. CASE Kids(TopOf(scan[p]).dir) \cap onDisk = {} /\ TopOf(scan[p]).dir \in onDisk
  <2>1. /\ onDisk' = onDisk \ {TopOf(scan[p]).dir} /\ made' = made
        /\ \/ Len(scan[p]) = 1 /\ NextTree(p, TRUE)
           \/ /\ Len(scan[p]) > 1 /\ scan' = [scan EXCEPT ![p] = Front(scan[p])] /\ UNCHANGED at
    BY <1>2, <1>3 DEF RemoveDir, Inside, TypeInv
  <2>2. CASE Len(scan[p]) = 1 /\ NextTree(p, TRUE)
    <3>1. Moves(p, AfterTree(at[p]), <<>>)  BY <2>2, NextTreeMoves
    <3> QED  BY <1>1, <1>2, <1>3, <2>1, <2>2, <3>1
  <2>3. CASE Len(scan[p]) > 1 /\ scan' = [scan EXCEPT ![p] = Front(scan[p])] /\ UNCHANGED at
    <3>1. Moves(p, at[p], Front(scan[p]))  BY <2>3, StaysMoves DEF Moves
    <3> QED  BY <1>1, <1>2, <1>3, <2>1, <2>3, <3>1
  <2> QED  BY <2>1, <2>2, <2>3
<1>4. CASE Kids(TopOf(scan[p]).dir) \cap onDisk # {} \/ TopOf(scan[p]).dir \notin onDisk
  <2>1. Fail(p)  BY <1>2, <1>4 DEF RemoveDir, Inside
  <2> QED  BY <1>1, <1>2, <1>4, <2>1, FailMoves
<1> QED  BY <1>3, <1>4

-----------------------------------------------------------------------------
(* Every step preserves TypeInv. *)

LEMMA AfterTreePlace == \A a \in Place : AfterTree(a) \in Place
BY DEF AfterTree, Place

LEMMA LeavingTypeInv ==
    ASSUME TypeInv, NEW p \in Process, Moves(p, AfterTree(at[p]), <<>>), made' = made,
           onDisk' \in SUBSET Entry, Closed(onDisk')
    PROVE  TypeInv'
<1>1. at[p] \in Place  BY DEF TypeInv
<1>2. AfterTree(at[p]) \in Place  BY <1>1, AfterTreePlace
<1>3. <<>> \in Seq(Frame) /\ Shape(<<>>, RootAt(AfterTree(at[p])))  BY EmptyStack
<1>4. made' \in [Process -> Nat]  BY DEF TypeInv
<1> QED  BY <1>2, <1>3, <1>4, MovesTypeInv

(* A file has nothing in it, nor has a directory that rmdir removes. *)
LEMMA RemovalCloses ==
    ASSUME NEW disk \in SUBSET Entry, Closed(disk), NEW d \in Entry,
           d \notin Dir \/ Kids(d) \cap disk = {}
    PROVE  Closed(disk \ {d})
<1> SUFFICES ASSUME NEW e \in disk \ {d}, Parent[e] = d PROVE FALSE
  BY DEF Closed
<1>1. d \in Dir  OBVIOUS
<1>2. e \notin {Groups, Users}  OBVIOUS
<1>3. e \in Kids(d)  BY <1>2 DEF Kids
<1> QED  BY <1>1, <1>3

LEMMA CreateType ==
    ASSUME TypeInv, NEW p \in Process, Create(p)
    PROVE  TypeInv'
<1>1. Creates[p] \in Seq(Entry \ {Groups, Users})  BY ProcessAssumption
<1>2. Creates[p][made[p] + 1] \in Entry  BY <1>1, CreateMoves
<1>3. onDisk' \in SUBSET Entry /\ Closed(onDisk')
  <2>1. onDisk \in SUBSET Entry /\ Closed(onDisk)  BY DEF TypeInv
  <2>2. \/ onDisk' = onDisk
        \/ /\ onDisk' = onDisk \cup {Creates[p][made[p] + 1]}
           /\ Parent[Creates[p][made[p] + 1]] \in onDisk
    BY CreateMoves
  <2> QED  BY <1>2, <2>1, <2>2 DEF Closed
<1>4. made' \in [Process -> Nat]  BY CreateMoves DEF TypeInv
<1>5. Moves(p, at[p], scan[p])  BY CreateMoves
<1> QED  BY <1>3, <1>4, <1>5, StaysMoves, MovesTypeInv

LEMMA FinishHandleType ==
    ASSUME TypeInv, NEW p \in Process, Finish(p) \/ Handle(p)
    PROVE  TypeInv'
<1>1. PICK a \in {"gone", "GROUPS"} : at' = [at EXCEPT ![p] = a]  BY DEF Finish, Handle
<1>2. /\ at[p] = "running" /\ UNCHANGED <<onDisk, scan, made>> /\ scan[p] = <<>>
  BY DEF Finish, Handle, TypeInv
<1>3. Moves(p, a, <<>>)  BY <1>1, <1>2, StaysMoves DEF Moves
<1>4. <<>> \in Seq(Frame) /\ Shape(<<>>, RootAt(a)) /\ a \in Place
  BY EmptyStack DEF Place
<1>5. onDisk' \in SUBSET Entry /\ Closed(onDisk') /\ made' \in [Process -> Nat]
  BY <1>2, StaysMoves
<1> QED  BY <1>3, <1>4, <1>5, MovesTypeInv

LEMMA EnterRootType ==
    ASSUME TypeInv, NEW p \in Process, EnterRoot(p)
    PROVE  TypeInv'
<1> DEFINE r == RootAt(at[p])
           f == [dir |-> r, todo |-> Kids(r) \cap onDisk]
<1>1. r \in Dir /\ TreeOf[r] = r /\ f \in Frame /\ f.dir = r /\ f.todo \subseteq Kids(r)
  BY DEF RootAt, Frame, Kids
<1> HIDE DEF f
<1>2. <<f>> \in Seq(Frame) /\ DOMAIN <<f>> = {1} /\ <<f>>[1] = f  BY <1>1
<1>3. Shape(<<f>>, r)  BY <1>1, <1>2 DEF Shape
<1>4. /\ at[p] \in Place /\ at[p] \notin {"running", "gone"} /\ made' = made
      /\ onDisk' \in SUBSET Entry /\ Closed(onDisk') /\ made' \in [Process -> Nat]
  <2>1. Walks(p) /\ onDisk' = onDisk /\ made' = made  BY EnterRootMoves
  <2> QED  BY <2>1, StaysMoves DEF Walks
<1>5. CASE Moves(p, at[p], <<f>>)
  <2> HIDE DEF r
  <2> QED  BY <1>2, <1>3, <1>4, <1>5, MovesTypeInv DEF r
<1>6. CASE Moves(p, AfterTree(at[p]), <<>>)
  BY <1>4, <1>6, LeavingTypeInv
<1> QED  BY <1>5, <1>6, EnterRootMoves DEF f

LEMMA TopTyped ==
    ASSUME TypeInv, NEW p \in Process, scan[p] # <<>>
    PROVE  /\ TopOf(scan[p]).dir \in Dir /\ TopOf(scan[p]).todo \in SUBSET Entry
           /\ TopOf(scan[p]).todo \subseteq Kids(TopOf(scan[p]).dir)
           /\ TreeOf[TopOf(scan[p]).dir] = RootAt(at[p])
<1>1. scan[p] \in Seq(Frame) /\ Shape(scan[p], RootAt(at[p]))  BY DEF TypeInv
<1>2. Len(scan[p]) \in DOMAIN scan[p]  BY <1>1, TopFacts
<1> QED  BY <1>1, <1>2, FrameFacts DEF Shape, TopOf

LEMMA VisitType ==
    ASSUME TypeInv, NEW p \in Process, NEW e \in Entry, Visit(p, e)
    PROVE  TypeInv'
<1> DEFINE s == scan[p]
           T == TopOf(s).todo \ {e}
<1>1. /\ Walks(p) /\ s # <<>> /\ made' = made
      /\ e \in TopOf(s).todo /\ \A f \in TopOf(s).todo : Rank[e] <= Rank[f]
  BY VisitMoves
<1>2. /\ s \in Seq(Frame) /\ Shape(s, RootAt(at[p])) /\ at[p] \in Place
      /\ at[p] \notin {"running", "gone"}
      /\ onDisk \in SUBSET Entry /\ Closed(onDisk) /\ made \in [Process -> Nat]
  BY <1>1, StaysMoves DEF Walks
<1>3. T \in SUBSET Entry /\ T \subseteq Kids(TopOf(s).dir)  BY <1>1, TopTyped
<1>4. CASE e \notin Dir /\ onDisk' = onDisk \ {e} /\ Moves(p, at[p], Retop(s, T))
  <2>1. Retop(s, T) \in Seq(Frame) /\ Shape(Retop(s, T), RootAt(at[p]))
    <3> HIDE DEF T
    <3> QED  BY <1>1, <1>2, <1>3, RetopFacts, RetopKeeps
  <2>2. Closed(onDisk')  BY <1>2, <1>4, RemovalCloses
  <2> HIDE DEF T
  <2> QED  BY <1>1, <1>2, <1>4, <2>1, <2>2, MovesTypeInv
<1>5. CASE e \in Dir /\ onDisk' = onDisk /\ Moves(p, at[p], Enter(s, e, Kids(e) \cap onDisk))
  <2> DEFINE K == Kids(e) \cap onDisk
  <2>1. K \in SUBSET Entry  BY DEF Kids
  <2>2. Enter(s, e, K) \in Seq(Frame) /\ Shape(Enter(s, e, K), RootAt(at[p]))
    <3>1. K = Kids(e) \cap onDisk  OBVIOUS
    <3> HIDE DEF K, s
    <3> QED  BY <1>1, <1>2, <1>5, <2>1, <3>1, EnterKeeps
  <2> QED  BY <1>1, <1>2, <1>5, <2>2, MovesTypeInv
<1>6. CASE onDisk' = onDisk /\ Moves(p, AfterTree(at[p]), <<>>)
  BY <1>1, <1>2, <1>6, LeavingTypeInv
<1> QED  BY <1>4, <1>5, <1>6, VisitMoves

LEMMA ReadMoreType ==
    ASSUME TypeInv, NEW p \in Process, ReadMore(p)
    PROVE  TypeInv'
<1> DEFINE s == scan[p]
           T == Kids(TopOf(s).dir) \cap onDisk
<1>1. /\ Walks(p) /\ s # <<>> /\ made' = made /\ onDisk' = onDisk /\ Moves(p, at[p], Retop(s, T))
  BY ReadMoreMoves
<1>2. /\ s \in Seq(Frame) /\ Shape(s, RootAt(at[p])) /\ at[p] \in Place
      /\ at[p] \notin {"running", "gone"}
      /\ onDisk \in SUBSET Entry /\ Closed(onDisk) /\ made \in [Process -> Nat]
  BY <1>1, StaysMoves DEF Walks
<1>3. T \in SUBSET Entry /\ T \subseteq Kids(TopOf(s).dir)  BY DEF Kids
<1>4. Retop(s, T) \in Seq(Frame) /\ Shape(Retop(s, T), RootAt(at[p]))
  <2> HIDE DEF T
  <2> QED  BY <1>1, <1>2, <1>3, RetopFacts, RetopKeeps
<1> HIDE DEF T
<1> QED  BY <1>1, <1>2, <1>4, MovesTypeInv

LEMMA RemoveDirType ==
    ASSUME TypeInv, NEW p \in Process, RemoveDir(p)
    PROVE  TypeInv'
<1> DEFINE s == scan[p]
           d == TopOf(s).dir
<1>1. Walks(p) /\ s # <<>> /\ made' = made  BY RemoveDirMoves
<1>2. /\ s \in Seq(Frame) /\ Shape(s, RootAt(at[p])) /\ at[p] \in Place
      /\ at[p] \notin {"running", "gone"}
      /\ onDisk \in SUBSET Entry /\ Closed(onDisk) /\ made \in [Process -> Nat]
  BY <1>1, StaysMoves DEF Walks
<1>3. onDisk' \in SUBSET Entry /\ Closed(onDisk')
  <2>1. d \in Dir  BY <1>1, TopTyped
  <2>2. CASE Kids(d) \cap onDisk = {} /\ onDisk' = onDisk \ {d}  BY <1>2, <2>1, <2>2, RemovalCloses
  <2>3. CASE onDisk' = onDisk  BY <1>2, <2>3
  <2> QED  BY <2>2, <2>3, RemoveDirMoves
<1>4. CASE Moves(p, AfterTree(at[p]), <<>>)  BY <1>1, <1>3, <1>4, LeavingTypeInv
<1>5. CASE Len(s) > 1 /\ Moves(p, at[p], Front(s))
  <2>1. Front(s) \in Seq(Frame) /\ Shape(Front(s), RootAt(at[p]))  BY <1>2, <1>5, PopFacts, PopKeeps
  <2> QED  BY <1>1, <1>2, <1>3, <1>5, <2>1, MovesTypeInv
<1> QED  BY <1>4, <1>5, RemoveDirMoves

LEMMA InitTypeInv == Init => TypeInv
<1> SUFFICES ASSUME Init PROVE TypeInv
  OBVIOUS
<1>1. PICK posting \in SUBSET Process :
        /\ made = [p \in Process |-> IF p \in posting THEN 0 ELSE Len(Creates[p])]
        /\ onDisk = Stored \cup UNION {ToSet(Creates[p]) : p \in Process \ posting}
  BY DEF Init
<1>2. \A p \in Process : Creates[p] \in Seq(Entry \ {Groups, Users})  BY ProcessAssumption
<1>3. made \in [Process -> Nat]
  <2>1. \A p \in Process : Len(Creates[p]) \in Nat  BY <1>2
  <2> QED  BY <1>1, <2>1
<1>4. \A p \in Process \ posting : \A i \in DOMAIN Creates[p] :
        Creates[p][i] \in onDisk /\ Creates[p][i] \in Entry
  BY <1>1, <1>2 DEF ToSet
<1>5. \A e \in onDisk :
        \/ e \in Stored
        \/ \E p \in Process \ posting : \E i \in DOMAIN Creates[p] : e = Creates[p][i]
  BY <1>1 DEF ToSet
<1>6. onDisk \in SUBSET Entry  BY <1>4, <1>5
<1>7. Closed(onDisk)
  <2> SUFFICES ASSUME NEW e \in onDisk PROVE Parent[e] \in onDisk
    BY DEF Closed
  <2>1. CASE e \in Stored  BY <1>1, <2>1
  <2>2. ASSUME NEW p \in Process \ posting, NEW i \in DOMAIN Creates[p], e = Creates[p][i]
        PROVE  Parent[e] \in onDisk
    <3>1. Parent[e] \in Stored \cup {Creates[p][j] : j \in 1 .. (i - 1)}
      BY <2>2, ProcessAssumption
    <3>2. \A j \in 1 .. (i - 1) : j \in DOMAIN Creates[p]  BY <1>2
    <3> QED  BY <1>1, <1>4, <3>1, <3>2
  <2> QED  BY <1>5, <2>1, <2>2
<1>8. /\ at \in [Process -> Place] /\ scan \in [Process -> Seq(Frame)]
      /\ \A p \in Process : scan[p] = <<>>
  BY EmptyStack DEF Init, Place
<1>9. \A p \in Process : Shape(scan[p], RootAt(at[p]))
  <2> TAKE p \in Process
  <2>1. Shape(<<>>, RootAt(at[p]))  BY EmptyStack
  <2> QED  BY <1>8, <2>1
<1> QED  BY <1>3, <1>6, <1>7, <1>8, <1>9 DEF TypeInv

LEMMA TypeStep == TypeInv /\ [Next]_vars => TypeInv'
<1> SUFFICES ASSUME TypeInv, [Next]_vars PROVE TypeInv'
  OBVIOUS
<1>1. CASE UNCHANGED vars  BY <1>1 DEF vars, TypeInv, Shape, Closed, RootAt
<1>2. ASSUME NEW p \in Process, Create(p) \/ Finish(p) \/ Handle(p) \/ Delete(p) PROVE TypeInv'
  BY <1>2, CreateType, FinishHandleType, EnterRootType, VisitType, ReadMoreType, RemoveDirType
     DEF Delete
<1> QED  BY <1>1, <1>2 DEF Next

(* Every entry on disk is in a directory on disk, and the stack of each       *)
(* process begins at the root of its tree, whatever the other processes       *)
(* delete and create on its way.                                              *)
THEOREM ShutdownTypeCorrect == Spec => []TypeOK
<1>1. Spec => []TypeInv  BY InitTypeInv, TypeStep, PTL DEF Spec
<1> QED  BY <1>1, TypeInvImpliesTypeOK, PTL

-----------------------------------------------------------------------------
(* A tree in which nobody creates anything. *)

PlaceOf(R) == IF R = Groups THEN "GROUPS" ELSE "USERS"

Quiet(R) ==
    \A p \in Process : \A i \in DOMAIN Creates[p] : i > made[p] => TreeOf[Creates[p][i]] # R

NotYet(R) == at[Main] = "running" \/ (R = Users /\ at[Main] = "GROUPS")

WalkInv(R) == \A p \in Process : at[p] = PlaceOf(R) => Complete(scan[p], onDisk) /\ Behind(scan[p], onDisk)

LeadInv(R) ==
    R \in onDisk => NotYet(R) \/ \E p \in Process : at[p] = PlaceOf(R) /\ Fresh(scan[p], onDisk)

TreeInv(R) == Quiet(R) /\ WalkInv(R) /\ LeadInv(R)

LEMMA PlaceFacts ==
    ASSUME NEW R \in {Groups, Users}
    PROVE  /\ PlaceOf(R) \in {"GROUPS", "USERS"} /\ RootAt(PlaceOf(R)) = R /\ TreeOf[R] = R
           /\ R \in Entry
           /\ \A a \in {"GROUPS", "USERS"} : a = PlaceOf(R) <=> RootAt(a) = R
BY DEF PlaceOf, RootAt

LEMMA QuietStays ==
    ASSUME NEW R, Quiet(R), made' \in [Process -> Nat], made \in [Process -> Nat],
           \A p \in Process : made'[p] >= made[p]
    PROVE  Quiet(R)'
<1> SUFFICES ASSUME NEW p \in Process, NEW i \in DOMAIN Creates[p], i > made'[p]
             PROVE  TreeOf[Creates[p][i]] # R
  BY DEF Quiet
<1>1. Creates[p] \in Seq(Entry \ {Groups, Users})  BY ProcessAssumption
<1>2. i \in Nat  BY <1>1
<1>3. i > made[p]
  <2>1. made[p] \in Nat /\ made'[p] \in Nat /\ made'[p] >= made[p]  OBVIOUS
  <2> QED  BY <1>2, <2>1
<1> QED  BY <1>3 DEF Quiet

(* The walks of all processes, after one of them has moved. *)
LEMMA MovesWalkInv ==
    ASSUME TypeInv, NEW R \in {Groups, Users}, WalkInv(R), NEW p \in Process, NEW a, NEW s,
           Moves(p, a, s), Shrinks(R, onDisk, onDisk'),
           a = PlaceOf(R) => Complete(s, onDisk') /\ Behind(s, onDisk')
    PROVE  WalkInv(R)'
<1>1. /\ at'[p] = a /\ scan'[p] = s
      /\ \A q \in Process : q # p => at'[q] = at[q] /\ scan'[q] = scan[q]
  BY DEF TypeInv, Moves
<1> SUFFICES ASSUME NEW q \in Process, at'[q] = PlaceOf(R)
             PROVE  Complete(scan'[q], onDisk') /\ Behind(scan'[q], onDisk')
  BY DEF WalkInv, Complete, Behind, PlaceOf
<1>2. CASE q = p  BY <1>1, <1>2
<1>3. CASE q # p
  <2>1. at[q] = PlaceOf(R) /\ scan'[q] = scan[q]  BY <1>1, <1>3
  <2>2. /\ scan[q] \in Seq(Frame) /\ Shape(scan[q], R)
        /\ Complete(scan[q], onDisk) /\ Behind(scan[q], onDisk)
    BY <2>1, PlaceFacts DEF TypeInv, WalkInv
  <2> QED  BY <2>1, <2>2, CompleteStays, BehindStays
<1> QED  BY <1>2, <1>3

(* Who finds the rest leads. *)
LEMMA MovesAhead ==
    ASSUME TypeInv, NEW R, NEW p \in Process, NEW a, NEW s,
           Moves(p, a, s), a = PlaceOf(R), Fresh(s, onDisk')
    PROVE  LeadInv(R)'
<1>1. at'[p] = a /\ scan'[p] = s  BY DEF TypeInv, Moves
<1> QED  BY <1>1 DEF LeadInv, Fresh, PlaceOf

(* A step that removes nothing from the tree leaves the leader where it is,   *)
(* if it is not one of the leader itself.                                     *)
LEMMA MovesElsewhere ==
    ASSUME TypeInv, NEW R \in {Groups, Users}, LeadInv(R), NEW p \in Process, NEW a, NEW s,
           Moves(p, a, s), Shrinks(R, onDisk, onDisk'),
           \A e \in onDisk : TreeOf[e] = R => e \in onDisk',
           \/ a = at[p] /\ s = scan[p]
           \/ ~(at[p] = PlaceOf(R) /\ Fresh(scan[p], onDisk)),
           NotYet(R) => NotYet(R)'
    PROVE  LeadInv(R)'
<1>1. /\ at'[p] = a /\ scan'[p] = s
      /\ \A q \in Process : q # p => at'[q] = at[q] /\ scan'[q] = scan[q]
  BY DEF TypeInv, Moves
<1> SUFFICES ASSUME R \in onDisk', ~NotYet(R)'
             PROVE  \E q \in Process : at'[q] = PlaceOf(R) /\ Fresh(scan'[q], onDisk')
  BY DEF LeadInv, Fresh, PlaceOf
<1>2. R \in onDisk /\ ~NotYet(R)  BY PlaceFacts DEF Shrinks
<1>3. PICK q \in Process : at[q] = PlaceOf(R) /\ Fresh(scan[q], onDisk)
  BY <1>2 DEF LeadInv
<1>4. at'[q] = at[q] /\ scan'[q] = scan[q]  BY <1>1, <1>3
<1>5. scan[q] \in Seq(Frame) /\ Shape(scan[q], R)  BY <1>3, PlaceFacts DEF TypeInv
<1>6. Fresh(scan[q], onDisk')  BY <1>3, <1>5, FreshStays
<1> QED  BY <1>3, <1>4, <1>6

(* Who leaves the tree it could not remove did not lead. *)
LEMMA LeavingLeads ==
    ASSUME TypeInv, NEW R \in {Groups, Users}, LeadInv(R), NEW p \in Process, Walks(p),
           Moves(p, AfterTree(at[p]), <<>>), Shrinks(R, onDisk, onDisk'),
           \A e \in onDisk : TreeOf[e] = R => e \in onDisk',
           at[p] = PlaceOf(R) => ~Fresh(scan[p], onDisk)
    PROVE  LeadInv(R)'
<1>1. CASE AfterTree(at[p]) = PlaceOf(R)  BY <1>1, EmptyStack, MovesAhead
<1>2. CASE AfterTree(at[p]) # PlaceOf(R)
  <2>1. \/ at[p] = "GROUPS" /\ R = Groups
        \/ at[p] = "USERS"
    BY <1>2 DEF Walks, AfterTree, PlaceOf
  <2>2. NotYet(R) => NotYet(R)'
    <3> SUFFICES ASSUME NotYet(R) PROVE NotYet(R)'
      OBVIOUS
    <3>1. p # Main  BY <2>1 DEF NotYet
    <3>2. at'[Main] = at[Main]  BY <3>1, ProcessAssumption DEF Moves, TypeInv
    <3> QED  BY <3>2 DEF NotYet
  <2>3. ~(at[p] = PlaceOf(R) /\ Fresh(scan[p], onDisk))  OBVIOUS
  <2> QED  BY <2>2, <2>3, MovesElsewhere
<1> QED  BY <1>1, <1>2

-----------------------------------------------------------------------------
(* Every step preserves TreeInv. *)

LEMMA CreateTree ==
    ASSUME TypeInv, NEW R \in {Groups, Users}, TreeInv(R), NEW p \in Process, Create(p)
    PROVE  TreeInv(R)'
<1>1. made[p] \in Nat /\ made \in [Process -> Nat]  BY DEF TypeInv
<1>2. /\ at[p] = "running" /\ Moves(p, at[p], scan[p])
      /\ made[p] + 1 \in DOMAIN Creates[p]
      /\ made' = [made EXCEPT ![p] = made[p] + 1]
      /\ \/ onDisk' = onDisk
         \/ onDisk' = onDisk \cup {Creates[p][made[p] + 1]}
  BY CreateMoves
<1>3. TreeOf[Creates[p][made[p] + 1]] # R
  <2>1. made[p] + 1 > made[p]  BY <1>1
  <2> QED  BY <1>2, <2>1 DEF TreeInv, Quiet
<1>4. Shrinks(R, onDisk, onDisk') /\ onDisk \subseteq onDisk'
  <2> DEFINE e == Creates[p][made[p] + 1]
  <2>1. CASE onDisk' = onDisk  BY <2>1, UnchangedShrinks
  <2>2. CASE onDisk' = onDisk \cup {e}
    <3>1. TreeOf[e] # R  BY <1>3
    <3> HIDE DEF e
    <3> QED  BY <2>2, <3>1, ElsewhereShrinks
  <2> QED  BY <1>2, <2>1, <2>2
<1>5. at[p] # PlaceOf(R)  BY <1>2, PlaceFacts
<1>6. WalkInv(R)'  BY <1>2, <1>4, <1>5, MovesWalkInv DEF TreeInv
<1>7. NotYet(R) => NotYet(R)'
  <2>1. at' = at  BY <1>2, StaysMoves DEF Moves
  <2> QED  BY <2>1 DEF NotYet
<1>8. LeadInv(R)'  BY <1>2, <1>4, <1>5, <1>7, MovesElsewhere DEF TreeInv
<1>9. Quiet(R)'
  <2>1. made' \in [Process -> Nat] /\ \A q \in Process : made'[q] >= made[q]  BY <1>1, <1>2
  <2> QED  BY <1>1, <2>1, QuietStays DEF TreeInv
<1> QED  BY <1>6, <1>8, <1>9 DEF TreeInv

LEMMA StillQuiet ==
    ASSUME TypeInv, NEW R, TreeInv(R), made' = made
    PROVE  Quiet(R)'
<1>1. made \in [Process -> Nat]  BY DEF TypeInv
<1>2. \A q \in Process : made'[q] >= made[q]  BY <1>1
<1> QED  BY <1>1, <1>2, QuietStays DEF TreeInv

(* The main process comes to GROUPS from its loop, with an empty stack. *)
LEMMA FinishHandleTree ==
    ASSUME TypeInv, NEW R \in {Groups, Users}, TreeInv(R), NEW p \in Process, Finish(p) \/ Handle(p)
    PROVE  TreeInv(R)'
<1>1. at[p] = "running" /\ scan[p] = <<>> /\ UNCHANGED <<onDisk, scan, made>>
  BY DEF Finish, Handle, TypeInv
<1>2. Quiet(R)'  BY <1>1, StillQuiet
<1>3. Shrinks(R, onDisk, onDisk')  BY <1>1, UnchangedShrinks
<1>4. PICK a \in {"gone", "GROUPS"} : Moves(p, a, <<>>) /\ (a = "gone" => p # Main)
  BY <1>1, StaysMoves DEF Finish, Handle, Moves
<1>5. WalkInv(R)'  BY <1>3, <1>4, EmptyStack, MovesWalkInv DEF TreeInv
<1>6. LeadInv(R)'
  <2>1. CASE a = PlaceOf(R)  BY <1>4, <2>1, EmptyStack, MovesAhead
  <2>2. CASE a # PlaceOf(R)
    <3>1. at'[Main] = IF p = Main THEN a ELSE at[Main]
      BY <1>4, ProcessAssumption DEF Moves, TypeInv
    <3>2. NotYet(R) => NotYet(R)'
      BY <1>4, <2>2, <3>1 DEF NotYet, PlaceOf
    <3>3. at[p] # PlaceOf(R)  BY <1>1, PlaceFacts
    <3> QED  BY <1>1, <1>3, <1>4, <3>2, <3>3, MovesElsewhere DEF TreeInv
  <2> QED  BY <2>1, <2>2
<1> QED  BY <1>2, <1>5, <1>6 DEF TreeInv

(* A process of this tree, and its stack. *)
LEMMA Walker ==
    ASSUME TypeInv, NEW R \in {Groups, Users}, TreeInv(R), NEW p \in Process, Walks(p)
    PROVE  /\ scan[p] \in Seq(Frame) /\ Shape(scan[p], RootAt(at[p]))
           /\ onDisk \in SUBSET Entry /\ Closed(onDisk)
           /\ at[p] = PlaceOf(R) => /\ RootAt(at[p]) = R
                                    /\ Complete(scan[p], onDisk) /\ Behind(scan[p], onDisk)
           /\ at[p] # PlaceOf(R) => RootAt(at[p]) # R
BY PlaceFacts DEF TypeInv, TreeInv, WalkInv, Walks

(* The end of a walk that removes nothing. *)
LEMMA LeavingTree ==
    ASSUME TypeInv, NEW R \in {Groups, Users}, TreeInv(R), NEW p \in Process, Walks(p),
           Moves(p, AfterTree(at[p]), <<>>), onDisk' = onDisk, made' = made,
           at[p] = PlaceOf(R) => ~Fresh(scan[p], onDisk)
    PROVE  TreeInv(R)'
<1>1. Shrinks(R, onDisk, onDisk')  BY UnchangedShrinks
<1>2. Quiet(R)'  BY StillQuiet
<1>3. WalkInv(R)'  BY <1>1, EmptyStack, MovesWalkInv DEF TreeInv
<1>4. LeadInv(R)'  BY <1>1, LeavingLeads DEF TreeInv
<1> QED  BY <1>2, <1>3, <1>4 DEF TreeInv

(* A step within another tree. *)
LEMMA OtherTree ==
    ASSUME TypeInv, NEW R \in {Groups, Users}, TreeInv(R), NEW p \in Process, NEW s,
           Moves(p, at[p], s), made' = made, at[p] # PlaceOf(R),
           Shrinks(R, onDisk, onDisk'), \A e \in onDisk : TreeOf[e] = R => e \in onDisk'
    PROVE  TreeInv(R)'
<1>1. Quiet(R)'  BY StillQuiet
<1>2. WalkInv(R)'  BY MovesWalkInv DEF TreeInv
<1>3. at' = at  BY StaysMoves DEF Moves
<1>4. NotYet(R) => NotYet(R)'  BY <1>3 DEF NotYet
<1>5. LeadInv(R)'  BY <1>4, MovesElsewhere DEF TreeInv
<1> QED  BY <1>1, <1>2, <1>5 DEF TreeInv

LEMMA EnterRootTree ==
    ASSUME TypeInv, NEW R \in {Groups, Users}, TreeInv(R), NEW p \in Process, EnterRoot(p)
    PROVE  TreeInv(R)'
<1> DEFINE r == RootAt(at[p])
           f == [dir |-> r, todo |-> Kids(r) \cap onDisk]
<1>1. /\ Walks(p) /\ scan[p] = <<>> /\ onDisk' = onDisk /\ made' = made
      /\ \/ r \in onDisk /\ Moves(p, at[p], <<f>>)
         \/ r \notin onDisk /\ Moves(p, AfterTree(at[p]), <<>>)
  BY EnterRootMoves
<1>2. Shrinks(R, onDisk, onDisk')  BY <1>1, UnchangedShrinks
<1>3. Quiet(R)'  BY <1>1, StillQuiet
<1>4. CASE at[p] # PlaceOf(R)
  <2>1. CASE Moves(p, at[p], <<f>>)
    <3>1. \A e \in onDisk : TreeOf[e] = R => e \in onDisk'  BY <1>1
    <3>2. made' = made  BY <1>1
    <3> HIDE DEF f
    <3> QED  BY <1>2, <1>4, <2>1, <3>1, <3>2, OtherTree
  <2>2. CASE Moves(p, AfterTree(at[p]), <<>>)  BY <1>1, <1>4, <2>2, LeavingTree
  <2> QED  BY <1>1, <2>1, <2>2
<1>5. CASE at[p] = PlaceOf(R)
  <2>1. r = R  BY <1>1, <1>5, Walker
  <2>2. CASE r \notin onDisk /\ Moves(p, AfterTree(at[p]), <<>>)
    <3>1. WalkInv(R)'  BY <1>2, <2>2, EmptyStack, MovesWalkInv DEF TreeInv
    <3>2. LeadInv(R)'  BY <1>1, <2>1, <2>2 DEF LeadInv
    <3> QED  BY <1>3, <3>1, <3>2 DEF TreeInv
  <2>3. CASE r \in onDisk /\ Moves(p, at[p], <<f>>)
    <3>1. f.dir = r /\ f.todo = Kids(r) \cap onDisk  OBVIOUS
    <3> HIDE DEF f
    <3>2. DOMAIN <<f>> = {1} /\ <<f>>[1] = f /\ Len(<<f>>) = 1  OBVIOUS
    <3>3. Complete(<<f>>, onDisk') /\ Behind(<<f>>, onDisk')
      BY <1>1, <3>1, <3>2 DEF Complete, Behind
    <3>4. Fresh(<<f>>, onDisk')  BY <1>1, <2>3, <3>1, <3>2 DEF Fresh, TopOf
    <3>5. WalkInv(R)'  BY <1>2, <2>3, <3>3, MovesWalkInv DEF TreeInv
    <3>6. LeadInv(R)'  BY <1>5, <2>3, <3>4, MovesAhead
    <3> QED  BY <1>3, <3>5, <3>6 DEF TreeInv
  <2> QED  BY <1>1, <2>2, <2>3
<1> QED  BY <1>4, <1>5

LEMMA VisitTree ==
    ASSUME TypeInv, NEW R \in {Groups, Users}, TreeInv(R), NEW p \in Process, NEW e \in Entry, Visit(p, e)
    PROVE  TreeInv(R)'
<1> DEFINE s == scan[p]
           T == TopOf(s).todo \ {e}
           K == Kids(e) \cap onDisk
<1>1. /\ Walks(p) /\ s # <<>> /\ made' = made
      /\ e \in TopOf(s).todo /\ \A f \in TopOf(s).todo : Rank[e] <= Rank[f]
  BY VisitMoves
<1>2. /\ s \in Seq(Frame) /\ Shape(s, RootAt(at[p])) /\ onDisk \in SUBSET Entry /\ Closed(onDisk)
  BY <1>1, Walker
<1>3. T \in SUBSET Entry /\ T \subseteq Kids(TopOf(s).dir) /\ TreeOf[e] = RootAt(at[p])
  <2>1. /\ TopOf(s).dir \in Dir /\ TopOf(s).todo \in SUBSET Entry
        /\ TopOf(s).todo \subseteq Kids(TopOf(s).dir) /\ TreeOf[TopOf(s).dir] = RootAt(at[p])
    BY <1>1, TopTyped
  <2> QED  BY <1>1, <2>1, KidsFacts
<1>4. Quiet(R)'  BY <1>1, StillQuiet
<1>5. K \in SUBSET Entry /\ K = Kids(e) \cap onDisk  BY DEF Kids
<1>6. CASE at[p] # PlaceOf(R)
  <2>1. TreeOf[e] # R  BY <1>1, <1>3, <1>6, Walker
  <2>2. CASE onDisk' = onDisk \ {e} /\ Moves(p, at[p], Retop(s, T))
    <3>1. Shrinks(R, onDisk, onDisk')  BY <2>1, <2>2, ElsewhereShrinks
    <3>2. \A g \in onDisk : TreeOf[g] = R => g \in onDisk'  BY <2>1, <2>2
    <3>3. PICK z : made' = made /\ Moves(p, at[p], z)  BY <1>1, <2>2
    <3> QED  BY <1>6, <3>1, <3>2, <3>3, OtherTree
  <2>3. CASE onDisk' = onDisk /\ Moves(p, at[p], Enter(s, e, K))
    <3>1. Shrinks(R, onDisk, onDisk')  BY <2>3, UnchangedShrinks
    <3>2. \A g \in onDisk : TreeOf[g] = R => g \in onDisk'  BY <2>3
    <3>3. PICK z : made' = made /\ Moves(p, at[p], z)  BY <1>1, <2>3
    <3> QED  BY <1>6, <3>1, <3>2, <3>3, OtherTree
  <2>4. CASE onDisk' = onDisk /\ Moves(p, AfterTree(at[p]), <<>>)
    BY <1>1, <1>6, <2>4, LeavingTree
  <2> QED  BY <2>2, <2>3, <2>4, VisitMoves
<1>7. CASE at[p] = PlaceOf(R)
  <2>1. Shape(s, R) /\ Complete(s, onDisk) /\ Behind(s, onDisk)  BY <1>1, <1>2, <1>7, Walker
  <2>2. CASE e \in onDisk /\ onDisk' = onDisk \ {e} /\ Moves(p, at[p], Retop(s, T))
    <3>1. Shrinks(R, onDisk, onDisk')  BY <1>1, <1>2, <2>1, <2>2, FileShrinks
    <3>2. Complete(s, onDisk') /\ Behind(s, onDisk')
      BY <1>2, <2>1, <3>1, CompleteStays, BehindStays
    <3>3. Kids(TopOf(s).dir) \cap onDisk' \subseteq T
      <4>1. Len(s) \in DOMAIN s /\ Len(s) \in Nat /\ ~(Len(s) < Len(s))  BY <1>1, <1>2, TopFacts
      <4>2. \A f \in Kids(TopOf(s).dir) \cap onDisk' : f \in TopOf(s).todo
        BY <3>2, <4>1 DEF Complete, TopOf
      <4> QED  BY <2>2, <4>2
    <3>4. Fresh(Retop(s, T), onDisk')  BY <1>1, <1>2, <2>1, <2>2, FreshAfterFile
    <3>5. T \ onDisk' \subseteq TopOf(s).todo  OBVIOUS
    <3> HIDE DEF T
    <3>6. Complete(Retop(s, T), onDisk') /\ Behind(Retop(s, T), onDisk')
      BY <1>1, <1>2, <1>3, <3>2, <3>3, <3>5, RetopKeeps
    <3>7. WalkInv(R)'  BY <2>2, <3>1, <3>6, MovesWalkInv DEF TreeInv
    <3>8. LeadInv(R)'  BY <1>7, <2>2, <3>4, MovesAhead
    <3> QED  BY <1>4, <3>7, <3>8 DEF TreeInv
  <2>3. CASE e \in onDisk /\ e \in Dir /\ onDisk' = onDisk /\ Moves(p, at[p], Enter(s, e, K))
    <3> HIDE DEF K
    <3>1. /\ Complete(Enter(s, e, K), onDisk) /\ Behind(Enter(s, e, K), onDisk)
          /\ Fresh(Enter(s, e, K), onDisk)
      BY <1>1, <1>2, <1>5, <2>1, <2>3, EnterKeeps
    <3>2. Shrinks(R, onDisk, onDisk')  BY <2>3, UnchangedShrinks
    <3>3. WalkInv(R)'  BY <2>3, <3>1, <3>2, MovesWalkInv DEF TreeInv
    <3>4. LeadInv(R)'  BY <1>7, <2>3, <3>1, MovesAhead
    <3> QED  BY <1>4, <3>3, <3>4 DEF TreeInv
  <2>4. CASE e \notin onDisk /\ onDisk' = onDisk /\ Moves(p, AfterTree(at[p]), <<>>)
    <3>1. ~Fresh(s, onDisk)  BY <1>1, <2>4 DEF Fresh
    <3> QED  BY <1>1, <2>4, <3>1, LeavingTree
  <2> QED  BY <2>2, <2>3, <2>4, VisitMoves
<1> QED  BY <1>6, <1>7

(* In a quiet tree no entries appear in a directory that has been read. *)
LEMMA ReadMoreTree ==
    ASSUME TypeInv, NEW R \in {Groups, Users}, TreeInv(R), NEW p \in Process, ReadMore(p)
    PROVE  TreeInv(R)'
<1> DEFINE s == scan[p]
           T == Kids(TopOf(s).dir) \cap onDisk
<1>1. /\ Walks(p) /\ s # <<>> /\ made' = made /\ onDisk' = onDisk /\ TopOf(s).todo = {} /\ T # {}
      /\ Moves(p, at[p], Retop(s, T))
  BY ReadMoreMoves
<1>2. at[p] # PlaceOf(R)
  <2> SUFFICES ASSUME at[p] = PlaceOf(R) PROVE FALSE
    OBVIOUS
  <2>1. s \in Seq(Frame) /\ Complete(s, onDisk)  BY <1>1, Walker
  <2> QED  BY <1>1, <2>1, FreshTop
<1>3. Shrinks(R, onDisk, onDisk')  BY <1>1, UnchangedShrinks
<1>4. \A g \in onDisk : TreeOf[g] = R => g \in onDisk'  BY <1>1
<1>5. Moves(p, at[p], Retop(s, T)) /\ made' = made  BY <1>1
<1> HIDE DEF T, s
<1> QED  BY <1>2, <1>3, <1>4, <1>5, OtherTree

LEMMA RemoveDirTree ==
    ASSUME TypeInv, NEW R \in {Groups, Users}, TreeInv(R), NEW p \in Process, RemoveDir(p)
    PROVE  TreeInv(R)'
<1> DEFINE s == scan[p]
           d == TopOf(s).dir
<1>1. Walks(p) /\ s # <<>> /\ made' = made /\ TopOf(s).todo = {}  BY RemoveDirMoves
<1>2. /\ s \in Seq(Frame) /\ Shape(s, RootAt(at[p])) /\ onDisk \in SUBSET Entry /\ Closed(onDisk)
  BY <1>1, Walker
<1>3. TreeOf[d] = RootAt(at[p])  BY <1>1, TopTyped
<1>4. Quiet(R)'  BY <1>1, StillQuiet
<1>5. CASE at[p] # PlaceOf(R)
  <2>1. TreeOf[d] # R  BY <1>1, <1>3, <1>5, Walker
  <2>2. CASE onDisk' = onDisk \ {d}
    <3>1. Shrinks(R, onDisk, onDisk') /\ \A e \in onDisk : TreeOf[e] = R => e \in onDisk'
      BY <2>1, <2>2, ElsewhereShrinks
    <3>2. CASE Moves(p, at[p], Front(s))  BY <1>1, <1>5, <3>1, <3>2, OtherTree
    <3>3. CASE Moves(p, AfterTree(at[p]), <<>>)
      <4>1. WalkInv(R)'  BY <3>1, <3>3, EmptyStack, MovesWalkInv DEF TreeInv
      <4>2. LeadInv(R)'  BY <1>1, <1>5, <3>1, <3>3, LeavingLeads DEF TreeInv
      <4> QED  BY <1>4, <4>1, <4>2 DEF TreeInv
    <3> QED  BY <2>2, <3>2, <3>3, RemoveDirMoves, <1>5, <1>1, LeavingTree
  <2>3. CASE onDisk' = onDisk /\ Moves(p, AfterTree(at[p]), <<>>)
    BY <1>1, <1>5, <2>3, LeavingTree
  <2> QED  BY <2>2, <2>3, RemoveDirMoves
<1>6. CASE at[p] = PlaceOf(R)
  <2>1. Shape(s, R) /\ Complete(s, onDisk) /\ Behind(s, onDisk) /\ RootAt(at[p]) = R
    BY <1>1, <1>2, <1>6, Walker
  <2>2. Shrinks(R, onDisk, onDisk \ {d})  BY <1>1, <1>2, <2>1, DirShrinks
  <2>3. CASE onDisk' = onDisk \ {d} /\ Len(s) = 1 /\ Moves(p, AfterTree(at[p]), <<>>)
    <3>1. d = R
      <4>1. 1 \in DOMAIN s  BY <1>1, <1>2
      <4> QED  BY <2>1, <2>3, <4>1 DEF Shape, TopOf
    <3>2. WalkInv(R)'  BY <2>2, <2>3, EmptyStack, MovesWalkInv DEF TreeInv
    <3>3. LeadInv(R)'  BY <2>3, <3>1 DEF LeadInv
    <3> QED  BY <1>4, <3>2, <3>3 DEF TreeInv
  <2>4. CASE d \in onDisk /\ onDisk' = onDisk \ {d} /\ Len(s) > 1 /\ Moves(p, at[p], Front(s))
    <3>1. Complete(s, onDisk') /\ Behind(s, onDisk') /\ d \notin onDisk'
      BY <1>2, <2>1, <2>2, <2>4, CompleteStays, BehindStays
    <3>2. Complete(Front(s), onDisk') /\ Behind(Front(s), onDisk')
      BY <1>2, <2>4, <3>1, PopKeeps
    <3>3. Fresh(Front(s), onDisk')  BY <1>2, <2>1, <2>4, FreshAfterDir
    <3>4. WalkInv(R)'  BY <2>2, <2>4, <3>2, MovesWalkInv DEF TreeInv
    <3>5. LeadInv(R)'  BY <1>6, <2>4, <3>3, MovesAhead
    <3> QED  BY <1>4, <3>4, <3>5 DEF TreeInv
  <2>5. CASE /\ Kids(d) \cap onDisk # {} \/ d \notin onDisk
             /\ onDisk' = onDisk /\ Moves(p, AfterTree(at[p]), <<>>)
    <3>1. Kids(d) \cap onDisk = {}  BY <1>1, <1>2, <2>1, FreshTop
    <3>2. ~Fresh(s, onDisk)  BY <1>1, <2>5, <3>1 DEF Fresh
    <3> QED  BY <1>1, <2>5, <3>2, LeavingTree
  <2> QED  BY <2>3, <2>4, <2>5, RemoveDirMoves
<1> QED  BY <1>5, <1>6

LEMMA TreeStep ==
    ASSUME TypeInv, NEW R \in {Groups, Users}, TreeInv(R), [Next]_vars
    PROVE  TreeInv(R)'
<1>1. CASE UNCHANGED vars
  BY <1>1 DEF vars, TreeInv, Quiet, NotYet, WalkInv, LeadInv
<1>2. CASE Next
  <2>1. PICK p \in Process : Create(p) \/ Finish(p) \/ Handle(p) \/ Delete(p)
    BY <1>2 DEF Next
  <2>2. CASE Create(p)  BY <2>2, CreateTree
  <2>3. CASE Finish(p) \/ Handle(p)  BY <2>3, FinishHandleTree
  <2>4. CASE EnterRoot(p)  BY <2>4, EnterRootTree
  <2>5. CASE ReadMore(p)  BY <2>5, ReadMoreTree
  <2>6. CASE RemoveDir(p)  BY <2>6, RemoveDirTree
  <2>7. ASSUME NEW e \in Entry, Visit(p, e) PROVE TreeInv(R)'
    BY <2>7, VisitTree
  <2> QED  BY <2>1, <2>2, <2>3, <2>4, <2>5, <2>6, <2>7 DEF Delete
<1> QED  BY <1>1, <1>2

-----------------------------------------------------------------------------
(* What holds when the signal is sent: everybody runs.                        *)

LEMMA InitTree ==
    ASSUME Init, NEW R \in {Groups, Users}, Quiet(R)
    PROVE  TreeInv(R)
<1>1. \A p \in Process : at[p] = "running"  BY DEF Init
<1>2. PlaceOf(R) # "running"  BY PlaceFacts
<1>3. WalkInv(R)  BY <1>1, <1>2 DEF WalkInv
<1>4. NotYet(R)  BY <1>1, ProcessAssumption DEF NotYet
<1> QED  BY <1>3, <1>4 DEF TreeInv, LeadInv

(* No post creates anything in USERS/, and a post that has come to its end    *)
(* creates nothing more.                                                      *)
LEMMA UsersQuiet == ASSUME TypeInv PROVE Quiet(Users)
BY ProcessAssumption DEF Quiet, TypeInv

LEMMA GroupsQuiet == ASSUME TypeInv, ~PostUnderWay PROVE Quiet(Groups)
<1> SUFFICES ASSUME NEW p \in Process, NEW i \in DOMAIN Creates[p], i > made[p] PROVE FALSE
  BY DEF Quiet
<1>1. Creates[p] \in Seq(Entry \ {Groups, Users}) /\ made[p] \in Nat
  BY ProcessAssumption DEF TypeInv
<1>2. i \in 1 .. Len(Creates[p])  BY <1>1
<1> QED  BY <1>1, <1>2 DEF PostUnderWay

(* When all are gone the main process has been through both trees, and        *)
(* nobody leads in either: its root is not on disk.                           *)
LEMMA GoneMeansRemoved ==
    ASSUME NEW R \in {Groups, Users}, TreeInv(R), AllGone
    PROVE  R \notin onDisk
<1>1. at[Main] = "gone"  BY ProcessAssumption DEF AllGone
<1>2. ~NotYet(R)  BY <1>1 DEF NotYet
<1>3. \A p \in Process : at[p] # PlaceOf(R)  BY PlaceFacts DEF AllGone
<1> QED  BY <1>2, <1>3 DEF TreeInv, LeadInv

(* UsersEmptied of Shutdown: when the last process is gone USERS/ is not on   *)
(* disk, with any number of processes that delete it and of posts under way.  *)
THEOREM UsersAreEmptied == Spec => []UsersEmptied
<1>1. Init => TypeInv /\ TreeInv(Users)
  BY InitTypeInv, InitTree, UsersQuiet
<1>2. TypeInv /\ TreeInv(Users) /\ [Next]_vars => (TypeInv /\ TreeInv(Users))'
  BY TypeStep, TreeStep
<1>3. TypeInv /\ TreeInv(Users) => UsersEmptied
  BY GoneMeansRemoved DEF UsersEmptied
<1> QED  BY <1>1, <1>2, <1>3, PTL DEF Spec

(* DeletesAll of Shutdown: when no post is under way at the signal, nothing   *)
(* at all is on disk when the last process is gone.                           *)
THEOREM EverythingIsDeleted == Spec => DeletesAll
<1> DEFINE Both == TypeInv /\ TreeInv(Groups) /\ TreeInv(Users)
<1>1. Init /\ ~PostUnderWay => Both
  BY InitTypeInv, InitTree, UsersQuiet, GroupsQuiet
<1>2. Both /\ [Next]_vars => Both'
  BY TypeStep, TreeStep
<1>3. Both => (AllGone => onDisk = {})
  <2> SUFFICES ASSUME Both, AllGone PROVE onDisk = {}
    OBVIOUS
  <2>1. Groups \notin onDisk /\ Users \notin onDisk  BY GoneMeansRemoved
  <2>2. onDisk \in SUBSET Entry /\ \A e \in onDisk : Parent[e] \in onDisk
    BY DEF TypeInv, Closed
  <2> QED  BY <2>1, <2>2, PathAssumption
<1> HIDE DEF Both
<1> QED  BY <1>1, <1>2, <1>3, PTL DEF Spec, DeletesAll
=============================================================================
