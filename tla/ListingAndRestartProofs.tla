------------------------ MODULE ListingAndRestartProofs ------------------------
(***************************************************************************)
(* What is put next to DirectoryServer, proved for any users, names and    *)
(* limits: the two listings, for any order of a directory and any size of  *)
(* the buffer, and Restart, for any number of runs.                        *)
(*                                                                         *)
(* The listings run beside the commands of the main process, so both rest  *)
(* on DirInv of DirectoryServerProofs.  The places in the list of groups   *)
(* are sums of widths, which a recursive function adds up: SetInduction    *)
(* turns the well-foundedness of the numbers into an induction that names  *)
(* a set in place of a predicate, and SumExists and SumIsNat use it to     *)
(* show that the sums are defined and are numbers.  The list of users      *)
(* needs an invariant about what the child has met: what it wrote, what it *)
(* holds in the buffer and what readdir has fetched follow each other in   *)
(* the order of the directory, and leave out nobody up to the cursor who   *)
(* was a member all the time.                                              *)
(*                                                                         *)
(* In Restart, GroupsDense and UnusedGroupsEmpty, on which                 *)
(* DirectoryServerProofs rests, do not survive; what is left of them, in   *)
(* RestartTypeOK, and NoGhostUsers are inductive without them.             *)
(***************************************************************************)
EXTENDS UserListing, GroupListing, Restart, DirectoryServerProofs, WellFoundedInduction

USE LimitsAssumption, NoFileAssumption, ListingAssumption, NameAssumption DEF Gid

-----------------------------------------------------------------------------
(* The main process and the child share the trees, and only the main process *)
(* writes to them.                                                            *)

LEMMA ListingKeepsDirInv == DirInv /\ [ListingNext]_listingVars => DirInv'
<1> SUFFICES ASSUME DirInv, [ListingNext]_listingVars PROVE DirInv'
  OBVIOUS
<1>1. CASE UNCHANGED dirVars
  BY <1>1 DEF DirInv, DirTypeOK, NoGhostUsers, GroupsDense, UnusedGroupsEmpty,
              dirVars, userVars, groupVars
<1>2. CASE UdpCommand  BY <1>2, UdpCommandStep
<1> QED
  BY <1>1, <1>2 DEF ListingNext, ulist, Child, Open, Fetch, AppendUser, LastWrite, MainStep,
                    listingVars

LEMMA ListingDirInv == ListingSpec => []DirInv
<1>1. ListingInit => DirInv  BY DirInitInv DEF ListingInit
<1> QED  BY <1>1, ListingKeepsDirInv, PTL DEF ListingSpec

-----------------------------------------------------------------------------
(* Induction over the numbers, for a set. *)

Less == OpToRel(<, Nat)

LEMMA LessIsLess ==
    ASSUME NEW m \in Nat, NEW n \in Nat
    PROVE  <<m, n>> \in Less <=> m < n
BY DEF OpToRel, Less

LEMMA LessWellFounded == IsWellFoundedOn(Less, Nat)
BY NatLessThanWellFounded DEF Less

LEMMA SetInduction ==
    ASSUME NEW S, 0 \in S, \A n \in Nat : n \in S => n + 1 \in S
    PROVE  Nat \subseteq S
<1> DEFINE T == {n \in Nat : n \notin S}
<1>1. SUFFICES ASSUME T # {} PROVE FALSE
  OBVIOUS
<1>2. PICK x \in T : \A y \in T : <<y, x>> \notin Less
  <2>1. T \subseteq Nat  OBVIOUS
  <2> HIDE DEF T
  <2> QED  BY <1>1, <2>1, LessWellFounded, WFMin
<1>3. x \in Nat /\ x # 0 /\ x - 1 \in Nat  OBVIOUS
<1>4. <<x - 1, x>> \in Less  BY <1>3, LessIsLess
<1>5. x - 1 \in S  BY <1>2, <1>3, <1>4
<1>6. (x - 1) + 1 \in S  BY <1>3, <1>5
<1> QED  BY <1>6

-----------------------------------------------------------------------------
(* The sums of widths. *)

IsSum(h, d, n) == h = [i \in 0 .. n |-> IF i = 0 THEN 0 ELSE h[i - 1] + d[i]]

LEMMA SumExists ==
    ASSUME NEW d, NEW n \in Nat
    PROVE  \E h : IsSum(h, d, n)
<1> DEFINE S == {m \in Nat : \E h : IsSum(h, d, m)}
<1>1. 0 \in S
  <2> DEFINE h == [i \in 0 .. 0 |-> 0]
  <2>1. IsSum(h, d, 0)  BY DEF IsSum
  <2> QED  BY <2>1
<1>2. ASSUME NEW m \in Nat, m \in S PROVE m + 1 \in S
  <2>1. PICK h : IsSum(h, d, m)  BY <1>2
  <2> DEFINE k == [i \in 0 .. (m + 1) |-> IF i = m + 1 THEN h[m] + d[i] ELSE h[i]]
  <2>2. \A i \in 0 .. m : k[i] = h[i]  OBVIOUS
  <2>3. \A i \in 0 .. m : h[i] = IF i = 0 THEN 0 ELSE h[i - 1] + d[i]  BY <2>1 DEF IsSum
  <2>4. \A i \in 0 .. (m + 1) : k[i] = IF i = 0 THEN 0 ELSE k[i - 1] + d[i]
    <3>1. k[m + 1] = h[m] + d[m + 1] /\ k[m] = h[m]  OBVIOUS
    <3> HIDE DEF k
    <3>2. ASSUME NEW i \in 0 .. m PROVE k[i] = IF i = 0 THEN 0 ELSE k[i - 1] + d[i]
      <4>1. i # 0 => i - 1 \in 0 .. m  OBVIOUS
      <4> QED  BY <2>2, <2>3, <4>1
    <3>3. k[m + 1] = IF m + 1 = 0 THEN 0 ELSE k[(m + 1) - 1] + d[m + 1]
      <4>1. m + 1 # 0 /\ (m + 1) - 1 = m  OBVIOUS
      <4> QED  BY <3>1, <4>1
    <3>4. \A i \in 0 .. (m + 1) : i \in 0 .. m \/ i = m + 1  OBVIOUS
    <3> QED  BY <3>2, <3>3, <3>4
  <2>5. IsSum(k, d, m + 1)
    <3>1. k = [i \in 0 .. (m + 1) |-> k[i]]  OBVIOUS
    <3> HIDE DEF k
    <3> QED  BY <2>4, <3>1 DEF IsSum
  <2> QED  BY <2>5
<1>3. Nat \subseteq S
  <2> HIDE DEF S
  <2> QED  BY <1>1, <1>2, SetInduction
<1> QED  BY <1>3

LEMMA SumIsNat ==
    ASSUME NEW d, NEW n \in Nat, NEW h, IsSum(h, d, n), \A i \in 1 .. n : d[i] \in Nat
    PROVE  \A i \in 0 .. n : h[i] \in Nat
<1> DEFINE S == {m \in Nat : m \in 0 .. n => h[m] \in Nat}
<1>1. \A i \in 0 .. n : h[i] = IF i = 0 THEN 0 ELSE h[i - 1] + d[i]  BY DEF IsSum
<1>2. 0 \in S  BY <1>1
<1>3. ASSUME NEW m \in Nat, m \in S PROVE m + 1 \in S
  <2>1. m + 1 \in 0 .. n => h[m + 1] = h[m] + d[m + 1] /\ h[m] \in Nat /\ d[m + 1] \in Nat
    BY <1>1, <1>3
  <2> QED  BY <2>1
<1>4. Nat \subseteq S
  <2> HIDE DEF S
  <2> QED  BY <1>2, <1>3, SetInduction
<1> QED  BY <1>4

(* WidthTo adds up the widths of the entries that are in the list. *)
Width(u, w) == [g \in Gid |-> IF InList(u, g) THEN w[g] ELSE 0]

LEMMA WidthToIsSum ==
    ASSUME NEW u, NEW w
    PROVE  IsSum(WidthTo(u, w), Width(u, w), MaxGroups)
<1> DEFINE f[g \in 0 .. MaxGroups] ==
             IF g = 0 THEN 0 ELSE f[g - 1] + (IF InList(u, g) THEN w[g] ELSE 0)
<1>1. PICK h : IsSum(h, Width(u, w), MaxGroups)  BY SumExists
<1>2. \A g \in 1 .. MaxGroups : (IF InList(u, g) THEN w[g] ELSE 0) = Width(u, w)[g]
  BY DEF Width
<1>3. \E k : k = [g \in 0 .. MaxGroups |->
                   IF g = 0 THEN 0 ELSE k[g - 1] + (IF InList(u, g) THEN w[g] ELSE 0)]
  <2>1. h = [g \in 0 .. MaxGroups |-> IF g = 0 THEN 0 ELSE h[g - 1] + Width(u, w)[g]]
    BY <1>1 DEF IsSum
  <2>2. h = [g \in 0 .. MaxGroups |->
               IF g = 0 THEN 0 ELSE h[g - 1] + (IF InList(u, g) THEN w[g] ELSE 0)]
    BY <1>2, <2>1
  <2> WITNESS h
  <2> QED  BY <2>2
<1>4. f = [g \in 0 .. MaxGroups |->
             IF g = 0 THEN 0 ELSE f[g - 1] + (IF InList(u, g) THEN w[g] ELSE 0)]
  BY <1>3, Zenon
<1>5. WidthTo(u, w) = f  BY Zenon DEF WidthTo
<1> HIDE DEF f
<1>6. f = [g \in 0 .. MaxGroups |-> IF g = 0 THEN 0 ELSE f[g - 1] + Width(u, w)[g]]
  BY <1>2, <1>4
<1> QED  BY <1>5, <1>6 DEF IsSum

-----------------------------------------------------------------------------
(* The list of groups. *)

(* An entry of the server is as wide as the step of the client. *)
LEMMA EntryIsStep ==
    ASSUME DirInv
    PROVE  Entry = Step /\ \A g \in Gid : Step[g] \in Nat
<1> SUFFICES ASSUME NEW g \in Gid, g \in groupDir
             PROVE  /\ 1 + 2 + 1 + NameLen[groupName[g]] + 1 + 4 = NameLen[groupName[g]] + 9
                    /\ NameLen[groupName[g]] + 9 \in Nat
  BY DEF Entry, Step
<1>1. groupName[g] \in GName  BY DEF DirInv, DirTypeOK, GroupsDense
<1>2. NameLen[groupName[g]] \in 1 .. 24  BY <1>1
<1> QED  BY <1>2

LEMMA BaseIsGid ==
    ASSUME DirInv, NEW u, NEW g \in Gid
    PROVE  Base(u, g) = GidAt(u, g)
<1>1. \A i \in 1 .. MaxGroups : Width(u, Step)[i] \in Nat  BY EntryIsStep DEF Width
<1>2. WidthTo(u, Step)[g - 1] \in Nat  BY <1>1, WidthToIsSum, SumIsNat
<1>3. WidthTo(u, Entry)[g - 1] = WidthTo(u, Step)[g - 1]  BY EntryIsStep
<1>4. Digits(Cardinality(Listed(u))) \in {1, 2}  BY DEF Digits
<1> QED  BY <1>2, <1>3, <1>4 DEF Base, GidAt

(* The client finds the gid of every group that is there, or that its user    *)
(* has subscribed to, in the list of the server, for any number of groups and *)
(* names of any lengths.                                                      *)
THEOREM ListsAreReadBack == ListingSpec => []ListReadBack
<1>1. DirInv => ListReadBack
  <2> SUFFICES ASSUME DirInv, NEW u \in Uid \cup {Everyone}, ~Refused(u)
               PROVE  Displayed(u) = {g \in groupDir : u = Everyone \/ u \in member[g]}
    BY DEF ListReadBack
  <2>1. Displayed(u) = Listed(u)  BY BaseIsGid DEF Displayed, Listed
  <2>2. groupDir = 1 .. nGroups /\ groupDir \subseteq Gid
    BY DEF DirInv, DirTypeOK, GroupsDense
  <2> QED  BY <2>1, <2>2 DEF Listed, InList
<1> QED  BY <1>1, ListingDirInv, PTL

-----------------------------------------------------------------------------
(* The list of users. *)

(* What the child has found: the uids it wrote and those in its buffer. *)
Found == sent \o buffer

Precedes(s, t) == \A i \in DOMAIN s, j \in DOMAIN t : Rank[s[i]] < Rank[t[j]]

ListTypeOK ==
    /\ child \in {"none", "asked", "reading", "ended", "refused"}
    /\ gid \in 0 .. MaxGroups /\ cursor \in Int
    /\ fetched \in Seq(Uid \cup Other) /\ buffer \in Seq(Uid) /\ sent \in Seq(Uid)
    /\ ever \subseteq Uid /\ always \subseteq Uid

AskedInv ==
    child = "asked" => fetched = <<>> /\ buffer = <<>> /\ sent = <<>> /\ cursor = -1

(* Found and then fetched is the directory up to the cursor, in its order,    *)
(* but for those who came or went meanwhile.                                  *)
ReadingInv ==
    child = "reading" =>
        /\ gid \in groupDir
        /\ always \subseteq member[gid] /\ member[gid] \subseteq ever
        /\ InOrder(Found) /\ InOrder(fetched) /\ Precedes(Found, fetched)
        /\ \A e \in ToSet(Found) \cup ToSet(fetched) : Rank[e] <= cursor
        /\ (ToSet(Found) \cup ToSet(fetched)) \cap Uid \subseteq ever
        /\ \A u \in always : Rank[u] <= cursor => u \in ToSet(Found) \cup ToSet(fetched)

ListInv == ListTypeOK /\ AskedInv /\ ReadingInv /\ ListsTheMembers

LEMMA ListInitInv == ListingInit => ListInv
BY DEF ListingInit, ListInv, ListTypeOK, AskedInv, ReadingInv, ListsTheMembers

LEMMA UlistKeepsListInv ==
    ASSUME ListInv, NEW g \in Gid, ulist(g)
    PROVE  ListInv'
BY DEF ListInv, ListTypeOK, AskedInv, ReadingInv, ListsTheMembers, ulist

LEMMA OpenKeepsListInv ==
    ASSUME DirInv, ListInv, Open
    PROVE  ListInv'
<1>1. /\ fetched' = <<>> /\ buffer' = <<>> /\ sent' = <<>> /\ cursor' = -1
      /\ child' \in {"refused", "reading"}
  BY DEF Open, ListInv, AskedInv
<1>2. ListTypeOK'
  <2>1. member \in [Gid -> SUBSET Uid] /\ groupDir \subseteq Gid  BY DEF DirInv, DirTypeOK
  <2> QED  BY <1>1, <2>1 DEF Open, ListInv, ListTypeOK
<1>3. ReadingInv'
  <2> SUFFICES ASSUME child' = "reading" PROVE ReadingInv'
    BY DEF ReadingInv
  <2>1. gid \in groupDir /\ ever' = member[gid] /\ always' = member[gid] /\ UNCHANGED <<gid, member, groupDir>>
    BY DEF Open, dirVars, groupVars
  <2>2. Found' = <<>>  BY <1>1 DEF Found
  <2>3. \A u \in Uid : ~(Rank[u] <= -1)  OBVIOUS
  <2>4. ToSet(<<>>) = {}  BY DEF ToSet
  <2>5. always' \subseteq Uid  BY <1>2 DEF ListTypeOK
  <2>6. InOrder(Found)' /\ InOrder(fetched)' /\ Precedes(Found, fetched)'
    BY <1>1, <2>2 DEF InOrder, Precedes
  <2> QED  BY <1>1, <2>1, <2>2, <2>3, <2>4, <2>5, <2>6 DEF ReadingInv
<1> QED  BY <1>1, <1>2, <1>3 DEF ListInv, AskedInv, ListsTheMembers

(* readdir fetches a batch whole and in order. *)
LEMMA BatchIsWhole ==
    ASSUME NEW S \in SUBSET (Uid \cup Other), NEW n \in Nat, \A e \in S : Rank[e] <= n,
           NEW s \in SetToSeqs(S)
    PROVE  s \in Seq(S) /\ ToSet(s) = S
<1>1. IsFiniteSet(S)
  <2> DEFINE r == [e \in S |-> Rank[e]]
  <2>1. r \in Injection(S, 0 .. n)
    <3>1. r \in [S -> 0 .. n]  OBVIOUS
    <3>2. \A e, f \in S : r[e] = r[f] => e = f  OBVIOUS
    <3> QED  BY <3>1, <3>2 DEF Injection, IsInjective
  <2>2. IsFiniteSet(0 .. n)  BY FS_Interval
  <2> HIDE DEF r
  <2> QED  BY <2>1, <2>2, FS_Injection
<1>2. Cardinality(S) \in Nat  BY <1>1, FS_CardinalityType
<1> DEFINE D == 1 .. Cardinality(S)
<1>3. s \in [D -> S] /\ \A i, j \in D : i # j => s[i] # s[j]  BY DEF SetToSeqs
<1>4. s \in Injection(D, S)  BY <1>3 DEF Injection, IsInjective
<1>5. Cardinality(D) = Cardinality(S)  BY <1>2, FS_Interval
<1>6. s \in Surjection(D, S)
  <2> HIDE DEF D
  <2> QED  BY <1>1, <1>4, <1>5, FS_Injection
<1>7. s \in Seq(S)  BY <1>2, <1>3
<1>8. \A e \in S : \E i \in D : s[i] = e
  <2> HIDE DEF D
  <2> QED  BY <1>6 DEF Surjection
<1>9. DOMAIN s = D  BY <1>3
<1> QED  BY <1>3, <1>7, <1>8, <1>9 DEF ToSet

LEMMA FetchKeepsListInv ==
    ASSUME DirInv, ListInv, Fetch
    PROVE  ListInv'
<1>1. PICK last \in {e \in Entries(gid) : Rank[e] > cursor} :
        /\ fetched' \in SetToSeqs({e \in Entries(gid) : cursor < Rank[e] /\ Rank[e] <= Rank[last]})
        /\ InOrder(fetched') /\ cursor' = Rank[last]
  BY DEF Fetch
<1> DEFINE S == {e \in Entries(gid) : cursor < Rank[e] /\ Rank[e] <= Rank[last]}
<1>2. /\ child = "reading" /\ fetched = <<>>
      /\ UNCHANGED <<child, gid, member, groupDir, buffer, sent, ever, always>>
  BY DEF Fetch, dirVars, groupVars
<1>3. /\ gid \in groupDir /\ always \subseteq member[gid] /\ member[gid] \subseteq ever
      /\ InOrder(Found) /\ \A e \in ToSet(Found) : Rank[e] <= cursor
      /\ ToSet(Found) \cap Uid \subseteq ever
      /\ \A u \in always : Rank[u] <= cursor => u \in ToSet(Found) \cup ToSet(fetched)
  BY <1>2 DEF ListInv, ReadingInv
<1>4. Entries(gid) \subseteq Uid \cup Other
  BY <1>3 DEF Entries, DirInv, DirTypeOK
<1>5. Rank[last] \in Nat /\ cursor \in Int /\ cursor < Rank[last]
  BY <1>4 DEF ListInv, ListTypeOK
<1>6. fetched' \in Seq(S) /\ ToSet(fetched') = S
  BY <1>1, <1>4, <1>5, BatchIsWhole
<1>7. ListTypeOK'
  <2>1. fetched' \in Seq(Uid \cup Other)  BY <1>4, <1>6
  <2> QED  BY <1>1, <1>2, <1>5, <2>1 DEF ListInv, ListTypeOK
<1>8. Found' = Found  BY <1>2 DEF Found
<1>9. ReadingInv'
  <2>1. ToSet(fetched) = {}  BY <1>2 DEF ToSet
  <2>2. \A e \in S : Rank[e] \in Nat /\ cursor < Rank[e] /\ Rank[e] <= cursor'
    BY <1>1, <1>4
  <2>3. ToSet(Found) \subseteq Uid
    <3>1. Found \in Seq(Uid)  BY DEF Found, ListInv, ListTypeOK
    <3> QED  BY <3>1 DEF ToSet
  <2>4. \A e \in ToSet(Found) : Rank[e] \in Nat /\ Rank[e] <= cursor'
    BY <1>1, <1>3, <1>5, <2>3
  <2>5. Precedes(Found, fetched)'
    <3> SUFFICES ASSUME NEW i \in DOMAIN Found, NEW j \in DOMAIN fetched'
                 PROVE  Rank[Found[i]] < Rank[fetched'[j]]
      BY <1>8 DEF Precedes
    <3>1. Found[i] \in ToSet(Found) /\ fetched'[j] \in S  BY <1>6 DEF ToSet
    <3> QED  BY <1>3, <1>5, <2>2, <2>4, <3>1
  <2>6. S \cap Uid \subseteq ever
    BY <1>3 DEF Entries
  <2>7. \A u \in always : Rank[u] <= cursor' => u \in ToSet(Found) \cup S
    <3> SUFFICES ASSUME NEW u \in always, Rank[u] <= cursor', u \notin ToSet(Found)
                 PROVE  u \in S
      OBVIOUS
    <3>1. u \in Entries(gid)  BY <1>3 DEF Entries
    <3>2. ~(Rank[u] <= cursor)  BY <1>3, <2>1
    <3> QED  BY <1>1, <1>4, <1>5, <3>1, <3>2
  <2>8. InOrder(fetched)'  BY <1>1 DEF InOrder
  <2> HIDE DEF S
  <2> QED
    BY <1>2, <1>3, <1>6, <1>8, <2>2, <2>4, <2>5, <2>6, <2>7, <2>8 DEF ReadingInv, InOrder
<1> QED  BY <1>2, <1>7, <1>9 DEF ListInv, AskedInv, ListsTheMembers

(* The first entry fetched becomes the last one found, unless it is no member, *)
(* whether the buffer is written or not.                                       *)
LEMMA AppendUserFinds ==
    ASSUME ListInv, AppendUser
    PROVE  /\ fetched # <<>> /\ fetched' = Tail(fetched)
           /\ Found' = IF Head(fetched) \in Other THEN Found ELSE Append(Found, Head(fetched))
           /\ buffer' \in Seq(Uid) /\ sent' \in Seq(Uid)
<1>1. /\ fetched \in Seq(Uid \cup Other) /\ buffer \in Seq(Uid) /\ sent \in Seq(Uid)
      /\ fetched # <<>> /\ fetched' = Tail(fetched)
  BY DEF AppendUser, ListInv, ListTypeOK
<1>2. Head(fetched) \in Uid \cup Other  BY <1>1
<1> DEFINE h == Head(fetched)
           b == IF h \in Other THEN buffer ELSE Append(buffer, h)
<1>3. b \in Seq(Uid)  BY <1>1, <1>2
<1>4. sent \o b = IF h \in Other THEN Found ELSE Append(Found, h)
  <2> HIDE DEF h
  <2>1. CASE h \in Other  BY <2>1 DEF Found
  <2>2. CASE h \notin Other
    <3>1. h \in Uid  BY <1>2, <2>2 DEF h
    <3>2. sent \o Append(buffer, h) = Append(sent \o buffer, h)  BY <1>1, <3>1
    <3> QED  BY <2>2, <3>2 DEF Found
  <2> QED  BY <2>1, <2>2
<1>5. \/ sent' = sent \o b /\ buffer' = <<>>
      \/ sent' = sent /\ buffer' = b
  BY DEF AppendUser
<1>6. sent \o b \in Seq(Uid) /\ (sent \o b) \o <<>> = sent \o b  BY <1>1, <1>3
<1>7. Found' = sent \o b
  <2> HIDE DEF b
  <2>1. Found' = sent' \o buffer'  BY DEF Found
  <2>2. CASE sent' = sent \o b /\ buffer' = <<>>  BY <1>6, <2>1, <2>2
  <2>3. CASE sent' = sent /\ buffer' = b  BY <2>1, <2>3
  <2> QED  BY <1>5, <2>2, <2>3
<1>8. buffer' \in Seq(Uid) /\ sent' \in Seq(Uid)
  <2> HIDE DEF b
  <2>1. CASE sent' = sent \o b /\ buffer' = <<>>
    <3>1. <<>> \in Seq(Uid)  OBVIOUS
    <3> QED  BY <1>6, <2>1, <3>1
  <2>2. CASE sent' = sent /\ buffer' = b  BY <1>1, <1>3, <2>2
  <2> QED  BY <1>5, <2>1, <2>2
<1> QED  BY <1>1, <1>4, <1>7, <1>8

LEMMA AppendUserKeepsListInv ==
    ASSUME DirInv, ListInv, AppendUser
    PROVE  ListInv'
<1>1. /\ fetched # <<>> /\ fetched' = Tail(fetched)
      /\ Found' = IF Head(fetched) \in Other THEN Found ELSE Append(Found, Head(fetched))
      /\ buffer' \in Seq(Uid) /\ sent' \in Seq(Uid)
  BY AppendUserFinds
<1>2. child = "reading" /\ UNCHANGED <<child, gid, member, groupDir, cursor, ever, always>>
  BY DEF AppendUser, dirVars, groupVars
<1>3. /\ fetched \in Seq(Uid \cup Other) /\ Found \in Seq(Uid) /\ cursor \in Int
      /\ ever \subseteq Uid /\ always \subseteq Uid
  BY DEF ListInv, ListTypeOK, Found
<1>4. ReadingInv  BY DEF ListInv
<1> DEFINE h == Head(fetched)
<1>5. /\ h = fetched[1] /\ 1 \in DOMAIN fetched /\ h \in Uid \cup Other /\ fetched' \in Seq(Uid \cup Other)
      /\ \A j \in DOMAIN fetched' : j + 1 \in DOMAIN fetched /\ fetched'[j] = fetched[j + 1]
      /\ \A j \in DOMAIN fetched : j = 1 \/ (j - 1 \in DOMAIN fetched' /\ fetched'[j - 1] = fetched[j])
      /\ DOMAIN fetched \subseteq Nat \ {0} /\ DOMAIN fetched' \subseteq Nat \ {0}
  BY <1>1, <1>3
<1>6. \A e \in Uid \cup Other : Rank[e] \in Nat  OBVIOUS
<1>7. ToSet(fetched) = {h} \cup ToSet(fetched')
  <2> HIDE DEF h
  <2>1. ToSet(fetched) \subseteq {h} \cup ToSet(fetched')  BY <1>5 DEF ToSet
  <2>2. {h} \cup ToSet(fetched') \subseteq ToSet(fetched)  BY <1>5 DEF ToSet
  <2> QED  BY <2>1, <2>2
<1>8. /\ Found' \in Seq(Uid)
      /\ \A i \in DOMAIN Found' : \/ i \in DOMAIN Found /\ Found'[i] = Found[i]
                                  \/ /\ h \notin Other /\ Found'[i] = h
                                     /\ \A k \in DOMAIN Found : k < i
      /\ \A i \in DOMAIN Found : i \in DOMAIN Found' /\ Found'[i] = Found[i]
      /\ \A i \in DOMAIN Found' : i \in Nat
      /\ \A i, k \in DOMAIN Found' : i \notin DOMAIN Found /\ k \notin DOMAIN Found => i = k
      /\ h \notin Other => \E i \in DOMAIN Found' : Found'[i] = h
  <2>1. CASE h \in Other
    <3>1. Found' = Found  BY <1>1, <2>1
    <3> QED  BY <1>3, <2>1, <3>1
  <2>2. CASE h \notin Other
    <3>1. Found' = Append(Found, h) /\ h \in Uid  BY <1>1, <1>5, <2>2
    <3>2. Append(Found, h) \in Seq(Uid) /\ Len(Append(Found, h)) = Len(Found) + 1
      BY <1>3, <3>1
    <3>3. Append(Found, h)[Len(Found) + 1] = h  BY <1>3
    <3>4. \A i \in 1 .. Len(Found) : Append(Found, h)[i] = Found[i]  BY <1>3
    <3>5. DOMAIN Found = 1 .. Len(Found) /\ DOMAIN Append(Found, h) = 1 .. (Len(Found) + 1)
          /\ Len(Found) \in Nat
      BY <1>3, <3>2
    <3> HIDE DEF h
    <3> QED  BY <2>2, <3>1, <3>2, <3>3, <3>4, <3>5
  <2> QED  BY <2>1, <2>2
<1>9. ToSet(Found') = ToSet(Found) \cup (IF h \in Other THEN {} ELSE {h})
  <2> HIDE DEF h
  <2>1. ToSet(Found') \subseteq ToSet(Found) \cup (IF h \in Other THEN {} ELSE {h})
    BY <1>8 DEF ToSet
  <2>2. ToSet(Found) \cup (IF h \in Other THEN {} ELSE {h}) \subseteq ToSet(Found')
    BY <1>8 DEF ToSet
  <2> QED  BY <2>1, <2>2
<1> HIDE DEF h
<1>10. ListTypeOK'
  BY <1>1, <1>2, <1>5 DEF ListInv, ListTypeOK
<1>11. ReadingInv'
  <2>1. /\ gid \in groupDir /\ always \subseteq member[gid] /\ member[gid] \subseteq ever
        /\ InOrder(Found) /\ InOrder(fetched) /\ Precedes(Found, fetched)
        /\ \A e \in ToSet(Found) \cup ToSet(fetched) : Rank[e] <= cursor
        /\ (ToSet(Found) \cup ToSet(fetched)) \cap Uid \subseteq ever
        /\ \A u \in always : Rank[u] <= cursor => u \in ToSet(Found) \cup ToSet(fetched)
    BY <1>2, <1>4 DEF ReadingInv
  <2>2. InOrder(Found)'
    <3> SUFFICES ASSUME NEW i \in DOMAIN Found', NEW j \in DOMAIN Found', i < j
                 PROVE  Rank[Found'[i]] < Rank[Found'[j]]
      BY DEF InOrder
    <3>1. CASE j \in DOMAIN Found
      <4>1. i \in DOMAIN Found
        BY <1>8, <3>1
      <4> QED  BY <1>8, <2>1, <3>1, <4>1 DEF InOrder
    <3>2. CASE j \notin DOMAIN Found
      <4>1. i \in DOMAIN Found  BY <1>8, <3>2
      <4>2. Found'[j] = fetched[1] /\ Found'[i] = Found[i]  BY <1>5, <1>8, <3>2, <4>1
      <4> QED  BY <1>5, <2>1, <4>1, <4>2 DEF Precedes
    <3> QED  BY <3>1, <3>2
  <2>3. InOrder(fetched)'
    <3> SUFFICES ASSUME NEW i \in DOMAIN fetched', NEW j \in DOMAIN fetched', i < j
                 PROVE  Rank[fetched'[i]] < Rank[fetched'[j]]
      BY DEF InOrder
    <3>1. i + 1 < j + 1  BY <1>5
    <3> QED  BY <1>5, <2>1, <3>1 DEF InOrder
  <2>4. Precedes(Found, fetched)'
    <3> SUFFICES ASSUME NEW i \in DOMAIN Found', NEW j \in DOMAIN fetched'
                 PROVE  Rank[Found'[i]] < Rank[fetched'[j]]
      BY DEF Precedes
    <3>1. j + 1 \in DOMAIN fetched /\ fetched'[j] = fetched[j + 1] /\ 1 < j + 1  BY <1>5
    <3>2. CASE i \in DOMAIN Found /\ Found'[i] = Found[i]
      BY <2>1, <3>1, <3>2 DEF Precedes
    <3>3. CASE Found'[i] = h
      BY <1>5, <2>1, <3>1, <3>3 DEF InOrder
    <3> QED  BY <1>8, <3>2, <3>3
  <2>5. /\ \A e \in ToSet(Found') \cup ToSet(fetched') : Rank[e] <= cursor
        /\ (ToSet(Found') \cup ToSet(fetched')) \cap Uid \subseteq ever
    BY <1>7, <1>9, <2>1
  <2>6. \A u \in always : Rank[u] <= cursor => u \in ToSet(Found') \cup ToSet(fetched')
    <3>1. \A u \in always : u \notin Other  BY <1>3
    <3> QED  BY <1>7, <1>9, <2>1, <3>1
  <2> QED  BY <1>2, <2>1, <2>2, <2>3, <2>4, <2>5, <2>6 DEF ReadingInv
<1> QED  BY <1>2, <1>10, <1>11 DEF ListInv, AskedInv, ListsTheMembers

(* When readdir finds nothing more, the cursor has passed every entry. *)
LEMMA LastWriteKeepsListInv ==
    ASSUME DirInv, ListInv, LastWrite
    PROVE  ListInv'
<1>1. /\ child = "reading" /\ fetched = <<>> /\ {e \in Entries(gid) : Rank[e] > cursor} = {}
      /\ child' = "ended" /\ sent' = Found
      /\ UNCHANGED <<gid, fetched, cursor, buffer, ever, always>>
  BY DEF LastWrite, Found
<1>2. /\ Found \in Seq(Uid) /\ cursor \in Int /\ always \subseteq Uid
  BY DEF ListInv, ListTypeOK, Found
<1>3. ReadingInv /\ ToSet(fetched) = {}  BY <1>1 DEF ListInv, ToSet
<1>4. always \subseteq ToSet(Found)
  <2>1. \A u \in always : u \in Entries(gid) /\ Rank[u] \in Nat
    BY <1>1, <1>2, <1>3 DEF ReadingInv, Entries
  <2>2. \A u \in always : Rank[u] <= cursor  BY <1>1, <1>2, <2>1
  <2> QED  BY <1>1, <1>3, <2>2 DEF ReadingInv
<1>5. ToSet(Found) \subseteq ever
  <2>1. ToSet(Found) \subseteq Uid  BY <1>2 DEF ToSet
  <2> QED  BY <1>1, <1>3, <2>1 DEF ReadingInv
<1>6. IsInjective(Found)
  <2>1. \A i, j \in DOMAIN Found : i < j \/ j < i \/ i = j  BY <1>2
  <2>2. \A i \in DOMAIN Found : Rank[Found[i]] \in Nat  BY <1>2
  <2> QED  BY <1>1, <1>3, <2>1, <2>2 DEF ReadingInv, InOrder, IsInjective
<1> QED
  BY <1>1, <1>2, <1>4, <1>5, <1>6 DEF ListInv, ListTypeOK, AskedInv, ReadingInv, ListsTheMembers

(* Whatever the main process does meanwhile, ever and always take note of it. *)
LEMMA MainStepKeepsListInv ==
    ASSUME DirInv, DirInv', ListInv, MainStep
    PROVE  ListInv'
<1>1. UNCHANGED childVars  BY DEF MainStep
<1>2. /\ UNCHANGED <<child, gid, fetched, cursor, buffer, sent>> /\ Found' = Found
  BY <1>1 DEF childVars, Found
<1>3. CASE child = "reading"
  <2>1. ever' = ever \cup member'[gid] /\ always' = always \cap member'[gid]
    BY <1>3 DEF MainStep
  <2>2. ReadingInv  BY DEF ListInv
  <2>3. gid \in groupDir /\ gid \in Gid  BY <1>3, <2>2 DEF ReadingInv, DirInv, DirTypeOK
  <2>4. gid \in groupDir'
    BY <2>3 DEF MainStep, UdpCommand, REG, UNR, LOG, OUT, GSR, NewGroup, JoinGroup, CreateGroup,
                GUR, dirVars, groupVars
  <2>5. member'[gid] \subseteq Uid  BY <2>3 DEF DirInv, DirTypeOK
  <2>6. ListTypeOK'
    BY <1>2, <2>1, <2>5 DEF ListInv, ListTypeOK
  <2> QED
    BY <1>2, <1>3, <2>1, <2>2, <2>4, <2>6
       DEF ListInv, AskedInv, ReadingInv, InOrder, Precedes, ListsTheMembers
<1>4. CASE child # "reading"
  <2>1. UNCHANGED <<ever, always>>  BY <1>4 DEF MainStep
  <2> QED
    BY <1>2, <1>4, <2>1 DEF ListInv, ListTypeOK, AskedInv, ReadingInv, ListsTheMembers
<1> QED  BY <1>3, <1>4

LEMMA ListStepKeepsListInv ==
    ASSUME DirInv, ListInv, [ListingNext]_listingVars
    PROVE  ListInv'
<1>1. DirInv'  BY ListingKeepsDirInv
<1>2. CASE UNCHANGED listingVars
  BY <1>2 DEF ListInv, ListTypeOK, AskedInv, ReadingInv, ListsTheMembers, InOrder, Precedes, Found,
              listingVars, childVars, dirVars, groupVars
<1>3. CASE \E g \in Gid : ulist(g)  BY <1>3, UlistKeepsListInv
<1>4. CASE Child
  BY <1>4, OpenKeepsListInv, FetchKeepsListInv, AppendUserKeepsListInv, LastWriteKeepsListInv
     DEF Child
<1>5. CASE MainStep  BY <1>1, <1>5, MainStepKeepsListInv
<1> QED  BY <1>2, <1>3, <1>4, <1>5 DEF ListingNext

(* The inductive invariant of a child that reads a directory in batches while *)
(* the main process changes it.                                               *)
THEOREM ListingInvariant == ListingSpec => [](DirInv /\ ListInv)
<1>1. ListingInit => ListInv  BY ListInitInv
<1>2. DirInv /\ ListInv /\ [ListingNext]_listingVars => ListInv'  BY ListStepKeepsListInv
<1> QED  BY <1>1, <1>2, ListingDirInv, PTL DEF ListingSpec

(* The answer to ULS names everybody who was a member all the time, nobody    *)
(* who never was, and nobody twice, for any order of the directory, any cut   *)
(* into system calls and writes, and any commands meanwhile.                  *)
THEOREM MembersAreListed == ListingSpec => []ListsTheMembers
BY ListingInvariant, PTL DEF ListInv

-----------------------------------------------------------------------------
(* Several runs of the server. *)

USE DEF Mid

RestartInv == RestartTypeOK /\ NoGhostUsers

-----------------------------------------------------------------------------
(* Every command preserves RestartInv. *)

(* REG adds a user; the groups are not touched. *)
LEMMA RegRestart ==
    ASSUME RestartInv, installed, installed' = installed,
           NEW u \in UidArg, NEW p \in PasswordArg, REG(u, p), RegStatus(u, p) = "OK"
    PROVE  RestartInv'
<1>1. u \in Uid /\ p \in Password  BY RegAccepted
<1>2. /\ userDir' = userDir \cup {u} /\ password' = [password EXCEPT ![u] = p]
      /\ UNCHANGED <<login, nGroups, groupDir, groupName, member, numMsg, msgDir>>
  BY DEF REG, groupVars
<1>3. RestartTypeOK'  BY <1>1, <1>2 DEF RestartInv, RestartTypeOK, DirTypeOK
<1>4. NoGhostUsers'  BY <1>2 DEF RestartInv, NoGhostUsers
<1> QED  BY <1>3, <1>4 DEF RestartInv

(* UNR removes the uid from every directory in GROUPS/, also from those that  *)
(* an earlier run has left above N_GROUPS.                                    *)
LEMMA UnrRestart ==
    ASSUME RestartInv, installed, installed' = installed,
           NEW u \in UidArg, NEW p \in PasswordArg, UNR(u, p), UnrStatus(u, p) = "OK"
    PROVE  RestartInv'
<1>1. u \in Uid  BY PasswordAccepted
<1>2. /\ password' = [password EXCEPT ![u] = NoFile]
      /\ login' = login \ {u} /\ userDir' = userDir \ {u}
      /\ member' = [g \in Gid |-> member[g] \ {u}]
      /\ UNCHANGED <<nGroups, groupDir, groupName, numMsg, msgDir>>
  BY DEF UNR
<1>3. RestartTypeOK'  BY <1>1, <1>2 DEF RestartInv, RestartTypeOK, DirTypeOK
<1>4. NoGhostUsers'  BY <1>2 DEF RestartInv, NoGhostUsers
<1> QED  BY <1>3, <1>4 DEF RestartInv

(* LOG and OUT change login.txt of a user who is registered. *)
LEMMA LoginRestart ==
    ASSUME RestartInv, installed, installed' = installed,
           NEW u \in UidArg, NEW p \in PasswordArg,
           \/ LOG(u, p) /\ LogStatus(u, p) = "OK"
           \/ OUT(u, p) /\ OutStatus(u, p) = "OK"
    PROVE  RestartInv'
<1>1. u \in Uid /\ u \in userDir  BY PasswordAccepted
<1>2. /\ login' = login \cup {u} \/ login' = login \ {u}
      /\ UNCHANGED <<userDir, password, nGroups, groupDir, groupName, member, numMsg, msgDir>>
  BY DEF LOG, OUT, groupVars
<1>3. RestartTypeOK'  BY <1>1, <1>2 DEF RestartInv, RestartTypeOK, DirTypeOK
<1>4. NoGhostUsers'  BY <1>1, <1>2 DEF RestartInv, NoGhostUsers
<1> QED  BY <1>3, <1>4 DEF RestartInv

(* A new group may adopt the members of an old one, but those are registered. *)
LEMMA NewGroupRestart ==
    ASSUME RestartInv, installed, installed' = installed,
           NEW u \in UidArg, NEW g \in GidArg, NEW n \in GNameArg, NewGroup(u, g, n)
    PROVE  RestartInv'
<1>1. u \in Uid /\ u \in login /\ n \in GName /\ nGroups + 1 \in Gid
  BY NewAccepted DEF NewGroup, RestartInv, RestartTypeOK, DirTypeOK
<1>2. /\ nGroups' = nGroups + 1
      /\ groupDir'  = groupDir \cup {nGroups + 1}
      /\ numMsg'    = [numMsg EXCEPT ![nGroups + 1] = 0]
      /\ groupName' = [groupName EXCEPT ![nGroups + 1] = n]
      /\ member'    = [member EXCEPT ![nGroups + 1] = @ \cup {u}]
      /\ UNCHANGED <<userDir, password, login, msgDir>>
  BY DEF NewGroup, CreateGroup, userVars
<1>3. DirTypeOK'  BY <1>1, <1>2 DEF RestartInv, RestartTypeOK, DirTypeOK
<1>4. 1 .. nGroups' \subseteq groupDir'
  BY <1>2 DEF RestartInv, RestartTypeOK, DirTypeOK
<1>5. \A h \in groupDir' : groupName'[h] # NoFile /\ numMsg'[h] # NoFile
  BY <1>1, <1>2 DEF RestartInv, RestartTypeOK, DirTypeOK
<1>6. \A h \in Gid \ groupDir' : member'[h] = {} /\ msgDir'[h] = {}
  BY <1>1, <1>2 DEF RestartInv, RestartTypeOK, DirTypeOK
<1>7. RestartTypeOK'  BY <1>3, <1>4, <1>5, <1>6 DEF RestartInv, RestartTypeOK
<1>8. NoGhostUsers'  BY <1>1, <1>2 DEF RestartInv, RestartTypeOK, DirTypeOK, NoGhostUsers
<1> QED  BY <1>7, <1>8 DEF RestartInv

(* A subscription and its end change the members of one group on disk. *)
LEMMA MembershipRestart ==
    ASSUME RestartInv, installed, installed' = installed,
           NEW u \in UidArg, NEW g \in GidArg,
           \/ \E n \in GNameArg : JoinGroup(u, g, n)
           \/ GUR(u, g) /\ GurStatus(u, g) = "OK"
    PROVE  RestartInv'
<1>1. /\ member' = [member EXCEPT ![g] = @ \cup {u}] \/ member' = [member EXCEPT ![g] = @ \ {u}]
      /\ UNCHANGED <<userDir, password, login, nGroups, groupDir, groupName, numMsg, msgDir>>
  BY DEF JoinGroup, GUR, userVars
<1>2. (u \in Uid /\ u \in login) \/ member' = [member EXCEPT ![g] = @ \ {u}]
  BY JoinAccepted DEF JoinGroup, GUR
<1>3. DirTypeOK'
  <2>1. DirTypeOK  BY DEF RestartInv, RestartTypeOK
  <2>2. g \in Gid
    BY <2>1, JoinAccepted DEF JoinGroup, GurStatus, parseGID, DirTypeOK
  <2>3. member' \in [Gid -> SUBSET Uid]
    <3>1. member \in [Gid -> SUBSET Uid] /\ member[g] \subseteq Uid  BY <2>1, <2>2 DEF DirTypeOK
    <3>2. CASE member' = [member EXCEPT ![g] = @ \ {u}]
      <4>1. member[g] \ {u} \in SUBSET Uid  BY <3>1
      <4> QED  BY <2>2, <3>1, <3>2, <4>1
    <3>3. CASE member' = [member EXCEPT ![g] = @ \cup {u}] /\ u \in Uid
      <4>1. member[g] \cup {u} \in SUBSET Uid  BY <3>1, <3>3
      <4> QED  BY <2>2, <3>1, <3>3, <4>1
    <3> QED  BY <1>1, <1>2, <3>2, <3>3
  <2> QED  BY <1>1, <2>1, <2>3 DEF DirTypeOK
<1>4. g \in groupDir \/ member' = [member EXCEPT ![g] = @ \ {u}]
  BY JoinAccepted DEF JoinGroup, GUR
<1>5. \A h \in Gid \ groupDir' : member'[h] = {} /\ msgDir'[h] = {}
  BY <1>1, <1>4 DEF RestartInv, RestartTypeOK, DirTypeOK
<1>6. RestartTypeOK'
  <2>1. 1 .. nGroups' \subseteq groupDir'  BY <1>1 DEF RestartInv, RestartTypeOK
  <2>2. \A h \in groupDir' : groupName'[h] # NoFile /\ numMsg'[h] # NoFile
    BY <1>1 DEF RestartInv, RestartTypeOK
  <2> QED  BY <1>3, <1>5, <2>1, <2>2 DEF RestartInv, RestartTypeOK
<1>7. NoGhostUsers'
  <2>1. member \in [Gid -> SUBSET Uid]  BY DEF RestartInv, RestartTypeOK, DirTypeOK
  <2>2. CASE member' = [member EXCEPT ![g] = @ \ {u}]
    BY <1>1, <2>1, <2>2 DEF RestartInv, NoGhostUsers
  <2>3. CASE member' = [member EXCEPT ![g] = @ \cup {u}] /\ u \in login
    BY <1>1, <2>1, <2>3 DEF RestartInv, NoGhostUsers
  <2> QED  BY <1>1, <1>2, <2>2, <2>3
<1> QED  BY <1>6, <1>7 DEF RestartInv

(* Nothing of RestartInv is about anything but the variables. *)
LEMMA RestartStutter ==
    ASSUME RestartInv, UNCHANGED <<dirVars, installed>>
    PROVE  RestartInv'
BY DEF RestartInv, RestartTypeOK, DirTypeOK, NoGhostUsers, dirVars, userVars, groupVars

(* Commands, the end of a run and the start of the next one preserve          *)
(* RestartInv.                                                                *)
LEMMA RestartStep ==
    ASSUME RestartInv, RestartNext
    PROVE  RestartInv'
<1>1. CASE Command
  <2>1. CASE UNCHANGED <<dirVars, installed>>  BY <2>1, RestartStutter
  <2>2. CASE installed /\ installed' = installed /\ UdpCommand /\ ~UNCHANGED dirVars
    BY <2>2, RegRestart, UnrRestart, LoginRestart, NewGroupRestart, MembershipRestart
    DEF UdpCommand, REG, UNR, LOG, OUT, GSR, GUR
  <2> QED  BY <1>1, <2>1, <2>2 DEF Command
<1>2. CASE Interrupted
  <2>1. DirTypeOK' /\ nGroups' = 0 /\ userDir' = {} /\ groupDir' = {} /\ installed' = FALSE
    BY <1>2 DEF Interrupted, DirTypeOK
  <2>2. NoGhostUsers'  BY <1>2 DEF Interrupted, NoGhostUsers
  <2>3. 1 .. nGroups' \subseteq groupDir'  BY <2>1
  <2>4. \A g \in Gid : member'[g] = {} /\ msgDir'[g] = {}  BY <1>2 DEF Interrupted
  <2> QED  BY <2>1, <2>2, <2>3, <2>4 DEF RestartInv, RestartTypeOK
<1>3. CASE Killed
  <2>1. /\ nGroups' = 0
        /\ UNCHANGED <<userDir, password, login, groupDir, groupName, member, numMsg, msgDir,
                       installed>>
    BY <1>3 DEF Killed, userVars
  <2> QED  BY <2>1 DEF RestartInv, RestartTypeOK, DirTypeOK, NoGhostUsers
<1>4. CASE Install
  <2>1. installed' = TRUE /\ UNCHANGED dirVars  BY <1>4 DEF Install
  <2> QED
    BY <2>1 DEF RestartInv, RestartTypeOK, DirTypeOK, NoGhostUsers, dirVars, userVars, groupVars
<1> QED  BY <1>1, <1>2, <1>3, <1>4 DEF RestartNext

-----------------------------------------------------------------------------
(* The inductive invariant of any number of runs. *)
THEOREM RestartInvariant == RestartSpec => []RestartInv
<1>1. RestartInit => RestartInv
  BY DEF RestartInit, DirInit, RestartInv, RestartTypeOK, DirTypeOK, NoGhostUsers
<1>2. RestartInv /\ [RestartNext]_restartVars => RestartInv'
  BY RestartStep, RestartStutter DEF restartVars
<1> QED  BY <1>1, <1>2, PTL DEF RestartSpec

(* The trees keep their types, and groups on disk are complete, in every run. *)
THEOREM RestartTypeCorrect == RestartSpec => []RestartTypeOK
BY RestartInvariant, PTL DEF RestartInv

(* Over all runs, nobody is logged in or subscribed who is not registered. *)
THEOREM NoGhostsAfterRestart == RestartSpec => []NoGhostUsers
BY RestartInvariant, PTL DEF RestartInv

(* Whoever registers inherits nothing, not even from the groups that an       *)
(* earlier run of the server has left.                                        *)
THEOREM FreshUserAfterRestart == RestartSpec => FreshUserInheritsNothing
<1> DEFINE A == \A u \in userDir' \ userDir :
                   u \notin login' /\ \A g \in Gid : u \notin member'[g]
<1>1. RestartInv /\ RestartNext => A
  <2> SUFFICES ASSUME RestartInv, RestartNext, NEW v \in userDir' \ userDir
               PROVE  v \notin login' /\ \A g \in Gid : v \notin member'[g]
    OBVIOUS
  <2>1. UdpCommand
    BY DEF RestartNext, Command, Interrupted, Killed, Install, dirVars, userVars
  <2>2. PICK u \in UidArg, p \in PasswordArg : REG(u, p) /\ RegStatus(u, p) = "OK"
    BY <2>1 DEF UdpCommand, REG, UNR, LOG, OUT, GSR, NewGroup, JoinGroup, GUR, dirVars, userVars
  <2>3. UNCHANGED <<login, member>>
    BY <2>2 DEF REG, groupVars
  <2> QED  BY <2>3 DEF RestartInv, NoGhostUsers
<1>2. RestartInv /\ [RestartNext]_restartVars => [A]_dirVars
  BY <1>1 DEF restartVars
<1> QED  BY <1>2, RestartInvariant, PTL DEF RestartSpec, FreshUserInheritsNothing

(* A group whose directory was not there begins with its creator alone, in    *)
(* every run: what a new group adopts is only what a killed run has left.     *)
THEOREM NewDirectoriesAreFresh == RestartSpec => NewGroupIsFresh
<1> DEFINE A == \A g \in groupDir' \ groupDir :
                   /\ Cardinality(member'[g]) = 1 /\ member'[g] \subseteq login'
                   /\ numMsg'[g] = 0 /\ msgDir'[g] = {}
<1>1. RestartInv /\ RestartNext => A
  <2> SUFFICES ASSUME RestartInv, RestartNext, NEW k \in groupDir' \ groupDir
               PROVE  /\ Cardinality(member'[k]) = 1 /\ member'[k] \subseteq login'
                      /\ numMsg'[k] = 0 /\ msgDir'[k] = {}
    OBVIOUS
  <2>1. UdpCommand
    BY DEF RestartNext, Command, Interrupted, Killed, Install, dirVars, groupVars
  <2>2. PICK u \in UidArg, g \in GidArg, n \in GNameArg : NewGroup(u, g, n)
    BY <2>1 DEF UdpCommand, REG, UNR, LOG, OUT, GSR, JoinGroup, GUR, dirVars, groupVars
  <2>3. u \in login /\ nGroups + 1 \in Gid
    BY <2>2, NewAccepted DEF NewGroup, RestartInv, RestartTypeOK, DirTypeOK
  <2>4. k = nGroups + 1  BY <2>2 DEF NewGroup, CreateGroup
  <2>5. member[k] = {} /\ msgDir[k] = {}
    BY <2>3, <2>4 DEF RestartInv, RestartTypeOK, DirTypeOK
  <2>6. member'[k] = {u} /\ numMsg'[k] = 0 /\ msgDir'[k] = {} /\ login' = login
    BY <2>2, <2>3, <2>4, <2>5 DEF NewGroup, CreateGroup, userVars, RestartInv, RestartTypeOK, DirTypeOK
  <2>7. Cardinality({u}) = 1  BY FS_Singleton
  <2> QED  BY <2>3, <2>6, <2>7
<1>2. RestartInv /\ [RestartNext]_restartVars => [A]_dirVars
  BY <1>1 DEF restartVars
<1> QED  BY <1>2, RestartInvariant, PTL DEF RestartSpec, NewGroupIsFresh
================================================================================
