-------------------------- MODULE SendQueueProofs --------------------------
(***************************************************************************)
(* Proofs about SendQueue: for any number of processes, the lists threaded *)
(* through the process table are well formed, and implement FifoQueues.    *)
(***************************************************************************)
EXTENDS SendQueue, FunctionTheorems, FiniteSetTheorems, SequenceTheorems,
        TLAPS

Size == Cardinality(Proc)

\* The equation that defines Hops, a list whose links are in link, and the
\* way they lead through it.
Steps(f, link, p) ==
    f = [n \in 0 .. Size |->
           IF n = 0 THEN p ELSE IF f[n - 1] = NULL THEN NULL ELSE link[f[n - 1]]]

Linked(l, link) ==
    /\ l \in Seq(Proc)
    /\ \A i, j \in 1 .. Len(l) : l[i] = l[j] => i = j
    /\ \A i \in 1 .. Len(l) : link[l[i]] = IF i = Len(l) THEN NULL ELSE l[i + 1]

HeadOf(l) == IF Len(l) = 0 THEN NULL ELSE l[1]
Path(l) == [n \in 0 .. Size |-> IF n < Len(l) THEN l[n + 1] ELSE NULL]

\* L[d] is the list of d: its head and links, whom it holds, and that those
\* who are on no list have no link.
Represents(L) ==
    /\ L = [d \in Proc |-> L[d]]
    /\ \A d \in Proc :
         /\ q_sending[d] = HeadOf(L[d])
         /\ Linked(L[d], next_sending)
         /\ \A i \in 1 .. Len(L[d]) : p_sendto[L[d][i]] = d
         /\ \A p \in Proc : p_sendto[p] = d => \E i \in 1 .. Len(L[d]) : L[d][i] = p
    /\ \A p \in Proc : p_sendto[p] = NULL => next_sending[p] = NULL

Lists == [d \in Proc |-> ListOf(d)]

ListTypes ==
    /\ q_sending \in [Proc -> Proc \cup {NULL}]
    /\ next_sending \in [Proc -> Proc \cup {NULL}]
    /\ p_sendto \in [Proc -> Proc \cup {NULL}]

QInv ==
    /\ ListTypes /\ Represents(Lists)
    /\ received \in (Proc \cup {ANY, NULL}) \X (Proc \cup {NULL})

-----------------------------------------------------------------------------
(* Following the links. *)

LEMMA SizeNat == Size \in Nat
BY FS_CardinalityType, NullAssumption DEF Size

\* A set of natural numbers that is not empty has a least element.
LEMMA LeastNat ==
    ASSUME NEW T \in SUBSET Nat, T # {}
    PROVE  \E x \in T : \A y \in T : x <= y
<1>1. PICK x \in T : \A y \in T : ~(<<y, x>> \in OpToRel(<, Nat))
  BY NatLessThanWellFounded, WFMin
<1>2. \A y \in T : ~(y < x) BY <1>1 DEF OpToRel
<1> QED BY <1>2

\* A function that satisfies the equation of Hops is Hops.
LEMMA HopsUnique ==
    ASSUME NEW link, NEW p, NEW g, Steps(g, link, p)
    PROVE  Hops(link, p) = g
<1>1. Hops(link, p) = CHOOSE f : Steps(f, link, p) BY DEF Hops, Size, Steps
<1>2. Steps(g, link, p) OBVIOUS
<1>3. Steps(Hops(link, p), link, p) BY Zenon, <1>1, <1>2
<1>4. PICK h : h = Hops(link, p) OBVIOUS
<1>5. Steps(h, link, p) BY <1>3, <1>4
<1>6. ASSUME NEW f, Steps(f, link, p)
      PROVE  /\ f = [n \in 0 .. Size |-> f[n]] /\ f[0] = p
             /\ \A n \in 1 .. Size : f[n] = IF f[n - 1] = NULL THEN NULL ELSE link[f[n - 1]]
  <2> DEFINE e(n) == IF n = 0 THEN p ELSE IF f[n - 1] = NULL THEN NULL ELSE link[f[n - 1]]
  <2>1. f = [n \in 0 .. Size |-> e(n)] BY <1>6 DEF Steps
  <2> HIDE DEF e
  <2>2. f = [n \in 0 .. Size |-> f[n]] BY <2>1
  <2>3. \A n \in 0 .. Size : f[n] = e(n) BY <2>1
  <2>4. f[0] = p BY <2>3, SizeNat DEF e
  <2>5. ASSUME NEW n \in 1 .. Size
        PROVE  f[n] = IF f[n - 1] = NULL THEN NULL ELSE link[f[n - 1]]
    <3>1. n \in 0 .. Size /\ n # 0 BY SizeNat
    <3> QED BY <2>3, <3>1 DEF e
  <2> QED BY <2>2, <2>4, <2>5
<1> DEFINE T == {n \in 0 .. Size : h[n] # g[n]}
<1>7. ASSUME T # {} PROVE FALSE
  <2>1. T \in SUBSET Nat BY SizeNat
  <2>2. PICK n \in T : \A m \in T : n <= m BY <1>7, <2>1, LeastNat
  <2>3. n # 0 BY <1>2, <1>5, <1>6, <2>2
  <2>4. n \in Nat /\ n <= Size BY <2>1, <2>2, SizeNat
  <2>5. n - 1 \in 0 .. Size /\ ~(n <= n - 1) BY <2>3, <2>4, SizeNat
  <2>6. h[n - 1] = g[n - 1] BY <2>2, <2>5
  <2>7. n \in 1 .. Size BY <2>3, <2>4, SizeNat
  <2>8. h[n] = IF h[n - 1] = NULL THEN NULL ELSE link[h[n - 1]] BY <1>5, <1>6, <2>7
  <2>9. g[n] = IF g[n - 1] = NULL THEN NULL ELSE link[g[n - 1]] BY <1>2, <1>6, <2>7
  <2> QED BY <2>2, <2>6, <2>8, <2>9
<1>8. \A n \in 0 .. Size : h[n] = g[n] BY <1>7
<1>9. h = g BY <1>2, <1>5, <1>6, <1>8
<1> QED BY <1>4, <1>9

\* A list with nobody twice is no longer than the table.
LEMMA ListFits ==
    ASSUME NEW l \in Seq(Proc), \A i, j \in 1 .. Len(l) : l[i] = l[j] => i = j
    PROVE  Len(l) \in 0 .. Size
<1>1. Len(l) \in Nat /\ l \in [1 .. Len(l) -> Proc] OBVIOUS
<1>2. IsFiniteSet(1 .. Len(l)) /\ Cardinality(1 .. Len(l)) = Len(l)
  BY <1>1, FS_Interval
<1>3. ~(Size < Len(l))
  BY <1>1, <1>2, NullAssumption, FS_PigeonHole DEF Size
<1> QED BY <1>1, <1>3, SizeNat

\* The links of a list lead through it, and then to NULL.
LEMMA HopsOfList ==
    ASSUME NEW link, NEW l, Linked(l, link)
    PROVE  Hops(link, HeadOf(l)) = Path(l)
<1>1. Len(l) \in Nat /\ Len(l) <= Size BY ListFits, SizeNat DEF Linked
<1>2. PICK g : g = Path(l) OBVIOUS
<1>3. /\ g = [n \in 0 .. Size |-> g[n]]
      /\ \A n \in 0 .. Size : g[n] = IF n < Len(l) THEN l[n + 1] ELSE NULL
  BY <1>2 DEF Path
<1>4. \A n \in 0 .. Size : n < Len(l) => l[n + 1] \in Proc /\ l[n + 1] # NULL
  BY <1>1, NullAssumption, SizeNat DEF Linked
<1> DEFINE e(n) == IF n = 0 THEN HeadOf(l) ELSE IF g[n - 1] = NULL THEN NULL ELSE link[g[n - 1]]
<1>5. ASSUME NEW n \in 0 .. Size PROVE g[n] = e(n)
  <2>1. CASE n = 0 BY <1>1, <1>3, <2>1, SizeNat DEF HeadOf
  <2>2. CASE n # 0
    <3>1. n - 1 \in 0 .. Size /\ n \in Nat /\ n - 1 \in Nat /\ (n - 1) + 1 = n BY <2>2, SizeNat
    <3>2. CASE n - 1 < Len(l)
      <4>1. g[n - 1] = l[n] /\ g[n - 1] # NULL BY <1>3, <1>4, <3>1, <3>2
      <4>2. n \in 1 .. Len(l) BY <1>1, <2>2, <3>1, <3>2
      <4>3. link[l[n]] = IF n = Len(l) THEN NULL ELSE l[n + 1] BY <4>2 DEF Linked
      <4>4. n < Len(l) <=> n # Len(l) BY <1>1, <4>2
      <4> QED BY <1>3, <2>2, <4>1, <4>3, <4>4
    <3>3. CASE ~(n - 1 < Len(l))
      <4>1. g[n - 1] = NULL /\ ~(n < Len(l)) BY <1>1, <1>3, <3>1, <3>3
      <4> QED BY <1>3, <2>2, <4>1
    <3> QED BY <3>2, <3>3
  <2> QED BY <2>1, <2>2
<1> HIDE DEF e
<1>6. g = [n \in 0 .. Size |-> e(n)] BY <1>3, <1>5
<1>7. Steps(g, link, HeadOf(l)) BY <1>6 DEF Steps, e
<1> QED BY <1>2, <1>7, HopsUnique

\* What the places of a path are.
LEMMA PathPlaces ==
    ASSUME NEW link, NEW l, Linked(l, link)
    PROVE  /\ Len(l) \in 0 .. Size
           /\ DOMAIN Path(l) = 0 .. Size
           /\ \A n \in 0 .. Size : Path(l)[n] # NULL <=> n < Len(l)
           /\ \A n \in 0 .. Size : n < Len(l) => n + 1 \in 1 .. Len(l) /\ Path(l)[n] = l[n + 1]
<1>1. Len(l) \in Nat /\ Len(l) <= Size BY ListFits, SizeNat DEF Linked
<1>2. \A n \in 0 .. Size : n < Len(l) => n + 1 \in 1 .. Len(l) /\ l[n + 1] \in Proc /\ l[n + 1] # NULL
  BY <1>1, NullAssumption, SizeNat DEF Linked
<1> QED BY <1>1, <1>2, SizeNat DEF Path

\* The sequence that ListOf reads off the links.
LEMMA ListOfPath ==
    ASSUME NEW link, NEW l, Linked(l, link), NEW nth, nth = Path(l)
    PROVE  /\ Cardinality({n \in DOMAIN nth : nth[n] # NULL}) = Len(l)
           /\ [i \in 1 .. Cardinality({n \in DOMAIN nth : nth[n] # NULL}) |-> nth[i - 1]] = l
           /\ nth[Size] = NULL
<1>1. Len(l) \in Nat /\ Len(l) <= Size BY ListFits, SizeNat DEF Linked
<1>2. /\ DOMAIN nth = 0 .. Size
      /\ \A n \in 0 .. Size : nth[n] # NULL <=> n < Len(l)
      /\ \A n \in 0 .. Size : n < Len(l) => nth[n] = l[n + 1]
  BY PathPlaces
<1>4. {n \in DOMAIN nth : nth[n] # NULL} = 0 .. Len(l) - 1 BY <1>1, <1>2, SizeNat
<1>5. Cardinality(0 .. Len(l) - 1) = Len(l)
  <2>1. Len(l) - 1 \in Int /\ 0 \in Int BY <1>1
  <2>2. Cardinality(0 .. Len(l) - 1) = IF 0 > Len(l) - 1 THEN 0 ELSE Len(l) - 1 - 0 + 1
    BY <2>1, FS_Interval
  <2> QED BY <1>1, <2>2
<1>6. Cardinality({n \in DOMAIN nth : nth[n] # NULL}) = Len(l) BY Zenon, <1>4, <1>5
<1>7. \A i \in 1 .. Len(l) : nth[i - 1] = l[i]
  <2> SUFFICES ASSUME NEW i \in 1 .. Len(l) PROVE nth[i - 1] = l[i] OBVIOUS
  <2>1. i - 1 \in 0 .. Size /\ i - 1 < Len(l) /\ (i - 1) + 1 = i BY <1>1, SizeNat
  <2> QED BY <1>2, <2>1
<1>8. l = [i \in 1 .. Len(l) |-> l[i]] BY DEF Linked
<1>9. [i \in 1 .. Len(l) |-> nth[i - 1]] = l BY <1>7, <1>8
<1>10. nth[Size] = NULL BY <1>1, <1>2, SizeNat
<1> QED BY Zenon, <1>6, <1>9, <1>10

\* ListOf reads a list off its links.
LEMMA ListFromLinked ==
    ASSUME NEW link, NEW l, Linked(l, link)
    PROVE  /\ ListFrom(link, HeadOf(l)) = l
           /\ Hops(link, HeadOf(l))[Size] = NULL
<1>1. PICK nth : nth = Hops(link, HeadOf(l)) OBVIOUS
<1>2. nth = Path(l) BY <1>1, HopsOfList
<1>3. /\ [i \in 1 .. Cardinality({n \in DOMAIN nth : nth[n] # NULL}) |-> nth[i - 1]] = l
      /\ nth[Size] = NULL
  BY <1>2, ListOfPath
<1>4. ListFrom(link, HeadOf(l)) = l BY <1>1, <1>3 DEF ListFrom
<1> QED BY <1>1, <1>3, <1>4

\* What represents the lists are the lists, in a state and in the next.
LEMMA ListsAre ==
    ASSUME NEW L
    PROVE  /\ Represents(L) => Lists = L
           /\ Represents(L)' => Lists' = L
<1>1. ASSUME Represents(L) PROVE Lists = L
  <2>1. \A d \in Proc : ListOf(d) = L[d] BY <1>1, ListFromLinked DEF Represents, ListOf
  <2> QED BY <1>1, <2>1 DEF Lists, Represents
<1>2. ASSUME Represents(L)' PROVE Lists' = L
  <2>1. \A d \in Proc : ListOf(d)' = L[d] BY <1>2, ListFromLinked DEF Represents, ListOf
  <2> QED BY <1>2, <2>1 DEF Lists, Represents
<1> QED BY <1>1, <1>2

\* Where the loop of msg_send() stops.
LEMMA TailFound ==
    ASSUME NEW l, Linked(l, next_sending), Len(l) > 0
    PROVE  Tail_of(HeadOf(l)) = l[Len(l)]
<1>1. PICK nth : nth = Hops(next_sending, HeadOf(l)) OBVIOUS
<1>2. nth = Path(l) BY <1>1, HopsOfList
<1>3. /\ Len(l) \in 0 .. Size /\ DOMAIN nth = 0 .. Size
      /\ \A n \in 0 .. Size : nth[n] # NULL <=> n < Len(l)
      /\ \A n \in 0 .. Size : n < Len(l) => n + 1 \in 1 .. Len(l) /\ nth[n] = l[n + 1]
  BY <1>2, PathPlaces
<1> DEFINE Last(n) == nth[n] # NULL /\ next_sending[nth[n]] = NULL
<1>4. \A i \in 1 .. Len(l) : i # Len(l) => l[i + 1] # NULL
  BY NullAssumption DEF Linked
<1>5. ASSUME NEW n \in 0 .. Size PROVE Last(n) <=> n = Len(l) - 1
  <2>1. CASE n < Len(l)
    <3>1. /\ nth[n] # NULL /\ n + 1 \in 1 .. Len(l)
          /\ next_sending[nth[n]] = IF n + 1 = Len(l) THEN NULL ELSE l[(n + 1) + 1]
      BY <1>3, <2>1 DEF Linked
    <3>2. n + 1 = Len(l) <=> n = Len(l) - 1 BY <1>3, SizeNat
    <3> QED BY <1>4, <3>1, <3>2
  <2>2. CASE ~(n < Len(l)) BY <1>3, <2>2, SizeNat
  <2> QED BY <2>1, <2>2
<1>6. Len(l) - 1 \in 0 .. Size /\ Len(l) - 1 < Len(l) /\ (Len(l) - 1) + 1 = Len(l)
  BY <1>3, SizeNat
<1> HIDE DEF Last
<1>7. (CHOOSE n \in DOMAIN nth : Last(n)) = Len(l) - 1 BY <1>3, <1>5, <1>6
<1>8. Tail_of(HeadOf(l)) = nth[CHOOSE n \in DOMAIN nth : Last(n)] BY <1>1 DEF Tail_of, Last
<1> QED BY <1>3, <1>6, <1>7, <1>8

\* The node before the k-th, which the loop of msg_receive() leaves in prev.
LEMMA PrevFound ==
    ASSUME NEW l, Linked(l, next_sending), NEW k \in 2 .. Len(l)
    PROVE  Prev_of(HeadOf(l), l[k]) = l[k - 1]
<1>1. PICK nth : nth = Hops(next_sending, HeadOf(l)) OBVIOUS
<1>2. nth = Path(l) BY <1>1, HopsOfList
<1>3. /\ Len(l) \in 0 .. Size /\ DOMAIN nth = 0 .. Size
      /\ \A n \in 0 .. Size : nth[n] # NULL <=> n < Len(l)
      /\ \A n \in 0 .. Size : n < Len(l) => n + 1 \in 1 .. Len(l) /\ nth[n] = l[n + 1]
  BY <1>2, PathPlaces
<1> DEFINE Before(n) == nth[n] # NULL /\ next_sending[nth[n]] = l[k]
<1>4. k \in 1 .. Len(l) /\ l[k] # NULL BY <1>3, NullAssumption DEF Linked
<1>5. ASSUME NEW n \in 0 .. Size PROVE Before(n) <=> n = k - 2
  <2>1. CASE n < Len(l)
    <3>1. /\ nth[n] # NULL /\ n + 1 \in 1 .. Len(l)
          /\ next_sending[nth[n]] = IF n + 1 = Len(l) THEN NULL ELSE l[(n + 1) + 1]
      BY <1>3, <2>1 DEF Linked
    <3>2. CASE n + 1 = Len(l) BY <1>3, <1>4, <3>1, <3>2, SizeNat
    <3>3. CASE n + 1 # Len(l)
      <4>1. (n + 1) + 1 \in 1 .. Len(l) BY <1>3, <2>1, <3>3, SizeNat
      <4>2. l[(n + 1) + 1] = l[k] <=> (n + 1) + 1 = k BY <1>4, <4>1 DEF Linked
      <4>3. (n + 1) + 1 = k <=> n = k - 2 BY <1>3, SizeNat
      <4> QED BY <3>1, <3>3, <4>2, <4>3
    <3> QED BY <3>2, <3>3
  <2>2. CASE ~(n < Len(l)) BY <1>3, <2>2, SizeNat
  <2> QED BY <2>1, <2>2
<1>6. k - 2 \in 0 .. Size /\ k - 2 < Len(l) /\ (k - 2) + 1 = k - 1 BY <1>3, SizeNat
<1> HIDE DEF Before
<1>7. (CHOOSE n \in DOMAIN nth : Before(n)) = k - 2 BY <1>3, <1>5, <1>6
<1>8. Prev_of(HeadOf(l), l[k]) = nth[CHOOSE n \in DOMAIN nth : Before(n)] BY <1>1 DEF Prev_of, Before
<1> QED BY <1>3, <1>6, <1>7, <1>8

-----------------------------------------------------------------------------
(* The steps of the lists. *)

\* Putting a process at the end of a sequence.
LEMMA AppendPlaces ==
    ASSUME NEW l \in Seq(Proc), NEW p \in Proc, NEW m, m = Append(l, p)
    PROVE  /\ m \in Seq(Proc) /\ Len(m) = Len(l) + 1 /\ Len(l) \in Nat
           /\ \A i \in 1 .. Len(l) : m[i] = l[i]
           /\ m[Len(l) + 1] = p
  OBVIOUS

\* Taking the k-th process out of a sequence closes the gap.
LEMMA RemovePlaces ==
    ASSUME NEW l \in Seq(Proc), NEW k \in 1 .. Len(l), NEW m, m = F!RemoveAt(l, k)
    PROVE  /\ m \in Seq(Proc) /\ Len(m) = Len(l) - 1 /\ Len(l) \in Nat
           /\ \A j \in 1 .. Len(m) : m[j] = IF j < k THEN l[j] ELSE l[j + 1]
<1> DEFINE a == SubSeq(l, 1, k - 1)
           b == SubSeq(l, k + 1, Len(l))
<1>1. Len(l) \in Nat /\ k \in 1 .. Len(l) OBVIOUS
<1>2. /\ a \in Seq(Proc) /\ Len(a) = k - 1
      /\ \A j \in 1 .. k - 1 : a[j] = l[j]
  BY <1>1
<1>3. /\ b \in Seq(Proc) /\ Len(b) = Len(l) - k
      /\ \A j \in 1 .. Len(l) - k : b[j] = l[k + j]
  BY <1>1
<1>4. m = a \o b BY DEF F!RemoveAt
<1> HIDE DEF a, b
<1>5. /\ m \in Seq(Proc) /\ Len(m) = Len(a) + Len(b)
      /\ \A j \in 1 .. Len(a) + Len(b) : m[j] = IF j <= Len(a) THEN a[j] ELSE b[j - Len(a)]
  <2>1. /\ a \o b \in Seq(Proc) /\ Len(a \o b) = Len(a) + Len(b)
        /\ \A j \in 1 .. Len(a) + Len(b) :
             (a \o b)[j] = IF j <= Len(a) THEN a[j] ELSE b[j - Len(a)]
    BY <1>2, <1>3, ConcatProperties
  <2> QED BY Zenon, <1>4, <2>1
<1>6. Len(m) = Len(l) - 1 BY <1>1, <1>2, <1>3, <1>5
<1>7. ASSUME NEW j \in 1 .. Len(m) PROVE m[j] = IF j < k THEN l[j] ELSE l[j + 1]
  <2>1. j \in 1 .. Len(a) + Len(b) BY <1>5
  <2>2. CASE j < k BY <1>1, <1>2, <1>5, <2>1, <2>2
  <2>3. CASE ~(j < k)
    <3>1. ~(j <= Len(a)) /\ j - Len(a) \in 1 .. Len(l) - k /\ k + (j - Len(a)) = j + 1
      BY <1>1, <1>2, <1>6, <2>3
    <3> QED BY <1>3, <1>5, <2>1, <2>3, <3>1
  <2> QED BY <2>2, <2>3
<1> QED BY <1>1, <1>5, <1>6, <1>7

\* Who is where: a process is on the list of the one it is sending to only.
LEMMA OnOneList ==
    ASSUME NEW L, Represents(L)
    PROVE  /\ \A d \in Proc : L[d] \in Seq(Proc) /\ Len(L[d]) \in Nat
           /\ \A d, e \in Proc : \A i \in 1 .. Len(L[d]), j \in 1 .. Len(L[e]) :
                L[d][i] = L[e][j] => d = e /\ i = j
           /\ \A d \in Proc : \A i \in 1 .. Len(L[d]) :
                L[d][i] \in Proc /\ L[d][i] # NULL /\ p_sendto[L[d][i]] # NULL
<1>1. \A d \in Proc : L[d] \in Seq(Proc) /\ Len(L[d]) \in Nat
  BY DEF Represents, Linked
<1>2. ASSUME NEW d \in Proc, NEW e \in Proc, NEW i \in 1 .. Len(L[d]), NEW j \in 1 .. Len(L[e]),
             L[d][i] = L[e][j]
      PROVE  d = e /\ i = j
  <2>1. p_sendto[L[d][i]] = d /\ p_sendto[L[e][j]] = e BY DEF Represents
  <2>2. d = e BY <1>2, <2>1
  <2> QED BY <1>2, <2>2 DEF Represents, Linked
<1>3. \A d \in Proc : \A i \in 1 .. Len(L[d]) :
        L[d][i] \in Proc /\ L[d][i] # NULL /\ p_sendto[L[d][i]] # NULL
  BY <1>1, NullAssumption DEF Represents
<1> QED BY <1>1, <1>2, <1>3

\* msg_send() puts the sender at the end of the list of the destination.
LEMMA AppendStep ==
    ASSUME ListTypes, NEW L, Represents(L), NEW p \in Proc, NEW d \in Proc \ {p},
           p_sendto[p] = NULL, Append_sender(p, d)
    PROVE  ListTypes' /\ Represents([L EXCEPT ![d] = Append(@, p)])'
<1> DEFINE l == L[d]  m == Append(l, p)
<1>1. PICK L1 : L1 = [L EXCEPT ![d] = Append(@, p)] OBVIOUS
<1>2. L = [e \in Proc |-> L[e]] BY DEF Represents
<1>3. L1[d] = m /\ (\A e \in Proc \ {d} : L1[e] = L[e]) /\ L1 = [e \in Proc |-> L1[e]]
  BY <1>1, <1>2
<1>4. /\ l \in Seq(Proc) /\ Len(l) \in Nat
      /\ \A i \in 1 .. Len(l) : l[i] \in Proc /\ l[i] # NULL /\ l[i] # p
  BY OnOneList
<1>5. /\ m \in Seq(Proc) /\ Len(m) = Len(l) + 1
      /\ \A i \in 1 .. Len(l) : m[i] = l[i]
      /\ m[Len(l) + 1] = p
  BY <1>4, AppendPlaces
<1>6. q_sending[d] = HeadOf(l) /\ Linked(l, next_sending) BY DEF Represents
<1> HIDE DEF m
<1>7. p_sendto' = [p_sendto EXCEPT ![p] = d] BY DEF Append_sender
<1>8. /\ ListTypes'
      /\ \A y \in Proc : next_sending'[y] =
           IF y = p THEN NULL ELSE IF Len(l) > 0 /\ y = l[Len(l)] THEN p ELSE next_sending[y]
      /\ \A e \in Proc : q_sending'[e] = HeadOf(L1[e])
  <2>1. HeadOf(m) = IF Len(l) = 0 THEN p ELSE HeadOf(l) BY <1>4, <1>5 DEF HeadOf
  <2>2. p_sendto' \in [Proc -> Proc \cup {NULL}] BY <1>7 DEF ListTypes
  <2>3. \A e \in Proc \ {d} : q_sending[e] = HeadOf(L1[e]) BY <1>3 DEF Represents
  <2>4. CASE Len(l) = 0
    <3>1. q_sending[d] = NULL BY <1>6, <2>4 DEF HeadOf
    <3>2. /\ q_sending' = [q_sending EXCEPT ![d] = p]
          /\ next_sending' = [next_sending EXCEPT ![p] = NULL]
      BY <3>1 DEF Append_sender
    <3>3. ListTypes' BY <2>2, <3>2 DEF ListTypes
    <3>4. \A e \in Proc : q_sending'[e] = HeadOf(L1[e]) BY <1>3, <2>1, <2>3, <2>4, <3>2 DEF ListTypes
    <3> QED BY <2>4, <3>2, <3>3, <3>4 DEF ListTypes
  <2>5. CASE Len(l) # 0
    <3>0. Len(l) > 0 /\ Len(l) \in 1 .. Len(l) /\ 1 \in 1 .. Len(l) BY <1>4, <2>5
    <3>1. q_sending[d] # NULL BY <1>4, <1>6, <2>5, <3>0 DEF HeadOf
    <3>2. PICK t : t = Tail_of(q_sending[d]) OBVIOUS
    <3>3. t = l[Len(l)] BY <1>6, <3>0, <3>2, TailFound
    <3>4. t \in Proc /\ t # p BY <1>4, <3>0, <3>3
    <3>5. /\ q_sending' = q_sending
          /\ next_sending' = [next_sending EXCEPT ![t] = p, ![p] = NULL]
      BY <3>1, <3>2 DEF Append_sender
    <3>6. ListTypes' BY <2>2, <3>5 DEF ListTypes
    <3>7. \A e \in Proc : q_sending'[e] = HeadOf(L1[e]) BY <1>3, <1>6, <2>1, <2>3, <2>5, <3>5
    <3> QED BY <3>0, <3>3, <3>4, <3>5, <3>6, <3>7 DEF ListTypes
  <2> QED BY <2>4, <2>5
<1>9. \A y \in Proc : p_sendto'[y] = IF y = p THEN d ELSE p_sendto[y] BY <1>7 DEF ListTypes
<1>10. Linked(m, next_sending')
  <2>1. ASSUME NEW i \in 1 .. Len(m), NEW j \in 1 .. Len(m), m[i] = m[j] PROVE i = j
    <3>1. (i \in 1 .. Len(l) \/ i = Len(l) + 1) /\ (j \in 1 .. Len(l) \/ j = Len(l) + 1)
      BY <1>4, <1>5
    <3>2. CASE i \in 1 .. Len(l) /\ j \in 1 .. Len(l) BY <1>5, <1>6, <2>1, <3>2 DEF Linked
    <3>3. CASE ~(i \in 1 .. Len(l) /\ j \in 1 .. Len(l)) BY <1>4, <1>5, <2>1, <3>1, <3>3
    <3> QED BY <3>2, <3>3
  <2>2. ASSUME NEW i \in 1 .. Len(m)
        PROVE  next_sending'[m[i]] = IF i = Len(m) THEN NULL ELSE m[i + 1]
    <3>1. CASE i = Len(m) BY <1>4, <1>5, <1>8, <3>1
    <3>2. CASE i # Len(m)
      <4>1. i \in 1 .. Len(l) /\ Len(l) > 0 /\ Len(l) \in 1 .. Len(l) BY <1>4, <1>5, <3>2
      <4>2. m[i] = l[i] /\ l[i] \in Proc /\ l[i] # p BY <1>4, <1>5, <4>1
      <4>3. l[i] = l[Len(l)] <=> i = Len(l) BY <1>6, <4>1 DEF Linked
      <4>4. CASE i = Len(l) BY <1>5, <1>8, <3>2, <4>1, <4>2, <4>3, <4>4
      <4>5. CASE i # Len(l)
        <5>1. next_sending'[m[i]] = next_sending[l[i]] BY <1>8, <4>2, <4>3, <4>5
        <5>2. next_sending[l[i]] = l[i + 1] BY <1>6, <4>1, <4>5 DEF Linked
        <5>3. i + 1 \in 1 .. Len(l) BY <1>4, <4>1, <4>5
        <5> QED BY <1>5, <3>2, <5>1, <5>2, <5>3
      <4> QED BY <4>4, <4>5
    <3> QED BY <3>1, <3>2
  <2> QED BY <1>5, <2>1, <2>2 DEF Linked
<1>11. ASSUME NEW e \in Proc \ {d}
       PROVE  /\ Linked(L[e], next_sending')
              /\ \A i \in 1 .. Len(L[e]) : p_sendto'[L[e][i]] = e
              /\ \A y \in Proc : p_sendto'[y] = e => \E i \in 1 .. Len(L[e]) : L[e][i] = y
  <2>1. /\ Linked(L[e], next_sending)
        /\ \A i \in 1 .. Len(L[e]) : p_sendto[L[e][i]] = e
        /\ \A y \in Proc : p_sendto[y] = e => \E i \in 1 .. Len(L[e]) : L[e][i] = y
    BY DEF Represents
  <2>2. ASSUME NEW i \in 1 .. Len(L[e])
        PROVE  L[e][i] \in Proc /\ L[e][i] # p /\ ~(Len(l) > 0 /\ L[e][i] = l[Len(l)])
    <3>1. L[e][i] \in Proc /\ L[e][i] # p BY OnOneList
    <3>2. ASSUME Len(l) > 0 PROVE L[e][i] # l[Len(l)]
      <4>1. Len(l) \in 1 .. Len(l) BY <1>4, <3>2
      <4> QED BY <4>1, OnOneList
    <3> QED BY <3>1, <3>2
  <2>3. \A i \in 1 .. Len(L[e]) : next_sending'[L[e][i]] = next_sending[L[e][i]] BY <1>8, <2>2
  <2>4. \A i \in 1 .. Len(L[e]) : p_sendto'[L[e][i]] = p_sendto[L[e][i]] BY <1>9, <2>2
  <2>5. Linked(L[e], next_sending') BY <2>1, <2>3 DEF Linked
  <2> QED BY <1>9, <2>1, <2>4, <2>5
<1>12. /\ \A i \in 1 .. Len(m) : p_sendto'[m[i]] = d
       /\ \A y \in Proc : p_sendto'[y] = d => \E i \in 1 .. Len(m) : m[i] = y
  <2>1. /\ \A i \in 1 .. Len(l) : p_sendto[l[i]] = d
        /\ \A y \in Proc : p_sendto[y] = d => \E i \in 1 .. Len(l) : l[i] = y
    BY DEF Represents
  <2>2. ASSUME NEW i \in 1 .. Len(m) PROVE p_sendto'[m[i]] = d
    <3>1. i \in 1 .. Len(l) \/ i = Len(l) + 1 BY <1>4, <1>5
    <3> QED BY <1>4, <1>5, <1>9, <2>1, <3>1
  <2>3. ASSUME NEW y \in Proc, p_sendto'[y] = d PROVE \E i \in 1 .. Len(m) : m[i] = y
    <3>1. CASE y = p
      <4>1. Len(l) + 1 \in 1 .. Len(m) BY <1>4, <1>5
      <4> QED BY <1>5, <3>1, <4>1
    <3>2. CASE y # p
      <4>1. PICK i \in 1 .. Len(l) : l[i] = y BY <1>9, <2>1, <2>3, <3>2
      <4>2. i \in 1 .. Len(m) /\ m[i] = y BY <1>4, <1>5, <4>1
      <4> QED BY <4>2
    <3> QED BY <3>1, <3>2
  <2> QED BY <2>2, <2>3
<1>13. \A y \in Proc : p_sendto'[y] = NULL => next_sending'[y] = NULL
  <2> SUFFICES ASSUME NEW y \in Proc, p_sendto'[y] = NULL PROVE next_sending'[y] = NULL OBVIOUS
  <2>1. y # p /\ p_sendto[y] = NULL BY <1>9, NullAssumption
  <2>2. next_sending[y] = NULL BY <2>1 DEF Represents
  <2>3. ASSUME Len(l) > 0 PROVE y # l[Len(l)]
    <3>1. Len(l) \in 1 .. Len(l) BY <1>4, <2>3
    <3> QED BY <2>1, <3>1, OnOneList
  <2> QED BY <1>8, <2>1, <2>2, <2>3
<1>14. ASSUME NEW e \in Proc
       PROVE  /\ q_sending'[e] = HeadOf(L1[e])
              /\ Linked(L1[e], next_sending')
              /\ \A i \in 1 .. Len(L1[e]) : p_sendto'[L1[e][i]] = e
              /\ \A y \in Proc : p_sendto'[y] = e => \E i \in 1 .. Len(L1[e]) : L1[e][i] = y
  <2>1. CASE e = d BY <1>3, <1>8, <1>10, <1>12, <2>1
  <2>2. CASE e # d BY <1>3, <1>8, <1>11, <2>2
  <2> QED BY <2>1, <2>2
<1>15. Represents(L1)' BY <1>3, <1>13, <1>14 DEF Represents
<1> QED BY <1>1, <1>8, <1>15

\* msg_receive() takes the sender it serves out of its list.
LEMMA UnlinkStep ==
    ASSUME ListTypes, NEW L, Represents(L), NEW p \in Proc, NEW src \in (Proc \ {p}) \cup {ANY},
           Unlink_sender(p, src)
    PROVE  /\ ListTypes'
           /\ \E k \in 1 .. Len(L[p]) :
                 /\ Represents([L EXCEPT ![p] = F!RemoveAt(@, k)])'
                 /\ L[p][k] \in Proc /\ P_from(p, src) = L[p][k]
                 /\ IF src = ANY THEN k = 1 ELSE src = L[p][k]
<1> DEFINE l == L[p]
<1>1. PICK x : x = P_from(p, src) OBVIOUS
<1>2. L = [e \in Proc |-> L[e]] BY DEF Represents
<1>3. /\ l \in Seq(Proc) /\ Len(l) \in Nat
      /\ \A i \in 1 .. Len(l) : l[i] \in Proc /\ l[i] # NULL /\ p_sendto[l[i]] = p
      /\ \A i, j \in 1 .. Len(l) : l[i] = l[j] => i = j
  BY OnOneList DEF Represents
<1>4. q_sending[p] = HeadOf(l) /\ Linked(l, next_sending) BY DEF Represents
<1>5. x # NULL BY <1>1 DEF Unlink_sender
<1>6. PICK k \in 1 .. Len(l) : l[k] = x /\ (IF src = ANY THEN k = 1 ELSE src = l[k])
  <2>1. CASE src = ANY
    <3>1. x = HeadOf(l) BY <1>1, <1>4, <2>1 DEF P_from
    <3>2. 1 \in 1 .. Len(l) /\ l[1] = x BY <1>3, <1>5, <3>1 DEF HeadOf
    <3> QED BY <2>1, <3>2
  <2>2. CASE src # ANY
    <3>1. src \in Proc /\ x = src /\ p_sendto[src] = p BY <1>1, <1>5, <2>2 DEF P_from
    <3> QED BY <2>2, <3>1 DEF Represents
  <2> QED BY <2>1, <2>2
<1>7. x \in Proc /\ p_sendto[x] = p /\ k \in Nat BY <1>3, <1>6
<1>8. PICK m : m = F!RemoveAt(l, k) OBVIOUS
<1>9. /\ m \in Seq(Proc) /\ Len(m) = Len(l) - 1
      /\ \A j \in 1 .. Len(m) : m[j] = IF j < k THEN l[j] ELSE l[j + 1]
  BY <1>3, <1>8, RemovePlaces
<1>10. PICK L1 : L1 = [L EXCEPT ![p] = F!RemoveAt(@, k)] OBVIOUS
<1>11. L1[p] = m /\ (\A e \in Proc \ {p} : L1[e] = L[e]) /\ L1 = [e \in Proc |-> L1[e]]
  BY <1>2, <1>8, <1>10
<1>12. p_sendto' = [p_sendto EXCEPT ![x] = NULL] BY <1>1 DEF Unlink_sender
<1>13. \A y \in Proc : p_sendto'[y] = IF y = x THEN NULL ELSE p_sendto[y] BY <1>12 DEF ListTypes
<1>14. next_sending[x] = IF k = Len(l) THEN NULL ELSE l[k + 1] BY <1>4, <1>6 DEF Linked
<1>15. /\ ListTypes'
       /\ \A y \in Proc : next_sending'[y] =
            IF y = x THEN NULL ELSE IF k > 1 /\ y = l[k - 1] THEN next_sending[x] ELSE next_sending[y]
       /\ \A e \in Proc : q_sending'[e] = HeadOf(L1[e])
  <2>1. p_sendto' \in [Proc -> Proc \cup {NULL}] BY <1>12 DEF ListTypes
  <2>2. \A e \in Proc \ {p} : q_sending[e] = HeadOf(L1[e]) BY <1>11 DEF Represents
  <2>3. q_sending[p] = l[1] /\ 1 \in 1 .. Len(l) BY <1>3, <1>4, <1>6 DEF HeadOf
  <2>4. CASE k = 1
    <3>1. x = q_sending[p] BY <1>6, <2>3, <2>4
    <3>2. /\ q_sending' = [q_sending EXCEPT ![p] = next_sending[x]]
          /\ next_sending' = [next_sending EXCEPT ![x] = NULL]
      BY <1>1, <3>1 DEF Unlink_sender
    <3>3. ListTypes' BY <1>7, <2>1, <3>2 DEF ListTypes
    <3>4. HeadOf(m) = next_sending[x]
      <4>1. CASE Len(l) = 1 BY <1>3, <1>9, <1>14, <2>4, <4>1 DEF HeadOf
      <4>2. CASE Len(l) # 1
        <5>0. Len(l) > 1
          <6>1. PICK n : n = Len(l) OBVIOUS
          <6>2. n \in Nat /\ k \in 1 .. n /\ n # 1 BY <1>3, <1>6, <4>2, <6>1
          <6>3. n > 1 BY <6>2
          <6> QED BY <6>1, <6>3
        <5>1. 1 \in 1 .. Len(m) /\ Len(m) # 0 BY <1>3, <1>9, <5>0
        <5>2. m[1] = l[2] BY <1>9, <2>4, <5>1
        <5> QED BY <1>14, <2>4, <4>2, <5>1, <5>2 DEF HeadOf
      <4> QED BY <4>1, <4>2
    <3>5. \A e \in Proc : q_sending'[e] = HeadOf(L1[e]) BY <1>11, <2>2, <3>2, <3>4 DEF ListTypes
    <3> QED BY <2>4, <3>2, <3>3, <3>5 DEF ListTypes
  <2>5. CASE k # 1
    <3>0. k \in 2 .. Len(l) /\ k > 1 /\ k - 1 \in 1 .. Len(l) /\ k # k - 1 BY <1>3, <1>6, <2>5
    <3>1. x # q_sending[p] BY <1>3, <1>6, <2>3, <2>5
    <3>2. PICK t : t = Prev_of(q_sending[p], x) OBVIOUS
    <3>3. t = l[k - 1] BY <1>4, <1>6, <3>0, <3>2, PrevFound
    <3>4. t \in Proc /\ t # x BY <1>3, <1>6, <3>0, <3>3
    <3>5. /\ q_sending' = q_sending
          /\ next_sending' = [next_sending EXCEPT ![t] = next_sending[x], ![x] = NULL]
      BY <1>1, <3>1, <3>2 DEF Unlink_sender
    <3>6. ListTypes' BY <1>7, <2>1, <3>5 DEF ListTypes
    <3>7. HeadOf(m) = q_sending[p]
      <4>1. 1 \in 1 .. Len(m) /\ Len(m) # 0 /\ 1 < k BY <1>3, <1>9, <3>0
      <4> QED BY <1>9, <2>3, <4>1 DEF HeadOf
    <3>8. \A e \in Proc : q_sending'[e] = HeadOf(L1[e]) BY <1>11, <2>2, <3>5, <3>7
    <3> QED BY <3>0, <3>3, <3>4, <3>5, <3>6, <3>8 DEF ListTypes
  <2> QED BY <2>4, <2>5
<1>16. ASSUME NEW j \in 1 .. Len(m)
       PROVE  \E i \in 1 .. Len(l) : /\ i = (IF j < k THEN j ELSE j + 1) /\ i # k
                                     /\ m[j] = l[i] /\ m[j] \in Proc /\ m[j] # x
  <2> DEFINE i == IF j < k THEN j ELSE j + 1
  <2>1. i \in 1 .. Len(l) /\ i # k BY <1>3, <1>7, <1>9
  <2>2. m[j] = l[i] BY <1>9
  <2> QED BY <1>3, <1>6, <2>1, <2>2
<1>17. Linked(m, next_sending')
  <2>1. ASSUME NEW i \in 1 .. Len(m), NEW j \in 1 .. Len(m), m[i] = m[j] PROVE i = j
    <3>1. (IF i < k THEN i ELSE i + 1) = IF j < k THEN j ELSE j + 1 BY <1>3, <1>16, <2>1
    <3> QED BY <1>3, <1>7, <1>9, <3>1
  <2>2. ASSUME NEW j \in 1 .. Len(m)
        PROVE  next_sending'[m[j]] = IF j = Len(m) THEN NULL ELSE m[j + 1]
    <3>1. PICK i \in 1 .. Len(l) : /\ i = (IF j < k THEN j ELSE j + 1) /\ i # k
                                   /\ m[j] = l[i] /\ m[j] \in Proc /\ m[j] # x
      BY <1>16
    <3>2. j \in Nat /\ j >= 1 /\ j <= Len(m) /\ Len(m) \in Nat BY <1>3, <1>6, <1>9
    <3>3. next_sending[l[i]] = IF i = Len(l) THEN NULL ELSE l[i + 1] BY <1>4 DEF Linked
    <3>4. j # Len(m) => m[j + 1] = IF j + 1 < k THEN l[j + 1] ELSE l[(j + 1) + 1]
      <4>1. j # Len(m) => j + 1 \in 1 .. Len(m) BY <3>2
      <4> QED BY <1>9, <4>1
    <3>5. CASE k > 1 /\ i = k - 1
      <4>1. next_sending'[m[j]] = next_sending[x] BY <1>15, <3>1, <3>5
      <4>2. j = k - 1 BY <1>7, <3>1, <3>2, <3>5
      <4>3. k = Len(l) <=> j = Len(m) BY <1>3, <1>9, <4>2
      <4>4. ~(j + 1 < k) /\ (j + 1) + 1 = k + 1 BY <1>7, <4>2
      <4> QED BY <1>14, <3>4, <4>1, <4>3, <4>4
    <3>6. CASE ~(k > 1 /\ i = k - 1)
      <4>1. ASSUME k > 1 PROVE l[i] # l[k - 1]
        <5>1. k - 1 \in 1 .. Len(l) BY <1>3, <1>7, <4>1
        <5> QED BY <1>3, <3>6, <4>1, <5>1
      <4>2. next_sending'[m[j]] = next_sending[l[i]] BY <1>15, <3>1, <4>1
      <4>3. i = Len(l) <=> j = Len(m) BY <1>3, <1>7, <1>9, <3>1, <3>2, <3>6
      <4>4. (IF j + 1 < k THEN j + 1 ELSE (j + 1) + 1) = i + 1 BY <1>7, <3>1, <3>2, <3>6
      <4>5. j # Len(m) => m[j + 1] = l[i + 1] BY <3>4, <4>4
      <4> QED BY <3>3, <4>2, <4>3, <4>5
    <3> QED BY <3>5, <3>6
  <2> QED BY <1>9, <2>1, <2>2 DEF Linked
<1>18. ASSUME NEW e \in Proc \ {p}
       PROVE  /\ Linked(L[e], next_sending')
              /\ \A i \in 1 .. Len(L[e]) : p_sendto'[L[e][i]] = e
              /\ \A y \in Proc : p_sendto'[y] = e => \E i \in 1 .. Len(L[e]) : L[e][i] = y
  <2>1. /\ Linked(L[e], next_sending)
        /\ \A i \in 1 .. Len(L[e]) : p_sendto[L[e][i]] = e
        /\ \A y \in Proc : p_sendto[y] = e => \E i \in 1 .. Len(L[e]) : L[e][i] = y
    BY DEF Represents
  <2>2. ASSUME NEW i \in 1 .. Len(L[e])
        PROVE  L[e][i] \in Proc /\ L[e][i] # x /\ ~(k > 1 /\ L[e][i] = l[k - 1])
    <3>1. L[e][i] \in Proc /\ L[e][i] # x BY <1>7, <2>1, OnOneList
    <3>2. ASSUME k > 1 PROVE L[e][i] # l[k - 1]
      <4>1. k - 1 \in 1 .. Len(l) BY <1>3, <1>7, <3>2
      <4> QED BY <4>1, <1>3, <2>1
    <3> QED BY <3>1, <3>2
  <2>3. \A i \in 1 .. Len(L[e]) : next_sending'[L[e][i]] = next_sending[L[e][i]] BY <1>15, <2>2
  <2>4. \A i \in 1 .. Len(L[e]) : p_sendto'[L[e][i]] = p_sendto[L[e][i]] BY <1>13, <2>2
  <2>5. Linked(L[e], next_sending') BY <2>1, <2>3 DEF Linked
  <2>6. \A y \in Proc : p_sendto'[y] = e => p_sendto[y] = e BY <1>13, NullAssumption
  <2> QED BY <2>1, <2>4, <2>5, <2>6
<1>19. /\ \A j \in 1 .. Len(m) : p_sendto'[m[j]] = p
       /\ \A y \in Proc : p_sendto'[y] = p => \E j \in 1 .. Len(m) : m[j] = y
  <2>1. \A j \in 1 .. Len(m) : p_sendto'[m[j]] = p BY <1>3, <1>13, <1>16
  <2>2. ASSUME NEW y \in Proc, p_sendto'[y] = p PROVE \E j \in 1 .. Len(m) : m[j] = y
    <3>1. y # x /\ p_sendto[y] = p BY <1>13, <2>2, NullAssumption
    <3>2. PICK i \in 1 .. Len(l) : l[i] = y BY <3>1 DEF Represents
    <3>3. i # k BY <1>6, <3>1, <3>2
    <3>4. CASE i < k
      <4>1. i \in 1 .. Len(m) BY <1>3, <1>7, <1>9, <3>4
      <4> QED BY <1>9, <3>2, <3>4, <4>1
    <3>5. CASE ~(i < k)
      <4>1. i - 1 \in 1 .. Len(m) /\ ~(i - 1 < k) /\ (i - 1) + 1 = i BY <1>3, <1>7, <1>9, <3>3, <3>5
      <4>2. m[i - 1] = y BY <1>9, <3>2, <4>1
      <4> QED BY <4>1, <4>2
    <3> QED BY <3>4, <3>5
  <2> QED BY <2>1, <2>2
<1>20. \A y \in Proc : p_sendto'[y] = NULL => next_sending'[y] = NULL
  <2> SUFFICES ASSUME NEW y \in Proc, p_sendto'[y] = NULL PROVE next_sending'[y] = NULL OBVIOUS
  <2>1. CASE y = x BY <1>15, <2>1
  <2>2. CASE y # x
    <3>1. p_sendto[y] = NULL BY <1>13, <2>2
    <3>2. next_sending[y] = NULL BY <3>1 DEF Represents
    <3>3. ASSUME k > 1 PROVE y # l[k - 1]
      <4>1. k - 1 \in 1 .. Len(l) BY <1>3, <1>7, <3>3
      <4> QED BY <1>3, <3>1, <4>1, NullAssumption
    <3> QED BY <1>15, <2>2, <3>2, <3>3
  <2> QED BY <2>1, <2>2
<1>21. ASSUME NEW e \in Proc
       PROVE  /\ q_sending'[e] = HeadOf(L1[e])
              /\ Linked(L1[e], next_sending')
              /\ \A i \in 1 .. Len(L1[e]) : p_sendto'[L1[e][i]] = e
              /\ \A y \in Proc : p_sendto'[y] = e => \E i \in 1 .. Len(L1[e]) : L1[e][i] = y
  <2>1. CASE e = p BY <1>11, <1>15, <1>17, <1>19, <2>1
  <2>2. CASE e # p BY <1>11, <1>15, <1>18, <2>2
  <2> QED BY <2>1, <2>2
<1>22. Represents(L1)' BY <1>11, <1>20, <1>21 DEF Represents
<1>23. Represents([L EXCEPT ![p] = F!RemoveAt(@, k)])' BY <1>10, <1>22
<1> QED BY <1>1, <1>6, <1>7, <1>15, <1>23

-----------------------------------------------------------------------------

\* Nobody is on a list at first.
LEMMA QInitially == Init => QInv /\ Lists = [d \in Proc |-> <<>>]
<1> SUFFICES ASSUME Init PROVE QInv /\ Lists = [d \in Proc |-> <<>>] OBVIOUS
<1>1. PICK L : L = [d \in Proc |-> <<>>] OBVIOUS
<1>2. \A d \in Proc : L[d] \in Seq(Proc) /\ Len(L[d]) = 0 /\ 1 .. Len(L[d]) = {} BY <1>1
<1>3. \A d \in Proc : Linked(L[d], next_sending) BY <1>2 DEF Linked
<1>4. \A d \in Proc : q_sending[d] = HeadOf(L[d]) BY <1>2 DEF Init, HeadOf
<1>5. \A p \in Proc : p_sendto[p] = NULL /\ next_sending[p] = NULL BY DEF Init
<1>6. Represents(L) BY <1>1, <1>2, <1>3, <1>4, <1>5, NullAssumption DEF Represents
<1>7. Lists = L BY <1>6, ListsAre
<1>8. ListTypes BY DEF Init, ListTypes
<1>9. received \in (Proc \cup {ANY, NULL}) \X (Proc \cup {NULL}) BY DEF Init
<1> QED BY <1>1, <1>6, <1>7, <1>8, <1>9 DEF QInv

\* A call puts a process at the end of a list, or takes one out of a list.
LEMMA QSteps ==
    ASSUME QInv, Next
    PROVE  /\ QInv'
           /\ \/ \E d \in Proc : \E p \in Proc \ {d} :
                   /\ \A e \in Proc : \A i \in 1 .. Len(Lists[e]) : Lists[e][i] # p
                   /\ Lists' = [Lists EXCEPT ![d] = Append(@, p)] /\ received' = received
              \/ \E d \in Proc : \E k \in 1 .. Len(Lists[d]) : \E src \in Proc \cup {ANY} :
                   /\ Lists' = [Lists EXCEPT ![d] = F!RemoveAt(@, k)]
                   /\ IF src = ANY THEN k = 1 ELSE src = Lists[d][k]
                   /\ received' = <<src, Lists[d][k]>>
<1>1. ListTypes BY DEF QInv
<1>2. PICK L : L = Lists OBVIOUS
<1>3. Represents(L) BY <1>2 DEF QInv
<1>4. PICK p \in Proc : /\ p_sendto[p] = NULL
                        /\ \/ \E d \in Proc \ {p} : Append_sender(p, d) /\ UNCHANGED received
                           \/ \E src \in (Proc \ {p}) \cup {ANY} :
                                Unlink_sender(p, src) /\ received' = <<src, P_from(p, src)>>
  BY DEF Next
<1>5. ASSUME NEW d \in Proc \ {p}, Append_sender(p, d), received' = received
      PROVE  /\ QInv'
             /\ \A e \in Proc : \A i \in 1 .. Len(L[e]) : L[e][i] # p
             /\ Lists' = [L EXCEPT ![d] = Append(@, p)]
  <2>1. PICK L1 : L1 = [L EXCEPT ![d] = Append(@, p)] OBVIOUS
  <2>2. ListTypes' /\ Represents(L1)' BY <1>1, <1>3, <1>4, <1>5, <2>1, AppendStep
  <2>3. Lists' = L1 BY <2>2, ListsAre
  <2>4. QInv' BY <1>5, <2>2, <2>3 DEF QInv, Represents
  <2>5. \A e \in Proc : \A i \in 1 .. Len(L[e]) : L[e][i] # p BY <1>3, <1>4, OnOneList
  <2> QED BY <2>1, <2>3, <2>4, <2>5
<1>6. ASSUME NEW src \in (Proc \ {p}) \cup {ANY}, Unlink_sender(p, src),
             received' = <<src, P_from(p, src)>>
      PROVE  /\ QInv'
             /\ \E k \in 1 .. Len(L[p]) :
                  /\ Lists' = [L EXCEPT ![p] = F!RemoveAt(@, k)]
                  /\ IF src = ANY THEN k = 1 ELSE src = L[p][k]
                  /\ received' = <<src, L[p][k]>>
  <2>1. /\ ListTypes'
        /\ \E k \in 1 .. Len(L[p]) :
             /\ Represents([L EXCEPT ![p] = F!RemoveAt(@, k)])'
             /\ L[p][k] \in Proc /\ P_from(p, src) = L[p][k]
             /\ IF src = ANY THEN k = 1 ELSE src = L[p][k]
    BY <1>1, <1>3, <1>6, UnlinkStep
  <2>2. PICK k \in 1 .. Len(L[p]) :
             /\ Represents([L EXCEPT ![p] = F!RemoveAt(@, k)])'
             /\ L[p][k] \in Proc /\ P_from(p, src) = L[p][k]
             /\ IF src = ANY THEN k = 1 ELSE src = L[p][k]
    BY <2>1
  <2>3. PICK L1 : L1 = [L EXCEPT ![p] = F!RemoveAt(@, k)] OBVIOUS
  <2>4. Represents(L1)' BY <2>2, <2>3
  <2>5. Lists' = L1 BY <2>4, ListsAre
  <2>6. received' = <<src, L[p][k]>> BY <1>6, <2>2
  <2>7. received' \in (Proc \cup {ANY, NULL}) \X (Proc \cup {NULL}) BY <2>2, <2>6
  <2>8. QInv' BY <2>1, <2>4, <2>5, <2>7 DEF QInv, Represents
  <2>9. Lists' = [L EXCEPT ![p] = F!RemoveAt(@, k)] BY <2>3, <2>5
  <2> QED BY <2>2, <2>6, <2>8, <2>9
<1>7. CASE \E d \in Proc \ {p} : Append_sender(p, d) /\ received' = received
  <2>1. PICK d \in Proc \ {p} : Append_sender(p, d) /\ received' = received BY <1>7
  <2>2. d \in Proc /\ p \in Proc \ {d} OBVIOUS
  <2> QED BY <1>2, <1>5, <2>1, <2>2
<1>8. CASE \E src \in (Proc \ {p}) \cup {ANY} :
             Unlink_sender(p, src) /\ received' = <<src, P_from(p, src)>>
  <2>1. PICK src \in (Proc \ {p}) \cup {ANY} :
             Unlink_sender(p, src) /\ received' = <<src, P_from(p, src)>>
    BY <1>8
  <2>2. QInv' BY <1>6, <2>1
  <2>3. PICK k \in 1 .. Len(L[p]) :
             /\ Lists' = [L EXCEPT ![p] = F!RemoveAt(@, k)]
             /\ IF src = ANY THEN k = 1 ELSE src = L[p][k]
             /\ received' = <<src, L[p][k]>>
    BY <1>6, <2>1
  <2>4. src \in Proc \cup {ANY} OBVIOUS
  <2> QED BY <1>2, <2>2, <2>3, <2>4
<1> QED BY <1>4, <1>7, <1>8

\* Standing still leaves the lists alone.
LEMMA QStutter ==
    ASSUME UNCHANGED qvars
    PROVE  Lists' = Lists /\ received' = received /\ (QInv => QInv')
<1>1. /\ q_sending' = q_sending /\ next_sending' = next_sending /\ p_sendto' = p_sendto
      /\ received' = received
  BY DEF qvars
<1>2. Lists' = Lists BY <1>1 DEF Lists, ListOf
<1>3. ListTypes => ListTypes' BY <1>1 DEF ListTypes
<1>4. ASSUME NEW L, Represents(L) PROVE Represents(L)' BY <1>1, <1>4 DEF Represents
<1>5. PICK L : L = Lists OBVIOUS
<1>6. ASSUME Represents(Lists) PROVE Represents(Lists)'
  <2>1. Represents(L)' BY <1>4, <1>5, <1>6
  <2> QED BY <1>2, <1>5, <2>1 DEF Represents
<1> QED BY <1>1, <1>2, <1>3, <1>6 DEF QInv

\* What ListsWellFormed asks of each list.
LEMMA QWellFormed == QInv => ListsWellFormed
<1> SUFFICES ASSUME QInv, NEW d \in Proc
             PROVE  /\ Hops(next_sending, q_sending[d])[Cardinality(Proc)] = NULL
                    /\ {ListOf(d)[i] : i \in DOMAIN ListOf(d)} = {p \in Proc : p_sendto[p] = d}
                    /\ Len(ListOf(d)) = Cardinality({p \in Proc : p_sendto[p] = d})
                    /\ p_sendto[d] = NULL => next_sending[d] = NULL
  BY DEF ListsWellFormed
<1>1. PICK l : l = ListOf(d) OBVIOUS
<1>2. Lists[d] = l BY <1>1 DEF Lists
<1>3. /\ q_sending[d] = HeadOf(l) /\ Linked(l, next_sending)
      /\ \A i \in 1 .. Len(l) : p_sendto[l[i]] = d
      /\ \A p \in Proc : p_sendto[p] = d => \E i \in 1 .. Len(l) : l[i] = p
      /\ p_sendto[d] = NULL => next_sending[d] = NULL
  BY <1>2 DEF QInv, Represents
<1>4. Hops(next_sending, q_sending[d])[Cardinality(Proc)] = NULL
  BY <1>3, ListFromLinked DEF Size
<1> DEFINE S == {p \in Proc : p_sendto[p] = d}
<1>5. l \in [1 .. Len(l) -> Proc] /\ DOMAIN l = 1 .. Len(l) /\ Len(l) \in Nat BY <1>3 DEF Linked
<1>6. {l[i] : i \in DOMAIN l} = S BY <1>3, <1>5
<1>7. l \in Bijection(1 .. Len(l), S)
  <2>1. l \in [1 .. Len(l) -> S] BY <1>3, <1>5
  <2>2. \A i, j \in 1 .. Len(l) : l[i] = l[j] => i = j BY <1>3 DEF Linked
  <2>3. \A p \in S : \E i \in 1 .. Len(l) : l[i] = p BY <1>3
  <2> QED BY <2>1, <2>2, <2>3, Fun_IsBij
<1>8. Cardinality(1 .. Len(l)) = Len(l) /\ IsFiniteSet(1 .. Len(l))
  <2>1. PICK n \in Nat : n = Len(l) BY <1>5
  <2>2. /\ IsFiniteSet(1 .. n)
        /\ Cardinality(1 .. n) = IF 1 > n THEN 0 ELSE n - 1 + 1
    BY FS_Interval
  <2>3. Cardinality(1 .. n) = n BY <2>2
  <2> QED BY Zenon, <2>1, <2>2, <2>3
<1> HIDE DEF S
<1>9. Cardinality(S) = Len(l) BY <1>7, <1>8, FS_Bijection DEF ExistsBijection
<1> QED BY <1>1, <1>3, <1>4, <1>6, <1>9 DEF S

\* The lists through the process table represent sequences of senders: the
\* inductive invariant behind msg_send(), msg_receive() and their loops.
THEOREM QueueInvariant == Spec => []QInv
<1>1. Init => QInv BY QInitially
<1>2. QInv /\ [Next]_qvars => QInv' BY QSteps, QStutter
<1> QED BY <1>1, <1>2, PTL DEF Spec

\* Type correctness of the heads, the links and p_sendto.
THEOREM QueueTypeCorrect == Spec => []TypeOK
<1>1. QInv => TypeOK BY DEF QInv, ListTypes, TypeOK
<1> QED BY <1>1, QueueInvariant, PTL

\* Every list of msg_send() and msg_receive() ends, has nobody twice, and holds
\* exactly the processes blocked sending to its owner, for any number of them.
THEOREM QueuesWellFormed == Spec => []ListsWellFormed
<1>1. QInv => ListsWellFormed BY QWellFormed
<1> QED BY <1>1, QueueInvariant, PTL

\* The linked lists implement first-in first-out queues with removal: what
\* msg_send() appends comes after everybody who waits, and msg_receive() takes
\* out who has waited longest, or the one it names, without disturbing the
\* order of the others.
THEOREM QueuesImplementFifo == Spec => ImplementsFifo
<1>1. Init => F!QInit BY QInitially DEF F!QInit, Lists, Init
<1>2. ASSUME QInv, Next PROVE F!QNext
  <2>1. PICK L : L = Lists OBVIOUS
  <2>2. \/ \E d \in Proc : \E p \in Proc \ {d} :
             /\ \A e \in Proc : \A i \in 1 .. Len(L[e]) : L[e][i] # p
             /\ Lists' = [L EXCEPT ![d] = Append(@, p)] /\ received' = received
        \/ \E d \in Proc : \E k \in 1 .. Len(L[d]) : \E src \in Proc \cup {ANY} :
             /\ Lists' = [L EXCEPT ![d] = F!RemoveAt(@, k)]
             /\ IF src = ANY THEN k = 1 ELSE src = L[d][k]
             /\ received' = <<src, L[d][k]>>
    BY <1>2, <2>1, QSteps
  <2>3. \A d \in Proc : DOMAIN L[d] = 1 .. Len(L[d])
    BY <1>2, <2>1, OnOneList DEF QInv
  <2>4. ASSUME NEW d \in Proc, NEW p \in Proc \ {d},
               \A e \in Proc : \A i \in 1 .. Len(L[e]) : L[e][i] # p,
               Lists' = [L EXCEPT ![d] = Append(@, p)], received' = received
        PROVE  F!QNext
    <3>1. \A e \in Proc : ~F!Contains(Lists[e], p) BY <2>1, <2>4 DEF F!Contains
    <3>2. Lists' = [Lists EXCEPT ![d] = Append(@, p)] BY <2>1, <2>4
    <3>3. F!Join(d, p) BY <2>4, <3>1, <3>2 DEF F!Join, Lists
    <3> QED BY <3>3 DEF F!QNext
  <2>5. ASSUME NEW d \in Proc, NEW k \in 1 .. Len(L[d]), NEW src \in Proc \cup {ANY},
               Lists' = [L EXCEPT ![d] = F!RemoveAt(@, k)],
               IF src = ANY THEN k = 1 ELSE src = L[d][k],
               received' = <<src, L[d][k]>>
        PROVE  F!QNext
    <3>1. Lists' = [Lists EXCEPT ![d] = F!RemoveAt(@, k)] BY <2>1, <2>5
    <3>2. IF src = ANY THEN k = 1 ELSE src = Lists[d][k] BY <2>1, <2>5
    <3>3. received' = <<src, Lists[d][k]>> BY <2>1, <2>5
    <3>4. F!Leave(d, k, src) BY <3>1, <3>2, <3>3 DEF F!Leave, Lists
    <3>5. k \in DOMAIN Lists[d] BY <2>1, <2>3
    <3> QED BY Zenon, <3>4, <3>5 DEF F!QNext, Lists
  <2>6. CASE \E d \in Proc : \E p \in Proc \ {d} :
               /\ \A e \in Proc : \A i \in 1 .. Len(L[e]) : L[e][i] # p
               /\ Lists' = [L EXCEPT ![d] = Append(@, p)] /\ received' = received
    BY Zenon, <2>4, <2>6
  <2>7. CASE \E d \in Proc : \E k \in 1 .. Len(L[d]) : \E src \in Proc \cup {ANY} :
               /\ Lists' = [L EXCEPT ![d] = F!RemoveAt(@, k)]
               /\ IF src = ANY THEN k = 1 ELSE src = L[d][k]
               /\ received' = <<src, L[d][k]>>
    BY Zenon, <2>5, <2>7
  <2> QED BY <2>2, <2>6, <2>7
<1>3. QInv /\ [Next]_qvars => [F!QNext]_<<Lists, received>> BY <1>2, QStutter
<1>4. QInv /\ [Next]_qvars => [F!QNext]_<<[d \in Proc |-> ListOf(d)], received>>
  BY <1>3 DEF Lists
<1> QED BY <1>1, <1>4, QueueInvariant, PTL DEF Spec, ImplementsFifo, F!QSpec
=============================================================================
