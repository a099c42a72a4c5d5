---------------------------- MODULE LinkSimProofs ----------------------------
(***************************************************************************)
(* The link simulator, for every set of datagrams, delay, jitter and       *)
(* length of a second: its heap keeps the packets it is given and gives    *)
(* the earliest back, and select() never sleeps past it.                   *)
(*                                                                         *)
(* A set of numbers has a least one: this stands for induction, here over  *)
(* the slots of the heap.                                                  *)
(***************************************************************************)
EXTENDS LinkSim, TLAPS, FiniteSetTheorems, WellFoundedInduction

\* Every set of numbers has a least one.
LEMMA Least ==
    ASSUME NEW T, T \subseteq Nat, T # {}
    PROVE  \E x \in T : \A y \in T : x <= y
<1> DEFINE R == {ss \in Nat \X Nat : ss[1] < ss[2]}
<1>1. IsWellFoundedOn(R, Nat)
  BY NatLessThanWellFounded DEF OpToRel
<1>2. \A x, y \in Nat : y < x => <<y, x>> \in R
  OBVIOUS
<1> HIDE DEF R
<1>3. PICK x \in T : \A y \in T : ~(<<y, x>> \in R)
  BY <1>1, WFMin
<1>4. \A y \in T : ~(y < x)
  BY <1>2, <1>3
<1> QED
  BY <1>4

\* What holds of a number that holds of all smaller ones holds of all up to n.
LEMMA UpTo ==
    ASSUME NEW n \in Nat, NEW P, \A i \in 0 .. n : (\A j \in 0 .. i - 1 : j \in P) => i \in P
    PROVE  \A i \in 0 .. n : i \in P
<1> SUFFICES ASSUME NEW k \in 0 .. n, k \notin P
             PROVE  FALSE
  OBVIOUS
<1> DEFINE T == {i \in 0 .. n : i \notin P}
<1>1. T \subseteq Nat /\ T # {}
  OBVIOUS
<1>2. PICK x \in T : \A y \in T : x <= y
  BY <1>1, Least
<1>3. \A j \in 0 .. x - 1 : j \in P
  BY <1>2
<1> QED
  BY <1>2, <1>3

----------------------------------------------------------------------------
\* timeval_cmp() is an order on normalised and other timevals alike.
LEMMA LaterIsOrder ==
    ASSUME NEW a \in Slot, NEW b \in Slot, NEW c \in Slot
    PROVE  /\ ~Later(a, a)
           /\ Later(a, b) => ~Later(b, a)
           /\ ~Later(a, b) /\ ~Later(b, c) => ~Later(a, c)
BY DEF Later, Slot

LEMMA ParentIs ==
    ASSUME NEW i \in Nat
    PROVE  /\ Heap!Parent(i) \in 0 .. i
           /\ i # 0 => Heap!Parent(i) \in 0 .. i - 1
           /\ i = 2 * Heap!Parent(i) \/ i = 2 * Heap!Parent(i) + 1
BY DEF Heap!Parent

\* The entries of an array, its size, and the order of a heap.
Entries(e) == {e[i] : i \in DOMAIN e}

Ordered(e) == \A i \in DOMAIN e : ~Later(e[Heap!Parent(i)], e[i])

\* An array of n slots, each with an entry of its own.
IsArray(e, n) ==
    /\ e \in [0 .. n - 1 -> Slot]
    /\ \A i, j \in 0 .. n - 1 : e[i] = e[j] => i = j

LEMMA SizeIs ==
    ASSUME NEW n \in Nat, NEW e, DOMAIN e = 0 .. n - 1
    PROVE  Heap!Size(e) = n
<1>1. Cardinality(0 .. n - 1) = n
  BY FS_Interval
<1> QED
  BY <1>1 DEF Heap!Size, Heap!Cardinality, Cardinality

\* The root of a heap is the least of its entries.
LEMMA RootIsLeast ==
    ASSUME NEW n \in Nat, NEW e, IsArray(e, n), Ordered(e)
    PROVE  \A i \in 0 .. n - 1 : ~Later(e[0], e[i])
<1> DEFINE P == {i \in 0 .. n - 1 : ~Later(e[0], e[i])}
<1> SUFFICES ASSUME n # 0
             PROVE  \A i \in 0 .. n - 1 : i \in P
  OBVIOUS
<1>1. ASSUME NEW i \in 0 .. n - 1, \A j \in 0 .. i - 1 : j \in P
      PROVE  i \in P
  <2>1. CASE i = 0
    BY <2>1, LaterIsOrder DEF IsArray
  <2>2. CASE i # 0
    <3>1. PICK j \in 0 .. i - 1 : j = Heap!Parent(i)
      BY <2>2, ParentIs
    <3>2. ~Later(e[0], e[j])
      BY <1>1, <3>1
    <3>3. ~Later(e[j], e[i])
      BY <3>1 DEF Ordered, IsArray
    <3>4. e[0] \in Slot /\ e[i] \in Slot /\ e[j] \in Slot
      BY DEF IsArray
    <3> QED
      BY <3>2, <3>3, <3>4, LaterIsOrder
  <2> QED
    BY <2>1, <2>2
<1>2. n - 1 \in Nat
  OBVIOUS
<1> HIDE DEF P
<1> QED
  BY <1>1, <1>2, UpTo
----------------------------------------------------------------------------
\* The slots passed on the way up from slot i, for every slot up to n.
IsRisen(r, e, v, n) ==
    r = [i \in 0 .. n |->
            {i} \cup IF i # 0 /\ Later(e[Heap!Parent(i)], v) THEN r[Heap!Parent(i)] ELSE {}]

LEMMA RisenExists ==
    ASSUME NEW n \in Nat, NEW e, NEW v
    PROVE  \E r : IsRisen(r, e, v, n)
<1> DEFINE P == {m \in 0 .. n : \E r : IsRisen(r, e, v, m)}
<1>1. ASSUME NEW m \in 0 .. n, \A j \in 0 .. m - 1 : j \in P
      PROVE  m \in P
  <2>1. CASE m = 0
    <3>1. IsRisen([i \in 0 .. 0 |-> {0}], e, v, 0)
      BY DEF IsRisen
    <3> QED
      BY <2>1, <3>1
  <2>2. CASE m # 0
    <3>1. PICK k \in 0 .. m - 1 : k = m - 1
      BY <2>2
    <3>2. PICK r : IsRisen(r, e, v, k)
      BY <1>1, <3>1
    <3> DEFINE up(i, f) == {i} \cup IF i # 0 /\ Later(e[Heap!Parent(i)], v)
                                    THEN f[Heap!Parent(i)] ELSE {}
    <3>3. PICK s : s = [i \in 0 .. m |-> IF i \in 0 .. k THEN r[i] ELSE up(i, r)]
      OBVIOUS
    <3>4. \A i \in 0 .. m : Heap!Parent(i) \in 0 .. k \/ i = 0
      BY <3>1, ParentIs
    <3>5. ASSUME NEW i \in 0 .. m
          PROVE  s[i] = up(i, s)
      <4>1. i # 0 => s[Heap!Parent(i)] = r[Heap!Parent(i)]
        BY <3>1, <3>3, <3>4
      <4>2. up(i, s) = up(i, r)
        BY <4>1
      <4>3. i \in 0 .. k => r[i] = up(i, r)
        BY <3>2 DEF IsRisen
      <4> QED
        BY <3>3, <4>2, <4>3
    <3>6. s = [i \in 0 .. m |-> up(i, s)]
      <4> HIDE DEF up
      <4> QED
        BY <3>3, <3>5
    <3> QED
      BY <3>6 DEF IsRisen
  <2> QED
    BY <2>1, <2>2
<1>2. n \in P
  <2> HIDE DEF P
  <2> QED
    BY <1>1, UpTo
<1> QED
  BY <1>2

\* An array that puts v where the path ends, and what the slots of the path held one
\* slot lower.
IsPushed(f, S, z, e, v, n) ==
    f = [i \in 0 .. n |-> IF i = z THEN v ELSE IF i \in S THEN e[Heap!Parent(i)] ELSE e[i]]

\* minq_push() in these terms.
LEMMA PushIs ==
    ASSUME NEW n \in Nat, NEW e, DOMAIN e = 0 .. n - 1, NEW v
    PROVE  \E r, ends :
              /\ IsRisen(r, e, v, n)
              /\ (\E i \in r[n] : \A j \in r[n] : i <= j)
                    => ends \in r[n] /\ \A j \in r[n] : ends <= j
              /\ IsPushed(Heap!Push(e, v), r[n], ends, e, v, n)
<1>1. Heap!Size(e) = n
  BY SizeIs
<1> DEFINE risen[i \in 0 .. Heap!Size(e)] ==
             {i} \cup IF i # 0 /\ Later(e[Heap!Parent(i)], v) THEN risen[Heap!Parent(i)] ELSE {}
           ends == CHOOSE i \in risen[Heap!Size(e)] : \A j \in risen[Heap!Size(e)] : i <= j
<1>2. Heap!Push(e, v) =
          [i \in 0 .. Heap!Size(e) |->
             IF i = ends THEN v
             ELSE IF i \in risen[Heap!Size(e)] THEN e[Heap!Parent(i)] ELSE e[i]]
  BY DEF Heap!Push
<1>3. IsRisen(risen, e, v, Heap!Size(e))
  <2>1. \E r : IsRisen(r, e, v, Heap!Size(e))
    BY <1>1, RisenExists
  <2> QED
    BY <2>1, Zenon DEF IsRisen
<1> HIDE DEF risen
<1>4. (\E i \in risen[Heap!Size(e)] : \A j \in risen[Heap!Size(e)] : i <= j)
        => ends \in risen[Heap!Size(e)] /\ \A j \in risen[Heap!Size(e)] : ends <= j
  OBVIOUS
<1> HIDE DEF ends
<1> QED
  BY <1>1, <1>2, <1>3, <1>4 DEF IsPushed

\* Does an entry v rise from slot j?
Rises(e, v, j) == j # 0 /\ Later(e[Heap!Parent(j)], v)

\* The slots passed are a path: every slot below another is at or below its parent.
\* All but the last are risen from, and all but the first hold something later than v.
IsPath(S, e, v, i) ==
    /\ S \subseteq 0 .. i /\ i \in S
    /\ \A j \in S : Rises(e, v, j) => Heap!Parent(j) \in S
    /\ \E z \in S : ~Rises(e, v, z) /\ \A j \in S : z <= j /\ (j # z => Rises(e, v, j))
    /\ \A j \in S \ {i} : Later(e[j], v) /\ \E c \in S \ {0} : Heap!Parent(c) = j
    /\ \A j, k \in S : j < k => j <= Heap!Parent(k)

LEMMA RisenPath ==
    ASSUME NEW n \in Nat, NEW e, NEW v, NEW r, IsRisen(r, e, v, n)
    PROVE  \A i \in 0 .. n : IsPath(r[i], e, v, i)
<1> DEFINE P == {i \in 0 .. n : IsPath(r[i], e, v, i)}
<1>1. ASSUME NEW i \in 0 .. n, \A j \in 0 .. i - 1 : j \in P
      PROVE  i \in P
  <2>1. i \in Nat /\ i <= n
    OBVIOUS
  <2>2. CASE ~Rises(e, v, i)
    <3>1. r[i] = {i}
      BY <2>2 DEF IsRisen, Rises
    <3>2. IsPath({i}, e, v, i)
      BY <2>1, <2>2 DEF IsPath
    <3> QED
      BY <3>1, <3>2
  <2>3. CASE Rises(e, v, i)
    <3>1. PICK p \in 0 .. i - 1 : p = Heap!Parent(i)
      BY <2>1, <2>3, ParentIs DEF Rises
    <3>2. PICK S : S = r[p]
      OBVIOUS
    <3>3. r[i] = {i} \cup S
      BY <2>3, <3>1, <3>2 DEF IsRisen, Rises
    <3>4. p \in P
      BY <1>1, <3>1
    <3>5. IsPath(S, e, v, p)
      BY <3>2, <3>4
    <3>6. S \subseteq 0 .. p /\ p \in S
      BY <3>5 DEF IsPath
    <3>7. i \notin S /\ \A j \in S : j < i /\ j <= p
      BY <2>1, <3>1, <3>6
    <3>8. \A j \in {i} \cup S : Rises(e, v, j) => Heap!Parent(j) \in {i} \cup S
      BY <3>1, <3>5, <3>6 DEF IsPath
    <3>9. \E z \in {i} \cup S : /\ ~Rises(e, v, z)
                               /\ \A j \in {i} \cup S : z <= j /\ (j # z => Rises(e, v, j))
      <4>1. PICK z \in S : ~Rises(e, v, z) /\ \A j \in S : z <= j /\ (j # z => Rises(e, v, j))
        BY <3>5 DEF IsPath
      <4>2. z <= i
        BY <2>1, <3>1, <3>6, <3>7
      <4> QED
        BY <2>3, <4>1, <4>2
    <3>10. \A j \in S : Later(e[j], v) /\ \E c \in ({i} \cup S) \ {0} : Heap!Parent(c) = j
      <4> SUFFICES ASSUME NEW j \in S
                   PROVE  Later(e[j], v) /\ \E c \in ({i} \cup S) \ {0} : Heap!Parent(c) = j
        OBVIOUS
      <4>1. CASE j = p
        BY <2>3, <3>1, <4>1 DEF Rises
      <4>2. CASE j # p
        BY <3>5, <4>2 DEF IsPath
      <4> QED
        BY <4>1, <4>2
    <3>11. \A j, k \in {i} \cup S : j < k => j <= Heap!Parent(k)
      <4> SUFFICES ASSUME NEW j \in {i} \cup S, NEW k \in {i} \cup S, j < k
                   PROVE  j <= Heap!Parent(k)
        OBVIOUS
      <4>1. j # i
        BY <2>1, <3>1, <3>6, <3>7
      <4>2. CASE k = i
        BY <3>1, <3>7, <4>1, <4>2
      <4>3. CASE k # i
        BY <3>5, <4>1, <4>3 DEF IsPath
      <4> QED
        BY <4>2, <4>3
    <3>12. {i} \cup S \subseteq 0 .. i
      BY <2>1, <3>1, <3>6
    <3> QED
      BY <3>3, <3>8, <3>9, <3>10, <3>11, <3>12 DEF IsPath
  <2> QED
    BY <2>2, <2>3
<1> HIDE DEF P
<1>2. \A i \in 0 .. n : i \in P
  BY <1>1, UpTo
<1> QED
  BY <1>2 DEF P

LEMMA PushedOrdered ==
    ASSUME NEW n \in Nat, NEW e, IsArray(e, n), Ordered(e), NEW v \in Slot,
           NEW S, IsPath(S, e, v, n), NEW z \in S, \A j \in S : z <= j,
           NEW f, IsPushed(f, S, z, e, v, n)
    PROVE  Ordered(f)
<1>1. /\ S \subseteq 0 .. n /\ n \in S /\ z \in 0 .. n
      /\ \A i \in 0 .. n - 1 : e[i] \in Slot /\ ~Later(e[Heap!Parent(i)], e[i])
      /\ DOMAIN f = 0 .. n
  BY DEF IsPath, IsArray, Ordered, IsPushed
<1>2. ~Rises(e, v, z) /\ \A j \in S : j # z => Rises(e, v, j)
  <2>1. PICK y \in S : ~Rises(e, v, y) /\ \A j \in S : y <= j /\ (j # y => Rises(e, v, j))
    BY DEF IsPath
  <2>2. y = z
    BY <1>1, <2>1
  <2> QED
    BY <2>1, <2>2
<1>3. ASSUME NEW k \in 0 .. n
      PROVE  ~Later(f[Heap!Parent(k)], f[k])
  <2>1. PICK p \in 0 .. n : p = Heap!Parent(k) /\ p <= k /\ (k # 0 => p < k) /\ (k = 0 => p = 0)
    BY ParentIs
  <2>2. CASE k = z
    <3>1. CASE k = 0
      BY <1>1, <2>1, <2>2, <3>1, LaterIsOrder DEF IsPushed
    <3>2. CASE k # 0
      <4>1. p \notin S
        BY <1>1, <2>1, <2>2, <3>2
      <4>2. f[p] = e[p] /\ f[k] = v
        BY <2>1, <2>2, <4>1 DEF IsPushed
      <4>3. ~Later(e[p], v)
        BY <1>2, <2>1, <2>2, <3>2 DEF Rises
      <4> QED
        BY <2>1, <4>2, <4>3
    <3> QED
      BY <3>1, <3>2
  <2>3. CASE k \in S /\ k # z
    <3>1. k # 0 /\ Later(e[p], v)
      BY <1>2, <2>1, <2>3 DEF Rises
    <3>2. p \in S /\ p \in 0 .. n - 1
      BY <1>2, <2>1, <2>3, <3>1 DEF IsPath
    <3>3. f[k] = e[p]
      BY <2>1, <2>3 DEF IsPushed
    <3>4. e[p] \in Slot
      BY <1>1, <3>2
    <3>5. CASE p = z
      <4>1. f[p] = v
        BY <2>1, <3>5 DEF IsPushed
      <4> QED
        BY <2>1, <3>1, <3>3, <3>4, <4>1, LaterIsOrder
    <3>6. CASE p # z
      <4>1. f[p] = e[Heap!Parent(p)]
        BY <2>1, <3>2, <3>6 DEF IsPushed
      <4> QED
        BY <1>1, <2>1, <3>2, <3>3, <4>1
    <3> QED
      BY <3>5, <3>6
  <2>4. CASE k \notin S
    <3>1. k \in 0 .. n - 1 /\ p \in 0 .. n - 1 /\ p # n
      BY <1>1, <2>1, <2>4
    <3>2. f[k] = e[k] /\ e[k] \in Slot /\ e[p] \in Slot /\ ~Later(e[p], e[k])
      BY <1>1, <2>1, <2>4, <3>1 DEF IsPushed
    <3>3. CASE p \notin S
      <4>1. f[p] = e[p]
        BY <2>1, <3>3 DEF IsPushed
      <4> QED
        BY <2>1, <3>2, <4>1
    <3>4. CASE p = z
      <4>1. f[p] = v /\ Later(e[p], v)
        BY <2>1, <3>1, <3>4 DEF IsPushed, IsPath
      <4> QED
        BY <2>1, <3>2, <4>1, LaterIsOrder
    <3>5. CASE p \in S /\ p # z
      <4>1. f[p] = e[Heap!Parent(p)]
        BY <2>1, <3>5 DEF IsPushed
      <4>2. ~Later(e[Heap!Parent(p)], e[p])
        BY <1>1, <3>1
      <4>3. Heap!Parent(p) \in 0 .. n - 1
        BY <3>1, ParentIs
      <4>4. e[Heap!Parent(p)] \in Slot
        BY <1>1, <4>3
      <4> QED
        BY <2>1, <3>2, <4>1, <4>2, <4>4, LaterIsOrder
    <3> QED
      BY <3>3, <3>4, <3>5
  <2> QED
    BY <2>2, <2>3, <2>4
<1> QED
  BY <1>1, <1>3 DEF Ordered

LEMMA PushedIsArray ==
    ASSUME NEW n \in Nat, NEW e, IsArray(e, n), NEW v \in Slot, v \notin Entries(e),
           NEW S, IsPath(S, e, v, n), NEW z \in S, \A j \in S : z <= j,
           NEW f, IsPushed(f, S, z, e, v, n)
    PROVE  IsArray(f, n + 1) /\ Entries(f) = Entries(e) \cup {v}
<1>1. /\ S \subseteq 0 .. n /\ n \in S /\ z \in 0 .. n /\ DOMAIN f = 0 .. n
      /\ \A i \in 0 .. n - 1 : e[i] \in Slot /\ e[i] # v
      /\ \A i, j \in 0 .. n - 1 : e[i] = e[j] => i = j
      /\ DOMAIN e = 0 .. n - 1
  BY DEF IsPath, IsArray, IsPushed, Entries
<1>2. \A j \in S : j # z => Rises(e, v, j)
  <2>1. PICK y \in S : ~Rises(e, v, y) /\ \A j \in S : y <= j /\ (j # y => Rises(e, v, j))
    BY DEF IsPath
  <2>2. y = z
    BY <1>1, <2>1
  <2> QED
    BY <2>1, <2>2
\* Where the entry of slot i comes from.
<1>3. PICK from : from = [i \in 0 .. n |-> IF i \in S THEN Heap!Parent(i) ELSE i]
  OBVIOUS
<1>4. ASSUME NEW i \in 0 .. n, i # z
      PROVE  from[i] \in 0 .. n - 1 /\ f[i] = e[from[i]] /\ (i \in S <=> from[i] \in S)
  <2>1. CASE i \in S
    <3>1. i # 0 /\ Heap!Parent(i) \in S
      BY <1>2, <1>4, <2>1 DEF Rises, IsPath
    <3>2. Heap!Parent(i) \in 0 .. i - 1
      BY <3>1, ParentIs
    <3> QED
      BY <1>3, <1>4, <2>1, <3>1, <3>2 DEF IsPushed
  <2>2. CASE i \notin S
    BY <1>1, <1>3, <1>4, <2>2 DEF IsPushed
  <2> QED
    BY <2>1, <2>2
<1>5. ASSUME NEW i \in 0 .. n, NEW j \in 0 .. n, i # z, j # z, from[i] = from[j], i < j
      PROVE  FALSE
  <2>1. i \in S /\ j \in S
    BY <1>3, <1>4, <1>5
  <2>2. i <= Heap!Parent(j) /\ Heap!Parent(j) = Heap!Parent(i)
    BY <1>3, <1>5, <2>1 DEF IsPath
  <2>3. i # 0
    BY <1>2, <1>5, <2>1 DEF Rises
  <2>4. Heap!Parent(i) \in 0 .. i - 1
    BY <2>3, ParentIs
  <2> QED
    BY <2>2, <2>4
<1>6. \A i, j \in 0 .. n : i # z /\ j # z /\ from[i] = from[j] => i = j
  BY <1>5
<1>7. f[z] = v
  BY <1>1 DEF IsPushed
<1>8. ASSUME NEW i \in 0 .. n, NEW j \in 0 .. n, f[i] = f[j]
      PROVE  i = j
  <2>1. CASE i = z
    BY <1>1, <1>4, <1>7, <1>8, <2>1
  <2>2. CASE j = z
    BY <1>1, <1>4, <1>7, <1>8, <2>2
  <2>3. CASE i # z /\ j # z
    BY <1>1, <1>4, <1>6, <1>8, <2>3
  <2> QED
    BY <2>1, <2>2, <2>3
<1>9. \A i \in 0 .. n : f[i] \in Slot
  BY <1>1, <1>4, <1>7
<1>10. IsArray(f, n + 1)
  <2>1. n + 1 - 1 = n
    OBVIOUS
  <2>2. f = [i \in 0 .. n |-> f[i]]
    BY DEF IsPushed
  <2>3. f \in [0 .. n -> Slot]
    BY <1>9, <2>2
  <2> QED
    BY <1>8, <2>1, <2>3 DEF IsArray
<1>11. ASSUME NEW k \in 0 .. n - 1
       PROVE  \E i \in 0 .. n : f[i] = e[k]
  <2>1. CASE k \notin S
    BY <2>1 DEF IsPushed
  <2>2. CASE k \in S
    <3>1. PICK c \in S \ {0} : Heap!Parent(c) = k
      BY <1>1, <2>2 DEF IsPath
    <3>2. k \in 0 .. c - 1 /\ c \in 0 .. n
      BY <1>1, <3>1, ParentIs
    <3>3. c # z
      BY <1>1, <2>2, <3>2
    <3>4. from[c] = k
      BY <1>3, <3>1, <3>2
    <3> QED
      BY <1>4, <3>2, <3>3, <3>4
  <2> QED
    BY <2>1, <2>2
<1>12. \A i \in 0 .. n : f[i] \in Entries(e) \cup {v}
  BY <1>1, <1>4, <1>7 DEF Entries
<1>13. \A x \in Entries(e) \cup {v} : \E i \in 0 .. n : f[i] = x
  BY <1>1, <1>7, <1>11 DEF Entries
<1>14. Entries(f) = Entries(e) \cup {v}
  <2> DEFINE X == Entries(e) \cup {v}
  <2>1. Entries(f) = {f[i] : i \in 0 .. n}
    BY <1>1 DEF Entries
  <2>2. (\A i \in 0 .. n : f[i] \in X) /\ \A x \in X : \E i \in 0 .. n : f[i] = x
    BY <1>12, <1>13
  <2> HIDE DEF X
  <2>3. Entries(f) = X
    BY <2>1, <2>2
  <2> QED
    BY <2>3 DEF X
<1> QED
  BY <1>10, <1>14

\* minq_push(): the heap holds what it held and the new entry, every one once, and
\* is a heap.
LEMMA PushKeeps ==
    ASSUME NEW n \in Nat, NEW e, IsArray(e, n), Ordered(e), NEW v \in Slot, v \notin Entries(e)
    PROVE  LET f == Heap!Push(e, v)
           IN  IsArray(f, n + 1) /\ Ordered(f) /\ Entries(f) = Entries(e) \cup {v}
<1>1. DOMAIN e = 0 .. n - 1
  BY DEF IsArray
<1>2. PICK r, z : /\ IsRisen(r, e, v, n)
                  /\ (\E i \in r[n] : \A j \in r[n] : i <= j)
                        => z \in r[n] /\ \A j \in r[n] : z <= j
                  /\ IsPushed(Heap!Push(e, v), r[n], z, e, v, n)
  BY <1>1, PushIs
<1>3. PICK S : S = r[n]
  OBVIOUS
<1>4. IsPath(S, e, v, n)
  BY <1>2, <1>3, RisenPath
<1>5. z \in S /\ \A j \in S : z <= j
  BY <1>2, <1>3, <1>4 DEF IsPath
<1>6. IsPushed(Heap!Push(e, v), S, z, e, v, n)
  BY <1>2, <1>3
<1> QED
  BY <1>4, <1>5, <1>6, PushedOrdered, PushedIsArray
----------------------------------------------------------------------------
\* Every slot of the array holds an entry.
IsSlots(f, n) == DOMAIN f = 0 .. n - 1 /\ \A i \in 0 .. n - 1 : f[i] \in Slot

\* has_child(): the child that comes first, if there is one.  For the root, which is
\* its own left child, it is slot 1 or none.
LEMMA MinChildIs ==
    ASSUME NEW n \in Nat, NEW f, IsSlots(f, n), NEW i \in 0 .. n - 1
    PROVE  LET c == Heap!MinChild(f, i)
           IN  /\ c \in 0 .. n - 1
               /\ c # 0 => i < c /\ Heap!Parent(c) = i
               /\ \A k \in 1 .. n - 1 : Heap!Parent(k) = i =>
                     \/ c # 0 /\ ~Later(f[c], f[k])
                     \/ c = 0 /\ i = 0 /\ k = 1 /\ ~Later(f[0], f[k])
<1> DEFINE c == Heap!MinChild(f, i)
<1>1. Heap!Size(f) = n /\ \A k \in 0 .. n - 1 : f[k] \in Slot
  BY SizeIs DEF IsSlots
<1>2. PICK left \in Nat : left = 2 * i
  OBVIOUS
<1>3. c = IF left >= n THEN 0
          ELSE IF left + 1 < n /\ Later(f[left], f[left + 1]) THEN left + 1 ELSE left
  BY <1>1, <1>2 DEF Heap!MinChild
<1>4. ASSUME NEW k \in 1 .. n - 1, Heap!Parent(k) = i
      PROVE  k = left \/ k = left + 1
  BY <1>2, <1>4, ParentIs
<1>5. c \in 0 .. n - 1 /\ (c # 0 => i < c)
  BY <1>2, <1>3
<1>6. c # 0 => Heap!Parent(c) = i
  <2>1. c # 0 => c = 2 * i \/ c = 2 * i + 1
    BY <1>2, <1>3
  <2> HIDE DEF c
  <2> QED
    BY <1>5, <2>1 DEF Heap!Parent
<1>7. ASSUME NEW k \in 1 .. n - 1, Heap!Parent(k) = i
      PROVE  \/ c # 0 /\ ~Later(f[c], f[k])
             \/ c = 0 /\ i = 0 /\ k = 1 /\ ~Later(f[0], f[k])
  <2>1. k = left \/ k = left + 1
    BY <1>4, <1>7
  <2>2. left < n /\ k \in 0 .. n - 1
    BY <1>2, <2>1
  <2>3. f[left] \in Slot /\ f[k] \in Slot
    BY <1>1, <1>2, <2>2
  <2>4. CASE left + 1 < n /\ Later(f[left], f[left + 1])
    <3>1. c = left + 1 /\ c # 0
      BY <1>2, <1>3, <2>2, <2>4
    <3>2. f[left + 1] \in Slot
      BY <1>1, <1>2, <2>4
    <3> HIDE DEF c
    <3> QED
      BY <2>1, <2>3, <2>4, <3>1, <3>2, LaterIsOrder
  <2>5. CASE ~(left + 1 < n /\ Later(f[left], f[left + 1]))
    <3>1. c = left
      BY <1>2, <1>3, <2>2, <2>5
    <3>2. k = left + 1 => left + 1 < n
      BY <1>2
    <3>3. ~Later(f[left], f[k])
      BY <2>1, <2>3, <2>5, <3>2, LaterIsOrder
    <3>4. left = 0 => i = 0 /\ k = 1
      BY <1>2, <2>1
    <3> HIDE DEF c
    <3> QED
      BY <3>1, <3>3, <3>4
  <2> QED
    BY <2>4, <2>5
<1> QED
  BY <1>5, <1>6, <1>7

\* Does v sink from slot i?
Sinks(f, v, i) == Heap!MinChild(f, i) # 0 /\ Later(v, f[Heap!MinChild(f, i)])

\* The slots passed on the way down from slot i, for every slot from m on.
IsSunk(s, f, v, m, n) ==
    s = [i \in m .. n - 1 |->
            {i} \cup IF Heap!MinChild(f, i) # 0 /\ Later(v, f[Heap!MinChild(f, i)])
                     THEN s[Heap!MinChild(f, i)] ELSE {}]

LEMMA SunkExists ==
    ASSUME NEW n \in Nat, NEW f, IsSlots(f, n), NEW v
    PROVE  \E s : IsSunk(s, f, v, 0, n)
<1> DEFINE P == {m \in 0 .. n : \E s : IsSunk(s, f, v, n - m, n)}
<1>1. ASSUME NEW m \in 0 .. n, \A j \in 0 .. m - 1 : j \in P
      PROVE  m \in P
  <2>1. CASE m = 0
    <3>1. n .. n - 1 = {}
      OBVIOUS
    <3>2. IsSunk([i \in {} |-> {}], f, v, n, n)
      BY <3>1 DEF IsSunk
    <3>3. n - m = n
      BY <2>1
    <3> QED
      BY <3>2, <3>3
  <2>2. CASE m # 0
    <3>1. PICK k \in 0 .. m - 1 : k = m - 1
      BY <2>2
    <3>2. PICK r : IsSunk(r, f, v, n - k, n)
      BY <1>1, <3>1
    <3> DEFINE down(i, g) == {i} \cup IF Sinks(f, v, i) THEN g[Heap!MinChild(f, i)] ELSE {}
    <3>3. PICK s : s = [i \in n - m .. n - 1 |->
                           IF i \in n - k .. n - 1 THEN r[i] ELSE down(i, r)]
      OBVIOUS
    <3>4. \A i \in n - m .. n - 1 : Sinks(f, v, i) => Heap!MinChild(f, i) \in n - k .. n - 1
      <4> SUFFICES ASSUME NEW i \in n - m .. n - 1, Heap!MinChild(f, i) # 0
                   PROVE  Heap!MinChild(f, i) \in n - k .. n - 1
        BY DEF Sinks
      <4>1. i \in 0 .. n - 1
        OBVIOUS
      <4>2. PICK c \in 0 .. n - 1 : c = Heap!MinChild(f, i) /\ i < c
        BY <4>1, MinChildIs
      <4> QED
        BY <3>1, <4>2
    <3>5. ASSUME NEW i \in n - m .. n - 1
          PROVE  s[i] = down(i, s)
      <4>1. Sinks(f, v, i) => s[Heap!MinChild(f, i)] = r[Heap!MinChild(f, i)]
        <5> SUFFICES ASSUME Sinks(f, v, i)
                     PROVE  s[Heap!MinChild(f, i)] = r[Heap!MinChild(f, i)]
          OBVIOUS
        <5>1. PICK c \in n - k .. n - 1 : c = Heap!MinChild(f, i)
          BY <3>4
        <5>2. c \in n - m .. n - 1
          BY <3>1
        <5> QED
          BY <3>3, <5>1, <5>2
      <4>2. down(i, s) = down(i, r)
        BY <4>1
      <4>3. i \in n - k .. n - 1 => r[i] = down(i, r)
        BY <3>2 DEF IsSunk, Sinks
      <4> QED
        BY <3>3, <4>2, <4>3
    <3>6. s = [i \in n - m .. n - 1 |-> down(i, s)]
      <4> HIDE DEF down
      <4> QED
        BY <3>3, <3>5
    <3> QED
      BY <3>6 DEF IsSunk, Sinks
  <2> QED
    BY <2>1, <2>2
<1>2. n \in P
  <2> HIDE DEF P
  <2> QED
    BY <1>1, UpTo
<1> QED
  BY <1>2

\* The slots passed are a path: every one is below the slots before it, and all but the
\* first are the smaller child of one of them.
IsWay(S, f, v, i, n) ==
    /\ S \subseteq i .. n - 1 /\ i \in S
    /\ \A j \in S : Sinks(f, v, j) => Heap!MinChild(f, j) \in S
    /\ \E z \in S : ~Sinks(f, v, z) /\ \A j \in S : j <= z /\ (j # z => Sinks(f, v, j))
    /\ \A k \in S \ {i} : Later(v, f[k]) /\ \E j \in S : Sinks(f, v, j) /\ Heap!MinChild(f, j) = k
    /\ \A j, k \in S : j < k => Heap!MinChild(f, j) <= k

LEMMA SunkWay ==
    ASSUME NEW n \in Nat, NEW f, IsSlots(f, n), NEW v, NEW s, IsSunk(s, f, v, 0, n)
    PROVE  \A i \in 0 .. n - 1 : IsWay(s[i], f, v, i, n)
<1> SUFFICES ASSUME n # 0
             PROVE  \A i \in 0 .. n - 1 : IsWay(s[i], f, v, i, n)
  OBVIOUS
<1> DEFINE P == {m \in 0 .. n - 1 : IsWay(s[n - 1 - m], f, v, n - 1 - m, n)}
<1>1. ASSUME NEW m \in 0 .. n - 1, \A j \in 0 .. m - 1 : j \in P
      PROVE  m \in P
  <2>1. PICK i \in 0 .. n - 1 : i = n - 1 - m
    OBVIOUS
  <2>2. CASE ~Sinks(f, v, i)
    <3>1. s[i] = {i}
      BY <2>2 DEF IsSunk, Sinks
    <3>2. IsWay({i}, f, v, i, n)
      BY <2>2 DEF IsWay
    <3> QED
      BY <2>1, <3>1, <3>2
  <2>3. CASE Sinks(f, v, i)
    <3>1. PICK c \in i + 1 .. n - 1 : c = Heap!MinChild(f, i)
      <4>1. PICK d \in 0 .. n - 1 : d = Heap!MinChild(f, i) /\ i < d
        BY <2>3, MinChildIs DEF Sinks
      <4> QED
        BY <4>1
    <3>2. PICK S : S = s[c]
      OBVIOUS
    <3>3. s[i] = {i} \cup S
      BY <2>3, <3>1, <3>2 DEF IsSunk, Sinks
    <3>4. n - 1 - c \in P /\ n - 1 - (n - 1 - c) = c
      BY <1>1, <2>1, <3>1
    <3>5. IsWay(S, f, v, c, n)
      BY <3>2, <3>4
    <3>6. S \subseteq c .. n - 1 /\ c \in S
      BY <3>5 DEF IsWay
    <3>7. i \notin S /\ \A k \in S : i < k /\ c <= k
      BY <3>1, <3>6
    <3>8. \A j \in {i} \cup S : Sinks(f, v, j) => Heap!MinChild(f, j) \in {i} \cup S
      BY <3>1, <3>5, <3>6 DEF IsWay
    <3>9. \E z \in {i} \cup S : /\ ~Sinks(f, v, z)
                               /\ \A j \in {i} \cup S : j <= z /\ (j # z => Sinks(f, v, j))
      <4>1. PICK z \in S : ~Sinks(f, v, z) /\ \A j \in S : j <= z /\ (j # z => Sinks(f, v, j))
        BY <3>5 DEF IsWay
      <4>2. i <= z
        BY <3>1, <3>6, <3>7
      <4> QED
        BY <2>3, <4>1, <4>2
    <3>10. \A k \in S : /\ Later(v, f[k])
                       /\ \E j \in {i} \cup S : Sinks(f, v, j) /\ Heap!MinChild(f, j) = k
      <4> SUFFICES ASSUME NEW k \in S
                   PROVE  /\ Later(v, f[k])
                          /\ \E j \in {i} \cup S : Sinks(f, v, j) /\ Heap!MinChild(f, j) = k
        OBVIOUS
      <4>1. CASE k = c
        BY <2>3, <3>1, <4>1 DEF Sinks
      <4>2. CASE k # c
        BY <3>5, <4>2 DEF IsWay
      <4> QED
        BY <4>1, <4>2
    <3>11. \A j, k \in {i} \cup S : j < k => Heap!MinChild(f, j) <= k
      <4> SUFFICES ASSUME NEW j \in {i} \cup S, NEW k \in {i} \cup S, j < k
                   PROVE  Heap!MinChild(f, j) <= k
        OBVIOUS
      <4>1. k # i
        BY <3>1, <3>6, <3>7
      <4>2. CASE j = i
        BY <3>1, <3>7, <4>1, <4>2
      <4>3. CASE j # i
        BY <3>5, <4>1, <4>3 DEF IsWay
      <4> QED
        BY <4>2, <4>3
    <3>12. {i} \cup S \subseteq i .. n - 1
      BY <3>1, <3>6
    <3>13. IsWay({i} \cup S, f, v, i, n)
      BY <3>8, <3>9, <3>10, <3>11, <3>12 DEF IsWay
    <3> QED
      BY <2>1, <3>3, <3>13
  <2> QED
    BY <2>2, <2>3
<1>2. n - 1 \in Nat
  OBVIOUS
<1>3. \A m \in 0 .. n - 1 : m \in P
  <2> HIDE DEF P
  <2> QED
    BY <1>1, <1>2, UpTo
<1>4. ASSUME NEW i \in 0 .. n - 1
      PROVE  IsWay(s[i], f, v, i, n)
  <2>1. PICK m \in 0 .. n - 1 : m = n - 1 - i
    OBVIOUS
  <2>2. m \in P
    <3> HIDE DEF P
    <3> QED
      BY <1>3
  <2>3. n - 1 - m = i
    BY <2>1
  <2> QED
    BY <2>2, <2>3
<1> QED
  BY <1>4

\* An array that puts v where the way ends, and what the slots of the way held one slot
\* higher.
IsPopped(g, S, z, f, v, n) ==
    g = [i \in 0 .. n - 1 |->
            IF i = z THEN v ELSE IF i \in S THEN f[Heap!MinChild(f, i)] ELSE f[i]]

\* The array minq_pop() sinks the last entry in: it took the place of the root.
Sinking(e, n) == [i \in 0 .. n - 1 |-> IF i = 0 THEN e[n] ELSE e[i]]

\* minq_pop() in these terms.
LEMMA PopIs ==
    ASSUME NEW n \in Nat, NEW e, IsSlots(e, n + 1)
    PROVE  \E s, ends :
              /\ IsSunk(s, Sinking(e, n), e[n], 0, n)
              /\ (\E i \in s[0] : \A j \in s[0] : j <= i)
                    => ends \in s[0] /\ \A j \in s[0] : j <= ends
              /\ IsPopped(Heap!Pop(e), s[0], ends, Sinking(e, n), e[n], n)
<1>1. Heap!Size(e) - 1 = n
  <2>1. DOMAIN e = 0 .. (n + 1) - 1 /\ n + 1 \in Nat
    BY DEF IsSlots
  <2>2. Heap!Size(e) = n + 1
    BY <2>1, SizeIs
  <2> QED
    BY <2>2
<1> DEFINE m == Heap!Size(e) - 1
           v == e[Heap!Size(e) - 1]
           f == [i \in 0 .. m - 1 |-> IF i = 0 THEN v ELSE e[i]]
           sunk[i \in 0 .. m - 1] ==
             {i} \cup IF Heap!MinChild(f, i) # 0 /\ Later(v, f[Heap!MinChild(f, i)])
                      THEN sunk[Heap!MinChild(f, i)] ELSE {}
           ends == CHOOSE i \in sunk[0] : \A j \in sunk[0] : j <= i
<1>2. Heap!Pop(e) =
          [i \in 0 .. m - 1 |->
             IF i = ends THEN v
             ELSE IF i \in sunk[0] THEN f[Heap!MinChild(f, i)] ELSE f[i]]
  BY DEF Heap!Pop
<1>3. m = n /\ v = e[n] /\ f = Sinking(e, n)
  BY <1>1 DEF Sinking
<1>4. IsSlots(f, m)
  BY <1>3 DEF IsSlots, Sinking
<1>5. IsSunk(sunk, f, v, 0, m)
  <2>1. \E s : IsSunk(s, f, v, 0, m)
    <3> HIDE DEF f, v, m
    <3> QED
      BY <1>3, <1>4, SunkExists
  <2> HIDE DEF f, v, m
  <2> QED
    BY <2>1, Zenon DEF IsSunk
<1> HIDE DEF sunk, f, v, m
<1>6. (\E i \in sunk[0] : \A j \in sunk[0] : j <= i)
        => ends \in sunk[0] /\ \A j \in sunk[0] : j <= ends
  OBVIOUS
<1> HIDE DEF ends
<1>7. IsPopped(Heap!Pop(e), sunk[0], ends, f, v, m)
  BY <1>2 DEF IsPopped
<1> QED
  BY <1>3, <1>5, <1>6, <1>7

\* The entry that took the place of the root is the only one that may be out of order.
LEMMA SinkingIs ==
    ASSUME NEW n \in Nat, NEW e, IsArray(e, n + 1), Ordered(e), NEW f, f = Sinking(e, n)
    PROVE  /\ IsSlots(f, n)
           /\ \A k \in 0 .. n - 1 : Heap!Parent(k) # 0 => ~Later(f[Heap!Parent(k)], f[k])
           /\ \A i, j \in 0 .. n - 1 : f[i] = f[j] => i = j
<1>1. /\ DOMAIN e = 0 .. n /\ \A i \in 0 .. n : e[i] \in Slot
      /\ \A i, j \in 0 .. n : e[i] = e[j] => i = j
  <2>1. n + 1 - 1 = n
    OBVIOUS
  <2> QED
    BY <2>1 DEF IsArray
<1>2. \A i \in 0 .. n - 1 : f[i] = e[IF i = 0 THEN n ELSE i]
  BY DEF Sinking
<1>3. \A i, j \in 0 .. n - 1 : f[i] = f[j] => i = j
  <2> SUFFICES ASSUME NEW i \in 0 .. n - 1, NEW j \in 0 .. n - 1, f[i] = f[j]
               PROVE  i = j
    OBVIOUS
  <2>1. (IF i = 0 THEN n ELSE i) = (IF j = 0 THEN n ELSE j)
    BY <1>1, <1>2
  <2> QED
    BY <2>1
<1>4. ASSUME NEW k \in 0 .. n - 1, Heap!Parent(k) # 0
      PROVE  ~Later(f[Heap!Parent(k)], f[k])
  <2>1. k # 0 /\ Heap!Parent(k) \in 1 .. n - 1
    BY <1>4, ParentIs
  <2> QED
    BY <1>1, <1>2, <2>1 DEF Ordered
<1> QED
  BY <1>1, <1>3, <1>4 DEF IsSlots, Sinking

LEMMA PoppedOrdered ==
    ASSUME NEW n \in Nat, n # 0, NEW f, IsSlots(f, n),
           \A k \in 0 .. n - 1 : Heap!Parent(k) # 0 => ~Later(f[Heap!Parent(k)], f[k]),
           NEW v, v = f[0],
           NEW S, IsWay(S, f, v, 0, n), NEW z \in S, \A j \in S : j <= z,
           NEW g, IsPopped(g, S, z, f, v, n)
    PROVE  Ordered(g)
<1>1. /\ S \subseteq 0 .. n - 1 /\ 0 \in S /\ z \in 0 .. n - 1
      /\ DOMAIN g = 0 .. n - 1 /\ \A i \in 0 .. n - 1 : f[i] \in Slot
      /\ v \in Slot
  BY DEF IsWay, IsSlots, IsPopped
<1>2. ~Sinks(f, v, z) /\ \A j \in S : j # z => Sinks(f, v, j)
  <2>1. PICK y \in S : ~Sinks(f, v, y) /\ \A j \in S : j <= y /\ (j # y => Sinks(f, v, j))
    BY DEF IsWay
  <2>2. y = z
    BY <1>1, <2>1
  <2> QED
    BY <2>1, <2>2
\* A slot of the way is the smaller child of its parent, which is on the way.
<1>3. ASSUME NEW k \in S, k # 0
      PROVE  /\ Heap!Parent(k) \in S /\ Heap!Parent(k) # z
             /\ Heap!MinChild(f, Heap!Parent(k)) = k /\ Later(v, f[k])
  <2>1. PICK j \in S : Sinks(f, v, j) /\ Heap!MinChild(f, j) = k
    BY <1>3 DEF IsWay
  <2>2. Heap!Parent(k) = j
    BY <1>1, <1>3, <2>1, MinChildIs
  <2> QED
    BY <1>2, <1>3, <2>1, <2>2 DEF IsWay
<1>4. ASSUME NEW k \in 0 .. n - 1
      PROVE  ~Later(g[Heap!Parent(k)], g[k])
  <2>1. CASE k = 0
    <3>1. Heap!Parent(k) = 0
      BY <2>1, ParentIs
    <3>2. g[0] \in Slot
      <4>1. 0 = z => g[0] = v
        BY <1>1 DEF IsPopped
      <4>2. 0 # z => g[0] = f[Heap!MinChild(f, 0)]
        BY <1>1 DEF IsPopped
      <4>3. Heap!MinChild(f, 0) \in 0 .. n - 1
        BY <1>1, MinChildIs
      <4> QED
        BY <1>1, <4>1, <4>2, <4>3
    <3> QED
      BY <2>1, <3>1, <3>2, LaterIsOrder
  <2>2. CASE k # 0
    <3>1. PICK p \in 0 .. n - 1 : p = Heap!Parent(k) /\ p < k
      BY <2>2, ParentIs
    <3>2. k \in 1 .. n - 1
      BY <2>2
    <3>3. PICK c \in 0 .. n - 1 :
            /\ c = Heap!MinChild(f, p)
            /\ \/ c # 0 /\ ~Later(f[c], f[k])
               \/ c = 0 /\ p = 0 /\ k = 1 /\ ~Later(f[0], f[k])
      BY <3>1, <3>2, MinChildIs
    <3>4. CASE p \notin S
      <4>1. k \notin S
        BY <1>3, <2>2, <3>1, <3>4
      <4>2. g[p] = f[p] /\ g[k] = f[k]
        BY <3>1, <3>4, <4>1 DEF IsPopped
      <4>3. p # 0
        BY <1>1, <3>4
      <4> QED
        BY <3>1, <4>2, <4>3
    <3>5. CASE p = z
      <4>1. k \notin S
        BY <1>3, <2>2, <3>1, <3>5
      <4>2. g[p] = v /\ g[k] = f[k]
        BY <3>1, <3>5, <4>1 DEF IsPopped
      <4>3. c = 0 \/ ~Later(v, f[c])
        BY <1>2, <3>3, <3>5 DEF Sinks
      <4>4. ~Later(v, f[k])
        BY <1>1, <3>3, <4>3, LaterIsOrder
      <4> QED
        BY <3>1, <4>2, <4>4
    <3>6. CASE p \in S /\ p # z
      <4>1. Sinks(f, v, p) /\ c # 0
        BY <1>2, <3>3, <3>6 DEF Sinks
      <4>2. g[p] = f[c]
        BY <3>1, <3>3, <3>6 DEF IsPopped
      <4>3. CASE k = c
        <5>1. k \in S /\ Later(v, f[k])
          BY <1>3, <2>2, <3>3, <3>6, <4>1, <4>3 DEF IsWay
        <5>2. CASE k = z
          <6>1. g[k] = v
            BY <5>2 DEF IsPopped
          <6> QED
            BY <1>1, <3>1, <4>2, <4>3, <5>1, <6>1, LaterIsOrder
        <5>3. CASE k # z
          <6>1. Sinks(f, v, k)
            BY <1>2, <5>1, <5>3
          <6>2. PICK d \in 0 .. n - 1 : d = Heap!MinChild(f, k) /\ d # 0 /\ Heap!Parent(d) = k
            BY <6>1, MinChildIs DEF Sinks
          <6>3. g[k] = f[d]
            BY <5>1, <5>3, <6>2 DEF IsPopped
          <6>4. ~Later(f[k], f[d])
            BY <2>2, <6>2
          <6> QED
            BY <3>1, <4>2, <4>3, <6>3, <6>4
        <5> QED
          BY <5>2, <5>3
      <4>4. CASE k # c
        <5>1. k \notin S
          BY <1>3, <2>2, <3>1, <3>3, <4>4
        <5>2. g[k] = f[k]
          BY <5>1 DEF IsPopped
        <5> QED
          BY <3>1, <3>3, <4>1, <4>2, <5>2
      <4> QED
        BY <4>3, <4>4
    <3> QED
      BY <3>4, <3>5, <3>6
  <2> QED
    BY <2>1, <2>2
<1> QED
  BY <1>1, <1>4 DEF Ordered

LEMMA PoppedIsArray ==
    ASSUME NEW n \in Nat, n # 0, NEW f, IsSlots(f, n),
           \A i, j \in 0 .. n - 1 : f[i] = f[j] => i = j,
           NEW v, v = f[0],
           NEW S, IsWay(S, f, v, 0, n), NEW z \in S, \A j \in S : j <= z,
           NEW g, IsPopped(g, S, z, f, v, n)
    PROVE  IsArray(g, n) /\ Entries(g) = Entries(f)
<1>1. /\ S \subseteq 0 .. n - 1 /\ 0 \in S /\ z \in 0 .. n - 1
      /\ DOMAIN g = 0 .. n - 1 /\ DOMAIN f = 0 .. n - 1 /\ \A i \in 0 .. n - 1 : f[i] \in Slot
  BY DEF IsWay, IsSlots, IsPopped
<1>2. ~Sinks(f, v, z) /\ \A j \in S : j # z => Sinks(f, v, j)
  <2>1. PICK y \in S : ~Sinks(f, v, y) /\ \A j \in S : j <= y /\ (j # y => Sinks(f, v, j))
    BY DEF IsWay
  <2>2. y = z
    BY <1>1, <2>1
  <2> QED
    BY <2>1, <2>2
\* Where the entry of slot i comes from.
<1>3. PICK from : from = [i \in 0 .. n - 1 |-> IF i = z THEN 0
                                              ELSE IF i \in S THEN Heap!MinChild(f, i) ELSE i]
  OBVIOUS
<1>4. ASSUME NEW i \in S, i # z
      PROVE  from[i] \in S /\ from[i] # 0 /\ i < from[i] /\ from[i] = Heap!MinChild(f, i)
  <2>1. Sinks(f, v, i) /\ i \in 0 .. n - 1
    BY <1>1, <1>2, <1>4
  <2>2. from[i] = Heap!MinChild(f, i)
    BY <1>3, <1>4, <2>1
  <2>3. Heap!MinChild(f, i) \in S /\ Heap!MinChild(f, i) # 0
    BY <2>1 DEF IsWay, Sinks
  <2>4. i < Heap!MinChild(f, i)
    BY <2>1, <2>3, MinChildIs
  <2> QED
    BY <2>2, <2>3, <2>4
<1>5. from[z] = 0
  BY <1>1, <1>3
<1>6. \A i \in 0 .. n - 1 : from[i] \in 0 .. n - 1 /\ (i \in S <=> from[i] \in S) /\ g[i] = f[from[i]]
  <2> SUFFICES ASSUME NEW i \in 0 .. n - 1
               PROVE  from[i] \in 0 .. n - 1 /\ (i \in S <=> from[i] \in S) /\ g[i] = f[from[i]]
    OBVIOUS
  <2>1. CASE i = z
    BY <1>1, <1>5, <2>1 DEF IsPopped
  <2>2. CASE i \in S /\ i # z
    BY <1>1, <1>4, <2>2 DEF IsPopped
  <2>3. CASE i \notin S
    BY <1>3, <2>3 DEF IsPopped
  <2> QED
    BY <2>1, <2>2, <2>3
<1>7. ASSUME NEW i \in 0 .. n - 1, NEW j \in 0 .. n - 1, from[i] = from[j], i < j
      PROVE  FALSE
  <2>1. CASE i \notin S \/ j \notin S
    BY <1>3, <1>6, <1>7, <2>1
  <2>2. CASE i \in S /\ j \in S
    <3>1. i # z
      BY <1>1, <1>7, <2>2
    <3>2. CASE j = z
      BY <1>4, <1>5, <1>7, <2>2, <3>1, <3>2
    <3>3. CASE j # z
      <4>1. from[i] <= j
        BY <1>4, <1>7, <2>2, <3>1 DEF IsWay
      <4>2. j < from[j]
        BY <1>4, <2>2, <3>3
      <4> QED
        BY <1>6, <1>7, <4>1, <4>2
    <3> QED
      BY <3>2, <3>3
  <2> QED
    BY <2>1, <2>2
<1>8. \A i, j \in 0 .. n - 1 : from[i] = from[j] => i = j
  BY <1>7
<1>9. IsArray(g, n)
  <2>1. g = [i \in 0 .. n - 1 |-> g[i]]
    BY DEF IsPopped
  <2>2. \A i \in 0 .. n - 1 : g[i] \in Slot
    BY <1>1, <1>6
  <2>3. g \in [0 .. n - 1 -> Slot]
    BY <2>1, <2>2
  <2> QED
    BY <1>6, <1>8, <2>3 DEF IsArray
<1>10. ASSUME NEW k \in 0 .. n - 1
       PROVE  \E i \in 0 .. n - 1 : from[i] = k
  <2>1. CASE k \notin S
    <3>1. from[k] = k
      BY <1>1, <1>3, <2>1
    <3> QED
      BY <3>1
  <2>2. CASE k = 0
    BY <1>1, <1>5, <2>2
  <2>3. CASE k \in S /\ k # 0
    <3>1. PICK j \in S : Sinks(f, v, j) /\ Heap!MinChild(f, j) = k
      BY <2>3 DEF IsWay
    <3>2. j # z /\ j \in 0 .. n - 1
      BY <1>1, <1>2, <3>1
    <3>3. from[j] = k
      BY <1>4, <3>1, <3>2
    <3> QED
      BY <3>2, <3>3
  <2> QED
    BY <2>1, <2>2, <2>3
<1>11. Entries(g) = Entries(f)
  <2>1. Entries(g) = {g[i] : i \in 0 .. n - 1} /\ Entries(f) = {f[i] : i \in 0 .. n - 1}
    BY <1>1 DEF Entries
  <2>2. \A i \in 0 .. n - 1 : \E k \in 0 .. n - 1 : g[i] = f[k]
    BY <1>6
  <2>3. \A k \in 0 .. n - 1 : \E i \in 0 .. n - 1 : g[i] = f[k]
    BY <1>6, <1>10
  <2>4. \A x \in Entries(g) : x \in Entries(f)
    BY <2>1, <2>2
  <2>5. \A x \in Entries(f) : x \in Entries(g)
    BY <2>1, <2>3
  <2> QED
    BY <2>4, <2>5
<1> QED
  BY <1>9, <1>11

\* minq_pop(): the heap holds all it held but its root, every one once, and is a heap.
LEMMA PopKeeps ==
    ASSUME NEW n \in Nat, NEW e, IsArray(e, n + 1), Ordered(e)
    PROVE  LET g == Heap!Pop(e)
           IN  IsArray(g, n) /\ Ordered(g) /\ Entries(g) = Entries(e) \ {e[0]}
<1>1. /\ DOMAIN e = 0 .. n /\ \A i \in 0 .. n : e[i] \in Slot
      /\ \A i, j \in 0 .. n : e[i] = e[j] => i = j
      /\ IsSlots(e, n + 1)
  <2>1. n + 1 - 1 = n
    OBVIOUS
  <2> QED
    BY <2>1 DEF IsArray, IsSlots
<1>2. PICK f : f = Sinking(e, n)
  OBVIOUS
<1>3. PICK s, z : /\ IsSunk(s, f, e[n], 0, n)
                  /\ (\E i \in s[0] : \A j \in s[0] : j <= i)
                        => z \in s[0] /\ \A j \in s[0] : j <= z
                  /\ IsPopped(Heap!Pop(e), s[0], z, f, e[n], n)
  BY <1>1, <1>2, PopIs
<1>4. PICK g : g = Heap!Pop(e)
  OBVIOUS
<1>5. Entries(e) = {e[i] : i \in 0 .. n}
  BY <1>1 DEF Entries
<1>6. CASE n = 0
  <2>1. 0 .. n - 1 = {} /\ 0 .. n = {0}
    BY <1>6
  <2>2. g = [i \in 0 .. n - 1 |-> g[i]]
    BY <1>3, <1>4 DEF IsPopped
  <2>3. g \in [0 .. n - 1 -> Slot]
    BY <2>1, <2>2
  <2>4. IsArray(g, n) /\ Ordered(g) /\ Entries(g) = {}
    BY <2>1, <2>3 DEF IsArray, Ordered, Entries
  <2>5. Entries(e) \ {e[0]} = {}
    BY <1>5, <2>1
  <2> QED
    BY <1>4, <2>4, <2>5
<1>7. CASE n # 0
  <2>1. /\ IsSlots(f, n)
        /\ \A k \in 0 .. n - 1 : Heap!Parent(k) # 0 => ~Later(f[Heap!Parent(k)], f[k])
        /\ \A i, j \in 0 .. n - 1 : f[i] = f[j] => i = j
    BY <1>2, SinkingIs
  <2>2. \A i \in 0 .. n - 1 : f[i] = e[IF i = 0 THEN n ELSE i]
    BY <1>2 DEF Sinking
  <2>3. 0 \in 0 .. n - 1 /\ e[n] = f[0]
    BY <1>7, <2>2
  <2>4. PICK S : S = s[0]
    OBVIOUS
  <2>5. IsWay(S, f, f[0], 0, n)
    BY <1>3, <2>1, <2>3, <2>4, SunkWay
  <2>6. z \in S /\ \A j \in S : j <= z
    BY <1>3, <2>4, <2>5 DEF IsWay
  <2>7. IsPopped(g, S, z, f, f[0], n)
    BY <1>3, <1>4, <2>3, <2>4
  <2>8. Ordered(g)
    BY <1>7, <2>1, <2>5, <2>6, <2>7, PoppedOrdered
  <2>9. IsArray(g, n) /\ Entries(g) = Entries(f)
    BY <1>7, <2>1, <2>5, <2>6, <2>7, PoppedIsArray
  <2>10. Entries(f) = {f[i] : i \in 0 .. n - 1}
    BY <2>1 DEF Entries, IsSlots
  <2>11. \A i \in 0 .. n - 1 : \E k \in 1 .. n : f[i] = e[k]
    <3>1. \A i \in 0 .. n - 1 : (IF i = 0 THEN n ELSE i) \in 1 .. n
      BY <1>7
    <3> QED
      BY <2>2, <3>1
  <2>12. \A k \in 1 .. n : \E i \in 0 .. n - 1 : f[i] = e[k]
    <3> SUFFICES ASSUME NEW k \in 1 .. n
                 PROVE  \E i \in 0 .. n - 1 : f[i] = e[k]
      OBVIOUS
    <3>1. CASE k = n
      BY <2>3, <3>1
    <3>2. CASE k # n
      <4>1. k \in 0 .. n - 1 /\ k # 0
        BY <3>2
      <4> QED
        BY <2>2, <4>1
    <3> QED
      BY <3>1, <3>2
  <2>13. Entries(f) = {e[k] : k \in 1 .. n}
    BY <2>10, <2>11, <2>12
  <2>14. Entries(e) \ {e[0]} = {e[k] : k \in 1 .. n}
    <3>1. \A k \in 1 .. n : k \in 0 .. n /\ k # 0 /\ 0 \in 0 .. n
      OBVIOUS
    <3>2. \A k \in 1 .. n : e[k] # e[0]
      BY <1>1, <3>1
    <3>3. \A k \in 0 .. n : k = 0 \/ k \in 1 .. n
      OBVIOUS
    <3> QED
      BY <1>5, <3>1, <3>2, <3>3
  <2> QED
    BY <1>4, <2>8, <2>9, <2>13, <2>14
<1> QED
  BY <1>6, <1>7
----------------------------------------------------------------------------
LEMMA Constants ==
    /\ PerSec \in Nat /\ PerSec # 0 /\ PerSec >= 1 /\ MaxTime \in Nat
    /\ Delay \in Nat /\ Jitter \in Nat
    /\ MsPerSec \in Nat \ {0} /\ UsPerMs \in Nat \ {0}
<1>1. PICK m \in Nat, u \in Nat : m = MsPerSec /\ u = UsPerMs /\ m >= 1 /\ u >= 1
  BY LinkAssumption
<1>2. m * u \in Nat /\ m * u >= 1
  BY <1>1
<1>3. PerSec = m * u
  BY <1>1 DEF PerSec
<1> QED
  BY <1>2, <1>3, LinkAssumption

\* Seconds in the units of the clock.
LEMMA Scaled ==
    ASSUME NEW a \in Nat, NEW c \in Nat, NEW k \in Nat
    PROVE  /\ a * k \in Nat /\ c * k \in Nat
           /\ (a - c) * k = a * k - c * k
           /\ (a - c - 1) * k = a * k - c * k - k
           /\ c < a => c * k + k <= a * k
           /\ c + 1 < a => c * k + 2 * k <= a * k
<1>1. a * k \in Nat /\ c * k \in Nat
  OBVIOUS
<1>2. (a - c) * k = a * k - c * k /\ (a - c - 1) * k = a * k - c * k - k
  OBVIOUS
<1>3. ASSUME c < a
      PROVE  c * k + k <= a * k
  <2>1. PICK m \in Nat : a = c + 1 + m
    <3>1. a - c - 1 \in Nat /\ a = c + 1 + (a - c - 1)
      BY <1>3
    <3> QED
      BY <3>1
  <2>2. a * k = c * k + k + m * k /\ m * k \in Nat
    BY <2>1
  <2> QED
    BY <1>1, <2>2
<1>4. ASSUME c + 1 < a
      PROVE  c * k + 2 * k <= a * k
  <2>1. PICK m \in Nat : a = c + 2 + m
    <3>1. a - c - 2 \in Nat /\ a = c + 2 + (a - c - 2)
      BY <1>4
    <3> QED
      BY <3>1
  <2>2. a * k = c * k + 2 * k + m * k /\ m * k \in Nat
    BY <2>1
  <2> QED
    BY <1>1, <2>2
<1> QED
  BY <1>1, <1>2, <1>3, <1>4

\* Division, by whatever a second is divided into.
LEMMA Division ==
    ASSUME NEW t \in Nat
    PROVE  /\ t \div PerSec \in Nat /\ t \div PerSec <= t
           /\ t % PerSec \in Nat /\ t % PerSec < PerSec
<1>1. PICK k \in Nat : k = PerSec /\ k >= 1
  BY Constants
<1>2. t \div k \in Nat /\ t % k \in Nat /\ t % k < k /\ t = k * (t \div k) + (t % k)
  BY <1>1
<1>3. PICK q \in Nat : q = t \div k
  BY <1>2
<1>4. k * q >= q
  BY <1>1
<1> QED
  BY <1>1, <1>2, <1>3, <1>4

LEMMA DateIs ==
    ASSUME NEW t \in 0 .. MaxTime
    PROVE  Date(t) \in Timeval /\ Date(t).usec < PerSec
<1>1. /\ t \div PerSec \in Nat /\ t \div PerSec <= t
      /\ t % PerSec \in Nat /\ t % PerSec < PerSec
  BY Constants, Division
<1>2. t \div PerSec \in 0 .. MaxTime
  BY <1>1, Constants
<1> QED
  BY <1>1, <1>2 DEF Date, Timeval

LEMMA DelaysAre ==
    ASSUME NEW d \in AppliedDelays
    PROVE  d \in Nat
<1>1. PICK m \in Nat \ {0} : m = 10 * MsPerSec
  BY Constants
<1>2. PICK x \in Nat : d = x % m
  BY <1>1, Constants DEF AppliedDelays
<1> QED
  BY <1>1, <1>2

\* A delay in the seconds and microseconds that are added to a date.
LEMMA DelayParts ==
    ASSUME NEW d \in Nat
    PROVE  /\ d \div MsPerSec \in Nat /\ (d % MsPerSec) * UsPerMs \in Nat
           /\ (d % MsPerSec) * UsPerMs < PerSec
<1>1. PICK m \in Nat, u \in Nat : m = MsPerSec /\ u = UsPerMs /\ m >= 1 /\ u >= 1
  BY Constants
<1>2. d \div m \in Nat /\ d % m \in Nat /\ d % m < m
  BY <1>1
<1>3. PICK x \in Nat : x = d % m /\ x < m
  BY <1>2
<1>4. PICK xu \in Nat, mu \in Nat : xu = x * u /\ mu = m * u /\ xu + u <= mu
  BY <1>3, Scaled
<1>5. xu < mu
  BY <1>1, <1>4
<1>6. PerSec = mu
  BY <1>1, <1>4 DEF PerSec
<1> QED
  BY <1>1, <1>2, <1>3, <1>4, <1>5, <1>6

\* The queue in the terms of the lemmas about heaps, and back.
LEMMA QueueIs ==
    ASSUME TypeOK, HeapInv
    PROVE  /\ Heap!Size(queue) \in Nat
           /\ IsArray(queue, Heap!Size(queue)) /\ Ordered(queue)
           /\ \A x, y \in Entries(queue) : x.pkt = y.pkt => x = y
           /\ Entries(queue) \subseteq Slot
BY DEF TypeOK, HeapInv, IsArray, Ordered, Entries

LEMMA QueueHolds ==
    ASSUME NEW q, NEW n \in Nat, IsArray(q, n), Ordered(q),
           \A x, y \in Entries(q) : x.pkt = y.pkt => x = y
    PROVE  /\ Heap!Size(q) \in Nat /\ q \in [0 .. Heap!Size(q) - 1 -> Slot]
           /\ \A i \in DOMAIN q : ~Later(q[Heap!Parent(i)], q[i])
           /\ \A i, j \in DOMAIN q : q[i].pkt = q[j].pkt => i = j
           /\ \A p : (\E i \in DOMAIN q : q[i].pkt = p) <=> (\E x \in Entries(q) : x.pkt = p)
<1>1. DOMAIN q = 0 .. n - 1
  BY DEF IsArray
<1>2. Heap!Size(q) = n
  BY <1>1, SizeIs
<1>3. \A i, j \in DOMAIN q : q[i].pkt = q[j].pkt => i = j
  BY <1>1 DEF IsArray, Entries
<1>4. \A p : (\E i \in DOMAIN q : q[i].pkt = p) <=> (\E x \in Entries(q) : x.pkt = p)
  BY DEF Entries
<1> QED
  BY <1>2, <1>3, <1>4 DEF IsArray, Ordered

\* When the queue is not empty it has a root.
LEMMA HeadIs ==
    ASSUME TypeOK, HeapInv, queue # Heap!Empty
    PROVE  /\ Heap!Size(queue) # 0 /\ 0 \in DOMAIN queue
           /\ queue[0] \in Slot /\ queue[0] \in Entries(queue)
<1>1. Heap!Size(queue) \in Nat /\ queue \in [0 .. Heap!Size(queue) - 1 -> Slot]
  BY DEF TypeOK
<1>2. Heap!Size(queue) # 0
  <2> SUFFICES ASSUME Heap!Size(queue) = 0
               PROVE  FALSE
    OBVIOUS
  <2>1. 0 .. Heap!Size(queue) - 1 = {}
    OBVIOUS
  <2>2. queue \in [{} -> Slot]
    BY <1>1, <2>1
  <2> QED
    BY <2>2 DEF Heap!Empty
<1> QED
  BY <1>1, <1>2 DEF Entries

LEMMA LinkSimInvInit == Init => LinkSimInv
<1> SUFFICES ASSUME Init
             PROVE  LinkSimInv
  OBVIOUS
<1>1. /\ now = 0 /\ lastClock = Date(0) /\ queue = Heap!Empty
      /\ pending = {} /\ fate = [p \in Packets |-> "unsent"]
      /\ ready = FALSE /\ pc = "select"
  BY DEF Init
<1>2. 0 .. 0 - 1 = {} /\ 0 \in 0 .. MaxTime
  BY Constants
<1>3. DOMAIN queue = {} /\ queue \in [0 .. 0 - 1 -> Slot]
  BY <1>1, <1>2 DEF Heap!Empty
<1>4. Heap!Size(queue) = 0
  BY <1>2, <1>3, SizeIs
<1>5. Date(0) \in Timeval /\ Date(0).usec < PerSec
  BY <1>2, DateIs
<1>6. TypeOK
  <2>1. now \in 0 .. MaxTime /\ lastClock \in Timeval
    BY <1>1, <1>2, <1>5
  <2>2. Heap!Size(queue) \in Nat /\ queue \in [0 .. Heap!Size(queue) - 1 -> Slot]
    BY <1>3, <1>4
  <2>3. fate \in [Packets -> {"unsent", "pending", "queued", "forward", "reverse", "dropped"}]
    BY <1>1
  <2> QED
    BY <1>1, <2>1, <2>2, <2>3 DEF TypeOK
<1> QED
  BY <1>1, <1>3, <1>5, <1>6 DEF LinkSimInv, HeapInv, FateInv, DateInv

\* A step that leaves the queue and the fates of what is in it alone.
LEMMA QueueStays ==
    ASSUME LinkSimInv, queue' = queue,
           \A p \in Packets : fate'[p] = "queued" <=> fate[p] = "queued"
    PROVE  /\ Heap!Size(queue') \in Nat /\ queue' \in [0 .. Heap!Size(queue') - 1 -> Slot]
           /\ HeapInv'
           /\ \A p \in Packets : fate'[p] = "queued" <=> \E i \in DOMAIN queue' : queue'[i].pkt = p
           /\ \A i \in DOMAIN queue' : queue'[i].usec <= 2 * PerSec - 2
BY DEF LinkSimInv, TypeOK, HeapInv, FateInv, DateInv

\* The parts of the invariant that are put together again after a step.
LEMMA Assemble ==
    ASSUME now' \in 0 .. MaxTime, lastClock' \in Timeval, lastClock'.usec < PerSec,
           Heap!Size(queue') \in Nat, queue' \in [0 .. Heap!Size(queue') - 1 -> Slot],
           HeapInv',
           \A p \in Packets : fate'[p] = "queued" <=> \E i \in DOMAIN queue' : queue'[i].pkt = p,
           \A i \in DOMAIN queue' : queue'[i].usec <= 2 * PerSec - 2,
           pending' \subseteq [from : {"source", "dest", "alien"}, pkt : Packets],
           fate' \in [Packets -> {"unsent", "pending", "queued", "forward", "reverse", "dropped"}],
           \A d \in pending' : fate'[d.pkt] = "pending",
           \A c, d \in pending' : c.pkt = d.pkt => c = d,
           ready' \in BOOLEAN, pc' \in {"select", "deliver", "receive", "stopped"}
    PROVE  LinkSimInv'
BY DEF LinkSimInv, TypeOK, FateInv, DateInv

\* What the invariant says of a state.
LEMMA Holding ==
    ASSUME LinkSimInv
    PROVE  /\ now \in 0 .. MaxTime /\ lastClock \in Timeval /\ lastClock.usec < PerSec
           /\ pending \subseteq [from : {"source", "dest", "alien"}, pkt : Packets]
           /\ fate \in [Packets -> {"unsent", "pending", "queued", "forward", "reverse", "dropped"}]
           /\ \A d \in pending : fate[d.pkt] = "pending"
           /\ \A c, d \in pending : c.pkt = d.pkt => c = d
           /\ ready \in BOOLEAN /\ pc \in {"select", "deliver", "receive", "stopped"}
           /\ TypeOK /\ HeapInv
BY DEF LinkSimInv, TypeOK, FateInv, DateInv

\* The steps that only read the queue.
LEMMA OthersKeep ==
    ASSUME LinkSimInv,
           \/ Tick \/ Arrive \/ Wake \/ WaitFails
           \/ DeliverDone \/ DeliverFails \/ ReceiveNothing \/ SendFails
    PROVE  LinkSimInv'
<1>1. CASE Tick
  <2>1. /\ now' = now + 1 /\ now < MaxTime /\ lastClock' = lastClock /\ queue' = queue
        /\ pending' = pending /\ fate' = fate /\ ready' = ready /\ pc' = pc
    BY <1>1 DEF Tick
  <2>2. now' \in 0 .. MaxTime
    BY <2>1, Holding, Constants
  <2> QED
    BY <2>1, <2>2, Holding, QueueStays, Assemble
<1>2. CASE Arrive
  <2>1. PICK p \in Packets, from \in {"source", "dest", "alien"} :
          /\ fate[p] = "unsent"
          /\ pending' = pending \cup {[from |-> from, pkt |-> p]}
          /\ fate' = [fate EXCEPT ![p] = "pending"]
    BY <1>2 DEF Arrive
  <2>2. now' = now /\ lastClock' = lastClock /\ queue' = queue /\ ready' = ready /\ pc' = pc
    BY <1>2 DEF Arrive
  <2>3. PICK d : d = [from |-> from, pkt |-> p]
    OBVIOUS
  <2>4. /\ pending' = pending \cup {d} /\ d.pkt = p
        /\ d \in [from : {"source", "dest", "alien"}, pkt : Packets]
    BY <2>1, <2>3
  <2>5. \A q \in Packets : fate'[q] = IF q = p THEN "pending" ELSE fate[q]
    BY <2>1, Holding
  <2>6. \A c \in pending : c.pkt \in Packets /\ c.pkt # p
    BY <2>1, Holding
  <2>7. \A c \in pending' : fate'[c.pkt] = "pending"
    BY <2>4, <2>5, <2>6, Holding
  <2>8. \A b, c \in pending' : b.pkt = c.pkt => b = c
    BY <2>4, <2>6, Holding
  <2>9. fate' \in [Packets -> {"unsent", "pending", "queued", "forward", "reverse", "dropped"}]
    BY <2>1, Holding
  <2>10. \A q \in Packets : fate'[q] = "queued" <=> fate[q] = "queued"
    BY <2>1, <2>5
  <2> QED
    BY <2>2, <2>4, <2>7, <2>8, <2>9, <2>10, Holding, QueueStays, Assemble
<1>3. CASE Wake
  <2>1. /\ ready' = (pending # {}) /\ lastClock' = Date(now) /\ pc' = "deliver"
        /\ now' = now /\ queue' = queue /\ pending' = pending /\ fate' = fate
    BY <1>3 DEF Wake
  <2>2. lastClock' \in Timeval /\ lastClock'.usec < PerSec
    BY <2>1, Holding, DateIs
  <2> QED
    BY <2>1, <2>2, Holding, QueueStays, Assemble
<1>4. CASE DeliverDone
  <2>1. /\ pc' \in {"receive", "select"} /\ now' = now /\ lastClock' = lastClock
        /\ queue' = queue /\ pending' = pending /\ fate' = fate /\ ready' = ready
    BY <1>4 DEF DeliverDone
  <2> QED
    BY <2>1, Holding, QueueStays, Assemble
<1>5. CASE WaitFails \/ DeliverFails \/ ReceiveNothing
  <2>1. /\ pc' \in {"select", "stopped"} /\ now' = now /\ lastClock' = lastClock
        /\ queue' = queue /\ pending' = pending /\ fate' = fate /\ ready' = ready
    BY <1>5 DEF WaitFails, DeliverFails, ReceiveNothing
  <2> QED
    BY <2>1, Holding, QueueStays, Assemble
<1>6. CASE SendFails
  <2>1. PICK d \in pending : /\ pending' = pending \ {d}
                             /\ fate' = [fate EXCEPT ![d.pkt] = "dropped"]
    BY <1>6 DEF SendFails
  <2>2. /\ pc' = "stopped" /\ now' = now /\ lastClock' = lastClock
        /\ queue' = queue /\ ready' = ready
    BY <1>6 DEF SendFails
  <2>3. d.pkt \in Packets /\ fate[d.pkt] = "pending"
    BY Holding
  <2>4. \A q \in Packets : fate'[q] = IF q = d.pkt THEN "dropped" ELSE fate[q]
    BY <2>1, Holding
  <2>5. \A c \in pending' : c \in pending /\ c.pkt \in Packets /\ c.pkt # d.pkt
    BY <2>1, Holding
  <2>6. \A c \in pending' : fate'[c.pkt] = "pending"
    BY <2>4, <2>5, Holding
  <2>7. fate' \in [Packets -> {"unsent", "pending", "queued", "forward", "reverse", "dropped"}]
    BY <2>1, Holding
  <2>8. \A q \in Packets : fate'[q] = "queued" <=> fate[q] = "queued"
    BY <2>3, <2>4
  <2> QED
    BY <2>1, <2>2, <2>5, <2>6, <2>7, <2>8, Holding, QueueStays, Assemble
<1> QED
  BY <1>1, <1>2, <1>3, <1>4, <1>5, <1>6

\* A packet whose delay is over leaves the heap: the root, and no other.
LEMMA DeliverKeeps ==
    ASSUME LinkSimInv, DeliverOne
    PROVE  LinkSimInv'
<1>1. /\ queue # Heap!Empty
      /\ fate' = [fate EXCEPT ![queue[0].pkt] = queue[0].dir] /\ queue' = Heap!Pop(queue)
      /\ now' = now /\ lastClock' = lastClock /\ pending' = pending
      /\ ready' = ready /\ pc' = pc
  BY DEF DeliverOne, Expired
<1>2. /\ Heap!Size(queue) \in Nat /\ IsArray(queue, Heap!Size(queue)) /\ Ordered(queue)
      /\ \A x, y \in Entries(queue) : x.pkt = y.pkt => x = y
      /\ Entries(queue) \subseteq Slot
  BY Holding, QueueIs
<1>3. /\ Heap!Size(queue) # 0 /\ queue[0] \in Slot /\ queue[0] \in Entries(queue)
  BY <1>1, Holding, HeadIs
<1>4. PICK n \in Nat : Heap!Size(queue) = n + 1
  <2>1. Heap!Size(queue) - 1 \in Nat /\ Heap!Size(queue) = (Heap!Size(queue) - 1) + 1
    BY <1>2, <1>3
  <2> QED
    BY <2>1
<1>5. PICK h \in Slot : h = queue[0]
  BY <1>3
<1>6. PICK g : g = Heap!Pop(queue)
  OBVIOUS
<1>7. IsArray(g, n) /\ Ordered(g) /\ Entries(g) = Entries(queue) \ {h}
  BY <1>2, <1>4, <1>5, <1>6, PopKeeps
<1>8. \A x, y \in Entries(g) : x.pkt = y.pkt => x = y
  BY <1>2, <1>7
<1>9. /\ Heap!Size(g) \in Nat /\ g \in [0 .. Heap!Size(g) - 1 -> Slot]
      /\ \A i \in DOMAIN g : ~Later(g[Heap!Parent(i)], g[i])
      /\ \A i, j \in DOMAIN g : g[i].pkt = g[j].pkt => i = j
      /\ \A p : (\E i \in DOMAIN g : g[i].pkt = p) <=> (\E x \in Entries(g) : x.pkt = p)
  BY <1>7, <1>8, QueueHolds
<1>10. \A p \in Packets : fate[p] = "queued" <=> \E x \in Entries(queue) : x.pkt = p
  BY DEF LinkSimInv, FateInv, Entries
<1>11. h.pkt \in Packets /\ h.dir \in {"forward", "reverse"} /\ fate[h.pkt] = "queued"
  BY <1>3, <1>5, <1>10 DEF Slot
<1>12. \A p \in Packets : fate'[p] = IF p = h.pkt THEN h.dir ELSE fate[p]
  BY <1>1, <1>5, Holding
<1>13. \A p \in Packets : fate'[p] = "queued" <=> \E x \in Entries(g) : x.pkt = p
  <2> SUFFICES ASSUME NEW p \in Packets
               PROVE  fate'[p] = "queued" <=> \E x \in Entries(g) : x.pkt = p
    OBVIOUS
  <2>1. CASE p = h.pkt
    <3>1. fate'[p] # "queued"
      BY <1>11, <1>12, <2>1
    <3>2. \A x \in Entries(g) : x.pkt # p
      BY <1>2, <1>3, <1>5, <1>7, <2>1
    <3> QED
      BY <3>1, <3>2
  <2>2. CASE p # h.pkt
    BY <1>5, <1>7, <1>10, <1>12, <2>2
  <2> QED
    BY <2>1, <2>2
<1>14. fate' \in [Packets -> {"unsent", "pending", "queued", "forward", "reverse", "dropped"}]
  BY <1>1, <1>5, <1>11, Holding
<1>15. \A d \in pending : fate'[d.pkt] = "pending"
  <2>1. \A d \in pending : d.pkt \in Packets /\ fate[d.pkt] = "pending" /\ d.pkt # h.pkt
    BY <1>11, Holding
  <2> QED
    BY <1>12, <2>1
<1>16. \A i \in DOMAIN g : g[i].usec <= 2 * PerSec - 2
  <2>1. \A x \in Entries(queue) : x.usec <= 2 * PerSec - 2
    BY DEF LinkSimInv, DateInv, Entries
  <2>2. \A i \in DOMAIN g : g[i] \in Entries(queue)
    BY <1>7 DEF Entries
  <2> QED
    BY <2>1, <2>2
<1>17. queue' = g
  BY <1>1, <1>6
<1>18. HeapInv'
  BY <1>9, <1>17 DEF HeapInv
<1>19. \A p \in Packets : fate'[p] = "queued" <=> \E i \in DOMAIN g : g[i].pkt = p
  BY <1>9, <1>13
<1> QED
  BY <1>1, <1>9, <1>14, <1>15, <1>16, <1>17, <1>18, <1>19, Holding, Assemble

\* A packet of the socket is lost, relayed, or enters the heap, in which it was not.
LEMMA ReceiveKeeps ==
    ASSUME LinkSimInv, Receive
    PROVE  LinkSimInv'
<1>1. PICK d \in pending :
        /\ pending' = pending \ {d}
        /\ \/ /\ \E f \in {"dropped", "forward", "reverse"} : fate' = [fate EXCEPT ![d.pkt] = f]
              /\ queue' = queue
           \/ \E delay \in AppliedDelays : Enqueue(d, delay)
  BY DEF Receive, Direction
<1>2. pc' = "select" /\ now' = now /\ lastClock' = lastClock /\ ready' = ready
  BY DEF Receive
<1>3. d.pkt \in Packets /\ fate[d.pkt] = "pending"
  BY Holding
<1>4. \A c \in pending' : c \in pending /\ c.pkt \in Packets /\ c.pkt # d.pkt
  BY <1>1, Holding
<1>5. \A c \in pending' : fate[c.pkt] = "pending"
  BY <1>4, Holding
<1>6. CASE /\ \E f \in {"dropped", "forward", "reverse"} : fate' = [fate EXCEPT ![d.pkt] = f]
           /\ queue' = queue
  <2>1. PICK f \in {"dropped", "forward", "reverse"} : fate' = [fate EXCEPT ![d.pkt] = f]
    BY <1>6
  <2>2. \A q \in Packets : fate'[q] = IF q = d.pkt THEN f ELSE fate[q]
    BY <2>1, Holding
  <2>3. \A c \in pending' : fate'[c.pkt] = "pending"
    BY <1>4, <1>5, <2>2
  <2>4. fate' \in [Packets -> {"unsent", "pending", "queued", "forward", "reverse", "dropped"}]
    BY <2>1, Holding
  <2>5. \A q \in Packets : fate'[q] = "queued" <=> fate[q] = "queued"
    BY <1>3, <2>2
  <2> QED
    BY <1>1, <1>2, <1>4, <1>6, <2>3, <2>4, <2>5, Holding, QueueStays, Assemble
<1>7. ASSUME NEW delay \in AppliedDelays, Enqueue(d, delay)
      PROVE  LinkSimInv'
  <2>1. PICK v : v = [sec |-> lastClock.sec + (delay \div MsPerSec),
                      usec |-> lastClock.usec + (delay % MsPerSec) * UsPerMs,
                      dir |-> Direction(d.from), pkt |-> d.pkt]
    OBVIOUS
  <2>2. queue' = Heap!Push(queue, v) /\ fate' = [fate EXCEPT ![d.pkt] = "queued"]
    BY <1>7, <2>1 DEF Enqueue
  <2>3. /\ lastClock.sec \in Nat /\ lastClock.usec \in Nat /\ lastClock.usec < PerSec
        /\ delay \div MsPerSec \in Nat /\ (delay % MsPerSec) * UsPerMs \in Nat
        /\ (delay % MsPerSec) * UsPerMs < PerSec
    <3>1. lastClock.sec \in 0 .. MaxTime /\ lastClock.usec \in Nat /\ lastClock.usec < PerSec
      BY Holding DEF Timeval
    <3>2. lastClock.sec \in Nat
      BY <3>1, Constants
    <3> QED
      BY <3>1, <3>2, DelaysAre, DelayParts
  <2>4. PICK t \in Nat, u \in Nat : /\ t = lastClock.sec + (delay \div MsPerSec)
                                    /\ u = lastClock.usec + (delay % MsPerSec) * UsPerMs
                                    /\ u <= 2 * PerSec - 2
    <3>1. PICK a \in Nat, b \in Nat, k \in Nat :
             /\ a = lastClock.usec /\ b = (delay % MsPerSec) * UsPerMs /\ k = PerSec
             /\ a < k /\ b < k
      BY <2>3, Constants
    <3>2. a + b \in Nat /\ a + b <= 2 * k - 2
      BY <3>1
    <3>3. lastClock.sec + (delay \div MsPerSec) \in Nat
      BY <2>3
    <3> QED
      BY <3>1, <3>2, <3>3
  <2>5. v = [sec |-> t, usec |-> u, dir |-> Direction(d.from), pkt |-> d.pkt]
    BY <2>1, <2>4
  <2>6. v \in Slot /\ v.pkt = d.pkt /\ v.usec <= 2 * PerSec - 2
    BY <1>3, <2>4, <2>5 DEF Slot, Direction
  <2>7. /\ Heap!Size(queue) \in Nat /\ IsArray(queue, Heap!Size(queue)) /\ Ordered(queue)
        /\ \A x, y \in Entries(queue) : x.pkt = y.pkt => x = y
        /\ Entries(queue) \subseteq Slot
    BY Holding, QueueIs
  <2>8. \A p \in Packets : fate[p] = "queued" <=> \E x \in Entries(queue) : x.pkt = p
    BY DEF LinkSimInv, FateInv, Entries
  <2>9. \A x \in Entries(queue) : x.pkt # d.pkt
    BY <1>3, <2>8
  <2>10. PICK n \in Nat : n = Heap!Size(queue)
    BY <2>7
  <2>11. PICK g : g = Heap!Push(queue, v)
    OBVIOUS
  <2>12. IsArray(g, n + 1) /\ Ordered(g) /\ Entries(g) = Entries(queue) \cup {v}
    BY <2>6, <2>7, <2>9, <2>10, <2>11, PushKeeps
  <2>13. \A x, y \in Entries(g) : x.pkt = y.pkt => x = y
    BY <2>6, <2>7, <2>9, <2>12
  <2>14. n + 1 \in Nat
    OBVIOUS
  <2>15. /\ Heap!Size(g) \in Nat /\ g \in [0 .. Heap!Size(g) - 1 -> Slot]
         /\ \A i \in DOMAIN g : ~Later(g[Heap!Parent(i)], g[i])
         /\ \A i, j \in DOMAIN g : g[i].pkt = g[j].pkt => i = j
         /\ \A p : (\E i \in DOMAIN g : g[i].pkt = p) <=> (\E x \in Entries(g) : x.pkt = p)
    BY <2>12, <2>13, <2>14, QueueHolds
  <2>16. \A q \in Packets : fate'[q] = IF q = d.pkt THEN "queued" ELSE fate[q]
    BY <2>2, Holding
  <2>17. \A p \in Packets : fate'[p] = "queued" <=> \E x \in Entries(g) : x.pkt = p
    BY <2>6, <2>8, <2>9, <2>12, <2>16
  <2>18. \A p \in Packets : fate'[p] = "queued" <=> \E i \in DOMAIN g : g[i].pkt = p
    BY <2>15, <2>17
  <2>19. fate' \in [Packets -> {"unsent", "pending", "queued", "forward", "reverse", "dropped"}]
    BY <2>2, Holding
  <2>20. \A c \in pending' : fate'[c.pkt] = "pending"
    BY <1>4, <1>5, <2>16
  <2>21. \A i \in DOMAIN g : g[i].usec <= 2 * PerSec - 2
    <3>1. \A x \in Entries(queue) : x.usec <= 2 * PerSec - 2
      BY DEF LinkSimInv, DateInv, Entries
    <3>2. \A x \in Entries(g) : x.usec <= 2 * PerSec - 2
      BY <2>6, <2>12, <3>1
    <3>3. \A i \in DOMAIN g : g[i] \in Entries(g)
      BY DEF Entries
    <3> QED
      BY <3>2, <3>3
  <2>22. queue' = g
    BY <2>2, <2>11
  <2>23. HeapInv'
    BY <2>15, <2>22 DEF HeapInv
  <2> QED
    BY <1>1, <1>2, <1>4, <2>15, <2>18, <2>19, <2>20, <2>21, <2>22, <2>23, Holding, Assemble
<1> QED
  BY <1>1, <1>6, <1>7

\* One turn of the simulator's loop, or a step of its surroundings, keeps the invariant.
LEMMA LinkSimInvNext ==
    ASSUME LinkSimInv, [Next]_vars
    PROVE  LinkSimInv'
<1>1. CASE UNCHANGED vars
  BY <1>1 DEF vars, LinkSimInv, TypeOK, HeapInv, FateInv, DateInv
<1> QED
  BY <1>1, OthersKeep, DeliverKeeps, ReceiveKeeps DEF Next

\* The types of the simulator, and what its loop keeps: the queue is a heap by the
\* comparison the program makes, each delayed packet is in it once and no other is, and
\* a date is never two seconds off in its microseconds (link_sim.c, min_queue.c:44-139).
THEOREM LinkSimInvHolds == Spec => []LinkSimInv
BY LinkSimInvInit, LinkSimInvNext, PTL DEF Spec

\* The root of the queue is the least packet in it, for any number of packets and any
\* sequence of pushes and pops, although the root is its own left child
\* (min_queue.c:41-139).
THEOREM HeadStaysLeast == Spec => []HeadIsLeast
<1>1. LinkSimInv => HeadIsLeast
  <2> SUFFICES ASSUME LinkSimInv
               PROVE  HeadIsLeast
    OBVIOUS
  <2>1. PICK n \in Nat : n = Heap!Size(queue) /\ IsArray(queue, n) /\ Ordered(queue)
    BY Holding, QueueIs
  <2>2. DOMAIN queue = 0 .. n - 1
    BY <2>1 DEF IsArray
  <2> QED
    BY <2>1, <2>2, RootIsLeast DEF HeadIsLeast
<1> QED
  BY <1>1, LinkSimInvHolds, PTL

\* No packet is lost or doubled in the heap (link_sim.c:87-112, 219-240).
THEOREM QueueKeepsAll == Spec => []QueueHoldsQueued
<1>1. LinkSimInv => QueueHoldsQueued
  <2> SUFFICES ASSUME LinkSimInv, NEW p \in Packets
               PROVE  Cardinality({i \in DOMAIN queue : queue[i].pkt = p})
                        = IF fate[p] = "queued" THEN 1 ELSE 0
    BY DEF QueueHoldsQueued
  <2>1. CASE fate[p] = "queued"
    <3>1. PICK i \in DOMAIN queue : queue[i].pkt = p
      BY <2>1 DEF LinkSimInv, FateInv
    <3>2. {j \in DOMAIN queue : queue[j].pkt = p} = {i}
      BY <3>1 DEF LinkSimInv, HeapInv
    <3>3. Cardinality({i}) = 1
      BY FS_Singleton
    <3> QED
      BY <2>1, <3>2, <3>3
  <2>2. CASE fate[p] # "queued"
    <3>1. {j \in DOMAIN queue : queue[j].pkt = p} = {}
      BY <2>2 DEF LinkSimInv, FateInv
    <3>2. Cardinality({}) = 0
      BY FS_EmptySet
    <3> QED
      BY <2>2, <3>1, <3>2
  <2> QED
    BY <2>1, <2>2
<1> QED
  BY <1>1, LinkSimInvHolds, PTL

\* The numbers of the head's date and of the clock.
LEMMA DatesOf ==
    ASSUME LinkSimInv, queue # Heap!Empty
    PROVE  \E a, b, c, d, k \in Nat :
              /\ a = queue[0].sec /\ b = queue[0].usec
              /\ c = lastClock.sec /\ d = lastClock.usec /\ k = PerSec
              /\ k >= 1 /\ d < k /\ b <= 2 * k - 2
<1>1. queue[0] \in Slot /\ 0 \in DOMAIN queue
  BY Holding, HeadIs
<1>2. queue[0].usec <= 2 * PerSec - 2
  BY <1>1 DEF LinkSimInv, DateInv
<1>3. lastClock.sec \in 0 .. MaxTime /\ lastClock.usec \in Nat /\ lastClock.usec < PerSec
  BY Holding DEF Timeval
<1>4. lastClock.sec \in Nat
  BY <1>3, Constants
<1> QED
  BY <1>1, <1>2, <1>3, <1>4, Constants DEF Slot

\* A packet leaves less than a second before its date, however long a second is
\* (link_sim.c:106-112, 230).
THEOREM NeverEarly == Spec => NeverASecondEarly
<1>1. LinkSimInv /\ [Next]_vars
        => [DeliverOne => Moment(queue[0]) - Moment(lastClock) < PerSec]_vars
  <2> SUFFICES ASSUME LinkSimInv, DeliverOne
               PROVE  Moment(queue[0]) - Moment(lastClock) < PerSec
    OBVIOUS
  <2>1. queue # Heap!Empty /\ Later(lastClock, queue[0])
    BY DEF DeliverOne, Expired
  <2>2. PICK a, b, c, d, k \in Nat :
              /\ a = queue[0].sec /\ b = queue[0].usec
              /\ c = lastClock.sec /\ d = lastClock.usec /\ k = PerSec
              /\ k >= 1 /\ d < k /\ b <= 2 * k - 2
    BY <2>1, DatesOf
  <2>3. a < c \/ (a = c /\ b < d)
    BY <2>1, <2>2 DEF Later
  <2>4. PICK x, y \in Nat : x = a * k /\ y = c * k /\ (a < c => x + k <= y) /\ (a = c => x = y)
    BY Scaled
  <2>5. (x + b) - (y + d) < k
    BY <2>2, <2>3, <2>4
  <2> QED
    BY <2>2, <2>4, <2>5 DEF Moment
<1> QED
  BY <1>1, LinkSimInvHolds, PTL DEF Spec, NeverASecondEarly

\* select() waits until the date of the head, or, from a second before it on, for a
\* millisecond: never longer than the larger of the two, whatever the clock shows and
\* although a date is not normalised (link_sim.c:115-126, 328-347).
THEOREM NeverSleepsLonger == Spec => []SleepsNoLonger
<1>1. LinkSimInv => SleepsNoLonger
  <2> DEFINE rest == Moment(queue[0]) - Moment(lastClock)
  <2> SUFFICES ASSUME LinkSimInv, queue # Heap!Empty
               PROVE  \/ Timeout = UsPerMs /\ rest < PerSec
                      \/ Timeout = rest /\ rest > 0
    BY DEF SleepsNoLonger
  <2>1. PICK a, b, c, d, k \in Nat :
              /\ a = queue[0].sec /\ b = queue[0].usec
              /\ c = lastClock.sec /\ d = lastClock.usec /\ k = PerSec
              /\ k >= 1 /\ d < k /\ b <= 2 * k - 2
    BY DatesOf
  <2>2. PICK x, y \in Nat :
          /\ x = a * k /\ y = c * k
          /\ (a - c) * k = x - y /\ (a - c - 1) * k = x - y - k
          /\ c < a => y + k <= x
          /\ c + 1 < a => y + 2 * k <= x
          /\ a < c => x + k <= y
    <3>1. a * k \in Nat /\ c * k \in Nat
      BY Scaled
    <3> QED
      BY <3>1, Scaled
  <2>3. rest = (x + b) - (y + d)
    BY <2>1, <2>2 DEF Moment
  <2>8. /\ k >= 1 /\ d < k /\ b <= 2 * k - 2
        /\ (c < a => y + k <= x) /\ (c + 1 < a => y + 2 * k <= x) /\ (a < c => x + k <= y)
    BY <2>1, <2>2
  <2> HIDE DEF rest
  <2>4. PICK left : left = Diff(queue[0], lastClock)
    OBVIOUS
  <2>5. Timeout = IF left.sec < 0 \/ (left.sec = 0 /\ left.usec <= 0) THEN UsPerMs
                  ELSE left.sec * k + left.usec
    BY <2>1, <2>4 DEF Timeout, Moment
  <2>6. CASE b - d >= 0
    <3>1. left.sec = a - c /\ left.usec = b - d
      BY <2>1, <2>4, <2>6 DEF Diff
    <3>2. a = c => x = y
      BY <2>2
    <3>3. CASE a - c < 0 \/ (a - c = 0 /\ b - d <= 0)
      <4>1. Timeout = UsPerMs
        BY <2>5, <3>1, <3>3
      <4>2. a < c \/ (a = c /\ b <= d)
        BY <3>3
      <4>3. rest < k
        <5>1. CASE a < c
          BY <2>3, <2>8, <5>1
        <5>2. CASE a = c /\ b <= d
          BY <2>3, <2>8, <3>2, <5>2
        <5> QED
          BY <4>2, <5>1, <5>2
      <4> QED
        BY <2>1, <4>1, <4>3
    <3>4. CASE ~(a - c < 0 \/ (a - c = 0 /\ b - d <= 0))
      <4>1. Timeout = (x - y) + (b - d)
        BY <2>2, <2>5, <3>1, <3>4
      <4>2. c < a \/ (a = c /\ b - d > 0)
        BY <3>4
      <4>3. (x - y) + (b - d) > 0
        <5>1. CASE c < a
          BY <2>6, <2>8, <5>1
        <5>2. CASE a = c /\ b - d > 0
          BY <3>2, <5>2
        <5> QED
          BY <4>2, <5>1, <5>2
      <4>4. rest = (x - y) + (b - d)
        BY <2>3
      <4> QED
        BY <4>1, <4>3, <4>4
    <3> QED
      BY <3>3, <3>4
  <2>7. CASE ~(b - d >= 0)
    <3>1. /\ left.sec = a - c - 1
          /\ left.usec = IF a - c - 1 # 0 THEN b - d + k ELSE b - d
      BY <2>1, <2>4, <2>7 DEF Diff
    <3>2. CASE a - c - 1 <= 0
      <4>1. Timeout = UsPerMs
        BY <2>5, <2>7, <3>1, <3>2
      <4>2. a < c \/ a = c \/ a = c + 1
        BY <3>2
      <4>3. (a = c => x = y) /\ (a = c + 1 => x = y + k)
        BY <2>2
      <4>4. rest < k
        <5>1. CASE a < c
          BY <2>3, <2>8, <5>1
        <5>2. CASE a = c
          BY <2>3, <2>7, <2>8, <4>3, <5>2
        <5>3. CASE a = c + 1
          BY <2>3, <2>7, <2>8, <4>3, <5>3
        <5> QED
          BY <4>2, <5>1, <5>2, <5>3
      <4> QED
        BY <2>1, <4>1, <4>4
    <3>3. CASE ~(a - c - 1 <= 0)
      <4>1. Timeout = (x - y - k) + (b - d + k)
        BY <2>2, <2>5, <3>1, <3>3
      <4>2. c + 1 < a
        BY <3>3
      <4>3. Timeout = rest /\ rest > 0
        BY <2>3, <2>8, <4>1, <4>2
      <4> QED
        BY <4>3
    <3> QED
      BY <3>2, <3>3
  <2> QED
    BY <2>6, <2>7
<1> QED
  BY <1>1, LinkSimInvHolds, PTL
=============================================================================
