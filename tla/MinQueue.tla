------------------------------ MODULE MinQueue ------------------------------
(***************************************************************************)
(* min_queue.c: the heap in which link_sim keeps the packets it delays, as *)
(* the array of its slots.  The root is slot 0 and the children of slot x  *)
(* are 2x and 2x + 1, so the root is its own left child and slot 1 is its  *)
(* only other one; from slot 1 on the tree is binary.                      *)
(***************************************************************************)
EXTENDS Integers, FiniteSets

CONSTANT Later(_, _)    \* q->cmp: does the first come after the second?

Size(e) == Cardinality(DOMAIN e)

Parent(i) == i \div 2

Empty == [i \in {} |-> i]

\* The size is incremented before it is used as the index.
PushBug(e, v) ==
    [i \in DOMAIN e \cup {Size(e) + 1} |-> IF i \in DOMAIN e THEN e[i] ELSE v]

\* minq_push(): v enters at the last slot and rises while its parent comes after
\* it; `risen[i]' is the set of slots it passes from slot i on.
Push(e, v) ==
    LET n == Size(e)
        risen[i \in 0 .. n] ==
            {i} \cup IF i # 0 /\ Later(e[Parent(i)], v) THEN risen[Parent(i)] ELSE {}
        ends == CHOOSE i \in risen[n] : \A j \in risen[n] : i <= j
    IN  [i \in 0 .. n |-> IF i = ends THEN v
                          ELSE IF i \in risen[n] THEN e[Parent(i)] ELSE e[i]]

\* has_child(): the smaller child of a slot, or 0 if it has none.
MinChild(e, i) ==
    LET left == 2 * i
    IN  IF left >= Size(e) THEN 0
        ELSE IF left + 1 < Size(e) /\ Later(e[left], e[left + 1]) THEN left + 1 ELSE left

\* The last entry is put at the root and left there.
PopBug(e) == [i \in 0 .. Size(e) - 2 |-> IF i = 0 THEN e[Size(e) - 1] ELSE e[i]]

\* The size stays what it was.
PopKeepsBug(e) == [i \in DOMAIN e |-> IF i = 0 THEN e[Size(e) - 1] ELSE e[i]]

\* minq_pop(): the last entry goes to the root and sinks while it comes after its
\* smaller child.
Pop(e) ==
    LET n == Size(e) - 1
        v == e[n]
        f == [i \in 0 .. n - 1 |-> IF i = 0 THEN v ELSE e[i]]
        sunk[i \in 0 .. n - 1] ==
            {i} \cup IF MinChild(f, i) # 0 /\ Later(v, f[MinChild(f, i)])
                     THEN sunk[MinChild(f, i)] ELSE {}
        ends == CHOOSE i \in sunk[0] : \A j \in sunk[0] : j <= i
    IN  [i \in 0 .. n - 1 |-> IF i = ends THEN v
                              ELSE IF i \in sunk[0] THEN f[MinChild(f, i)] ELSE f[i]]
=============================================================================
