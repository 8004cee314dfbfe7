------------------------------ MODULE Recursion ------------------------------
(***************************************************************************)
(* Induction and recursion over the positions of a sequence or a walk, for *)
(* the proofs about functions that are defined step by step.               *)
(***************************************************************************)
EXTENDS Integers, WellFoundedInduction, TLAPS

(* A set of naturals that is not empty has a least member.                 *)
LEMMA LeastExists ==
    ASSUME NEW S \in SUBSET Nat, S # {}
    PROVE  \E n \in S : \A m \in S : n <= m
<1>1. PICK n \in S : \A m \in S : ~ (<<m, n>> \in OpToRel(<, Nat))
    BY WFMin, NatLessThanWellFounded
<1>2. ASSUME NEW m \in S PROVE ~(m < n)
    <2>1. m \in Nat /\ n \in Nat
        OBVIOUS
    <2>2. m < n => <<m, n>> \in OpToRel(<, Nat)
        BY <2>1, Zenon DEF OpToRel
    <2> QED BY <2>2, <1>1
<1> QED BY <1>2

(* What is true of 0 and goes on to the next position is true of all.      *)
LEMMA UpTo ==
    ASSUME NEW top \in Nat, NEW T, 0 \in T,
           \A n \in 1..top : n - 1 \in T => n \in T
    PROVE  0..top \subseteq T
<1> DEFINE Missing == {n \in 0..top : n \notin T}
<1> SUFFICES ASSUME Missing # {} PROVE FALSE
    OBVIOUS
<1>1. PICK n \in Missing : \A m \in Missing : n <= m
    <2>1. Missing \in SUBSET Nat
        OBVIOUS
    <2> HIDE DEF Missing
    <2> QED BY <2>1, LeastExists
<1>2. n \in 1..top /\ n - 1 \in 0..top /\ n - 1 \notin Missing
    BY <1>1
<1> QED BY <1>1, <1>2

(* Values that are made step by step. *)
MadeUpTo(n, made, start, step) ==
    made[0] = start /\ \A m \in 1..n : made[m] = step[m][made[m - 1]]

LEMMA StepsExist ==
    ASSUME NEW top \in Nat, NEW D, NEW start \in D, NEW step \in [1..top -> [D -> D]]
    PROVE  \E made \in [0..top -> D] : MadeUpTo(top, made, start, step)
<1> DEFINE T == {n \in 0..top : \E h \in [0..n -> D] : MadeUpTo(n, h, start, step)}
<1>1. 0 \in T
    <2> DEFINE h == [m \in 0..0 |-> start]
    <2>1. h \in [0..0 -> D] /\ h[0] = start
        OBVIOUS
    <2>2. MadeUpTo(0, h, start, step)
        BY <2>1 DEF MadeUpTo
    <2> QED BY <2>1, <2>2
<1>2. ASSUME NEW n \in 1..top, n - 1 \in T PROVE n \in T
    <2>1. PICK h \in [0..(n - 1) -> D] : MadeUpTo(n - 1, h, start, step)
        BY <1>2
    <2>2. PICK next \in D : next = step[n][h[n - 1]]
        <3>1. h[n - 1] \in D
            OBVIOUS
        <3>2. step[n] \in [D -> D]
            OBVIOUS
        <3> QED BY <3>1, <3>2
    <2> DEFINE g == [m \in 0..n |-> IF m = n THEN next ELSE h[m]]
    <2>3. g \in [0..n -> D]
        OBVIOUS
    <2>4. g[0] = start
        BY <2>1 DEF MadeUpTo
    <2>5. ASSUME NEW m \in 1..n PROVE g[m] = step[m][g[m - 1]]
        <3>1. m - 1 \in 0..n /\ m - 1 # n /\ g[m - 1] = h[m - 1]
            OBVIOUS
        <3>2. CASE m = n
            BY <3>1, <3>2, <2>2
        <3>3. CASE m # n
            <4>1. m \in 1..(n - 1) /\ g[m] = h[m]
                BY <3>3
            <4> QED BY <2>1, <3>1, <4>1 DEF MadeUpTo
        <3> QED BY <3>2, <3>3
    <2> HIDE DEF g
    <2>6. MadeUpTo(n, g, start, step)
        BY <2>4, <2>5 DEF MadeUpTo
    <2> QED BY <2>3, <2>6
<1>3. 0..top \subseteq T
    <2> HIDE DEF T
    <2> QED BY <1>1, <1>2, UpTo
<1>4. top \in T
    <2> HIDE DEF T
    <2> QED BY <1>3
<1> QED BY <1>4
=============================================================================
