----------------------------- MODULE MergeProofs -----------------------------
(***************************************************************************)
(* Lemmas about the merge of feature lists, for lists of any length.       *)
(***************************************************************************)
EXTENDS Merge, Recursion, SequenceTheorems

-----------------------------------------------------------------------------
(* Lists of features *)

(* A feature is found where it is. *)
LEMMA Found ==
    ASSUME NEW S, NEW list \in Seq(S), NEW id \in IdsOf(list)
    PROVE  /\ IndexOf(list, id) \in DOMAIN list
           /\ IndexOf(list, id) \in 1..Len(list)
           /\ list[IndexOf(list, id)].id = id
           /\ At(list, id).id = id
           /\ At(list, id) \in S
<1>1. \E i \in DOMAIN list : list[i].id = id
    BY DEF IdsOf
<1>2. IndexOf(list, id) \in DOMAIN list /\ list[IndexOf(list, id)].id = id
    BY <1>1 DEF IndexOf
<1>3. DOMAIN list = 1..Len(list)
    OBVIOUS
<1> QED BY <1>2, <1>3 DEF At

LEMMA FoundThere ==
    ASSUME NEW S, NEW list \in Seq(S), Distinct(list), NEW i \in DOMAIN list
    PROVE  /\ list[i].id \in IdsOf(list)
           /\ IndexOf(list, list[i].id) = i
           /\ At(list, list[i].id) = list[i]
<1>1. list[i].id \in IdsOf(list)
    BY DEF IdsOf
<1>2. IndexOf(list, list[i].id) = i
    BY <1>1, Found DEF Distinct
<1> QED BY <1>1, <1>2 DEF At

(* Two lists with the same ids in the same order have them at the same     *)
(* places.                                                                 *)
LEMMA SameOrder ==
    ASSUME NEW S, NEW s \in Seq(S), NEW T, NEW t \in Seq(T),
           Distinct(s), Distinct(t), IdsOf(s) = IdsOf(t),
           \A x, y \in IdsOf(s) :
              IndexOf(s, x) < IndexOf(s, y) => IndexOf(t, x) < IndexOf(t, y)
    PROVE  Len(s) = Len(t) /\ \A i \in DOMAIN s : s[i].id = t[i].id
<1>0. /\ DOMAIN s = 1..Len(s) /\ DOMAIN t = 1..Len(t)
      /\ Len(s) \in Nat /\ Len(t) \in Nat
    OBVIOUS
<1>1. \A i \in 1..Len(s) : i <= Len(t) /\ s[i].id = t[i].id
    <2> DEFINE Wrong == {i \in 1..Len(s) : ~(i <= Len(t) /\ s[i].id = t[i].id)}
    <2> SUFFICES ASSUME Wrong # {} PROVE FALSE
        OBVIOUS
    <2>1. PICK i \in Wrong : \A k \in Wrong : i <= k
        <3>1. Wrong \in SUBSET Nat
            OBVIOUS
        <3> HIDE DEF Wrong
        <3> QED BY <3>1, LeastExists
    <2>2. i \in DOMAIN s /\ ~(i <= Len(t) /\ s[i].id = t[i].id)
        BY <2>1, <1>0
    <2>3. \A k \in 1..(i - 1) : k \in DOMAIN s /\ k \in DOMAIN t /\ s[k].id = t[k].id
        BY <2>1, <1>0
    <2> HIDE DEF Wrong
    <2> DEFINE j == IndexOf(t, s[i].id)
    <2>4. s[i].id \in IdsOf(t) /\ IndexOf(s, s[i].id) = i
        BY <2>2, FoundThere
    <2>5. j \in 1..Len(t) /\ t[j].id = s[i].id
        BY <2>4, Found
    <2> HIDE DEF j
    <2>6. ~(j < i)
        <3> SUFFICES ASSUME j < i PROVE FALSE
            OBVIOUS
        <3>1. j \in 1..(i - 1)
            BY <2>5, <2>2, <1>0
        <3>2. s[j].id = s[i].id /\ j \in DOMAIN s
            BY <3>1, <2>3, <2>5
        <3>3. j = i
            BY <3>2, <2>2 DEF Distinct
        <3> QED BY <3>1, <3>3, <2>2, <1>0
    <2>7. j # i /\ i < j /\ i \in DOMAIN t
        BY <2>2, <2>5, <2>6, <1>0
    <2> DEFINE m == IndexOf(s, t[i].id)
    <2>8. t[i].id \in IdsOf(s) /\ IndexOf(t, t[i].id) = i
        BY <2>7, FoundThere
    <2>9. m \in 1..Len(s) /\ s[m].id = t[i].id
        BY <2>8, Found
    <2>10. ~(i < m)
        <3>1. s[i].id \in IdsOf(s)
            BY <2>2, FoundThere
        <3>2. i < m => j < i
            BY <3>1, <2>4, <2>8 DEF j
        <3> QED BY <3>2, <2>6
    <2> HIDE DEF m
    <2>11. m # i
        BY <2>2, <2>7, <2>9, <1>0
    <2>12. m \in 1..(i - 1)
        BY <2>9, <2>10, <2>11, <2>2, <1>0
    <2> QED BY <2>12, <2>3, <2>9, <2>7, <1>0 DEF Distinct
<1>2. Len(t) <= Len(s)
    <2> SUFFICES ASSUME Len(s) < Len(t) PROVE FALSE
        BY <1>0
    <2> DEFINE k == Len(s) + 1
               m == IndexOf(s, t[k].id)
    <2>1. k \in DOMAIN t
        BY <1>0
    <2>2. t[k].id \in IdsOf(s)
        BY <2>1, FoundThere
    <2>3. m \in 1..Len(s) /\ s[m].id = t[k].id
        BY <2>2, Found
    <2> HIDE DEF m
    <2>4. m \in DOMAIN t /\ t[m].id = t[k].id
        BY <2>3, <1>1, <1>0
    <2> QED BY <2>1, <2>3, <2>4, <1>0 DEF Distinct
<1>3. CASE Len(s) = 0
    <2>1. Len(t) = 0
        BY <1>2, <1>3, <1>0
    <2> QED BY <1>3, <2>1, <1>0
<1>4. CASE Len(s) # 0
    <2>1. Len(s) <= Len(t)
        BY <1>1, <1>4, <1>0
    <2>2. \A m, n \in Nat : m <= n /\ n <= m => m = n
        OBVIOUS
    <2>4. Len(s) = Len(t)
        BY <2>1, <2>2, <1>2, <1>0, Zenon
    <2>3. \A i \in DOMAIN s : s[i].id = t[i].id
        BY <1>1, <1>0
    <2> QED BY <2>4, <2>3
<1> QED BY <1>3, <1>4

-----------------------------------------------------------------------------
(* Picking features by their ids *)

(* The first n features of the list that have one of the ids are s.        *)
Picks(list, ids, n, s) ==
    \E place \in [1..Len(s) -> 1..n] :
        /\ \A i, j \in 1..Len(s) : i < j => place[i] < place[j]
        /\ \A i \in 1..Len(s) : s[i] = list[place[i]] /\ list[place[i]].id \in ids
        /\ \A k \in 1..n : list[k].id \in ids => \E i \in 1..Len(s) : place[i] = k

(* What is kept of the first n features. *)
Keeps(list, ids, kept) ==
    /\ kept[0] = <<>>
    /\ \A n \in 1..Len(list) :
          kept[n] = IF list[n].id \in ids THEN Append(kept[n - 1], list[n]) ELSE kept[n - 1]

LEMMA WithIdsIsMade ==
    ASSUME NEW S, NEW list \in Seq(S), NEW ids
    PROVE  \E kept \in [0..Len(list) -> Seq(S)] :
              /\ Keeps(list, ids, kept)
              /\ WithIds(list, ids) = kept[Len(list)]
<1> DEFINE step == [n \in 1..Len(list) |->
                       [s \in Seq(S) |-> IF list[n].id \in ids THEN Append(s, list[n]) ELSE s]]
           solves(h) == h = [n \in 0..Len(list) |->
                                IF n = 0 THEN <<>>
                                ELSE IF list[n].id \in ids THEN Append(h[n - 1], list[n])
                                ELSE h[n - 1]]
<1>1. Len(list) \in Nat /\ <<>> \in Seq(S)
    OBVIOUS
<1>2. step \in [1..Len(list) -> [Seq(S) -> Seq(S)]]
    <2>1. ASSUME NEW n \in 1..Len(list), NEW s \in Seq(S)
          PROVE  (IF list[n].id \in ids THEN Append(s, list[n]) ELSE s) \in Seq(S)
        OBVIOUS
    <2> QED BY <2>1
<1>3. PICK made \in [0..Len(list) -> Seq(S)] : MadeUpTo(Len(list), made, <<>>, step)
    <2> HIDE DEF step
    <2> QED BY <1>1, <1>2, StepsExist
<1>4. solves(made)
    <2>1. ASSUME NEW n \in 0..Len(list)
          PROVE  made[n] = IF n = 0 THEN <<>>
                           ELSE IF list[n].id \in ids THEN Append(made[n - 1], list[n])
                           ELSE made[n - 1]
        <3>1. CASE n = 0
            BY <3>1, <1>3 DEF MadeUpTo
        <3>2. CASE n # 0
            <4>1. n \in 1..Len(list) /\ n - 1 \in 0..Len(list)
                BY <3>2
            <4>2. made[n - 1] \in Seq(S)
                BY <4>1
            <4>3. made[n] = step[n][made[n - 1]]
                BY <4>1, <1>3 DEF MadeUpTo
            <4>4. step[n] = [s \in Seq(S) |-> IF list[n].id \in ids THEN Append(s, list[n]) ELSE s]
                BY <4>1
            <4> QED BY <3>2, <4>2, <4>3, <4>4
        <3> QED BY <3>1, <3>2
    <2> HIDE DEF step
    <2> QED BY <2>1
<1>5. PICK kept : solves(kept) /\ WithIds(list, ids) = kept[Len(list)]
    <2> DEFINE k == CHOOSE h : solves(h)
    <2>1. WithIds(list, ids) = k[Len(list)]
        BY DEF WithIds
    <2>2. solves(k)
        <3> HIDE DEF solves
        <3> QED BY <1>4
    <2> HIDE DEF k, solves
    <2> QED BY <2>1, <2>2
<1> HIDE DEF step
<1>6. kept = [n \in 0..Len(list) |-> kept[n]]
    BY <1>5
<1>7. Keeps(list, ids, kept)
    <2>1. ASSUME NEW n \in 0..Len(list)
          PROVE  kept[n] = IF n = 0 THEN <<>>
                           ELSE IF list[n].id \in ids THEN Append(kept[n - 1], list[n])
                           ELSE kept[n - 1]
        BY <1>5, Zenon
    <2>2. kept[0] = <<>>
        BY <2>1, <1>1
    <2>3. ASSUME NEW n \in 1..Len(list)
          PROVE  kept[n] = IF list[n].id \in ids THEN Append(kept[n - 1], list[n]) ELSE kept[n - 1]
        <3>1. n \in 0..Len(list) /\ n # 0
            OBVIOUS
        <3> QED BY <3>1, <2>1, Zenon
    <2> QED BY <2>2, <2>3 DEF Keeps
<1>8. \A n \in 0..Len(list) : kept[n] \in Seq(S)
    <2> DEFINE T == {n \in 0..Len(list) : kept[n] \in Seq(S)}
    <2>1. 0 \in T
        <3>1. kept[0] = <<>>
            BY <1>7, Zenon DEF Keeps
        <3> QED BY <3>1, <1>1, SMTT(40)
    <2>2. ASSUME NEW n \in 1..Len(list), n - 1 \in T PROVE n \in T
        <3>1. kept[n - 1] \in Seq(S) /\ list[n] \in S /\ n \in 0..Len(list)
            BY <2>2
        <3>2. Append(kept[n - 1], list[n]) \in Seq(S)
            BY <3>1
        <3>3. kept[n] = Append(kept[n - 1], list[n]) \/ kept[n] = kept[n - 1]
            BY <1>7 DEF Keeps
        <3> QED BY <3>1, <3>2, <3>3
    <2>3. 0..Len(list) \subseteq T
        <3> HIDE DEF T
        <3> QED BY <1>1, <2>1, <2>2, UpTo
    <2> QED BY <2>3
<1>9. kept \in [0..Len(list) -> Seq(S)]
    BY <1>6, <1>8
<1> QED BY <1>5, <1>7, <1>9

LEMMA WithIdsPicks ==
    ASSUME NEW S, NEW list \in Seq(S), NEW ids
    PROVE  /\ WithIds(list, ids) \in Seq(S)
           /\ Picks(list, ids, Len(list), WithIds(list, ids))
<1>1. PICK kept \in [0..Len(list) -> Seq(S)] :
              /\ Keeps(list, ids, kept)
              /\ WithIds(list, ids) = kept[Len(list)]
    BY WithIdsIsMade
<1> DEFINE T == {n \in 0..Len(list) : Picks(list, ids, n, kept[n])}
<1>2. 0 \in T
    <2>1. Len(kept[0]) = 0
        BY <1>1 DEF Keeps
    <2>2. [i \in 1..0 |-> 0] \in [1..Len(kept[0]) -> 1..0]
        BY <2>1
    <2> QED BY <2>1, <2>2 DEF Picks
<1>3. ASSUME NEW n \in 1..Len(list), n - 1 \in T PROVE n \in T
    <2>1. PICK s \in Seq(S) : s = kept[n - 1]
        OBVIOUS
    <2>2. PICK place \in [1..Len(s) -> 1..(n - 1)] :
              /\ \A i, j \in 1..Len(s) : i < j => place[i] < place[j]
              /\ \A i \in 1..Len(s) : s[i] = list[place[i]] /\ list[place[i]].id \in ids
              /\ \A k \in 1..(n - 1) : list[k].id \in ids => \E i \in 1..Len(s) : place[i] = k
        BY <1>3, <2>1 DEF Picks
    <2>3. CASE list[n].id \notin ids
        <3>1. kept[n] = s
            BY <1>1, <2>1, <2>3 DEF Keeps
        <3>2. place \in [1..Len(s) -> 1..n]
            OBVIOUS
        <3>3. \A k \in 1..n : list[k].id \in ids => k \in 1..(n - 1)
            BY <2>3
        <3>4. Picks(list, ids, n, s)
            BY <2>2, <3>2, <3>3 DEF Picks
        <3> QED BY <3>1, <3>4
    <2>4. CASE list[n].id \in ids
        <3>1. PICK t \in Seq(S) : t = Append(s, list[n])
            BY SMTT(40)
        <3>2. kept[n] = t
            BY <1>1, <2>1, <2>4, <3>1 DEF Keeps
        <3>3. Len(t) = Len(s) + 1 /\ Len(s) \in Nat /\ t[Len(t)] = list[n]
              /\ \A i \in 1..Len(s) : t[i] = s[i]
            BY <3>1
        <3> DEFINE p == [i \in 1..Len(t) |-> IF i = Len(t) THEN n ELSE place[i]]
        <3>4. p \in [1..Len(t) -> 1..n]
            BY <3>3
        <3>5. \A i \in 1..Len(t) : i # Len(t) => i \in 1..Len(s) /\ p[i] = place[i]
            BY <3>3
        <3>6. p[Len(t)] = n /\ Len(t) \in 1..Len(t)
            BY <3>3
        <3> HIDE DEF p
        <3>7. ASSUME NEW i \in 1..Len(t), NEW j \in 1..Len(t), i < j PROVE p[i] < p[j]
            <4>1. i # Len(t) /\ i \in 1..Len(s) /\ p[i] = place[i]
                BY <3>5, <3>7, <3>3
            <4>2. CASE j = Len(t)
                <5>1. place[i] \in 1..(n - 1)
                    BY <4>1
                <5> QED BY <4>1, <4>2, <3>6, <5>1
            <4>3. CASE j # Len(t)
                BY <4>1, <4>3, <3>5, <2>2, <3>7
            <4> QED BY <4>2, <4>3
        <3>8. \A i \in 1..Len(t) : t[i] = list[p[i]] /\ list[p[i]].id \in ids
            <4> TAKE i \in 1..Len(t)
            <4>1. CASE i = Len(t)
                BY <4>1, <3>6, <3>3, <2>4
            <4>2. CASE i # Len(t)
                BY <4>2, <3>5, <3>3, <2>2
            <4> QED BY <4>1, <4>2
        <3>9. ASSUME NEW k \in 1..n, list[k].id \in ids
              PROVE  \E i \in 1..Len(t) : p[i] = k
            <4>1. CASE k = n
                BY <4>1, <3>6
            <4>2. CASE k # n
                <5>1. PICK i \in 1..Len(s) : place[i] = k
                    <6>1. k \in 1..(n - 1)
                        BY <4>2
                    <6> QED BY <6>1, <2>2, <3>9
                <5>2. i \in 1..Len(t) /\ i # Len(t)
                    BY <3>3
                <5> QED BY <5>1, <5>2, <3>5
            <4> QED BY <4>1, <4>2
        <3>10. Picks(list, ids, n, t)
            BY <3>4, <3>7, <3>8, <3>9 DEF Picks
        <3> QED BY <3>2, <3>10
    <2> QED BY <2>3, <2>4
<1>4. 0..Len(list) \subseteq T
    <2> HIDE DEF T
    <2>1. Len(list) \in Nat
        OBVIOUS
    <2> QED BY <2>1, <1>2, <1>3, UpTo
<1>5. Picks(list, ids, Len(list), kept[Len(list)])
    BY <1>4
<1> QED BY <1>1, <1>5

(* What is picked is in the list, in its order, and is all that has one of the ids. *)
PickedFrom(S, list, ids, s) ==
    /\ s \in Seq(S)
    /\ Distinct(s)
    /\ IdsOf(s) = IdsOf(list) \cap ids
    /\ \A id \in IdsOf(s) : At(s, id) = At(list, id)
    /\ \A x, y \in IdsOf(s) :
          IndexOf(s, x) < IndexOf(s, y) <=> IndexOf(list, x) < IndexOf(list, y)

LEMMA WithIdsFacts ==
    ASSUME NEW S, NEW list \in Seq(S), Distinct(list), NEW ids
    PROVE  PickedFrom(S, list, ids, WithIds(list, ids))
<1> DEFINE s == WithIds(list, ids)
<1> HIDE DEF s
<1>1. s \in Seq(S) /\ Picks(list, ids, Len(list), s)
    BY WithIdsPicks DEF s
<1>2. PICK place \in [1..Len(s) -> 1..Len(list)] :
        /\ \A i, j \in 1..Len(s) : i < j => place[i] < place[j]
        /\ \A i \in 1..Len(s) : s[i] = list[place[i]] /\ list[place[i]].id \in ids
        /\ \A k \in 1..Len(list) : list[k].id \in ids => \E i \in 1..Len(s) : place[i] = k
    BY <1>1 DEF Picks
<1>3. DOMAIN s = 1..Len(s) /\ DOMAIN list = 1..Len(list) /\ Len(s) \in Nat /\ Len(list) \in Nat
    BY <1>1
<1>4. \A i \in DOMAIN s : place[i] \in DOMAIN list /\ place[i] \in Nat
    BY <1>3
<1>5. Distinct(s)
    <2> SUFFICES ASSUME NEW i \in DOMAIN s, NEW j \in DOMAIN s, s[i].id = s[j].id, i # j
                 PROVE  FALSE
        BY DEF Distinct
    <2>1. place[i] = place[j]
        BY <1>2, <1>3, <1>4 DEF Distinct
    <2>2. i < j \/ j < i
        BY <1>3
    <2> QED BY <2>1, <2>2, <1>2, <1>3, <1>4
<1>6. IdsOf(s) = IdsOf(list) \cap ids
    <2>1. \A i \in DOMAIN s : s[i].id \in IdsOf(list) \cap ids
        BY <1>2, <1>3, <1>4 DEF IdsOf
    <2>2. ASSUME NEW k \in DOMAIN list, list[k].id \in ids
          PROVE  \E i \in DOMAIN s : s[i].id = list[k].id
        <3>1. PICK i \in 1..Len(s) : place[i] = k
            BY <1>2, <1>3, <2>2
        <3>2. s[i].id = list[k].id
            BY <3>1, <1>2
        <3> QED BY <3>2, <1>3
    <2>3. IdsOf(s) \subseteq IdsOf(list) \cap ids
        BY <2>1, Zenon DEF IdsOf
    <2>4. IdsOf(list) \cap ids \subseteq IdsOf(s)
        BY <2>2, Zenon DEF IdsOf
    <2> QED BY <2>3, <2>4
<1>7. ASSUME NEW id \in IdsOf(s)
      PROVE  /\ IndexOf(s, id) \in DOMAIN s
             /\ IndexOf(list, id) = place[IndexOf(s, id)]
             /\ At(s, id) = At(list, id)
    <2>1. IndexOf(s, id) \in DOMAIN s /\ s[IndexOf(s, id)].id = id
        BY <1>1, Found
    <2>2. list[place[IndexOf(s, id)]].id = id
        BY <2>1, <1>2, <1>3
    <2>3. IndexOf(list, id) = place[IndexOf(s, id)]
        BY <2>1, <2>2, <1>4, FoundThere
    <2> QED BY <2>1, <2>3, <1>2, <1>3 DEF At
<1>8. ASSUME NEW x \in IdsOf(s), NEW y \in IdsOf(s)
      PROVE  IndexOf(s, x) < IndexOf(s, y) <=> IndexOf(list, x) < IndexOf(list, y)
    <2>1. PICK i \in 1..Len(s) : i = IndexOf(s, x) /\ IndexOf(list, x) = place[i]
        BY <1>3, <1>7
    <2>2. PICK j \in 1..Len(s) : j = IndexOf(s, y) /\ IndexOf(list, y) = place[j]
        BY <1>3, <1>7
    <2>3. place[i] \in Nat /\ place[j] \in Nat /\ i \in Nat /\ j \in Nat
        BY <1>3, <1>4
    <2>4. i < j \/ j < i \/ i = j
        BY <2>3
    <2>5. (i < j => place[i] < place[j]) /\ (j < i => place[j] < place[i])
        BY <1>2
    <2>6. i < j <=> place[i] < place[j]
        BY <2>3, <2>4, <2>5
    <2> QED BY <2>1, <2>2, <2>6
<1>9. PickedFrom(S, list, ids, s)
    BY <1>1, <1>5, <1>6, <1>7, <1>8, Zenon DEF PickedFrom
<1> QED BY <1>9, Zenon DEF s

-----------------------------------------------------------------------------
(* Lists made of others *)

Joined(S, s, t, u) ==
    /\ u \in Seq(S)
    /\ Distinct(u)
    /\ IdsOf(u) = IdsOf(s) \cup IdsOf(t)
    /\ \A id \in IdsOf(s) : IndexOf(u, id) = IndexOf(s, id) /\ At(u, id) = At(s, id)
    /\ \A id \in IdsOf(t) : IndexOf(u, id) = Len(s) + IndexOf(t, id) /\ At(u, id) = At(t, id)

LEMMA ConcatFacts ==
    ASSUME NEW S, NEW s \in Seq(S), NEW t \in Seq(S), Distinct(s), Distinct(t),
           IdsOf(s) \cap IdsOf(t) = {}
    PROVE  Joined(S, s, t, s \o t)
<1> DEFINE u == s \o t
<1>1. /\ u \in Seq(S) /\ Len(u) = Len(s) + Len(t)
      /\ Len(s) \in Nat /\ Len(t) \in Nat
      /\ DOMAIN u = 1..(Len(s) + Len(t)) /\ DOMAIN s = 1..Len(s) /\ DOMAIN t = 1..Len(t)
    OBVIOUS
<1>2. \A i \in DOMAIN s : i \in DOMAIN u /\ u[i] = s[i]
    BY <1>1
<1>3. \A i \in DOMAIN t : Len(s) + i \in DOMAIN u /\ u[Len(s) + i] = t[i]
    BY <1>1
<1>4. \A i \in DOMAIN u : i \in DOMAIN s \/ \E k \in DOMAIN t : i = Len(s) + k
    <2> TAKE i \in DOMAIN u
    <2>1. i \in DOMAIN s \/ (i - Len(s) \in DOMAIN t /\ i = Len(s) + (i - Len(s)))
        BY <1>1
    <2> QED BY <2>1
<1>5. IdsOf(u) = IdsOf(s) \cup IdsOf(t)
    <2>1. ASSUME NEW i \in DOMAIN u PROVE u[i].id \in IdsOf(s) \cup IdsOf(t)
        <3>1. CASE i \in DOMAIN s
            BY <3>1, <1>2 DEF IdsOf
        <3>2. CASE i \notin DOMAIN s
            <4>1. PICK k \in DOMAIN t : i = Len(s) + k
                BY <3>2, <1>4
            <4> QED BY <4>1, <1>3 DEF IdsOf
        <3> QED BY <3>1, <3>2
    <2>2. IdsOf(u) \subseteq IdsOf(s) \cup IdsOf(t)
        BY <2>1, Zenon DEF IdsOf
    <2>3. IdsOf(s) \subseteq IdsOf(u)
        BY <1>2, Zenon DEF IdsOf
    <2>4. ASSUME NEW i \in DOMAIN t PROVE t[i].id \in IdsOf(u)
        <3>1. PICK k \in DOMAIN u : u[k] = t[i]
            BY <1>3
        <3> QED BY <3>1 DEF IdsOf
    <2>5. IdsOf(t) \subseteq IdsOf(u)
        BY <2>4, Zenon DEF IdsOf
    <2> QED BY <2>2, <2>3, <2>5
<1>6. Distinct(u)
    <2> SUFFICES ASSUME NEW i \in DOMAIN u, NEW j \in DOMAIN u, u[i].id = u[j].id
                 PROVE  i = j
        BY DEF Distinct
    <2>1. CASE i \in DOMAIN s /\ j \in DOMAIN s
        BY <2>1, <1>2 DEF Distinct
    <2>2. CASE i \in DOMAIN s /\ j \notin DOMAIN s
        <3>1. PICK k \in DOMAIN t : j = Len(s) + k
            BY <2>2, <1>4
        <3>2. s[i].id = t[k].id
            BY <2>2, <3>1, <1>2, <1>3
        <3> QED BY <2>2, <3>2 DEF IdsOf
    <2>3. CASE i \notin DOMAIN s /\ j \in DOMAIN s
        <3>1. PICK k \in DOMAIN t : i = Len(s) + k
            BY <2>3, <1>4
        <3>2. s[j].id = t[k].id
            BY <2>3, <3>1, <1>2, <1>3
        <3> QED BY <2>3, <3>2 DEF IdsOf
    <2>4. CASE i \notin DOMAIN s /\ j \notin DOMAIN s
        <3>1. PICK k \in DOMAIN t : i = Len(s) + k
            BY <2>4, <1>4
        <3>2. PICK l \in DOMAIN t : j = Len(s) + l
            BY <2>4, <1>4
        <3>3. t[k].id = t[l].id
            BY <3>1, <3>2, <1>3
        <3> QED BY <3>1, <3>2, <3>3 DEF Distinct
    <2> QED BY <2>1, <2>2, <2>3, <2>4
<1>7. ASSUME NEW id \in IdsOf(s)
      PROVE  IndexOf(u, id) = IndexOf(s, id) /\ At(u, id) = At(s, id)
    <2>1. PICK k \in DOMAIN s : k = IndexOf(s, id) /\ s[k].id = id
        BY Found
    <2>2. u[k].id = id /\ k \in DOMAIN u /\ u[k] = s[k]
        BY <2>1, <1>2
    <2>3. IndexOf(u, id) = k
        BY <2>2, <1>1, <1>6, FoundThere
    <2> QED BY <2>1, <2>2, <2>3 DEF At
<1>8. ASSUME NEW id \in IdsOf(t)
      PROVE  IndexOf(u, id) = Len(s) + IndexOf(t, id) /\ At(u, id) = At(t, id)
    <2>1. PICK k \in DOMAIN t : k = IndexOf(t, id) /\ t[k].id = id
        BY Found
    <2>2. u[Len(s) + k].id = id /\ Len(s) + k \in DOMAIN u /\ u[Len(s) + k] = t[k]
        BY <2>1, <1>3
    <2>3. IndexOf(u, id) = Len(s) + k
        BY <2>2, <1>1, <1>6, FoundThere
    <2> QED BY <2>1, <2>2, <2>3 DEF At
<1> HIDE DEF u
<1>9. Joined(S, s, t, u)
    BY <1>1, <1>5, <1>6, <1>7, <1>8, Zenon DEF Joined
<1> QED BY <1>9, Zenon DEF u

(* Lists with the same ids at the same places. *)
LEMMA SamePlaces ==
    ASSUME NEW S, NEW s \in Seq(S), NEW T, NEW t \in Seq(T), DOMAIN t = DOMAIN s,
           \A i \in DOMAIN s : t[i].id = s[i].id
    PROVE  /\ IdsOf(t) = IdsOf(s)
           /\ Distinct(s) => Distinct(t)
           /\ Distinct(s) => \A id \in IdsOf(s) : IndexOf(t, id) = IndexOf(s, id)
<1>1. IdsOf(t) = IdsOf(s)
    BY DEF IdsOf
<1>2. Distinct(s) => Distinct(t)
    BY DEF Distinct
<1>3. ASSUME Distinct(s), NEW id \in IdsOf(s) PROVE IndexOf(t, id) = IndexOf(s, id)
    <2>1. IndexOf(s, id) \in DOMAIN s /\ s[IndexOf(s, id)].id = id
        BY Found
    <2>2. IndexOf(s, id) \in DOMAIN t /\ t[IndexOf(s, id)].id = id
        BY <2>1
    <2> QED BY <2>2, <1>2, <1>3, FoundThere
<1> QED BY <1>1, <1>2, <1>3

-----------------------------------------------------------------------------
(* The order of a merge *)

(* Retained features come first, in base's order, then what ours added,    *)
(* then what theirs alone added, each in the order of its side.            *)
Comes(b, o, t, x, y) ==
    IF Has(b, x) THEN Has(b, y) => IndexOf(b, x) < IndexOf(b, y)
    ELSE /\ ~Has(b, y)
         /\ IF Has(o, x) THEN Has(o, y) => IndexOf(o, x) < IndexOf(o, y)
            ELSE ~Has(o, y) /\ IndexOf(t, x) < IndexOf(t, y)

OrderedBy(S, b, o, t, order) ==
    /\ order \in Seq(S)
    /\ Distinct(order)
    /\ IdsOf(order) = {id \in IdsOf(b) \cup IdsOf(o) \cup IdsOf(t) : Survives(b, o, t, id)}
    /\ \A x, y \in IdsOf(order) :
          IndexOf(order, x) < IndexOf(order, y) <=> Comes(b, o, t, x, y)

LEMMA MergedOrderFacts ==
    ASSUME NEW S, NEW b \in Seq(S), NEW o \in Seq(S), NEW t \in Seq(S),
           Distinct(b), Distinct(o), Distinct(t), NEW order, order = MergedOrder(b, o, t)
    PROVE  OrderedBy(S, b, o, t, order)
<1> DEFINE survivors == {id \in IdsOf(b) : Survives(b, o, t, id)}
<1>1. PICK first : first = RetainedBase(b, o, t)
    OBVIOUS
<1>2. PICK second : second = Added(b, o)
    OBVIOUS
<1>3. PICK added : added = Added(b, t)
    OBVIOUS
<1>4. PickedFrom(S, b, survivors, first)
    BY <1>1, WithIdsFacts DEF RetainedBase
<1>5. PickedFrom(S, o, IdsOf(o) \ IdsOf(b), second)
    BY <1>2, WithIdsFacts DEF Added
<1>6. PickedFrom(S, t, IdsOf(t) \ IdsOf(b), added)
    BY <1>3, WithIdsFacts DEF Added
<1>7. added \in Seq(S) /\ Distinct(added) /\ IdsOf(added) = IdsOf(t) \ IdsOf(b)
    BY <1>6 DEF PickedFrom
<1>8. PICK third : third = WithIds(added, IdsOf(t) \ IdsOf(o))
    OBVIOUS
<1>9. PickedFrom(S, added, IdsOf(t) \ IdsOf(o), third)
    BY <1>7, <1>8, WithIdsFacts
<1>10. first \in Seq(S) /\ Distinct(first) /\ IdsOf(first) = survivors
    BY <1>4 DEF PickedFrom
<1>11. second \in Seq(S) /\ Distinct(second) /\ IdsOf(second) = IdsOf(o) \ IdsOf(b)
    BY <1>5 DEF PickedFrom
<1>12. third \in Seq(S) /\ Distinct(third) /\ IdsOf(third) = (IdsOf(t) \ IdsOf(b)) \ IdsOf(o)
    BY <1>7, <1>9 DEF PickedFrom
<1>13. PICK both : both = first \o second
    OBVIOUS
<1>14. Joined(S, first, second, both)
    <2>1. IdsOf(first) \cap IdsOf(second) = {}
        BY <1>10, <1>11
    <2> QED BY <2>1, <1>10, <1>11, <1>13, ConcatFacts
<1>15. both \in Seq(S) /\ Distinct(both) /\ IdsOf(both) = survivors \cup (IdsOf(o) \ IdsOf(b))
    BY <1>14, <1>10, <1>11 DEF Joined
<1>16. order = both \o third
    BY <1>1, <1>2, <1>3, <1>8, <1>13, Zenon DEF MergedOrder
<1>17. Joined(S, both, third, order)
    <2>1. IdsOf(both) \cap IdsOf(third) = {}
        BY <1>15, <1>12
    <2> QED BY <2>1, <1>12, <1>15, <1>16, ConcatFacts
<1>18. order \in Seq(S) /\ Distinct(order) /\ IdsOf(order) = IdsOf(both) \cup IdsOf(third)
    BY <1>17 DEF Joined
<1>19. IdsOf(order) = {id \in IdsOf(b) \cup IdsOf(o) \cup IdsOf(t) : Survives(b, o, t, id)}
    <2>1. IdsOf(order) = survivors
                            \cup (IdsOf(o) \ IdsOf(b)) \cup ((IdsOf(t) \ IdsOf(b)) \ IdsOf(o))
        BY <1>12, <1>15, <1>18
    <2>2. \A id \in (IdsOf(o) \cup IdsOf(t)) \ IdsOf(b) : Survives(b, o, t, id)
        BY DEF Survives, Has
    <2> QED BY <2>1, <2>2
<1>20. ASSUME NEW x \in IdsOf(order), NEW y \in IdsOf(order)
      PROVE  IndexOf(order, x) < IndexOf(order, y) <=> Comes(b, o, t, x, y)
    <2>1. Len(first) \in Nat /\ Len(both) \in Nat
        BY <1>10, <1>15
    <2>2. ASSUME NEW id \in IdsOf(first)
          PROVE  /\ IndexOf(order, id) = IndexOf(first, id) /\ IndexOf(first, id) \in 1..Len(first)
                 /\ IndexOf(order, id) \in 1..Len(both)
        <3>1. id \in IdsOf(both)
            BY <1>10, <1>15
        <3>2. IndexOf(order, id) = IndexOf(both, id) /\ IndexOf(both, id) = IndexOf(first, id)
            BY <3>1, <1>14, <1>17 DEF Joined
        <3>3. IndexOf(first, id) \in DOMAIN first
            BY <1>10, Found
        <3>4. IndexOf(both, id) \in DOMAIN both
            BY <3>1, <1>15, Found
        <3> QED BY <3>2, <3>3, <3>4, <1>10, <1>15
    <2>3. ASSUME NEW id \in IdsOf(second)
          PROVE  /\ IndexOf(order, id) = Len(first) + IndexOf(second, id)
                 /\ IndexOf(second, id) \in 1..Len(second) /\ IndexOf(order, id) \in 1..Len(both)
        <3>1. id \in IdsOf(both)
            BY <1>11, <1>15
        <3>2. IndexOf(order, id) = IndexOf(both, id)
              /\ IndexOf(both, id) = Len(first) + IndexOf(second, id)
            BY <3>1, <1>14, <1>17 DEF Joined
        <3>3. IndexOf(second, id) \in DOMAIN second
            BY <1>11, Found
        <3>4. IndexOf(both, id) \in DOMAIN both
            BY <3>1, <1>15, Found
        <3> QED BY <3>2, <3>3, <3>4, <1>11, <1>15
    <2>4. ASSUME NEW id \in IdsOf(third)
          PROVE  IndexOf(order, id) = Len(both) + IndexOf(third, id) /\ IndexOf(third, id) \in 1..Len(third)
        <3>1. IndexOf(order, id) = Len(both) + IndexOf(third, id)
            BY <1>17 DEF Joined
        <3>2. IndexOf(third, id) \in DOMAIN third
            BY <1>12, Found
        <3> QED BY <3>1, <3>2, <1>12
    <2>5. /\ \A i, j \in IdsOf(first) : IndexOf(first, i) < IndexOf(first, j) <=> IndexOf(b, i) < IndexOf(b, j)
          /\ \A i, j \in IdsOf(second) : IndexOf(second, i) < IndexOf(second, j) <=> IndexOf(o, i) < IndexOf(o, j)
          /\ \A i, j \in IdsOf(third) : IndexOf(third, i) < IndexOf(third, j) <=> IndexOf(t, i) < IndexOf(t, j)
        <3>1. \A i, j \in IdsOf(third) : i \in IdsOf(added) /\ j \in IdsOf(added)
            BY <1>12, <1>7
        <3>2. \A i, j \in IdsOf(third) : IndexOf(third, i) < IndexOf(third, j) <=> IndexOf(added, i) < IndexOf(added, j)
            BY <1>9, Zenon DEF PickedFrom
        <3>3. \A i, j \in IdsOf(added) : IndexOf(added, i) < IndexOf(added, j) <=> IndexOf(t, i) < IndexOf(t, j)
            BY <1>6, Zenon DEF PickedFrom
        <3>4. \A i, j \in IdsOf(first) : IndexOf(first, i) < IndexOf(first, j) <=> IndexOf(b, i) < IndexOf(b, j)
            BY <1>4, Zenon DEF PickedFrom
        <3>5. \A i, j \in IdsOf(second) : IndexOf(second, i) < IndexOf(second, j) <=> IndexOf(o, i) < IndexOf(o, j)
            BY <1>5, Zenon DEF PickedFrom
        <3>6. \A i, j \in IdsOf(third) : IndexOf(third, i) < IndexOf(third, j) <=> IndexOf(t, i) < IndexOf(t, j)
            BY <3>1, <3>2, <3>3, Zenon
        <3> QED BY <3>4, <3>5, <3>6
    <2>6. x \in IdsOf(first) \/ x \in IdsOf(second) \/ x \in IdsOf(third)
        BY <1>10, <1>11, <1>15, <1>18
    <2>7. y \in IdsOf(first) \/ y \in IdsOf(second) \/ y \in IdsOf(third)
        BY <1>10, <1>11, <1>15, <1>18
    <2>8. \A id \in IdsOf(first) : Has(b, id)
        BY <1>10 DEF Has
    <2>9. \A id \in IdsOf(second) : ~Has(b, id) /\ Has(o, id)
        BY <1>11 DEF Has
    <2>10. \A id \in IdsOf(third) : ~Has(b, id) /\ ~Has(o, id)
        BY <1>12 DEF Has
    <2>11. CASE x \in IdsOf(first) /\ y \in IdsOf(first)
        BY <2>11, <2>2, <2>8, <2>5 DEF Comes
    <2>12. CASE x \in IdsOf(first) /\ y \in IdsOf(second)
        <3>1. IndexOf(order, x) < IndexOf(order, y)
            BY <2>12, <2>1, <2>2, <2>3
        <3> QED BY <3>1, <2>12, <2>8, <2>9 DEF Comes
    <2>13. CASE x \in IdsOf(first) /\ y \in IdsOf(third)
        <3>1. IndexOf(order, x) < IndexOf(order, y)
            BY <2>13, <2>1, <2>2, <2>4
        <3> QED BY <3>1, <2>13, <2>8, <2>10 DEF Comes
    <2>14. CASE x \in IdsOf(second) /\ y \in IdsOf(first)
        <3>1. ~(IndexOf(order, x) < IndexOf(order, y))
            BY <2>14, <2>1, <2>2, <2>3
        <3> QED BY <3>1, <2>14, <2>8, <2>9 DEF Comes
    <2>15. CASE x \in IdsOf(second) /\ y \in IdsOf(second)
        <3>1. IndexOf(order, x) < IndexOf(order, y) <=> IndexOf(second, x) < IndexOf(second, y)
            BY <2>15, <2>1, <2>3
        <3> QED BY <3>1, <2>15, <2>9, <2>5 DEF Comes
    <2>16. CASE x \in IdsOf(second) /\ y \in IdsOf(third)
        <3>1. IndexOf(order, x) < IndexOf(order, y)
            BY <2>16, <2>1, <2>3, <2>4
        <3> QED BY <3>1, <2>16, <2>9, <2>10 DEF Comes
    <2>17. CASE x \in IdsOf(third) /\ y \in IdsOf(first)
        <3>1. ~(IndexOf(order, x) < IndexOf(order, y))
            BY <2>17, <2>1, <2>2, <2>4
        <3> QED BY <3>1, <2>17, <2>8, <2>10 DEF Comes
    <2>18. CASE x \in IdsOf(third) /\ y \in IdsOf(second)
        <3>1. ~(IndexOf(order, x) < IndexOf(order, y))
            BY <2>18, <2>1, <2>3, <2>4
        <3> QED BY <3>1, <2>18, <2>9, <2>10 DEF Comes
    <2>19. CASE x \in IdsOf(third) /\ y \in IdsOf(third)
        <3>1. IndexOf(order, x) < IndexOf(order, y) <=> IndexOf(third, x) < IndexOf(third, y)
            BY <2>19, <2>1, <2>4
        <3> QED BY <3>1, <2>19, <2>10, <2>5 DEF Comes
    <2> QED BY <2>6, <2>7, <2>11, <2>12, <2>13, <2>14, <2>15, <2>16, <2>17, <2>18, <2>19
<1> QED BY <1>18, <1>19, <1>20, Zenon DEF OrderedBy

-----------------------------------------------------------------------------
(* Features and what a merge makes of them *)

LEMMA FeatureFields ==
    ASSUME NEW f \in Features
    PROVE  /\ f.id \in Ids /\ f.type \in Types \cup {Empty} /\ f.suppressed \in BOOLEAN
           /\ f.params \in [DOMAIN f.params -> Values] /\ DOMAIN f.params \subseteq Names
<1>1. f.params \in UNION {[S -> Values] : S \in SUBSET Names}
    BY DEF Features
<1>2. PICK S \in SUBSET Names : f.params \in [S -> Values]
    BY <1>1
<1> QED BY <1>2 DEF Features

LEMMA FeatureMade ==
    ASSUME NEW id \in Ids, NEW type \in Types \cup {Empty}, NEW suppressed \in BOOLEAN,
           NEW S \in SUBSET Names, NEW params \in [S -> Values]
    PROVE  [id |-> id, type |-> type, suppressed |-> suppressed, params |-> params] \in Features
<1>1. params \in UNION {[T -> Values] : T \in SUBSET Names}
    OBVIOUS
<1> QED BY <1>1 DEF Features

LEMMA FeaturesEqual ==
    ASSUME NEW f \in Features, NEW g \in Features, f.id = g.id, f.type = g.type,
           f.suppressed = g.suppressed, f.params = g.params
    PROVE  f = g
BY DEF Features

LEMMA ParamTyped ==
    ASSUME NEW f \in Features, NEW n
    PROVE  /\ Param(f, n) \in Values \cup {Unset}
           /\ Param(f, n) # Unset <=> n \in DOMAIN f.params
           /\ Param(f, n) # Unset => n \in Names
BY FeatureFields, MergeAssumption DEF Param

(* Features with the same parameters, one by one. *)
LEMMA ParamsEqual ==
    ASSUME NEW f \in Features, NEW g \in Features, \A n \in Names : Param(f, n) = Param(g, n)
    PROVE  f.params = g.params
<1>1. \A n : n \in DOMAIN f.params <=> n \in DOMAIN g.params
    BY ParamTyped
<1>2. DOMAIN f.params = DOMAIN g.params
    BY <1>1
<1>3. \A n \in DOMAIN f.params : f.params[n] = g.params[n]
    BY <1>2, FeatureFields DEF Param
<1> QED BY <1>2, <1>3, FeatureFields

LEMMA CombineOneOf ==
    ASSUME NEW x, NEW y, NEW z
    PROVE  /\ Combine(x, y, z) \in {x, y, z}
           /\ Combine(x, y, z) = Combine(x, z, y)
           /\ Clash(x, y, z) <=> Clash(x, z, y)
           /\ Clash(x, y, z) => Combine(x, y, z) = x
           /\ ~Clash(x, y, z) => /\ y # x => Combine(x, y, z) = y
                                 /\ z # x => Combine(x, y, z) = z
                                 /\ (y = x /\ z = x) => Combine(x, y, z) = x
BY DEF Combine, Clash

LEMMA CombinedFeatureTyped ==
    ASSUME NEW f \in Features, NEW g \in Features, NEW h \in Features
    PROVE  /\ CombinedFeature(f, g, h) \in Features
           /\ CombinedFeature(f, g, h).id = f.id
           /\ CombinedFeature(f, g, h).type = Combine(f.type, g.type, h.type)
           /\ CombinedFeature(f, g, h).suppressed = Combine(f.suppressed, g.suppressed, h.suppressed)
           /\ \A n \in Names : Param(CombinedFeature(f, g, h), n)
                                  = Combine(Param(f, n), Param(g, n), Param(h, n))
<1> DEFINE value(n) == Combine(Param(f, n), Param(g, n), Param(h, n))
           names == {n \in Names : value(n) # Unset}
           params == [n \in names |-> value(n)]
           c == CombinedFeature(f, g, h)
<1>1. c = [id |-> f.id, type |-> Combine(f.type, g.type, h.type),
           suppressed |-> Combine(f.suppressed, g.suppressed, h.suppressed), params |-> params]
    BY DEF CombinedFeature
<1>2. \A n : value(n) \in Values \cup {Unset}
    BY ParamTyped, CombineOneOf
<1>3. params \in [names -> Values] /\ names \in SUBSET Names
    BY <1>2
<1>4. Combine(f.type, g.type, h.type) \in Types \cup {Empty}
    BY FeatureFields, CombineOneOf
<1>5. Combine(f.suppressed, g.suppressed, h.suppressed) \in BOOLEAN
    BY FeatureFields, CombineOneOf
<1>6. f.id \in Ids
    BY FeatureFields
<1> HIDE DEF c
<1>7. c.params = params /\ c.id = f.id /\ c.type = Combine(f.type, g.type, h.type)
      /\ c.suppressed = Combine(f.suppressed, g.suppressed, h.suppressed)
    BY <1>1
<1>8. c \in Features
    <2> HIDE DEF params, names, value
    <2> QED BY <1>1, <1>3, <1>4, <1>5, <1>6, FeatureMade
<1>9. \A n \in Names : Param(c, n) = value(n)
    BY <1>7 DEF Param
<1> QED BY <1>7, <1>8, <1>9 DEF c

-----------------------------------------------------------------------------
(* The merged tree *)

(* A feature of a merge of three lists. *)
LEMMA MergedFeatureTyped ==
    ASSUME NEW b \in Seq(Features), NEW o \in Seq(Features), NEW t \in Seq(Features),
           NEW id \in IdsOf(b) \cup IdsOf(o) \cup IdsOf(t)
    PROVE  MergedFeature(b, o, t, id) \in Features /\ MergedFeature(b, o, t, id).id = id
<1>1. CASE InAllThree(b, o, t, id)
    <2>1. /\ At(b, id) \in Features /\ At(o, id) \in Features /\ At(t, id) \in Features
          /\ At(b, id).id = id
        BY <1>1, Found DEF InAllThree, Has
    <2> QED BY <2>1, <1>1, CombinedFeatureTyped DEF MergedFeature
<1>2. CASE ~InAllThree(b, o, t, id)
    BY <1>2, Found DEF MergedFeature, Has
<1> QED BY <1>1, <1>2

(* The merged tree has the features that survive, in the merged order. *)
MergedAs(b, o, t, m) ==
    /\ m \in Seq(Features)
    /\ Distinct(m)
    /\ IdsOf(m) = {id \in IdsOf(b) \cup IdsOf(o) \cup IdsOf(t) : Survives(b, o, t, id)}
    /\ \A id \in IdsOf(m) : At(m, id) = MergedFeature(b, o, t, id)
    /\ \A x, y \in IdsOf(m) : IndexOf(m, x) < IndexOf(m, y) <=> Comes(b, o, t, x, y)

LEMMA MergedTreeFacts ==
    ASSUME NEW b \in Seq(Features), NEW o \in Seq(Features), NEW t \in Seq(Features),
           Distinct(b), Distinct(o), Distinct(t)
    PROVE  MergedAs(b, o, t, MergedTree(b, o, t))
<1>1. PICK order : order = MergedOrder(b, o, t)
    OBVIOUS
<1>2. OrderedBy(Features, b, o, t, order)
    BY <1>1, MergedOrderFacts
<1>3. order \in Seq(Features) /\ Distinct(order)
      /\ IdsOf(order) = {id \in IdsOf(b) \cup IdsOf(o) \cup IdsOf(t) : Survives(b, o, t, id)}
    BY <1>2 DEF OrderedBy
<1>4. PICK m : m = MergedTree(b, o, t)
    OBVIOUS
<1>5. m = [i \in DOMAIN order |-> MergedFeature(b, o, t, order[i].id)]
    BY <1>1, <1>4 DEF MergedTree
<1>6. \A i \in DOMAIN order : order[i].id \in IdsOf(b) \cup IdsOf(o) \cup IdsOf(t)
    BY <1>3, FoundThere
<1>7. \A i \in DOMAIN order : m[i] \in Features /\ m[i].id = order[i].id
                              /\ m[i] = MergedFeature(b, o, t, order[i].id)
    BY <1>5, <1>6, MergedFeatureTyped
<1>8. m \in Seq(Features) /\ DOMAIN m = DOMAIN order
    BY <1>3, <1>5, <1>7, SMTT(40)
<1>9. /\ IdsOf(m) = IdsOf(order) /\ Distinct(m)
      /\ \A id \in IdsOf(order) : IndexOf(m, id) = IndexOf(order, id)
    BY <1>3, <1>7, <1>8, SamePlaces
<1>10. ASSUME NEW id \in IdsOf(m) PROVE At(m, id) = MergedFeature(b, o, t, id)
    <2>1. PICK i \in DOMAIN order : i = IndexOf(order, id) /\ order[i].id = id
        BY <1>3, <1>9, Found
    <2>2. IndexOf(m, id) = i
        BY <2>1, <1>9
    <2> QED BY <2>1, <2>2, <1>7 DEF At
<1>11. ASSUME NEW x \in IdsOf(m), NEW y \in IdsOf(m)
       PROVE  IndexOf(m, x) < IndexOf(m, y) <=> Comes(b, o, t, x, y)
    <2>1. \A u, v \in IdsOf(order) : IndexOf(order, u) < IndexOf(order, v) <=> Comes(b, o, t, u, v)
        BY <1>2, Zenon DEF OrderedBy
    <2>2. x \in IdsOf(order) /\ y \in IdsOf(order)
        BY <1>9
    <2>3. IndexOf(m, x) = IndexOf(order, x) /\ IndexOf(m, y) = IndexOf(order, y)
        BY <2>2, <1>9, Zenon
    <2> QED BY <2>1, <2>2, <2>3, Zenon
<1>12. MergedAs(b, o, t, m)
    BY <1>3, <1>8, <1>9, <1>10, <1>11, Zenon DEF MergedAs
<1> QED BY <1>4, <1>12, Zenon

-----------------------------------------------------------------------------
(* The conflicts *)

(* One side removed what the other modified. *)
Contested(b, o, t, id) == RemovedModified(b, o, t, id) \/ RemovedModified(b, t, o, id)

AddRemoves ==
    [id : Ids, base : Features, oursRemoved : BOOLEAN, modified : Features, insertIndexHint : Int]

(* What an add/remove conflict records of its feature. *)
Records(b, o, t, c) ==
    /\ c.id \in IdsOf(b) /\ Contested(b, o, t, c.id)
    /\ c.base = At(b, c.id) /\ c.base.id = c.id
    /\ c.oursRemoved <=> ~Has(o, c.id)
    /\ c.modified = At(IF Has(o, c.id) THEN o ELSE t, c.id) /\ c.modified.id = c.id

AddRemoveSound(b, o, t, list) ==
    /\ list \in Seq(AddRemoves)
    /\ Distinct(list)
    /\ IdsOf(list) = {id \in IdsOf(b) : Contested(b, o, t, id)}
    /\ \A i \in DOMAIN list : Records(b, o, t, list[i])

LEMMA ContestedWhere ==
    ASSUME NEW b, NEW o, NEW t, NEW id, Contested(b, o, t, id)
    PROVE  /\ Has(b, id) /\ (Has(o, id) <=> ~Has(t, id))
           /\ Survives(b, o, t, id) /\ ~InAllThree(b, o, t, id)
BY DEF Contested, RemovedModified, Survives, InAllThree

LEMMA AddRemoveFacts ==
    ASSUME NEW b \in Seq(Features), NEW o \in Seq(Features), NEW t \in Seq(Features), Distinct(b)
    PROVE  AddRemoveSound(b, o, t, AddRemoveConflicts(b, o, t))
<1> DEFINE ids == {id \in IdsOf(b) : Contested(b, o, t, id)}
<1>1. PICK clashing : clashing = WithIds(b, ids)
    OBVIOUS
<1>2. PickedFrom(Features, b, ids, clashing)
    BY <1>1, WithIdsFacts
<1>3. clashing \in Seq(Features) /\ Distinct(clashing) /\ IdsOf(clashing) = ids
      /\ \A id \in IdsOf(clashing) : At(clashing, id) = At(b, id)
    BY <1>2 DEF PickedFrom
<1> DEFINE made(f) ==
        [id |-> f.id, base |-> f, oursRemoved |-> ~Has(o, f.id),
         modified |-> At(IF Has(o, f.id) THEN o ELSE t, f.id),
         insertIndexHint |-> IndexOf(b, f.id) - 1]
<1>4. PICK list : list = AddRemoveConflicts(b, o, t)
    OBVIOUS
<1>5. list = [i \in DOMAIN clashing |-> made(clashing[i])]
    <2>1. {id \in IdsOf(b) : RemovedModified(b, o, t, id) \/ RemovedModified(b, t, o, id)} = ids
        BY DEF Contested
    <2> QED BY <2>1, <1>1, <1>4, Zenon DEF AddRemoveConflicts
<1>6. ASSUME NEW i \in DOMAIN clashing
      PROVE  /\ list[i].id = clashing[i].id /\ list[i] \in AddRemoves
             /\ Records(b, o, t, list[i])
    <2>1. PICK f \in Features : f = clashing[i]
        BY <1>3
    <2>2. f.id \in ids /\ f.id \in IdsOf(clashing) /\ f = At(b, f.id)
        BY <2>1, <1>3, FoundThere
    <2>3. PICK id \in Ids : id = f.id
        BY FeatureFields
    <2>4. PICK g : g = At(IF Has(o, id) THEN o ELSE t, id)
        OBVIOUS
    <2>5. PICK h : h = IndexOf(b, id) - 1
        OBVIOUS
    <2>6. PICK r \in BOOLEAN : r = ~Has(o, id)
        OBVIOUS
    <2>7. Contested(b, o, t, id) /\ id \in IdsOf(b)
        BY <2>2, <2>3
    <2>8. g \in Features /\ g.id = id
        <3>1. CASE Has(o, id)
            BY <3>1, <2>4, Found DEF Has
        <3>2. CASE ~Has(o, id)
            <4>1. Has(t, id)
                BY <3>2, <2>7, ContestedWhere
            <4> QED BY <3>2, <4>1, <2>4, Found DEF Has
        <3> QED BY <3>1, <3>2
    <2>9. h \in Int
        BY <2>5, <2>7, Found
    <2>10. list[i] = made(f)
        BY <1>5, <2>1
    <2>11. list[i] = [id |-> id, base |-> f, oursRemoved |-> r, modified |-> g, insertIndexHint |-> h]
        BY <2>10, <2>3, <2>4, <2>5, <2>6
    <2> HIDE DEF made
    <2>12. list[i] \in AddRemoves /\ list[i].id = id /\ list[i].base = f
           /\ list[i].oursRemoved = r /\ list[i].modified = g
        BY <2>8, <2>9, <2>11 DEF AddRemoves
    <2>13. Records(b, o, t, list[i])
        BY <2>2, <2>3, <2>4, <2>6, <2>7, <2>8, <2>12 DEF Records
    <2> QED BY <2>12, <2>13, <2>3, <2>1
<1>7. list \in Seq(AddRemoves) /\ DOMAIN list = DOMAIN clashing
    <2> HIDE DEF made
    <2> QED BY <1>3, <1>5, <1>6
<1>8. IdsOf(list) = ids /\ Distinct(list)
    BY <1>3, <1>6, <1>7, SamePlaces
<1>9. AddRemoveSound(b, o, t, list)
    BY <1>6, <1>7, <1>8 DEF AddRemoveSound
<1> QED BY <1>4, <1>9, Zenon

(* A type is empty on a side only where base has it so. *)
EmptyFrom(b, side) ==
    \A id \in IdsOf(side) : At(side, id).type = Empty => Has(b, id) /\ At(b, id).type = Empty

ParamConflictsOf == [id : Ids, name : Names, base : Values, ours : Values, theirs : Values]
TypeConflictsOf  == [id : Ids, base : Types \cup {Empty}, ours : Types, theirs : Types]
SuppressionConflictsOf == [id : Ids, base : BOOLEAN, ours : BOOLEAN, theirs : BOOLEAN]

ConflictSets ==
    [param : SUBSET ParamConflictsOf, type : SUBSET TypeConflictsOf,
     suppression : SUBSET SuppressionConflictsOf, addRemove : Seq(AddRemoves), position : SUBSET Ids]

(* Where a value is in conflict, both sides have the feature. *)
LEMMA ClashesWhere ==
    ASSUME NEW b, NEW o, NEW t, NEW id, InAllThree(b, o, t, id) \/ BothAdded(b, o, t, id)
    PROVE  Has(o, id) /\ Has(t, id) /\ Has(IF Has(b, id) THEN b ELSE o, id)
BY DEF InAllThree, BothAdded

LEMMA ConflictsTyped ==
    ASSUME NEW b \in Seq(Features), NEW o \in Seq(Features), NEW t \in Seq(Features), Distinct(b),
           EmptyFrom(b, o), EmptyFrom(b, t)
    PROVE  Conflicts(b, o, t) \in ConflictSets
<1>1. ASSUME NEW k \in ParamClashes(b, o, t)
      PROVE  ParamConflict(b, o, t, k[1], k[2]) \in ParamConflictsOf
    <2>1. PICK id \in Ids, n \in Names : id = k[1] /\ n = k[2]
        BY DEF ParamClashes
    <2>2. InAllThree(b, o, t, id) \/ BothAdded(b, o, t, id)
        BY <2>1 DEF ParamClashes
    <2>3. PICK base : base = IF Has(b, id) THEN b ELSE o
        OBVIOUS
    <2>4. At(base, id) \in Features /\ At(o, id) \in Features /\ At(t, id) \in Features
        <3>1. base \in Seq(Features) /\ Has(base, id) /\ Has(o, id) /\ Has(t, id)
            BY <2>2, <2>3, ClashesWhere
        <3> QED BY <3>1, Found DEF Has
    <2>5. \A f \in Features : OrEmpty(Param(f, n)) \in Values
        BY ParamTyped, MergeAssumption DEF OrEmpty
    <2>6. PICK x \in Values : x = OrEmpty(Param(At(base, id), n))
        BY <2>4, <2>5
    <2>7. PICK y \in Values : y = OrEmpty(Param(At(o, id), n))
        BY <2>4, <2>5
    <2>8. PICK z \in Values : z = OrEmpty(Param(At(t, id), n))
        BY <2>4, <2>5
    <2>9. ParamConflict(b, o, t, id, n) = [id |-> id, name |-> n, base |-> x, ours |-> y, theirs |-> z]
        BY <2>3, <2>6, <2>7, <2>8 DEF ParamConflict
    <2> QED BY <2>1, <2>9 DEF ParamConflictsOf
<1>2. ASSUME NEW id \in TypeClashes(b, o, t)
      PROVE  TypeConflict(b, o, t, id) \in TypeConflictsOf
    <2>1. id \in Ids /\ (InAllThree(b, o, t, id) \/ BothAdded(b, o, t, id))
        BY DEF TypeClashes
    <2>2. Has(o, id) /\ Has(t, id)
        BY <2>1, ClashesWhere
    <2>3. At(o, id) \in Features /\ At(t, id) \in Features /\ (Has(b, id) => At(b, id) \in Features)
        BY <2>2, Found DEF Has
    <2>4. At(o, id).type \in Types \cup {Empty} /\ At(t, id).type \in Types \cup {Empty}
          /\ (Has(b, id) => At(b, id).type \in Types \cup {Empty})
        BY <2>3, FeatureFields
    <2>5. At(o, id).type # Empty
        <3>1. SUFFICES ASSUME At(o, id).type = Empty PROVE FALSE
            OBVIOUS
        <3>2. Has(b, id) /\ At(b, id).type = Empty
            BY <2>2, <3>1 DEF EmptyFrom, Has
        <3> QED BY <3>1, <3>2, <2>1 DEF TypeClashes, Clash, BothAdded
    <2>6. At(t, id).type # Empty
        <3>1. SUFFICES ASSUME At(t, id).type = Empty PROVE FALSE
            OBVIOUS
        <3>2. Has(b, id) /\ At(b, id).type = Empty
            BY <2>2, <3>1 DEF EmptyFrom, Has
        <3> QED BY <3>1, <3>2, <2>1 DEF TypeClashes, Clash, BothAdded
    <2>7. PICK y \in Types : y = At(o, id).type
        BY <2>4, <2>5
    <2>8. PICK z \in Types : z = At(t, id).type
        BY <2>4, <2>6
    <2>9. PICK x \in Types \cup {Empty} : x = IF Has(b, id) THEN At(b, id).type ELSE Empty
        BY <2>4
    <2>10. TypeConflict(b, o, t, id) = [id |-> id, base |-> x, ours |-> y, theirs |-> z]
        BY <2>7, <2>8, <2>9 DEF TypeConflict
    <2> QED BY <2>1, <2>10 DEF TypeConflictsOf
<1>3. ASSUME NEW id \in SuppressionClashes(b, o, t)
      PROVE  SuppressionConflict(b, o, t, id) \in SuppressionConflictsOf
    <2>1. id \in Ids /\ (InAllThree(b, o, t, id) \/ BothAdded(b, o, t, id))
        BY DEF SuppressionClashes
    <2>2. PICK base : base = IF Has(b, id) THEN b ELSE o
        OBVIOUS
    <2>3. At(base, id) \in Features /\ At(o, id) \in Features /\ At(t, id) \in Features
        <3>1. base \in Seq(Features) /\ Has(base, id) /\ Has(o, id) /\ Has(t, id)
            BY <2>1, <2>2, ClashesWhere
        <3> QED BY <3>1, Found DEF Has
    <2>4. PICK x \in BOOLEAN : x = At(base, id).suppressed
        BY <2>3, FeatureFields
    <2>5. PICK y \in BOOLEAN : y = At(o, id).suppressed
        BY <2>3, FeatureFields
    <2>6. PICK z \in BOOLEAN : z = At(t, id).suppressed
        BY <2>3, FeatureFields
    <2>7. SuppressionConflict(b, o, t, id) = [id |-> id, base |-> x, ours |-> y, theirs |-> z]
        BY <2>2, <2>4, <2>5, <2>6 DEF SuppressionConflict
    <2> QED BY <2>1, <2>7 DEF SuppressionConflictsOf
<1>4. AddRemoveConflicts(b, o, t) \in Seq(AddRemoves)
    BY AddRemoveFacts DEF AddRemoveSound
<1>5. PositionClashes(b, o, t) \subseteq Ids
    <2>1. PICK retained : retained = RetainedBase(b, o, t)
        OBVIOUS
    <2>2. PickedFrom(Features, b, {id \in IdsOf(b) : Survives(b, o, t, id)}, retained)
        BY <2>1, WithIdsFacts DEF RetainedBase
    <2>3. IdsOf(retained) \subseteq IdsOf(b)
        BY <2>2 DEF PickedFrom
    <2>4. IdsOf(b) \subseteq Ids
        <3> SUFFICES ASSUME NEW id \in IdsOf(b) PROVE id \in Ids
            OBVIOUS
        <3> QED BY Found, FeatureFields
    <2>5. PositionClashes(b, o, t) \subseteq IdsOf(retained)
        BY <2>1 DEF PositionClashes
    <2> QED BY <2>3, <2>4, <2>5
<1> DEFINE c == Conflicts(b, o, t)
<1>6. PICK P, T, S, A, Q :
          /\ P = {ParamConflict(b, o, t, k[1], k[2]) : k \in ParamClashes(b, o, t)}
          /\ T = {TypeConflict(b, o, t, id) : id \in TypeClashes(b, o, t)}
          /\ S = {SuppressionConflict(b, o, t, id) : id \in SuppressionClashes(b, o, t)}
          /\ A = AddRemoveConflicts(b, o, t) /\ Q = PositionClashes(b, o, t)
    OBVIOUS
<1>7. c = [param |-> P, type |-> T, suppression |-> S, addRemove |-> A, position |-> Q]
    BY <1>6, Zenon DEF Conflicts
<1>8. P \in SUBSET ParamConflictsOf
    BY <1>1, <1>6, Zenon
<1>9. T \in SUBSET TypeConflictsOf
    BY <1>2, <1>6, Zenon
<1>10. S \in SUBSET SuppressionConflictsOf
    BY <1>3, <1>6, Zenon
<1>11. A \in Seq(AddRemoves) /\ Q \in SUBSET Ids
    BY <1>4, <1>5, <1>6
<1> HIDE DEF c
<1>12. c \in ConflictSets
    BY <1>7, <1>8, <1>9, <1>10, <1>11 DEF ConflictSets
<1> QED BY <1>12 DEF c

-----------------------------------------------------------------------------
(* One feature put into a list, or taken out of it *)

(* A stretch of a list. *)
StretchOf(S, list, first, last, s) ==
    /\ s \in Seq(S) /\ Distinct(s)
    /\ IdsOf(s) = {list[i].id : i \in first..last}
    /\ \A id \in IdsOf(s) : At(s, id) = At(list, id)

LEMMA SubSeqFacts ==
    ASSUME NEW S, NEW list \in Seq(S), Distinct(list),
           NEW first \in 1..(Len(list) + 1), NEW last \in 0..Len(list), first <= last + 1
    PROVE  StretchOf(S, list, first, last, SubSeq(list, first, last))
<1>1. PICK s : s = SubSeq(list, first, last)
    OBVIOUS
<1>2. /\ s \in Seq(S) /\ Len(s) = last + 1 - first /\ Len(list) \in Nat
      /\ \A i \in 1..(last + 1 - first) : s[i] = list[first + i - 1]
    BY <1>1, SubSeqProperties
<1>3. DOMAIN s = 1..(last + 1 - first) /\ DOMAIN list = 1..Len(list)
    BY <1>2
<1>4. ASSUME NEW i \in DOMAIN s
      PROVE  first + i - 1 \in DOMAIN list /\ first + i - 1 \in first..last
             /\ s[i] = list[first + i - 1]
    <2>1. i \in 1..(last + 1 - first)
        BY <1>3
    <2>2. first + i - 1 \in 1..Len(list) /\ first + i - 1 \in first..last
        <3>1. PICK top \in Nat : top = Len(list)
            BY <1>2
        <3>2. first \in 1..(top + 1) /\ last \in 0..top
            BY <3>1
        <3>3. first + i - 1 \in 1..top /\ first + i - 1 \in first..last
            BY <2>1, <3>2
        <3> QED BY <3>1, <3>3
    <2> QED BY <2>1, <2>2, <1>2, <1>3
<1>5. ASSUME NEW i \in first..last
      PROVE  i - first + 1 \in DOMAIN s /\ s[i - first + 1] = list[i]
    <2>1. i - first + 1 \in 1..(last + 1 - first) /\ first + (i - first + 1) - 1 = i
        OBVIOUS
    <2> QED BY <2>1, <1>2, <1>3
<1>6. Distinct(s)
    <2> SUFFICES ASSUME NEW i \in DOMAIN s, NEW j \in DOMAIN s, s[i].id = s[j].id PROVE i = j
        BY DEF Distinct
    <2>1. first + i - 1 = first + j - 1
        BY <1>4 DEF Distinct
    <2> QED BY <2>1, <1>3
<1>7. IdsOf(s) = {list[i].id : i \in first..last}
    <2>1. IdsOf(s) \subseteq {list[i].id : i \in first..last}
        <3> SUFFICES ASSUME NEW i \in DOMAIN s
                     PROVE  s[i].id \in {list[j].id : j \in first..last}
            BY DEF IdsOf
        <3> QED BY <1>4
    <2>2. {list[i].id : i \in first..last} \subseteq IdsOf(s)
        <3> SUFFICES ASSUME NEW i \in first..last PROVE list[i].id \in IdsOf(s)
            OBVIOUS
        <3>1. PICK k \in DOMAIN s : s[k] = list[i]
            BY <1>5
        <3> QED BY <3>1 DEF IdsOf
    <2> QED BY <2>1, <2>2
<1>8. ASSUME NEW id \in IdsOf(s) PROVE At(s, id) = At(list, id)
    <2>1. PICK i \in DOMAIN s : i = IndexOf(s, id) /\ s[i].id = id
        BY <1>2, Found
    <2>2. PICK k \in DOMAIN list : s[i] = list[k]
        BY <1>4
    <2>3. At(list, list[k].id) = list[k]
        BY FoundThere
    <2> QED BY <2>1, <2>2, <2>3 DEF At
<1>9. StretchOf(S, list, first, last, s)
    BY <1>2, <1>6, <1>7, <1>8, Zenon DEF StretchOf
<1> QED BY <1>1, <1>9, Zenon

(* The list with f in it, in the place of the feature that has its id if there is one. *)
PutIn(S, list, f, new) ==
    /\ new \in Seq(S) /\ Distinct(new)
    /\ IdsOf(new) = IdsOf(list) \cup {f.id}
    /\ At(new, f.id) = f
    /\ \A id \in IdsOf(list) : id # f.id => At(new, id) = At(list, id)
    /\ Has(list, f.id) => \A id \in IdsOf(list) : IndexOf(new, id) = IndexOf(list, id)

LEMMA JoinedPutIn ==
    ASSUME NEW S, NEW list \in Seq(S), Distinct(list), NEW f \in S, f.id \notin IdsOf(list),
           NEW a \in Seq(S), NEW c \in Seq(S), Distinct(a), Distinct(c),
           IdsOf(a) \cap IdsOf(c) = {}, IdsOf(list) = IdsOf(a) \cup IdsOf(c),
           \A id \in IdsOf(a) : At(a, id) = At(list, id),
           \A id \in IdsOf(c) : At(c, id) = At(list, id)
    PROVE  PutIn(S, list, f, (a \o <<f>>) \o c)
<1>1. PICK one : one = <<f>>
    OBVIOUS
<1>2. one \in Seq(S) /\ DOMAIN one = {1} /\ one[1] = f
    BY <1>1
<1>3. Distinct(one) /\ IdsOf(one) = {f.id}
    BY <1>2 DEF Distinct, IdsOf
<1>4. At(one, f.id) = f
    BY <1>2, <1>3, FoundThere
<1>5. PICK left : left = a \o one
    OBVIOUS
<1>6. Joined(S, a, one, left)
    <2>1. IdsOf(a) \cap IdsOf(one) = {}
        BY <1>3
    <2> QED BY <2>1, <1>2, <1>3, <1>5, ConcatFacts
<1>7. left \in Seq(S) /\ Distinct(left) /\ IdsOf(left) = IdsOf(a) \cup {f.id}
      /\ (\A id \in IdsOf(a) : At(left, id) = At(a, id)) /\ At(left, f.id) = f
    BY <1>3, <1>4, <1>6 DEF Joined
<1>8. PICK new : new = left \o c
    OBVIOUS
<1>9. Joined(S, left, c, new)
    BY <1>7, <1>8, ConcatFacts
<1>10. new \in Seq(S) /\ Distinct(new) /\ IdsOf(new) = IdsOf(list) \cup {f.id}
       /\ (\A id \in IdsOf(left) : At(new, id) = At(left, id))
       /\ (\A id \in IdsOf(c) : At(new, id) = At(c, id))
    BY <1>7, <1>9 DEF Joined
<1>11. At(new, f.id) = f
    BY <1>7, <1>10
<1>12. ASSUME NEW id \in IdsOf(list), id # f.id PROVE At(new, id) = At(list, id)
    <2>1. CASE id \in IdsOf(a)
        BY <2>1, <1>7, <1>10
    <2>2. CASE id \in IdsOf(c)
        BY <2>2, <1>10
    <2> QED BY <2>1, <2>2
<1>13. ~Has(list, f.id)
    BY DEF Has
<1>14. PutIn(S, list, f, new)
    BY <1>10, <1>11, <1>12, <1>13, Zenon DEF PutIn
<1> QED BY <1>1, <1>5, <1>8, <1>14, Zenon

LEMMA InsertAtFacts ==
    ASSUME NEW S, NEW list \in Seq(S), Distinct(list), NEW f \in S, f.id \notin IdsOf(list),
           NEW at \in 1..(Len(list) + 1)
    PROVE  PutIn(S, list, f, InsertAt(list, at, f))
<1>1. PICK a : a = SubSeq(list, 1, at - 1)
    OBVIOUS
<1>2. PICK c : c = SubSeq(list, at, Len(list))
    OBVIOUS
<1>3. Len(list) \in Nat /\ DOMAIN list = 1..Len(list)
    OBVIOUS
<1>4. StretchOf(S, list, 1, at - 1, a)
    <2>1. 1 \in 1..(Len(list) + 1) /\ at - 1 \in 0..Len(list) /\ 1 <= (at - 1) + 1
        BY <1>3
    <2> QED BY <2>1, <1>1, SubSeqFacts
<1>5. StretchOf(S, list, at, Len(list), c)
    <2>1. Len(list) \in 0..Len(list) /\ at <= Len(list) + 1
        BY <1>3
    <2> QED BY <2>1, <1>2, SubSeqFacts
<1>6. IdsOf(a) \cap IdsOf(c) = {}
    <2> SUFFICES ASSUME NEW id \in IdsOf(a), id \in IdsOf(c) PROVE FALSE
        OBVIOUS
    <2>1. PICK i \in 1..(at - 1) : id = list[i].id
        BY <1>4 DEF StretchOf
    <2>2. PICK j \in at..Len(list) : id = list[j].id
        BY <1>5 DEF StretchOf
    <2>3. i \in DOMAIN list /\ j \in DOMAIN list
        BY <1>3
    <2>4. i = j
        BY <2>1, <2>2, <2>3 DEF Distinct
    <2> QED BY <2>4
<1>7. IdsOf(list) = IdsOf(a) \cup IdsOf(c)
    <2>1. \A i \in DOMAIN list : i \in 1..(at - 1) \/ i \in at..Len(list)
        BY <1>3
    <2>2. (\A i \in 1..(at - 1) : i \in DOMAIN list) /\ (\A i \in at..Len(list) : i \in DOMAIN list)
        BY <1>3
    <2>3. IdsOf(a) = {list[i].id : i \in 1..(at - 1)} /\ IdsOf(c) = {list[i].id : i \in at..Len(list)}
        BY <1>4, <1>5 DEF StretchOf
    <2> QED BY <2>1, <2>2, <2>3 DEF IdsOf
<1>8. PutIn(S, list, f, (a \o <<f>>) \o c)
    <2>1. a \in Seq(S) /\ Distinct(a) /\ \A id \in IdsOf(a) : At(a, id) = At(list, id)
        BY <1>4 DEF StretchOf
    <2>2. c \in Seq(S) /\ Distinct(c) /\ \A id \in IdsOf(c) : At(c, id) = At(list, id)
        BY <1>5 DEF StretchOf
    <2> QED BY <2>1, <2>2, <1>6, <1>7, JoinedPutIn
<1> QED BY <1>1, <1>2, <1>8, Zenon DEF InsertAt

LEMMA OverwriteFacts ==
    ASSUME NEW S, NEW list \in Seq(S), Distinct(list), NEW f \in S, NEW i \in DOMAIN list,
           list[i].id = f.id
    PROVE  PutIn(S, list, f, [list EXCEPT ![i] = f])
<1>1. PICK new : new = [list EXCEPT ![i] = f]
    OBVIOUS
<1>2. new \in Seq(S) /\ DOMAIN new = DOMAIN list /\ new[i] = f
      /\ \A j \in DOMAIN list : j # i => new[j] = list[j]
    BY <1>1
<1>3. \A j \in DOMAIN list : new[j].id = list[j].id
    BY <1>2
<1>4. IdsOf(new) = IdsOf(list) /\ Distinct(new)
      /\ \A id \in IdsOf(list) : IndexOf(new, id) = IndexOf(list, id)
    BY <1>2, <1>3, SamePlaces
<1>5. f.id \in IdsOf(list) /\ IndexOf(list, f.id) = i
    BY FoundThere
<1>6. At(new, f.id) = f
    BY <1>2, <1>4, <1>5 DEF At
<1>7. ASSUME NEW id \in IdsOf(list), id # f.id PROVE At(new, id) = At(list, id)
    <2>1. IndexOf(list, id) \in DOMAIN list /\ IndexOf(list, id) # i
        BY <1>7, Found
    <2> QED BY <2>1, <1>2, <1>4 DEF At
<1>8. IdsOf(new) = IdsOf(list) \cup {f.id}
    BY <1>4, <1>5
<1>9. PutIn(S, list, f, new)
    BY <1>2, <1>4, <1>6, <1>7, <1>8, Zenon DEF PutIn
<1> QED BY <1>1, <1>9, Zenon

LEMMA ReplacedFacts ==
    ASSUME NEW S, NEW list \in Seq(S), Distinct(list), NEW f \in S, NEW hint \in Int
    PROVE  PutIn(S, list, f, Replaced(list, f, hint))
<1>1. CASE Has(list, f.id)
    <2>1. PICK i \in DOMAIN list : i = IndexOf(list, f.id) /\ list[i].id = f.id
        BY <1>1, Found DEF Has
    <2>2. Replaced(list, f, hint) = [list EXCEPT ![i] = f]
        BY <1>1, <2>1, Zenon DEF Replaced
    <2>3. PutIn(S, list, f, [list EXCEPT ![i] = f])
        BY <2>1, OverwriteFacts
    <2> QED BY <2>2, <2>3, Zenon
<1>2. CASE ~Has(list, f.id) /\ hint \in 0..Len(list)
    <2>1. hint + 1 \in 1..(Len(list) + 1) /\ f.id \notin IdsOf(list)
        BY <1>2 DEF Has
    <2>2. Replaced(list, f, hint) = InsertAt(list, hint + 1, f)
        BY <1>2, Zenon DEF Replaced
    <2>3. PutIn(S, list, f, InsertAt(list, hint + 1, f))
        BY <2>1, InsertAtFacts
    <2> QED BY <2>2, <2>3, Zenon
<1>3. CASE ~Has(list, f.id) /\ hint \notin 0..Len(list)
    <2>1. Len(list) + 1 \in 1..(Len(list) + 1) /\ f.id \notin IdsOf(list)
        BY <1>3 DEF Has
    <2>2. Replaced(list, f, hint) = Append(list, f)
        BY <1>3 DEF Replaced
    <2>3. Append(list, f) = InsertAt(list, Len(list) + 1, f)
        <3>1. SubSeq(list, 1, (Len(list) + 1) - 1) = list
            OBVIOUS
        <3>2. SubSeq(list, Len(list) + 1, Len(list)) = <<>>
            OBVIOUS
        <3>3. (list \o <<f>>) \o <<>> = Append(list, f)
            OBVIOUS
        <3> QED BY <3>1, <3>2, <3>3 DEF InsertAt
    <2>4. PutIn(S, list, f, InsertAt(list, Len(list) + 1, f))
        BY <2>1, InsertAtFacts
    <2> QED BY <2>2, <2>3, <2>4, Zenon
<1> QED BY <1>1, <1>2, <1>3

(* A list without one of its features. *)
LEMMA WithoutFacts ==
    ASSUME NEW S, NEW list \in Seq(S), Distinct(list), NEW id
    PROVE  /\ PickedFrom(S, list, IdsOf(list) \ {id}, Without(list, id))
           /\ IdsOf(Without(list, id)) = IdsOf(list) \ {id}
<1>1. PickedFrom(S, list, IdsOf(list) \ {id}, Without(list, id))
    BY WithIdsFacts DEF Without
<1>2. IdsOf(Without(list, id)) = IdsOf(list) \cap (IdsOf(list) \ {id})
    BY <1>1 DEF PickedFrom
<1> QED BY <1>1, <1>2

-----------------------------------------------------------------------------
(* The resolution of conflicts *)

LEMMA PickTyped ==
    ASSUME NEW choice \in ResolveChoices, NEW T, NEW c, c.ours \in T, c.theirs \in T, c.base \in T,
           NEW custom \in T
    PROVE  Pick(c, choice, custom) \in T
BY DEF Pick, ResolveChoices

(* Choices that resolve conflicts. *)
Choosing(chosen) == \A k \in DOMAIN chosen : chosen[k] \in ResolveChoices

MineOf(f, conflicts, chosen) ==
    {c \in conflicts.param : c.id = f.id /\ Resolved(chosen, c.id, c.name)}

(* A feature in which the resolved conflicts have the value chosen, and    *)
(* nothing else is changed.                                                *)
ResolvedAs(f, conflicts, chosen, r) ==
    /\ r \in Features /\ r.id = f.id
    /\ \A n : (\A c \in MineOf(f, conflicts, chosen) : c.name # n) => Param(r, n) = Param(f, n)
    /\ \A c \in MineOf(f, conflicts, chosen) :
          \E d \in MineOf(f, conflicts, chosen) :
              d.name = c.name /\ Param(r, c.name) = Pick(d, chosen[<<f.id, c.name>>], CustomValue)
    /\ Among(conflicts.type, f, chosen) = {} => r.type = f.type
    /\ Among(conflicts.type, f, chosen) # {} =>
          \E c \in Among(conflicts.type, f, chosen) :
              r.type = Pick(c, chosen[<<f.id, NoName>>], CustomType)
    /\ Among(conflicts.suppression, f, chosen) = {} => r.suppressed = f.suppressed
    /\ Among(conflicts.suppression, f, chosen) # {} =>
          \E c \in Among(conflicts.suppression, f, chosen) :
              r.suppressed = Pick(c, chosen[<<f.id, NoName>>], TRUE)

ParamsAs(f, conflicts, chosen, names, params) ==
    /\ params \in [DOMAIN f.params \cup names -> Values]
    /\ ResolvedParams(f, conflicts, chosen) = params
    /\ names = {c.name : c \in MineOf(f, conflicts, chosen)}
    /\ \A n \in DOMAIN f.params : n \notin names => params[n] = f.params[n]
    /\ \A n \in names :
          \E d \in MineOf(f, conflicts, chosen) :
              d.name = n /\ params[n] = Pick(d, chosen[<<f.id, n>>], CustomValue)

LEMMA ResolvedParamsFacts ==
    ASSUME NEW f \in Features, NEW conflicts \in ConflictSets, NEW chosen, Choosing(chosen)
    PROVE  \E names \in SUBSET Names : \E params : ParamsAs(f, conflicts, chosen, names, params)
<1> DEFINE mine == MineOf(f, conflicts, chosen)
           names == {c.name : c \in mine}
           conflictOn(n) == CHOOSE c \in mine : c.name = n
           picked(n) == Pick(conflictOn(n), chosen[<<f.id, n>>], CustomValue)
           params == [n \in DOMAIN f.params \cup names |->
                         IF n \in names THEN picked(n) ELSE f.params[n]]
<1>1. ResolvedParams(f, conflicts, chosen) = params
    BY DEF ResolvedParams, MineOf
<1> HIDE DEF mine, names, conflictOn, picked, params
<1>2. \A c \in mine : /\ c \in ParamConflictsOf /\ c.name \in Names /\ c.ours \in Values
                      /\ c.theirs \in Values /\ c.base \in Values
                      /\ <<f.id, c.name>> \in DOMAIN chosen
    BY DEF mine, MineOf, ConflictSets, ParamConflictsOf, Resolved
<1>3. names \in SUBSET Names
    BY <1>2 DEF names
<1>4. ASSUME NEW n \in names PROVE conflictOn(n) \in mine /\ conflictOn(n).name = n
    <2>1. \E c \in mine : c.name = n
        BY <1>4 DEF names
    <2> QED BY <2>1 DEF conflictOn
<1>5. ASSUME NEW n \in names PROVE picked(n) \in Values
    <2>1. PICK c \in mine : c = conflictOn(n) /\ c.name = n
        BY <1>4
    <2>2. chosen[<<f.id, n>>] \in ResolveChoices
        BY <2>1, <1>2 DEF Choosing
    <2>3. Pick(c, chosen[<<f.id, n>>], CustomValue) \in Values
        BY <1>2, <2>2, MergeAssumption, PickTyped
    <2> QED BY <2>1, <2>3 DEF picked
<1>6. \A n \in DOMAIN f.params : f.params[n] \in Values
    BY FeatureFields
<1>7. params \in [DOMAIN f.params \cup names -> Values]
    BY <1>5, <1>6 DEF params
<1>9. names = {c.name : c \in MineOf(f, conflicts, chosen)}
    BY DEF names, mine
<1>10. \A n \in DOMAIN f.params : n \notin names => params[n] = f.params[n]
    BY DEF params
<1>11. ASSUME NEW n \in names
       PROVE  \E d \in MineOf(f, conflicts, chosen) :
                 d.name = n /\ params[n] = Pick(d, chosen[<<f.id, n>>], CustomValue)
    <2>1. params[n] = picked(n)
        BY DEF params
    <2>2. conflictOn(n) \in MineOf(f, conflicts, chosen) /\ conflictOn(n).name = n
        BY <1>4 DEF mine
    <2> QED BY <2>1, <2>2 DEF picked
<1>12. ParamsAs(f, conflicts, chosen, names, params)
    BY <1>1, <1>7, <1>9, <1>10, <1>11, Zenon DEF ParamsAs
<1> QED BY <1>3, <1>12, Zenon

LEMMA ResolvedFeatureFacts ==
    ASSUME NEW f \in Features, NEW conflicts \in ConflictSets, NEW chosen, Choosing(chosen)
    PROVE  ResolvedAs(f, conflicts, chosen, ResolvedFeature(f, conflicts, chosen))
<1>0. PICK names \in SUBSET Names : \E params : ParamsAs(f, conflicts, chosen, names, params)
    BY ResolvedParamsFacts
<1>1. PICK params :
          /\ params \in [DOMAIN f.params \cup names -> Values]
          /\ ResolvedParams(f, conflicts, chosen) = params
          /\ names = {c.name : c \in MineOf(f, conflicts, chosen)}
          /\ \A n \in DOMAIN f.params : n \notin names => params[n] = f.params[n]
          /\ \A n \in names :
                \E d \in MineOf(f, conflicts, chosen) :
                    d.name = n /\ params[n] = Pick(d, chosen[<<f.id, n>>], CustomValue)
    BY <1>0, Zenon DEF ParamsAs
<1>2. PICK typed : typed = Among(conflicts.type, f, chosen)
    OBVIOUS
<1>3. PICK flagged : flagged = Among(conflicts.suppression, f, chosen)
    OBVIOUS
<1>4. PICK choice : choice = chosen[<<f.id, NoName>>]
    OBVIOUS
<1>5. \A c \in typed : /\ c.ours \in Types \cup {Empty} /\ c.theirs \in Types \cup {Empty}
                       /\ c.base \in Types \cup {Empty} /\ choice \in ResolveChoices
    BY <1>2, <1>4 DEF Among, ConflictSets, TypeConflictsOf, Choosing, Resolved
<1>6. \A c \in flagged : /\ c.ours \in BOOLEAN /\ c.theirs \in BOOLEAN /\ c.base \in BOOLEAN
                         /\ choice \in ResolveChoices
    BY <1>3, <1>4 DEF Among, ConflictSets, SuppressionConflictsOf, Choosing, Resolved
<1>7. PICK type \in Types \cup {Empty} :
          type = IF typed = {} THEN f.type ELSE Pick(CHOOSE c \in typed : TRUE, choice, CustomType)
    <2>1. CASE typed = {}
        BY <2>1, FeatureFields
    <2>2. CASE typed # {}
        <3>1. PICK c \in typed : c = CHOOSE d \in typed : TRUE
            BY <2>2
        <3>2. CustomType \in Types \cup {Empty}
            BY MergeAssumption
        <3>3. Pick(c, choice, CustomType) \in Types \cup {Empty}
            BY <1>5, <3>2, PickTyped
        <3> QED BY <2>2, <3>1, <3>3
    <2> QED BY <2>1, <2>2
<1>8. PICK flag \in BOOLEAN :
          flag = IF flagged = {} THEN f.suppressed ELSE Pick(CHOOSE c \in flagged : TRUE, choice, TRUE)
    <2>1. CASE flagged = {}
        BY <2>1, FeatureFields
    <2>2. CASE flagged # {}
        <3>1. PICK c \in flagged : c = CHOOSE d \in flagged : TRUE
            BY <2>2
        <3>2. Pick(c, choice, TRUE) \in BOOLEAN
            <4>1. PICK B : B = BOOLEAN
                OBVIOUS
            <4>2. c.ours \in B /\ c.theirs \in B /\ c.base \in B /\ choice \in ResolveChoices
                BY <1>6, <4>1, Zenon
            <4>3. TRUE \in B
                BY <4>1
            <4>4. Pick(c, choice, TRUE) \in B
                BY <4>2, <4>3, PickTyped, Zenon
            <4> QED BY <4>1, <4>4, Zenon
        <3> QED BY <2>2, <3>1, <3>2
    <2> QED BY <2>1, <2>2
<1>9. PICK r : r = ResolvedFeature(f, conflicts, chosen)
    OBVIOUS
<1>10. r = [f EXCEPT !.params = params, !.type = type, !.suppressed = flag]
    BY <1>1, <1>2, <1>3, <1>4, <1>7, <1>8, <1>9 DEF ResolvedFeature
<1>11. r.id = f.id /\ r.params = params /\ r.type = type /\ r.suppressed = flag
       /\ r = [id |-> f.id, type |-> type, suppressed |-> flag, params |-> params]
    BY <1>10 DEF Features
<1>12. r \in Features
    <2>1. DOMAIN f.params \cup names \in SUBSET Names /\ f.id \in Ids
        BY FeatureFields
    <2> QED BY <2>1, <1>1, <1>7, <1>8, <1>11, FeatureMade
<1>13. ASSUME NEW n, \A c \in MineOf(f, conflicts, chosen) : c.name # n
       PROVE  Param(r, n) = Param(f, n)
    <2>1. n \notin names
        BY <1>1, <1>13
    <2> QED BY <2>1, <1>1, <1>11 DEF Param
<1>14. ASSUME NEW c \in MineOf(f, conflicts, chosen)
       PROVE  \E d \in MineOf(f, conflicts, chosen) :
              d.name = c.name /\ Param(r, c.name) = Pick(d, chosen[<<f.id, c.name>>], CustomValue)
    <2>1. PICK n \in names : n = c.name
        BY <1>1
    <2>2. Param(r, n) = params[n]
        BY <1>1, <1>11 DEF Param
    <2> QED BY <2>1, <2>2, <1>1
<1>15. /\ typed = {} => r.type = f.type
       /\ typed # {} => \E c \in typed : r.type = Pick(c, choice, CustomType)
    BY <1>7, <1>11
<1>16. /\ flagged = {} => r.suppressed = f.suppressed
       /\ flagged # {} => \E c \in flagged : r.suppressed = Pick(c, choice, TRUE)
    BY <1>8, <1>11
<1>17. ResolvedAs(f, conflicts, chosen, r)
    BY <1>2, <1>3, <1>4, <1>11, <1>12, <1>13, <1>14, <1>15, <1>16, Zenon DEF ResolvedAs
<1> QED BY <1>9, <1>17, Zenon

(* The lists of features of distinct ids *)
Trees == {list \in Seq(Features) : Distinct(list)}

(* The contents resolved: the same features in the same places. *)
ContentsAs(list, conflicts, chosen, start) ==
    /\ start \in Trees /\ IdsOf(start) = IdsOf(list)
    /\ \A id \in IdsOf(list) : /\ At(start, id) = ResolvedFeature(At(list, id), conflicts, chosen)
                               /\ IndexOf(start, id) = IndexOf(list, id)

LEMMA ContentsFacts ==
    ASSUME NEW list \in Trees, NEW conflicts \in ConflictSets, NEW chosen, Choosing(chosen)
    PROVE  ContentsAs(list, conflicts, chosen,
                      [i \in DOMAIN list |-> ResolvedFeature(list[i], conflicts, chosen)])
<1>1. PICK start : start = [i \in DOMAIN list |-> ResolvedFeature(list[i], conflicts, chosen)]
    OBVIOUS
<1>2. list \in Seq(Features) /\ Distinct(list)
    BY DEF Trees
<1>3. ASSUME NEW i \in DOMAIN list PROVE start[i] \in Features /\ start[i].id = list[i].id
    <2>1. list[i] \in Features
        BY <1>2
    <2>2. ResolvedAs(list[i], conflicts, chosen, start[i])
        BY <1>1, <2>1, ResolvedFeatureFacts
    <2> QED BY <2>2, Zenon DEF ResolvedAs
<1>4. start \in Seq(Features) /\ DOMAIN start = DOMAIN list
    BY <1>1, <1>2, <1>3
<1>5. IdsOf(start) = IdsOf(list) /\ Distinct(start)
      /\ \A id \in IdsOf(list) : IndexOf(start, id) = IndexOf(list, id)
    BY <1>2, <1>3, <1>4, SamePlaces
<1>6. ASSUME NEW id \in IdsOf(list)
      PROVE  At(start, id) = ResolvedFeature(At(list, id), conflicts, chosen)
    <2>1. PICK i \in DOMAIN list : i = IndexOf(list, id)
        BY <1>2, Found
    <2> QED BY <2>1, <1>1, <1>5 DEF At
<1>7. ContentsAs(list, conflicts, chosen, start)
    BY <1>4, <1>5, <1>6 DEF ContentsAs, Trees
<1> QED BY <1>1, <1>7, Zenon

(* What a choice for an add/remove conflict says of the feature. *)
Decided(list, c, choice) ==
    IF choice \in {"Base", "Custom"} THEN Has(list, c.id) /\ At(list, c.id) = c.base
    ELSE IF (choice = "Ours") = c.oursRemoved THEN ~Has(list, c.id)
    ELSE Has(list, c.id) /\ At(list, c.id) = c.modified

(* The conflict of one feature decided: the others are as they were, and   *)
(* where the feature was there no place was made for it.                   *)
DecidedFrom(list, c, choice, new) ==
    /\ new \in Trees
    /\ IdsOf(new) \subseteq IdsOf(list) \cup {c.id} /\ IdsOf(list) \subseteq IdsOf(new) \cup {c.id}
    /\ \A id \in IdsOf(list) : id # c.id => At(new, id) = At(list, id)
    /\ Decided(new, c, choice)
    /\ Has(list, c.id) =>
          \A x, y \in IdsOf(new) :
             IndexOf(new, x) < IndexOf(new, y) <=> IndexOf(list, x) < IndexOf(list, y)

LEMMA PutInDecides ==
    ASSUME NEW list \in Trees, NEW f \in Features, NEW new, PutIn(Features, list, f, new)
    PROVE  /\ new \in Trees /\ Has(new, f.id) /\ At(new, f.id) = f
           /\ IdsOf(new) = IdsOf(list) \cup {f.id}
           /\ \A id \in IdsOf(list) : id # f.id => At(new, id) = At(list, id)
           /\ Has(list, f.id) =>
                \A x, y \in IdsOf(new) :
                   IndexOf(new, x) < IndexOf(new, y) <=> IndexOf(list, x) < IndexOf(list, y)
<1>1. /\ new \in Trees /\ IdsOf(new) = IdsOf(list) \cup {f.id} /\ At(new, f.id) = f
      /\ \A id \in IdsOf(list) : id # f.id => At(new, id) = At(list, id)
    BY DEF PutIn, Trees
<1>2. Has(new, f.id)
    BY <1>1 DEF Has
<1>3. ASSUME Has(list, f.id), NEW x \in IdsOf(new), NEW y \in IdsOf(new)
      PROVE  IndexOf(new, x) < IndexOf(new, y) <=> IndexOf(list, x) < IndexOf(list, y)
    <2>1. x \in IdsOf(list) /\ y \in IdsOf(list)
        BY <1>1, <1>3 DEF Has
    <2>2. IndexOf(new, x) = IndexOf(list, x) /\ IndexOf(new, y) = IndexOf(list, y)
        BY <2>1, <1>3, Zenon DEF PutIn
    <2> QED BY <2>2, Zenon
<1> QED BY <1>1, <1>2, <1>3

LEMMA AddRemoveResolvedFacts ==
    ASSUME NEW list \in Trees, NEW c \in AddRemoves, c.base.id = c.id, c.modified.id = c.id,
           NEW choice \in ResolveChoices
    PROVE  DecidedFrom(list, c, choice, AddRemoveResolved(list, c, choice))
<1>1. c.base \in Features /\ c.modified \in Features /\ c.insertIndexHint \in Int
      /\ c.oursRemoved \in BOOLEAN
    BY DEF AddRemoves
<1>2. list \in Seq(Features) /\ Distinct(list)
    BY DEF Trees
<1>3. PICK new : new = AddRemoveResolved(list, c, choice)
    OBVIOUS
<1>4. CASE choice \in {"Base", "Custom"}
    <2>1. new = Replaced(list, c.base, c.insertIndexHint)
        BY <1>3, <1>4, Zenon DEF AddRemoveResolved
    <2>2. PutIn(Features, list, c.base, new)
        BY <2>1, <1>1, <1>2, ReplacedFacts
    <2>3. Decided(new, c, choice)
        BY <1>4, <2>2, <1>1, PutInDecides DEF Decided
    <2> QED BY <2>2, <2>3, <1>1, <1>3, PutInDecides DEF DecidedFrom
<1>5. CASE choice \notin {"Base", "Custom"} /\ (choice = "Ours") # c.oursRemoved
    <2>1. new = Replaced(list, c.modified, c.insertIndexHint)
        BY <1>3, <1>5, Zenon DEF AddRemoveResolved
    <2>2. PutIn(Features, list, c.modified, new)
        BY <2>1, <1>1, <1>2, ReplacedFacts
    <2>3. Decided(new, c, choice)
        BY <1>5, <2>2, <1>1, PutInDecides DEF Decided
    <2> QED BY <2>2, <2>3, <1>1, <1>3, PutInDecides DEF DecidedFrom
<1>6. CASE choice \notin {"Base", "Custom"} /\ (choice = "Ours") = c.oursRemoved
    <2>1. new = Without(list, c.id)
        BY <1>3, <1>6, Zenon DEF AddRemoveResolved
    <2>2. IdsOf(new) = IdsOf(list) \ {c.id} /\ PickedFrom(Features, list, IdsOf(list) \ {c.id}, new)
        BY <2>1, <1>2, WithoutFacts
    <2>3. Decided(new, c, choice)
        BY <1>6, <2>2 DEF Decided, Has
    <2>4. new \in Trees /\ (\A id \in IdsOf(new) : At(new, id) = At(list, id))
        BY <2>2 DEF PickedFrom, Trees
    <2>5. \A x, y \in IdsOf(new) :
             IndexOf(new, x) < IndexOf(new, y) <=> IndexOf(list, x) < IndexOf(list, y)
        BY <2>2, Zenon DEF PickedFrom
    <2>6. /\ IdsOf(new) \subseteq IdsOf(list) \cup {c.id} /\ IdsOf(list) \subseteq IdsOf(new) \cup {c.id}
          /\ \A id \in IdsOf(list) : id # c.id => At(new, id) = At(list, id)
        BY <2>2, <2>4
    <2>7. DecidedFrom(list, c, choice, new)
        BY <2>3, <2>4, <2>5, <2>6, Zenon DEF DecidedFrom
    <2> QED BY <1>3, <2>7, Zenon
<1> QED BY <1>4, <1>5, <1>6

LEMMA SettledTyped ==
    ASSUME NEW list \in Trees, NEW c \in AddRemoves, c.base.id = c.id, c.modified.id = c.id,
           NEW chosen, Choosing(chosen)
    PROVE  Settled(list, c, chosen) \in Trees
<1>1. CASE Resolved(chosen, c.id, NoName)
    <2>1. PICK choice \in ResolveChoices : choice = chosen[<<c.id, NoName>>]
        BY <1>1 DEF Choosing, Resolved
    <2>2. DecidedFrom(list, c, choice, AddRemoveResolved(list, c, choice))
        BY AddRemoveResolvedFacts
    <2>3. AddRemoveResolved(list, c, choice) \in Trees
        BY <2>2, Zenon DEF DecidedFrom
    <2> QED BY <1>1, <2>1, <2>3, Zenon DEF Settled
<1>2. CASE ~Resolved(chosen, c.id, NoName)
    BY <1>2, Zenon DEF Settled
<1> QED BY <1>1, <1>2

(* The records of add/remove conflicts name one feature each. *)
Recording(list) ==
    \A i \in DOMAIN list : list[i].base.id = list[i].id /\ list[i].modified.id = list[i].id

(* The lists on the way: the contents, then one conflict after the other. *)
SettledUpTo(start, list, chosen, settled) ==
    /\ settled[0] = start
    /\ \A n \in 1..Len(list) : settled[n] = Settled(settled[n - 1], list[n], chosen)

LEMMA ApplyResolutionsIsMade ==
    ASSUME NEW list \in Trees, NEW conflicts \in ConflictSets, Recording(conflicts.addRemove),
           NEW chosen, Choosing(chosen),
           NEW start, start = [i \in DOMAIN list |-> ResolvedFeature(list[i], conflicts, chosen)]
    PROVE  \E settled \in [0..Len(conflicts.addRemove) -> Trees] :
              /\ SettledUpTo(start, conflicts.addRemove, chosen, settled)
              /\ ApplyResolutions(list, conflicts, chosen) = settled[Len(conflicts.addRemove)]
<1>1. PICK all \in Seq(AddRemoves) : all = conflicts.addRemove
    BY DEF ConflictSets
<1>2. PICK top \in Nat : top = Len(all) /\ DOMAIN all = 1..top
    BY <1>1
<1> DEFINE step == [n \in 1..top |-> [l \in Trees |-> Settled(l, all[n], chosen)]]
           solves(h) == h = [n \in 0..top |-> IF n = 0 THEN start
                                              ELSE Settled(h[n - 1], all[n], chosen)]
<1>3. start \in Trees
    BY ContentsFacts DEF ContentsAs
<1>4. ASSUME NEW n \in 1..top, NEW l \in Trees PROVE Settled(l, all[n], chosen) \in Trees
    <2>1. PICK c \in AddRemoves : c = all[n] /\ c.base.id = c.id /\ c.modified.id = c.id
        BY <1>1, <1>2 DEF Recording
    <2> QED BY <2>1, SettledTyped
<1>5. step \in [1..top -> [Trees -> Trees]]
    BY <1>4
<1>6. PICK made \in [0..top -> Trees] : MadeUpTo(top, made, start, step)
    <2> HIDE DEF step
    <2> QED BY <1>3, <1>5, StepsExist
<1>7. solves(made)
    <2>1. ASSUME NEW n \in 0..top
          PROVE  made[n] = IF n = 0 THEN start ELSE Settled(made[n - 1], all[n], chosen)
        <3>1. CASE n = 0
            BY <3>1, <1>6 DEF MadeUpTo
        <3>2. CASE n # 0
            <4>1. n \in 1..top /\ n - 1 \in 0..top
                BY <3>2
            <4>2. made[n - 1] \in Trees
                BY <4>1
            <4>3. made[n] = step[n][made[n - 1]]
                BY <4>1, <1>6 DEF MadeUpTo
            <4>4. step[n] = [l \in Trees |-> Settled(l, all[n], chosen)]
                BY <4>1
            <4>5. step[n][made[n - 1]] = Settled(made[n - 1], all[n], chosen)
                BY <4>2, <4>4
            <4> QED BY <3>2, <4>3, <4>5
        <3> QED BY <3>1, <3>2
    <2> HIDE DEF step
    <2> QED BY <2>1
<1>8. PICK settled : solves(settled) /\ ApplyResolutions(list, conflicts, chosen) = settled[top]
    <2> DEFINE k == CHOOSE h : solves(h)
    <2>1. ApplyResolutions(list, conflicts, chosen) = k[top]
        BY <1>1, <1>2 DEF ApplyResolutions
    <2>2. solves(k)
        <3> HIDE DEF solves
        <3> QED BY <1>7
    <2> HIDE DEF k, solves
    <2> QED BY <2>1, <2>2
<1> HIDE DEF step
<1>9. settled = [n \in 0..top |-> settled[n]]
    BY <1>8
<1>10. SettledUpTo(start, all, chosen, settled)
    <2>1. ASSUME NEW n \in 0..top
          PROVE  settled[n] = IF n = 0 THEN start ELSE Settled(settled[n - 1], all[n], chosen)
        BY <1>8, Zenon
    <2>2. settled[0] = start
        BY <2>1, <1>2
    <2>3. ASSUME NEW n \in 1..top PROVE settled[n] = Settled(settled[n - 1], all[n], chosen)
        <3>1. n \in 0..top /\ n # 0
            OBVIOUS
        <3> QED BY <3>1, <2>1, Zenon
    <2> QED BY <2>2, <2>3, <1>2 DEF SettledUpTo
<1>11. \A n \in 0..top : settled[n] \in Trees
    <2> DEFINE T == {n \in 0..top : settled[n] \in Trees}
    <2>1. 0 \in T
        BY <1>3, <1>10 DEF SettledUpTo
    <2>2. ASSUME NEW n \in 1..top, n - 1 \in T PROVE n \in T
        <3>1. settled[n - 1] \in Trees /\ n \in 0..top
            BY <2>2
        <3>2. settled[n] = Settled(settled[n - 1], all[n], chosen)
            BY <1>2, <1>10 DEF SettledUpTo
        <3>3. Settled(settled[n - 1], all[n], chosen) \in Trees
            BY <3>1, <1>4
        <3> QED BY <3>1, <3>2, <3>3
    <2>3. 0..top \subseteq T
        <3> HIDE DEF T
        <3> QED BY <2>1, <2>2, UpTo
    <2> QED BY <2>3
<1>12. settled \in [0..top -> Trees]
    BY <1>9, <1>11
<1> QED BY <1>1, <1>2, <1>8, <1>10, <1>12

LEMMA ApplyResolutionsTyped ==
    ASSUME NEW list \in Trees, NEW conflicts \in ConflictSets, Recording(conflicts.addRemove),
           NEW chosen, Choosing(chosen)
    PROVE  ApplyResolutions(list, conflicts, chosen) \in Trees
<1>1. PICK top \in Nat : top = Len(conflicts.addRemove)
    BY DEF ConflictSets
<1>2. PICK settled \in [0..top -> Trees] : ApplyResolutions(list, conflicts, chosen) = settled[top]
    BY <1>1, ApplyResolutionsIsMade
<1> QED BY <1>2

(* What the first n decisions leave of a tree whose features the conflicts are about. *)
SettledAs(list, conflicts, chosen, n, new) ==
    /\ new \in Trees /\ IdsOf(new) \subseteq IdsOf(list)
    /\ \A x, y \in IdsOf(new) :
          IndexOf(new, x) < IndexOf(new, y) <=> IndexOf(list, x) < IndexOf(list, y)
    /\ \A id \in IdsOf(list) :
          (\A j \in 1..n : conflicts.addRemove[j].id = id => ~Resolved(chosen, id, NoName)) =>
             Has(new, id) /\ At(new, id) = ResolvedFeature(At(list, id), conflicts, chosen)
    /\ \A j \in 1..n :
          LET c == conflicts.addRemove[j]
          IN  Resolved(chosen, c.id, NoName) => Decided(new, c, chosen[<<c.id, NoName>>])

LEMMA SettledOneMore ==
    ASSUME NEW list \in Trees, NEW conflicts \in ConflictSets, Recording(conflicts.addRemove),
           Distinct(conflicts.addRemove), IdsOf(conflicts.addRemove) \subseteq IdsOf(list),
           NEW chosen, Choosing(chosen), NEW n \in 1..Len(conflicts.addRemove),
           NEW l, SettledAs(list, conflicts, chosen, n - 1, l),
           NEW new, new = Settled(l, conflicts.addRemove[n], chosen)
    PROVE  SettledAs(list, conflicts, chosen, n, new)
<1>1. PICK all \in Seq(AddRemoves) : all = conflicts.addRemove
    BY DEF ConflictSets
<1>2. PICK top \in Nat : top = Len(all) /\ DOMAIN all = 1..top /\ n \in 1..top
    BY <1>1
<1>3. PICK c \in AddRemoves : c = all[n] /\ c.base.id = c.id /\ c.modified.id = c.id
                              /\ c.id \in IdsOf(list)
    BY <1>1, <1>2, FoundThere DEF Recording
<1>4. \A j \in 1..n : j # n => j \in 1..(n - 1)
    BY <1>2
<1>5. \A j \in 1..(n - 1) : all[j].id # c.id
    <2> TAKE j \in 1..(n - 1)
    <2>1. j \in DOMAIN all /\ n \in DOMAIN all /\ j # n
        BY <1>2
    <2> QED BY <2>1, <1>1, <1>3 DEF Distinct
<1>6. /\ l \in Trees /\ IdsOf(l) \subseteq IdsOf(list)
      /\ \A x, y \in IdsOf(l) : IndexOf(l, x) < IndexOf(l, y) <=> IndexOf(list, x) < IndexOf(list, y)
    BY Zenon DEF SettledAs
<1>7. ASSUME NEW id \in IdsOf(list),
             \A j \in 1..(n - 1) : all[j].id = id => ~Resolved(chosen, id, NoName)
      PROVE  Has(l, id) /\ At(l, id) = ResolvedFeature(At(list, id), conflicts, chosen)
    BY <1>1, <1>7, Zenon DEF SettledAs
<1>8. ASSUME NEW j \in 1..(n - 1), Resolved(chosen, all[j].id, NoName)
      PROVE  Decided(l, all[j], chosen[<<all[j].id, NoName>>])
    BY <1>1, <1>8, Zenon DEF SettledAs
<1>9. new = Settled(l, c, chosen)
    BY <1>1, <1>3
<1>10. CASE ~Resolved(chosen, c.id, NoName)
    <2>1. new = l
        BY <1>9, <1>10, Zenon DEF Settled
    <2>2. ASSUME NEW id \in IdsOf(list),
                 \A j \in 1..n : all[j].id = id => ~Resolved(chosen, id, NoName)
          PROVE  Has(new, id) /\ At(new, id) = ResolvedFeature(At(list, id), conflicts, chosen)
        <3>1. \A j \in 1..(n - 1) : j \in 1..n
            BY <1>2
        <3> QED BY <3>1, <2>1, <2>2, <1>7
    <2>3. ASSUME NEW j \in 1..n, Resolved(chosen, all[j].id, NoName)
          PROVE  Decided(new, all[j], chosen[<<all[j].id, NoName>>])
        <3>1. j # n
            BY <1>3, <1>10, <2>3
        <3> QED BY <3>1, <1>4, <1>8, <2>1, <2>3
    <2> QED BY <1>1, <1>6, <2>1, <2>2, <2>3, Zenon DEF SettledAs
<1>11. CASE Resolved(chosen, c.id, NoName)
    <2>1. PICK choice \in ResolveChoices : choice = chosen[<<c.id, NoName>>]
        BY <1>11 DEF Choosing, Resolved
    <2>2. new = AddRemoveResolved(l, c, choice)
        BY <1>9, <1>11, <2>1, Zenon DEF Settled
    <2>3. DecidedFrom(l, c, choice, new)
        BY <2>2, <1>3, <1>6, AddRemoveResolvedFacts
    <2>4. Has(l, c.id)
        BY <1>3, <1>5, <1>7
    <2>5. /\ new \in Trees /\ IdsOf(new) \subseteq IdsOf(l) \cup {c.id}
          /\ IdsOf(l) \subseteq IdsOf(new) \cup {c.id}
          /\ (\A id \in IdsOf(l) : id # c.id => At(new, id) = At(l, id))
          /\ Decided(new, c, choice)
        BY <2>3, Zenon DEF DecidedFrom
    <2>6. IdsOf(new) \subseteq IdsOf(l) /\ IdsOf(new) \subseteq IdsOf(list)
        BY <2>4, <2>5, <1>6 DEF Has
    <2>7. ASSUME NEW x \in IdsOf(new), NEW y \in IdsOf(new)
          PROVE  IndexOf(new, x) < IndexOf(new, y) <=> IndexOf(list, x) < IndexOf(list, y)
        <3>1. IndexOf(new, x) < IndexOf(new, y) <=> IndexOf(l, x) < IndexOf(l, y)
            BY <2>3, <2>4, Zenon DEF DecidedFrom
        <3>2. IndexOf(l, x) < IndexOf(l, y) <=> IndexOf(list, x) < IndexOf(list, y)
            BY <2>6, <1>6
        <3> QED BY <3>1, <3>2
    <2>8. \A id \in IdsOf(l) : id # c.id => Has(new, id) /\ At(new, id) = At(l, id)
        BY <2>5 DEF Has
    <2>9. ASSUME NEW id \in IdsOf(list),
                 \A j \in 1..n : all[j].id = id => ~Resolved(chosen, id, NoName)
          PROVE  Has(new, id) /\ At(new, id) = ResolvedFeature(At(list, id), conflicts, chosen)
        <3>1. \A j \in 1..(n - 1) : j \in 1..n
            BY <1>2
        <3>2. id # c.id
            BY <2>9, <1>2, <1>3, <1>11
        <3>3. Has(l, id) /\ At(l, id) = ResolvedFeature(At(list, id), conflicts, chosen)
            BY <3>1, <2>9, <1>7
        <3> QED BY <3>2, <3>3, <2>8 DEF Has
    <2>10. ASSUME NEW j \in 1..n, Resolved(chosen, all[j].id, NoName)
           PROVE  Decided(new, all[j], chosen[<<all[j].id, NoName>>])
        <3>1. CASE j = n
            BY <3>1, <2>1, <2>5, <1>3
        <3>2. CASE j # n
            <4>1. j \in 1..(n - 1) /\ all[j].id # c.id
                BY <3>2, <1>4, <1>5
            <4>2. Decided(l, all[j], chosen[<<all[j].id, NoName>>])
                BY <4>1, <2>10, <1>8
            <4>3. Has(new, all[j].id) <=> Has(l, all[j].id)
                BY <4>1, <2>6, <2>8 DEF Has
            <4>4. Has(l, all[j].id) => At(new, all[j].id) = At(l, all[j].id)
                BY <4>1, <2>8 DEF Has
            <4> QED BY <4>2, <4>3, <4>4, Zenon DEF Decided
        <3> QED BY <3>1, <3>2
    <2> QED BY <1>1, <2>5, <2>6, <2>7, <2>9, <2>10, Zenon DEF SettledAs
<1> QED BY <1>10, <1>11

LEMMA ApplyResolutionsFacts ==
    ASSUME NEW list \in Trees, NEW conflicts \in ConflictSets, Recording(conflicts.addRemove),
           Distinct(conflicts.addRemove), IdsOf(conflicts.addRemove) \subseteq IdsOf(list),
           NEW chosen, Choosing(chosen)
    PROVE  SettledAs(list, conflicts, chosen, Len(conflicts.addRemove),
                     ApplyResolutions(list, conflicts, chosen))
<1>1. PICK top \in Nat : top = Len(conflicts.addRemove)
    BY DEF ConflictSets
<1>2. PICK start : start = [i \in DOMAIN list |-> ResolvedFeature(list[i], conflicts, chosen)]
    OBVIOUS
<1>3. PICK settled \in [0..top -> Trees] :
          /\ SettledUpTo(start, conflicts.addRemove, chosen, settled)
          /\ ApplyResolutions(list, conflicts, chosen) = settled[top]
    BY <1>1, <1>2, ApplyResolutionsIsMade
<1> DEFINE T == {n \in 0..top : SettledAs(list, conflicts, chosen, n, settled[n])}
<1>4. 0 \in T
    <2>1. settled[0] = start
        BY <1>3, Zenon DEF SettledUpTo
    <2>2. ContentsAs(list, conflicts, chosen, start)
        BY <1>2, ContentsFacts
    <2>3. start \in Trees /\ IdsOf(start) = IdsOf(list)
          /\ (\A id \in IdsOf(list) : /\ At(start, id) = ResolvedFeature(At(list, id), conflicts, chosen)
                                      /\ IndexOf(start, id) = IndexOf(list, id))
        BY <2>2, Zenon DEF ContentsAs
    <2>4. ASSUME NEW x \in IdsOf(start), NEW y \in IdsOf(start)
          PROVE  IndexOf(start, x) < IndexOf(start, y) <=> IndexOf(list, x) < IndexOf(list, y)
        <3>1. IndexOf(start, x) = IndexOf(list, x) /\ IndexOf(start, y) = IndexOf(list, y)
            BY <2>3
        <3> QED BY <3>1, Zenon
    <2>5. \A id \in IdsOf(list) :
             Has(start, id) /\ At(start, id) = ResolvedFeature(At(list, id), conflicts, chosen)
        BY <2>3 DEF Has
    <2>6. \A j \in 1..0 : FALSE
        OBVIOUS
    <2>7. IdsOf(start) \subseteq IdsOf(list)
        BY <2>3
    <2>8. SettledAs(list, conflicts, chosen, 0, start)
        BY <2>3, <2>4, <2>5, <2>6, <2>7, Zenon DEF SettledAs
    <2> QED BY <2>1, <2>8
<1>5. ASSUME NEW n \in 1..top, n - 1 \in T PROVE n \in T
    <2>1. settled[n] = Settled(settled[n - 1], conflicts.addRemove[n], chosen)
        BY <1>1, <1>3 DEF SettledUpTo
    <2>2. SettledAs(list, conflicts, chosen, n - 1, settled[n - 1])
        BY <1>5
    <2>3. SettledAs(list, conflicts, chosen, n, settled[n])
        BY <2>1, <2>2, <1>1, SettledOneMore
    <2> QED BY <2>3
<1>6. 0..top \subseteq T
    <2> HIDE DEF T
    <2> QED BY <1>4, <1>5, UpTo
<1>7. SettledAs(list, conflicts, chosen, top, settled[top])
    BY <1>6
<1> QED BY <1>1, <1>3, <1>7

=============================================================================
