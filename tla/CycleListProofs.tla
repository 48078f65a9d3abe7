--------------------------- MODULE CycleListProofs ----------------------------
(***************************************************************************)
(* Proofs about the pointer list, for every set of elements.               *)
(*                                                                         *)
(* Spine(s) says what the links of both directions are when the list is    *)
(* the sequence s of different elements.  Each operation turns the spine   *)
(* of s into the spine of s with the element at an end or without the one  *)
(* removed, and a walk along either direction meets a spine's elements.    *)
(* Nothing is said of the links of elements outside.                       *)
(***************************************************************************)
EXTENDS CycleList, NatFacts, FiniteSetTheorems, SequenceTheorems

\* The i-th node of the list s between its sentinels.
At(s, i) == IF i = 0 THEN HEAD ELSE IF i = Len(s) + 1 THEN TAIL ELSE s[i]

Different(s) == \A i, j \in 1 .. Len(s) : s[i] = s[j] => i = j

Members(s) == {s[i] : i \in 1 .. Len(s)}

\* nx and pv link the elements of s one after the other.
Spine(nx, pv, s) ==
  /\ s \in Seq(Elems) /\ Different(s)
  /\ \A i \in 0 .. Len(s) : nx[At(s, i)] = At(s, i + 1) /\ pv[At(s, i + 1)] = At(s, i)

IsList(s) == Spine(next, prev, s) /\ inside = Members(s)

ListInv ==
  /\ next \in [Nodes -> Nodes \cup {NIL}] /\ prev \in [Nodes -> Nodes \cup {NIL}]
  /\ \E s : IsList(s)

-----------------------------------------------------------------------------
(* Walks. *)

\* The function of NodeAt exists: it is defined node after node.
LEMMA NodeUnfold ==
  ASSUME NEW links, NEW from, NEW m \in Nat
  PROVE  \E f : /\ NodeAt(links, from, m) = f[m]
                /\ f[0] = from
                /\ \A k \in 1 .. m : f[k] = IF f[k - 1] \in {HEAD, TAIL, NIL} /\ k > 1
                                            THEN f[k - 1] ELSE links[f[k - 1]]
  <1> DEFINE Step1(x, k) == IF x \in {HEAD, TAIL, NIL} /\ k > 1 THEN x ELSE links[x]
             Body(f, n) == [i \in 0 .. n |-> IF i = 0 THEN from ELSE Step1(f[i - 1], i)]
             S == {n \in Nat : \E f : f = Body(f, n)}
  <1>1. 0 \in S
    <2>1. [i \in 0 .. 0 |-> from] = Body([i \in 0 .. 0 |-> from], 0)
      OBVIOUS
    <2> QED BY <2>1
  <1>2. ASSUME NEW n \in Nat, n \in S
        PROVE  n + 1 \in S
    <2>1. PICK f : f = Body(f, n)
      BY <1>2
    <2> HIDE DEF Step1
    <2> DEFINE g == [i \in 0 .. n + 1 |-> IF i = 0 THEN from ELSE Step1(f[i - 1], i)]
    <2>2. \A i \in 0 .. n : g[i] = f[i]
      <3> SUFFICES ASSUME NEW i \in 0 .. n PROVE g[i] = f[i]
        OBVIOUS
      <3>1. f[i] = IF i = 0 THEN from ELSE Step1(f[i - 1], i)
        BY <2>1
      <3> QED BY <3>1
    <2>3. \A i \in 0 .. n + 1 : i # 0 => g[i - 1] = f[i - 1]
      <3> HIDE DEF g
      <3>1. \A i \in 0 .. n + 1 : i # 0 => i - 1 \in 0 .. n
        OBVIOUS
      <3> QED BY <2>2, <3>1, Zenon
    <2>4. \A i \in 0 .. n + 1 : g[i] = IF i = 0 THEN from ELSE Step1(g[i - 1], i)
      <3> SUFFICES ASSUME NEW i \in 0 .. n + 1
                   PROVE  g[i] = IF i = 0 THEN from ELSE Step1(g[i - 1], i)
        OBVIOUS
      <3>1. g[i] = IF i = 0 THEN from ELSE Step1(f[i - 1], i)
        OBVIOUS
      <3> HIDE DEF g
      <3> QED BY <2>3, <3>1
    <2>5. g = [i \in 0 .. n + 1 |-> g[i]]
      OBVIOUS
    <2> HIDE DEF g
    <2>6. g = Body(g, n + 1)
      BY <2>4, <2>5
    <2> QED BY <2>6
  <1> HIDE DEF S
  <1>3. m \in S
    BY <1>1, <1>2, NatSet
  <1> DEFINE h == CHOOSE f : f = Body(f, m)
  <1>4. h = Body(h, m)
    BY <1>3 DEF S
  <1>5. NodeAt(links, from, m) = h[m]
    BY Zenon DEF NodeAt
  <1> HIDE DEF h
  <1>6. h[0] = from /\ \A k \in 1 .. m : h[k] = Step1(h[k - 1], k)
    <2>1. \A k \in 0 .. m : h[k] = IF k = 0 THEN from ELSE Step1(h[k - 1], k)
      BY <1>4, Zenon
    <2>2. 0 \in 0 .. m /\ \A k \in 1 .. m : k \in 0 .. m /\ k # 0
      OBVIOUS
    <2> QED BY <2>1, <2>2, Zenon
  <1> QED BY <1>5, <1>6

\* links lead from a sentinel over r to the node end.
Leads(links, from, r, end) ==
  /\ r \in Seq(Elems)
  /\ links[from] = IF Len(r) = 0 THEN end ELSE r[1]
  /\ \A i \in 1 .. Len(r) : links[r[i]] = IF i = Len(r) THEN end ELSE r[i + 1]

\* Then the nodes of the walk are the elements of r, and end.
LEMMA NodeOf ==
  ASSUME NEW links, NEW from, NEW r, NEW end, Leads(links, from, r, end), NEW m \in 1 .. Len(r) + 1
  PROVE  NodeAt(links, from, m) = IF m <= Len(r) THEN r[m] ELSE end
  <1>1. Len(r) \in Nat /\ m \in Nat /\ \A i \in 1 .. Len(r) : r[i] \in Elems
    BY DEF Leads
  <1>2. PICK f : /\ NodeAt(links, from, m) = f[m]
                 /\ f[0] = from
                 /\ \A k \in 1 .. m : f[k] = IF f[k - 1] \in {HEAD, TAIL, NIL} /\ k > 1
                                             THEN f[k - 1] ELSE links[f[k - 1]]
    BY <1>1, NodeUnfold
  <1> DEFINE S == {k \in Nat : k + 1 <= m => f[k + 1] = IF k + 1 <= Len(r) THEN r[k + 1] ELSE end}
  <1>3. 0 \in S
    <2>1. 1 \in 1 .. m => f[1] = links[from]
      <3>1. 1 - 1 = 0 /\ ~(1 > 1)
        OBVIOUS
      <3> QED BY <1>2, <3>1
    <2> QED BY <1>1, <2>1 DEF Leads
  <1>4. ASSUME NEW k \in Nat, k \in S PROVE k + 1 \in S
    <2> SUFFICES ASSUME (k + 1) + 1 <= m
                 PROVE  f[(k + 1) + 1] = IF (k + 1) + 1 <= Len(r) THEN r[(k + 1) + 1] ELSE end
      OBVIOUS
    <2>1. k + 1 \in 1 .. Len(r) /\ (k + 1) + 1 \in 1 .. m /\ ((k + 1) + 1) - 1 = k + 1
      BY <1>1
    <2>2. f[k + 1] = r[k + 1]
      BY <1>4, <1>1, <2>1
    <2>3. r[k + 1] \notin {HEAD, TAIL, NIL}
      BY <1>1, <2>1, ElemsAssumption
    <2>4. f[(k + 1) + 1] = links[r[k + 1]]
      BY <1>2, <2>1, <2>2, <2>3
    <2>5. links[r[k + 1]] = IF k + 1 = Len(r) THEN end ELSE r[(k + 1) + 1]
      BY <2>1 DEF Leads
    <2> QED BY <1>1, <2>1, <2>4, <2>5
  <1>5. m - 1 \in S
    <2>1. m - 1 \in Nat
      BY <1>1
    <2> HIDE DEF S
    <2> QED BY <1>3, <1>4, <2>1, NatSet
  <1>6. (m - 1) + 1 = m
    BY <1>1
  <1> QED BY <1>1, <1>2, <1>5, <1>6

\* A sequence of different elements has as many as it is long, no more than
\* there are.
LEMMA LengthIsCardinality ==
  ASSUME NEW s \in Seq(Elems), Different(s)
  PROVE  /\ Cardinality(Members(s)) = Len(s)
         /\ Cardinality(Elems) \in Nat /\ Len(s) <= Cardinality(Elems)
  <1> DEFINE D == 1 .. Len(s)
             T == Members(s)
  <1>1. DOMAIN s = D /\ Len(s) \in Nat /\ s \in [D -> T] /\ T \subseteq Elems
    BY DEF Members
  <1>2. s \in Bijection(D, T)
    <2>1. s \in Injection(D, T)
      BY <1>1, Zenon DEF Injection, IsInjective, Different, D
    <2>2. s \in Surjection(D, T)
      BY <1>1 DEF Surjection, Members
    <2> HIDE DEF D, T
    <2> QED BY <2>1, <2>2 DEF Bijection
  <1>3. Cardinality(T) = Len(s)
    <2>1. ExistsBijection(1 .. Len(s), T)
      BY <1>2, Zenon DEF ExistsBijection, D
    <2> HIDE DEF T
    <2> QED BY <1>1, <2>1, FS_CountingElements, Zenon
  <1>4. Cardinality(Elems) \in Nat /\ Cardinality(T) <= Cardinality(Elems)
    <2> HIDE DEF T
    <2> QED BY <1>1, ElemsAssumption, FS_Subset, FS_CardinalityType
  <1> QED BY <1>3, <1>4

\* The walk along such links is r.
LEMMA WalkOf ==
  ASSUME NEW links, NEW from, NEW r, NEW end \in {HEAD, TAIL}, Leads(links, from, r, end), Different(r)
  PROVE  Walk(links, from) = r /\ NodeAt(links, from, Len(r) + 1) = end
  <1>1. /\ Len(r) \in Nat /\ r \in Seq(Elems) /\ \A i \in 1 .. Len(r) : r[i] \in Elems
        /\ Cardinality(Elems) \in Nat /\ Len(r) <= Cardinality(Elems)
    <2>1. r \in Seq(Elems)
      BY DEF Leads
    <2>2. Cardinality(Elems) \in Nat /\ Len(r) <= Cardinality(Elems)
      BY <2>1, LengthIsCardinality, Zenon
    <2> QED BY <2>1, <2>2
  <1>2. \A m \in 1 .. Len(r) + 1 : NodeAt(links, from, m) = IF m <= Len(r) THEN r[m] ELSE end
    BY NodeOf
  <1>3. NodeAt(links, from, Len(r) + 1) = end
    <2>1. Len(r) + 1 \in 1 .. Len(r) + 1 /\ ~(Len(r) + 1 <= Len(r))
      BY <1>1
    <2> QED BY <1>2, <2>1
  <1> DEFINE c == Cardinality(Elems)
             ends == {n \in 0 .. c : NodeAt(links, from, n + 1) \notin Elems}
             len == Min(ends \cup {c})
  <1> HIDE DEF c
  <1>4. len = Len(r)
    <2>1. Len(r) \in ends
      BY <1>1, <1>3, ElemsAssumption DEF c
    <2>2. \A n \in ends : n >= Len(r)
      <3> SUFFICES ASSUME NEW n \in ends, n < Len(r) PROVE FALSE
        BY <1>1 DEF c
      <3>1. n + 1 \in 1 .. Len(r) + 1 /\ n + 1 <= Len(r) /\ n + 1 \in 1 .. Len(r)
        BY <1>1 DEF c
      <3> QED BY <1>1, <1>2, <3>1
    <2>3. ends \cup {c} \subseteq Nat
      BY <1>1 DEF c
    <2> HIDE DEF ends
    <2>4. len \in ends \cup {c} /\ \A n \in ends \cup {c} : len <= n
      BY <2>1, <2>3, MinIsLeast
    <2> HIDE DEF len
    <2>5. len <= Len(r) /\ len >= Len(r) /\ len \in Nat
      BY <1>1, <2>1, <2>2, <2>3, <2>4 DEF c
    <2> QED BY <1>1, <2>5
  <1>5. Walk(links, from) = [n \in 1 .. len |-> NodeAt(links, from, n)]
    BY DEF Walk, c
  <1> HIDE DEF len
  <1>6. \A n \in 1 .. Len(r) : NodeAt(links, from, n) = r[n]
    BY <1>1, <1>2
  <1>7. Walk(links, from) = [n \in 1 .. Len(r) |-> r[n]]
    BY <1>4, <1>5, <1>6
  <1> QED BY <1>1, <1>3, <1>7

-----------------------------------------------------------------------------
(* What the operations do to a spine. *)

Links(nx, pv) == nx \in [Nodes -> Nodes \cup {NIL}] /\ pv \in [Nodes -> Nodes \cup {NIL}]

\* The nodes of a list are different, and only the sentinels are no elements.
LEMMA AtFacts ==
  ASSUME NEW s \in Seq(Elems), Different(s)
  PROVE  /\ Len(s) \in Nat
         /\ \A i \in 0 .. Len(s) + 1 : At(s, i) \in Nodes
         /\ \A i, j \in 0 .. Len(s) + 1 : At(s, i) = At(s, j) => i = j
         /\ \A i \in 1 .. Len(s) : At(s, i) = s[i] /\ s[i] \in Elems
         /\ At(s, 0) = HEAD /\ At(s, Len(s) + 1) = TAIL
         /\ \A e \in Elems : (\A i \in 1 .. Len(s) : s[i] # e) => \A i \in 0 .. Len(s) + 1 : At(s, i) # e
  <1>1. Len(s) \in Nat /\ \A i \in 1 .. Len(s) : s[i] \in Elems
    OBVIOUS
  <1>2. /\ \A i \in 1 .. Len(s) : At(s, i) = s[i]
        /\ At(s, 0) = HEAD /\ At(s, Len(s) + 1) = TAIL
        /\ \A i \in 0 .. Len(s) + 1 : i = 0 \/ i = Len(s) + 1 \/ i \in 1 .. Len(s)
    BY <1>1 DEF At
  <1>3. \A i \in 0 .. Len(s) + 1 : At(s, i) \in Nodes
    BY <1>1, <1>2 DEF Nodes
  <1>4. \A i, j \in 0 .. Len(s) + 1 : At(s, i) = At(s, j) => i = j
    BY <1>1, <1>2, ElemsAssumption DEF Different
  <1>5. \A e \in Elems : (\A i \in 1 .. Len(s) : s[i] # e) => \A i \in 0 .. Len(s) + 1 : At(s, i) # e
    BY <1>1, <1>2, ElemsAssumption
  <1> QED BY <1>1, <1>2, <1>3, <1>4, <1>5

\* The spine of a longer list: e, which was outside, is put between the nodes
\* k and k + 1 of s, and becomes number k + 1.
Inserted(s, k, e, t) ==
  /\ t \in Seq(Elems) /\ Len(t) = Len(s) + 1
  /\ \A i \in 0 .. k : At(t, i) = At(s, i)
  /\ At(t, k + 1) = e
  /\ \A i \in k + 1 .. Len(s) + 1 : At(t, i + 1) = At(s, i)

\* The elements of a list with e inserted.
LEMMA InsertedSet ==
  ASSUME NEW s \in Seq(Elems), NEW k \in 0 .. Len(s), NEW e, NEW t, Inserted(s, k, e, t)
  PROVE  /\ \A i \in 1 .. Len(t) : t[i] = e \/ \E j \in 1 .. Len(s) : s[j] = t[i]
         /\ \A j \in 1 .. Len(s) : \E i \in 1 .. Len(t) : i # k + 1 /\ t[i] = s[j]
         /\ k + 1 \in 1 .. Len(t) /\ t[k + 1] = e
  <1>1. /\ t \in Seq(Elems) /\ Len(t) = Len(s) + 1 /\ Len(s) \in Nat
        /\ \A i \in 0 .. k : At(t, i) = At(s, i)
        /\ At(t, k + 1) = e
        /\ \A i \in k + 1 .. Len(s) + 1 : At(t, i + 1) = At(s, i)
    BY DEF Inserted
  <1>2. (\A i \in 1 .. Len(t) : At(t, i) = t[i]) /\ (\A i \in 1 .. Len(s) : At(s, i) = s[i])
    BY <1>1 DEF At
  <1>3. ASSUME NEW i \in 1 .. Len(t) PROVE t[i] = e \/ \E j \in 1 .. Len(s) : s[j] = t[i]
    <2>1. CASE i <= k
      <3>1. i \in 0 .. k /\ i \in 1 .. Len(s)
        BY <1>1, <2>1
      <3> QED BY <1>1, <1>2, <3>1
    <2>2. CASE i = k + 1
      BY <1>1, <1>2, <2>2
    <2>3. CASE i > k + 1
      <3>0. PICK j : j = i - 1
        OBVIOUS
      <3>1. j \in k + 1 .. Len(s) + 1 /\ j \in 1 .. Len(s) /\ i = j + 1
        BY <1>1, <2>3, <3>0
      <3> QED BY <1>1, <1>2, <3>1
    <2> QED BY <2>1, <2>2, <2>3
  <1>4. ASSUME NEW j \in 1 .. Len(s) PROVE \E i \in 1 .. Len(t) : i # k + 1 /\ t[i] = s[j]
    <2>1. CASE j <= k
      <3>1. j \in 0 .. k /\ j \in 1 .. Len(t) /\ j # k + 1
        BY <1>1, <2>1
      <3> QED BY <1>1, <1>2, <3>1
    <2>2. CASE j > k
      <3>1. j \in k + 1 .. Len(s) + 1 /\ j + 1 \in 1 .. Len(t) /\ j + 1 # k + 1
        BY <1>1, <2>2
      <3>2. t[j + 1] = s[j]
        BY <1>1, <1>2, <3>1
      <3> QED BY <3>1, <3>2
    <2> QED BY <2>1, <2>2
  <1>5. k + 1 \in 1 .. Len(t) /\ t[k + 1] = e
    BY <1>1, <1>2
  <1> QED BY <1>3, <1>4, <1>5

\* e, which is outside, is linked between the nodes k and k + 1 of s.
Linked(nx, pv, s, k, e, t, n2, p2) ==
  /\ Links(nx, pv) /\ Spine(nx, pv, s) /\ k \in 0 .. Len(s)
  /\ e \in Elems /\ (\A i \in 1 .. Len(s) : s[i] # e) /\ Inserted(s, k, e, t)
  /\ n2 = [nx EXCEPT ![e] = At(s, k + 1), ![At(s, k)] = e]
  /\ p2 = [pv EXCEPT ![e] = At(s, k), ![At(s, k + 1)] = e]

\* e is taken out of t, which leaves s: its two neighbours are joined.
Unlinked(nx, pv, t, k, e, s, n2, p2) ==
  /\ Links(nx, pv) /\ Spine(nx, pv, t) /\ s \in Seq(Elems) /\ k \in 0 .. Len(s)
  /\ Inserted(s, k, e, t)
  /\ n2 = [nx EXCEPT ![At(s, k)] = At(s, k + 1)]
  /\ p2 = [pv EXCEPT ![At(s, k + 1)] = At(s, k)]

\* Linking e between two neighbours makes the spine of that list.
LEMMA InsertSpine ==
  ASSUME NEW nx, NEW pv, NEW s, NEW k, NEW e, NEW t, NEW n2, NEW p2, Linked(nx, pv, s, k, e, t, n2, p2)
  PROVE  Spine(n2, p2, t) /\ Members(t) = Members(s) \cup {e}
  <1>0. /\ Links(nx, pv) /\ Spine(nx, pv, s) /\ k \in 0 .. Len(s)
        /\ e \in Elems /\ (\A i \in 1 .. Len(s) : s[i] # e) /\ Inserted(s, k, e, t)
        /\ n2 = [nx EXCEPT ![e] = At(s, k + 1), ![At(s, k)] = e]
        /\ p2 = [pv EXCEPT ![e] = At(s, k), ![At(s, k + 1)] = e]
    BY Zenon DEF Linked
  <1>1. s \in Seq(Elems) /\ Different(s)
    BY <1>0 DEF Spine
  <1>2. /\ Len(s) \in Nat
        /\ \A i \in 0 .. Len(s) + 1 : At(s, i) \in Nodes /\ At(s, i) # e
        /\ \A i, j \in 0 .. Len(s) + 1 : At(s, i) = At(s, j) => i = j
        /\ \A i \in 1 .. Len(s) : At(s, i) = s[i]
    BY <1>0, <1>1, AtFacts
  <1>3. /\ t \in Seq(Elems) /\ Len(t) = Len(s) + 1
        /\ \A i \in 0 .. k : At(t, i) = At(s, i)
        /\ At(t, k + 1) = e
        /\ \A i \in k + 1 .. Len(s) + 1 : At(t, i + 1) = At(s, i)
    BY <1>0 DEF Inserted
  <1>4. k \in 0 .. Len(s) + 1 /\ k + 1 \in 0 .. Len(s) + 1 /\ e \in Nodes
    BY <1>0, <1>2 DEF Nodes
  <1>5. /\ n2[e] = At(s, k + 1) /\ n2[At(s, k)] = e
        /\ p2[e] = At(s, k) /\ p2[At(s, k + 1)] = e
        /\ \A x \in Nodes : x # e /\ x # At(s, k) => n2[x] = nx[x]
        /\ \A x \in Nodes : x # e /\ x # At(s, k + 1) => p2[x] = pv[x]
    BY <1>0, <1>2, <1>4 DEF Links
  <1>6. \A i \in 0 .. Len(s) : nx[At(s, i)] = At(s, i + 1) /\ pv[At(s, i + 1)] = At(s, i)
    BY <1>0 DEF Spine
  <1>7. \A i \in 0 .. Len(t) + 1 : \/ i \in 0 .. k /\ At(t, i) = At(s, i)
                                   \/ i = k + 1 /\ At(t, i) = e
                                   \/ i - 1 \in k + 1 .. Len(s) + 1 /\ At(t, i) = At(s, i - 1)
    <2> SUFFICES ASSUME NEW i \in 0 .. Len(t) + 1
                 PROVE  \/ i \in 0 .. k /\ At(t, i) = At(s, i)
                        \/ i = k + 1 /\ At(t, i) = e
                        \/ i - 1 \in k + 1 .. Len(s) + 1 /\ At(t, i) = At(s, i - 1)
      OBVIOUS
    <2>1. i \in 0 .. k \/ i = k + 1 \/ i - 1 \in k + 1 .. Len(s) + 1
      BY <1>0, <1>2, <1>3
    <2>2. ASSUME i - 1 \in k + 1 .. Len(s) + 1 PROVE At(t, i) = At(s, i - 1)
      <3>1. (i - 1) + 1 = i
        OBVIOUS
      <3> QED BY <1>3, <2>2, <3>1
    <2> QED BY <1>3, <2>1, <2>2
  <1>8. \A i \in 1 .. Len(t) : At(t, i) = t[i]
    BY <1>2, <1>3 DEF At
  <1>9. Different(t)
    <2> SUFFICES ASSUME NEW i \in 1 .. Len(t), NEW j \in 1 .. Len(t), t[i] = t[j] PROVE i = j
      BY <1>0 DEF Different
    <2>1. At(t, i) = At(t, j) /\ i \in 0 .. Len(t) + 1 /\ j \in 0 .. Len(t) + 1
      BY <1>2, <1>3, <1>8
    <2>2. k \in Nat /\ k <= Len(s)
      BY <1>0, <1>2
    <2> QED BY <1>2, <1>3, <1>7, <2>1, <2>2
  <1>10. ASSUME NEW i \in 0 .. Len(t) PROVE n2[At(t, i)] = At(t, i + 1) /\ p2[At(t, i + 1)] = At(t, i)
    <2>1. CASE i < k
      <3>1. /\ i \in 0 .. k /\ i + 1 \in 0 .. k /\ i \in 0 .. Len(s) /\ i # k /\ i + 1 # k + 1
            /\ i \in 0 .. Len(s) + 1 /\ i + 1 \in 0 .. Len(s) + 1
        BY <1>0, <1>2, <2>1
      <3>2. At(s, i) # At(s, k) /\ At(s, i + 1) # At(s, k + 1)
        BY <1>2, <1>4, <3>1
      <3>3. At(t, i) = At(s, i) /\ At(t, i + 1) = At(s, i + 1)
        BY <1>3, <3>1
      <3>4. At(s, i) \in Nodes /\ At(s, i) # e /\ At(s, i + 1) \in Nodes /\ At(s, i + 1) # e
        BY <1>2, <3>1
      <3>5. n2[At(s, i)] = nx[At(s, i)] /\ p2[At(s, i + 1)] = pv[At(s, i + 1)]
        BY <1>5, <3>2, <3>4
      <3> QED BY <1>6, <3>1, <3>3, <3>5
    <2>2. CASE i = k
      <3>1. At(t, i) = At(s, k) /\ At(t, i + 1) = e
        BY <1>3, <2>2
      <3> QED BY <1>5, <3>1
    <2>3. CASE i = k + 1
      <3>1. k + 1 \in k + 1 .. Len(s) + 1
        BY <1>0, <1>2
      <3>2. At(t, i) = e /\ At(t, i + 1) = At(s, k + 1)
        BY <1>3, <2>3, <3>1
      <3> QED BY <1>5, <3>2
    <2>4. CASE i > k + 1
      <3>0. PICK j : j = i - 1
        OBVIOUS
      <3>1. /\ j \in k + 1 .. Len(s) + 1 /\ j + 1 \in k + 1 .. Len(s) + 1 /\ j \in 0 .. Len(s)
            /\ i = j + 1 /\ j # k /\ j + 1 # k + 1
            /\ j \in 0 .. Len(s) + 1 /\ j + 1 \in 0 .. Len(s) + 1
        BY <1>0, <1>2, <1>3, <2>4, <3>0
      <3>2. At(s, j) # At(s, k) /\ At(s, j + 1) # At(s, k + 1)
        BY <1>2, <1>4, <3>1
      <3>3. At(t, i) = At(s, j) /\ At(t, i + 1) = At(s, j + 1)
        BY <1>3, <3>1
      <3>4. At(s, j) \in Nodes /\ At(s, j) # e /\ At(s, j + 1) \in Nodes /\ At(s, j + 1) # e
        BY <1>2, <3>1
      <3>5. n2[At(s, j)] = nx[At(s, j)] /\ p2[At(s, j + 1)] = pv[At(s, j + 1)]
        BY <1>5, <3>2, <3>4
      <3> QED BY <1>6, <3>1, <3>3, <3>5
    <2> QED BY <1>0, <1>2, <1>3, <2>1, <2>2, <2>3, <2>4
  <1>11. Members(t) = Members(s) \cup {e}
    <2>1. /\ \A i \in 1 .. Len(t) : t[i] = e \/ \E j \in 1 .. Len(s) : s[j] = t[i]
          /\ \A j \in 1 .. Len(s) : \E i \in 1 .. Len(t) : t[i] = s[j]
          /\ k + 1 \in 1 .. Len(t) /\ t[k + 1] = e
      <3>1. s \in Seq(Elems) /\ k \in 0 .. Len(s) /\ Inserted(s, k, e, t)
        BY <1>0, <1>1, Zenon
      <3> QED BY <3>1, InsertedSet
    <2>4. \A x : x \in Members(t) <=> \E i \in 1 .. Len(t) : t[i] = x
      BY DEF Members
    <2>5. \A x : x \in Members(s) <=> \E i \in 1 .. Len(s) : s[i] = x
      BY DEF Members
    <2>6. \A x : x \in Members(t) <=> x \in Members(s) \cup {e}
      BY <2>1, <2>4, <2>5, Zenon
    <2> QED BY <2>6, Zenon
  <1> QED BY <1>3, <1>9, <1>10, <1>11 DEF Spine

\* Unlinking e makes the spine of the list without it.
LEMMA RemoveSpine ==
  ASSUME NEW nx, NEW pv, NEW t, NEW k, NEW e, NEW s, NEW n2, NEW p2, Unlinked(nx, pv, t, k, e, s, n2, p2)
  PROVE  /\ Spine(n2, p2, s) /\ n2[e] = nx[e]
         /\ Members(s) = Members(t) \ {e}
  <1>0. /\ Links(nx, pv) /\ Spine(nx, pv, t) /\ s \in Seq(Elems) /\ k \in 0 .. Len(s)
        /\ Inserted(s, k, e, t)
        /\ n2 = [nx EXCEPT ![At(s, k)] = At(s, k + 1)]
        /\ p2 = [pv EXCEPT ![At(s, k + 1)] = At(s, k)]
    BY Zenon DEF Unlinked
  <1>1. t \in Seq(Elems) /\ Different(t)
    BY <1>0 DEF Spine
  <1>2. /\ Len(t) \in Nat
        /\ \A i \in 0 .. Len(t) + 1 : At(t, i) \in Nodes
        /\ \A i, j \in 0 .. Len(t) + 1 : At(t, i) = At(t, j) => i = j
        /\ \A i \in 1 .. Len(t) : At(t, i) = t[i]
    BY <1>1, AtFacts
  <1>3. /\ Len(t) = Len(s) + 1 /\ Len(s) \in Nat
        /\ \A i \in 0 .. k : At(t, i) = At(s, i)
        /\ At(t, k + 1) = e
        /\ \A i \in k + 1 .. Len(s) + 1 : At(t, i + 1) = At(s, i)
    BY <1>0 DEF Inserted
  <1>4. \A i \in 0 .. Len(t) : nx[At(t, i)] = At(t, i + 1) /\ pv[At(t, i + 1)] = At(t, i)
    BY <1>0 DEF Spine
  <1>5. /\ k \in 0 .. k /\ k + 1 \in k + 1 .. Len(s) + 1
        /\ k \in 0 .. Len(t) + 1 /\ k + 1 \in 0 .. Len(t) + 1 /\ (k + 1) + 1 \in 0 .. Len(t) + 1
    BY <1>0, <1>3
  <1>6. At(s, k) = At(t, k) /\ At(s, k + 1) = At(t, (k + 1) + 1)
    BY <1>3, <1>5
  <1>7. /\ n2[At(s, k)] = At(s, k + 1) /\ p2[At(s, k + 1)] = At(s, k)
        /\ \A x \in Nodes : x # At(s, k) => n2[x] = nx[x]
        /\ \A x \in Nodes : x # At(s, k + 1) => p2[x] = pv[x]
    BY <1>0, <1>2, <1>5, <1>6 DEF Links
  <1>8. n2[e] = nx[e]
    <2>1. At(t, k + 1) # At(t, k) /\ At(t, k + 1) \in Nodes
      BY <1>2, <1>3, <1>5
    <2> QED BY <1>3, <1>6, <1>7, <2>1
  <1>9. ASSUME NEW i \in 0 .. Len(s) PROVE n2[At(s, i)] = At(s, i + 1) /\ p2[At(s, i + 1)] = At(s, i)
    <2>1. CASE i < k
      <3>1. /\ i \in 0 .. k /\ i + 1 \in 0 .. k /\ i \in 0 .. Len(t) /\ i # k /\ i + 1 # (k + 1) + 1
            /\ i \in 0 .. Len(t) + 1 /\ i + 1 \in 0 .. Len(t) + 1
        BY <1>0, <1>3, <2>1
      <3>2. At(t, i) # At(t, k) /\ At(t, i + 1) # At(t, (k + 1) + 1)
        BY <1>2, <1>5, <3>1
      <3>3. At(t, i) = At(s, i) /\ At(t, i + 1) = At(s, i + 1)
        BY <1>3, <3>1
      <3>4. At(t, i) \in Nodes /\ At(t, i + 1) \in Nodes
        BY <1>2, <3>1
      <3>5. n2[At(t, i)] = nx[At(t, i)] /\ p2[At(t, i + 1)] = pv[At(t, i + 1)]
        BY <1>6, <1>7, <3>2, <3>4
      <3> QED BY <1>4, <3>1, <3>3, <3>5
    <2>2. CASE i = k
      BY <1>7, <2>2
    <2>3. CASE i > k
      <3>1. /\ i \in k + 1 .. Len(s) + 1 /\ i + 1 \in k + 1 .. Len(s) + 1 /\ i + 1 \in 0 .. Len(t)
            /\ i + 1 # k /\ (i + 1) + 1 # (k + 1) + 1
            /\ i + 1 \in 0 .. Len(t) + 1 /\ (i + 1) + 1 \in 0 .. Len(t) + 1
        BY <1>0, <1>3, <2>3
      <3>2. At(t, i + 1) # At(t, k) /\ At(t, (i + 1) + 1) # At(t, (k + 1) + 1)
        BY <1>2, <1>5, <3>1
      <3>3. At(t, i + 1) = At(s, i) /\ At(t, (i + 1) + 1) = At(s, i + 1)
        BY <1>3, <3>1
      <3>4. At(t, i + 1) \in Nodes /\ At(t, (i + 1) + 1) \in Nodes
        BY <1>2, <3>1
      <3>5. n2[At(t, i + 1)] = nx[At(t, i + 1)] /\ p2[At(t, (i + 1) + 1)] = pv[At(t, (i + 1) + 1)]
        BY <1>6, <1>7, <3>2, <3>4
      <3> QED BY <1>4, <3>1, <3>3, <3>5
    <2> QED BY <1>0, <1>3, <2>1, <2>2, <2>3
  <1>10. Different(s)
    <2> SUFFICES ASSUME NEW i \in 1 .. Len(s), NEW j \in 1 .. Len(s), s[i] = s[j] PROVE i = j
      BY <1>0 DEF Different
    <2> DEFINE f(x) == IF x <= k THEN x ELSE x + 1
    <2>1. \A x \in 1 .. Len(s) : s[x] = At(t, f(x)) /\ f(x) \in 0 .. Len(t) + 1
      <3> SUFFICES ASSUME NEW x \in 1 .. Len(s) PROVE s[x] = At(t, f(x)) /\ f(x) \in 0 .. Len(t) + 1
        OBVIOUS
      <3>1. At(s, x) = s[x]
        BY <1>3 DEF At
      <3>2. (x <= k => x \in 0 .. k) /\ (x > k => x \in k + 1 .. Len(s) + 1)
        BY <1>0, <1>3
      <3> QED BY <1>0, <1>3, <3>1, <3>2
    <2>2. f(i) = f(j)
      BY <1>2, <2>1
    <2> QED BY <1>0, <1>3, <2>2
  <1>11. Members(s) = Members(t) \ {e}
    <2>1. /\ \A i \in 1 .. Len(t) : t[i] = e \/ \E j \in 1 .. Len(s) : s[j] = t[i]
          /\ \A j \in 1 .. Len(s) : \E i \in 1 .. Len(t) : i # k + 1 /\ t[i] = s[j]
          /\ k + 1 \in 1 .. Len(t) /\ t[k + 1] = e
      <3>1. s \in Seq(Elems) /\ k \in 0 .. Len(s) /\ Inserted(s, k, e, t)
        BY <1>0, Zenon
      <3> QED BY <3>1, InsertedSet
    <2>2. \A j \in 1 .. Len(s) : s[j] # e
      BY <1>1, <2>1 DEF Different
    <2>4. \A x : x \in Members(t) <=> \E i \in 1 .. Len(t) : t[i] = x
      BY DEF Members
    <2>5. \A x : x \in Members(s) <=> \E i \in 1 .. Len(s) : s[i] = x
      BY DEF Members
    <2>6. \A x : x \in Members(s) <=> x \in Members(t) \ {e}
      BY <2>1, <2>2, <2>4, <2>5, Zenon
    <2> QED BY <2>6, Zenon
  <1> QED BY <1>0, <1>8, <1>9, <1>10, <1>11 DEF Spine

\* What Append, the concatenation and RemoveAt do, as insertions.
LEMMA InsertedCases ==
  ASSUME NEW s \in Seq(Elems)
  PROVE  /\ \A e \in Elems : Inserted(s, Len(s), e, Append(s, e))
         /\ \A e \in Elems : Inserted(s, 0, e, <<e>> \o s)
         /\ \A k \in 1 .. Len(s) : /\ RemoveAt(s, k) \in Seq(Elems) /\ Len(RemoveAt(s, k)) = Len(s) - 1
                                   /\ Inserted(RemoveAt(s, k), k - 1, s[k], s)
  <1>1. Len(s) \in Nat /\ \A i \in 1 .. Len(s) : s[i] \in Elems
    OBVIOUS
  <1>2. ASSUME NEW e \in Elems PROVE Inserted(s, Len(s), e, Append(s, e))
    <2> DEFINE t == Append(s, e)
    <2>1. /\ t \in Seq(Elems) /\ Len(t) = Len(s) + 1 /\ t[Len(s) + 1] = e
          /\ \A i \in 1 .. Len(s) : t[i] = s[i]
      OBVIOUS
    <2> HIDE DEF t
    <2> QED BY <1>1, <2>1 DEF Inserted, At, t
  <1>3. ASSUME NEW e \in Elems PROVE Inserted(s, 0, e, <<e>> \o s)
    <2> DEFINE t == <<e>> \o s
    <2>1. <<e>> \in Seq(Elems) /\ Len(<<e>>) = 1 /\ <<e>>[1] = e
      OBVIOUS
    <2>2. t \in Seq(Elems) /\ Len(t) = 1 + Len(s)
          /\ \A i \in 1 .. 1 + Len(s) : t[i] = IF i <= 1 THEN <<e>>[i] ELSE s[i - 1]
      BY <2>1, ConcatProperties
    <2> HIDE DEF t
    <2>3. t[1] = e /\ \A i \in 1 .. Len(s) : t[i + 1] = s[i]
      <3>1. 1 \in 1 .. 1 + Len(s) /\ \A i \in 1 .. Len(s) : i + 1 \in 1 .. 1 + Len(s) /\ ~(i + 1 <= 1) /\ (i + 1) - 1 = i
        BY <1>1
      <3> QED BY <2>1, <2>2, <3>1
    <2> QED BY <1>1, <2>2, <2>3 DEF Inserted, At, t
  <1>4. ASSUME NEW k \in 1 .. Len(s)
        PROVE  /\ RemoveAt(s, k) \in Seq(Elems) /\ Len(RemoveAt(s, k)) = Len(s) - 1
               /\ Inserted(RemoveAt(s, k), k - 1, s[k], s)
    <2> DEFINE a == SubSeq(s, 1, k - 1)
               b == SubSeq(s, k + 1, Len(s))
               t == a \o b
    <2>1. /\ a \in Seq(Elems) /\ Len(a) = k - 1
          /\ \A i \in 1 .. k - 1 : a[i] = s[i]
      <3>1. \A i \in 1 .. k - 1 : s[i] \in Elems
        BY <1>1
      <3> QED BY <1>1, <3>1, SubSeqProperties
    <2>2. /\ b \in Seq(Elems) /\ Len(b) = Len(s) - k
          /\ \A i \in 1 .. Len(s) - k : b[i] = s[k + i]
      <3>1. \A i \in k + 1 .. Len(s) : s[i] \in Elems
        BY <1>1
      <3> QED BY <1>1, <3>1, SubSeqProperties
    <2> HIDE DEF a, b
    <2>3. /\ t \in Seq(Elems) /\ Len(t) = Len(s) - 1
          /\ \A i \in 1 .. Len(s) - 1 : t[i] = IF i <= k - 1 THEN a[i] ELSE b[i - (k - 1)]
      BY <1>1, <2>1, <2>2, ConcatProperties
    <2> HIDE DEF t
    <2>4. \A i \in 1 .. Len(s) - 1 : t[i] = IF i < k THEN s[i] ELSE s[i + 1]
      <3> SUFFICES ASSUME NEW i \in 1 .. Len(s) - 1 PROVE t[i] = IF i < k THEN s[i] ELSE s[i + 1]
        OBVIOUS
      <3>1. CASE i < k
        <4>1. i \in 1 .. k - 1 /\ i <= k - 1
          BY <1>1, <3>1
        <4> QED BY <2>1, <2>3, <3>1, <4>1
      <3>2. CASE ~(i < k)
        <4>1. i - (k - 1) \in 1 .. Len(s) - k /\ k + (i - (k - 1)) = i + 1 /\ ~(i <= k - 1)
          BY <1>1, <3>2
        <4> QED BY <2>2, <2>3, <3>2, <4>1
      <3> QED BY <3>1, <3>2
    <2>5. Inserted(t, k - 1, s[k], s)
      <3>1. Len(s) = Len(t) + 1 /\ (k - 1) + 1 = k
        BY <1>1, <2>3
      <3>2. \A i \in 0 .. k - 1 : At(s, i) = At(t, i)
        BY <1>1, <2>3, <2>4 DEF At
      <3>3. At(s, (k - 1) + 1) = s[k]
        BY <1>1, <3>1 DEF At
      <3>4. \A i \in (k - 1) + 1 .. Len(t) + 1 : At(s, i + 1) = At(t, i)
        <4> SUFFICES ASSUME NEW i \in (k - 1) + 1 .. Len(t) + 1 PROVE At(s, i + 1) = At(t, i)
          OBVIOUS
        <4>1. i \in Nat /\ i # 0 /\ i + 1 # 0 /\ ~(i < k) /\ k \in Nat
          BY <1>1, <2>3
        <4>2. CASE i = Len(t) + 1
          BY <3>1, <4>1, <4>2 DEF At
        <4>3. CASE i # Len(t) + 1
          <5>1. i \in 1 .. Len(s) - 1 /\ i + 1 # Len(s) + 1
            BY <1>1, <2>3, <4>1, <4>3
          <5> QED BY <2>4, <4>1, <4>3, <5>1 DEF At
        <4> QED BY <4>2, <4>3
      <3> QED BY <3>1, <3>2, <3>3, <3>4 DEF Inserted
    <2>6. RemoveAt(s, k) = t
      BY DEF RemoveAt, t, a, b
    <2> QED BY <2>3, <2>5, <2>6
  <1> QED BY <1>2, <1>3, <1>4

-----------------------------------------------------------------------------
(* The operations. *)

\* What a step makes of the list s: the list t.
Grows(s, t) == \E e \in Elems \ Members(s) : t = Append(s, e) \/ t = <<e>> \o s

\* The list is empty at first.
LEMMA ListStart ==
  ASSUME ListInit
  PROVE  Links(next, prev) /\ IsList(<<>>)
  <1>1. Links(next, prev)
    BY DEF ListInit, Links, Nodes
  <1>2. next[HEAD] = TAIL /\ prev[TAIL] = HEAD /\ inside = {}
    BY DEF ListInit, Nodes
  <1>3. Spine(next, prev, <<>>)
    <2>1. <<>> \in Seq(Elems) /\ Len(<<>>) = 0 /\ Different(<<>>)
      BY DEF Different
    <2>2. \A i \in 0 .. 0 : i = 0
      OBVIOUS
    <2>3. At(<<>>, 0) = HEAD /\ At(<<>>, 0 + 1) = TAIL
      BY <2>1 DEF At
    <2> QED BY <1>2, <2>1, <2>2, <2>3 DEF Spine
  <1>4. inside = {<<>>[i] : i \in 1 .. Len(<<>>)}
    <2>1. 1 .. Len(<<>>) = {}
      OBVIOUS
    <2> QED BY <1>2, <2>1
  <1> QED BY <1>1, <1>3, <1>4 DEF IsList, Members

\* append() and push() link the new element behind the last or before the
\* first node.
LEMMA GrowStep ==
  ASSUME Links(next, prev), NEW s, IsList(s), NEW e \in Elems \ inside, AppendElem(e) \/ PushElem(e)
  PROVE  Links(next, prev)' /\ \E t : IsList(t)' /\ (t = Append(s, e) \/ t = <<e>> \o s)
  <1>1. /\ s \in Seq(Elems) /\ Different(s) /\ Spine(next, prev, s) /\ inside = Members(s)
        /\ \A i \in 0 .. Len(s) : next[At(s, i)] = At(s, i + 1) /\ prev[At(s, i + 1)] = At(s, i)
    BY DEF IsList, Spine
  <1>2. \A i \in 1 .. Len(s) : s[i] # e
    BY <1>1 DEF Members
  <1>3. /\ Len(s) \in Nat /\ 0 \in 0 .. Len(s) /\ Len(s) \in 0 .. Len(s)
        /\ \A i \in 0 .. Len(s) + 1 : At(s, i) \in Nodes
        /\ At(s, 0) = HEAD /\ At(s, Len(s) + 1) = TAIL
    <2>1. /\ Len(s) \in Nat
          /\ \A i \in 0 .. Len(s) + 1 : At(s, i) \in Nodes
          /\ At(s, 0) = HEAD /\ At(s, Len(s) + 1) = TAIL
      BY <1>1, AtFacts
    <2> QED BY <2>1
  <1>4. e \in Nodes /\ HEAD \in Nodes /\ TAIL \in Nodes
    BY DEF Nodes
  <1>5. CASE AppendElem(e)
    <2>1. prev[TAIL] = At(s, Len(s)) /\ At(s, Len(s)) \in Nodes
      BY <1>1, <1>3
    <2>2. /\ next' = [next EXCEPT ![e] = At(s, Len(s) + 1), ![At(s, Len(s))] = e]
          /\ prev' = [prev EXCEPT ![e] = At(s, Len(s)), ![At(s, Len(s) + 1)] = e]
          /\ inside' = inside \cup {e}
      BY <1>3, <1>5, <2>1 DEF AppendElem
    <2>3. Links(next', prev')
      BY <1>3, <1>4, <2>1, <2>2 DEF Links
    <2>4. Inserted(s, Len(s), e, Append(s, e))
      BY <1>1, InsertedCases
    <2>5. PICK t : t = Append(s, e)
      OBVIOUS
    <2>6. Spine(next', prev', t) /\ Members(t) = Members(s) \cup {e}
      <3>1. Inserted(s, Len(s), e, t) /\ e \in Elems
        BY <2>4, <2>5
      <3>3. Spine(next, prev, s) /\ Len(s) \in 0 .. Len(s)
        BY <1>1, <1>3
      <3>4. Linked(next, prev, s, Len(s), e, t, next', prev')
        BY <1>2, <2>2, <3>1, <3>3, Zenon DEF Linked
      <3> QED BY <3>4, InsertSpine
    <2>7. IsList(t)'
      BY <1>1, <2>2, <2>6, Zenon DEF IsList
    <2> QED BY <2>3, <2>5, <2>7
  <1>6. CASE PushElem(e)
    <2>0. PICK k : k = 0
      OBVIOUS
    <2>1. next[HEAD] = At(s, k + 1) /\ At(s, k + 1) \in Nodes /\ k \in 0 .. Len(s)
      BY <1>1, <1>3, <2>0
    <2>2. /\ next' = [next EXCEPT ![e] = At(s, k + 1), ![At(s, k)] = e]
          /\ prev' = [prev EXCEPT ![e] = At(s, k), ![At(s, k + 1)] = e]
          /\ inside' = inside \cup {e}
      BY <1>3, <1>6, <2>0, <2>1 DEF PushElem
    <2>3. Links(next', prev')
      BY <1>3, <1>4, <2>0, <2>1, <2>2 DEF Links
    <2>4. Inserted(s, k, e, <<e>> \o s)
      BY <1>1, <2>0, InsertedCases
    <2>5. PICK t : t = <<e>> \o s
      OBVIOUS
    <2>6. Spine(next', prev', t) /\ Members(t) = Members(s) \cup {e}
      <3>1. Inserted(s, k, e, t) /\ e \in Elems
        BY <2>4, <2>5
      <3>3. Spine(next, prev, s) /\ k \in 0 .. Len(s)
        BY <1>1, <2>1
      <3>4. Linked(next, prev, s, k, e, t, next', prev')
        BY <1>2, <2>2, <3>1, <3>3, Zenon DEF Linked
      <3> QED BY <3>4, InsertSpine
    <2>7. IsList(t)'
      BY <1>1, <2>2, <2>6, Zenon DEF IsList
    <2> QED BY <2>3, <2>5, <2>7
  <1> QED BY <1>5, <1>6

\* remove() makes its neighbours skip the element, whose next link it leaves.
LEMMA ShrinkStep ==
  ASSUME Links(next, prev), NEW s, IsList(s), NEW k \in 1 .. Len(s), RemoveElem(s[k])
  PROVE  /\ Links(next, prev)' /\ inside' = inside \ {s[k]} /\ next'[s[k]] = next[s[k]]
         /\ \E t : IsList(t)' /\ t = RemoveAt(s, k)
  <1>1. /\ s \in Seq(Elems) /\ Different(s) /\ Spine(next, prev, s) /\ inside = Members(s)
        /\ \A i \in 0 .. Len(s) : next[At(s, i)] = At(s, i + 1) /\ prev[At(s, i + 1)] = At(s, i)
    BY DEF IsList, Spine
  <1>2. /\ Len(s) \in Nat
        /\ \A i \in 0 .. Len(s) + 1 : At(s, i) \in Nodes
        /\ \A i \in 1 .. Len(s) : At(s, i) = s[i] /\ s[i] \in Elems
    BY <1>1, AtFacts
  <1>3. PICK t : t = RemoveAt(s, k)
    OBVIOUS
  <1>4. PICK j : j = k - 1
    OBVIOUS
  <1>5. PICK e : e = s[k]
    OBVIOUS
  <1>6. t \in Seq(Elems) /\ Len(t) = Len(s) - 1 /\ Inserted(t, j, e, s)
    BY <1>1, <1>3, <1>4, <1>5, InsertedCases
  <1>7. /\ j \in 0 .. Len(t) /\ j + 1 = k /\ j \in 0 .. Len(s) /\ k \in 0 .. Len(s)
        /\ j \in 0 .. Len(s) + 1 /\ k + 1 \in 0 .. Len(s) + 1 /\ j \in 0 .. j /\ j + 1 \in j + 1 .. Len(t) + 1
    BY <1>2, <1>4, <1>6
  <1>8. At(s, j) = At(t, j) /\ At(s, k + 1) = At(t, j + 1) /\ At(s, k) = e
    BY <1>2, <1>5, <1>6, <1>7 DEF Inserted
  <1>9. prev[e] = At(t, j) /\ next[e] = At(t, j + 1) /\ At(t, j) \in Nodes /\ At(t, j + 1) \in Nodes
    BY <1>1, <1>2, <1>7, <1>8
  <1>10. /\ next' = [next EXCEPT ![At(t, j)] = At(t, j + 1)]
         /\ prev' = [prev EXCEPT ![At(t, j + 1)] = At(t, j)]
         /\ inside' = inside \ {e}
    BY <1>5, <1>9 DEF RemoveElem
  <1>11. Links(next', prev')
    BY <1>9, <1>10 DEF Links
  <1>12. /\ Spine(next', prev', t) /\ next'[e] = next[e]
         /\ Members(t) = Members(s) \ {e}
    <2>2. Spine(next, prev, s) /\ t \in Seq(Elems) /\ j \in 0 .. Len(t) /\ Inserted(t, j, e, s)
      BY <1>1, <1>6, <1>7
    <2>3. Unlinked(next, prev, s, j, e, t, next', prev')
      BY <1>10, <2>2, Zenon DEF Unlinked
    <2> QED BY <2>3, RemoveSpine
  <1>13. IsList(t)'
    BY <1>1, <1>10, <1>12, Zenon DEF IsList
  <1> QED BY <1>3, <1>5, <1>10, <1>11, <1>12, <1>13

\* A step of the list puts an element outside at an end, or takes one out.
LEMMA ListStep ==
  ASSUME Links(next, prev), NEW s, IsList(s), ListNext
  PROVE  /\ Links(next, prev)'
         /\ \/ \E t : IsList(t)' /\ Grows(s, t) /\ inside \subseteq inside'
            \/ \E k \in 1 .. Len(s) : /\ inside' = inside \ {s[k]} /\ next'[s[k]] = next[s[k]]
                                      /\ \E t : IsList(t)' /\ t = RemoveAt(s, k)
  <1>1. inside = Members(s)
    BY DEF IsList
  <1>2. CASE \E e \in Elems \ inside : AppendElem(e) \/ PushElem(e)
    <2>1. PICK e \in Elems \ inside : AppendElem(e) \/ PushElem(e)
      BY <1>2
    <2>2. Links(next, prev)' /\ \E t : IsList(t)' /\ (t = Append(s, e) \/ t = <<e>> \o s)
      BY <2>1, GrowStep
    <2>3. inside \subseteq inside'
      BY <2>1 DEF AppendElem, PushElem
    <2> QED BY <1>1, <2>1, <2>2, <2>3 DEF Grows
  <1>3. CASE \E e \in inside : RemoveElem(e)
    <2>1. PICK k \in 1 .. Len(s) : RemoveElem(s[k])
      BY <1>1, <1>3 DEF Members
    <2> QED BY <2>1, ShrinkStep
  <1>4. CASE PopElem
    <2>1. s \in Seq(Elems) /\ Different(s) /\ \A i \in 0 .. Len(s) : next[At(s, i)] = At(s, i + 1)
      BY DEF IsList, Spine
    <2>2. /\ Len(s) \in Nat /\ At(s, 0) = HEAD /\ At(s, Len(s) + 1) = TAIL
          /\ \A i \in 1 .. Len(s) : At(s, i) = s[i]
      BY <2>1, AtFacts
    <2>3. next[HEAD] # TAIL /\ RemoveElem(next[HEAD])
      BY <1>4 DEF PopElem, IsEmpty
    <2>4. next[HEAD] = At(s, 0 + 1)
      BY <2>1, <2>2
    <2>5. Len(s) # 0
      BY <2>2, <2>3, <2>4
    <2>6. 1 \in 1 .. Len(s) /\ next[HEAD] = s[1]
      BY <2>2, <2>4, <2>5
    <2>7. RemoveElem(s[1])
      BY <2>3, <2>6
    <2> QED BY <2>6, <2>7, ShrinkStep
  <1> QED BY <1>2, <1>3, <1>4 DEF ListNext

\* The walks along the links of a list are the list and its reverse.
LEMMA WalksOfList ==
  ASSUME NEW nx, NEW pv, NEW s, Spine(nx, pv, s)
  PROVE  /\ Walk(nx, HEAD) = s /\ NodeAt(nx, HEAD, Len(s) + 1) = TAIL
         /\ Walk(pv, TAIL) = Reverse(s) /\ NodeAt(pv, TAIL, Len(s) + 1) = HEAD
  <1>1. /\ s \in Seq(Elems) /\ Different(s)
        /\ \A i \in 0 .. Len(s) : nx[At(s, i)] = At(s, i + 1) /\ pv[At(s, i + 1)] = At(s, i)
    BY DEF Spine
  <1>2. /\ Len(s) \in Nat
        /\ \A i \in 1 .. Len(s) : At(s, i) = s[i] /\ s[i] \in Elems
        /\ At(s, 0) = HEAD /\ At(s, Len(s) + 1) = TAIL
    BY <1>1, AtFacts
  <1>3. Leads(nx, HEAD, s, TAIL)
    <2>1. nx[HEAD] = IF Len(s) = 0 THEN TAIL ELSE s[1]
      <3>1. nx[HEAD] = At(s, 0 + 1) /\ 0 + 1 = 1
        BY <1>1, <1>2
      <3>2. Len(s) # 0 => 1 \in 1 .. Len(s)
        BY <1>2
      <3> QED BY <1>2, <3>1, <3>2
    <2>2. \A i \in 1 .. Len(s) : nx[s[i]] = IF i = Len(s) THEN TAIL ELSE s[i + 1]
      <3> SUFFICES ASSUME NEW i \in 1 .. Len(s) PROVE nx[s[i]] = IF i = Len(s) THEN TAIL ELSE s[i + 1]
        OBVIOUS
      <3>1. i \in 0 .. Len(s) /\ (i # Len(s) => i + 1 \in 1 .. Len(s))
        BY <1>2
      <3> QED BY <1>1, <1>2, <3>1
    <2> QED BY <1>1, <2>1, <2>2 DEF Leads
  <1> DEFINE r == Reverse(s)
  <1>4. /\ r \in Seq(Elems) /\ Len(r) = Len(s)
        /\ \A i \in 1 .. Len(s) : r[i] = s[(Len(s) - i) + 1]
    BY <1>1, <1>2 DEF Reverse
  <1> HIDE DEF r
  <1>5. Different(r)
    <2> SUFFICES ASSUME NEW i \in 1 .. Len(r), NEW j \in 1 .. Len(r), r[i] = r[j] PROVE i = j
      BY DEF Different
    <2>1. (Len(s) - i) + 1 \in 1 .. Len(s) /\ (Len(s) - j) + 1 \in 1 .. Len(s)
      BY <1>2, <1>4
    <2>2. (Len(s) - i) + 1 = (Len(s) - j) + 1
      BY <1>1, <1>4, <2>1 DEF Different
    <2> QED BY <1>2, <1>4, <2>2
  <1>6. Leads(pv, TAIL, r, HEAD)
    <2>1. pv[TAIL] = IF Len(r) = 0 THEN HEAD ELSE r[1]
      <3>1. pv[TAIL] = At(s, Len(s))
        <4>1. Len(s) \in 0 .. Len(s)
          BY <1>2
        <4> QED BY <1>1, <1>2, <4>1
      <3>2. Len(s) # 0 => 1 \in 1 .. Len(s) /\ Len(s) \in 1 .. Len(s) /\ (Len(s) - 1) + 1 = Len(s)
        BY <1>2
      <3> QED BY <1>2, <1>4, <3>1, <3>2
    <2>2. \A i \in 1 .. Len(r) : pv[r[i]] = IF i = Len(r) THEN HEAD ELSE r[i + 1]
      <3> SUFFICES ASSUME NEW i \in 1 .. Len(r) PROVE pv[r[i]] = IF i = Len(r) THEN HEAD ELSE r[i + 1]
        OBVIOUS
      <3>0. PICK m : m = Len(s) - i
        OBVIOUS
      <3>1. /\ m \in 0 .. Len(s) /\ m + 1 \in 1 .. Len(s) /\ (m = 0 <=> i = Len(r))
            /\ (i # Len(r) => m \in 1 .. Len(s) /\ i + 1 \in 1 .. Len(s) /\ (Len(s) - (i + 1)) + 1 = m)
        BY <1>2, <1>4, <3>0
      <3>2. r[i] = At(s, m + 1)
        BY <1>2, <1>4, <3>0, <3>1
      <3>3. pv[r[i]] = At(s, m)
        BY <1>1, <3>1, <3>2
      <3> QED BY <1>2, <1>4, <3>1, <3>3
    <2> QED BY <1>4, <2>1, <2>2 DEF Leads
  <1>7. Walk(nx, HEAD) = s /\ NodeAt(nx, HEAD, Len(s) + 1) = TAIL
    <2>1. TAIL \in {HEAD, TAIL}
      OBVIOUS
    <2> QED BY <1>1, <1>3, <2>1, WalkOf, Zenon
  <1>8. Walk(pv, TAIL) = r /\ NodeAt(pv, TAIL, Len(r) + 1) = HEAD
    <2>1. HEAD \in {HEAD, TAIL}
      OBVIOUS
    <2> QED BY <1>5, <1>6, <2>1, WalkOf, Zenon
  <1> QED BY <1>4, <1>7, <1>8 DEF r

-----------------------------------------------------------------------------
(* The theorems. *)

\* In every state the links of both directions are those of some sequence of
\* the elements inside, and every step keeps them so.
THEOREM ListInvariant == ListSpec => []ListInv
  <1>1. ListInit => ListInv
    BY ListStart DEF ListInv, Links
  <1>2. ListInv /\ [ListNext]_listVars => ListInv'
    <2> SUFFICES ASSUME ListInv, [ListNext]_listVars PROVE ListInv'
      OBVIOUS
    <2>1. Links(next, prev)
      BY DEF ListInv, Links
    <2>2. PICK s : IsList(s)
      BY DEF ListInv
    <2>3. CASE ListNext
      <3>1. Links(next, prev)'
        BY <2>1, <2>2, <2>3, ListStep
      <3>2. \E t : IsList(t)'
        BY <2>1, <2>2, <2>3, ListStep
      <3> QED BY <3>1, <3>2 DEF ListInv, Links
    <2>4. CASE UNCHANGED listVars
      <3>1. next' = next /\ prev' = prev /\ inside' = inside
        BY <2>4 DEF listVars
      <3>2. IsList(s)'
        BY <2>2, <3>1 DEF IsList
      <3> QED BY <2>1, <3>1, <3>2 DEF ListInv, Links
    <2> QED BY <2>3, <2>4
  <1> QED BY <1>1, <1>2, PTL DEF ListSpec

\* The list of a state is the sequence its links spell.
LEMMA ListOf ==
  ASSUME NEW s, IsList(s)
  PROVE  /\ List = s /\ s \in Seq(Elems) /\ Different(s) /\ inside = Members(s)
         /\ \A i \in 0 .. Len(s) : next[At(s, i)] = At(s, i + 1)
         /\ NodeAt(next, HEAD, Len(s) + 1) = TAIL
         /\ Walk(prev, TAIL) = Reverse(s) /\ NodeAt(prev, TAIL, Len(s) + 1) = HEAD
  <1>1. Spine(next, prev, s) /\ inside = Members(s)
    BY DEF IsList
  <1>2. /\ Walk(next, HEAD) = s /\ NodeAt(next, HEAD, Len(s) + 1) = TAIL
        /\ Walk(prev, TAIL) = Reverse(s) /\ NodeAt(prev, TAIL, Len(s) + 1) = HEAD
    BY <1>1, WalksOfList
  <1>3. s \in Seq(Elems) /\ Different(s) /\ \A i \in 0 .. Len(s) : next[At(s, i)] = At(s, i + 1)
    BY <1>1 DEF Spine
  <1> QED BY <1>1, <1>2, <1>3 DEF List

\* The same in the next state.
LEMMA ListOfNext ==
  ASSUME NEW s, IsList(s)'
  PROVE  /\ List' = s /\ s \in Seq(Elems) /\ inside' = Members(s)
         /\ \A i \in 0 .. Len(s) : next'[At(s, i)] = At(s, i + 1)
  <1>1. Spine(next', prev', s) /\ inside' = Members(s)
    BY DEF IsList
  <1>2. Walk(next', HEAD) = s
    BY <1>1, WalksOfList
  <1>3. s \in Seq(Elems) /\ \A i \in 0 .. Len(s) : next'[At(s, i)] = At(s, i + 1)
    BY <1>1 DEF Spine
  <1> QED BY <1>1, <1>2, <1>3 DEF List

\* Both directions visit exactly the elements inside, in opposite orders,
\* whatever stale links the elements outside hold.
THEOREM LinksStayAgreed == ListSpec => []LinksAgree
  <1>1. ListInv => LinksAgree
    <2> SUFFICES ASSUME ListInv PROVE LinksAgree
      OBVIOUS
    <2>1. PICK s : IsList(s)
      BY DEF ListInv
    <2>2. /\ List = s /\ s \in Seq(Elems) /\ Different(s) /\ inside = Members(s)
          /\ NodeAt(next, HEAD, Len(s) + 1) = TAIL
          /\ Walk(prev, TAIL) = Reverse(s) /\ NodeAt(prev, TAIL, Len(s) + 1) = HEAD
      BY <2>1, ListOf
    <2>3. Cardinality(inside) = Len(s)
      BY <2>2, LengthIsCardinality
    <2>4. ToSet(s) = Members(s)
      BY <2>2 DEF ToSet, Members
    <2> QED BY <2>2, <2>3, <2>4 DEF LinksAgree
  <1> QED BY <1>1, ListInvariant, PTL

\* A step of the pointers is a step of the sequence.
LEMMA StepIsListStep ==
  ASSUME ListInv, [ListNext]_listVars
  PROVE  [Abstract!Next]_List
  <1>1. PICK s : IsList(s)
    BY DEF ListInv
  <1>2. List = s /\ s \in Seq(Elems) /\ inside = Members(s)
    BY <1>1, ListOf
  <1>3. Links(next, prev)
    BY DEF ListInv, Links
  <1>4. CASE UNCHANGED listVars
    BY <1>4 DEF List, listVars
  <1>5. CASE ListNext
    <2>1. \/ \E t : IsList(t)' /\ Grows(s, t)
          \/ \E k \in 1 .. Len(s) : \E t : IsList(t)' /\ t = RemoveAt(s, k)
      BY <1>1, <1>3, <1>5, ListStep
    <2>2. CASE \E t : IsList(t)' /\ Grows(s, t)
      <3>1. PICK t : IsList(t)' /\ Grows(s, t)
        BY <2>2
      <3>2. PICK e \in Elems \ Members(s) : t = Append(s, e) \/ t = <<e>> \o s
        BY <3>1 DEF Grows
      <3>3. List' = t
        BY <3>1, ListOfNext
      <3>4. ~Abstract!Contains(List, e)
        BY <1>2, <3>2 DEF Abstract!Contains, Members
      <3>5. Abstract!Append_(e) \/ Abstract!Push(e)
        BY <1>2, <3>2, <3>3, <3>4 DEF Abstract!Append_, Abstract!Push
      <3> QED BY <3>5 DEF Abstract!Next
    <2>3. CASE \E k \in 1 .. Len(s) : \E t : IsList(t)' /\ t = RemoveAt(s, k)
      <3>1. PICK k \in 1 .. Len(s) : \E t : IsList(t)' /\ t = RemoveAt(s, k)
        BY <2>3
      <3>2. List' = RemoveAt(s, k)
        BY <3>1, ListOfNext
      <3>3. RemoveAt(s, k) = Abstract!RemoveAt(s, k)
        BY DEF RemoveAt, Abstract!RemoveAt
      <3>4. s[k] \in Elems /\ k \in DOMAIN s
        BY <1>2
      <3>5. Abstract!Remove_(s[k])
        BY <1>2, <3>2, <3>3, <3>4 DEF Abstract!Remove_
      <3> QED BY <3>4, <3>5 DEF Abstract!Next
    <2> QED BY <2>1, <2>2, <2>3
  <1> QED BY <1>4, <1>5

\* The pointer list implements the sequence of module AbstractList: every
\* append, push, remove and pop does to the walk what the sequence promises.
THEOREM ListIsSequence == ListSpec => RefinesAbstractList
  <1>1. ListInit => Abstract!Init
    <2> SUFFICES ASSUME ListInit PROVE List = <<>>
      BY DEF Abstract!Init
    <2>1. IsList(<<>>)
      BY ListStart
    <2> QED BY <2>1, ListOf
  <1>2. ListInv /\ [ListNext]_listVars => [Abstract!Next]_List
    BY StepIsListStep
  <1> QED BY <1>1, <1>2, ListInvariant, PTL DEF ListSpec, RefinesAbstractList, Abstract!Spec

\* What schedule() relies on: next_elem of an element that has just left names
\* the element that followed it, or wraps to the first of those that remain.
THEOREM StaleNextStaysUseful == ListSpec => StaleNextIsSuccessor
  <1>1. ASSUME ListInv, ListNext, NEW e \in inside \ inside', inside' # {}
        PROVE  NextOf(e)' = IF (CHOOSE j \in DOMAIN List : List[j] = e) = Len(List)
                            THEN Head(List') ELSE List[(CHOOSE j \in DOMAIN List : List[j] = e) + 1]
    <2>1. PICK s : IsList(s)
      BY <1>1 DEF ListInv
    <2>2. /\ List = s /\ s \in Seq(Elems) /\ Different(s) /\ inside = Members(s)
          /\ \A i \in 0 .. Len(s) : next[At(s, i)] = At(s, i + 1)
      BY <2>1, ListOf
    <2>3. PICK k \in 1 .. Len(s) : /\ inside' = inside \ {s[k]} /\ next'[s[k]] = next[s[k]]
                                   /\ \E t : IsList(t)' /\ t = RemoveAt(s, k)
      <3>1. Links(next, prev)
        BY <1>1 DEF ListInv, Links
      <3>2. ~(inside \subseteq inside')
        BY <1>1
      <3> QED BY <1>1, <2>1, <3>1, <3>2, ListStep
    <2>4. PICK t : IsList(t)' /\ t = RemoveAt(s, k)
      BY <2>3
    <2>5. /\ List' = t /\ t \in Seq(Elems) /\ inside' = Members(t)
          /\ \A i \in 0 .. Len(t) : next'[At(t, i)] = At(t, i + 1)
      BY <2>4, ListOfNext
    <2>6. e = s[k]
      BY <1>1, <2>3
    <2>7. /\ Len(s) \in Nat /\ DOMAIN s = 1 .. Len(s)
          /\ \A i \in 1 .. Len(s) : At(s, i) = s[i] /\ s[i] \in Elems
          /\ At(s, Len(s) + 1) = TAIL
      <3>1. /\ Len(s) \in Nat
            /\ \A i \in 1 .. Len(s) : At(s, i) = s[i] /\ s[i] \in Elems
            /\ At(s, Len(s) + 1) = TAIL
        BY <2>2, AtFacts
      <3> QED BY <2>2, <3>1
    <2>8. (CHOOSE j \in DOMAIN List : List[j] = e) = k
      BY <2>2, <2>6, <2>7 DEF Different
    <2>9. next'[e] = At(s, k + 1)
      <3>1. k \in 0 .. Len(s) /\ At(s, k) = s[k]
        BY <2>7
      <3> QED BY <2>2, <2>3, <2>6, <3>1
    <2>10. CASE k = Len(s)
      <3>1. next'[e] = TAIL
        BY <2>7, <2>9, <2>10
      <3>2. Len(t) \in Nat /\ Len(t) # 0
        <4>1. Len(t) \in Nat
          BY <2>5
        <4>2. Len(t) = 0 => Members(t) = {}
          BY DEF Members
        <4> QED BY <1>1, <2>5, <4>1, <4>2
      <3>3. next'[HEAD] = t[1]
        <4>1. At(t, 0) = HEAD /\ At(t, 0 + 1) = t[1] /\ 0 \in 0 .. Len(t)
          BY <3>2 DEF At
        <4> QED BY <2>5, <4>1
      <3>4. NextOf(e)' = t[1]
        BY <3>1, <3>3 DEF NextOf
      <3>5. Head(t) = t[1]
        BY <2>5, <3>2
      <3> QED BY <2>2, <2>5, <2>8, <2>10, <3>4, <3>5
    <2>11. CASE k # Len(s)
      <3>0. Len(s) \in Nat /\ k \in Nat /\ k <= Len(s) /\ k # Len(s)
        <4>1. Len(s) \in Nat
          BY <2>7
        <4>2. k \in 1 .. Len(s)
          OBVIOUS
        <4> QED BY <2>11, <4>1, <4>2
      <3>1. k + 1 \in 1 .. Len(s)
        BY <3>0
      <3>2. next'[e] = s[k + 1] /\ s[k + 1] # TAIL
        BY <2>7, <2>9, <3>1, ElemsAssumption
      <3>3. NextOf(e)' = s[k + 1]
        BY <3>2 DEF NextOf
      <3> QED BY <2>2, <2>8, <2>11, <3>3
    <2> QED BY <2>10, <2>11
  <1>2. ListInv /\ [ListNext]_listVars
          => [\A e \in inside \ inside' :
                inside' # {} =>
                  LET i == CHOOSE j \in DOMAIN List : List[j] = e
                  IN  NextOf(e)' = IF i = Len(List) THEN Head(List') ELSE List[i + 1]]_listVars
    BY <1>1
  <1> QED BY <1>2, ListInvariant, PTL DEF ListSpec, StaleNextIsSuccessor

=============================================================================
