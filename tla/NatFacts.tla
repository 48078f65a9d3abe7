------------------------------- MODULE NatFacts -------------------------------
(***************************************************************************)
(* Facts about the natural numbers that the proofs of several components   *)
(* use: every set of naturals has a least element, and a set that has 0    *)
(* and with a number the next one has them all.  The library states both   *)
(* for a predicate; stated for a set the provers can use them.             *)
(***************************************************************************)
EXTENDS FiniteSetsExt, WellFoundedInduction, TLAPS

LessThan == {ss \in Nat \X Nat : ss[1] < ss[2]}

\* A set of natural numbers that is not empty has a least element.
LEMMA LeastNat ==
  ASSUME NEW T, T \subseteq Nat, T # {}
  PROVE  \E x \in T : \A y \in T : x <= y
  <1>0. LessThan = OpToRel(<, Nat)
    BY Zenon DEF LessThan, OpToRel
  <1>1. IsWellFoundedOn(LessThan, Nat)
    BY <1>0, NatLessThanWellFounded, Zenon
  <1>2. PICK x \in T : \A y \in T : ~ (<<y, x>> \in LessThan)
    BY <1>1, WFMin, Zenon
  <1>3. ASSUME NEW y \in Nat, y < x
        PROVE  <<y, x>> \in LessThan
    <2>1. <<y, x>> \in Nat \X Nat
      BY <1>2
    <2>2. <<y, x>>[1] = y /\ <<y, x>>[2] = x
      OBVIOUS
    <2> QED BY <1>3, <2>1, <2>2, Zenon DEF LessThan
  <1>4. ASSUME NEW y \in T
        PROVE  x <= y
    <2>1. y \in Nat /\ x \in Nat
      BY <1>2
    <2>2. ~ (y < x)
      BY <1>2, <1>3, <2>1, Zenon
    <2> QED BY <2>1, <2>2
  <1> QED BY <1>2, <1>4, Zenon

\* Min returns the least element of such a set.
LEMMA MinIsLeast ==
  ASSUME NEW T, T \subseteq Nat, T # {}
  PROVE  Min(T) \in T /\ \A y \in T : Min(T) <= y
  <1>1. \E x \in T : \A y \in T : x <= y
    BY LeastNat
  <1> QED BY <1>1, Zenon DEF Min

\* Induction over a set of natural numbers.
LEMMA NatSet ==
  ASSUME NEW S, 0 \in S, \A n \in Nat : n \in S => n + 1 \in S
  PROVE  \A n \in Nat : n \in S
  <1> SUFFICES ASSUME Nat \ S # {} PROVE FALSE
    OBVIOUS
  <1>1. PICK x \in Nat \ S : \A y \in Nat \ S : x <= y
    <2> DEFINE T == Nat \ S
    <2>1. T \subseteq Nat /\ T # {}
      OBVIOUS
    <2> HIDE DEF T
    <2>2. \E x \in T : \A y \in T : x <= y
      BY <2>1, LeastNat, Zenon
    <2> QED BY <2>2 DEF T
  <1>2. x # 0 /\ x - 1 \in Nat
    BY <1>1
  <1>3. x - 1 \in S
    BY <1>1, <1>2
  <1>4. (x - 1) + 1 = x
    BY <1>1
  <1> QED BY <1>1, <1>2, <1>3, <1>4

-----------------------------------------------------------------------------
(* Division. *)

\* Quotient and remainder.
LEMMA DivMod ==
  ASSUME NEW x \in Nat, NEW M \in Nat \ {0}
  PROVE  x = M * (x \div M) + (x % M) /\ x % M \in 0 .. M - 1 /\ x \div M \in Nat
  OBVIOUS

\* A multiple of M is 0 or at least M.
LEMMA MultipleGrows ==
  ASSUME NEW M \in Nat \ {0}, NEW d \in Nat, d >= 1
  PROVE  M * d >= M
  OBVIOUS

\* Multiplication distributes over subtraction.
LEMMA Distributes ==
  ASSUME NEW M \in Nat, NEW d \in Int, NEW e \in Int
  PROVE  M * (d - e) = M * d - M * e
  OBVIOUS

\* They are unique.
LEMMA DivModUnique ==
  ASSUME NEW M \in Nat \ {0}, NEW q \in Int, NEW r \in 0 .. M - 1,
         NEW p \in Int, NEW t \in 0 .. M - 1, M * q + r = M * p + t
  PROVE  q = p /\ r = t
  <1>1. M * (q - p) = t - r
    BY Distributes
  <1>2. CASE q > p
    <2>1. M * (q - p) >= M
      <3>1. q - p \in Nat /\ q - p >= 1
        BY <1>2
      <3> QED BY <3>1, MultipleGrows
    <2> QED BY <1>1, <2>1
  <1>3. CASE q < p
    <2>1. M * (p - q) >= M
      <3>1. p - q \in Nat /\ p - q >= 1
        BY <1>3
      <3> QED BY <3>1, MultipleGrows
    <2>2. M * (p - q) = r - t
      BY Distributes
    <2> QED BY <2>1, <2>2
  <1> QED BY <1>2, <1>3

\* A sum modulo M does not change when a summand is reduced first.
LEMMA ModAdd ==
  ASSUME NEW a \in Nat, NEW r \in Nat, NEW M \in Nat \ {0}
  PROVE  ((a % M) + r) % M = (a + r) % M
  <1> DEFINE x == (a % M) + r
             y == a + r
  <1>1. a = M * (a \div M) + (a % M) /\ a % M \in 0 .. M - 1 /\ a \div M \in Nat
    BY DivMod
  <1>2. x \in Nat /\ y \in Nat
    BY <1>1
  <1>3. x = M * (x \div M) + (x % M) /\ x % M \in 0 .. M - 1 /\ x \div M \in Nat
    BY <1>2, DivMod
  <1>4. y = M * (y \div M) + (y % M) /\ y % M \in 0 .. M - 1 /\ y \div M \in Nat
    <2> HIDE DEF y
    <2> QED BY <1>2, DivMod
  <1>5. y = M * (a \div M) + (M * (x \div M) + (x % M))
    BY <1>1, <1>3
  <1> DEFINE q == a \div M
             p == x \div M
             z == x % M
             q2 == y \div M
             z2 == y % M
  <1>6. q \in Nat /\ p \in Nat /\ z \in 0 .. M - 1 /\ q2 \in Nat /\ z2 \in 0 .. M - 1
    BY <1>1, <1>3, <1>4
  <1>7. y = M * q + (M * p + z)
    BY <1>5
  <1>8. y = M * q2 + z2
    BY <1>4
  <1> HIDE DEF q, p, z, q2, z2, x, y
  <1>9. M * q2 + z2 = M * (q + p) + z /\ q2 \in Int /\ q + p \in Int
    BY <1>6, <1>7, <1>8
  <1>10. z2 = z
    BY <1>6, <1>9, DivModUnique
  <1> QED BY <1>10 DEF z2, z, x, y

=============================================================================
