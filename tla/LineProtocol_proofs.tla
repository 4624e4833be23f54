------------------------- MODULE LineProtocol_proofs -------------------------
(***************************************************************************)
(* Lemmas about the text that LineProtocol reads: the message of a recv,   *)
(* and the commands that are found in it.                                  *)
(***************************************************************************)
EXTENDS LineProtocol, SequenceTheorems, WellFoundedInduction, TLAPS

-----------------------------------------------------------------------------
(* Induction over lengths, on sets of them.                                *)

LEMMA LeastNat ==
    ASSUME NEW T, T \subseteq Nat, T # {}
    PROVE  \E x \in T : \A y \in T : x <= y
<1> DEFINE R == OpToRel(<, Nat)
<1>1. IsWellFoundedOn(R, Nat)
  BY NatLessThanWellFounded
<1> HIDE DEF R
<1>2. PICK x \in T : \A y \in T : ~(<<y, x>> \in R)
  BY <1>1, WFMin
<1>3. \A y \in T : ~(y < x)
  BY <1>2 DEF R, OpToRel
<1>4. QED
  BY <1>3

LEMMA GreatestNat ==
    ASSUME NEW n \in Nat, NEW T, T \subseteq 0 .. n, T # {}
    PROVE  \E x \in T : \A y \in T : x >= y
<1> DEFINE U == {n - y : y \in T}
<1>1. U \subseteq Nat /\ U # {}
  <2>1. \A y \in T : n - y \in Nat
    OBVIOUS
  <2>2. QED
    BY <2>1
<1>2. PICK u \in U : \A v \in U : u <= v
  BY <1>1, LeastNat
<1>3. PICK x \in T : u = n - x
  OBVIOUS
<1>4. \A y \in T : n - x <= n - y
  BY <1>2, <1>3
<1>5. \A y \in T : x >= y
  BY <1>4
<1>6. QED
  BY <1>5

LEMMA Induction ==
    ASSUME NEW n \in Nat, NEW T, T \subseteq 0 .. n, 0 \in T,
           \A k \in 1 .. n : k - 1 \in T => k \in T
    PROVE  T = 0 .. n
<1> SUFFICES ASSUME NEW m \in 0 .. n, m \notin T
             PROVE  FALSE
  OBVIOUS
<1>1. PICK x \in (0 .. n) \ T : \A y \in (0 .. n) \ T : x <= y
  <2>1. (0 .. n) \ T \subseteq Nat /\ (0 .. n) \ T # {}
    OBVIOUS
  <2>2. QED
    BY <2>1, LeastNat
<1>2. x # 0
  BY <1>1
<1>3. x \in 1 .. n /\ x - 1 \in 0 .. n
  BY <1>1, <1>2
<1>4. x - 1 \in T
  BY <1>1, <1>3
<1>5. QED
  BY <1>1, <1>3, <1>4

-----------------------------------------------------------------------------
(* What is left of a text without its newlines.                            *)

KeptStep(s, f, k) ==
    IF k = 0 THEN <<>> ELSE IF s[k] = "\n" THEN f[k - 1] ELSE Append(f[k - 1], s[k])
IsKept(s, f, n) == f = [k \in 0 .. n |-> KeptStep(s, f, k)]

LEMMA KeptExists ==
    ASSUME NEW s, NEW n \in Nat
    PROVE  \E f : IsKept(s, f, n)
<1> DEFINE T == {m \in 0 .. n : \E f : IsKept(s, f, m)}
<1>1. 0 \in T
  <2>1. IsKept(s, [k \in 0 .. 0 |-> <<>>], 0)
    <3> DEFINE f == [k \in 0 .. 0 |-> <<>>]
    <3>1. \A k \in 0 .. 0 : KeptStep(s, f, k) = <<>>
      BY DEF KeptStep
    <3> HIDE DEF f
    <3>2. f = [k \in 0 .. 0 |-> KeptStep(s, f, k)]
      BY <3>1 DEF f
    <3>3. QED
      BY <3>2 DEF f, IsKept
  <2>2. QED
    BY <2>1
<1>2. ASSUME NEW m \in 1 .. n, m - 1 \in T
      PROVE  m \in T
  <2>1. PICK f : IsKept(s, f, m - 1)
    BY <1>2
  <2> DEFINE g == [k \in 0 .. m |-> IF k = m THEN KeptStep(s, f, m) ELSE f[k]]
  <2>2. \A k \in 0 .. m - 1 : g[k] = f[k]
    OBVIOUS
  <2>3. \A k \in 0 .. m - 1 : f[k] = KeptStep(s, f, k)
    BY <2>1 DEF IsKept
  <2>4. \A k \in 0 .. m : KeptStep(s, g, k) = KeptStep(s, f, k)
    <3> SUFFICES ASSUME NEW k \in 0 .. m
                 PROVE  KeptStep(s, g, k) = KeptStep(s, f, k)
      OBVIOUS
    <3>1. k # 0 => g[k - 1] = f[k - 1]
      BY <2>2
    <3> HIDE DEF g
    <3>2. QED
      BY <3>1 DEF KeptStep
  <2>5. \A k \in 0 .. m : g[k] = KeptStep(s, g, k)
    <3> SUFFICES ASSUME NEW k \in 0 .. m
                 PROVE  g[k] = KeptStep(s, f, k)
      BY <2>4
    <3>1. CASE k = m
      BY <3>1
    <3>2. CASE k # m
      <4>1. k \in 0 .. m - 1
        BY <3>2
      <4>2. QED
        BY <2>2, <2>3, <4>1
    <3>3. QED
      BY <3>1, <3>2
  <2>6. DOMAIN g = 0 .. m /\ g = [k \in 0 .. m |-> g[k]]
    OBVIOUS
  <2> HIDE DEF g
  <2>7. g = [k \in 0 .. m |-> KeptStep(s, g, k)]
    BY <2>5, <2>6
  <2>8. QED
    BY <2>7 DEF IsKept
<1> HIDE DEF T
<1>3. T = 0 .. n
  BY <1>1, <1>2, Induction DEF T
<1>4. QED
  BY <1>3 DEF T

LEMMA KeptDef ==
    ASSUME NEW S, NEW s \in Seq(S)
    PROVE  \E f : IsKept(s, f, Len(s)) /\ WithoutNewlines(s) = f[Len(s)]
<1>1. Len(s) \in Nat
  OBVIOUS
<1>2. PICK f : IsKept(s, f, Len(s))
  BY <1>1, KeptExists
<1> DEFINE kept == CHOOSE g : g = [k \in 0 .. Len(s) |->
                      IF k = 0 THEN <<>>
                      ELSE IF s[k] = "\n" THEN g[k - 1] ELSE Append(g[k - 1], s[k])]
<1>3. kept = [k \in 0 .. Len(s) |->
                      IF k = 0 THEN <<>>
                      ELSE IF s[k] = "\n" THEN kept[k - 1] ELSE Append(kept[k - 1], s[k])]
  BY <1>2 DEF IsKept, KeptStep
<1>4. WithoutNewlines(s) = kept[Len(s)]
  BY DEF WithoutNewlines
<1> HIDE DEF kept
<1>5. IsKept(s, kept, Len(s))
  BY <1>3 DEF IsKept, KeptStep
<1>6. QED
  BY <1>4, <1>5

(* Where the pieces of s are in m, which is s without its newlines: idx[p] *)
(* of the first p pieces are left.                                         *)
Indexes(s, idx, m) ==
    /\ \A p \in 0 .. Len(s) : idx[p] \in Nat /\ idx[p] <= Len(m)
    /\ idx[0] = 0 /\ idx[Len(s)] = Len(m)
    /\ \A p \in 1 .. Len(s) : s[p] # "\n" => idx[p] >= 1 /\ m[idx[p]] = s[p]
    /\ \A p, q \in 0 .. Len(s) : p <= q => idx[p] <= idx[q]
    /\ \A p, q \in 0 .. Len(s) : p < q /\ s[q] # "\n" => idx[p] < idx[q]
    /\ \A p, q \in 0 .. Len(s) :
         p <= q /\ (\A x \in p + 1 .. q : s[x] # "\n") => idx[q] = idx[p] + (q - p)
    /\ \A q \in 1 .. Len(s) : s[q] = "\n" => idx[q] = idx[q - 1]
    /\ \A i \in 1 .. Len(m) : \E p \in 1 .. Len(s) : s[p] # "\n" /\ idx[p] = i

(* What holds of the first k pieces. *)
KeptSoFar(S, s, f, k) ==
    /\ f[k] \in Seq(S)
    /\ \A p \in 0 .. k : Len(f[p]) \in Nat /\ Len(f[p]) <= Len(f[k])
    /\ \A p \in 1 .. k : s[p] # "\n" => Len(f[p]) >= 1 /\ f[k][Len(f[p])] = s[p]
    /\ \A p \in 0 .. k : p < k /\ s[k] # "\n" => Len(f[p]) < Len(f[k])
    /\ \A p \in 0 .. k :
         (\A x \in p + 1 .. k : s[x] # "\n") => Len(f[k]) = Len(f[p]) + (k - p)
    /\ \A i \in 1 .. Len(f[k]) : \E p \in 1 .. k : s[p] # "\n" /\ Len(f[p]) = i

LEMMA KeptStart ==
    ASSUME NEW S, NEW s \in Seq(S), NEW f, f[0] = <<>>
    PROVE  KeptSoFar(S, s, f, 0)
BY DEF KeptSoFar

LEMMA KeptOne ==
    ASSUME NEW S, NEW s \in Seq(S), NEW f, NEW k \in 1 .. Len(s),
           f[k] = IF s[k] = "\n" THEN f[k - 1] ELSE Append(f[k - 1], s[k]),
           KeptSoFar(S, s, f, k - 1)
    PROVE  KeptSoFar(S, s, f, k)
<1> DEFINE old == f[k - 1]
           new == f[k]
<1>0. /\ k \in Nat /\ k >= 1 /\ s[k] \in S
      /\ \A p \in 0 .. k : p = k \/ p \in 0 .. k - 1
      /\ \A p \in 1 .. k : p = k \/ p \in 1 .. k - 1
      /\ \A p \in 1 .. k - 1 : p \in 1 .. k
      /\ k - k = 0
  <2>1. Len(s) \in Nat
    OBVIOUS
  <2>2. s[k] \in S
    BY ElementOfSeq
  <2>3. QED
    BY <2>1, <2>2
<1>1. /\ old \in Seq(S) /\ Len(old) \in Nat
      /\ \A p \in 0 .. k - 1 : Len(f[p]) \in Nat /\ Len(f[p]) <= Len(old)
      /\ \A p \in 1 .. k - 1 : s[p] # "\n" => Len(f[p]) >= 1 /\ old[Len(f[p])] = s[p]
      /\ \A p \in 0 .. k - 1 :
           (\A x \in p + 1 .. k - 1 : s[x] # "\n") => Len(old) = Len(f[p]) + (k - 1 - p)
      /\ \A i \in 1 .. Len(old) : \E p \in 1 .. k - 1 : s[p] # "\n" /\ Len(f[p]) = i
  <2>1. old \in Seq(S)
    BY DEF KeptSoFar
  <2>2. Len(old) \in Nat
    BY <2>1, LenProperties
  <2>3. QED
    BY <2>1, <2>2 DEF KeptSoFar
<1>2. CASE s[k] = "\n"
  <2>1. new = old
    BY <1>2
  <2>2. \A p \in 0 .. k : Len(f[p]) \in Nat /\ Len(f[p]) <= Len(new)
    BY <1>0, <1>1, <2>1
  <2>3. \A p \in 1 .. k : s[p] # "\n" => Len(f[p]) >= 1 /\ new[Len(f[p])] = s[p]
    BY <1>0, <1>1, <1>2, <2>1
  <2>4. ASSUME NEW p \in 0 .. k, \A x \in p + 1 .. k : s[x] # "\n"
        PROVE  Len(new) = Len(f[p]) + (k - p)
    <3>1. p = k
      <4>1. p # k => k \in p + 1 .. k
        BY <1>0
      <4>2. QED
        BY <1>2, <2>4, <4>1
    <3>2. k - p = 0 /\ Len(f[p]) = Len(new) /\ Len(new) \in Nat
      BY <1>0, <1>1, <2>1, <3>1
    <3> HIDE DEF new, old
    <3>3. QED
      BY <3>2
  <2>5. \A i \in 1 .. Len(new) : \E p \in 1 .. k : s[p] # "\n" /\ Len(f[p]) = i
    BY <1>0, <1>1, <2>1
  <2>6. QED
    BY <1>1, <1>2, <2>1, <2>2, <2>3, <2>4, <2>5 DEF KeptSoFar
<1>3. CASE s[k] # "\n"
  <2>1. /\ new \in Seq(S) /\ Len(new) = Len(old) + 1
        /\ \A i \in 1 .. Len(old) : new[i] = old[i]
        /\ new[Len(old) + 1] = s[k]
    BY <1>0, <1>1, <1>3, AppendProperties
  <2> HIDE DEF old, new
  <2>2. \A p \in 0 .. k - 1 : Len(f[p]) < Len(new)
    BY <1>1, <2>1
  <2>3. \A p \in 0 .. k : Len(f[p]) \in Nat /\ Len(f[p]) <= Len(new)
    <3>1. Len(new) \in Nat
      BY <1>1, <2>1
    <3>2. f[k] = new
      BY DEF new
    <3>3. \A p \in 0 .. k - 1 : Len(f[p]) \in Nat /\ Len(f[p]) <= Len(new)
      BY <1>1, <2>2, <3>1
    <3>4. Len(f[k]) \in Nat /\ Len(f[k]) <= Len(new)
      <4>1. Len(new) <= Len(new)
        BY <3>1
      <4>2. QED
        BY <3>1, <3>2, <4>1, Zenon
    <3>5. QED
      BY <1>0, <3>3, <3>4
  <2>4. \A p \in 1 .. k : s[p] # "\n" => Len(f[p]) >= 1 /\ new[Len(f[p])] = s[p]
    <3> SUFFICES ASSUME NEW p \in 1 .. k, s[p] # "\n"
                 PROVE  Len(f[p]) >= 1 /\ new[Len(f[p])] = s[p]
      OBVIOUS
    <3>1. CASE p = k
      BY <1>1, <2>1, <3>1 DEF new
    <3>2. CASE p \in 1 .. k - 1
      <4>1. Len(f[p]) >= 1 /\ old[Len(f[p])] = s[p]
        BY <1>1, <3>2
      <4>2. Len(f[p]) \in 1 .. Len(old)
        BY <1>1, <3>2, <4>1
      <4>3. QED
        BY <2>1, <4>1, <4>2
    <3>3. QED
      BY <1>0, <3>1, <3>2
  <2>5. ASSUME NEW p \in 0 .. k, \A x \in p + 1 .. k : s[x] # "\n"
        PROVE  Len(new) = Len(f[p]) + (k - p)
    <3>1. CASE p = k
      <4>1. f[p] = new
        BY <3>1 DEF new
      <4>2. k - p = 0 /\ Len(new) \in Nat
        BY <1>0, <1>1, <2>1, <3>1
      <4>3. QED
        BY <4>1, <4>2
    <3>2. CASE p \in 0 .. k - 1
      <4>1. \A x \in p + 1 .. k - 1 : x \in p + 1 .. k
        BY <1>0
      <4>2. Len(old) = Len(f[p]) + (k - 1 - p)
        BY <1>1, <2>5, <3>2, <4>1
      <4>3. QED
        BY <1>0, <1>1, <2>1, <3>2, <4>2
    <3>3. QED
      BY <1>0, <3>1, <3>2
  <2>6. ASSUME NEW i \in 1 .. Len(new)
        PROVE  \E p \in 1 .. k : s[p] # "\n" /\ Len(f[p]) = i
    <3>1. CASE i = Len(new)
      <4>1. k \in 1 .. k
        BY <1>0
      <4>2. QED
        BY <1>3, <3>1, <4>1 DEF new
    <3>2. CASE i # Len(new)
      <4>1. i \in 1 .. Len(old)
        BY <1>1, <2>1, <3>2
      <4>2. PICK p \in 1 .. k - 1 : s[p] # "\n" /\ Len(f[p]) = i
        BY <1>1, <4>1
      <4>3. p \in 1 .. k
        BY <1>0
      <4>4. QED
        BY <4>2, <4>3
    <3>3. QED
      BY <3>1, <3>2
  <2>7. \A p \in 0 .. k : p < k /\ s[k] # "\n" => Len(f[p]) < Len(new)
    BY <1>0, <2>2
  <2>8. QED
    BY <2>1, <2>3, <2>4, <2>5, <2>6, <2>7 DEF KeptSoFar, new
<1>4. QED
  BY <1>2, <1>3

(* The message of a text has every piece of it but the newlines, in the    *)
(* same order.                                                             *)
LEMMA MessageIndexes ==
    ASSUME NEW S, NEW s \in Seq(S)
    PROVE  /\ WithoutNewlines(s) \in Seq(S)
           /\ \E idx : Indexes(s, idx, WithoutNewlines(s))
<1> DEFINE n == Len(s)
<1>1. n \in Nat
  OBVIOUS
<1>2. PICK f : IsKept(s, f, n) /\ WithoutNewlines(s) = f[n]
  BY KeptDef
<1> DEFINE T == {k \in 0 .. n : KeptSoFar(S, s, f, k)}
<1>3. 0 \in T
  <2>1. f[0] = <<>>
    BY <1>1, <1>2 DEF IsKept, KeptStep
  <2>2. QED
    BY <1>1, <2>1, KeptStart
<1>4. ASSUME NEW k \in 1 .. n, k - 1 \in T
      PROVE  k \in T
  <2>1. f[k] = IF s[k] = "\n" THEN f[k - 1] ELSE Append(f[k - 1], s[k])
    <3>1. k \in 0 .. n /\ k # 0
      BY <1>1
    <3> HIDE DEF n
    <3>2. f[k] = KeptStep(s, f, k)
      BY <1>2, <3>1 DEF IsKept
    <3>3. QED
      BY <3>1, <3>2 DEF KeptStep
  <2>2. QED
    BY <1>1, <1>4, <2>1, KeptOne
<1>5. \A k \in 0 .. n : KeptSoFar(S, s, f, k)
  <2> HIDE DEF n
  <2>1. T \subseteq 0 .. n
    OBVIOUS
  <2> HIDE DEF T
  <2>2. T = 0 .. n
    BY <1>1, <1>3, <1>4, <2>1, Induction
  <2>3. QED
    BY <2>2 DEF T
<1> DEFINE m == f[n]
           idx == [p \in 0 .. n |-> Len(f[p])]
<1>6. KeptSoFar(S, s, f, n)
  BY <1>1, <1>5
<1>7. \A p \in 0 .. n : idx[p] = Len(f[p])
  OBVIOUS
<1> HIDE DEF idx
<1>8. \A p \in 0 .. n : idx[p] \in Nat /\ idx[p] <= Len(m)
  BY <1>6, <1>7 DEF KeptSoFar
<1>9. idx[0] = 0 /\ idx[n] = Len(m)
  <2>1. f[0] = <<>>
    BY <1>1, <1>2 DEF IsKept, KeptStep
  <2>2. QED
    BY <1>1, <1>7, <2>1
<1>10. \A p \in 1 .. n : s[p] # "\n" => idx[p] >= 1 /\ m[idx[p]] = s[p]
  BY <1>6, <1>7 DEF KeptSoFar
<1>11. \A p, q \in 0 .. n : p <= q => idx[p] <= idx[q]
  <2> SUFFICES ASSUME NEW p \in 0 .. n, NEW q \in 0 .. n, p <= q
               PROVE  idx[p] <= idx[q]
    OBVIOUS
  <2>1. p \in 0 .. q /\ KeptSoFar(S, s, f, q)
    BY <1>1, <1>5
  <2>2. QED
    BY <1>7, <2>1 DEF KeptSoFar
<1>12. \A p, q \in 0 .. n : p < q /\ s[q] # "\n" => idx[p] < idx[q]
  <2> SUFFICES ASSUME NEW p \in 0 .. n, NEW q \in 0 .. n, p < q, s[q] # "\n"
               PROVE  idx[p] < idx[q]
    OBVIOUS
  <2>1. p \in 0 .. q /\ KeptSoFar(S, s, f, q)
    BY <1>1, <1>5
  <2>2. QED
    BY <1>7, <2>1 DEF KeptSoFar
<1>13. \A p, q \in 0 .. n :
         p <= q /\ (\A x \in p + 1 .. q : s[x] # "\n") => idx[q] = idx[p] + (q - p)
  <2> SUFFICES ASSUME NEW p \in 0 .. n, NEW q \in 0 .. n, p <= q,
                      \A x \in p + 1 .. q : s[x] # "\n"
               PROVE  idx[q] = idx[p] + (q - p)
    OBVIOUS
  <2>1. p \in 0 .. q /\ KeptSoFar(S, s, f, q)
    BY <1>1, <1>5
  <2>2. QED
    BY <1>7, <2>1 DEF KeptSoFar
<1>14. \A i \in 1 .. Len(m) : \E p \in 1 .. n : s[p] # "\n" /\ idx[p] = i
  <2>1. \A p \in 1 .. n : p \in 0 .. n
    BY <1>1
  <2>2. QED
    BY <1>6, <1>7, <2>1 DEF KeptSoFar
<1>15. ASSUME NEW q \in 1 .. n, s[q] = "\n"
       PROVE  idx[q] = idx[q - 1]
  <2>1. q \in 0 .. n /\ q - 1 \in 0 .. n /\ q # 0
    BY <1>1
  <2> HIDE DEF n
  <2>2. f[q] = f[q - 1]
    BY <1>2, <1>15, <2>1 DEF IsKept, KeptStep
  <2>3. QED
    BY <1>7, <2>1, <2>2
<1>16. Indexes(s, idx, m)
  BY <1>8, <1>9, <1>10, <1>11, <1>12, <1>13, <1>14, <1>15 DEF Indexes
<1>17. m \in Seq(S)
  BY <1>6 DEF KeptSoFar
<1>18. QED
  BY <1>2, <1>16, <1>17

-----------------------------------------------------------------------------
(* The pieces of a line.                                                   *)

ArgPiece == NumberDigit \cup {Space, "T", "T="}

LEMMA Keywords ==
    /\ DOMAIN Keyword = {"status", "enter", "leave", "sound", "message", "temperature"}
    /\ Keyword["status"] = <<"stat", "us ">>
    /\ Keyword["enter"] = <<"ent", "er ">>
    /\ Keyword["leave"] = <<"lea", "ve ">>
    /\ Keyword["sound"] = <<"sou", "nd ">>
    /\ Keyword["message"] = <<"mess", "age ">>
    /\ Keyword["temperature"] = <<"temper", "ature ">>
BY DEF Keyword

LEMMA KeywordHalves ==
    /\ Keyword["status"][1] = "stat" /\ Keyword["status"][2] = "us "
    /\ Keyword["enter"][1] = "ent" /\ Keyword["enter"][2] = "er "
    /\ Keyword["leave"][1] = "lea" /\ Keyword["leave"][2] = "ve "
    /\ Keyword["sound"][1] = "sou" /\ Keyword["sound"][2] = "nd "
    /\ Keyword["message"][1] = "mess" /\ Keyword["message"][2] = "age "
    /\ Keyword["temperature"][1] = "temper" /\ Keyword["temperature"][2] = "ature "
BY DEF Keyword

LEMMA KeywordShape ==
    ASSUME NEW k \in DOMAIN Keyword
    PROVE  /\ Keyword[k] = <<Keyword[k][1], Keyword[k][2]>>
           /\ Keyword[k][1] \in Piece /\ Keyword[k][2] \in Piece
<1>1. Keyword[k] = <<Keyword[k][1], Keyword[k][2]>>
  <2>1. \A x, y : <<x, y>>[1] = x /\ <<x, y>>[2] = y
    OBVIOUS
  <2>2. PICK x, y : Keyword[k] = <<x, y>>
    BY Keywords
  <2>3. QED
    BY <2>1, <2>2
<1>2. {Keyword[k][1], Keyword[k][2]} \subseteq Piece
  BY DEF Piece
<1>3. QED
  BY <1>1, <1>2

(* A half of a keyword is no half of another, and nothing else. *)
LEMMA KeywordApart ==
    ASSUME NEW k \in DOMAIN Keyword, NEW j \in DOMAIN Keyword
    PROVE  /\ Keyword[k][1] = Keyword[j][1] => k = j
           /\ Keyword[k][2] = Keyword[j][2] => k = j
           /\ Keyword[k][1] # Keyword[j][2]
<1>1. /\ k \in {"status", "enter", "leave", "sound", "message", "temperature"}
      /\ j \in {"status", "enter", "leave", "sound", "message", "temperature"}
  BY Keywords
<1>2. QED
  BY <1>1, KeywordHalves

LEMMA ArgApart ==
    ASSUME NEW k \in DOMAIN Keyword, NEW x \in ArgPiece
    PROVE  /\ Keyword[k][1] # x /\ Keyword[k][2] # x /\ x # "\n"
           /\ Keyword[k][1] # "\n" /\ Keyword[k][2] # "\n"
<1>1. k \in {"status", "enter", "leave", "sound", "message", "temperature"}
  BY Keywords
<1>2. QED
  BY <1>1, KeywordHalves DEF ArgPiece, NumberDigit, Space

LEMMA IntOfDigits ==
    ASSUME NEW s \in Seq(Piece), IsInt(s)
    PROVE  Len(s) >= 1 /\ \A i \in 1 .. Len(s) : s[i] \in NumberDigit
BY DEF IsInt

LEMMA Pieces ==
    ASSUME NEW S, NEW s \in Seq(S), NEW i \in 1 .. Len(s)
    PROVE  /\ SubSeq(s, 1, i - 1) \in Seq(S) /\ Len(SubSeq(s, 1, i - 1)) = i - 1
           /\ \A j \in 1 .. i - 1 : SubSeq(s, 1, i - 1)[j] = s[j]
           /\ SubSeq(s, i + 1, Len(s)) \in Seq(S)
           /\ Len(SubSeq(s, i + 1, Len(s))) = Len(s) - i
           /\ \A j \in 1 .. Len(s) - i : SubSeq(s, i + 1, Len(s))[j] = s[i + j]
OBVIOUS

LEMMA ArgPieces ==
    ASSUME NEW line, WellFormed(line)
    PROVE  line.arg \in Seq(ArgPiece)
<1> DEFINE a == line.arg
<1>1. line.key \in DOMAIN Keyword /\ a \in Seq(Piece) /\ Len(a) \in Nat
  <2>1. line \in [key : DOMAIN Keyword, arg : Seq(Piece)]
    BY DEF WellFormed
  <2>2. QED
    BY <2>1
<1>2. \A i \in 1 .. Len(a) : a[i] \in ArgPiece
  <2>1. CASE line.key \in IntKey.php
    BY <1>1, <2>1, IntOfDigits DEF WellFormed, ArgPiece
  <2>2. ASSUME NEW i \in 1 .. Len(a), IntBefore(a, i),
               \/ After(a, i) \in {<<>>, <<"T">>, <<"T=">>}
               \/ IsInt(After(a, i))
        PROVE  \A j \in 1 .. Len(a) : a[j] \in ArgPiece
    <3> DEFINE before == SubSeq(a, 1, i - 1)
               after == SubSeq(a, i + 1, Len(a))
    <3>1. /\ before \in Seq(Piece) /\ Len(before) = i - 1
          /\ \A j \in 1 .. i - 1 : before[j] = a[j]
          /\ after \in Seq(Piece) /\ Len(after) = Len(a) - i
          /\ \A j \in 1 .. Len(a) - i : after[j] = a[i + j]
      BY <1>1, Pieces
    <3>2. a[i] = Space /\ IsInt(before)
      BY <2>2 DEF IntBefore
    <3>3. after \in {<<>>, <<"T">>, <<"T=">>} \/ IsInt(after)
      BY <2>2 DEF After
    <3> HIDE DEF before, after
    <3>4. \A j \in 1 .. i - 1 : before[j] \in ArgPiece
      BY <3>1, <3>2, IntOfDigits DEF ArgPiece
    <3>5. \A j \in 1 .. Len(after) : after[j] \in ArgPiece
      <4>1. CASE IsInt(after)
        BY <3>1, <4>1, IntOfDigits DEF ArgPiece
      <4>2. CASE after \in {<<>>, <<"T">>, <<"T=">>}
        <5>1. CASE after = <<>>
          BY <5>1
        <5>2. ASSUME NEW t \in {"T", "T="}, after = <<t>>
              PROVE  \A j \in 1 .. Len(after) : after[j] \in ArgPiece
          <6>1. Len(after) = 1 /\ after[1] = t /\ t \in ArgPiece
            BY <5>2 DEF ArgPiece
          <6>2. QED
            BY <6>1
        <5>3. after = <<>> \/ \E t \in {"T", "T="} : after = <<t>>
          BY <4>2
        <5>4. QED
          BY <5>1, <5>2, <5>3
      <4>3. QED
        BY <3>3, <4>1, <4>2
    <3>6. SUFFICES ASSUME NEW j \in 1 .. Len(a)
                   PROVE  a[j] \in ArgPiece
      OBVIOUS
    <3>7. CASE j < i
      <4>1. j \in 1 .. i - 1
        BY <1>1, <3>7
      <4>2. QED
        BY <3>1, <3>4, <4>1
    <3>8. CASE j = i
      BY <3>2, <3>8 DEF ArgPiece
    <3>9. CASE j > i
      <4>1. j - i \in 1 .. Len(a) - i /\ i + (j - i) = j
        BY <1>1, <3>9
      <4>2. after[j - i] = a[j]
        BY <3>1, <4>1
      <4>3. QED
        BY <3>1, <3>5, <4>1, <4>2
    <3>10. QED
      BY <1>1, <3>7, <3>8, <3>9
  <2>3. CASE line.key = "message"
    BY <1>1, <2>2, <2>3 DEF WellFormed
  <2>4. CASE line.key = "temperature"
    BY <1>1, <2>2, <2>4 DEF WellFormed
  <2>5. line.key \in IntKey.php \/ line.key = "message" \/ line.key = "temperature"
    BY <1>1, Keywords DEF IntKey
  <2>6. QED
    BY <2>1, <2>3, <2>4, <2>5
<1>3. QED
  BY <1>1, <1>2

(* The pieces of the text of a line. *)
LEMMA TextPieces ==
    ASSUME NEW line, WellFormed(line)
    PROVE  /\ line.key \in DOMAIN Keyword
           /\ line.arg \in Seq(Piece) /\ Len(line.arg) \in Nat
           /\ \A i \in 1 .. Len(line.arg) : line.arg[i] \in ArgPiece
           /\ Text(line) \in Seq(Piece) /\ Len(Text(line)) = 3 + Len(line.arg)
           /\ Text(line)[1] = Keyword[line.key][1]
           /\ Text(line)[2] = Keyword[line.key][2]
           /\ \A i \in 1 .. Len(line.arg) : Text(line)[2 + i] = line.arg[i]
           /\ Text(line)[3 + Len(line.arg)] = "\n"
<1>1. /\ line.key \in DOMAIN Keyword
      /\ line.arg \in Seq(Piece) /\ Len(line.arg) \in Nat
  <2>1. line \in [key : DOMAIN Keyword, arg : Seq(Piece)]
    BY DEF WellFormed
  <2>2. QED
    BY <2>1
<1>2. \A i \in 1 .. Len(line.arg) : line.arg[i] \in ArgPiece
  BY ArgPieces, ElementOfSeq
<1> DEFINE k == Keyword[line.key]
           a == line.arg
           ka == k \o a
           all == ka \o <<"\n">>
<1>3. k \in Seq(Piece) /\ Len(k) = 2
  <2>1. k = <<k[1], k[2]>> /\ k[1] \in Piece /\ k[2] \in Piece
    BY <1>1, KeywordShape
  <2> HIDE DEF k
  <2>2. \A x, y \in Piece : <<x, y>> \in Seq(Piece) /\ Len(<<x, y>>) = 2
    OBVIOUS
  <2>3. QED
    BY <2>1, <2>2
<1>4. Text(line) = all
  BY DEF Text
<1>5. <<"\n">> \in Seq(Piece) /\ Len(<<"\n">>) = 1 /\ <<"\n">>[1] = "\n"
  BY DEF Piece
<1> HIDE DEF k, a
<1>6. /\ ka \in Seq(Piece) /\ Len(ka) = 2 + Len(a)
      /\ \A i \in 1 .. 2 + Len(a) : ka[i] = IF i <= 2 THEN k[i] ELSE a[i - 2]
  BY <1>1, <1>3, ConcatProperties DEF a
<1> HIDE DEF ka
<1>7. /\ all \in Seq(Piece) /\ Len(all) = 3 + Len(a)
      /\ \A i \in 1 .. 3 + Len(a) :
           all[i] = IF i <= 2 + Len(a) THEN ka[i] ELSE <<"\n">>[i - (2 + Len(a))]
  <2>1. Len(a) \in Nat
    BY <1>1 DEF a
  <2>2. QED
    BY <1>5, <1>6, <2>1, ConcatProperties
<1> HIDE DEF all
<1>8. Len(a) \in Nat
  BY <1>1 DEF a
<1>9. all[1] = k[1] /\ all[2] = k[2]
  BY <1>6, <1>7, <1>8
<1>10. ASSUME NEW i \in 1 .. Len(a)
       PROVE  all[2 + i] = a[i]
  <2>1. 2 + i \in 1 .. 2 + Len(a) /\ 2 + i \in 1 .. 3 + Len(a) /\ (2 + i) - 2 = i
        /\ 2 + i <= 2 + Len(a) /\ ~(2 + i <= 2)
    BY <1>8
  <2>2. all[2 + i] = ka[2 + i]
    BY <1>7, <2>1
  <2>3. QED
    BY <1>6, <2>1, <2>2
<1>11. all[3 + Len(a)] = "\n"
  <2>1. 3 + Len(a) \in 1 .. 3 + Len(a) /\ (3 + Len(a)) - (2 + Len(a)) = 1
        /\ ~(3 + Len(a) <= 2 + Len(a))
    BY <1>8
  <2>2. QED
    BY <1>5, <1>7, <2>1
<1>12. QED
  BY <1>1, <1>2, <1>4, <1>7, <1>9, <1>10, <1>11 DEF k, a

(* What a piece of the text of a line says of where it is in it. *)
LEMMA PieceAt ==
    ASSUME NEW line, WellFormed(line), NEW o \in 1 .. Len(Text(line))
    PROVE  /\ \A k \in DOMAIN Keyword :
                /\ Text(line)[o] = Keyword[k][1] => o = 1 /\ line.key = k
                /\ Text(line)[o] = Keyword[k][2] => o = 2 /\ line.key = k
           /\ Text(line)[o] = "\n" <=> o = 3 + Len(line.arg)
           /\ Text(line)[o] \in NumberDigit => o > 2
<1> DEFINE x == Text(line)[o]
           a == line.arg
<1>1. line.key \in DOMAIN Keyword /\ Len(a) \in Nat /\ o \in 1 .. 3 + Len(a)
  BY TextPieces
<1>2. \/ o = 1 /\ x = Keyword[line.key][1]
      \/ o = 2 /\ x = Keyword[line.key][2]
      \/ o > 2 /\ o < 3 + Len(a) /\ x \in ArgPiece
      \/ o = 3 + Len(a) /\ x = "\n"
  <2>1. CASE o = 1 \/ o = 2 \/ o = 3 + Len(a)
    BY <2>1, TextPieces
  <2>2. CASE o > 2 /\ o < 3 + Len(a)
    <3>1. o - 2 \in 1 .. Len(a) /\ 2 + (o - 2) = o
      BY <1>1, <2>2
    <3>2. Text(line)[2 + (o - 2)] = a[o - 2] /\ a[o - 2] \in ArgPiece
      BY <3>1, TextPieces
    <3>3. QED
      BY <2>2, <3>1, <3>2
  <2>3. QED
    BY <1>1, <2>1, <2>2
<1>3. NumberDigit \subseteq ArgPiece
  BY DEF ArgPiece
<1> HIDE DEF x, a
<1>4. \A k \in DOMAIN Keyword :
        /\ x = Keyword[k][1] => o = 1 /\ line.key = k
        /\ x = Keyword[k][2] => o = 2 /\ line.key = k
  <2> SUFFICES ASSUME NEW k \in DOMAIN Keyword
               PROVE  /\ x = Keyword[k][1] => o = 1 /\ line.key = k
                      /\ x = Keyword[k][2] => o = 2 /\ line.key = k
    OBVIOUS
  <2>1. /\ Keyword[line.key][1] = Keyword[k][1] => line.key = k
        /\ Keyword[line.key][2] = Keyword[k][2] => line.key = k
        /\ Keyword[line.key][1] # Keyword[k][2]
        /\ Keyword[line.key][2] # Keyword[k][1]
    BY <1>1, KeywordApart
  <2>2. Keyword[k][1] # "\n" /\ Keyword[k][2] # "\n"
    BY ArgApart DEF ArgPiece
  <2>3. x \in ArgPiece => x # Keyword[k][1] /\ x # Keyword[k][2]
    BY ArgApart
  <2>4. QED
    BY <1>2, <2>1, <2>2, <2>3
<1>5. x = "\n" <=> o = 3 + Len(a)
  <2>1. Keyword[line.key][1] # "\n" /\ Keyword[line.key][2] # "\n"
    BY <1>1, ArgApart DEF ArgPiece
  <2>2. x \in ArgPiece => x # "\n"
    BY <1>1, ArgApart
  <2>3. QED
    BY <1>1, <1>2, <2>1, <2>2
<1>6. x \in NumberDigit => o > 2
  <2>1. x # "\n" \/ x \notin NumberDigit
    BY <1>1, <1>3, ArgApart
  <2>2. QED
    BY <1>1, <1>2, <1>3, <2>1, ArgApart
<1>7. QED
  BY <1>4, <1>5, <1>6 DEF x, a

-----------------------------------------------------------------------------
(* Where the pieces of a stream come from.                                 *)

(* Piece p of s is piece off[p] of the text of lines[own[p]], and what     *)
(* follows it is the rest of that line, then the lines after it.           *)
Lines(lines) == Len(lines) \in Nat /\ \A i \in 1 .. Len(lines) : WellFormed(lines[i])
LineLen(lines, i) == 3 + Len(lines[i].arg)
Laid(s, lines, own, off) ==
    /\ \A p \in 1 .. Len(s) :
         /\ own[p] \in 1 .. Len(lines) /\ off[p] \in 1 .. LineLen(lines, own[p])
         /\ s[p] = Text(lines[own[p]])[off[p]]
    /\ \A p, q \in 1 .. Len(s) : p < q =>
         \/ own[q] = own[p] /\ off[q] = off[p] + (q - p)
         \/ own[q] > own[p] /\ q - p >= off[q] /\ q - p > LineLen(lines, own[p]) - off[p]

LEMMA LaidPiece ==
    ASSUME NEW lines, Lines(lines), NEW s \in Seq(Piece), NEW own, NEW off,
           Laid(s, lines, own, off), NEW p \in 1 .. Len(s)
    PROVE  /\ own[p] \in 1 .. Len(lines) /\ off[p] \in 1 .. LineLen(lines, own[p])
           /\ own[p] \in Nat /\ off[p] \in Nat /\ LineLen(lines, own[p]) \in Nat
           /\ Len(lines[own[p]].arg) \in Nat
           /\ LineLen(lines, own[p]) = 3 + Len(lines[own[p]].arg)
           /\ lines[own[p]].key \in DOMAIN Keyword
           /\ \A k \in DOMAIN Keyword :
                /\ s[p] = Keyword[k][1] <=> off[p] = 1 /\ lines[own[p]].key = k
                /\ s[p] = Keyword[k][2] <=> off[p] = 2 /\ lines[own[p]].key = k
           /\ s[p] = "\n" <=> off[p] = LineLen(lines, own[p])
           /\ s[p] \in NumberDigit => off[p] > 2
           /\ off[p] > 2 /\ s[p] # "\n" =>
                /\ off[p] - 2 \in 1 .. Len(lines[own[p]].arg)
                /\ s[p] = lines[own[p]].arg[off[p] - 2]
<1> DEFINE line == lines[own[p]]
<1>1. /\ own[p] \in 1 .. Len(lines) /\ off[p] \in 1 .. LineLen(lines, own[p])
      /\ s[p] = Text(line)[off[p]]
  BY DEF Laid
<1>2. WellFormed(line) /\ Len(lines) \in Nat
  BY <1>1 DEF Lines
<1>3. LineLen(lines, own[p]) = 3 + Len(line.arg)
  BY DEF LineLen
<1> HIDE DEF line
<1>4. /\ line.key \in DOMAIN Keyword /\ Len(line.arg) \in Nat
      /\ Len(Text(line)) = 3 + Len(line.arg)
      /\ Text(line)[1] = Keyword[line.key][1]
      /\ Text(line)[2] = Keyword[line.key][2]
      /\ \A i \in 1 .. Len(line.arg) : Text(line)[2 + i] = line.arg[i]
  BY <1>2, TextPieces
<1>5. /\ \A k \in DOMAIN Keyword :
           /\ Text(line)[off[p]] = Keyword[k][1] => off[p] = 1 /\ line.key = k
           /\ Text(line)[off[p]] = Keyword[k][2] => off[p] = 2 /\ line.key = k
      /\ Text(line)[off[p]] = "\n" <=> off[p] = 3 + Len(line.arg)
      /\ Text(line)[off[p]] \in NumberDigit => off[p] > 2
  BY <1>1, <1>2, <1>3, <1>4, PieceAt
<1>6. off[p] > 2 /\ s[p] # "\n" => off[p] - 2 \in 1 .. Len(line.arg) /\ s[p] = line.arg[off[p] - 2]
  <2> SUFFICES ASSUME off[p] > 2, s[p] # "\n"
               PROVE  off[p] - 2 \in 1 .. Len(line.arg) /\ s[p] = line.arg[off[p] - 2]
    OBVIOUS
  <2>1. off[p] \in 1 .. 3 + Len(line.arg) /\ off[p] # 3 + Len(line.arg)
    BY <1>1, <1>3, <1>5
  <2>2. off[p] - 2 \in 1 .. Len(line.arg) /\ 2 + (off[p] - 2) = off[p]
    BY <1>4, <2>1
  <2>3. QED
    BY <1>1, <1>4, <2>2
<1>7. /\ off[p] = 1 => s[p] = Keyword[line.key][1]
      /\ off[p] = 2 => s[p] = Keyword[line.key][2]
  BY <1>1, <1>4
<1>8. \A k \in DOMAIN Keyword :
        /\ s[p] = Keyword[k][1] <=> off[p] = 1 /\ line.key = k
        /\ s[p] = Keyword[k][2] <=> off[p] = 2 /\ line.key = k
  BY <1>1, <1>5, <1>7
<1>9. own[p] \in Nat /\ off[p] \in Nat /\ LineLen(lines, own[p]) \in Nat
  BY <1>1, <1>2, <1>3, <1>4
<1>10. QED
  BY <1>1, <1>3, <1>4, <1>5, <1>6, <1>8, <1>9 DEF line

LEMMA LaidOrder ==
    ASSUME NEW lines, Lines(lines), NEW s \in Seq(Piece), NEW own, NEW off,
           Laid(s, lines, own, off), NEW p \in 1 .. Len(s), NEW q \in 1 .. Len(s), p < q
    PROVE  \/ own[q] = own[p] /\ off[q] = off[p] + (q - p)
           \/ own[q] > own[p] /\ q - p >= off[q] /\ q - p > LineLen(lines, own[p]) - off[p]
BY DEF Laid

(* Only digits and newlines after q: no line begins there. *)
LEMMA SameLine ==
    ASSUME NEW lines, Lines(lines), NEW s \in Seq(Piece), NEW own, NEW off,
           Laid(s, lines, own, off), NEW q \in 1 .. Len(s),
           \A x \in q + 1 .. Len(s) : s[x] = "\n" \/ s[x] \in NumberDigit,
           NEW x \in q .. Len(s)
    PROVE  own[x] = own[q] /\ off[x] = off[q] + (x - q)
<1>0. Len(s) \in Nat /\ x \in 1 .. Len(s)
  OBVIOUS
<1>1. CASE x = q
  <2>1. off[q] \in Nat
    BY LaidPiece
  <2>2. QED
    BY <1>1, <2>1
<1>2. CASE x > q
  <2>1. SUFFICES ASSUME own[x] > own[q], x - q >= off[x]
                 PROVE  FALSE
    BY <1>0, <1>2, LaidOrder
  <2>2. /\ off[x] \in 1 .. LineLen(lines, own[x]) /\ own[x] \in Nat /\ off[x] \in Nat
        /\ LineLen(lines, own[x]) \in Nat
    BY <1>0, LaidPiece
  <2> DEFINE y == x - off[x] + 1
  <2>3. y \in q + 1 .. Len(s) /\ y \in 1 .. Len(s) /\ x - y = off[x] - 1 /\ y <= x
    BY <1>0, <1>2, <2>1, <2>2
  <2> HIDE DEF y
  <2>4. own[y] = own[x] /\ off[y] = 1
    <3>1. CASE y = x
      BY <2>2, <2>3, <3>1
    <3>2. CASE y < x
      <4>1. off[y] \in Nat
        BY <2>3, LaidPiece
      <4>2. own[x] = own[y] /\ off[x] = off[y] + (x - y)
        BY <1>0, <2>2, <2>3, <3>2, LaidOrder
      <4>3. QED
        BY <2>2, <2>3, <4>1, <4>2
    <3>3. QED
      BY <2>3, <3>1, <3>2
  <2>5. /\ s[y] = "\n" <=> off[y] = LineLen(lines, own[y])
        /\ s[y] \in NumberDigit => off[y] > 2
        /\ LineLen(lines, own[y]) = 3 + Len(lines[own[y]].arg)
        /\ Len(lines[own[y]].arg) \in Nat
    BY <2>3, LaidPiece
  <2>6. QED
    BY <2>3, <2>4, <2>5
<1>3. QED
  BY <1>1, <1>2

EndsWith(m, i, L) == L = SubSeq(m, i + 1, Len(m))

(* A number at the end of a message is the argument of the line that its   *)
(* first digit comes from, or, of a line that is cut, the first digits of  *)
(* the argument.                                                           *)
LEMMA TailMeaning ==
    ASSUME NEW lines, Lines(lines), NEW s \in Seq(Piece), NEW own, NEW off,
           Laid(s, lines, own, off),
           NEW m \in Seq(Piece), NEW idx, Indexes(s, idx, m),
           NEW q \in 1 .. Len(s), s[q] # "\n", off[q] >= 2,
           NEW L, EndsWith(m, idx[q], L), IsInt(L)
    PROVE  LET n == Len(s)
               a == lines[own[q]].arg
           IN  /\ own[n] = own[q]
               /\ L \in Seq(Piece)
               /\ Len(L) \in 1 .. Len(a) - (off[q] - 2)
               /\ \A j \in 1 .. Len(L) : L[j] = a[off[q] - 2 + j]
               /\ s[n] = "\n" => Len(L) = Len(a) - (off[q] - 2)
<1> DEFINE n == Len(s)
           a == lines[own[q]].arg
           i == idx[q]
<1>0. n \in Nat /\ n >= 1 /\ q <= n /\ q \in Nat /\ q \in 0 .. n /\ n \in 0 .. n /\ Len(m) \in Nat
  OBVIOUS
<1>1. i \in Nat /\ i <= Len(m) /\ i >= 1 /\ idx[n] = Len(m)
  BY <1>0 DEF Indexes
<1>2. /\ L \in Seq(Piece) /\ Len(L) = Len(m) - i
      /\ \A j \in 1 .. Len(L) : L[j] = m[i + j]
  <2> HIDE DEF i
  <2>1. i \in 1 .. Len(m)
    BY <1>0, <1>1
  <2>2. /\ SubSeq(m, i + 1, Len(m)) \in Seq(Piece)
        /\ Len(SubSeq(m, i + 1, Len(m))) = Len(m) - i
        /\ \A j \in 1 .. Len(m) - i : SubSeq(m, i + 1, Len(m))[j] = m[i + j]
    BY <2>1, Pieces
  <2>3. L = SubSeq(m, i + 1, Len(m))
    BY DEF i, EndsWith
  <2>4. QED
    BY <2>2, <2>3
<1>2a. Len(L) = Len(m) - i
  BY <1>2
<1>3. Len(L) >= 1 /\ \A j \in 1 .. Len(L) : L[j] \in NumberDigit
  BY <1>2, IntOfDigits
<1>4. ASSUME NEW x \in q + 1 .. n, s[x] # "\n"
      PROVE  s[x] \in NumberDigit
  <2>1. x \in 1 .. n /\ x \in 0 .. n /\ q < x
    BY <1>0
  <2>2. idx[x] \in Nat /\ idx[x] <= Len(m) /\ m[idx[x]] = s[x] /\ idx[x] > i
    BY <1>0, <1>4, <2>1 DEF Indexes
  <2>3. idx[x] - i \in 1 .. Len(L) /\ i + (idx[x] - i) = idx[x]
    BY <1>0, <1>1, <1>2, <2>2
  <2> HIDE DEF i, n
  <2>4. L[idx[x] - i] = m[idx[x]]
    BY <1>2, <2>3
  <2>5. QED
    BY <1>3, <2>2, <2>3, <2>4
<1>5. \A x \in q .. n : own[x] = own[q] /\ off[x] = off[q] + (x - q)
  <2>1. \A x \in q + 1 .. Len(s) : s[x] = "\n" \/ s[x] \in NumberDigit
    BY <1>4
  <2> HIDE DEF n
  <2>2. \A x \in q .. Len(s) : own[x] = own[q] /\ off[x] = off[q] + (x - q)
    BY <2>1, SameLine
  <2>3. QED
    BY <2>2 DEF n
<1>6. /\ off[q] \in Nat /\ Len(a) \in Nat /\ off[q] < LineLen(lines, own[q])
      /\ LineLen(lines, own[q]) = 3 + Len(a)
  <2>1. off[q] \in 1 .. LineLen(lines, own[q]) /\ off[q] # LineLen(lines, own[q])
    BY LaidPiece
  <2>2. Len(a) \in Nat /\ LineLen(lines, own[q]) = 3 + Len(a) /\ off[q] \in Nat
    BY LaidPiece
  <2>3. QED
    BY <2>1, <2>2
<1>7. \A x \in q .. n : /\ off[q] + (x - q) <= 3 + Len(a)
                        /\ s[x] = "\n" <=> off[q] + (x - q) = 3 + Len(a)
  <2> SUFFICES ASSUME NEW x \in q .. n
               PROVE  /\ off[q] + (x - q) <= 3 + Len(a)
                      /\ s[x] = "\n" <=> off[q] + (x - q) = 3 + Len(a)
    OBVIOUS
  <2>1. x \in 1 .. n
    BY <1>0
  <2>2. /\ off[x] \in 1 .. LineLen(lines, own[x])
        /\ s[x] = "\n" <=> off[x] = LineLen(lines, own[x])
    BY <2>1, LaidPiece
  <2>3. QED
    BY <1>5, <1>6, <2>2
<1>8. \A x \in q .. n - 1 : s[x] # "\n"
  <2> SUFFICES ASSUME NEW x \in q .. n - 1, s[x] = "\n"
               PROVE  FALSE
    OBVIOUS
  <2>1. off[q] + (x - q) = 3 + Len(a) /\ off[q] + (n - q) <= 3 + Len(a)
    BY <1>0, <1>7
  <2>2. QED
    BY <1>0, <1>6, <2>1
<1>9. ASSUME NEW x \in q .. n - 1
      PROVE  idx[x] = i + (x - q)
  <2>1. x \in 0 .. n /\ q <= x /\ \A z \in q + 1 .. x : s[z] # "\n"
    BY <1>0, <1>8
  <2>2. QED
    BY <1>0, <2>1 DEF Indexes
(* The length of L. *)
<1>10. ASSUME s[n] = "\n"
       PROVE  /\ Len(L) <= Len(a) - (off[q] - 2)
              /\ s[n] = "\n" => Len(L) = Len(a) - (off[q] - 2)
  <2>1. n > q
    BY <1>0, <1>10
  <2>2. n - 1 \in q .. n - 1 /\ n \in 1 .. n
    BY <1>0, <2>1
  <2>3. idx[n] = idx[n - 1]
    BY <1>10, <2>2 DEF Indexes
  <2>4. idx[n - 1] = i + (n - 1 - q)
    BY <1>9, <2>2
  <2>5. off[q] + (n - q) = 3 + Len(a)
    BY <1>0, <1>7, <1>10
  <2> HIDE DEF n, i, a
  <2>6. Len(m) = i + (n - 1 - q)
    BY <1>1, <2>3, <2>4, Zenon
  <2>7. n \in Nat /\ q \in Nat /\ i \in Nat /\ off[q] \in Nat /\ Len(a) \in Nat
    BY <1>0, <1>1, <1>6
  <2>8. Len(L) = n - 1 - q
    BY <1>2a, <2>6, <2>7
  <2>9. Len(L) = Len(a) - (off[q] - 2)
    BY <2>5, <2>7, <2>8
  <2>10. Len(L) <= Len(a) - (off[q] - 2)
    BY <2>7, <2>9
  <2>11. QED
    BY <2>9, <2>10, <1>10
<1>11. ASSUME s[n] # "\n"
       PROVE  /\ Len(L) <= Len(a) - (off[q] - 2)
              /\ s[n] = "\n" => Len(L) = Len(a) - (off[q] - 2)
  <2>1. \A z \in q + 1 .. n : s[z] # "\n"
    BY <1>0, <1>8, <1>11
  <2>2. idx[n] = i + (n - q)
    BY <1>0, <2>1 DEF Indexes
  <2>3. off[q] + (n - q) <= 3 + Len(a) /\ off[q] + (n - q) # 3 + Len(a)
    BY <1>0, <1>7, <1>11
  <2> HIDE DEF n, i, a
  <2>4. Len(m) = i + (n - q)
    BY <1>1, <2>2, Zenon
  <2>5. n \in Nat /\ q \in Nat /\ i \in Nat /\ off[q] \in Nat /\ Len(a) \in Nat
    BY <1>0, <1>1, <1>6
  <2>6. Len(L) = n - q
    BY <1>2a, <2>4, <2>5
  <2>7. Len(L) <= Len(a) - (off[q] - 2)
    BY <2>3, <2>5, <2>6
  <2>8. QED
    BY <2>7, <1>11
<1>12. /\ Len(L) <= Len(a) - (off[q] - 2)
       /\ s[n] = "\n" => Len(L) = Len(a) - (off[q] - 2)
  BY <1>10, <1>11
(* Its pieces. *)
<1>13. ASSUME NEW j \in 1 .. Len(L)
       PROVE  L[j] = a[off[q] - 2 + j]
  <2> DEFINE x == q + j
  <2>0. j \in Nat /\ j >= 1 /\ Len(L) \in Nat /\ j <= Len(L)
    BY <1>2
  <2>1. off[q] - 2 + j <= Len(a)
    BY <1>6, <1>12, <2>0
  <2>2. x \in q .. n /\ x \in 1 .. n /\ x \in 0 .. n
    <3>1. SUFFICES x <= n
      BY <1>0, <2>0
    <3>2. SUFFICES ASSUME n < x PROVE FALSE
      BY <1>0, <2>0
    <3>3. s[n] # "\n"
      <4>1. n - q < j
        BY <1>0, <2>0, <3>2
      <4>2. off[q] + (n - q) < off[q] + j /\ off[q] + j <= 2 + Len(a)
        <5>1. \A o, d, l \in Nat :
                d < j /\ o - 2 + j <= l => o + d < o + j /\ o + j <= 2 + l
          BY <2>0
        <5>2. n - q \in Nat
          BY <1>0
        <5>3. Len(a) \in Nat /\ off[q] \in Nat
          BY <1>6
        <5> HIDE DEF n, a
        <5>4. QED
          BY <2>1, <4>1, <5>1, <5>2, <5>3
      <4>3. off[q] + (n - q) # 3 + Len(a)
        BY <1>0, <1>6, <2>0, <4>2
      <4>4. QED
        BY <1>0, <1>7, <4>3
    <3>4. \A z \in q + 1 .. n : s[z] # "\n"
      BY <1>0, <1>8, <3>3
    <3>5. idx[n] = i + (n - q)
      BY <1>0, <3>4 DEF Indexes
    <3>6. Len(L) = n - q
      BY <1>0, <1>1, <1>2, <3>5
    <3>7. QED
      BY <1>0, <2>0, <3>2, <3>6
  <2>3. off[x] = off[q] + j /\ own[x] = own[q]
    BY <1>0, <1>5, <2>0, <2>2
  <2>4. s[x] # "\n"
    <3>1. off[q] + (x - q) < 3 + Len(a)
      BY <1>0, <1>6, <2>0, <2>1
    <3>2. QED
      BY <1>6, <1>7, <2>2, <3>1
  <2>5. s[x] = lines[own[x]].arg[off[x] - 2]
    <3>1. off[x] > 2
      BY <1>6, <2>0, <2>3
    <3>2. QED
      BY <2>2, <2>4, <3>1, LaidPiece
  <2>6. idx[x] = i + j
    <3>1. \A z \in q + 1 .. x : s[z] # "\n"
      <4>1. SUFFICES ASSUME NEW z \in q + 1 .. x, z # x PROVE s[z] # "\n"
        BY <2>4
      <4>2. z \in q .. n - 1
        BY <1>0, <2>0, <2>2, <4>1
      <4>3. QED
        BY <1>8, <4>2
    <3>2. idx[x] = i + (x - q)
      BY <1>0, <2>0, <2>2, <3>1 DEF Indexes
    <3>3. QED
      BY <1>0, <2>0, <3>2
  <2>7. m[idx[x]] = s[x]
    BY <2>2, <2>4 DEF Indexes
  <2>8. L[j] = m[i + j]
    BY <1>2
  <2>9. off[x] - 2 = off[q] - 2 + j
    BY <1>6, <2>0, <2>3
  <2> HIDE DEF x, i
  <2>10. QED
    BY <2>3, <2>5, <2>6, <2>7, <2>8, <2>9
<1>14. own[n] = own[q]
  BY <1>0, <1>5
<1>15. Len(L) \in 1 .. Len(a) - (off[q] - 2)
  <2>1. Len(L) \in Nat
    BY <1>2
  <2>2. QED
    BY <1>3, <1>6, <1>12, <2>1
<1>16. QED
  BY <1>2, <1>12, <1>13, <1>14, <1>15

LEMMA KeywordAt ==
    ASSUME NEW m \in Seq(Piece), NEW k \in DOMAIN Keyword, NEW i \in 1 .. Len(m) - 1
    PROVE  SubSeq(m, i, i + 1) = Keyword[k] <=> m[i] = Keyword[k][1] /\ m[i + 1] = Keyword[k][2]
<1> DEFINE w == SubSeq(m, i, i + 1)
<1>1. w \in Seq(Piece) /\ Len(w) = 2 /\ w[1] = m[i] /\ w[2] = m[i + 1]
  OBVIOUS
<1> HIDE DEF w
<1>2. \A x, y : <<x, y>>[1] = x /\ <<x, y>>[2] = y
  OBVIOUS
<1>3. w = <<w[1], w[2]>>
  BY <1>1
<1>4. Keyword[k] = <<Keyword[k][1], Keyword[k][2]>>
  BY KeywordShape
<1>5. w = Keyword[k] <=> w[1] = Keyword[k][1] /\ w[2] = Keyword[k][2]
  BY <1>3, <1>4
<1>6. QED
  BY <1>1, <1>5 DEF w

(* A message that a handler takes for a command with a number ends in the  *)
(* line of that command.                                                   *)
LEMMA IntMeaning ==
    ASSUME NEW lines, Lines(lines), NEW s \in Seq(Piece), NEW own, NEW off,
           Laid(s, lines, own, off),
           NEW m \in Seq(Piece), NEW idx, Indexes(s, idx, m),
           NEW k \in DOMAIN Keyword, StartsWith(m, k),
           NEW L, L = LastPart(m, k), IsInt(L)
    PROVE  \E p \in 1 .. Len(s) - 1 :
             LET n == Len(s)
                 a == lines[own[p]].arg
             IN  /\ off[p] = 1 /\ lines[own[p]].key = k /\ own[n] = own[p]
                 /\ L \in Seq(Piece)
                 /\ Len(L) \in 1 .. Len(a)
                 /\ \A j \in 1 .. Len(L) : L[j] = a[j]
                 /\ s[n] = "\n" => Len(L) = Len(a)
<1> DEFINE starts == {i \in 1 .. Len(m) - 1 : SubSeq(m, i, i + 1) = Keyword[k]}
           top == CHOOSE i \in starts : \A j \in starts : i >= j
<1>0. Len(m) \in Nat /\ Len(s) \in Nat
  OBVIOUS
<1>1. 1 \in starts
  <2>1. Len(m) >= 2 /\ SubSeq(m, 1, 2) = Keyword[k]
    BY DEF StartsWith
  <2>2. 1 + 1 = 2 /\ 1 \in 1 .. Len(m) - 1
    BY <1>0, <2>1
  <2>3. QED
    BY <2>1, <2>2
<1>2. \E i \in starts : \A j \in starts : i >= j
  <2>1. starts \subseteq 1 .. Len(m) - 1
    OBVIOUS
  <2> HIDE DEF starts
  <2>2. starts \subseteq 0 .. Len(m) /\ starts # {}
    BY <1>0, <1>1, <2>1
  <2>3. QED
    BY <1>0, <2>2, GreatestNat
<1>3. top \in starts /\ \A j \in starts : top >= j
  BY <1>2
<1>4. L = SubSeq(m, 2 + top, Len(m))
  BY DEF LastPart
<1> HIDE DEF top
<1>5. /\ top \in 1 .. Len(m) - 1 /\ top \in 1 .. Len(m) /\ top + 1 \in 1 .. Len(m)
      /\ m[top] = Keyword[k][1] /\ m[top + 1] = Keyword[k][2]
  <2>1. top \in 1 .. Len(m) - 1 /\ SubSeq(m, top, top + 1) = Keyword[k]
    BY <1>3
  <2>2. QED
    BY <1>0, <2>1, KeywordAt
<1> HIDE DEF starts
<1>6. PICK p \in 1 .. Len(s) : s[p] # "\n" /\ idx[p] = top
  BY <1>5 DEF Indexes
<1>7. PICK q \in 1 .. Len(s) : s[q] # "\n" /\ idx[q] = top + 1
  BY <1>5 DEF Indexes
<1>8. s[p] = Keyword[k][1] /\ s[q] = Keyword[k][2]
  <2>1. m[idx[p]] = s[p] /\ m[idx[q]] = s[q]
    BY <1>6, <1>7 DEF Indexes
  <2>2. QED
    BY <1>5, <1>6, <1>7, <2>1
<1>9. off[p] = 1 /\ lines[own[p]].key = k /\ off[q] = 2 /\ lines[own[q]].key = k
  BY <1>8, LaidPiece
<1>10. p < q
  <2>1. p \in 0 .. Len(s) /\ q \in 0 .. Len(s)
    BY <1>0
  <2>2. q <= p => idx[q] <= idx[p]
    BY <2>1 DEF Indexes
  <2>3. ~(top + 1 <= top)
    BY <1>5
  <2>4. QED
    BY <1>0, <1>6, <1>7, <2>2, <2>3
<1>11. q = p + 1
  <2> SUFFICES ASSUME p + 1 < q
               PROVE  FALSE
    BY <1>0, <1>10
  <2>1. p + 1 \in 1 .. Len(s) /\ p + 1 \in 0 .. Len(s) /\ p \in 0 .. Len(s) /\ q \in 0 .. Len(s)
        /\ p < p + 1 /\ (p + 1) - p = 1
    BY <1>0
  <2>2. LineLen(lines, own[p]) >= 3
    <3>1. LineLen(lines, own[p]) = 3 + Len(lines[own[p]].arg) /\ Len(lines[own[p]].arg) \in Nat
      BY LaidPiece
    <3>2. QED
      BY <3>1
  <2>3. off[p + 1] = 2 /\ own[p + 1] = own[p]
    <3>1. LineLen(lines, own[p]) \in Nat
      BY LaidPiece
    <3>2. ~(1 > LineLen(lines, own[p]) - 1)
      BY <2>2, <3>1
    <3>3. QED
      BY <1>9, <2>1, <3>2, LaidOrder
  <2>4. s[p + 1] # "\n"
    <3>1. s[p + 1] = Keyword[k][2]
      BY <1>9, <2>1, <2>3, LaidPiece
    <3>2. QED
      BY <3>1, ArgApart DEF ArgPiece
  <2>5. idx[p + 1] > idx[p] /\ idx[p + 1] < idx[q]
    BY <1>7, <2>1, <2>4 DEF Indexes
  <2>6. idx[p + 1] \in Nat
    BY <2>1 DEF Indexes
  <2>7. QED
    BY <1>5, <1>6, <1>7, <2>5, <2>6
<1>12. own[p] = own[q]
  <2>1. p < q /\ q - p = 1
    BY <1>0, <1>10, <1>11
  <2>2. ~(1 >= 2)
    OBVIOUS
  <2>3. QED
    BY <1>9, <2>1, <2>2, LaidOrder
<1>13. EndsWith(m, idx[q], L)
  <2>1. idx[q] + 1 = 2 + top
    BY <1>5, <1>7
  <2>2. QED
    BY <1>4, <2>1 DEF EndsWith
<1>14. /\ own[Len(s)] = own[q]
       /\ L \in Seq(Piece)
       /\ Len(L) \in 1 .. Len(lines[own[q]].arg)
       /\ \A j \in 1 .. Len(L) : L[j] = lines[own[q]].arg[j]
       /\ s[Len(s)] = "\n" => Len(L) = Len(lines[own[q]].arg)
  <2>1. off[q] >= 2 /\ off[q] - 2 = 0
    BY <1>9
  <2>2. Len(lines[own[q]].arg) \in Nat
    BY LaidPiece
  <2> DEFINE a == lines[own[q]].arg
  <2>3. /\ own[Len(s)] = own[q]
        /\ L \in Seq(Piece)
        /\ Len(L) \in 1 .. Len(a) - (off[q] - 2)
        /\ \A j \in 1 .. Len(L) : L[j] = a[off[q] - 2 + j]
        /\ s[Len(s)] = "\n" => Len(L) = Len(a) - (off[q] - 2)
    BY <1>7, <1>13, <2>1, TailMeaning
  <2> HIDE DEF a
  <2>4. Len(a) - (off[q] - 2) = Len(a) /\ Len(L) \in Nat
    BY <2>1, <2>2, <2>3 DEF a
  <2>5. \A j \in 1 .. Len(L) : off[q] - 2 + j = j
    BY <2>1
  <2>6. QED
    BY <2>3, <2>4, <2>5 DEF a
<1>15. p \in 1 .. Len(s) - 1
  BY <1>0, <1>11
<1>16. QED
  BY <1>9, <1>12, <1>14, <1>15

KeywordIn(m, j) ==
    /\ j \in 1 .. Len(m) /\ j + 1 \in 1 .. Len(m)
    /\ \E k \in DOMAIN Keyword : m[j] = Keyword[k][1] /\ m[j + 1] = Keyword[k][2]

(* The message of whole lines begins with the first one's, and goes on     *)
(* with the keyword of the next.                                           *)
LEMMA WholeStart ==
    ASSUME NEW lines, Lines(lines), NEW s \in Seq(Piece), NEW own, NEW off,
           Laid(s, lines, own, off),
           s # <<>>, off[1] = 1, s[Len(s)] = "\n",
           NEW m \in Seq(Piece), NEW idx, Indexes(s, idx, m)
    PROVE  LET a == lines[own[1]].arg
           IN  /\ Len(a) \in Nat
               /\ 3 + Len(a) \in 1 .. Len(s)
               /\ \A x \in 1 .. 2 + Len(a) :
                    own[x] = own[1] /\ off[x] = x /\ s[x] # "\n" /\ idx[x] = x /\ m[x] = s[x]
               /\ m[1] = Keyword[lines[own[1]].key][1] /\ m[2] = Keyword[lines[own[1]].key][2]
               /\ \A j \in 1 .. Len(a) : m[2 + j] = a[j]
               /\ Len(m) >= 2 + Len(a)
               /\ Len(m) >= 3 + Len(a) => KeywordIn(m, 3 + Len(a))
<1> DEFINE a == lines[own[1]].arg
           l == Len(a)
           n == Len(s)
<1>0. /\ n \in Nat /\ n >= 1 /\ 1 \in 1 .. n /\ n \in 1 .. n /\ n \in 0 .. n /\ 0 \in 0 .. n
  <2>1. Len(s) \in Nat /\ Len(s) >= 1
    OBVIOUS
  <2>2. QED
    BY <2>1
<1>1. /\ l \in Nat /\ LineLen(lines, own[1]) = 3 + l /\ own[1] \in Nat
      /\ s[1] # "\n"
  <2>1. /\ l \in Nat /\ LineLen(lines, own[1]) = 3 + l /\ own[1] \in Nat
        /\ s[1] = "\n" => off[1] = LineLen(lines, own[1])
    BY <1>0, LaidPiece
  <2>2. QED
    BY <2>1
<1> HIDE DEF l, a, n
<1>2. n >= 3 + l
  <2>1. 1 < n
    BY <1>0, <1>1 DEF n
  <2>2. off[n] \in Nat /\ (s[n] = "\n" => off[n] = LineLen(lines, own[n]))
    BY <1>0, LaidPiece DEF n
  <2>3. \/ own[n] = own[1] /\ off[n] = off[1] + (n - 1)
        \/ n - 1 > LineLen(lines, own[1]) - off[1]
    BY <1>0, <2>1, LaidOrder DEF n
  <2>4. CASE own[n] = own[1] /\ off[n] = off[1] + (n - 1)
    BY <1>0, <1>1, <2>2, <2>4 DEF n
  <2>5. CASE n - 1 > LineLen(lines, own[1]) - off[1]
    BY <1>0, <1>1, <2>5
  <2>6. QED
    BY <2>3, <2>4, <2>5
<1>3. ASSUME NEW x \in 1 .. 3 + l
      PROVE  x \in 1 .. n /\ own[x] = own[1] /\ off[x] = x
  <2>1. x \in 1 .. n
    BY <1>0, <1>1, <1>2
  <2>2. CASE x = 1
    BY <2>1, <2>2
  <2>3. CASE x > 1
    <3>1. ~(x - 1 > (3 + l) - 1)
      BY <1>1
    <3>2. \/ own[x] = own[1] /\ off[x] = off[1] + (x - 1)
          \/ x - 1 > LineLen(lines, own[1]) - off[1]
      BY <1>0, <2>1, <2>3, LaidOrder DEF n
    <3>3. own[x] = own[1] /\ off[x] = 1 + (x - 1)
      BY <1>1, <3>1, <3>2
    <3>4. QED
      BY <2>1, <3>3
  <2>4. QED
    BY <1>1, <2>2, <2>3
<1>4. ASSUME NEW x \in 1 .. 2 + l
      PROVE  own[x] = own[1] /\ off[x] = x /\ s[x] # "\n"
  <2>1. x \in 1 .. 3 + l
    BY <1>1
  <2>2. x \in 1 .. n /\ own[x] = own[1] /\ off[x] = x
    BY <1>3, <2>1
  <2>3. s[x] = "\n" => off[x] = LineLen(lines, own[x])
    BY <2>2, LaidPiece DEF n
  <2>4. QED
    BY <1>1, <2>2, <2>3
<1>5. ASSUME NEW x \in 1 .. 2 + l
      PROVE  idx[x] = x /\ m[x] = s[x]
  <2>1. x \in 1 .. n /\ x \in 0 .. n /\ 0 <= x
    BY <1>1, <1>2, <1>0
  <2>2. \A z \in 0 + 1 .. x : s[z] # "\n"
    <3>1. \A z \in 0 + 1 .. x : z \in 1 .. 2 + l
      BY <1>1
    <3>2. QED
      BY <1>4, <3>1
  <2>3. idx[x] = idx[0] + (x - 0) /\ idx[0] = 0
    BY <1>0, <2>1, <2>2 DEF Indexes, n
  <2>4. s[x] # "\n"
    BY <1>4
  <2>5. m[idx[x]] = s[x]
    BY <2>1, <2>4 DEF Indexes, n
  <2>6. QED
    BY <2>3, <2>5
<1>6. m[1] = Keyword[lines[own[1]].key][1] /\ m[2] = Keyword[lines[own[1]].key][2]
  <2>1. 1 \in 1 .. 2 + l /\ 2 \in 1 .. 2 + l /\ 2 \in 1 .. 3 + l
    BY <1>1
  <2>2. 2 \in 1 .. n /\ own[2] = own[1] /\ off[2] = 2
    BY <1>3, <2>1
  <2>3. s[1] = Keyword[lines[own[1]].key][1]
    BY <1>0, LaidPiece
  <2>4. s[2] = Keyword[lines[own[2]].key][2]
    BY <2>2, LaidPiece DEF n
  <2>5. m[1] = s[1] /\ m[2] = s[2]
    BY <1>5, <2>1
  <2>6. QED
    BY <2>2, <2>3, <2>4, <2>5
<1>7. ASSUME NEW j \in 1 .. l
      PROVE  m[2 + j] = a[j]
  <2>1. 2 + j \in 1 .. 2 + l /\ 2 + j > 2 /\ (2 + j) - 2 = j
    BY <1>1
  <2>2. own[2 + j] = own[1] /\ off[2 + j] = 2 + j /\ s[2 + j] # "\n" /\ m[2 + j] = s[2 + j]
    BY <1>4, <1>5, <2>1
  <2>3. 2 + j \in 1 .. n
    BY <1>0, <1>1, <1>2, <2>1
  <2>4. s[2 + j] = lines[own[2 + j]].arg[off[2 + j] - 2]
    BY <2>1, <2>2, <2>3, LaidPiece DEF n
  <2>5. QED
    BY <2>1, <2>2, <2>4 DEF a
<1>8. Len(m) >= 2 + l
  <2>1. 2 + l \in 1 .. 2 + l /\ 2 + l \in 0 .. n
    BY <1>0, <1>1, <1>2
  <2>2. idx[2 + l] <= Len(m) /\ idx[2 + l] = 2 + l
    BY <1>5, <2>1 DEF Indexes, n
  <2>3. QED
    BY <2>2
<1>9. ASSUME Len(m) >= 3 + l
      PROVE  KeywordIn(m, 3 + l)
  <2> DEFINE z == 4 + l
  <2>1. 3 + l \in 1 .. n /\ own[3 + l] = own[1] /\ off[3 + l] = 3 + l /\ s[3 + l] = "\n"
    <3>1. 3 + l \in 1 .. 3 + l
      BY <1>1
    <3>2. 3 + l \in 1 .. n /\ own[3 + l] = own[1] /\ off[3 + l] = 3 + l
      BY <1>3, <3>1
    <3>3. off[3 + l] = LineLen(lines, own[3 + l]) => s[3 + l] = "\n"
      BY <3>2, LaidPiece DEF n
    <3>4. QED
      BY <1>1, <3>2, <3>3
  <2>2. idx[3 + l] = 2 + l
    <3>1. idx[3 + l] = idx[(3 + l) - 1]
      BY <2>1 DEF Indexes, n
    <3>2. (3 + l) - 1 = 2 + l /\ 2 + l \in 1 .. 2 + l
      BY <1>1
    <3>3. idx[2 + l] = 2 + l
      BY <1>5, <3>2
    <3>4. QED
      BY <3>1, <3>2, <3>3
  <2>3. z \in 1 .. n /\ 3 + l < z /\ z \in 0 .. n /\ 3 + l \in 0 .. n /\ z - (3 + l) = 1
    <3>1. n # 3 + l
      <4>1. idx[n] = Len(m)
        BY DEF Indexes, n
      <4>2. ~(2 + l >= 3 + l)
        BY <1>1
      <4>3. QED
        BY <1>9, <2>2, <4>1, <4>2
    <3>2. QED
      BY <1>0, <1>1, <1>2, <3>1
  <2> HIDE DEF z
  <2>4. off[z] = 1
    <3>1. off[z] \in 1 .. LineLen(lines, own[z]) /\ off[z] \in Nat
      BY <2>3, LaidPiece DEF n
    <3>2. \/ own[z] = own[3 + l] /\ off[z] = off[3 + l] + (z - (3 + l))
          \/ z - (3 + l) >= off[z]
      BY <2>1, <2>3, LaidOrder DEF n
    <3>3. CASE own[z] = own[3 + l] /\ off[z] = off[3 + l] + (z - (3 + l))
      <4>1. off[z] = 4 + l /\ LineLen(lines, own[z]) = 3 + l
        BY <1>1, <2>1, <2>3, <3>3
      <4>2. off[z] <= 3 + l
        BY <3>1, <4>1
      <4>3. QED
        BY <1>1, <4>1, <4>2
    <3>4. CASE z - (3 + l) >= off[z]
      BY <2>3, <3>1, <3>4
    <3>5. QED
      BY <3>2, <3>3, <3>4
  <2>5. /\ lines[own[z]].key \in DOMAIN Keyword
        /\ s[z] = Keyword[lines[own[z]].key][1]
    BY <2>3, <2>4, LaidPiece DEF n
  <2>6. s[z] # "\n"
    BY <2>5, ArgApart DEF ArgPiece
  <2>7. idx[z] = idx[3 + l] + 1
    <3>1. \A x \in (3 + l) + 1 .. z : x = z
      BY <1>1, <2>3 DEF z
    <3>2. \A x \in (3 + l) + 1 .. z : s[x] # "\n"
      BY <2>6, <3>1
    <3>3. 3 + l <= z
      BY <1>1, <2>3
    <3>4. idx[z] = idx[3 + l] + (z - (3 + l))
      BY <2>3, <3>2, <3>3 DEF Indexes, n
    <3>5. QED
      BY <2>3, <3>4
  <2>8. m[idx[z]] = s[z]
    BY <2>3, <2>6 DEF Indexes, n
  <2>9. idx[z] = 3 + l
    BY <1>1, <2>2, <2>7
  <2> DEFINE y == z + 1
  <2>10. y \in 1 .. n /\ z < y /\ y \in 0 .. n /\ y - z = 1 /\ z \in Nat
    <3>1. z # n
      BY <2>6 DEF n
    <3>2. QED
      BY <1>0, <2>3, <3>1
  <2> HIDE DEF y
  <2>11. own[y] = own[z] /\ off[y] = 2
    <3>1. \/ own[y] = own[z] /\ off[y] = off[z] + (y - z)
          \/ y - z > LineLen(lines, own[z]) - off[z]
      BY <2>3, <2>10, LaidOrder DEF n
    <3>2. /\ LineLen(lines, own[z]) = 3 + Len(lines[own[z]].arg)
          /\ Len(lines[own[z]].arg) \in Nat
      BY <2>3, LaidPiece DEF n
    <3>3. LineLen(lines, own[z]) \in Nat /\ LineLen(lines, own[z]) >= 3
      BY <3>2
    <3>4. QED
      BY <2>4, <2>10, <3>1, <3>2, <3>3
  <2>12. s[y] = Keyword[lines[own[z]].key][2]
    BY <2>5, <2>10, <2>11, LaidPiece DEF n
  <2>13. s[y] # "\n"
    BY <2>5, <2>12, ArgApart DEF ArgPiece
  <2>14. idx[y] = 4 + l
    <3>1. \A x \in z + 1 .. y : x = y
      BY <2>10
    <3>2. \A x \in z + 1 .. y : s[x] # "\n"
      BY <2>13, <3>1
    <3>3. z <= y
      BY <2>10
    <3>4. idx[y] = idx[z] + (y - z)
      BY <2>3, <2>10, <3>2, <3>3 DEF Indexes, n
    <3>5. QED
      BY <1>1, <2>9, <2>10, <3>4
  <2>15. m[idx[y]] = s[y] /\ idx[y] <= Len(m)
    BY <2>10, <2>13 DEF Indexes, n
  <2>16. m[3 + l] = Keyword[lines[own[z]].key][1] /\ m[4 + l] = Keyword[lines[own[z]].key][2]
    BY <2>5, <2>8, <2>9, <2>12, <2>14, <2>15
  <2>17. 3 + l \in 1 .. Len(m) /\ (3 + l) + 1 = 4 + l /\ 4 + l \in 1 .. Len(m)
    BY <1>1, <2>14, <2>15
  <2>18. QED
    BY <2>5, <2>16, <2>17 DEF KeywordIn
<1>10. 3 + l \in 1 .. n
  BY <1>0, <1>1, <1>2
<1>11. QED
  BY <1>1, <1>4, <1>5, <1>6, <1>7, <1>8, <1>9, <1>10 DEF l, a, n

-----------------------------------------------------------------------------
(* The elements of a message.                                              *)

LEMMA BlankApart ==
    /\ \A k \in DOMAIN Keyword : Keyword[k][1] \notin Blank /\ Keyword[k][2] \in Blank
    /\ \A x \in ArgPiece : x \in Blank <=> x = Space
    /\ \A x \in NumberDigit : x \notin Blank /\ x # Space
    /\ Space \in Blank /\ "T" \notin Blank /\ "T=" \notin Blank
<1>1. \A k \in DOMAIN Keyword : Keyword[k][1] \notin Blank /\ Keyword[k][2] \in Blank
  <2> SUFFICES ASSUME NEW k \in DOMAIN Keyword
               PROVE  Keyword[k][1] \notin Blank
    BY DEF Blank
  <2>1. Keyword[k][1] # Space
    BY ArgApart DEF ArgPiece
  <2>2. \A j \in DOMAIN Keyword : Keyword[k][1] # Keyword[j][2]
    BY KeywordApart
  <2>3. QED
    BY <2>1, <2>2 DEF Blank
<1>2. \A x \in ArgPiece : x \in Blank <=> x = Space
  BY ArgApart DEF Blank
<1>3. "T" # Space /\ "T=" # Space /\ \A x \in NumberDigit : x # Space
  BY DEF NumberDigit, Space
<1>4. NumberDigit \subseteq ArgPiece /\ "T" \in ArgPiece /\ "T=" \in ArgPiece
  BY DEF ArgPiece
<1>5. QED
  BY <1>1, <1>2, <1>3, <1>4 DEF Blank

LEMMA NextBlankFound ==
    ASSUME NEW m \in Seq(Piece), NEW i \in 1 .. Len(m)
    PROVE  /\ NextBlank(m, i) \in i + 1 .. Len(m) + 1
           /\ NextBlank(m, i) \in Blanks(m) \cup {Len(m) + 1}
           /\ \A x \in i + 1 .. NextBlank(m, i) - 1 : x \notin Blanks(m)
<1> DEFINE U == Blanks(m) \cup {Len(m) + 1}
           T == {j \in U : j > i}
<1>0. Len(m) \in Nat /\ i \in Nat /\ i <= Len(m)
  OBVIOUS
<1>1. Blanks(m) \subseteq 1 .. Len(m)
  BY DEF Blanks
<1>2. U \subseteq 1 .. Len(m) + 1
  BY <1>0, <1>1
<1>3. PICK t \in T : \A y \in T : t <= y
  <2>1. T \subseteq Nat /\ Len(m) + 1 \in T
    BY <1>0, <1>2
  <2> HIDE DEF T
  <2>2. QED
    BY <2>1, LeastNat
<1>4. t \in U /\ t > i /\ \A x \in i + 1 .. t - 1 : x \notin Blanks(m)
  <2> SUFFICES ASSUME NEW x \in i + 1 .. t - 1, x \in Blanks(m)
               PROVE  FALSE
    OBVIOUS
  <2>1. x \in T
    BY <1>0
  <2>2. t <= x /\ x <= t - 1 /\ t \in Nat /\ x \in Nat
    BY <1>0, <1>2, <1>3, <2>1
  <2>3. QED
    BY <2>2
<1> DEFINE b == CHOOSE j \in U : j > i /\ \A x \in i + 1 .. j - 1 : x \notin Blanks(m)
<1>5. b \in U /\ b > i /\ \A x \in i + 1 .. b - 1 : x \notin Blanks(m)
  BY <1>4
<1>6. NextBlank(m, i) = b
  BY DEF NextBlank
<1> HIDE DEF b
<1>7. b \in i + 1 .. Len(m) + 1
  BY <1>0, <1>2, <1>5
<1>8. QED
  BY <1>5, <1>6, <1>7

(* The blank at j is the next one after i. *)
LEMMA NextBlankIs ==
    ASSUME NEW m \in Seq(Piece), NEW i \in 1 .. Len(m), NEW j \in i + 1 .. Len(m),
           m[j] \in Blank, \A x \in i + 1 .. j - 1 : m[x] \notin Blank
    PROVE  NextBlank(m, i) = j
<1> DEFINE b == NextBlank(m, i)
<1>0. Len(m) \in Nat /\ i \in Nat /\ j \in Nat /\ j \in 1 .. Len(m)
  OBVIOUS
<1>1. \A x \in Nat : x \in Blanks(m) <=> x \in 1 .. Len(m) /\ m[x] \in Blank
  BY DEF Blanks
<1>2. /\ b \in i + 1 .. Len(m) + 1 /\ b \in Blanks(m) \cup {Len(m) + 1}
      /\ \A x \in i + 1 .. b - 1 : x \notin Blanks(m)
  BY NextBlankFound
<1> HIDE DEF b
<1>3. ~(j < b)
  <2>1. j \in Blanks(m)
    BY <1>0, <1>1
  <2>2. j < b => j \in i + 1 .. b - 1
    BY <1>0, <1>2
  <2>3. QED
    BY <1>2, <2>1, <2>2
<1>4. ~(b < j)
  <2> SUFFICES ASSUME b < j
               PROVE  FALSE
    OBVIOUS
  <2>1. b \in i + 1 .. j - 1 /\ b # Len(m) + 1 /\ b \in Nat
    BY <1>0, <1>2
  <2>2. QED
    BY <1>1, <1>2, <2>1
<1>5. QED
  BY <1>0, <1>2, <1>3, <1>4 DEF b

LEMMA ElementType ==
    ASSUME NEW m \in Seq(Piece), NEW i \in 1 .. Len(m)
    PROVE  Element(m, i) \in Seq(Piece)
<1> DEFINE b == NextBlank(m, i)
           e == IF b \in Blanks(m) /\ m[b] # Space THEN b ELSE b - 1
<1>0. Len(m) \in Nat /\ i \in Nat /\ i <= Len(m)
  OBVIOUS
<1>1. b \in i + 1 .. Len(m) + 1 /\ Blanks(m) \subseteq 1 .. Len(m)
  BY NextBlankFound DEF Blanks
<1> HIDE DEF b
<1>2. e \in i .. Len(m)
  <2>1. (b \in Blanks(m) /\ e = b) \/ e = b - 1
    OBVIOUS
  <2> HIDE DEF e
  <2>2. QED
    BY <1>0, <1>1, <2>1
<1>3. Element(m, i) = SubSeq(m, i + 1, e)
  BY DEF Element, b
<1> HIDE DEF e
<1>4. SubSeq(m, i + 1, e) \in Seq(Piece)
  BY <1>0, <1>2, SubSeqProperties
<1>5. QED
  BY <1>3, <1>4

LEMMA SplitArg ==
    ASSUME NEW a \in Seq(Piece), NEW i \in 1 .. Len(a), a[i] = Space
    PROVE  SubSeq(a, 1, i - 1) \o <<Space>> \o After(a, i) = a
<1> DEFINE b == SubSeq(a, 1, i - 1)
           c == SubSeq(a, i + 1, Len(a))
           bb == b \o <<Space>>
           all == bb \o c
<1>0. Len(a) \in Nat /\ i \in Nat /\ i >= 1 /\ i <= Len(a)
  OBVIOUS
<1>1. /\ b \in Seq(Piece) /\ Len(b) = i - 1 /\ \A j \in 1 .. i - 1 : b[j] = a[j]
      /\ c \in Seq(Piece) /\ Len(c) = Len(a) - i /\ \A j \in 1 .. Len(a) - i : c[j] = a[i + j]
  BY Pieces
<1>2. <<Space>> \in Seq(Piece) /\ Len(<<Space>>) = 1 /\ <<Space>>[1] = Space
  BY DEF Piece
<1>3. After(a, i) = c
  BY DEF After
<1> HIDE DEF b, c
<1>4. /\ bb \in Seq(Piece) /\ Len(bb) = i
      /\ \A j \in 1 .. i : bb[j] = IF j <= i - 1 THEN b[j] ELSE <<Space>>[j - (i - 1)]
  <2>1. /\ bb \in Seq(Piece) /\ Len(bb) = Len(b) + Len(<<Space>>)
        /\ \A j \in 1 .. Len(b) + Len(<<Space>>) :
             bb[j] = IF j <= Len(b) THEN b[j] ELSE <<Space>>[j - Len(b)]
    BY <1>1, <1>2, ConcatProperties
  <2>2. Len(b) + Len(<<Space>>) = i
    BY <1>0, <1>1, <1>2
  <2>3. QED
    BY <1>1, <2>1, <2>2
<1> HIDE DEF bb
<1>5. ASSUME NEW j \in 1 .. i
      PROVE  bb[j] = a[j]
  <2>1. CASE j = i
    <3>1. ~(j <= i - 1) /\ j - (i - 1) = 1
      BY <1>0, <2>1
    <3>2. QED
      BY <1>2, <1>4, <2>1, <3>1
  <2>2. CASE j # i
    <3>1. j <= i - 1 /\ j \in 1 .. i - 1
      BY <1>0, <2>2
    <3>2. QED
      BY <1>1, <1>4, <3>1
  <2>3. QED
    BY <2>1, <2>2
<1>6. /\ all \in Seq(Piece) /\ Len(all) = Len(a)
      /\ \A j \in 1 .. Len(a) : all[j] = IF j <= i THEN bb[j] ELSE c[j - i]
  <2>1. /\ all \in Seq(Piece) /\ Len(all) = Len(bb) + Len(c)
        /\ \A j \in 1 .. Len(bb) + Len(c) : all[j] = IF j <= Len(bb) THEN bb[j] ELSE c[j - Len(bb)]
    BY <1>1, <1>4, ConcatProperties
  <2>2. Len(bb) + Len(c) = Len(a)
    BY <1>0, <1>1, <1>4
  <2>3. QED
    BY <1>4, <2>1, <2>2
<1> HIDE DEF all
<1>7. ASSUME NEW j \in 1 .. Len(a)
      PROVE  all[j] = a[j]
  <2>1. CASE j <= i
    <3>1. j \in 1 .. i
      BY <1>0, <2>1
    <3>2. QED
      BY <1>5, <1>6, <2>1, <3>1
  <2>2. CASE ~(j <= i)
    <3>1. j - i \in 1 .. Len(a) - i /\ i + (j - i) = j
      BY <1>0, <2>2
    <3>2. all[j] = c[j - i] /\ c[j - i] = a[i + (j - i)]
      BY <1>1, <1>6, <2>2, <3>1
    <3>3. QED
      BY <3>1, <3>2
  <2>3. QED
    BY <2>1, <2>2
<1>8. all = a
  BY <1>6, <1>7, SeqEqual
<1>9. QED
  BY <1>3, <1>8 DEF all, bb, b

(* The first element of a message that begins with a whole line is the     *)
(* number of that line.                                                    *)
LEMMA FirstElement ==
    ASSUME NEW m \in Seq(Piece), NEW a \in Seq(Piece), Len(m) >= 2 + Len(a),
           \A j \in 1 .. Len(a) : m[2 + j] = a[j],
           NEW i \in 1 .. Len(a), IntBefore(a, i)
    PROVE  /\ NextBlank(m, 2) = 2 + i
           /\ 2 + i \in 1 .. Len(m) /\ 2 + i \in Blanks(m) /\ m[2 + i] = Space
           /\ Element(m, 2) = SubSeq(a, 1, i - 1)
<1>0. Len(a) \in Nat /\ Len(m) \in Nat /\ i \in Nat /\ i >= 1 /\ i <= Len(a)
  OBVIOUS
<1> DEFINE b == SubSeq(a, 1, i - 1)
<1>1. b \in Seq(Piece) /\ Len(b) = i - 1 /\ \A j \in 1 .. i - 1 : b[j] = a[j]
  BY Pieces
<1>2. a[i] = Space /\ IsInt(b)
  BY DEF IntBefore
<1> HIDE DEF b
<1>3. \A j \in 1 .. i - 1 : b[j] \in NumberDigit
  BY <1>1, <1>2, IntOfDigits
<1>4. /\ 2 + i \in 1 .. Len(m) /\ 2 + i \in 2 + 1 .. Len(m) /\ 2 \in 1 .. Len(m)
      /\ m[2 + i] = Space /\ m[2 + i] \in Blank
  <2>1. m[2 + i] = Space
    BY <1>2
  <2>2. QED
    BY <1>0, <2>1, BlankApart
<1>5. ASSUME NEW x \in 2 + 1 .. (2 + i) - 1
      PROVE  m[x] \notin Blank
  <2>1. x - 2 \in 1 .. i - 1 /\ x - 2 \in 1 .. Len(a) /\ 2 + (x - 2) = x
    BY <1>0
  <2>2. m[2 + (x - 2)] = a[x - 2] /\ b[x - 2] = a[x - 2] /\ b[x - 2] \in NumberDigit
    BY <1>1, <1>3, <2>1
  <2>3. QED
    BY <2>1, <2>2, BlankApart
<1>6. NextBlank(m, 2) = 2 + i
  BY <1>4, <1>5, NextBlankIs
<1>7. 2 + i \in Blanks(m)
  BY <1>4 DEF Blanks
<1> DEFINE e == SubSeq(m, 3, 1 + i)
<1>8. Element(m, 2) = e
  <2> DEFINE stop == NextBlank(m, 2)
  <2>1. Element(m, 2) = SubSeq(m, 2 + 1, IF stop \in Blanks(m) /\ m[stop] # Space
                                         THEN stop ELSE stop - 1)
    BY DEF Element
  <2>2. stop = 2 + i
    BY <1>6
  <2> HIDE DEF stop
  <2>3. (IF stop \in Blanks(m) /\ m[stop] # Space THEN stop ELSE stop - 1) = stop - 1
    BY <1>4, <2>2
  <2>4. stop - 1 = 1 + i /\ 2 + 1 = 3
    BY <1>0, <2>2
  <2>5. QED
    BY <2>1, <2>3, <2>4
<1>9. e \in Seq(Piece) /\ Len(e) = i - 1 /\ \A j \in 1 .. i - 1 : e[j] = m[2 + j]
  <2>1. \A j \in 3 .. 1 + i : m[j] \in Piece
    BY <1>0, <1>4, ElementOfSeq
  <2>2. 3 \in Int /\ 1 + i \in Int
    BY <1>0
  <2>3. /\ e \in Seq(Piece)
        /\ Len(e) = IF 3 <= 1 + i THEN 1 + i - 3 + 1 ELSE 0
        /\ \A j \in 1 .. 1 + i - 3 + 1 : e[j] = m[3 + j - 1]
    BY <2>1, <2>2, SubSeqProperties
  <2> HIDE DEF e
  <2>4. Len(e) = i - 1
    BY <1>0, <2>3
  <2>5. \A j \in 1 .. i - 1 : e[j] = m[2 + j]
    <3>1. 1 + i - 3 + 1 = i - 1
      BY <1>0
    <3>2. \A j \in 1 .. i - 1 : 3 + j - 1 = 2 + j
      BY <1>0
    <3>3. QED
      BY <2>3, <3>1, <3>2
  <2>6. QED
    BY <2>3, <2>4, <2>5
<1> HIDE DEF e
<1>10. e = b
  <2>1. \A j \in 1 .. i - 1 : j \in 1 .. Len(a)
    BY <1>0
  <2>2. \A j \in 1 .. i - 1 : e[j] = b[j]
    BY <1>1, <1>9, <2>1
  <2>3. QED
    BY <1>1, <1>9, <2>2, SeqEqual
<1>11. QED
  BY <1>4, <1>6, <1>7, <1>8, <1>10 DEF b

(* An element from a blank to the next starts with the piece after it.     *)
LEMMA ElementStart ==
    ASSUME NEW m \in Seq(Piece), NEW i \in 1 .. Len(m)
    PROVE  /\ i + 1 \in 1 .. Len(m) /\ m[i + 1] \notin Blank =>
                Element(m, i) # <<>> /\ Element(m, i)[1] = m[i + 1]
           /\ Element(m, i) # <<>> =>
                i + 1 \in 1 .. Len(m) /\ Element(m, i)[1] = m[i + 1]
<1> DEFINE b == NextBlank(m, i)
           e == IF b \in Blanks(m) /\ m[b] # Space THEN b ELSE b - 1
           s == SubSeq(m, i + 1, e)
<1>0. Len(m) \in Nat /\ i \in Nat /\ i <= Len(m) /\ i >= 1
  OBVIOUS
<1>1. /\ b \in i + 1 .. Len(m) + 1 /\ Blanks(m) \subseteq 1 .. Len(m)
      /\ b \in Blanks(m) \cup {Len(m) + 1}
  BY NextBlankFound DEF Blanks
<1>2. Element(m, i) = s
  BY DEF Element
<1> HIDE DEF b
<1>3. (b \in Blanks(m) /\ e = b) \/ e = b - 1
  OBVIOUS
<1> HIDE DEF e
<1>4. e \in i .. Len(m)
  BY <1>0, <1>1, <1>3
<1>5. /\ s \in Seq(Piece)
      /\ Len(s) = IF i + 1 <= e THEN e - (i + 1) + 1 ELSE 0
      /\ \A j \in 1 .. e - (i + 1) + 1 : s[j] = m[(i + 1) + j - 1]
  <2>1. i + 1 \in Int /\ e \in Int /\ \A j \in i + 1 .. e : m[j] \in Piece
    BY <1>0, <1>4, ElementOfSeq
  <2>2. QED
    BY <2>1, SubSeqProperties
<1> HIDE DEF s
<1>6. i + 1 <= e => s # <<>> /\ s[1] = m[i + 1]
  <2> SUFFICES ASSUME i + 1 <= e
               PROVE  s # <<>> /\ s[1] = m[i + 1]
    OBVIOUS
  <2>1. 1 \in 1 .. e - (i + 1) + 1 /\ (i + 1) + 1 - 1 = i + 1 /\ e - (i + 1) + 1 >= 1
    BY <1>0, <1>4
  <2>2. Len(s) # 0
    BY <1>5, <2>1
  <2>3. QED
    BY <1>5, <2>1, <2>2
<1>7. ~(i + 1 <= e) => s = <<>>
  BY <1>5
<1>8. ASSUME i + 1 \in 1 .. Len(m), m[i + 1] \notin Blank
      PROVE  i + 1 <= e
  <2>1. b # i + 1
    <3>1. i + 1 \notin Blanks(m)
      BY <1>8 DEF Blanks
    <3>2. i + 1 # Len(m) + 1
      BY <1>0, <1>8
    <3>3. QED
      BY <1>1, <3>1, <3>2
  <2>2. QED
    BY <1>0, <1>1, <1>3, <2>1
<1>9. i + 1 <= e => i + 1 \in 1 .. Len(m)
  BY <1>0, <1>4
<1>10. QED
  BY <1>2, <1>6, <1>7, <1>8, <1>9

(* The keyword at j belongs to the element before it. *)
LEMMA ElementKeyword ==
    ASSUME NEW m \in Seq(Piece), NEW i \in 1 .. Len(m), NEW j \in i + 1 .. Len(m),
           KeywordIn(m, j), \A x \in i + 1 .. j - 1 : m[x] \notin Blank
    PROVE  \E k \in DOMAIN Keyword :
             /\ (j + 1) - i \in DOMAIN Element(m, i)
             /\ Element(m, i)[(j + 1) - i] = Keyword[k][2]
<1>0. /\ Len(m) \in Nat /\ i \in Nat /\ j \in Nat /\ i < j
      /\ j + 1 \in i + 1 .. Len(m) /\ j + 1 \in 1 .. Len(m)
  BY DEF KeywordIn
<1>1. PICK k \in DOMAIN Keyword : m[j] = Keyword[k][1] /\ m[j + 1] = Keyword[k][2]
  BY DEF KeywordIn
<1>2. m[j] \notin Blank /\ m[j + 1] \in Blank /\ m[j + 1] # Space
  BY <1>1, BlankApart, ArgApart DEF ArgPiece
<1>3. \A x \in i + 1 .. (j + 1) - 1 : m[x] \notin Blank
  <2>1. \A x \in i + 1 .. (j + 1) - 1 : x \in i + 1 .. j - 1 \/ x = j
    BY <1>0
  <2>2. QED
    BY <1>2, <2>1
<1>4. NextBlank(m, i) = j + 1
  BY <1>0, <1>2, <1>3, NextBlankIs
<1>5. j + 1 \in Blanks(m)
  BY <1>0, <1>2 DEF Blanks
<1>6. Element(m, i) = SubSeq(m, i + 1, j + 1)
  BY <1>2, <1>4, <1>5 DEF Element
<1>7. /\ (j + 1) - i \in DOMAIN SubSeq(m, i + 1, j + 1)
      /\ SubSeq(m, i + 1, j + 1)[(j + 1) - i] = m[j + 1]
  BY <1>0
<1>8. QED
  BY <1>1, <1>6, <1>7

(* The next keyword is no part of a base64 text. *)
LEMMA KeywordNoLetters ==
    ASSUME NEW k \in DOMAIN Keyword
    PROVE  Keyword[k][2] \notin FourLetters /\ Keyword[k][1] # "T" /\ Keyword[k][1] # "T="
<1>1. k \in {"status", "enter", "leave", "sound", "message", "temperature"}
  BY Keywords
<1>2. QED
  BY <1>1, KeywordHalves DEF FourLetters

(* The text that a message ends with is that of its first line.            *)
LEMMA TextDecoded ==
    ASSUME NEW m \in Seq(Piece), NEW i \in 1 .. Len(m), NEW t,
           t = <<>> \/ t = <<"T">> \/ t = <<"T=">>,
           t # <<>> => i + 1 \in 1 .. Len(m) /\ m[i + 1] = t[1],
           Len(m) = i + Len(t) \/ KeywordIn(m, i + Len(t) + 1),
           Decodes(Element(m, i))
    PROVE  Decoded(Element(m, i)) = t
<1> DEFINE e == Element(m, i)
<1>0. Len(m) \in Nat /\ i \in Nat /\ Len(<<>>) = 0 /\ Len(<<"T">>) = 1
  OBVIOUS
<1>1. /\ e \in Seq(Piece)
      /\ i + 1 \in 1 .. Len(m) /\ m[i + 1] \notin Blank => e # <<>> /\ e[1] = m[i + 1]
      /\ e # <<>> => i + 1 \in 1 .. Len(m) /\ e[1] = m[i + 1]
  BY ElementType, ElementStart
<1>2. CASE t = <<"T=">>
  <2>1. m[i + 1] = "T=" /\ m[i + 1] \notin Blank /\ i + 1 \in 1 .. Len(m)
    BY <1>2, BlankApart
  <2>2. e # <<>> /\ e[1] = "T="
    BY <1>1, <2>1
  <2>3. QED
    BY <1>2, <2>2 DEF Decoded
<1>3. ASSUME e # <<>>, e[1] # "T=",
             NEW j \in i + 1 .. Len(m), KeywordIn(m, j),
             \A x \in i + 1 .. j - 1 : m[x] \notin Blank
      PROVE  FALSE
  <2>1. PICK k \in DOMAIN Keyword :
          (j + 1) - i \in DOMAIN e /\ e[(j + 1) - i] = Keyword[k][2]
    BY <1>3, ElementKeyword
  <2>2. Keyword[k][2] \in FourLetters
    BY <1>3, <2>1 DEF Decodes
  <2>3. QED
    BY <2>2, KeywordNoLetters
<1>4. CASE t = <<>>
  <2>1. e = <<>>
    <3> SUFFICES ASSUME e # <<>>
                 PROVE  FALSE
      OBVIOUS
    <3>1. i + 1 \in 1 .. Len(m) /\ e[1] = m[i + 1]
      BY <1>1
    <3>2. KeywordIn(m, i + 1)
      BY <1>0, <1>4, <3>1
    <3>3. e[1] # "T="
      BY <3>1, <3>2, KeywordNoLetters DEF KeywordIn
    <3>4. i + 1 \in i + 1 .. Len(m) /\ \A x \in i + 1 .. (i + 1) - 1 : FALSE
      BY <1>0, <3>1
    <3>5. QED
      BY <1>3, <3>2, <3>3, <3>4
  <2>2. QED
    BY <1>4, <2>1 DEF Decoded
<1>5. CASE t = <<"T">>
  <2>1. m[i + 1] = "T" /\ m[i + 1] \notin Blank /\ i + 1 \in 1 .. Len(m)
    BY <1>5, BlankApart
  <2>2. e # <<>> /\ e[1] = "T" /\ e[1] # "T="
    BY <1>1, <2>1
  <2>3. Len(m) = i + 1
    <3> SUFFICES ASSUME KeywordIn(m, i + 2)
                 PROVE  FALSE
      BY <1>0, <1>5
    <3>1. i + 2 \in i + 1 .. Len(m) /\ \A x \in i + 1 .. (i + 2) - 1 : x = i + 1
      BY <1>0 DEF KeywordIn
    <3>2. QED
      BY <1>3, <2>1, <2>2, <3>1
  <2>4. e = <<"T">>
    <3>1. NextBlank(m, i) \in i + 1 .. Len(m) + 1
      BY NextBlankFound
    <3>2. i + 1 \notin Blanks(m) /\ i + 2 \notin Blanks(m)
      BY <1>0, <2>1, <2>3 DEF Blanks
    <3>3. /\ NextBlank(m, i) = i + 2
      BY <1>0, <2>3, <3>1, <3>2, NextBlankFound
    <3>4. e = SubSeq(m, i + 1, i + 1)
      BY <1>0, <3>2, <3>3 DEF Element
    <3>5. SubSeq(m, i + 1, i + 1) = <<m[i + 1]>>
      <4> DEFINE u == SubSeq(m, i + 1, i + 1)
      <4>1. u \in Seq(Piece) /\ Len(u) = 1 /\ u[1] = m[i + 1]
        BY <1>0, <2>1
      <4> HIDE DEF u
      <4>2. u = <<u[1]>>
        BY <4>1
      <4>3. QED
        BY <4>1, <4>2 DEF u
    <3>6. QED
      BY <2>1, <3>4, <3>5
  <2>5. QED
    BY <1>5, <2>2, <2>4 DEF Decoded
<1>6. QED
  BY <1>2, <1>4, <1>5

LEMMA LinePieces ==
    ASSUME NEW lines, Lines(lines), NEW i \in 1 .. Len(lines)
    PROVE  /\ lines[i] \in [key : DOMAIN Keyword, arg : Seq(Piece)]
           /\ lines[i] = [key |-> lines[i].key, arg |-> lines[i].arg]
           /\ WellFormed(lines[i])
<1>1. WellFormed(lines[i])
  BY DEF Lines
<1>2. lines[i] \in [key : DOMAIN Keyword, arg : Seq(Piece)]
  BY <1>1 DEF WellFormed
<1>3. QED
  BY <1>1, <1>2

LEMMA StartKey ==
    ASSUME NEW m \in Seq(Piece), NEW k \in DOMAIN Keyword, NEW j \in DOMAIN Keyword,
           StartsWith(m, k), m[1] = Keyword[j][1]
    PROVE  k = j
<1>1. Len(m) >= 2 /\ Len(m) \in Nat /\ SubSeq(m, 1, 2) = Keyword[k]
  BY DEF StartsWith
<1>2. 1 \in 1 .. Len(m) - 1 /\ 1 + 1 = 2
  BY <1>1
<1>3. m[1] = Keyword[k][1]
  BY <1>1, <1>2, KeywordAt
<1>4. QED
  BY <1>3, KeywordApart

(* What whole lines start with is obeyed as it was sent: a text...         *)
LEMMA TextMeaning ==
    ASSUME NEW lines, Lines(lines), NEW s \in Seq(Piece), NEW own, NEW off,
           Laid(s, lines, own, off), s # <<>>, off[1] = 1, s[Len(s)] = "\n",
           NEW m \in Seq(Piece), NEW idx, Indexes(s, idx, m),
           NEW c \in TextCommand(m)
    PROVE  own[1] \in 1 .. Len(lines) /\ c = lines[own[1]]
<1> DEFINE a == lines[own[1]].arg
           key == lines[own[1]].key
           second == NextBlank(m, 2)
<1>0. own[1] \in 1 .. Len(lines)
  <2>1. 1 \in 1 .. Len(s)
    OBVIOUS
  <2>2. QED
    BY <2>1, LaidPiece
<1>1. /\ lines[own[1]] = [key |-> key, arg |-> a] /\ key \in DOMAIN Keyword
      /\ a \in Seq(Piece) /\ WellFormed(lines[own[1]])
  BY <1>0, LinePieces
<1>2. /\ Len(a) \in Nat /\ Len(m) >= 2 + Len(a) /\ Len(m) \in Nat
      /\ m[1] = Keyword[key][1]
      /\ \A j \in 1 .. Len(a) : m[2 + j] = a[j]
      /\ Len(m) >= 3 + Len(a) => KeywordIn(m, 3 + Len(a))
  BY WholeStart
<1>3. /\ StartsWith(m, "message")
      /\ Decodes(Element(m, second))
      /\ c = [key |-> "message", arg |-> Element(m, 2) \o <<Space>> \o Decoded(Element(m, second))]
  BY DEF TextCommand
<1>4. key = "message"
  <2>1. "message" \in DOMAIN Keyword
    BY Keywords
  <2>2. QED
    BY <1>1, <1>2, <1>3, <2>1, StartKey
<1>5. PICK i \in 1 .. Len(a) : IntBefore(a, i) /\ After(a, i) \in {<<>>, <<"T">>, <<"T=">>}
  <2>1. DOMAIN a = 1 .. Len(a)
    BY <1>1
  <2>2. QED
    BY <1>1, <1>4, <2>1 DEF WellFormed
<1> HIDE DEF a, key
<1>6. /\ second = 2 + i /\ 2 + i \in 1 .. Len(m)
      /\ Element(m, 2) = SubSeq(a, 1, i - 1)
  BY <1>1, <1>2, <1>5, FirstElement
<1> DEFINE t == SubSeq(a, i + 1, Len(a))
<1>7. /\ After(a, i) = t
      /\ Len(t) = Len(a) - i /\ \A j \in 1 .. Len(a) - i : t[j] = a[i + j]
  BY <1>1, Pieces DEF After
<1> HIDE DEF t, second
<1>8. /\ t = <<>> \/ t = <<"T">> \/ t = <<"T=">>
      /\ t # <<>> => (2 + i) + 1 \in 1 .. Len(m) /\ m[(2 + i) + 1] = t[1]
      /\ Len(m) = (2 + i) + Len(t) \/ KeywordIn(m, (2 + i) + Len(t) + 1)
  <2>1. t = <<>> \/ t = <<"T">> \/ t = <<"T=">>
    BY <1>5, <1>7
  <2>2. Len(t) = Len(a) - i /\ Len(a) \in Nat /\ i \in Nat
    BY <1>2, <1>7
  <2>3. t # <<>> => (2 + i) + 1 \in 1 .. Len(m) /\ m[(2 + i) + 1] = t[1]
    <3> SUFFICES ASSUME t # <<>>
                 PROVE  (2 + i) + 1 \in 1 .. Len(m) /\ m[(2 + i) + 1] = t[1]
      OBVIOUS
    <3>1. Len(t) = 1
      BY <2>1
    <3>2. Len(a) = i + 1
      <4>1. Len(a) - i = 1 /\ Len(a) \in Nat /\ i \in Nat
        BY <2>2, <3>1, Zenon
      <4>2. QED
        BY <4>1
    <3>3. /\ i + 1 \in 1 .. Len(a) /\ 2 + (i + 1) = (2 + i) + 1 /\ 1 \in 1 .. Len(a) - i
          /\ (2 + i) + 1 \in 1 .. Len(m)
      BY <1>2, <3>2
    <3>4. m[2 + (i + 1)] = a[i + 1] /\ t[1] = a[i + 1]
      BY <1>2, <1>7, <3>3
    <3>5. QED
      BY <3>3, <3>4
  <2>4. (2 + i) + Len(t) = 2 + Len(a) /\ (2 + i) + Len(t) + 1 = 3 + Len(a)
    BY <2>2
  <2>5. Len(m) = 2 + Len(a) \/ KeywordIn(m, 3 + Len(a))
    BY <1>2
  <2>6. QED
    BY <2>1, <2>3, <2>4, <2>5
<1>9. Decoded(Element(m, 2 + i)) = t
  BY <1>3, <1>6, <1>8, TextDecoded
<1>10. c.arg = SubSeq(a, 1, i - 1) \o <<Space>> \o After(a, i)
  BY <1>3, <1>6, <1>7, <1>9
<1>11. c.arg = a
  BY <1>1, <1>5, <1>10, SplitArg DEF IntBefore
<1>12. c = [key |-> key, arg |-> a]
  BY <1>3, <1>4, <1>11
<1>13. QED
  BY <1>0, <1>1, <1>12

(* ... and a temperature, which is the only line then.                     *)
LEMMA TemperatureMeaning ==
    ASSUME NEW lines, Lines(lines), NEW s \in Seq(Piece), NEW own, NEW off,
           Laid(s, lines, own, off), s # <<>>, off[1] = 1, s[Len(s)] = "\n",
           NEW m \in Seq(Piece), NEW idx, Indexes(s, idx, m),
           NEW c \in TemperatureCommand(m)
    PROVE  own[1] \in 1 .. Len(lines) /\ c = lines[own[1]]
<1> DEFINE a == lines[own[1]].arg
           key == lines[own[1]].key
           second == NextBlank(m, 2)
           e == Element(m, second)
<1>0. own[1] \in 1 .. Len(lines)
  <2>1. 1 \in 1 .. Len(s)
    OBVIOUS
  <2>2. QED
    BY <2>1, LaidPiece
<1>1. /\ lines[own[1]] = [key |-> key, arg |-> a] /\ key \in DOMAIN Keyword
      /\ a \in Seq(Piece) /\ WellFormed(lines[own[1]])
  BY <1>0, LinePieces
<1>2. /\ Len(a) \in Nat /\ Len(m) >= 2 + Len(a) /\ Len(m) \in Nat
      /\ m[1] = Keyword[key][1]
      /\ 3 + Len(a) \in 1 .. Len(s)
      /\ \A x \in 1 .. 2 + Len(a) :
           own[x] = own[1] /\ off[x] = x /\ s[x] # "\n" /\ idx[x] = x /\ m[x] = s[x]
      /\ \A j \in 1 .. Len(a) : m[2 + j] = a[j]
  BY WholeStart
<1>3. /\ StartsWith(m, "temperature")
      /\ \A i \in Blanks(m) : i <= second
      /\ IsInt(e)
      /\ c = [key |-> "temperature", arg |-> Element(m, 2) \o <<Space>> \o e]
  BY DEF TemperatureCommand
<1>4. key = "temperature"
  <2>1. "temperature" \in DOMAIN Keyword
    BY Keywords
  <2>2. QED
    BY <1>1, <1>2, <1>3, <2>1, StartKey
<1>5. PICK i \in 1 .. Len(a) : IntBefore(a, i) /\ IsInt(After(a, i))
  <2>1. DOMAIN a = 1 .. Len(a)
    BY <1>1
  <2>2. QED
    BY <1>1, <1>4, <2>1 DEF WellFormed
<1> HIDE DEF a, key
<1>6. /\ second = 2 + i /\ 2 + i \in 1 .. Len(m)
      /\ Element(m, 2) = SubSeq(a, 1, i - 1)
  BY <1>1, <1>2, <1>5, FirstElement
<1> DEFINE t == SubSeq(a, i + 1, Len(a))
<1>7. /\ After(a, i) = t /\ t \in Seq(Piece)
      /\ Len(t) = Len(a) - i /\ \A j \in 1 .. Len(a) - i : t[j] = a[i + j]
  BY <1>1, Pieces DEF After
<1> HIDE DEF t
<1> DEFINE q == 2 + i
<1>8. /\ q \in 1 .. 2 + Len(a) /\ q \in 1 .. Len(s) /\ own[q] = own[1] /\ off[q] = q
      /\ s[q] # "\n" /\ idx[q] = q /\ q >= 2 /\ q - 2 = i
  <2>1. q \in 1 .. 2 + Len(a) /\ q \in 1 .. Len(s) /\ q >= 2 /\ q - 2 = i
    BY <1>2
  <2>2. QED
    BY <1>2, <2>1
<1> HIDE DEF q
<1>9. EndsWith(m, idx[q], e)
  <2> DEFINE stop == NextBlank(m, q)
  <2>1. /\ stop \in q + 1 .. Len(m) + 1 /\ stop \in Blanks(m) \cup {Len(m) + 1}
    BY <1>6, NextBlankFound DEF q
  <2>2. e = SubSeq(m, q + 1, IF stop \in Blanks(m) /\ m[stop] # Space THEN stop ELSE stop - 1)
    BY <1>6 DEF Element, q
  <2> HIDE DEF stop, e, second
  <2>3. stop \notin Blanks(m)
    <3>1. ~(stop <= q)
      BY <1>2, <1>8, <2>1
    <3>2. QED
      BY <1>3, <1>6, <3>1 DEF q
  <2>4. stop - 1 = Len(m)
    BY <1>2, <2>1, <2>3
  <2>5. e = SubSeq(m, q + 1, Len(m))
    BY <2>2, <2>3, <2>4
  <2>6. QED
    BY <1>8, <2>5 DEF EndsWith
<1>10. /\ e \in Seq(Piece)
       /\ Len(e) = Len(a) - i
       /\ \A j \in 1 .. Len(e) : e[j] = a[i + j]
  <2>1. /\ e \in Seq(Piece)
        /\ \A j \in 1 .. Len(e) : e[j] = lines[own[q]].arg[off[q] - 2 + j]
        /\ s[Len(s)] = "\n" => Len(e) = Len(lines[own[q]].arg) - (off[q] - 2)
    <3>1. off[q] >= 2 /\ IsInt(e)
      BY <1>3, <1>8 DEF e
    <3> HIDE DEF second
    <3>2. EndsWith(m, idx[q], e)
      BY <1>9 DEF e
    <3> HIDE DEF e
    <3>3. q \in 1 .. Len(s) /\ s[q] # "\n"
      BY <1>8
    <3> DEFINE b == lines[own[q]].arg
    <3>4. /\ e \in Seq(Piece)
          /\ Len(e) \in 1 .. Len(b) - (off[q] - 2)
          /\ \A j \in 1 .. Len(e) : e[j] = b[off[q] - 2 + j]
          /\ s[Len(s)] = "\n" => Len(e) = Len(b) - (off[q] - 2)
      BY <3>1, <3>2, <3>3, TailMeaning
    <3>5. QED
      BY <3>4
  <2>2. lines[own[q]].arg = a /\ off[q] - 2 = i
    BY <1>8 DEF a
  <2>3. QED
    BY <2>1, <2>2
<1> HIDE DEF e
<1>11. e = t
  <2>1. \A j \in 1 .. Len(e) : e[j] = t[j]
    BY <1>7, <1>10
  <2>2. QED
    BY <1>7, <1>10, <2>1, SeqEqual
<1>12. c.arg = SubSeq(a, 1, i - 1) \o <<Space>> \o After(a, i)
  BY <1>3, <1>6, <1>7, <1>11
<1>13. c.arg = a
  BY <1>1, <1>5, <1>12, SplitArg DEF IntBefore
<1>14. c = [key |-> key, arg |-> a]
  BY <1>3, <1>4, <1>13
<1>15. QED
  BY <1>0, <1>1, <1>14

LEMMA IntKeys ==
    ASSUME from \in {"php", "fonera"}
    PROVE  IntKey[from] \subseteq IntKey.php /\ IntKey.php \subseteq DOMAIN Keyword
<1>1. /\ IntKey.php = {"status", "enter", "leave", "sound"}
      /\ IntKey["php"] = {"status", "enter", "leave", "sound"}
      /\ IntKey["fonera"] = {"status", "enter", "leave"}
  BY DEF IntKey
<1>2. QED
  BY <1>1, Keywords

(* The command that a message is was sent: always when it is a status, and *)
(* whatever it is when lines are not cut.  A status is the last line.      *)
LEMMA CommandMeaning ==
    ASSUME NEW lines, Lines(lines), NEW s \in Seq(Piece), NEW own, NEW off,
           Laid(s, lines, own, off), s # <<>>,
           NEW m \in Seq(Piece), NEW idx, Indexes(s, idx, m),
           from \in {"php", "fonera"},
           NEW c \in Commands(m),
           c.key = "status" \/ (off[1] = 1 /\ s[Len(s)] = "\n")
    PROVE  \E p \in 1 .. Len(s) :
             /\ off[p] = 1 /\ own[p] \in 1 .. Len(lines) /\ c = lines[own[p]]
             /\ c.key = "status" => own[p] = own[Len(s)]
<1>0. Len(s) \in Nat /\ Len(s) >= 1 /\ 1 \in 1 .. Len(s)
  <2>1. Len(s) \in Nat /\ Len(s) # 0
    OBVIOUS
  <2>2. QED
    BY <2>1
<1>1. CASE c \in IntCommand(m)
  <2>1. PICK k \in IntKey[from] : /\ StartsWith(m, k) /\ IsInt(LastPart(m, k))
                                  /\ c = [key |-> k, arg |-> LastPart(m, k)]
    BY <1>1 DEF IntCommand
  <2>2. k \in DOMAIN Keyword
    BY IntKeys
  <2> DEFINE L == LastPart(m, k)
  <2>3. PICK p \in 1 .. Len(s) - 1 :
             LET n == Len(s)
                 a == lines[own[p]].arg
             IN  /\ off[p] = 1 /\ lines[own[p]].key = k /\ own[n] = own[p]
                 /\ L \in Seq(Piece)
                 /\ Len(L) \in 1 .. Len(a)
                 /\ \A j \in 1 .. Len(L) : L[j] = a[j]
                 /\ s[n] = "\n" => Len(L) = Len(a)
    BY <2>1, <2>2, IntMeaning
  <2>4. p \in 1 .. Len(s)
    BY <1>0
  <2>5. own[p] \in 1 .. Len(lines)
    BY <2>4, LaidPiece
  <2> DEFINE a == lines[own[p]].arg
  <2>6. /\ a \in Seq(Piece) /\ Len(a) \in Nat
        /\ lines[own[p]] = [key |-> k, arg |-> a] /\ WellFormed(lines[own[p]])
    BY <2>3, <2>5, LinePieces
  <2>7. c.key = "status" => Len(a) = 1
    BY <2>1, <2>3, <2>6 DEF WellFormed
  <2> HIDE DEF L
  <2>8. L \in Seq(Piece) /\ Len(L) \in 1 .. Len(a) /\ \A j \in 1 .. Len(L) : L[j] = a[j]
    BY <2>3
  <2>9. Len(L) = Len(a)
    <3>1. c.key = "status" \/ s[Len(s)] = "\n"
      OBVIOUS
    <3> HIDE DEF a
    <3>2. Len(a) = 1 => Len(L) = Len(a)
      BY <2>8
    <3>3. QED
      BY <2>3, <2>7, <3>1, <3>2 DEF a
  <2>10. L = a
    BY <2>6, <2>8, <2>9, SeqEqual
  <2>11. c = lines[own[p]]
    BY <2>1, <2>6, <2>10 DEF L
  <2>12. QED
    BY <2>3, <2>4, <2>5, <2>11
<1>2. CASE c \in TextCommand(m) \/ c \in TemperatureCommand(m)
  <2>1. c.key = "message" \/ c.key = "temperature"
    BY <1>2 DEF TextCommand, TemperatureCommand
  <2>2. c.key # "status"
    BY <2>1
  <2>3. own[1] \in 1 .. Len(lines) /\ c = lines[own[1]]
    BY <1>2, <2>2, TextMeaning, TemperatureMeaning
  <2>4. QED
    BY <1>0, <2>2, <2>3
<1>3. QED
  BY <1>1, <1>2 DEF Commands

LEMMA CommandType ==
    ASSUME NEW m \in Seq(Piece), from \in {"php", "fonera"}, NEW c \in Commands(m)
    PROVE  c \in [key : DOMAIN Keyword, arg : Seq(Piece)]
<1>0. Len(m) \in Nat
  OBVIOUS
<1>1. CASE c \in IntCommand(m)
  <2>1. PICK k \in IntKey[from] : /\ StartsWith(m, k)
                                  /\ c = [key |-> k, arg |-> LastPart(m, k)]
    BY <1>1 DEF IntCommand
  <2>2. k \in DOMAIN Keyword
    BY IntKeys
  <2>3. LastPart(m, k) \in Seq(Piece)
    <3> DEFINE starts == {i \in 1 .. Len(m) - 1 : SubSeq(m, i, i + 1) = Keyword[k]}
               top == CHOOSE i \in starts : \A j \in starts : i >= j
    <3>1. 1 \in starts
      <4>1. Len(m) >= 2 /\ SubSeq(m, 1, 2) = Keyword[k]
        BY <2>1 DEF StartsWith
      <4>2. 1 + 1 = 2 /\ 1 \in 1 .. Len(m) - 1
        BY <1>0, <4>1
      <4>3. QED
        BY <4>1, <4>2
    <3>2. \E i \in starts : \A j \in starts : i >= j
      <4>1. starts \subseteq 1 .. Len(m) - 1
        OBVIOUS
      <4> HIDE DEF starts
      <4>2. starts \subseteq 0 .. Len(m) /\ starts # {}
        BY <1>0, <3>1, <4>1
      <4>3. QED
        BY <1>0, <4>2, GreatestNat
    <3>3. top \in 1 .. Len(m) - 1
      BY <3>2
    <3>4. LastPart(m, k) = SubSeq(m, 2 + top, Len(m))
      BY DEF LastPart
    <3> HIDE DEF top
    <3>5. \A i \in 2 + top .. Len(m) : m[i] \in Piece
      BY <1>0, <3>3, ElementOfSeq
    <3>6. 2 + top \in Int /\ Len(m) \in Int
      BY <1>0, <3>3
    <3>7. QED
      BY <3>4, <3>5, <3>6, SubSeqProperties
  <2>4. QED
    BY <2>1, <2>2, <2>3
<1>2. CASE c \in TextCommand(m) \/ c \in TemperatureCommand(m)
  <2> DEFINE second == NextBlank(m, 2)
             b == Element(m, 2)
             e == Element(m, second)
  <2>1. /\ Len(m) >= 2 /\ second \in Blanks(m)
        /\ \/ c = [key |-> "message", arg |-> b \o <<Space>> \o Decoded(e)]
           \/ c = [key |-> "temperature", arg |-> b \o <<Space>> \o e]
    BY <1>2 DEF TextCommand, TemperatureCommand, StartsWith
  <2>2. b \in Seq(Piece) /\ e \in Seq(Piece)
    <3>1. 2 \in 1 .. Len(m) /\ second \in 1 .. Len(m)
      BY <1>0, <2>1 DEF Blanks
    <3>2. QED
      BY <3>1, ElementType
  <2> HIDE DEF b, e, second
  <2>3. Decoded(e) \in Seq(Piece)
    BY <2>2 DEF Decoded
  <2>4. <<Space>> \in Seq(Piece)
    BY DEF Piece
  <2>5. b \o <<Space>> \o Decoded(e) \in Seq(Piece) /\ b \o <<Space>> \o e \in Seq(Piece)
    BY <2>2, <2>3, <2>4
  <2>6. "message" \in DOMAIN Keyword /\ "temperature" \in DOMAIN Keyword
    BY Keywords
  <2> DEFINE f == b \o <<Space>> \o Decoded(e)
             g == b \o <<Space>> \o e
  <2>7. f \in Seq(Piece) /\ g \in Seq(Piece)
    BY <2>5
  <2>8. c = [key |-> "message", arg |-> f] \/ c = [key |-> "temperature", arg |-> g]
    BY <2>1
  <2> HIDE DEF f, g
  <2>9. QED
    BY <2>6, <2>7, <2>8
<1>3. QED
  BY <1>1, <1>2 DEF Commands

-----------------------------------------------------------------------------
(* A stream stays laid out.                                                *)

(* It ends with a whole line, the last that was sent. *)
Ends(s, lines, own, off) ==
    s # <<>> => own[Len(s)] = Len(lines) /\ off[Len(s)] = LineLen(lines, Len(lines))

LEMMA LaidEmpty ==
    ASSUME NEW lines, NEW own, NEW off
    PROVE  Laid(<<>>, lines, own, off) /\ Ends(<<>>, lines, own, off)
<1>1. Len(<<>>) = 0 /\ 1 .. 0 = {}
  OBVIOUS
<1>2. QED
  BY <1>1 DEF Laid, Ends

LEMMA LaidPrefix ==
    ASSUME NEW lines, NEW s \in Seq(Piece), NEW own, NEW off,
           Laid(s, lines, own, off), NEW n \in 0 .. Len(s)
    PROVE  /\ SubSeq(s, 1, n) \in Seq(Piece) /\ Len(SubSeq(s, 1, n)) = n
           /\ \A p \in 1 .. n : SubSeq(s, 1, n)[p] = s[p]
           /\ Laid(SubSeq(s, 1, n), lines, own, off)
<1> DEFINE t == SubSeq(s, 1, n)
<1>1. t \in Seq(Piece) /\ Len(t) = n /\ \A p \in 1 .. n : t[p] = s[p]
  OBVIOUS
<1>2. \A p \in 1 .. n : p \in 1 .. Len(s)
  OBVIOUS
<1> HIDE DEF t
<1>3. Laid(t, lines, own, off)
  BY <1>1, <1>2 DEF Laid
<1>4. QED
  BY <1>1, <1>3 DEF t

(* t is what s is without its first n pieces. *)
Rest(s, own, off, n, t, own2, off2) ==
    /\ n \in 1 .. Len(s) /\ t \in Seq(Piece) /\ Len(t) = Len(s) - n
    /\ \A p \in 1 .. Len(s) - n : own2[p] = own[n + p] /\ off2[p] = off[n + p]

LEMMA LaidDrop ==
    ASSUME NEW lines, NEW s \in Seq(Piece), NEW own, NEW off,
           Laid(s, lines, own, off), Ends(s, lines, own, off), NEW n \in 1 .. Len(s),
           NEW t, EndsWith(s, n, t)
    PROVE  \E own2, off2 : /\ Laid(t, lines, own2, off2) /\ Ends(t, lines, own2, off2)
                           /\ Rest(s, own, off, n, t, own2, off2)
<1> DEFINE own2 == [p \in 1 .. Len(s) - n |-> own[n + p]]
           off2 == [p \in 1 .. Len(s) - n |-> off[n + p]]
<1>0. Len(s) \in Nat /\ n \in Nat /\ n <= Len(s)
  OBVIOUS
<1>1. /\ t \in Seq(Piece) /\ Len(t) = Len(s) - n
      /\ \A p \in 1 .. Len(s) - n : t[p] = s[n + p]
  BY DEF EndsWith
<1>2. \A p \in 1 .. Len(s) - n : own2[p] = own[n + p] /\ off2[p] = off[n + p]
  OBVIOUS
<1> HIDE DEF own2, off2
<1>3. \A p \in 1 .. Len(s) - n : n + p \in 1 .. Len(s)
  BY <1>0
<1>4. ASSUME NEW p \in 1 .. Len(t)
      PROVE  /\ own2[p] \in 1 .. Len(lines) /\ off2[p] \in 1 .. LineLen(lines, own2[p])
             /\ t[p] = Text(lines[own2[p]])[off2[p]]
  <2>1. /\ t[p] = s[n + p] /\ own2[p] = own[n + p] /\ off2[p] = off[n + p]
        /\ n + p \in 1 .. Len(s)
    BY <1>1, <1>2, <1>3
  <2>2. /\ own[n + p] \in 1 .. Len(lines) /\ off[n + p] \in 1 .. LineLen(lines, own[n + p])
        /\ s[n + p] = Text(lines[own[n + p]])[off[n + p]]
    BY <2>1 DEF Laid
  <2>3. QED
    BY <2>1, <2>2
<1>5. ASSUME NEW p \in 1 .. Len(t), NEW q \in 1 .. Len(t), p < q
      PROVE  \/ own2[q] = own2[p] /\ off2[q] = off2[p] + (q - p)
             \/ /\ own2[q] > own2[p] /\ q - p >= off2[q]
                /\ q - p > LineLen(lines, own2[p]) - off2[p]
  <2>1. /\ own2[p] = own[n + p] /\ off2[p] = off[n + p] /\ n + p \in 1 .. Len(s)
        /\ own2[q] = own[n + q] /\ off2[q] = off[n + q] /\ n + q \in 1 .. Len(s)
    BY <1>1, <1>2, <1>3
  <2>2. n + p < n + q /\ (n + q) - (n + p) = q - p
    BY <1>0, <1>1, <1>5
  <2>3. \/ own[n + q] = own[n + p] /\ off[n + q] = off[n + p] + ((n + q) - (n + p))
        \/ /\ own[n + q] > own[n + p] /\ (n + q) - (n + p) >= off[n + q]
           /\ (n + q) - (n + p) > LineLen(lines, own[n + p]) - off[n + p]
    BY <2>1, <2>2 DEF Laid
  <2>4. QED
    BY <2>1, <2>2, <2>3
<1>6. Laid(t, lines, own2, off2)
  BY <1>4, <1>5 DEF Laid
<1>7. Ends(t, lines, own2, off2)
  <2> SUFFICES ASSUME t # <<>>
               PROVE  own2[Len(t)] = Len(lines) /\ off2[Len(t)] = LineLen(lines, Len(lines))
    BY DEF Ends
  <2>1. Len(t) # 0 /\ Len(t) \in Nat
    BY <1>1
  <2>2. Len(t) \in 1 .. Len(s) - n /\ n + Len(t) = Len(s) /\ Len(s) # 0
    BY <1>0, <1>1, <2>1
  <2>3. own2[Len(t)] = own[Len(s)] /\ off2[Len(t)] = off[Len(s)]
    BY <1>2, <2>2
  <2>4. s # <<>>
    BY <2>2
  <2>5. QED
    BY <2>3, <2>4 DEF Ends
<1>8. Rest(s, own, off, n, t, own2, off2)
  BY <1>1, <1>2 DEF Rest
<1>9. QED
  BY <1>6, <1>7, <1>8

LEMMA LaidAppend ==
    ASSUME NEW S, NEW lines \in Seq(S), Lines(lines), NEW s \in Seq(Piece), NEW own, NEW off,
           Laid(s, lines, own, off), Ends(s, lines, own, off),
           NEW line \in S, WellFormed(line)
    PROVE  LET t == s \o Text(line)
               more == Append(lines, line)
           IN  /\ t \in Seq(Piece) /\ t # <<>>
               /\ Lines(more)
               /\ \E own2, off2 :
                    /\ Laid(t, more, own2, off2) /\ Ends(t, more, own2, off2)
                    /\ s # <<>> => own2[1] = own[1] /\ off2[1] = off[1]
                    /\ s = <<>> => own2[1] = Len(lines) + 1 /\ off2[1] = 1
<1> DEFINE t == s \o Text(line)
           more == Append(lines, line)
           n == Len(s)
           l == Len(lines)
           k == Len(Text(line))
           own2 == [p \in 1 .. n + k |-> IF p <= n THEN own[p] ELSE l + 1]
           off2 == [p \in 1 .. n + k |-> IF p <= n THEN off[p] ELSE p - n]
<1>0. /\ n \in Nat /\ l \in Nat /\ Text(line) \in Seq(Piece) /\ k \in Nat
      /\ k = 3 + Len(line.arg) /\ k >= 1
  <2>1. /\ Text(line) \in Seq(Piece) /\ k = 3 + Len(line.arg) /\ Len(line.arg) \in Nat
    BY TextPieces
  <2>2. QED
    BY <2>1
<1>1. /\ t \in Seq(Piece) /\ Len(t) = n + k
      /\ \A p \in 1 .. n + k : t[p] = IF p <= n THEN s[p] ELSE Text(line)[p - n]
  <2>1. PICK u \in Seq(Piece) : u = Text(line)
    BY <1>0
  <2>2. /\ s \o u \in Seq(Piece) /\ Len(s \o u) = Len(s) + Len(u)
        /\ \A p \in 1 .. Len(s) + Len(u) :
             (s \o u)[p] = IF p <= Len(s) THEN s[p] ELSE u[p - Len(s)]
    BY ConcatProperties
  <2>3. QED
    BY <2>1, <2>2, Zenon
<1>2. /\ more \in Seq(S) /\ Len(more) = l + 1 /\ more[l + 1] = line
      /\ \A i \in 1 .. l : more[i] = lines[i]
  BY <1>0, AppendProperties
<1>3. \A p \in 1 .. n + k : /\ p <= n => own2[p] = own[p] /\ off2[p] = off[p]
                            /\ ~(p <= n) => own2[p] = l + 1 /\ off2[p] = p - n
  OBVIOUS
<1> HIDE DEF t, more, own2, off2
<1>4. Lines(more)
  <2>1. ASSUME NEW i \in 1 .. l + 1
        PROVE  WellFormed(more[i])
    <3>1. i = l + 1 \/ i \in 1 .. l
      BY <1>0
    <3>2. \A j \in 1 .. l : WellFormed(lines[j])
      BY DEF Lines
    <3>3. QED
      BY <1>2, <3>1, <3>2
  <2>2. l + 1 \in Nat
    BY <1>0
  <2>3. QED
    BY <1>2, <2>1, <2>2 DEF Lines
<1>5. /\ LineLen(more, l + 1) = k
      /\ \A i \in 1 .. l : LineLen(more, i) = LineLen(lines, i)
  BY <1>0, <1>2 DEF LineLen
<1>6. ASSUME NEW p \in 1 .. n
      PROVE  /\ p \in 1 .. n + k /\ own2[p] = own[p] /\ off2[p] = off[p] /\ t[p] = s[p]
             /\ own[p] \in 1 .. l /\ own[p] \in Nat
             /\ more[own[p]] = lines[own[p]] /\ LineLen(more, own[p]) = LineLen(lines, own[p])
             /\ off[p] \in 1 .. LineLen(lines, own[p])
             /\ off[p] \in Nat /\ LineLen(lines, own[p]) \in Nat
  <2>1. p \in 1 .. n + k /\ p <= n
    BY <1>0
  <2>2. /\ own[p] \in 1 .. l /\ own[p] \in Nat /\ off[p] \in 1 .. LineLen(lines, own[p])
        /\ off[p] \in Nat /\ LineLen(lines, own[p]) \in Nat
    BY LaidPiece
  <2>3. QED
    BY <1>1, <1>2, <1>3, <1>5, <2>1, <2>2
<1>7. ASSUME NEW p \in n + 1 .. n + k
      PROVE  /\ own2[p] = l + 1 /\ off2[p] = p - n /\ t[p] = Text(line)[p - n]
             /\ p - n \in 1 .. k
  <2>1. p \in 1 .. n + k /\ ~(p <= n) /\ p - n \in 1 .. k
    BY <1>0
  <2>2. QED
    BY <1>1, <1>3, <2>1
<1>8. ASSUME NEW p \in 1 .. n + k
      PROVE  p \in 1 .. n \/ p \in n + 1 .. n + k
  BY <1>0
<1>9. ASSUME NEW p \in 1 .. Len(t)
      PROVE  /\ own2[p] \in 1 .. Len(more) /\ off2[p] \in 1 .. LineLen(more, own2[p])
             /\ t[p] = Text(more[own2[p]])[off2[p]]
  <2>1. CASE p \in 1 .. n
    <3>1. s[p] = Text(lines[own[p]])[off[p]]
      BY <2>1 DEF Laid
    <3>2. own[p] \in 1 .. l + 1
      BY <1>0, <1>6, <2>1
    <3>3. QED
      BY <1>2, <1>6, <2>1, <3>1, <3>2
  <2>2. CASE p \in n + 1 .. n + k
    <3>1. l + 1 \in 1 .. l + 1
      BY <1>0
    <3>2. QED
      BY <1>2, <1>5, <1>7, <2>2, <3>1
  <2>3. QED
    BY <1>1, <1>8, <2>1, <2>2
<1>10. ASSUME NEW p \in 1 .. Len(t), NEW q \in 1 .. Len(t), p < q
       PROVE  \/ own2[q] = own2[p] /\ off2[q] = off2[p] + (q - p)
              \/ /\ own2[q] > own2[p] /\ q - p >= off2[q]
                 /\ q - p > LineLen(more, own2[p]) - off2[p]
  <2>0. p \in 1 .. n + k /\ q \in 1 .. n + k
    BY <1>1
  <2>1. CASE q \in 1 .. n
    <3>1. p \in 1 .. n
      BY <1>0, <1>10, <2>0, <2>1
    <3>2. \/ own[q] = own[p] /\ off[q] = off[p] + (q - p)
          \/ /\ own[q] > own[p] /\ q - p >= off[q]
             /\ q - p > LineLen(lines, own[p]) - off[p]
      BY <1>10, <2>1, <3>1, LaidOrder
    <3>3. QED
      BY <1>6, <2>1, <3>1, <3>2
  <2>2. CASE p \in n + 1 .. n + k
    <3>1. q \in n + 1 .. n + k
      BY <1>0, <1>10, <2>0, <2>2
    <3>2. q - n = (p - n) + (q - p)
      BY <1>0, <2>0
    <3>3. QED
      BY <1>7, <2>2, <3>1, <3>2
  <2>3. CASE p \in 1 .. n /\ q \in n + 1 .. n + k
    <3>1. /\ own2[p] = own[p] /\ off2[p] = off[p] /\ LineLen(more, own2[p]) = LineLen(lines, own[p])
          /\ own2[q] = l + 1 /\ off2[q] = q - n
      BY <1>6, <1>7, <2>3
    <3>2. own2[q] > own2[p] /\ q - p >= off2[q]
      <4>1. own[p] \in Nat /\ own[p] <= l
        BY <1>0, <1>6, <2>3
      <4>2. q - p >= q - n
        BY <1>0, <2>0, <2>3
      <4>3. QED
        BY <1>0, <3>1, <4>1, <4>2
    <3>3. own[n] = l /\ off[n] = LineLen(lines, l)
      <4>1. s # <<>>
        BY <1>0, <2>3
      <4>2. QED
        BY <4>1 DEF Ends
    <3>4. off[p] \in Nat /\ LineLen(lines, own[p]) \in Nat
      BY <1>6, <2>3
    <3>5. q - p > LineLen(lines, own[p]) - off[p]
      <4>1. CASE p = n
        <5>1. LineLen(lines, own[p]) - off[p] = 0
          BY <3>3, <3>4, <4>1
        <5>2. q - p > 0
          BY <1>0, <1>10, <2>0
        <5>3. QED
          BY <5>1, <5>2
      <4>2. CASE p # n
        <5>1. n \in 1 .. n /\ p < n /\ p \in 1 .. n
          BY <1>0, <2>3, <4>2
        <5>2. \/ own[n] = own[p] /\ off[n] = off[p] + (n - p)
              \/ n - p > LineLen(lines, own[p]) - off[p]
          BY <5>1, LaidOrder
        <5>3. q - p > n - p /\ n - p \in Nat /\ q - p \in Nat
          BY <1>0, <1>10, <2>0, <2>3, <5>1
        <5>4. CASE own[n] = own[p] /\ off[n] = off[p] + (n - p)
          <6>1. LineLen(lines, own[p]) = off[p] + (n - p)
            BY <3>3, <5>4
          <6>2. LineLen(lines, own[p]) - off[p] = n - p
            BY <3>4, <5>3, <6>1
          <6>3. QED
            BY <5>3, <6>2
        <5>5. CASE n - p > LineLen(lines, own[p]) - off[p]
          BY <3>4, <5>3, <5>5
        <5>6. QED
          BY <5>2, <5>4, <5>5
      <4>3. QED
        BY <4>1, <4>2
    <3>6. QED
      BY <3>1, <3>2, <3>5
  <2>4. QED
    BY <1>8, <2>0, <2>1, <2>2, <2>3
<1>11. Laid(t, more, own2, off2)
  BY <1>9, <1>10 DEF Laid
<1>12. Ends(t, more, own2, off2)
  <2>1. n + k \in n + 1 .. n + k /\ (n + k) - n = k
    BY <1>0
  <2>2. own2[n + k] = l + 1 /\ off2[n + k] = k
    BY <1>7, <2>1
  <2>3. QED
    BY <1>1, <1>2, <1>5, <2>2 DEF Ends
<1>13. s # <<>> => own2[1] = own[1] /\ off2[1] = off[1]
  <2>1. s # <<>> => 1 \in 1 .. n
    BY <1>0
  <2>2. QED
    BY <1>6, <2>1
<1>14. s = <<>> => own2[1] = l + 1 /\ off2[1] = 1
  <2>1. s = <<>> => 1 \in n + 1 .. n + k /\ 1 - n = 1
    BY <1>0
  <2>2. QED
    BY <1>7, <2>1
<1>15. t # <<>>
  BY <1>0, <1>1
<1>16. QED
  BY <1>1, <1>4, <1>11, <1>12, <1>13, <1>14, <1>15 DEF t, more, l

(* Whole lines whose last has a number of one digit: the keyword and the   *)
(* digit are the end of the message, and the digit is what the split gives.*)
LEMMA WholeEnd ==
    ASSUME NEW lines, Lines(lines), NEW s \in Seq(Piece), NEW own, NEW off,
           Laid(s, lines, own, off),
           s # <<>>, off[1] = 1, s[Len(s)] = "\n",
           NEW k \in DOMAIN Keyword, lines[own[Len(s)]].key = k,
           IsInt(lines[own[Len(s)]].arg), Len(lines[own[Len(s)]].arg) = 1
    PROVE  LET n == Len(s)
           IN  /\ n \in Nat /\ n >= 4
               /\ s[n - 3] = Keyword[k][1] /\ s[n - 2] = Keyword[k][2]
               /\ s[n - 1] \in NumberDigit
               /\ \A x \in n - 3 .. n - 1 : s[x] # "\n"
<1> DEFINE n == Len(s)
           o == own[n]
<1>1. n \in Nat /\ n >= 1 /\ 1 \in 1 .. n /\ n \in 1 .. n
  <2>1. Len(s) \in Nat /\ Len(s) >= 1
    OBVIOUS
  <2>2. QED
    BY <2>1
<1> HIDE DEF n
<1>2. s[n] = "\n" /\ lines[o].key = k /\ IsInt(lines[o].arg) /\ Len(lines[o].arg) = 1
  BY DEF n
<1>0. ASSUME NEW x \in 1 .. n, own[x] = o
      PROVE  /\ o \in 1 .. Len(lines) /\ off[x] \in Nat
             /\ s[x] = Keyword[k][1] <=> off[x] = 1
             /\ s[x] = Keyword[k][2] <=> off[x] = 2
             /\ s[x] = "\n" <=> off[x] = 4
             /\ off[x] = 3 => s[x] = lines[o].arg[1]
  <2>1. x \in 1 .. Len(s)
    BY DEF n
  <2>2. /\ own[x] \in 1 .. Len(lines) /\ off[x] \in Nat
        /\ LineLen(lines, own[x]) = 3 + Len(lines[own[x]].arg)
        /\ Len(lines[own[x]].arg) \in Nat
        /\ lines[own[x]].key \in DOMAIN Keyword
        /\ s[x] = Keyword[k][1] <=> off[x] = 1 /\ lines[own[x]].key = k
        /\ s[x] = Keyword[k][2] <=> off[x] = 2 /\ lines[own[x]].key = k
        /\ s[x] = "\n" <=> off[x] = LineLen(lines, own[x])
        /\ off[x] > 2 /\ s[x] # "\n" =>
             /\ off[x] - 2 \in 1 .. Len(lines[own[x]].arg)
             /\ s[x] = lines[own[x]].arg[off[x] - 2]
    BY <2>1, LaidPiece
  <2>3. LineLen(lines, own[x]) = 4
    <3>1. Len(lines[own[x]].arg) = 1
      BY <1>0, <1>2
    <3>2. \A l \in Nat : l = 1 => 3 + l = 4
      OBVIOUS
    <3>3. QED
      BY <2>2, <3>1, <3>2
  <2>4. off[x] = 3 => off[x] > 2 /\ off[x] - 2 = 1 /\ s[x] # "\n"
    BY <2>2, <2>3
  <2>5. QED
    BY <1>0, <1>2, <2>2, <2>3, <2>4
<1>3. off[n] = 4
  BY <1>0, <1>1, <1>2
<1>4. n >= 4
  <2>1. CASE n = 1
    BY <1>3, <2>1
  <2>2. CASE n > 1
    <3>1. \/ off[n] = off[1] + (n - 1)
          \/ n - 1 >= off[n]
      BY <1>1, <2>2, LaidOrder DEF n
    <3>2. QED
      BY <1>1, <1>3, <3>1
  <2>3. QED
    BY <1>1, <2>1, <2>2
<1>5. ASSUME NEW d \in 1 .. 3
      PROVE  /\ n - d \in 1 .. n /\ own[n - d] = o /\ off[n - d] = 4 - d
  <2>1. n - d \in 1 .. n /\ n - d < n /\ n - (n - d) = d
    BY <1>1, <1>4
  <2>2. \A x \in 1 .. n : off[x] \in Nat
    BY LaidPiece DEF n
  <2>3. \/ own[n] = own[n - d] /\ off[n] = off[n - d] + d
        \/ d >= off[n]
    <3>1. \/ own[n] = own[n - d] /\ off[n] = off[n - d] + (n - (n - d))
          \/ n - (n - d) >= off[n]
      BY <1>1, <2>1, LaidOrder DEF n
    <3>2. QED
      BY <2>1, <3>1
  <2>4. QED
    BY <1>3, <2>1, <2>2, <2>3
<1>6. /\ n - 3 \in 1 .. n /\ own[n - 3] = o /\ off[n - 3] = 1
      /\ n - 2 \in 1 .. n /\ own[n - 2] = o /\ off[n - 2] = 2
      /\ n - 1 \in 1 .. n /\ own[n - 1] = o /\ off[n - 1] = 3
  <2>1. 1 \in 1 .. 3 /\ 2 \in 1 .. 3 /\ 3 \in 1 .. 3 /\ 4 - 1 = 3 /\ 4 - 2 = 2 /\ 4 - 3 = 1
    OBVIOUS
  <2>2. QED
    BY <1>5, <2>1
<1>7. /\ s[n - 3] = Keyword[k][1] /\ s[n - 3] # "\n"
      /\ s[n - 2] = Keyword[k][2] /\ s[n - 2] # "\n"
      /\ s[n - 1] = lines[o].arg[1] /\ s[n - 1] # "\n"
  BY <1>0, <1>6
<1>8. s[n - 1] \in NumberDigit
  <2>1. lines[o] = lines[o] /\ WellFormed(lines[o])
    BY <1>0, <1>1 DEF Lines
  <2>2. lines[o].arg \in Seq(Piece) /\ 1 \in 1 .. Len(lines[o].arg)
    BY <1>2, <2>1, TextPieces
  <2>3. QED
    BY <1>2, <1>7, <2>2, IntOfDigits
<1>9. \A x \in n - 3 .. n - 1 : x = n - 3 \/ x = n - 2 \/ x = n - 1
  BY <1>1, <1>4
<1>10. QED
  BY <1>1, <1>4, <1>7, <1>8, <1>9 DEF n

LEMMA NumberAtEnd ==
    ASSUME NEW lines, Lines(lines), NEW s \in Seq(Piece), NEW own, NEW off,
           Laid(s, lines, own, off),
           s # <<>>, off[1] = 1, s[Len(s)] = "\n",
           NEW k \in DOMAIN Keyword, lines[own[Len(s)]].key = k,
           IsInt(lines[own[Len(s)]].arg), Len(lines[own[Len(s)]].arg) = 1,
           NEW m \in Seq(Piece), NEW idx, Indexes(s, idx, m)
    PROVE  IsInt(LastPart(m, k))
<1> DEFINE n == Len(s)
           L == Len(m)
           starts == {i \in 1 .. Len(m) - 1 : SubSeq(m, i, i + 1) = Keyword[k]}
           top == CHOOSE i \in starts : \A j \in starts : i >= j
<1>1. /\ n \in Nat /\ n >= 4
      /\ s[n - 3] = Keyword[k][1] /\ s[n - 2] = Keyword[k][2] /\ s[n - 1] \in NumberDigit
      /\ \A x \in n - 3 .. n - 1 : s[x] # "\n"
  BY WholeEnd
<1>2. L \in Nat
  OBVIOUS
<1>3. s[n] = "\n" /\ idx[n] = L
  BY DEF Indexes
<1>4. /\ \A p \in 1 .. n : s[p] # "\n" => idx[p] >= 1 /\ m[idx[p]] = s[p]
      /\ \A p, q \in 0 .. n :
           p <= q /\ (\A x \in p + 1 .. q : s[x] # "\n") => idx[q] = idx[p] + (q - p)
      /\ \A q \in 1 .. n : s[q] = "\n" => idx[q] = idx[q - 1]
      /\ \A p \in 0 .. n : idx[p] \in Nat
  BY DEF Indexes
<1> HIDE DEF n, L, starts, top
<1>5. idx[n - 1] = L
  BY <1>1, <1>3, <1>4
<1>6. idx[n - 1] = idx[n - 2] + 1 /\ idx[n - 1] = idx[n - 3] + 2
  <2>1. \A i \in Nat : i >= 4 =>
          /\ i - 1 \in 0 .. i /\ i - 2 \in 0 .. i /\ i - 3 \in 0 .. i
          /\ i - 2 <= i - 1 /\ i - 3 <= i - 1
          /\ (i - 1) - (i - 2) = 1 /\ (i - 1) - (i - 3) = 2
    OBVIOUS
  <2>2. /\ n - 1 \in 0 .. n /\ n - 2 \in 0 .. n /\ n - 3 \in 0 .. n
        /\ n - 2 <= n - 1 /\ n - 3 <= n - 1
        /\ (n - 1) - (n - 2) = 1 /\ (n - 1) - (n - 3) = 2
    BY <1>1, <2>1
  <2>3. /\ \A x \in (n - 2) + 1 .. n - 1 : s[x] # "\n"
        /\ \A x \in (n - 3) + 1 .. n - 1 : s[x] # "\n"
    BY <1>1
  <2>4. idx[n - 1] = idx[n - 2] + ((n - 1) - (n - 2))
    BY <1>4, <2>2, <2>3
  <2>5. idx[n - 1] = idx[n - 3] + ((n - 1) - (n - 3))
    BY <1>4, <2>2, <2>3
  <2>6. QED
    BY <2>2, <2>4, <2>5
<1>7. /\ L >= 3 /\ m[L] \in NumberDigit
      /\ m[L - 1] = Keyword[k][2] /\ m[L - 2] = Keyword[k][1]
  <2>1. /\ n - 1 \in 1 .. n /\ n - 2 \in 1 .. n /\ n - 3 \in 1 .. n
        /\ s[n - 1] # "\n" /\ s[n - 2] # "\n" /\ s[n - 3] # "\n"
    BY <1>1
  <2>2. /\ idx[n - 3] >= 1 /\ m[idx[n - 3]] = s[n - 3]
        /\ m[idx[n - 2]] = s[n - 2] /\ m[idx[n - 1]] = s[n - 1]
    BY <1>4, <2>1
  <2>3. idx[n - 2] \in Nat /\ idx[n - 3] \in Nat
    BY <1>1, <1>4
  <2>4. L >= 3 /\ idx[n - 2] = L - 1 /\ idx[n - 3] = L - 2
    BY <1>2, <1>5, <1>6, <2>2, <2>3
  <2>5. QED
    BY <1>1, <1>5, <2>2, <2>4
<1>8. L - 2 \in starts /\ L - 1 \notin starts /\ \A i \in starts : i \in 1 .. L - 1
  <2>1. /\ L - 2 \in 1 .. L - 1 /\ (L - 2) + 1 = L - 1
        /\ L - 1 \in 1 .. L - 1
    BY <1>2, <1>7
  <2>2. SubSeq(m, L - 2, (L - 2) + 1) = Keyword[k]
    BY <1>7, <2>1, KeywordAt DEF L
  <2>3. Keyword[k][1] # Keyword[k][2]
    BY KeywordApart
  <2>4. SubSeq(m, L - 1, (L - 1) + 1) # Keyword[k]
    BY <1>7, <2>1, <2>3, KeywordAt DEF L
  <2>5. QED
    BY <2>1, <2>2, <2>4 DEF starts, L
<1>9. \A j \in starts : L - 2 >= j
  BY <1>2, <1>7, <1>8
<1>10. top \in starts /\ \A j \in starts : top >= j
  BY <1>8, <1>9 DEF top
<1>11. 2 + top = L
  BY <1>2, <1>7, <1>8, <1>10
<1>12. LastPart(m, k) = SubSeq(m, 2 + top, L)
  BY DEF LastPart, top, starts, L
<1>13. LastPart(m, k) = SubSeq(m, L, L)
  BY <1>11, <1>12
<1>14. IsInt(SubSeq(m, L, L))
  <2>1. L \in 1 .. Len(m)
    BY <1>2, <1>7 DEF L
  <2> DEFINE t == SubSeq(m, L, L)
  <2>2. t \in Seq(Piece) /\ Len(t) = 1 /\ t[1] = m[L]
    BY <2>1
  <2> HIDE DEF t
  <2>3. t # <<>> /\ \A i \in DOMAIN t : i = 1
    <3>1. DOMAIN t = 1 .. 1
      BY <2>2
    <3>2. \A i \in 1 .. 1 : i = 1
      OBVIOUS
    <3>3. t # <<>>
      <4>1. Len(<<>>) # 1
        OBVIOUS
      <4>2. QED
        BY <2>2, <4>1, Zenon
    <3>4. QED
      BY <3>1, <3>2, <3>3
  <2>4. IsInt(t)
    BY <1>7, <2>2, <2>3 DEF IsInt
  <2>5. QED
    BY <2>4 DEF t
<1>15. QED
  BY <1>13, <1>14
=============================================================================
