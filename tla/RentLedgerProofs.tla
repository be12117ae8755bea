--------------------------- MODULE RentLedgerProofs ---------------------------
(***************************************************************************)
(* Proofs about RentLedger: its type invariant, MoneyIsConserved,          *)
(* AttributionHonoured and ServiceRefusesFirst, for any contracts, any      *)
(* ledger to start from that keeps the foreign keys and passes the deferred *)
(* check, any largest amount and any bounds on the rows.                   *)
(*                                                                         *)
(* A ledger is Sound when it has everything rent_check_ledger asks but the  *)
(* attributions.  The work is to show that each command, with all that its  *)
(* stages append, leaves a sound ledger for the check to look at: so the    *)
(* check has only the attributions to refuse, and what passes is sound.     *)
(* The balances are sums over the rows of a table, taken here as the last   *)
(* of their partial sums; that a reversal cancels the row it takes back,    *)
(* whatever comes between, is what makes the totals those of the live rows. *)
(***************************************************************************)
EXTENDS RentLedger, SequenceTheorems, WellFoundedInduction, TLAPS

----------------------------------------------------------------------------
(* Sums                                                                    *)

\* A set that has 0, and the successor of what it has up to n, has 0..n: the
\* least number that is missing has a predecessor that is not.
LEMMA Induction ==
    ASSUME NEW n \in Nat, NEW T, 0 \in T, \A i \in 0..(n-1) : i \in T => i + 1 \in T
    PROVE  \A i \in 0..n : i \in T
<1> DEFINE R == OpToRel(<, Nat)
           missing == {i \in 0..n : i \notin T}
<1>1. IsWellFoundedOn(R, Nat)  BY NatLessThanWellFounded
<1>2. \A x, y \in Nat : <<x, y>> \in R <=> x < y  BY DEF OpToRel
<1> HIDE DEF R
<1>3. SUFFICES ASSUME missing # {} PROVE FALSE  OBVIOUS
<1>0. missing \in SUBSET Nat  OBVIOUS
<1>4. PICK x \in missing : \A y \in missing : ~ (<<y, x>> \in R)
  <2> HIDE DEF missing
  <2> QED  BY <1>0, <1>1, <1>3, WFMin
<1>5. x \in 1..n /\ x - 1 \in 0..(n-1) /\ (x - 1) + 1 = x  BY <1>4
<1>6. x - 1 \notin T  BY <1>4, <1>5
<1>7. x - 1 \in missing /\ x - 1 \in Nat /\ x \in Nat /\ x - 1 < x  BY <1>5, <1>6
<1> QED  BY <1>2, <1>4, <1>7

\* f adds up a: f[i] is what the first i numbers come to.
AddsUp(f, a) ==
    /\ f \in [0..Len(a) -> Int]
    /\ f[0] = 0
    /\ \A i \in 1..Len(a) : f[i] = f[i-1] + a[i]

\* Every sequence of integers has its partial sums.
LEMMA SumsExist ==
    ASSUME NEW a \in Seq(Int)
    PROVE  \E f : AddsUp(f, a)
<1> DEFINE n == Len(a)
           Upto(k, f) == f \in [0..k -> Int] /\ f[0] = 0 /\ \A i \in 1..k : f[i] = f[i-1] + a[i]
           T == {k \in 0..n : \E f : Upto(k, f)}
<1>1. n \in Nat /\ \A i \in 1..n : a[i] \in Int  BY LenProperties
<1>2. 0 \in T
  <2>1. Upto(0, [i \in 0..0 |-> 0])  OBVIOUS
  <2>2. 0 \in 0..n  BY <1>1
  <2> HIDE DEF Upto
  <2> QED  BY <2>1, <2>2
<1>3. ASSUME NEW k \in 0..(n-1), k \in T PROVE k + 1 \in T
  <2>1. PICK f : Upto(k, f)  BY <1>3
  <2> DEFINE g == [i \in 0..(k+1) |-> IF i <= k THEN f[i] ELSE f[k] + a[k+1]]
  <2>2. k \in Nat /\ k + 1 \in 1..n /\ a[k+1] \in Int /\ f[k] \in Int  BY <1>1, <2>1
  <2>3. g \in [0..(k+1) -> Int]  BY <2>1, <2>2
  <2>4. g[0] = 0 /\ g[k+1] = g[k] + a[k+1]  BY <2>1, <2>2
  <2>5. \A i \in 1..k : g[i] = g[i-1] + a[i]  BY <2>1, <2>2
  <2>6. \A i \in 1..(k+1) : g[i] = g[i-1] + a[i]
    <3>1. (k + 1) - 1 = k /\ \A i \in 1..(k+1) : i \in 1..k \/ i = k + 1  BY <2>2
    <3> HIDE DEF g
    <3> QED  BY <2>4, <2>5, <3>1
  <2>7. Upto(k + 1, g)  
    <3> HIDE DEF g
    <3> QED  BY <2>3, <2>4, <2>6
  <2> HIDE DEF Upto, g
  <2>8. k + 1 \in 0..n  BY <2>2
  <2> QED  BY <2>7, <2>8
<1> HIDE DEF T
<1>4. n \in T  
  <2>1. \A i \in 0..n : i \in T  BY <1>1, <1>2, <1>3, Induction
  <2> QED  BY <1>1, <2>1
<1>5. PICK f : Upto(n, f)  BY <1>4 DEF T
<1> QED  BY <1>5 DEF AddsUp

\* There is one way to add up.
LEMMA SumsAgree ==
    ASSUME NEW a \in Seq(Int), NEW f, NEW g, AddsUp(f, a), AddsUp(g, a)
    PROVE  f = g
<1> DEFINE T == {k \in 0..Len(a) : f[k] = g[k]}
<1>1. Len(a) \in Nat /\ \A i \in 1..Len(a) : a[i] \in Int  BY LenProperties
<1>2. 0 \in T  BY <1>1 DEF AddsUp
<1>3. ASSUME NEW k \in 0..(Len(a)-1), k \in T PROVE k + 1 \in T
  <2>1. k + 1 \in 1..Len(a) /\ (k + 1) - 1 = k /\ f[k] = g[k]  BY <1>1, <1>3
  <2>2. f[k+1] = f[k] + a[k+1] /\ g[k+1] = g[k] + a[k+1]  BY <2>1 DEF AddsUp
  <2> QED  BY <1>1, <2>1, <2>2
<1>4. \A k \in 0..Len(a) : k \in T  BY <1>1, <1>2, <1>3, Induction
<1> QED  BY <1>4 DEF AddsUp

\* Sum is what any way of adding up comes to.
LEMMA SumIs ==
    ASSUME NEW a \in Seq(Int), NEW f, AddsUp(f, a)
    PROVE  Sum(a) = f[Len(a)]
<1> DEFINE Rec(S) == S = [i \in 0..Len(a) |-> IF i = 0 THEN 0 ELSE S[i-1] + a[i]]
           C == CHOOSE S : Rec(S)
<1>1. Sum(a) = C[Len(a)]  BY DEF Sum
<1>2. Len(a) \in Nat /\ \A i \in 1..Len(a) : a[i] \in Int  BY LenProperties
<1>3. Rec(f)
  <2>1. f = [i \in 0..Len(a) |-> f[i]]  BY DEF AddsUp
  <2>2. \A i \in 0..Len(a) : f[i] = IF i = 0 THEN 0 ELSE f[i-1] + a[i]  BY <1>2 DEF AddsUp
  <2> QED  BY <2>1, <2>2
<1> HIDE DEF C, Rec
<1>4. Rec(C)  BY <1>3 DEF C
<1>5. DOMAIN C = 0..Len(a) /\ C = [i \in 0..Len(a) |-> C[i]]
      /\ \A i \in 0..Len(a) : C[i] = IF i = 0 THEN 0 ELSE C[i-1] + a[i]  BY <1>4 DEF Rec
<1> DEFINE T == {k \in 0..Len(a) : C[k] = f[k]}
<1>6. 0 \in T
  <2>1. 0 \in 0..Len(a)  BY <1>2
  <2>2. C[0] = 0 /\ f[0] = 0  BY <2>1, <1>5 DEF AddsUp
  <2> QED  BY <2>1, <2>2
<1>7. ASSUME NEW k \in 0..(Len(a)-1), k \in T PROVE k + 1 \in T
  <2>1. k + 1 \in 1..Len(a) /\ k + 1 # 0 /\ k + 1 \in 0..Len(a) /\ (k + 1) - 1 = k /\ C[k] = f[k]  BY <1>2, <1>7
  <2>2. f[k+1] = f[k] + a[k+1]  BY <2>1 DEF AddsUp
  <2>3. C[k+1] = C[k] + a[k+1]  BY <2>1, <1>5
  <2> QED  BY <2>1, <2>2, <2>3
<1>8. \A k \in 0..Len(a) : k \in T  BY <1>2, <1>6, <1>7, Induction
<1>9. Len(a) \in 0..Len(a)  BY <1>2
<1> QED  BY <1>1, <1>8, <1>9

LEMMA SumType ==
    ASSUME NEW a \in Seq(Int)
    PROVE  Sum(a) \in Int
<1>1. PICK f : AddsUp(f, a)  BY SumsExist
<1>2. f[Len(a)] \in Int  BY <1>1, LenProperties DEF AddsUp
<1> QED  BY <1>1, <1>2, SumIs

\* Sums of two halves.
LEMMA SumConcat ==
    ASSUME NEW a \in Seq(Int), NEW b \in Seq(Int)
    PROVE  Sum(a \o b) = Sum(a) + Sum(b)
<1>1. PICK f : AddsUp(f, a)  BY SumsExist
<1>2. PICK g : AddsUp(g, b)  BY SumsExist
<1> DEFINE m == Len(a)
           n == Len(b)
           h == [i \in 0..(m+n) |-> IF i <= m THEN f[i] ELSE f[m] + g[i-m]]
<1>3. m \in Nat /\ n \in Nat /\ (\A i \in 1..m : a[i] \in Int) /\ (\A i \in 1..n : b[i] \in Int)
  BY LenProperties
<1>4. a \o b \in Seq(Int) /\ Len(a \o b) = m + n
      /\ \A i \in 1..(m+n) : (a \o b)[i] = IF i <= m THEN a[i] ELSE b[i-m]
  BY ConcatProperties
<1>5. (\A i \in 0..m : f[i] \in Int) /\ (\A i \in 0..n : g[i] \in Int)  BY <1>1, <1>2 DEF AddsUp
<1>6. h \in [0..(m+n) -> Int] /\ h[0] = 0
  <2>1. h[0] = 0  BY <1>1, <1>3 DEF AddsUp
  <2>2. ASSUME NEW i \in 0..(m+n) PROVE h[i] \in Int
    <3>1. CASE i <= m  BY <3>1, <1>3, <1>5
    <3>2. CASE ~(i <= m)
      <4>1. i - m \in 0..n /\ m \in 0..m  BY <3>2, <1>3
      <4>2. f[m] \in Int /\ g[i-m] \in Int  BY <4>1, <1>5
      <4>3. h[i] = f[m] + g[i-m]  BY <3>2
      <4> HIDE DEF h
      <4> QED  BY <4>2, <4>3
    <3> QED  BY <3>1, <3>2
  <2> QED  BY <2>1, <2>2
<1>7. ASSUME NEW i \in 1..(m+n) PROVE h[i] = h[i-1] + (a \o b)[i]
  <2>1. CASE i <= m
    <3>1. i \in 1..m /\ i - 1 <= m /\ i - 1 \in 0..(m+n) /\ i \in 0..(m+n)  BY <2>1, <1>3
    <3>2. f[i] = f[i-1] + a[i]  BY <1>1, <3>1 DEF AddsUp
    <3> QED  BY <3>1, <3>2, <1>4, <2>1
  <2>2. CASE i = m + 1
    <3>1. 1 \in 1..n /\ i - 1 = m /\ i - m = 1 /\ ~(i <= m) /\ i \in 0..(m+n) /\ m \in 0..(m+n) /\ m <= m  BY <2>2, <1>3
    <3>2. g[1] = g[1-1] + b[1] /\ g[0] = 0 /\ 1 - 1 = 0  BY <1>2, <3>1 DEF AddsUp
    <3>3. h[i] = f[m] + g[1] /\ h[m] = f[m]  BY <3>1
    <3>4. g[1] = b[1] /\ b[1] \in Int /\ f[m] \in Int  BY <1>3, <1>5, <3>1, <3>2
    <3> QED  BY <3>1, <3>3, <3>4, <1>4
  <2>3. CASE i > m + 1
    <3>1. i - m \in 1..n /\ (i - m) - 1 = (i - 1) - m /\ ~(i <= m) /\ ~(i - 1 <= m)
          /\ i \in 0..(m+n) /\ i - 1 \in 0..(m+n)  BY <2>3, <1>3
    <3>2. g[i-m] = g[(i-m)-1] + b[i-m]  BY <1>2, <3>1 DEF AddsUp
    <3>3. h[i] = f[m] + g[i-m] /\ h[i-1] = f[m] + g[(i-1)-m]  BY <3>1
    <3>4. g[i-m] \in Int /\ g[(i-m)-1] \in Int /\ b[i-m] \in Int /\ f[m] \in Int  
      <4>1. i - m \in 0..n /\ (i-m)-1 \in 0..n /\ m \in 0..m  BY <3>1, <1>3
      <4>2. g[i-m] \in Int /\ g[(i-m)-1] \in Int /\ f[m] \in Int  BY <4>1, <1>5
      <4>3. b[i-m] \in Int  BY <1>3, <3>1
      <4> QED  BY <4>2, <4>3
    <3>5. (a \o b)[i] = b[i-m]  BY <1>4, <3>1
    <3> DEFINE p == i - m
    <3>6. (i - 1) - m = p - 1 /\ (i - m) - 1 = p - 1  BY <3>1
    <3>7. h[i] = f[m] + g[p] /\ h[i-1] = f[m] + g[p-1] /\ g[p] = g[p-1] + b[p] /\ (a \o b)[i] = b[p]
          /\ g[p] \in Int /\ g[p-1] \in Int /\ b[p] \in Int /\ f[m] \in Int
      BY <3>2, <3>3, <3>4, <3>5, <3>6
    <3> HIDE DEF h, p
    <3> QED  BY <3>7
  <2> QED  BY <2>1, <2>2, <2>3, <1>3
<1>8. AddsUp(h, a \o b)  
  <2> HIDE DEF h
  <2> QED  BY <1>4, <1>6, <1>7 DEF AddsUp
<1>9. h[m+n] = f[m] + g[n]
  <2>1. CASE n = 0  BY <2>1, <1>2, <1>3, <1>5 DEF AddsUp
  <2>2. CASE n # 0
     <3>1. ~(m + n <= m) /\ (m + n) - m = n /\ m + n \in 0..(m+n)  BY <2>2, <1>3
     <3> QED  BY <3>1
  <2> QED  BY <2>1, <2>2
<1>10. Sum(a \o b) = h[m+n]
  <2> HIDE DEF h
  <2> QED  BY <1>4, <1>8, SumIs
<1>11. Sum(a) = f[m] /\ Sum(b) = g[n]  BY <1>1, <1>2, SumIs
<1> QED  BY <1>9, <1>10, <1>11

LEMMA SumOfZeros ==
    ASSUME NEW a \in Seq(Int), \A i \in 1..Len(a) : a[i] = 0
    PROVE  Sum(a) = 0
<1> DEFINE f == [i \in 0..Len(a) |-> 0]
<1>1. Len(a) \in Nat  BY LenProperties
<1>2. AddsUp(f, a)
  <2>1. \A i \in 1..Len(a) : i \in 0..Len(a) /\ i - 1 \in 0..Len(a)  BY <1>1
  <2> QED  BY <1>1, <2>1 DEF AddsUp
<1>3. f[Len(a)] = 0  BY <1>1
<1> HIDE DEF f
<1> QED  BY <1>2, <1>3, SumIs

\* What is taken back adds up to as much less.
LEMMA SumNegated ==
    ASSUME NEW a \in Seq(Int), NEW b \in Seq(Int), Len(b) = Len(a), \A i \in 1..Len(a) : b[i] = -a[i]
    PROVE  Sum(b) = -Sum(a)
<1>1. PICK f : AddsUp(f, a)  BY SumsExist
<1> DEFINE g == [i \in 0..Len(a) |-> -f[i]]
<1>2. Len(a) \in Nat /\ \A i \in 1..Len(a) : a[i] \in Int  BY LenProperties
<1>3. AddsUp(g, b)
  <2>1. g \in [0..Len(b) -> Int] /\ g[0] = 0  BY <1>1, <1>2 DEF AddsUp
  <2>2. ASSUME NEW i \in 1..Len(b) PROVE g[i] = g[i-1] + b[i]
    <3>1. i \in 1..Len(a) /\ i \in 0..Len(a) /\ i - 1 \in 0..Len(a)  BY <1>2
    <3>2. f[i] = f[i-1] + a[i] /\ f[i] \in Int /\ f[i-1] \in Int /\ a[i] \in Int  BY <1>1, <1>2, <3>1 DEF AddsUp
    <3>3. g[i] = -f[i] /\ g[i-1] = -f[i-1] /\ b[i] = -a[i]  BY <3>1
    <3> HIDE DEF g
    <3> QED  BY <3>2, <3>3
  <2> HIDE DEF g
  <2> QED  BY <2>1, <2>2 DEF AddsUp
<1>4. g[Len(a)] = -f[Len(a)]  BY <1>2
<1> HIDE DEF g
<1>5. Sum(b) = g[Len(a)] /\ Sum(a) = f[Len(a)]  BY <1>1, <1>3, SumIs
<1> QED  BY <1>4, <1>5

\* One number changes.
LEMMA SumChanged ==
    ASSUME NEW a \in Seq(Int), NEW j \in 1..Len(a), NEW b \in Seq(Int), Len(b) = Len(a),
           \A i \in 1..Len(a) : i # j => b[i] = a[i]
    PROVE  Sum(b) = Sum(a) - a[j] + b[j]
<1> DEFINE x == b[j]
<1>0. x \in Int  BY LenProperties
<1> HIDE DEF x
<1>1. PICK f : AddsUp(f, a)  BY SumsExist
<1> DEFINE g == [i \in 0..Len(a) |-> IF i < j THEN f[i] ELSE f[i] - a[j] + x]
<1>2. Len(a) \in Nat /\ \A i \in 1..Len(a) : a[i] \in Int  BY LenProperties
<1>3. AddsUp(g, b)
  <2>1. g \in [0..Len(b) -> Int] /\ g[0] = 0  BY <1>0, <1>1, <1>2 DEF AddsUp
  <2>2. ASSUME NEW i \in 1..Len(b) PROVE g[i] = g[i-1] + b[i]
    <3>1. i \in 1..Len(a) /\ i \in 0..Len(a) /\ i - 1 \in 0..Len(a)  BY <1>2
    <3>2. f[i] = f[i-1] + a[i] /\ f[i] \in Int /\ f[i-1] \in Int /\ a[i] \in Int /\ a[j] \in Int
      BY <1>1, <1>2, <3>1 DEF AddsUp
    <3>3. CASE i < j  
      <4>1. g[i] = f[i] /\ g[i-1] = f[i-1] /\ b[i] = a[i]  BY <3>1, <3>3
      <4> HIDE DEF g
      <4> QED  BY <1>0, <4>1, <3>2
    <3>4. CASE i = j
      <4>1. ~(i < j) /\ i - 1 < j  BY <3>1, <3>4
      <4>2. g[i] = f[i] - a[j] + x /\ g[i-1] = f[i-1]  BY <3>1, <4>1
      <4>3. b[i] = x /\ a[i] = a[j]  BY <3>4 DEF x
      <4> HIDE DEF g
      <4> QED  BY ONLY <1>0, <3>2, <4>2, <4>3
    <3>5. CASE i > j
      <4>1. g[i] = f[i] - a[j] + x /\ g[i-1] = f[i-1] - a[j] + x /\ b[i] = a[i]  BY <3>1, <3>5
      <4> HIDE DEF g
      <4>2. \A p, q, r, y \in Int : (p - r + y) + q = (p + q) - r + y  OBVIOUS
      <4>3. PICK p \in Int, q \in Int, r \in Int : p = f[i-1] /\ q = a[i] /\ r = a[j]  BY <3>2
      <4>4. g[i] = (p + q) - r + x /\ g[i-1] = p - r + x /\ b[i] = q  BY <4>1, <4>3, <3>2
      <4> QED  BY <1>0, <4>2, <4>4
    <3> QED  BY <3>3, <3>4, <3>5, <3>1
  <2> HIDE DEF g
  <2> QED  BY <2>1, <2>2 DEF AddsUp
<1>4. g[Len(a)] = f[Len(a)] - a[j] + x  BY <1>2
<1> HIDE DEF g
<1>5. Sum(b) = g[Len(a)] /\ Sum(a) = f[Len(a)]  BY <1>1, <1>3, SumIs
<1> QED  BY <1>4, <1>5 DEF x

\* One more number.
LEMMA SumAppended ==
    ASSUME NEW a \in Seq(Int), NEW b \in Seq(Int), Len(b) = Len(a) + 1,
           \A i \in 1..Len(a) : b[i] = a[i]
    PROVE  Sum(b) = Sum(a) + b[Len(b)]
<1>1. PICK f : AddsUp(f, a)  BY SumsExist
<1> DEFINE n == Len(a)
           g == [i \in 0..(n+1) |-> IF i <= n THEN f[i] ELSE f[n] + b[n+1]]
<1>2. n \in Nat /\ (\A i \in 1..n : a[i] \in Int) /\ b[n+1] \in Int  BY LenProperties
<1>3. (\A i \in 0..n : f[i] \in Int) /\ f[n] \in Int /\ f[0] = 0
  <2>1. (\A i \in 0..n : f[i] \in Int) /\ f[0] = 0  BY <1>1 DEF AddsUp
  <2>2. n \in 0..n  BY <1>2
  <2> QED  BY <2>1, <2>2
<1>4. g \in [0..(n+1) -> Int] /\ g[0] = 0 /\ g[n+1] = g[n] + b[n+1] /\ g[n] = f[n]  BY <1>2, <1>3
<1>5. ASSUME NEW i \in 1..(n+1) PROVE g[i] = g[i-1] + b[i]
  <2>1. CASE i = n + 1  BY <2>1, <1>2, <1>4
  <2>2. CASE i # n + 1
    <3>1. i \in 1..n /\ i \in 0..(n+1) /\ i - 1 \in 0..(n+1) /\ i <= n /\ i - 1 <= n  BY <2>2, <1>2
    <3>2. f[i] = f[i-1] + a[i]  BY <1>1, <3>1 DEF AddsUp
    <3> QED  BY <3>1, <3>2
  <2> QED  BY <2>1, <2>2
<1> HIDE DEF g
<1>6. AddsUp(g, b)  BY <1>4, <1>5 DEF AddsUp
<1>7. Sum(b) = g[n+1] /\ Sum(a) = f[n]  BY <1>1, <1>6, SumIs
<1> QED  BY <1>4, <1>7

----------------------------------------------------------------------------
(* Totals of a table's rows                                                *)

\* What the rows that name id give it or take from it.
Part(rows, column, id) == [i \in DOMAIN rows |-> IF rows[i][column] = id THEN Signed(rows[i]) ELSE 0]
LivePart(rows, column, id) ==
    [i \in DOMAIN rows |-> IF rows[i][column] = id /\ LiveRow(rows, i) THEN rows[i].amount ELSE 0]

Signable(R) == \A row \in R : row.amount \in Int /\ row.reverses \in Nat

LEMMA PartType ==
    ASSUME NEW R, Signable(R), NEW rows \in Seq(R), NEW column, NEW id
    PROVE  /\ Part(rows, column, id) \in Seq(Int) /\ Len(Part(rows, column, id)) = Len(rows)
           /\ \A i \in 1..Len(rows) :
                 Part(rows, column, id)[i] = IF rows[i][column] = id THEN Signed(rows[i]) ELSE 0
<1>1. DOMAIN rows = 1..Len(rows) /\ Len(rows) \in Nat /\ \A i \in 1..Len(rows) : rows[i] \in R
  BY LenProperties
<1>2. \A i \in 1..Len(rows) : Signed(rows[i]) \in Int  BY <1>1 DEF Signable, Signed
<1>3. Part(rows, column, id) \in [1..Len(rows) -> Int]  BY <1>1, <1>2 DEF Part
<1> QED  BY <1>1, <1>3, SeqDef, LenProperties DEF Part

LEMMA LivePartType ==
    ASSUME NEW R, Signable(R), NEW rows \in Seq(R), NEW column, NEW id
    PROVE  /\ LivePart(rows, column, id) \in Seq(Int) /\ Len(LivePart(rows, column, id)) = Len(rows)
           /\ \A i \in 1..Len(rows) :
                 LivePart(rows, column, id)[i] =
                    IF rows[i][column] = id /\ LiveRow(rows, i) THEN rows[i].amount ELSE 0
<1>1. DOMAIN rows = 1..Len(rows) /\ Len(rows) \in Nat /\ \A i \in 1..Len(rows) : rows[i] \in R
  BY LenProperties
<1>2. \A i \in 1..Len(rows) : rows[i].amount \in Int  BY <1>1 DEF Signable
<1>3. LivePart(rows, column, id) \in [1..Len(rows) -> Int]  BY <1>1, <1>2 DEF LivePart
<1> QED  BY <1>1, <1>3, SeqDef, LenProperties DEF LivePart

LEMMA TotalType ==
    ASSUME NEW R, Signable(R), NEW rows \in Seq(R), NEW column, NEW id
    PROVE  /\ Total(rows, column, id) = Sum(Part(rows, column, id))
           /\ Total(rows, column, id) \in Int
<1>1. Total(rows, column, id) = Sum(Part(rows, column, id))  BY DEF Total, Part
<1> QED  BY <1>1, PartType, SumType

\* What a command appends adds to what the rows held.
LEMMA TotalConcat ==
    ASSUME NEW R, Signable(R), NEW rows \in Seq(R), NEW more \in Seq(R), NEW column, NEW id
    PROVE  Total(rows \o more, column, id) = Total(rows, column, id) + Total(more, column, id)
<1> DEFINE a == Part(rows, column, id)
           b == Part(more, column, id)
           all == rows \o more
           c == Part(all, column, id)
<1>1. rows \o more \in Seq(R) /\ Len(rows \o more) = Len(rows) + Len(more)
      /\ Len(rows) \in Nat /\ Len(more) \in Nat
      /\ \A i \in 1..(Len(rows) + Len(more)) :
            (rows \o more)[i] = IF i <= Len(rows) THEN rows[i] ELSE more[i - Len(rows)]
  BY ConcatProperties, LenProperties
<1>2. a \in Seq(Int) /\ b \in Seq(Int) /\ c \in Seq(Int) /\ Len(a) = Len(rows) /\ Len(b) = Len(more)
      /\ Len(c) = Len(rows) + Len(more)
  <2>1. a \in Seq(Int) /\ Len(a) = Len(rows)  BY PartType
  <2>2. b \in Seq(Int) /\ Len(b) = Len(more)  BY PartType
  <2>3. all \in Seq(R)  BY <1>1
  <2>4. c \in Seq(Int) /\ Len(c) = Len(all)
    <3> HIDE DEF all
    <3> QED  BY <2>3, PartType
  <2> QED  BY <1>1, <2>1, <2>2, <2>4
<1>3. a \o b \in Seq(Int) /\ Len(a \o b) = Len(rows) + Len(more)
      /\ \A i \in 1..(Len(rows) + Len(more)) : (a \o b)[i] = IF i <= Len(rows) THEN a[i] ELSE b[i - Len(rows)]
  <2> HIDE DEF a, b
  <2>1. a \o b \in Seq(Int) /\ Len(a \o b) = Len(a) + Len(b)
        /\ \A i \in 1..(Len(a) + Len(b)) : (a \o b)[i] = IF i <= Len(a) THEN a[i] ELSE b[i - Len(a)]
    <3>1. a \in Seq(Int) /\ b \in Seq(Int)  BY <1>2
    <3> QED  BY ONLY <3>1, ConcatProperties
  <2> QED  BY <1>2, <2>1
<1>4. ASSUME NEW i \in 1..(Len(rows) + Len(more)) PROVE c[i] = (a \o b)[i]
  <2>1. c[i] = IF (rows \o more)[i][column] = id THEN Signed((rows \o more)[i]) ELSE 0
    <3>1. all \in Seq(R) /\ i \in 1..Len(all)  BY <1>1
    <3>2. c[i] = IF all[i][column] = id THEN Signed(all[i]) ELSE 0
      <4> HIDE DEF all
      <4> QED  BY <3>1, PartType
    <3> QED  BY <3>2
  <2>2. CASE i <= Len(rows)
    <3>1. i \in 1..Len(rows)  BY <2>2, <1>1
    <3>2. a[i] = IF rows[i][column] = id THEN Signed(rows[i]) ELSE 0  BY <3>1, PartType
    <3> QED  BY <2>1, <2>2, <3>2, <1>1, <1>3
  <2>3. CASE ~(i <= Len(rows))
    <3>1. i - Len(rows) \in 1..Len(more)  BY <2>3, <1>1
    <3>2. b[i - Len(rows)] = IF more[i - Len(rows)][column] = id THEN Signed(more[i - Len(rows)]) ELSE 0
      BY <3>1, PartType
    <3> QED  BY <2>1, <2>3, <3>2, <1>1, <1>3
  <2> QED  BY <2>2, <2>3
<1> HIDE DEF a, b, c
<1>5. c = a \o b  BY <1>2, <1>3, <1>4, SeqEqual
<1>6. Sum(c) = Sum(a) + Sum(b)  BY <1>2, <1>5, SumConcat
<1>7. Total(rows, column, id) = Sum(a) /\ Total(more, column, id) = Sum(b)
      /\ Total(rows \o more, column, id) = Sum(c)
  BY DEF Total, Part, a, b, c
<1> QED  BY <1>6, <1>7

\* Rows that name another leave this one alone.
LEMMA TotalOfOthers ==
    ASSUME NEW R, Signable(R), NEW rows \in Seq(R), NEW column, NEW id,
           \A i \in 1..Len(rows) : rows[i][column] # id
    PROVE  Total(rows, column, id) = 0
<1>1. Part(rows, column, id) \in Seq(Int) /\ Len(Part(rows, column, id)) = Len(rows)
      /\ \A i \in 1..Len(rows) : Part(rows, column, id)[i] = 0
  BY PartType
<1>2. Sum(Part(rows, column, id)) = 0  BY <1>1, SumOfZeros
<1> QED  BY <1>2, TotalType

\* A reversal names an earlier row with the same id and the same amount.
Paired(rows, column) ==
    \A i \in DOMAIN rows : rows[i].reverses # 0 =>
        /\ rows[i].reverses \in 1..(i-1)
        /\ rows[rows[i].reverses][column] = rows[i][column]
        /\ rows[rows[i].reverses].amount = rows[i].amount

\* A reversal and the row it takes back cancel: what is left is what the live
\* rows add up to.
LEMMA TotalIsLive ==
    ASSUME NEW R, Signable(R), NEW rows \in Seq(R), NEW column, NEW id,
           Paired(rows, column), ReversedOnce(rows)
    PROVE  Total(rows, column, id) = Sum(LivePart(rows, column, id))
<1> DEFINE n == Len(rows)
           P(k) == [i \in 1..k |-> rows[i]]
           A(k) == Part(P(k), column, id)
           B(k) == LivePart(P(k), column, id)
           T == {k \in 0..n : Sum(A(k)) = Sum(B(k))}
<1>1. n \in Nat /\ DOMAIN rows = 1..n /\ \A i \in 1..n : rows[i] \in R  BY LenProperties
<1>2. \A i \in 1..n : rows[i].amount \in Int /\ rows[i].reverses \in Nat  BY <1>1 DEF Signable
<1>3. ASSUME NEW k \in 0..n
      PROVE  P(k) \in Seq(R) /\ Len(P(k)) = k /\ DOMAIN P(k) = 1..k /\ \A i \in 1..k : P(k)[i] = rows[i]
  <2>1. k \in Nat /\ \A i \in 1..k : i \in 1..n  BY <1>1
  <2>2. P(k) \in [1..k -> R]  BY <1>1, <2>1
  <2> QED  BY <2>1, <2>2, SeqDef, LenProperties
<1> HIDE DEF P
<1>4. ASSUME NEW k \in 0..n
      PROVE  /\ A(k) \in Seq(Int) /\ Len(A(k)) = k /\ B(k) \in Seq(Int) /\ Len(B(k)) = k
             /\ \A i \in 1..k : A(k)[i] = IF rows[i][column] = id THEN Signed(rows[i]) ELSE 0
             /\ \A i \in 1..k : B(k)[i] = IF rows[i][column] = id /\ LiveRow(P(k), i) THEN rows[i].amount ELSE 0
  <2>1. P(k) \in Seq(R) /\ Len(P(k)) = k /\ \A i \in 1..k : P(k)[i] = rows[i]  BY <1>3
  <2> DEFINE p == P(k)
  <2> HIDE DEF p
  <2>2. p \in Seq(R)  BY <2>1 DEF p
  <2>3. /\ Part(p, column, id) \in Seq(Int) /\ Len(Part(p, column, id)) = Len(p)
        /\ \A i \in 1..Len(p) : Part(p, column, id)[i] = IF p[i][column] = id THEN Signed(p[i]) ELSE 0
    BY <2>2, PartType
  <2>4. /\ LivePart(p, column, id) \in Seq(Int) /\ Len(LivePart(p, column, id)) = Len(p)
        /\ \A i \in 1..Len(p) :
              LivePart(p, column, id)[i] = IF p[i][column] = id /\ LiveRow(p, i) THEN p[i].amount ELSE 0
    BY <2>2, LivePartType
  <2>5. A(k) = Part(p, column, id) /\ B(k) = LivePart(p, column, id)  BY DEF p
  <2> HIDE DEF A, B
  <2>6. Len(p) = k /\ p = P(k) /\ \A i \in 1..k : p[i] = rows[i]  BY <2>1 DEF p
  <2> QED  BY <2>3, <2>4, <2>5, <2>6
<1>5. ASSUME NEW k \in 0..n, NEW i \in 1..k
      PROVE  LiveRow(P(k), i) <=> rows[i].reverses = 0 /\ \A j \in 1..k : rows[j].reverses # i
  BY <1>3 DEF LiveRow
<1> HIDE DEF A, B
<1>6. 0 \in T
  <2>1. 0 \in 0..n  BY <1>1
  <2>2. Len(A(0)) = 0 /\ Len(B(0)) = 0 /\ A(0) \in Seq(Int) /\ B(0) \in Seq(Int)  BY <2>1, <1>4
  <2>3. (\A i \in 1..Len(A(0)) : A(0)[i] = 0) /\ (\A i \in 1..Len(B(0)) : B(0)[i] = 0)  BY <2>2
  <2>4. Sum(A(0)) = 0 /\ Sum(B(0)) = 0  BY <2>2, <2>3, SumOfZeros
  <2> QED  BY <2>1, <2>4
<1>7. ASSUME NEW k \in 0..(n-1), k \in T PROVE k + 1 \in T
  <2>1. k \in 0..n /\ k + 1 \in 0..n /\ k + 1 \in 1..n /\ k + 1 \in 1..(k+1) /\ k \in Nat
        /\ \A i \in 1..k : i \in 1..(k+1) /\ i \in 1..n  BY <1>1
  <2> DEFINE v == rows[k+1]
             a == A(k)
             b == B(k)
             a1 == A(k+1)
             b1 == B(k+1)
  <2>2. /\ a \in Seq(Int) /\ Len(a) = k /\ b \in Seq(Int) /\ Len(b) = k
        /\ \A i \in 1..k : a[i] = IF rows[i][column] = id THEN Signed(rows[i]) ELSE 0
        /\ \A i \in 1..k : b[i] = IF rows[i][column] = id /\ LiveRow(P(k), i) THEN rows[i].amount ELSE 0
    BY <1>4, <2>1
  <2>3. /\ a1 \in Seq(Int) /\ Len(a1) = k + 1 /\ b1 \in Seq(Int) /\ Len(b1) = k + 1
        /\ \A i \in 1..(k+1) : a1[i] = IF rows[i][column] = id THEN Signed(rows[i]) ELSE 0
        /\ \A i \in 1..(k+1) :
              b1[i] = IF rows[i][column] = id /\ LiveRow(P(k+1), i) THEN rows[i].amount ELSE 0
    BY <1>4, <2>1
  <2>4. v.amount \in Int /\ v.reverses \in Nat  BY <1>2, <2>1
  <2> HIDE DEF a, b, a1, b1
  <2>5. Sum(a1) = Sum(a) + (IF v[column] = id THEN Signed(v) ELSE 0)
    <3>1. \A i \in 1..k : a1[i] = a[i]  BY <2>1, <2>2, <2>3
    <3>2. Sum(a1) = Sum(a) + a1[k+1]
      <4>1. Len(a1) = Len(a) + 1 /\ \A i \in 1..Len(a) : a1[i] = a[i]  BY <2>2, <2>3, <3>1
      <4>2. Sum(a1) = Sum(a) + a1[Len(a1)]  BY <2>2, <2>3, <4>1, SumAppended
      <4> QED  BY <2>3, <4>2
    <3> QED  BY <2>1, <2>3, <3>2
  <2>6. Sum(a) = Sum(b)  BY <1>7 DEF a, b
  <2>7. \A j \in 1..n : rows[j].reverses # 0 => rows[j].reverses \in 1..(j-1)  BY <1>1 DEF Paired
  <2>8. Sum(b1) = Sum(b) + (IF v[column] = id THEN Signed(v) ELSE 0)
    <3>1. CASE v.reverses = 0
      <4>1. ASSUME NEW i \in 1..k PROVE LiveRow(P(k+1), i) <=> LiveRow(P(k), i)
        <5>1. i # 0 /\ \A j \in 1..(k+1) : j \in 1..k \/ j = k + 1  BY <2>1
        <5>2. (\A j \in 1..(k+1) : rows[j].reverses # i) <=> (\A j \in 1..k : rows[j].reverses # i)
          BY <2>1, <3>1, <5>1
        <5>3. i \in 1..(k+1)  BY <2>1
        <5> QED  BY <1>5, <2>1, <5>2, <5>3
      <4>2. \A i \in 1..k : b1[i] = b[i]  BY <2>1, <2>2, <2>3, <4>1
      <4>3. Sum(b1) = Sum(b) + b1[k+1]
        <5>1. Len(b1) = Len(b) + 1 /\ \A i \in 1..Len(b) : b1[i] = b[i]  BY <2>2, <2>3, <4>2
        <5>2. Sum(b1) = Sum(b) + b1[Len(b1)]  BY <2>2, <2>3, <5>1, SumAppended
        <5> QED  BY <2>3, <5>2
      <4>4. \A j \in 1..(k+1) : rows[j].reverses # k + 1
        <5>1. ASSUME NEW j \in 1..(k+1), rows[j].reverses = k + 1 PROVE FALSE
          <6>1. j \in 1..n /\ k + 1 # 0  BY <2>1
          <6>2. k + 1 \in 1..(j-1)  BY <2>7, <5>1, <6>1
          <6> QED  BY <2>1, <6>2
        <5> QED  BY <5>1
      <4>5. LiveRow(P(k+1), k + 1)  BY <1>5, <2>1, <3>1, <4>4
      <4>6. b1[k+1] = IF v[column] = id THEN v.amount ELSE 0  BY <2>1, <2>3, <4>5
      <4>7. Signed(v) = v.amount  BY <3>1 DEF Signed
      <4> QED  BY <4>3, <4>6, <4>7
    <3>2. CASE v.reverses # 0
      <4> DEFINE j == v.reverses
      <4>1. j \in 1..k /\ rows[j][column] = v[column] /\ rows[j].amount = v.amount
            /\ j \in 1..n /\ j \in 1..(k+1)
        BY <1>1, <2>1, <3>2 DEF Paired
      <4>2. rows[j].reverses = 0 /\ \A i \in 1..n : i # k + 1 => rows[i].reverses # j
        BY <1>1, <2>1, <3>2 DEF ReversedOnce
      <4> HIDE DEF j
      <4>3. LiveRow(P(k), j)
        <5>1. \A i \in 1..k : i \in 1..n /\ i # k + 1  BY <2>1
        <5>2. \A i \in 1..k : rows[i].reverses # j  BY <4>2, <5>1
        <5> QED  BY <1>5, <2>1, <4>1, <4>2, <5>2
      <4>4. ~LiveRow(P(k+1), j)
        <5>1. rows[k+1].reverses = j  BY DEF j
        <5> QED  BY <1>5, <2>1, <4>1, <5>1
      <4>5. ~LiveRow(P(k+1), k + 1)  BY <1>5, <2>1, <3>2
      <4>6. ASSUME NEW i \in 1..k, i # j PROVE LiveRow(P(k+1), i) <=> LiveRow(P(k), i)
        <5>1. rows[k+1].reverses # i /\ \A l \in 1..(k+1) : l \in 1..k \/ l = k + 1  BY <2>1, <4>6 DEF j
        <5>2. (\A l \in 1..(k+1) : rows[l].reverses # i) <=> (\A l \in 1..k : rows[l].reverses # i)
          BY <2>1, <5>1
        <5>3. i \in 1..(k+1)  BY <2>1
        <5> QED  BY <1>5, <2>1, <5>2, <5>3
      <4> DEFINE c == [i \in 1..k |-> b1[i]]
      <4>7. c \in Seq(Int) /\ Len(c) = k /\ \A i \in 1..k : c[i] = b1[i]
        <5>1. c \in [1..k -> Int]  BY <2>1, <2>3, LenProperties
        <5> QED  BY <2>1, <5>1, SeqDef, LenProperties
      <4> HIDE DEF c
      <4>8. c[j] = 0  BY <2>3, <4>1, <4>4, <4>7
      <4>9. \A i \in 1..k : i # j => c[i] = b[i]  BY <2>1, <2>2, <2>3, <4>6, <4>7
      <4>10. Sum(c) = Sum(b) - b[j] + c[j]
        <5>1. j \in 1..Len(b) /\ Len(c) = Len(b) /\ \A i \in 1..Len(b) : i # j => c[i] = b[i]
          BY <2>2, <4>1, <4>7, <4>9
        <5> QED  BY <2>2, <4>7, <5>1, SumChanged
      <4>11. b1[k+1] = 0  BY <2>1, <2>3, <4>5
      <4>12. Sum(b1) = Sum(c) + b1[k+1]
        <5>1. \A i \in 1..Len(c) : b1[i] = c[i]  BY <4>7
        <5> QED  BY <2>3, <4>7, <5>1, SumAppended
      <4>13. b[j] = IF v[column] = id THEN v.amount ELSE 0  BY <2>2, <4>1, <4>3
      <4>14. Signed(v) = -v.amount  BY <3>2 DEF Signed
      <4>15. Sum(b) \in Int  BY <2>2, SumType
      <4>16. CASE v[column] = id
        <5>1. b[j] = v.amount  BY <4>13, <4>16
        <5> QED  BY <2>4, <4>8, <4>10, <4>11, <4>12, <4>14, <4>15, <4>16, <5>1
      <4>17. CASE v[column] # id
        <5>1. b[j] = 0  BY <4>13, <4>17
        <5> QED  BY <4>8, <4>10, <4>11, <4>12, <4>15, <4>17, <5>1
      <4> QED  BY <4>16, <4>17
    <3> QED  BY <3>1, <3>2
  <2>9. Sum(A(k+1)) = Sum(B(k+1))  BY <2>5, <2>6, <2>8 DEF a1, b1
  <2> QED  BY <2>1, <2>9
<1>8. n \in T
  <2> HIDE DEF T
  <2>1. \A k \in 0..n : k \in T  BY <1>1, <1>6, <1>7, Induction
  <2> QED  BY <1>1, <2>1
<1>9. P(n) = rows
  <2>1. rows = [i \in 1..n |-> rows[i]]  BY <1>1
  <2> QED  BY <2>1 DEF P
<1>10. Sum(A(n)) = Sum(B(n))  BY <1>8
<1>11. Sum(Part(rows, column, id)) = Sum(LivePart(rows, column, id))  BY <1>9, <1>10 DEF A, B
<1> QED  BY <1>11, TotalType

----------------------------------------------------------------------------
(* The rows of a table: what a command appends to it                       *)

\* The rows that reverse those of some ids.
Reversals(rows, ids) == [k \in DOMAIN ids |-> Reversal(rows, ids[k])]

\* The ids are of different rows, and those are live.
Takable(rows, ids) ==
    /\ ids \in Seq(DOMAIN rows)
    /\ Distinct(ids)
    /\ \A k \in DOMAIN ids : LiveRow(rows, ids[k])

LEMMA SeqsAreSeqs ==
    ASSUME NEW S, NEW n \in Nat, NEW s \in SeqsUpTo(S, n)
    PROVE  s \in Seq(S) /\ Len(s) \in Nat /\ DOMAIN s = 1..Len(s) /\ \A i \in 1..Len(s) : s[i] \in S
<1>1. PICK k \in 0..n : s \in [1..k -> S]  BY DEF SeqsUpTo
<1>2. k \in Nat  OBVIOUS
<1> QED  BY <1>1, <1>2, SeqDef, LenProperties

LEMMA Joined ==
    ASSUME NEW R, NEW rows \in Seq(R), NEW more \in Seq(R)
    PROVE  /\ rows \o more \in Seq(R)
           /\ Len(rows) \in Nat /\ Len(more) \in Nat /\ Len(rows \o more) = Len(rows) + Len(more)
           /\ DOMAIN rows = 1..Len(rows) /\ DOMAIN more = 1..Len(more)
           /\ DOMAIN (rows \o more) = 1..(Len(rows) + Len(more))
           /\ \A i \in 1..Len(rows) : i \in DOMAIN (rows \o more) /\ (rows \o more)[i] = rows[i]
           /\ \A i \in DOMAIN (rows \o more) : i \notin 1..Len(rows) =>
                 /\ i > Len(rows) /\ i - Len(rows) \in 1..Len(more)
                 /\ (rows \o more)[i] = more[i - Len(rows)]
<1>1. rows \o more \in Seq(R) /\ Len(rows \o more) = Len(rows) + Len(more)
      /\ \A i \in 1..(Len(rows) + Len(more)) :
            (rows \o more)[i] = IF i <= Len(rows) THEN rows[i] ELSE more[i - Len(rows)]
  BY ConcatProperties
<1>2. Len(rows) \in Nat /\ Len(more) \in Nat /\ DOMAIN rows = 1..Len(rows) /\ DOMAIN more = 1..Len(more)
  BY LenProperties
<1>3. DOMAIN (rows \o more) = 1..(Len(rows) + Len(more))  BY <1>1, LenProperties
<1> QED  BY <1>1, <1>2, <1>3

\* Rows that reverse nothing.
LEMMA LinkedApplied ==
    ASSUME NEW R, NEW rows \in Seq(R), NEW more \in Seq(R), NEW key, NEW there, NEW other, NEW present,
           Linked(rows, key, there, other, present), ReversedOnce(rows),
           \A k \in 1..Len(more) :
              more[k].reverses = 0 /\ more[k][key] \in there /\ more[k][other] \in present
    PROVE  Linked(rows \o more, key, there, other, present) /\ ReversedOnce(rows \o more)
<1> DEFINE all == rows \o more
           n == Len(rows)
<1>1. /\ n \in Nat /\ DOMAIN rows = 1..n
      /\ \A i \in 1..n : i \in DOMAIN all /\ all[i] = rows[i]
      /\ \A i \in DOMAIN all : i \notin 1..n => i - n \in 1..Len(more) /\ all[i] = more[i - n]
  BY Joined
<1> HIDE DEF all, n
<1>2. ASSUME NEW i \in DOMAIN all, all[i].reverses # 0
      PROVE  i \in 1..n /\ all[i] = rows[i] /\ rows[i].reverses # 0 /\ rows[i].reverses \in 1..(i-1)
             /\ rows[i].reverses \in 1..n /\ all[rows[i].reverses] = rows[rows[i].reverses]
  <2>1. i \in 1..n  BY <1>1, <1>2
  <2>2. all[i] = rows[i] /\ rows[i].reverses # 0  BY <1>1, <1>2, <2>1
  <2>3. rows[i].reverses \in 1..(i-1)  BY <1>1, <2>1, <2>2 DEF Linked
  <2>4. rows[i].reverses \in 1..n  BY <1>1, <2>1, <2>3
  <2> QED  BY <1>1, <2>1, <2>2, <2>3, <2>4
<1>3. Linked(all, key, there, other, present)
  <2> SUFFICES ASSUME NEW i \in DOMAIN all
               PROVE  /\ all[i][key] \in there /\ all[i][other] \in present
                      /\ all[i].reverses # 0 =>
                            /\ all[i].reverses \in 1..(i-1)
                            /\ all[all[i].reverses][key] = all[i][key]
                            /\ all[all[i].reverses][other] = all[i][other]
                            /\ all[all[i].reverses].amount = all[i].amount
    BY DEF Linked
  <2>1. all[i][key] \in there /\ all[i][other] \in present
    <3>1. CASE i \in 1..n  BY <1>1, <3>1 DEF Linked
    <3>2. CASE i \notin 1..n  BY <1>1, <3>2
    <3> QED  BY <3>1, <3>2
  <2>2. ASSUME all[i].reverses # 0
        PROVE  /\ rows[rows[i].reverses][key] = rows[i][key]
               /\ rows[rows[i].reverses][other] = rows[i][other]
               /\ rows[rows[i].reverses].amount = rows[i].amount
    <3>1. i \in DOMAIN rows /\ rows[i].reverses # 0  BY <1>1, <1>2, <2>2
    <3> QED  BY <3>1 DEF Linked
  <2> QED  BY <1>2, <2>1, <2>2
<1>4. ReversedOnce(all)
  <2> SUFFICES ASSUME NEW i \in DOMAIN all, NEW j \in DOMAIN all, all[i].reverses # 0
               PROVE  /\ all[all[i].reverses].reverses = 0
                      /\ j # i => all[j].reverses # all[i].reverses
    BY DEF ReversedOnce
  <2>1. i \in DOMAIN rows /\ all[i] = rows[i] /\ rows[i].reverses # 0
        /\ all[rows[i].reverses] = rows[rows[i].reverses]  BY <1>1, <1>2
  <2>2. rows[rows[i].reverses].reverses = 0  BY <2>1 DEF ReversedOnce
  <2>3. CASE all[j].reverses = 0  BY <2>1, <2>2, <2>3
  <2>4. CASE all[j].reverses # 0
    <3>1. j \in DOMAIN rows /\ all[j] = rows[j]  BY <1>1, <1>2, <2>4
    <3>2. j # i => rows[j].reverses # rows[i].reverses  BY <2>1, <3>1 DEF ReversedOnce
    <3> QED  BY <2>1, <2>2, <3>1, <3>2
  <2> QED  BY <2>3, <2>4
<1> QED  BY <1>3, <1>4 DEF all

\* Rows that reverse live ones, each another.
LEMMA LinkedReversed ==
    ASSUME NEW R, NEW rows \in Seq(R), NEW key, NEW there, NEW other, NEW present,
           Linked(rows, key, there, other, present), ReversedOnce(rows),
           NEW ids, Takable(rows, ids), Reversals(rows, ids) \in Seq(R), Len(Reversals(rows, ids)) = Len(ids),
           \A k \in 1..Len(ids) :
              /\ Reversals(rows, ids)[k].reverses = ids[k]
              /\ Reversals(rows, ids)[k][key] = rows[ids[k]][key]
              /\ Reversals(rows, ids)[k][other] = rows[ids[k]][other]
              /\ Reversals(rows, ids)[k].amount = rows[ids[k]].amount
    PROVE  /\ Linked(rows \o Reversals(rows, ids), key, there, other, present)
           /\ ReversedOnce(rows \o Reversals(rows, ids))
<1> DEFINE more == Reversals(rows, ids)
           all == rows \o more
           n == Len(rows)
<1>1. /\ n \in Nat /\ DOMAIN rows = 1..n
      /\ \A i \in 1..n : i \in DOMAIN all /\ all[i] = rows[i]
      /\ \A i \in DOMAIN all : i \notin 1..n =>
            i > n /\ i - n \in 1..Len(ids) /\ all[i] = more[i - n] /\ i \in Nat
  <2> HIDE DEF more
  <2>1. more \in Seq(R) /\ Len(more) = Len(ids)  BY DEF more
  <2>2. n \in Nat /\ Len(more) \in Nat  BY <2>1, LenProperties
  <2>3. DOMAIN rows = 1..n  BY LenProperties
  <2>6. all \in Seq(R) /\ Len(all) = n + Len(more)  BY <2>1, ConcatProperties
  <2>7. DOMAIN all = 1..(n + Len(more))
    <3> HIDE DEF all
    <3> QED  BY <2>6, LenProperties
  <2>4. \A i \in 1..n : i \in DOMAIN all /\ all[i] = rows[i]  BY <2>1, Joined
  <2>5. \A i \in DOMAIN all : i \notin 1..n => i > n /\ i - n \in 1..Len(more) /\ all[i] = more[i - n]
    BY <2>1, Joined
  <2> QED  BY <2>1, <2>2, <2>3, <2>4, <2>5, <2>7
<1>2. \A k \in 1..Len(ids) : ids[k] \in 1..n /\ LiveRow(rows, ids[k])
      /\ more[k].reverses = ids[k] /\ more[k][key] = rows[ids[k]][key]
      /\ more[k][other] = rows[ids[k]][other] /\ more[k].amount = rows[ids[k]].amount
  <2>1. ids \in Seq(DOMAIN rows) /\ DOMAIN ids = 1..Len(ids) /\ \A k \in 1..Len(ids) : ids[k] \in DOMAIN rows
    BY LenProperties DEF Takable
  <2> QED  BY <1>1, <2>1 DEF Takable
<1>3. \A k, l \in 1..Len(ids) : ids[k] = ids[l] => k = l
  <2>1. DOMAIN ids = 1..Len(ids)  BY LenProperties DEF Takable
  <2> QED  BY <2>1 DEF Takable, Distinct
<1> HIDE DEF more, all, n
<1>4. ASSUME NEW i \in 1..n, rows[i].reverses # 0
      PROVE  i \in DOMAIN rows /\ rows[i].reverses \in 1..(i-1) /\ rows[i].reverses \in 1..n
             /\ all[rows[i].reverses] = rows[rows[i].reverses]
  <2>1. i \in DOMAIN rows /\ rows[i].reverses \in 1..(i-1)  BY <1>1, <1>4 DEF Linked
  <2>2. rows[i].reverses \in 1..n  BY <1>1, <2>1
  <2> QED  BY <1>1, <2>1, <2>2
<1>5. ASSUME NEW i \in DOMAIN all, i \notin 1..n
      PROVE  /\ i - n \in 1..Len(ids) /\ all[i].reverses = ids[i-n] /\ ids[i-n] \in 1..n
             /\ ids[i-n] \in 1..(i-1) /\ all[ids[i-n]] = rows[ids[i-n]] /\ LiveRow(rows, ids[i-n])
             /\ all[i][key] = rows[ids[i-n]][key] /\ all[i][other] = rows[ids[i-n]][other]
             /\ all[i].amount = rows[ids[i-n]].amount
  <2>1. i > n /\ i - n \in 1..Len(ids) /\ all[i] = more[i - n] /\ i \in Nat  BY <1>1, <1>5
  <2>2. ids[i-n] \in 1..n  BY <1>2, <2>1
  <2>3. ids[i-n] \in 1..(i-1)  BY <1>1, <2>1, <2>2
  <2> QED  BY <1>1, <1>2, <2>1, <2>2, <2>3
<1>6. Linked(all, key, there, other, present)
  <2> SUFFICES ASSUME NEW i \in DOMAIN all
               PROVE  /\ all[i][key] \in there /\ all[i][other] \in present
                      /\ all[i].reverses # 0 =>
                            /\ all[i].reverses \in 1..(i-1)
                            /\ all[all[i].reverses][key] = all[i][key]
                            /\ all[all[i].reverses][other] = all[i][other]
                            /\ all[all[i].reverses].amount = all[i].amount
    BY DEF Linked
  <2>1. CASE i \in 1..n
    <3>1. all[i] = rows[i] /\ i \in DOMAIN rows  BY <1>1, <2>1
    <3>2. rows[i][key] \in there /\ rows[i][other] \in present
          /\ (rows[i].reverses # 0 =>
                /\ rows[rows[i].reverses][key] = rows[i][key]
                /\ rows[rows[i].reverses][other] = rows[i][other]
                /\ rows[rows[i].reverses].amount = rows[i].amount)
      BY <3>1 DEF Linked
    <3> QED  BY <1>4, <2>1, <3>1, <3>2
  <2>2. CASE i \notin 1..n
    <3> DEFINE o == ids[i-n]
    <3>1. o \in DOMAIN rows /\ rows[o][key] \in there /\ rows[o][other] \in present
      BY <1>1, <1>5, <2>2 DEF Linked
    <3> QED  BY <1>5, <2>2, <3>1
  <2> QED  BY <2>1, <2>2
<1>7. ReversedOnce(all)
  <2> SUFFICES ASSUME NEW i \in DOMAIN all, NEW j \in DOMAIN all, all[i].reverses # 0
               PROVE  /\ all[all[i].reverses].reverses = 0
                      /\ j # i => all[j].reverses # all[i].reverses
    BY DEF ReversedOnce
  <2>1. CASE i \in 1..n
    <3>1. all[i] = rows[i] /\ rows[i].reverses # 0 /\ i \in DOMAIN rows
          /\ all[rows[i].reverses] = rows[rows[i].reverses]  BY <1>1, <1>4, <2>1
    <3>2. rows[rows[i].reverses].reverses = 0  BY <3>1 DEF ReversedOnce
    <3>3. CASE j \in 1..n
      <4>1. all[j] = rows[j] /\ j \in DOMAIN rows  BY <1>1, <3>3
      <4>2. j # i => rows[j].reverses # rows[i].reverses  BY <3>1, <4>1 DEF ReversedOnce
      <4> QED  BY <3>1, <3>2, <4>1, <4>2
    <3>4. CASE j \notin 1..n
      <4>1. all[j].reverses = ids[j-n] /\ LiveRow(rows, ids[j-n])  BY <1>5, <3>4
      <4>2. rows[i].reverses # ids[j-n]  BY <3>1, <4>1 DEF LiveRow
      <4> QED  BY <3>1, <3>2, <4>1, <4>2
    <3> QED  BY <3>3, <3>4
  <2>2. CASE i \notin 1..n
    <3> DEFINE o == ids[i-n]
    <3>1. all[i].reverses = o /\ all[o] = rows[o] /\ LiveRow(rows, o) /\ i - n \in 1..Len(ids)  BY <1>5, <2>2
    <3>2. rows[o].reverses = 0  BY <3>1 DEF LiveRow
    <3>3. CASE j \in 1..n
      <4>1. all[j] = rows[j] /\ j \in DOMAIN rows  BY <1>1, <3>3
      <4>2. rows[j].reverses # o  BY <3>1, <4>1 DEF LiveRow
      <4> QED  BY <3>1, <3>2, <4>1, <4>2
    <3>4. CASE j \notin 1..n
      <4>1. all[j].reverses = ids[j-n] /\ j - n \in 1..Len(ids)  BY <1>5, <3>4
      <4>2. ASSUME ids[j-n] = o PROVE j = i
        <5>1. j - n = i - n  BY <1>3, <3>1, <4>1, <4>2
        <5>2. i \in Nat /\ j \in Nat  BY <1>1, <2>2, <3>4
        <5> QED  BY <1>1, <5>1, <5>2
      <4> QED  BY <3>1, <3>2, <4>1, <4>2
    <3> QED  BY <3>3, <3>4
  <2> QED  BY <2>1, <2>2
<1> QED  BY <1>6, <1>7 DEF all, more

\* and so does a table they point to that grows.
LEMMA LinkedMore ==
    ASSUME NEW rows, NEW key, NEW there, NEW other, NEW present, NEW there2, NEW present2,
           Linked(rows, key, there, other, present), there \subseteq there2, present \subseteq present2
    PROVE  Linked(rows, key, there2, other, present2)
BY DEF Linked

LEMMA LinkedPairs ==
    ASSUME NEW rows, NEW key, NEW there, NEW other, NEW present, Linked(rows, key, there, other, present)
    PROVE  Paired(rows, key) /\ Paired(rows, other)
BY DEF Linked, Paired

----------------------------------------------------------------------------
(* The tables one by one: what holds of each whatever the balances         *)

ReceiptsShaped(receipts) ==
    /\ receipts \in Seq(Receipts)
    /\ \A m \in DOMAIN receipts :
          /\ receipts[m].revisions # <<>>
          /\ RevisionsFollow(receipts[m])
          /\ receipts[m].replaces # 0 =>
                /\ receipts[m].replaces \in DOMAIN receipts
                /\ Current(receipts[receipts[m].replaces]).status = "REVERSED"

RefundsShaped(refunds) ==
    /\ refunds \in Seq(Refunds)
    /\ \A r \in DOMAIN refunds : refunds[r].revisions # <<>> /\ RevisionsFollow(refunds[r])

AdjustmentsShaped(adjustments, known) ==
    /\ adjustments \in Seq(Adjustments)
    /\ ReversedOnce(adjustments)
    /\ \A i \in DOMAIN adjustments :
          /\ adjustments[i].charge \in known
          /\ adjustments[i].reverses # 0 =>
                /\ adjustments[i].reverses \in 1..(i-1)
                /\ adjustments[adjustments[i].reverses].charge = adjustments[i].charge
                /\ adjustments[i].delta = -adjustments[adjustments[i].reverses].delta

RowsShaped(rows, sources, other, present) ==
    Linked(rows, "source", sources, other, present) /\ ReversedOnce(rows)

\* The ledger but for its balances and attributions.
Shaped(L) ==
    /\ L \in Ledgers
    /\ ReceiptsShaped(L.receipts)
    /\ RefundsShaped(L.refunds)
    /\ AdjustmentsShaped(L.adjustments, DOMAIN L.charges)
    /\ RowsShaped(L.allocations, DOMAIN L.receipts, "charge", DOMAIN L.charges)
    /\ RowsShaped(L.returns, DOMAIN L.receipts, "refund", DOMAIN L.refunds)

LEMMA LedgerTables ==
    ASSUME NEW L \in Ledgers
    PROVE  /\ L.charges \in Seq(Charges) /\ L.adjustments \in Seq(Adjustments)
           /\ L.receipts \in Seq(Receipts) /\ L.allocations \in Seq(Allocations)
           /\ L.refunds \in Seq(Refunds) /\ L.returns \in Seq(Returns)
           /\ DOMAIN L.charges = 1..Len(L.charges) /\ DOMAIN L.receipts = 1..Len(L.receipts)
           /\ DOMAIN L.refunds = 1..Len(L.refunds) /\ DOMAIN L.allocations = 1..Len(L.allocations)
           /\ DOMAIN L.returns = 1..Len(L.returns) /\ DOMAIN L.adjustments = 1..Len(L.adjustments)
<1>1. /\ L.charges \in Seq(Charges) /\ L.adjustments \in Seq(Adjustments)
      /\ L.receipts \in Seq(Receipts) /\ L.allocations \in Seq(Allocations)
      /\ L.refunds \in Seq(Refunds) /\ L.returns \in Seq(Returns)
  BY DEF Ledgers
<1> QED  BY <1>1, LenProperties

LEMMA RowTypes == Signable(Allocations) /\ Signable(Returns) /\ Money \in SUBSET Int
<1>1. Money \in SUBSET Int  BY BigintAssumption DEF Money
<1> QED  BY <1>1 DEF Signable, Allocations, Returns

\* A movement that stands takes one more revision.
LEMMA RevisedMovement ==
    ASSUME NEW m, m \in Receipts \/ m \in Refunds, m.revisions # <<>>, RevisionsFollow(m), Standing(m),
           NEW amount \in Money, NEW status \in {"RECORDED", "REVERSED"},
           status = "REVERSED" => amount = Current(m).amount
    PROVE  LET new == Revised(m, amount, status)
           IN /\ m \in Receipts => new \in Receipts /\ new.replaces = m.replaces /\ new.attribution = m.attribution
              /\ m \in Refunds => new \in Refunds
              /\ new.revisions # <<>> /\ RevisionsFollow(new)
              /\ Current(new) = [amount |-> amount, status |-> status]
              /\ Len(new.revisions) = Len(m.revisions) + 1
<1> DEFINE new == Revised(m, amount, status)
           row == [amount |-> amount, status |-> status]
           old == m.revisions
           n == Len(old)
<1>1. old \in Seq(Revisions) /\ row \in Revisions  BY DEF Receipts, Refunds, Revisions
<1>2. n \in Nat /\ n # 0  BY <1>1, EmptySeq, LenProperties
<1>3. Append(old, row) \in Seq(Revisions) /\ Len(Append(old, row)) = n + 1
      /\ (\A i \in 1..n : Append(old, row)[i] = old[i]) /\ Append(old, row)[n+1] = row
  BY <1>1, AppendProperties
<1>4. /\ new.revisions = Append(old, row)
      /\ m \in Receipts => new \in Receipts /\ new.replaces = m.replaces /\ new.attribution = m.attribution
      /\ m \in Refunds => new \in Refunds
  <2> DEFINE a == Append(old, row)
  <2>1. a \in Seq(Revisions) /\ new = [m EXCEPT !.revisions = a]  BY <1>3 DEF Revised
  <2> HIDE DEF a, row, new
  <2>2. CASE m \in Receipts  
    <3>1. ASSUME m \in Refunds PROVE new \in Refunds  BY <2>1, <3>1 DEF Refunds
    <3>2. new.revisions = a /\ new \in Receipts /\ new.replaces = m.replaces /\ new.attribution = m.attribution
      BY <2>1, <2>2 DEF Receipts
    <3> QED  BY <3>1, <3>2 DEF a
  <2>3. CASE m \in Refunds
    <3>1. ASSUME m \in Receipts PROVE new \in Receipts /\ new.replaces = m.replaces /\ new.attribution = m.attribution
       BY <2>1, <3>1 DEF Receipts
    <3>2. new.revisions = a /\ new \in Refunds  BY <2>1, <2>3 DEF Refunds
    <3> QED  BY <3>1, <3>2 DEF a
  <2> QED  BY <2>2, <2>3
<1> HIDE DEF new
<1>5. new.revisions # <<>>
  <2>1. Len(new.revisions) = n + 1 /\ new.revisions \in Seq(Revisions)  BY <1>3, <1>4
  <2> QED  BY <1>2, <2>1, EmptySeq
<1>6. Current(new) = row /\ Current(m) = old[n]  BY <1>2, <1>3, <1>4 DEF Current
<1>7. RevisionsFollow(new)
  <2> SUFFICES ASSUME NEW i \in 2..(n+1)
               PROVE  /\ new.revisions[i-1].status = "RECORDED"
                      /\ new.revisions[i].status = "REVERSED" =>
                            new.revisions[i].amount = new.revisions[i-1].amount
    BY <1>3, <1>4 DEF RevisionsFollow
  <2>1. CASE i \in 2..n
    <3>1. i \in 1..n /\ i - 1 \in 1..n  BY <1>2, <2>1
    <3>2. new.revisions[i] = old[i] /\ new.revisions[i-1] = old[i-1]  BY <1>3, <1>4, <3>1
    <3> QED  BY <2>1, <3>2 DEF RevisionsFollow
  <2>2. CASE i = n + 1
    <3>1. i - 1 = n /\ n \in 1..n  BY <1>2, <2>2
    <3>2. new.revisions[i] = row /\ new.revisions[i-1] = old[n]  BY <1>3, <1>4, <2>2, <3>1
    <3>3. row.status = status /\ row.amount = amount  OBVIOUS
    <3> QED  BY <1>6, <3>2, <3>3 DEF Standing
  <2> QED  BY <1>2, <2>1, <2>2
<1> QED  BY <1>3, <1>4, <1>5, <1>6, <1>7 DEF new

\* What is recorded has one revision.
LEMMA RecordedMovement ==
    ASSUME NEW amount \in Money, NEW m, m.revisions = Recorded(amount)
    PROVE  /\ m.revisions # <<>> /\ RevisionsFollow(m)
           /\ Current(m) = [amount |-> amount, status |-> "RECORDED"]
           /\ Recorded(amount) \in Seq(Revisions) /\ Len(Recorded(amount)) = 1
<1>1. Recorded(amount) = <<[amount |-> amount, status |-> "RECORDED"]>>  BY DEF Recorded
<1>2. Len(m.revisions) = 1 /\ m.revisions[1] = [amount |-> amount, status |-> "RECORDED"]
      /\ m.revisions # <<>>
  BY <1>1
<1>3. \A i \in 2..1 : FALSE  OBVIOUS
<1> QED  BY <1>1, <1>2, <1>3 DEF RevisionsFollow, Current, Revisions

LEMMA WorthType ==
    ASSUME NEW m, m \in Receipts \/ m \in Refunds, m.revisions # <<>>
    PROVE  Current(m) \in Revisions /\ Worth(m) \in Nat
<1>1. m.revisions \in Seq(Revisions)  BY DEF Receipts, Refunds
<1>2. Len(m.revisions) \in 1..Len(m.revisions)  BY <1>1, EmptySeq, LenProperties
<1>3. Current(m) \in Revisions  BY <1>1, <1>2, LenProperties DEF Current
<1> QED  BY <1>3, BigintAssumption DEF Worth, Revisions, Money

\* The receipts after one of them is revised,
LEMMA ReceiptsRevised ==
    ASSUME NEW receipts, ReceiptsShaped(receipts), NEW m \in DOMAIN receipts, Standing(receipts[m]),
           NEW amount \in Money, NEW status \in {"RECORDED", "REVERSED"},
           status = "REVERSED" => amount = Current(receipts[m]).amount
    PROVE  LET new == [receipts EXCEPT ![m] = Revised(@, amount, status)]
           IN /\ ReceiptsShaped(new) /\ DOMAIN new = DOMAIN receipts
              /\ \A s \in DOMAIN receipts : s # m => new[s] = receipts[s]
              /\ new[m] = Revised(receipts[m], amount, status)
              /\ Current(new[m]) = [amount |-> amount, status |-> status]
<1> DEFINE v == Revised(receipts[m], amount, status)
           new == [receipts EXCEPT ![m] = v]
<1>1. receipts \in Seq(Receipts) /\ DOMAIN receipts = 1..Len(receipts) /\ Len(receipts) \in Nat
      /\ \A s \in DOMAIN receipts : receipts[s] \in Receipts
  BY LenProperties DEF ReceiptsShaped
<1>2. receipts[m].revisions # <<>> /\ RevisionsFollow(receipts[m])  BY DEF ReceiptsShaped
<1>3. /\ v \in Receipts /\ v.replaces = receipts[m].replaces
      /\ v.revisions # <<>> /\ RevisionsFollow(v) /\ Current(v) = [amount |-> amount, status |-> status]
  BY <1>1, <1>2, RevisedMovement
<1> HIDE DEF v
<1>4. new \in Seq(Receipts) /\ Len(new) = Len(receipts) /\ DOMAIN new = DOMAIN receipts
      /\ new[m] = v /\ \A s \in DOMAIN receipts : s # m => new[s] = receipts[s]
  <2>1. new \in [1..Len(receipts) -> Receipts]  BY <1>1, <1>3
  <2> QED  BY <1>1, <2>1, SeqDef, LenProperties
<1> HIDE DEF new
<1>5. ASSUME NEW s \in DOMAIN new
      PROVE  /\ new[s].revisions # <<>> /\ RevisionsFollow(new[s])
             /\ new[s].replaces = receipts[s].replaces
             /\ Current(receipts[s]).status = "REVERSED" => Current(new[s]).status = "REVERSED"
  <2>1. CASE s = m
    <3>1. Current(receipts[s]).status = "RECORDED"  BY <2>1 DEF Standing
    <3> QED  BY <2>1, <1>3, <1>4, <3>1
  <2>2. CASE s # m  BY <2>2, <1>4 DEF ReceiptsShaped
  <2> QED  BY <2>1, <2>2
<1>6. ReceiptsShaped(new)  BY <1>4, <1>5 DEF ReceiptsShaped
<1> QED  BY <1>3, <1>4, <1>6 DEF new, v

\* after one more is recorded, in the place of a reversed one or of none,
LEMMA ReceiptsReceived ==
    ASSUME NEW receipts, ReceiptsShaped(receipts), NEW amount \in Money, NEW attribution \in Attributions,
           NEW replaces \in {0} \cup DOMAIN receipts,
           replaces # 0 => Current(receipts[replaces]).status = "REVERSED"
    PROVE  LET new == Append(receipts, [revisions |-> Recorded(amount), replaces |-> replaces,
                                        attribution |-> attribution])
               s == Len(new)
           IN /\ ReceiptsShaped(new) /\ DOMAIN new = DOMAIN receipts \cup {s} /\ s \notin DOMAIN receipts
              /\ \A i \in DOMAIN receipts : new[i] = receipts[i]
              /\ Worth(new[s]) = amount /\ new[s].attribution = attribution
<1> DEFINE row == [revisions |-> Recorded(amount), replaces |-> replaces, attribution |-> attribution]
           new == Append(receipts, row)
           n == Len(receipts)
<1>1. receipts \in Seq(Receipts) /\ DOMAIN receipts = 1..n /\ n \in Nat  BY LenProperties DEF ReceiptsShaped
<1>2. row.revisions = Recorded(amount) /\ row.replaces = replaces /\ row.attribution = attribution  OBVIOUS
<1>3. row.revisions # <<>> /\ RevisionsFollow(row) /\ Current(row) = [amount |-> amount, status |-> "RECORDED"]
      /\ Recorded(amount) \in Seq(Revisions)
  BY <1>2, RecordedMovement
<1>4. row \in Receipts  BY <1>1, <1>3 DEF Receipts
<1> HIDE DEF row
<1>5. new \in Seq(Receipts) /\ Len(new) = n + 1 /\ (\A i \in 1..n : new[i] = receipts[i]) /\ new[n+1] = row
  BY <1>1, <1>4, AppendProperties
<1>6. DOMAIN new = 1..(n+1)  
  <2> HIDE DEF new
  <2> QED  BY <1>5, LenProperties
<1> HIDE DEF new
<1>7. ASSUME NEW i \in DOMAIN new
      PROVE  /\ new[i].revisions # <<>> /\ RevisionsFollow(new[i])
             /\ new[i].replaces # 0 =>
                   /\ new[i].replaces \in DOMAIN new
                   /\ Current(new[new[i].replaces]).status = "REVERSED"
  <2>1. CASE i \in 1..n
    <3>1. new[i] = receipts[i] /\ i \in DOMAIN receipts  BY <1>1, <1>5, <2>1
    <3>2. receipts[i].replaces # 0 => receipts[i].replaces \in 1..n  BY <1>1, <3>1 DEF ReceiptsShaped
    <3>3. \A j \in 1..n : new[j] = receipts[j] /\ j \in DOMAIN new  BY <1>1, <1>5, <1>6
    <3> QED  BY <3>1, <3>2, <3>3 DEF ReceiptsShaped
  <2>2. CASE i = n + 1
    <3>1. new[i] = row  BY <1>5, <2>2
    <3>2. replaces # 0 => replaces \in 1..n /\ replaces \in DOMAIN new /\ new[replaces] = receipts[replaces]
      BY <1>1, <1>5, <1>6
    <3> QED  BY <1>2, <1>3, <3>1, <3>2
  <2> QED  BY <1>1, <1>6, <2>1, <2>2
<1>8. ReceiptsShaped(new)  BY <1>5, <1>7 DEF ReceiptsShaped
<1>9. Worth(new[n+1]) = amount  BY <1>3, <1>5 DEF Worth
<1>10. n + 1 \notin DOMAIN receipts /\ DOMAIN new = DOMAIN receipts \cup {n + 1}  BY <1>1, <1>6
<1> QED  BY <1>1, <1>2, <1>5, <1>8, <1>9, <1>10 DEF new, row

\* and after the money of one is attributed anew.
LEMMA ReceiptsAttributed ==
    ASSUME NEW receipts, ReceiptsShaped(receipts), NEW m \in DOMAIN receipts, NEW attribution \in Attributions
    PROVE  LET new == [receipts EXCEPT ![m].attribution = attribution]
           IN /\ ReceiptsShaped(new) /\ DOMAIN new = DOMAIN receipts
              /\ \A s \in DOMAIN receipts : new[s].revisions = receipts[s].revisions
              /\ \A s \in DOMAIN receipts : s # m => new[s] = receipts[s]
              /\ new[m].attribution = attribution
<1> DEFINE v == [receipts[m] EXCEPT !.attribution = attribution]
           new == [receipts EXCEPT ![m] = v]
<1>1. receipts \in Seq(Receipts) /\ DOMAIN receipts = 1..Len(receipts) /\ Len(receipts) \in Nat
      /\ \A s \in DOMAIN receipts : receipts[s] \in Receipts
  BY LenProperties DEF ReceiptsShaped
<1>2. v \in Receipts /\ v.replaces = receipts[m].replaces /\ v.revisions = receipts[m].revisions
      /\ v.attribution = attribution
  BY <1>1 DEF Receipts
<1>3. new = [receipts EXCEPT ![m].attribution = attribution]  BY <1>1
<1> HIDE DEF v
<1>4. new \in Seq(Receipts) /\ Len(new) = Len(receipts) /\ DOMAIN new = DOMAIN receipts
      /\ new[m] = v /\ \A s \in DOMAIN receipts : s # m => new[s] = receipts[s]
  <2>1. new \in [1..Len(receipts) -> Receipts]  BY <1>1, <1>2
  <2> QED  BY <1>1, <2>1, SeqDef, LenProperties
<1> HIDE DEF new
<1>5. ASSUME NEW s \in DOMAIN receipts
      PROVE  new[s].revisions = receipts[s].revisions /\ new[s].replaces = receipts[s].replaces
             /\ Current(new[s]) = Current(receipts[s])
             /\ (RevisionsFollow(receipts[s]) => RevisionsFollow(new[s]))
  <2>1. new[s].revisions = receipts[s].revisions /\ new[s].replaces = receipts[s].replaces
    BY <1>2, <1>4
  <2> QED  BY <2>1 DEF Current, RevisionsFollow
<1>6. ReceiptsShaped(new)  BY <1>4, <1>5 DEF ReceiptsShaped
<1>7. new[m].attribution = attribution  BY <1>2, <1>4
<1> QED  BY <1>3, <1>4, <1>5, <1>6, <1>7

\* The refunds after one of them is revised,
LEMMA RefundsRevised ==
    ASSUME NEW refunds, RefundsShaped(refunds), NEW r \in DOMAIN refunds, Standing(refunds[r]),
           NEW amount \in Money, NEW status \in {"RECORDED", "REVERSED"},
           status = "REVERSED" => amount = Current(refunds[r]).amount
    PROVE  LET new == [refunds EXCEPT ![r] = Revised(@, amount, status)]
           IN /\ RefundsShaped(new) /\ DOMAIN new = DOMAIN refunds
              /\ \A s \in DOMAIN refunds : s # r => new[s] = refunds[s]
<1> DEFINE v == Revised(refunds[r], amount, status)
           new == [refunds EXCEPT ![r] = v]
<1>1. refunds \in Seq(Refunds) /\ DOMAIN refunds = 1..Len(refunds) /\ Len(refunds) \in Nat
      /\ \A s \in DOMAIN refunds : refunds[s] \in Refunds
  BY LenProperties DEF RefundsShaped
<1>2. refunds[r].revisions # <<>> /\ RevisionsFollow(refunds[r])  BY DEF RefundsShaped
<1>3. /\ v \in Refunds
      /\ v.revisions # <<>> /\ RevisionsFollow(v) /\ Current(v) = [amount |-> amount, status |-> status]
  BY <1>1, <1>2, RevisedMovement
<1> HIDE DEF v
<1>4. new \in Seq(Refunds) /\ Len(new) = Len(refunds) /\ DOMAIN new = DOMAIN refunds
      /\ new[r] = v /\ \A s \in DOMAIN refunds : s # r => new[s] = refunds[s]
  <2>1. new \in [1..Len(refunds) -> Refunds]  BY <1>1, <1>3
  <2> QED  BY <1>1, <2>1, SeqDef, LenProperties
<1> HIDE DEF new
<1>5. ASSUME NEW s \in DOMAIN new PROVE new[s].revisions # <<>> /\ RevisionsFollow(new[s])
  BY <1>3, <1>4 DEF RefundsShaped
<1>6. RefundsShaped(new)  BY <1>4, <1>5 DEF RefundsShaped
<1> QED  BY <1>4, <1>6 DEF new, v

\* and after one more.
LEMMA RefundsRecorded ==
    ASSUME NEW refunds, RefundsShaped(refunds), NEW amount \in Money
    PROVE  LET new == Append(refunds, [revisions |-> Recorded(amount)])
               r == Len(refunds) + 1
           IN /\ RefundsShaped(new) /\ DOMAIN new = DOMAIN refunds \cup {r} /\ r \notin DOMAIN refunds
              /\ \A i \in DOMAIN refunds : new[i] = refunds[i]
              /\ Worth(new[r]) = amount
<1> DEFINE row == [revisions |-> Recorded(amount)]
           new == Append(refunds, row)
           n == Len(refunds)
<1>1. refunds \in Seq(Refunds) /\ DOMAIN refunds = 1..n /\ n \in Nat  BY LenProperties DEF RefundsShaped
<1>2. row.revisions = Recorded(amount)  OBVIOUS
<1>3. row.revisions # <<>> /\ RevisionsFollow(row) /\ Current(row) = [amount |-> amount, status |-> "RECORDED"]
      /\ Recorded(amount) \in Seq(Revisions)
  BY <1>2, RecordedMovement
<1>4. row \in Refunds  BY <1>1, <1>3 DEF Refunds
<1> HIDE DEF row
<1>5. new \in Seq(Refunds) /\ Len(new) = n + 1 /\ (\A i \in 1..n : new[i] = refunds[i]) /\ new[n+1] = row
  BY <1>1, <1>4, AppendProperties
<1>6. DOMAIN new = 1..(n+1)
  <2> HIDE DEF new
  <2> QED  BY <1>5, LenProperties
<1> HIDE DEF new
<1>7. ASSUME NEW i \in DOMAIN new PROVE new[i].revisions # <<>> /\ RevisionsFollow(new[i])
  <2>1. CASE i \in 1..n  BY <1>1, <1>5, <2>1 DEF RefundsShaped
  <2>2. CASE i = n + 1  BY <1>3, <1>5, <2>2
  <2> QED  BY <1>1, <1>6, <2>1, <2>2
<1>8. RefundsShaped(new)  BY <1>5, <1>7 DEF RefundsShaped
<1>9. Worth(new[n+1]) = amount  BY <1>3, <1>5 DEF Worth
<1>10. n + 1 \notin DOMAIN refunds /\ DOMAIN new = DOMAIN refunds \cup {n + 1}  BY <1>1, <1>6
<1> QED  BY <1>1, <1>5, <1>8, <1>9, <1>10 DEF new, row

LEMMA ChargesVoided ==
    ASSUME NEW charges \in Seq(Charges), NEW c \in DOMAIN charges
    PROVE  LET new == [charges EXCEPT ![c].voided = TRUE]
           IN /\ new \in Seq(Charges) /\ DOMAIN new = DOMAIN charges
              /\ \A k \in DOMAIN charges : new[k].original = charges[k].original
                                           /\ new[k].contract = charges[k].contract
              /\ \A k \in DOMAIN charges : k # c => new[k] = charges[k]
              /\ new[c].voided
<1> DEFINE v == [charges[c] EXCEPT !.voided = TRUE]
           new == [charges EXCEPT ![c] = v]
<1>1. DOMAIN charges = 1..Len(charges) /\ Len(charges) \in Nat
      /\ \A s \in DOMAIN charges : charges[s] \in Charges
  BY LenProperties
<1>2. v \in Charges /\ v.original = charges[c].original /\ v.contract = charges[c].contract /\ v.voided
  BY <1>1 DEF Charges
<1>3. new = [charges EXCEPT ![c].voided = TRUE]  BY <1>1
<1> HIDE DEF v
<1>4. new \in Seq(Charges) /\ DOMAIN new = DOMAIN charges
      /\ new[c] = v /\ \A s \in DOMAIN charges : s # c => new[s] = charges[s]
  <2>1. new \in [1..Len(charges) -> Charges]  BY <1>1, <1>2
  <2> QED  BY <1>1, <2>1, SeqDef, LenProperties
<1> HIDE DEF new
<1> QED  BY <1>2, <1>3, <1>4

\* A further adjustment, or the taking back of one nothing took back.
LEMMA AdjustmentsAppended ==
    ASSUME NEW adjustments, NEW known, AdjustmentsShaped(adjustments, known),
           NEW c \in known, known \subseteq Nat \ {0}, NEW delta \in Int,
           NEW reverses \in {0} \cup DOMAIN adjustments,
           reverses # 0 =>
              /\ adjustments[reverses].charge = c
              /\ adjustments[reverses].reverses = 0
              /\ adjustments[reverses].delta = -delta
              /\ \A i \in DOMAIN adjustments : adjustments[i].reverses # reverses
    PROVE  LET new == Append(adjustments, [charge |-> c, delta |-> delta, reverses |-> reverses])
           IN /\ AdjustmentsShaped(new, known) /\ DOMAIN new = 1..(Len(adjustments) + 1)
              /\ \A i \in 1..Len(adjustments) : new[i] = adjustments[i]
              /\ new[Len(adjustments) + 1].charge = c /\ new[Len(adjustments) + 1].delta = delta
<1> DEFINE row == [charge |-> c, delta |-> delta, reverses |-> reverses]
           new == Append(adjustments, row)
           n == Len(adjustments)
<1>1. adjustments \in Seq(Adjustments) /\ DOMAIN adjustments = 1..n /\ n \in Nat
  BY LenProperties DEF AdjustmentsShaped
<1>2. row.charge = c /\ row.delta = delta /\ row.reverses = reverses  OBVIOUS
<1>3. row \in Adjustments  BY <1>1 DEF Adjustments
<1> HIDE DEF row
<1>4. new \in Seq(Adjustments) /\ Len(new) = n + 1 /\ (\A i \in 1..n : new[i] = adjustments[i]) /\ new[n+1] = row
  BY <1>1, <1>3, AppendProperties
<1>5. DOMAIN new = 1..(n+1)
  <2> HIDE DEF new
  <2> QED  BY <1>4, LenProperties
<1> HIDE DEF new
<1>6. ASSUME NEW i \in 1..n
      PROVE  new[i] = adjustments[i] /\ adjustments[i].charge \in known
             /\ (adjustments[i].reverses # 0 =>
                   /\ adjustments[i].reverses \in 1..(i-1) /\ adjustments[i].reverses \in 1..n
                   /\ new[adjustments[i].reverses] = adjustments[adjustments[i].reverses]
                   /\ adjustments[adjustments[i].reverses].charge = adjustments[i].charge
                   /\ adjustments[adjustments[i].reverses].reverses = 0
                   /\ adjustments[i].delta = -adjustments[adjustments[i].reverses].delta)
  <2>1. new[i] = adjustments[i] /\ adjustments[i].charge \in known  BY <1>1, <1>4 DEF AdjustmentsShaped
  <2>2. ASSUME adjustments[i].reverses # 0
        PROVE  /\ adjustments[i].reverses \in 1..(i-1)
               /\ adjustments[adjustments[i].reverses].charge = adjustments[i].charge
               /\ adjustments[i].delta = -adjustments[adjustments[i].reverses].delta
               /\ adjustments[adjustments[i].reverses].reverses = 0
    BY <1>1, <2>2 DEF AdjustmentsShaped, ReversedOnce
  <2>3. ASSUME adjustments[i].reverses # 0
        PROVE adjustments[i].reverses \in 1..n
    BY <1>1, <2>2, <2>3
  <2> QED  BY <1>4, <2>1, <2>2, <2>3
<1>7. new[n+1] = row /\ (reverses # 0 => reverses \in 1..n /\ new[reverses] = adjustments[reverses])
  BY <1>1, <1>4
<1>8. ASSUME NEW i \in DOMAIN new
      PROVE  /\ new[i].charge \in known
             /\ new[i].reverses # 0 =>
                   /\ new[i].reverses \in 1..(i-1)
                   /\ new[new[i].reverses].charge = new[i].charge
                   /\ new[i].delta = -new[new[i].reverses].delta
                   /\ new[new[i].reverses].reverses = 0
  <2>1. CASE i \in 1..n  BY <1>6, <2>1
  <2>2. CASE i = n + 1  
    <3>1. new[i] = row /\ i - 1 = n  BY <1>1, <1>7, <2>2
    <3>2. reverses # 0 => adjustments[reverses].delta = -delta /\ -(-delta) = delta  OBVIOUS
    <3> QED  BY <1>2, <1>7, <3>1, <3>2
  <2> QED  BY <1>1, <1>5, <2>1, <2>2
<1>9. ASSUME NEW i \in DOMAIN new, NEW j \in DOMAIN new, new[i].reverses # 0, j # i
      PROVE  new[j].reverses # new[i].reverses
  <2>1. CASE i \in 1..n /\ j \in 1..n
    <3>1. adjustments[i].reverses # 0 /\ new[i] = adjustments[i] /\ new[j] = adjustments[j]  BY <1>6, <1>9, <2>1
    <3>2. adjustments[j].reverses # adjustments[i].reverses  BY <1>1, <1>9, <2>1, <3>1 DEF AdjustmentsShaped, ReversedOnce
    <3> QED  BY <3>1, <3>2
  <2>2. CASE i \in 1..n /\ j = n + 1
    <3>1. new[i] = adjustments[i] /\ new[j].reverses = reverses  BY <1>2, <1>6, <1>7, <2>2
    <3>2. reverses = 0 \/ adjustments[i].reverses # reverses  BY <1>1, <2>2
    <3> QED  BY <1>9, <3>1, <3>2
  <2>3. CASE i = n + 1 /\ j \in 1..n
    <3>1. new[j] = adjustments[j] /\ new[i].reverses = reverses  BY <1>2, <1>6, <1>7, <2>3
    <3>2. reverses = 0 \/ adjustments[j].reverses # reverses  BY <1>1, <2>3
    <3> QED  BY <1>9, <3>1, <3>2
  <2> QED  BY <1>1, <1>5, <1>9, <2>1, <2>2, <2>3
<1>10. ReversedOnce(new)  BY <1>8, <1>9 DEF ReversedOnce
<1>11. AdjustmentsShaped(new, known)  BY <1>4, <1>8, <1>10 DEF AdjustmentsShaped
<1> QED  BY <1>2, <1>4, <1>5, <1>7, <1>11 DEF new, row

----------------------------------------------------------------------------
(* The stages of a command                                                 *)

\* The tables M and L have in common.
SameBut(M, L, tables) ==
    /\ "charges" \in tables \/ M.charges = L.charges
    /\ "adjustments" \in tables \/ M.adjustments = L.adjustments
    /\ "receipts" \in tables \/ M.receipts = L.receipts
    /\ "allocations" \in tables \/ M.allocations = L.allocations
    /\ "refunds" \in tables \/ M.refunds = L.refunds
    /\ "returns" \in tables \/ M.returns = L.returns

LEMMA TableSet ==
    ASSUME NEW L \in Ledgers
    PROVE  /\ \A t \in Seq(Charges) :
                 LET M == [L EXCEPT !.charges = t]
                 IN M \in Ledgers /\ M.charges = t /\ SameBut(M, L, {"charges"})
           /\ \A t \in Seq(Adjustments) :
                 LET M == [L EXCEPT !.adjustments = t]
                 IN M \in Ledgers /\ M.adjustments = t /\ SameBut(M, L, {"adjustments"})
           /\ \A t \in Seq(Receipts) :
                 LET M == [L EXCEPT !.receipts = t]
                 IN M \in Ledgers /\ M.receipts = t /\ SameBut(M, L, {"receipts"})
           /\ \A t \in Seq(Allocations) :
                 LET M == [L EXCEPT !.allocations = t]
                 IN M \in Ledgers /\ M.allocations = t /\ SameBut(M, L, {"allocations"})
           /\ \A t \in Seq(Refunds) :
                 LET M == [L EXCEPT !.refunds = t]
                 IN M \in Ledgers /\ M.refunds = t /\ SameBut(M, L, {"refunds"})
           /\ \A t \in Seq(Returns) :
                 LET M == [L EXCEPT !.returns = t]
                 IN M \in Ledgers /\ M.returns = t /\ SameBut(M, L, {"returns"})
<1>1. ASSUME NEW t \in Seq(Charges)
      PROVE LET M == [L EXCEPT !.charges = t] IN M \in Ledgers /\ M.charges = t /\ SameBut(M, L, {"charges"})
  BY <1>1 DEF Ledgers, SameBut
<1>2. ASSUME NEW t \in Seq(Adjustments)
      PROVE LET M == [L EXCEPT !.adjustments = t] IN M \in Ledgers /\ M.adjustments = t /\ SameBut(M, L, {"adjustments"})
  BY <1>2 DEF Ledgers, SameBut
<1>3. ASSUME NEW t \in Seq(Receipts)
      PROVE LET M == [L EXCEPT !.receipts = t] IN M \in Ledgers /\ M.receipts = t /\ SameBut(M, L, {"receipts"})
  BY <1>3 DEF Ledgers, SameBut
<1>4. ASSUME NEW t \in Seq(Allocations)
      PROVE LET M == [L EXCEPT !.allocations = t] IN M \in Ledgers /\ M.allocations = t /\ SameBut(M, L, {"allocations"})
  BY <1>4 DEF Ledgers, SameBut
<1>5. ASSUME NEW t \in Seq(Refunds)
      PROVE LET M == [L EXCEPT !.refunds = t] IN M \in Ledgers /\ M.refunds = t /\ SameBut(M, L, {"refunds"})
  BY <1>5 DEF Ledgers, SameBut
<1>6. ASSUME NEW t \in Seq(Returns)
      PROVE LET M == [L EXCEPT !.returns = t] IN M \in Ledgers /\ M.returns = t /\ SameBut(M, L, {"returns"})
  BY <1>6 DEF Ledgers, SameBut
<1> QED  BY <1>1, <1>2, <1>3, <1>4, <1>5, <1>6

\* What a command applies.
Facts(sources, known) == [source : sources, charge : known, amount : Money, override : BOOLEAN]
AppliedRows(items) ==
    [k \in DOMAIN items |->
        [source |-> items[k].source, charge |-> items[k].charge, amount |-> items[k].amount,
         override |-> items[k].override, reverses |-> 0]]

RowIds(sources, known) == sources \subseteq Nat \ {0} /\ known \subseteq Nat \ {0}

LEMMA AppliedRowsType ==
    ASSUME NEW sources, NEW known, RowIds(sources, known),
           NEW items \in Seq(Facts(sources, known))
    PROVE  /\ AppliedRows(items) \in Seq(Allocations) /\ Len(AppliedRows(items)) = Len(items)
           /\ \A k \in 1..Len(items) :
                 /\ AppliedRows(items)[k].reverses = 0
                 /\ AppliedRows(items)[k]["source"] = items[k].source
                 /\ AppliedRows(items)[k]["charge"] = items[k].charge
                 /\ AppliedRows(items)[k]["source"] \in sources /\ AppliedRows(items)[k]["charge"] \in known
<1>1. DOMAIN items = 1..Len(items) /\ Len(items) \in Nat
      /\ \A k \in 1..Len(items) : items[k] \in Facts(sources, known)
  BY LenProperties
<1>2. ASSUME NEW k \in 1..Len(items)
      PROVE  /\ AppliedRows(items)[k] \in Allocations
             /\ AppliedRows(items)[k].reverses = 0
             /\ AppliedRows(items)[k]["source"] = items[k].source
             /\ AppliedRows(items)[k]["charge"] = items[k].charge
             /\ AppliedRows(items)[k]["source"] \in sources /\ AppliedRows(items)[k]["charge"] \in known
  <2>1. items[k] \in Facts(sources, known) /\ k \in DOMAIN items  BY <1>1
  <2> DEFINE row == [source |-> items[k].source, charge |-> items[k].charge, amount |-> items[k].amount,
                     override |-> items[k].override, reverses |-> 0]
  <2>2. AppliedRows(items)[k] = row  BY <2>1 DEF AppliedRows
  <2>3. row \in Allocations /\ row.reverses = 0 /\ row["source"] = items[k].source
        /\ row["charge"] = items[k].charge /\ items[k].source \in sources /\ items[k].charge \in known
    BY <2>1 DEF Facts, Allocations, RowIds
  <2> QED  BY <2>2, <2>3
<1>3. AppliedRows(items) \in [1..Len(items) -> Allocations]  
  <2>1. DOMAIN AppliedRows(items) = 1..Len(items)
        /\ AppliedRows(items) = [k \in 1..Len(items) |-> AppliedRows(items)[k]]  BY <1>1 DEF AppliedRows
  <2> QED  BY <1>2, <2>1
<1> QED  BY <1>1, <1>2, <1>3, SeqDef, LenProperties

\* What is applied adds up to the amounts of the items.
LEMMA AppliedTotals ==
    ASSUME NEW sources, NEW known, RowIds(sources, known),
           NEW items \in Seq(Facts(sources, known)), NEW column \in {"source", "charge"}, NEW id
    PROVE  /\ Total(AppliedRows(items), column, id) = Amounts(items, column, id)
           /\ Amounts(items, column, id) \in Int
           /\ (\A k \in DOMAIN items : items[k][column] # id) => Amounts(items, column, id) = 0
<1> DEFINE rows == AppliedRows(items)
<1>1. DOMAIN items = 1..Len(items) /\ \A k \in 1..Len(items) : items[k] \in Facts(sources, known)
  BY LenProperties
<1>2. rows \in Seq(Allocations) /\ Len(rows) = Len(items) /\ DOMAIN rows = DOMAIN items
  <2>1. rows \in Seq(Allocations) /\ Len(rows) = Len(items)
    <3>1. AppliedRows(items) \in Seq(Allocations)  BY AppliedRowsType
    <3>2. rows \in Seq(Allocations)  BY <3>1
    <3>3. DOMAIN rows = 1..Len(items) /\ Len(items) \in Nat  BY <1>1, LenProperties DEF AppliedRows
    <3> HIDE DEF rows
    <3> QED  BY <3>2, <3>3, LenProperties
  <2>2. DOMAIN rows = DOMAIN items  BY DEF AppliedRows
  <2> QED  BY <2>1, <2>2
<1>3. ASSUME NEW k \in DOMAIN items
      PROVE  rows[k][column] = items[k][column] /\ Signed(rows[k]) = items[k].amount
  <2> DEFINE row == [source |-> items[k].source, charge |-> items[k].charge, amount |-> items[k].amount,
                     override |-> items[k].override, reverses |-> 0]
  <2>1. rows[k] = row  BY DEF AppliedRows
  <2>2. row["source"] = items[k].source /\ row["charge"] = items[k].charge
        /\ row.amount = items[k].amount /\ row.reverses = 0  OBVIOUS
  <2>3. items[k].source = items[k]["source"] /\ items[k].charge = items[k]["charge"]  BY <1>1 DEF Facts
  <2> QED  BY <2>1, <2>2, <2>3 DEF Signed
<1> HIDE DEF rows
<1>4. [i \in DOMAIN rows |-> IF rows[i][column] = id THEN Signed(rows[i]) ELSE 0]
      = [k \in DOMAIN items |-> IF items[k][column] = id THEN items[k].amount ELSE 0]
  BY <1>2, <1>3
<1>5. Total(rows, column, id) = Amounts(items, column, id)  BY <1>4 DEF Total, Amounts
<1>6. Total(rows, column, id) \in Int  BY <1>2, RowTypes, TotalType
<1>7. ASSUME \A k \in DOMAIN items : items[k][column] # id PROVE Total(rows, column, id) = 0
  <2>1. \A k \in 1..Len(rows) : rows[k][column] # id  BY <1>1, <1>2, <1>3, <1>7
  <2> QED  BY <1>2, <2>1, RowTypes, TotalOfOthers
<1> QED  BY <1>5, <1>6, <1>7 DEF rows

\* The tables with reversals, and the keys a reversal copies.
Reversibles(R, columns) ==
    \/ R = Allocations /\ columns = {"source", "charge"}
    \/ R = Returns /\ columns = {"source", "refund"}

LEMMA ReversalsType ==
    ASSUME NEW R, NEW columns,
           Reversibles(R, columns),
           NEW rows \in Seq(R), NEW ids, Takable(rows, ids)
    PROVE  /\ Reversals(rows, ids) \in Seq(R) /\ Len(Reversals(rows, ids)) = Len(ids)
           /\ DOMAIN ids = 1..Len(ids) /\ Len(ids) \in Nat
           /\ \A k \in 1..Len(ids) :
                 /\ ids[k] \in DOMAIN rows
                 /\ Reversals(rows, ids)[k].reverses = ids[k] /\ ids[k] # 0
                 /\ Reversals(rows, ids)[k].amount = rows[ids[k]].amount
                 /\ \A column \in columns :
                       Reversals(rows, ids)[k][column] = rows[ids[k]][column]
<1>1. ids \in Seq(DOMAIN rows) /\ DOMAIN ids = 1..Len(ids) /\ Len(ids) \in Nat
      /\ \A k \in 1..Len(ids) : ids[k] \in DOMAIN rows
  BY LenProperties DEF Takable
<1>2. DOMAIN rows = 1..Len(rows) /\ Len(rows) \in Nat /\ \A i \in DOMAIN rows : rows[i] \in R  BY LenProperties
<1>3. ASSUME NEW k \in 1..Len(ids)
      PROVE  /\ Reversals(rows, ids)[k] \in R
             /\ Reversals(rows, ids)[k].reverses = ids[k] /\ ids[k] # 0
             /\ Reversals(rows, ids)[k].amount = rows[ids[k]].amount
             /\ \A column \in columns :
                   Reversals(rows, ids)[k][column] = rows[ids[k]][column]
  <2> DEFINE row == rows[ids[k]]
             new == [row EXCEPT !.reverses = ids[k]]
  <2>1. row \in R /\ ids[k] \in Nat /\ ids[k] # 0  BY <1>1, <1>2
  <2>2. Reversals(rows, ids)[k] = new  BY <1>1 DEF Reversals, Reversal
  <2> HIDE DEF row
  <2>3. new \in R /\ new.reverses = ids[k] /\ new.amount = row.amount
        /\ \A column \in columns : new[column] = row[column]
    <3>1. CASE R = Allocations /\ columns = {"source", "charge"}  BY <2>1, <3>1 DEF Allocations
    <3>2. CASE R = Returns /\ columns = {"source", "refund"}  BY <2>1, <3>2 DEF Returns
    <3> QED  BY <3>1, <3>2 DEF Reversibles
  <2> QED  BY <2>1, <2>2, <2>3 DEF row
<1>4. Reversals(rows, ids) \in [1..Len(ids) -> R]
  <2>1. Reversals(rows, ids) = [k \in 1..Len(ids) |-> Reversals(rows, ids)[k]]  BY <1>1 DEF Reversals
  <2> QED  BY <1>3, <2>1
<1>5. Reversals(rows, ids) \in Seq(R) /\ Len(Reversals(rows, ids)) = Len(ids)
  <2> DEFINE r == Reversals(rows, ids)
  <2>1. r \in [1..Len(ids) -> R]  BY <1>4
  <2> HIDE DEF r
  <2>2. r \in Seq(R)
    <3>1. Len(ids) \in Nat  BY <1>1
    <3> QED  BY <2>1, <3>1, SeqDef
  <2>3. DOMAIN r = 1..Len(ids)  BY <2>1
  <2>4. Len(r) = Len(ids)  BY <1>1, <2>2, <2>3, LenProperties
  <2> QED  BY <2>2, <2>4 DEF r
<1> QED  BY <1>1, <1>3, <1>5

LEMMA ShapedTables ==
    ASSUME NEW L, Shaped(L)
    PROVE  /\ L \in Ledgers
           /\ DOMAIN L.receipts \in SUBSET (Nat \ {0}) /\ DOMAIN L.charges \in SUBSET (Nat \ {0})
           /\ DOMAIN L.refunds \in SUBSET (Nat \ {0})
           /\ DOMAIN L.charges = 1..Len(L.charges) /\ DOMAIN L.receipts = 1..Len(L.receipts)
           /\ DOMAIN L.refunds = 1..Len(L.refunds) /\ DOMAIN L.allocations = 1..Len(L.allocations)
           /\ DOMAIN L.returns = 1..Len(L.returns) /\ DOMAIN L.adjustments = 1..Len(L.adjustments)
<1>1. L \in Ledgers  BY DEF Shaped
<1> QED  BY <1>1, LedgerTables

\* A stage leaves the tables in shape: reversals of live allocations,
LEMMA StageReversed ==
    ASSUME NEW L, Shaped(L), NEW ids, Takable(L.allocations, ids)
    PROVE  /\ Shaped(Reversed(L, ids)) /\ SameBut(Reversed(L, ids), L, {"allocations"})
           /\ Reversed(L, ids).allocations = L.allocations \o Reversals(L.allocations, ids)
           /\ Reversals(L.allocations, ids) \in Seq(Allocations)
<1> DEFINE rows == L.allocations
           more == Reversals(rows, ids)
           M == Reversed(L, ids)
<1>1. L \in Ledgers /\ rows \in Seq(Allocations)  BY LedgerTables DEF Shaped
<1>2. /\ more \in Seq(Allocations) /\ Len(more) = Len(ids)
      /\ \A k \in 1..Len(ids) : more[k].reverses = ids[k] /\ more[k]["source"] = rows[ids[k]]["source"]
            /\ more[k]["charge"] = rows[ids[k]]["charge"] /\ more[k].amount = rows[ids[k]].amount
  <2> HIDE DEF rows
  <2>1. Takable(rows, ids)  BY DEF rows
  <2> DEFINE keys == {"source", "charge"}
  <2>2. Reversibles(Allocations, keys) /\ "source" \in keys /\ "charge" \in keys  BY DEF Reversibles
  <2> HIDE DEF keys
  <2>3. /\ more \in Seq(Allocations) /\ Len(more) = Len(ids)
        /\ \A k \in 1..Len(ids) : more[k].reverses = ids[k] /\ more[k].amount = rows[ids[k]].amount
              /\ \A column \in keys : more[k][column] = rows[ids[k]][column]
    BY <1>1, <2>1, <2>2, ReversalsType
  <2> QED  BY <2>2, <2>3
<1>3. RowsShaped(rows \o more, DOMAIN L.receipts, "charge", DOMAIN L.charges)
  <2>1. Linked(rows, "source", DOMAIN L.receipts, "charge", DOMAIN L.charges) /\ ReversedOnce(rows)
    BY DEF Shaped, RowsShaped
  <2> HIDE DEF rows
  <2>2. Takable(rows, ids)  BY DEF rows
  <2>3. Linked(rows \o more, "source", DOMAIN L.receipts, "charge", DOMAIN L.charges) /\ ReversedOnce(rows \o more)
    BY <1>1, <1>2, <2>1, <2>2, LinkedReversed
  <2> QED  BY <2>3 DEF RowsShaped
<1>4. rows \o more \in Seq(Allocations)  BY <1>1, <1>2, ConcatProperties
<1>5. M = [L EXCEPT !.allocations = rows \o more]  BY DEF Reversed, Reversals
<1> HIDE DEF more, M
<1>6. M \in Ledgers /\ M.allocations = rows \o more /\ SameBut(M, L, {"allocations"})
  BY <1>1, <1>4, <1>5, TableSet
<1>7. Shaped(M)  BY <1>3, <1>6 DEF Shaped, SameBut
<1> QED  BY <1>2, <1>6, <1>7 DEF more, M

\* items applied,
LEMMA StageApplied ==
    ASSUME NEW L, Shaped(L), NEW items \in Seq(Facts(DOMAIN L.receipts, DOMAIN L.charges))
    PROVE  /\ Shaped(Applied(L, items)) /\ SameBut(Applied(L, items), L, {"allocations"})
           /\ Applied(L, items).allocations = L.allocations \o AppliedRows(items)
           /\ AppliedRows(items) \in Seq(Allocations)
<1> DEFINE rows == L.allocations
           more == AppliedRows(items)
           M == Applied(L, items)
<1>1. L \in Ledgers /\ rows \in Seq(Allocations)  BY LedgerTables DEF Shaped
<1>2. DOMAIN L.receipts \in SUBSET (Nat \ {0}) /\ DOMAIN L.charges \in SUBSET (Nat \ {0})  BY ShapedTables
<1>3. /\ more \in Seq(Allocations) /\ Len(more) = Len(items)
      /\ \A k \in 1..Len(items) : more[k].reverses = 0 /\ more[k]["source"] \in DOMAIN L.receipts
            /\ more[k]["charge"] \in DOMAIN L.charges
  <2> DEFINE S == DOMAIN L.receipts
             K == DOMAIN L.charges
  <2>1. RowIds(S, K) /\ items \in Seq(Facts(S, K))  BY <1>2 DEF RowIds
  <2> HIDE DEF S, K
  <2>2. /\ more \in Seq(Allocations) /\ Len(more) = Len(items)
        /\ \A k \in 1..Len(items) : more[k].reverses = 0 /\ more[k]["source"] \in S /\ more[k]["charge"] \in K
    BY <2>1, AppliedRowsType
  <2> QED  BY <2>2 DEF S, K
<1> HIDE DEF more
<1>4. RowsShaped(rows \o more, DOMAIN L.receipts, "charge", DOMAIN L.charges)
  <2>1. Linked(rows, "source", DOMAIN L.receipts, "charge", DOMAIN L.charges) /\ ReversedOnce(rows)
    BY DEF Shaped, RowsShaped
  <2> HIDE DEF rows
  <2>2. Linked(rows \o more, "source", DOMAIN L.receipts, "charge", DOMAIN L.charges) /\ ReversedOnce(rows \o more)
    BY <1>1, <1>3, <2>1, LinkedApplied
  <2> QED  BY <2>2 DEF RowsShaped
<1>5. rows \o more \in Seq(Allocations)  BY <1>1, <1>3, ConcatProperties
<1>6. M = [L EXCEPT !.allocations = rows \o more]  BY DEF Applied, AppliedRows, more
<1> HIDE DEF M
<1>7. M \in Ledgers /\ M.allocations = rows \o more /\ SameBut(M, L, {"allocations"})
  BY <1>1, <1>5, <1>6, TableSet
<1>8. Shaped(M)  BY <1>4, <1>7 DEF Shaped, SameBut
<1> QED  BY <1>3, <1>7, <1>8 DEF more, M

\* and any one table replaced by a shaped one that keeps what others name.
LEMMA StageReceipts ==
    ASSUME NEW L, Shaped(L), NEW t, ReceiptsShaped(t), DOMAIN L.receipts \subseteq DOMAIN t
    PROVE  LET M == [L EXCEPT !.receipts = t]
           IN Shaped(M) /\ M.receipts = t /\ SameBut(M, L, {"receipts"})
<1> DEFINE M == [L EXCEPT !.receipts = t]
<1>1. L \in Ledgers /\ t \in Seq(Receipts)  BY DEF Shaped, ReceiptsShaped
<1>2. M \in Ledgers /\ M.receipts = t /\ SameBut(M, L, {"receipts"})  BY <1>1, TableSet
<1> HIDE DEF M
<1>3. RowsShaped(L.allocations, DOMAIN t, "charge", DOMAIN L.charges)
      /\ RowsShaped(L.returns, DOMAIN t, "refund", DOMAIN L.refunds)
  BY LinkedMore DEF Shaped, RowsShaped
<1>4. Shaped(M)  BY <1>2, <1>3 DEF Shaped, SameBut
<1> QED  BY <1>2, <1>4 DEF M

LEMMA StageCharges ==
    ASSUME NEW L, Shaped(L), NEW t \in Seq(Charges), DOMAIN t = DOMAIN L.charges
    PROVE  LET M == [L EXCEPT !.charges = t]
           IN Shaped(M) /\ M.charges = t /\ SameBut(M, L, {"charges"})
<1> DEFINE M == [L EXCEPT !.charges = t]
<1>1. L \in Ledgers  BY DEF Shaped
<1>2. M \in Ledgers /\ M.charges = t /\ SameBut(M, L, {"charges"})  BY <1>1, TableSet
<1> HIDE DEF M
<1>3. Shaped(M)  BY <1>2 DEF Shaped, SameBut
<1> QED  BY <1>2, <1>3 DEF M

LEMMA StageAdjustments ==
    ASSUME NEW L, Shaped(L), NEW t, AdjustmentsShaped(t, DOMAIN L.charges)
    PROVE  LET M == [L EXCEPT !.adjustments = t]
           IN Shaped(M) /\ M.adjustments = t /\ SameBut(M, L, {"adjustments"})
<1> DEFINE M == [L EXCEPT !.adjustments = t]
<1>1. L \in Ledgers /\ t \in Seq(Adjustments)  BY DEF Shaped, AdjustmentsShaped
<1>2. M \in Ledgers /\ M.adjustments = t /\ SameBut(M, L, {"adjustments"})  BY <1>1, TableSet
<1> HIDE DEF M
<1>3. Shaped(M)  BY <1>2 DEF Shaped, SameBut
<1> QED  BY <1>2, <1>3 DEF M

LEMMA StageRefunds ==
    ASSUME NEW L, Shaped(L), NEW t, RefundsShaped(t), DOMAIN L.refunds \subseteq DOMAIN t
    PROVE  LET M == [L EXCEPT !.refunds = t]
           IN Shaped(M) /\ M.refunds = t /\ SameBut(M, L, {"refunds"})
<1> DEFINE M == [L EXCEPT !.refunds = t]
<1>1. L \in Ledgers /\ t \in Seq(Refunds)  BY DEF Shaped, RefundsShaped
<1>2. M \in Ledgers /\ M.refunds = t /\ SameBut(M, L, {"refunds"})  BY <1>1, TableSet
<1> HIDE DEF M
<1>3. RowsShaped(L.returns, DOMAIN L.receipts, "refund", DOMAIN t)
  BY LinkedMore DEF Shaped, RowsShaped
<1>4. Shaped(M)  BY <1>2, <1>3 DEF Shaped, SameBut
<1> QED  BY <1>2, <1>4 DEF M

LEMMA StageReturns ==
    ASSUME NEW L, Shaped(L), NEW t \in Seq(Returns),
           RowsShaped(t, DOMAIN L.receipts, "refund", DOMAIN L.refunds)
    PROVE  LET M == [L EXCEPT !.returns = t]
           IN Shaped(M) /\ M.returns = t /\ SameBut(M, L, {"returns"})
<1> DEFINE M == [L EXCEPT !.returns = t]
<1>1. L \in Ledgers  BY DEF Shaped
<1>2. M \in Ledgers /\ M.returns = t /\ SameBut(M, L, {"returns"})  BY <1>1, TableSet
<1> HIDE DEF M
<1>3. Shaped(M)  BY <1>2 DEF Shaped, SameBut
<1> QED  BY <1>2, <1>3 DEF M

----------------------------------------------------------------------------
(* The balances                                                            *)

ChargeSound(L, c) ==
    Adjusted(L, c) >= 0 /\ Effective(L, c) <= BigintMax /\ Paid(L, c) >= 0 /\ Balance(L, c) >= 0
SourceSound(L, s) == Used(L, s) >= 0 /\ Returned(L, s) >= 0 /\ Available(L, s) >= 0

LEMMA BalancedMeans ==
    ASSUME NEW L
    PROVE  Balanced(L) <=> /\ \A c \in DOMAIN L.charges : ChargeSound(L, c)
                           /\ \A s \in DOMAIN L.receipts : SourceSound(L, s)
BY DEF Balanced, ChargeSound, SourceSound

AdjustedBy(adjustments, c) ==
    Sum([i \in DOMAIN adjustments |-> IF adjustments[i].charge = c THEN adjustments[i].delta ELSE 0])

LEMMA AdjustedByType ==
    ASSUME NEW adjustments \in Seq(Adjustments), NEW c
    PROVE  LET part == [i \in DOMAIN adjustments |->
                           IF adjustments[i].charge = c THEN adjustments[i].delta ELSE 0]
           IN part \in Seq(Int) /\ Len(part) = Len(adjustments) /\ AdjustedBy(adjustments, c) \in Int
<1> DEFINE part == [i \in DOMAIN adjustments |->
                      IF adjustments[i].charge = c THEN adjustments[i].delta ELSE 0]
<1>0. DOMAIN adjustments = 1..Len(adjustments) /\ Len(adjustments) \in Nat
      /\ \A i \in DOMAIN adjustments : adjustments[i] \in Adjustments
  BY LenProperties
<1>1. DOMAIN adjustments = 1..Len(adjustments) /\ Len(adjustments) \in Nat
      /\ \A i \in DOMAIN adjustments : adjustments[i].delta \in Int
  BY <1>0 DEF Adjustments
<1>2. part \in [1..Len(adjustments) -> Int]  BY <1>1
<1>3. part \in Seq(Int) /\ Len(part) = Len(adjustments)
  <2> HIDE DEF part
  <2> QED  BY <1>1, <1>2, SeqDef, LenProperties
<1>4. Sum(part) \in Int  BY <1>3, SumType
<1> QED  BY <1>3, <1>4 DEF AdjustedBy

LEMMA AdjustedByAppended ==
    ASSUME NEW adjustments \in Seq(Adjustments), NEW new \in Seq(Adjustments),
           Len(new) = Len(adjustments) + 1, \A i \in 1..Len(adjustments) : new[i] = adjustments[i], NEW c
    PROVE  AdjustedBy(new, c) =
              AdjustedBy(adjustments, c) + (IF new[Len(new)].charge = c THEN new[Len(new)].delta ELSE 0)
<1> DEFINE a == [i \in DOMAIN adjustments |->
                      IF adjustments[i].charge = c THEN adjustments[i].delta ELSE 0]
           b == [i \in DOMAIN new |-> IF new[i].charge = c THEN new[i].delta ELSE 0]
           n == Len(adjustments)
<1>1. a \in Seq(Int) /\ Len(a) = n  BY AdjustedByType
<1>2. b \in Seq(Int) /\ Len(b) = n + 1  BY AdjustedByType
<1>3. DOMAIN adjustments = 1..n /\ DOMAIN new = 1..(n+1) /\ n \in Nat  BY LenProperties
<1>4. \A i \in 1..n : b[i] = a[i]  BY <1>3
<1>5. b[n+1] = IF new[n+1].charge = c THEN new[n+1].delta ELSE 0  BY <1>3
<1>6. AdjustedBy(adjustments, c) = Sum(a) /\ AdjustedBy(new, c) = Sum(b)  BY DEF AdjustedBy
<1> HIDE DEF a, b
<1>7. Sum(b) = Sum(a) + b[Len(b)]  BY <1>1, <1>2, <1>4, SumAppended
<1> QED  BY <1>2, <1>5, <1>6, <1>7

LEMMA AmountTypes ==
    ASSUME NEW L, Shaped(L)
    PROVE  /\ \A c \in DOMAIN L.charges :
                 /\ Adjusted(L, c) = L.charges[c].original + AdjustedBy(L.adjustments, c)
                 /\ Adjusted(L, c) \in Int /\ Effective(L, c) \in Int /\ Paid(L, c) \in Int
           /\ \A s \in DOMAIN L.receipts :
                 Used(L, s) \in Int /\ Returned(L, s) \in Int /\ Worth(L.receipts[s]) \in Nat
           /\ \A r \in DOMAIN L.refunds : RefundTotal(L, r) \in Int /\ Worth(L.refunds[r]) \in Nat
<1>1. L \in Ledgers /\ L.allocations \in Seq(Allocations) /\ L.returns \in Seq(Returns)
      /\ L.adjustments \in Seq(Adjustments) /\ L.charges \in Seq(Charges)
      /\ L.receipts \in Seq(Receipts) /\ L.refunds \in Seq(Refunds)
  BY LedgerTables DEF Shaped
<1>2. ASSUME NEW c \in DOMAIN L.charges
      PROVE  /\ Adjusted(L, c) = L.charges[c].original + AdjustedBy(L.adjustments, c)
             /\ Adjusted(L, c) \in Int /\ Effective(L, c) \in Int /\ Paid(L, c) \in Int
  <2>1. L.charges[c] \in Charges  BY <1>1, LenProperties
  <2>2. L.charges[c].original \in Int  BY <2>1, RowTypes DEF Charges
  <2>3. AdjustedBy(L.adjustments, c) \in Int  BY <1>1, AdjustedByType
  <2>4. Adjusted(L, c) = L.charges[c].original + AdjustedBy(L.adjustments, c)  BY DEF Adjusted, AdjustedBy
  <2>5. Adjusted(L, c) \in Int  BY <2>2, <2>3, <2>4
  <2>6. Paid(L, c) \in Int  BY <1>1, RowTypes, TotalType DEF Paid
  <2> QED  BY <2>4, <2>5, <2>6 DEF Effective
<1>3. ASSUME NEW s \in DOMAIN L.receipts
      PROVE  Used(L, s) \in Int /\ Returned(L, s) \in Int /\ Worth(L.receipts[s]) \in Nat
  <2>1. L.receipts[s] \in Receipts /\ L.receipts[s].revisions # <<>>
    BY <1>1, LenProperties DEF Shaped, ReceiptsShaped
  <2>2. Used(L, s) \in Int  BY <1>1, RowTypes, TotalType DEF Used
  <2>3. Returned(L, s) \in Int  BY <1>1, RowTypes, TotalType DEF Returned
  <2> QED  BY <2>1, <2>2, <2>3, WorthType
<1>4. ASSUME NEW r \in DOMAIN L.refunds
      PROVE  RefundTotal(L, r) \in Int /\ Worth(L.refunds[r]) \in Nat
  <2>1. L.refunds[r] \in Refunds /\ L.refunds[r].revisions # <<>>
    BY <1>1, LenProperties DEF Shaped, RefundsShaped
  <2>2. RefundTotal(L, r) \in Int  BY <1>1, RowTypes, TotalType DEF RefundTotal
  <2> QED  BY <2>1, <2>2, WorthType
<1> QED  BY <1>2, <1>3, <1>4

\* What require_finance_balances accepts is sound.
LEMMA FinishedSources ==
    ASSUME NEW L, Shaped(L), NEW charges, NEW sources, Finished(L, charges, sources),
           NEW s \in DOMAIN L.receipts, s \in sources
    PROVE  SourceSound(L, s)
<1>1. Used(L, s) \in Int /\ Returned(L, s) \in Int /\ Worth(L.receipts[s]) \in Int  BY AmountTypes
<1> QED  BY <1>1 DEF Finished, SourceSound, Available

LEMMA FinishedCharges ==
    ASSUME NEW L, Shaped(L), NEW charges, NEW sources, Finished(L, charges, sources),
           NEW c \in DOMAIN L.charges, c \in charges, Adjusted(L, c) >= 0, Effective(L, c) <= BigintMax
    PROVE  ChargeSound(L, c)
<1>1. Paid(L, c) \in Int /\ Effective(L, c) \in Int  BY AmountTypes
<1>2. Paid(L, c) \in 0..Effective(L, c)  BY DEF Finished
<1> QED  BY <1>1, <1>2 DEF ChargeSound, Balance

\* What a stage leaves alone stays sound.
LEMMA ChargeKept ==
    ASSUME NEW L, NEW M, NEW c, ChargeSound(L, c), M.charges[c] = L.charges[c],
           Adjusted(M, c) = Adjusted(L, c), Paid(M, c) = Paid(L, c)
    PROVE  ChargeSound(M, c)
BY DEF ChargeSound, Effective, Balance

LEMMA SourceKept ==
    ASSUME NEW L, NEW M, NEW s, SourceSound(L, s), Worth(M.receipts[s]) = Worth(L.receipts[s]),
           Used(M, s) = Used(L, s), Returned(M, s) = Returned(L, s)
    PROVE  SourceSound(M, s)
BY DEF SourceSound, Available

RefundsMatch(L) == \A r \in DOMAIN L.refunds : RefundTotal(L, r) = Worth(L.refunds[r])

\* Everything rent_check_ledger asks but the attributions.
Sound(L) == Shaped(L) /\ Balanced(L) /\ RefundsMatch(L)

Attribution == "RENT_ATTRIBUTION_CONFIRMATION_REQUIRED"

\* Of a sound ledger the deferred check can refuse the attributions only.
LEMMA SoundPasses ==
    ASSUME NEW L, Sound(L)
    PROVE  Broken(L) \subseteq {Attribution}
<1>1. ReplacesReversed(L)  BY DEF Sound, Shaped, ReceiptsShaped, ReplacesReversed
<1>2. AdjustmentsReversedOnce(L)
  BY DEF Sound, Shaped, AdjustmentsShaped, AdjustmentsReversedOnce
<1>3. ReversedOnce(L.allocations) /\ ReversedOnce(L.returns)  BY DEF Sound, Shaped, RowsShaped
<1>4. (\A m \in DOMAIN L.receipts : RevisionsFollow(L.receipts[m]))
      /\ (\A r \in DOMAIN L.refunds : RevisionsFollow(L.refunds[r]))
  BY DEF Sound, Shaped, ReceiptsShaped, RefundsShaped
<1>5. Balanced(L) /\ \A r \in DOMAIN L.refunds : RefundTotal(L, r) = Worth(L.refunds[r])
  BY DEF Sound, RefundsMatch
<1>6. ASSUME NEW check \in Checks, check # Attribution PROVE Holds(L, check)
  BY <1>1, <1>2, <1>3, <1>4, <1>5, <1>6 DEF Checks, Holds, Attribution
<1> QED  BY <1>6 DEF Broken

\* A ledger that passed the deferred check is sound and attributed: the one the commands start from.
LEMMA PassedIsSound ==
    ASSUME NEW L \in Ledgers, Keyed(L), Broken(L) = {}
    PROVE  Sound(L) /\ Attributed(L)
<1>1. \A check \in Checks : Holds(L, check)  BY DEF Broken
<1>2. ReplacesReversed(L)
  <2>1. Holds(L, "RENT_REPLACEMENT_REQUIRES_REVERSED_IN")  BY <1>1 DEF Checks
  <2> QED  BY <2>1 DEF Holds
<1>3. AdjustmentsReversedOnce(L)
  <2>1. Holds(L, "RENT_ADJUSTMENT_REVERSAL_MISMATCH")  BY <1>1 DEF Checks
  <2> QED  BY <2>1 DEF Holds
<1>4. ReversedOnce(L.allocations) /\ ReversedOnce(L.returns)
  <2>1. Holds(L, "RENT_REVERSAL_TARGET_INVALID")  BY <1>1 DEF Checks
  <2> QED  BY <2>1 DEF Holds
<1>5. (\A m \in DOMAIN L.receipts : RevisionsFollow(L.receipts[m]))
      /\ (\A r \in DOMAIN L.refunds : RevisionsFollow(L.refunds[r]))
  <2>1. Holds(L, "RENT_MOVEMENT_REVERSAL_MISMATCH")  BY <1>1 DEF Checks
  <2> QED  BY <2>1 DEF Holds
<1>6. Attributed(L)
  <2>1. Holds(L, "RENT_ATTRIBUTION_CONFIRMATION_REQUIRED")  BY <1>1 DEF Checks
  <2> QED  BY <2>1 DEF Holds
<1>7. Balanced(L)
  <2>1. Holds(L, "RENT_BALANCE_INVARIANT")  BY <1>1 DEF Checks
  <2> QED  BY <2>1 DEF Holds
<1>8. RefundsMatch(L)
  <2>1. Holds(L, "RENT_RETURN_OUT_TOTAL_MISMATCH")  BY <1>1 DEF Checks
  <2> QED  BY <2>1 DEF Holds, RefundsMatch
<1>9. L.receipts \in Seq(Receipts) /\ L.refunds \in Seq(Refunds) /\ L.adjustments \in Seq(Adjustments)
  BY LedgerTables
<1>10. ReceiptsShaped(L.receipts)
  <2>1. \A m \in DOMAIN L.receipts : L.receipts[m].revisions # <<>>
           /\ (L.receipts[m].replaces # 0 => L.receipts[m].replaces \in DOMAIN L.receipts)
    BY DEF Keyed
  <2> QED  BY <1>2, <1>5, <1>9, <2>1 DEF ReceiptsShaped, ReplacesReversed
<1>11. RefundsShaped(L.refunds)  BY <1>5, <1>9 DEF RefundsShaped, Keyed
<1>12. AdjustmentsShaped(L.adjustments, DOMAIN L.charges)
  BY <1>3, <1>9 DEF AdjustmentsShaped, AdjustmentsReversedOnce, Keyed
<1>13. RowsShaped(L.allocations, DOMAIN L.receipts, "charge", DOMAIN L.charges)
       /\ RowsShaped(L.returns, DOMAIN L.receipts, "refund", DOMAIN L.refunds)
  BY <1>4 DEF RowsShaped, Keyed
<1> QED  BY <1>6, <1>7, <1>8, <1>10, <1>11, <1>12, <1>13 DEF Sound, Shaped

\* A command that finishes the charges and sources it touched.
LEMMA BalancedWhenFinished ==
    ASSUME NEW L, Shaped(L), Balanced(L), NEW N, Shaped(N), NEW charges, NEW sources,
           Finished(N, charges, sources),
           \A c \in DOMAIN N.charges : Adjusted(N, c) >= 0 /\ Effective(N, c) <= BigintMax,
           \A c \in DOMAIN N.charges : c \notin charges =>
              /\ c \in DOMAIN L.charges /\ N.charges[c] = L.charges[c]
              /\ Adjusted(N, c) = Adjusted(L, c) /\ Paid(N, c) = Paid(L, c),
           \A s \in DOMAIN N.receipts : s \notin sources =>
              /\ s \in DOMAIN L.receipts /\ Worth(N.receipts[s]) = Worth(L.receipts[s])
              /\ Used(N, s) = Used(L, s) /\ Returned(N, s) = Returned(L, s)
    PROVE  Balanced(N)
<1>1. ASSUME NEW c \in DOMAIN N.charges PROVE ChargeSound(N, c)
  <2>1. CASE c \in charges  BY <2>1, FinishedCharges
  <2>2. CASE c \notin charges
    <3>1. ChargeSound(L, c)  BY <2>2, BalancedMeans
    <3> QED  BY <2>2, <3>1, ChargeKept
  <2> QED  BY <2>1, <2>2
<1>2. ASSUME NEW s \in DOMAIN N.receipts PROVE SourceSound(N, s)
  <2>1. CASE s \in sources  BY <2>1, FinishedSources
  <2>2. CASE s \notin sources
    <3>1. SourceSound(L, s)  BY <2>2, BalancedMeans
    <3> QED  BY <2>2, <3>1, SourceKept
  <2> QED  BY <2>1, <2>2
<1> QED  BY <1>1, <1>2, BalancedMeans

LEMMA TotalKept ==
    ASSUME NEW R, Signable(R), NEW rows \in Seq(R), NEW more \in Seq(R), NEW column, NEW id,
           \A k \in 1..Len(more) : more[k][column] # id
    PROVE  Total(rows \o more, column, id) = Total(rows, column, id)
<1>1. Total(more, column, id) = 0  BY TotalOfOthers
<1>2. Total(rows, column, id) \in Int  BY TotalType
<1>3. Total(rows \o more, column, id) = Total(rows, column, id) + Total(more, column, id)  BY TotalConcat
<1> QED  BY <1>1, <1>2, <1>3

\* A correction's rows fit the ledger it was composed from.
LEMMA PlanFits ==
    ASSUME NEW L, Shaped(L), NEW plan \in Corrections(L)
    PROVE  /\ Takable(L.allocations, plan.reverse)
           /\ plan.apply \in Seq(Facts(DOMAIN L.receipts, DOMAIN L.charges))
<1>1. plan.reverse \in SeqsUpTo(DOMAIN L.allocations, MaxReversed) /\ Distinct(plan.reverse)
      /\ \A k \in DOMAIN plan.reverse : LiveReversible(L.allocations, plan.reverse[k])
  BY DEF Corrections
<1>2. plan.apply \in SeqsUpTo(Items(L, DOMAIN L.receipts), MaxItems)  BY DEF Corrections
<1>3. plan.reverse \in Seq(DOMAIN L.allocations)  BY <1>1, SeqsAreSeqs, BoundsAssumption
<1>4. plan.apply \in Seq(Items(L, DOMAIN L.receipts))  BY <1>2, SeqsAreSeqs, BoundsAssumption
<1>5. Items(L, DOMAIN L.receipts) \subseteq Facts(DOMAIN L.receipts, DOMAIN L.charges)  BY DEF Items, Facts
<1>6. plan.apply \in Seq(Facts(DOMAIN L.receipts, DOMAIN L.charges))  BY <1>4, <1>5, SeqMonotonic
<1> QED  BY <1>1, <1>3, <1>6 DEF Takable, LiveReversible

LEMMA PlanTouches ==
    ASSUME NEW L, Shaped(L), NEW plan \in Corrections(L)
    PROVE  /\ \A k \in 1..Len(plan.reverse) :
                 /\ L.allocations[plan.reverse[k]].charge \in ChargesOf(L, plan)
                 /\ L.allocations[plan.reverse[k]].source \in SourcesOf(L, plan)
           /\ \A k \in 1..Len(plan.apply) :
                 plan.apply[k].charge \in ChargesOf(L, plan) /\ plan.apply[k].source \in SourcesOf(L, plan)
<1>1. DOMAIN plan.reverse = 1..Len(plan.reverse) /\ DOMAIN plan.apply = 1..Len(plan.apply)
  BY PlanFits, LenProperties DEF Takable
<1>2. ASSUME NEW k \in 1..Len(plan.reverse)
      PROVE L.allocations[plan.reverse[k]] \in Originals(L, plan)
  BY <1>1 DEF Originals, Entries
<1>3. ASSUME NEW k \in 1..Len(plan.apply) PROVE plan.apply[k] \in Entries(plan.apply)
  BY <1>1 DEF Entries
<1> QED  BY <1>2, <1>3 DEF ChargesOf, SourcesOf

\* What the plan does not touch keeps what was paid, or used, whatever is
\* changed between its reversals and what it applies, if not the allocations.
LEMMA PlanStaged ==
    ASSUME NEW L, Shaped(L), NEW plan \in Corrections(L), NEW M, Shaped(M),
           M.allocations = Reversed(L, plan.reverse).allocations,
           DOMAIN L.receipts \subseteq DOMAIN M.receipts, DOMAIN L.charges \subseteq DOMAIN M.charges
    PROVE  /\ Shaped(Applied(M, plan.apply)) /\ SameBut(Applied(M, plan.apply), M, {"allocations"})
           /\ \A c : c \notin ChargesOf(L, plan) => Paid(Applied(M, plan.apply), c) = Paid(L, c)
           /\ \A s : s \notin SourcesOf(L, plan) => Used(Applied(M, plan.apply), s) = Used(L, s)
<1> DEFINE rows == L.allocations
           back == Reversals(rows, plan.reverse)
           more == AppliedRows(plan.apply)
           N == Applied(M, plan.apply)
<1>1. rows \in Seq(Allocations) /\ L \in Ledgers  BY LedgerTables DEF Shaped
<1>2. Takable(rows, plan.reverse) /\ plan.apply \in Seq(Facts(DOMAIN L.receipts, DOMAIN L.charges))
  BY PlanFits
<1>3. Facts(DOMAIN L.receipts, DOMAIN L.charges) \subseteq Facts(DOMAIN M.receipts, DOMAIN M.charges)
  BY DEF Facts
<1>4. plan.apply \in Seq(Facts(DOMAIN M.receipts, DOMAIN M.charges))  BY <1>2, <1>3, SeqMonotonic
<1>5. M.allocations = rows \o back /\ back \in Seq(Allocations)  BY <1>2, StageReversed
<1>6. Shaped(N) /\ SameBut(N, M, {"allocations"}) /\ N.allocations = (rows \o back) \o more
      /\ more \in Seq(Allocations)
  BY <1>4, <1>5, StageApplied
<1>7. rows \o back \in Seq(Allocations)  BY <1>1, <1>5, ConcatProperties
<1>8. \A k \in 1..Len(back) : back[k]["charge"] \in ChargesOf(L, plan) /\ back[k]["source"] \in SourcesOf(L, plan)
  <2> DEFINE keys == {"source", "charge"}
  <2>1. Reversibles(Allocations, keys) /\ "source" \in keys /\ "charge" \in keys  BY DEF Reversibles
  <2> HIDE DEF keys
  <2>2. /\ Len(back) = Len(plan.reverse)
        /\ \A k \in 1..Len(plan.reverse) :
              /\ plan.reverse[k] \in DOMAIN rows
              /\ \A column \in keys : back[k][column] = rows[plan.reverse[k]][column]
    <3> DEFINE ids == plan.reverse
    <3>1. Takable(rows, ids)  BY <1>2
    <3> HIDE DEF ids, rows
    <3>2. /\ Len(Reversals(rows, ids)) = Len(ids)
          /\ \A k \in 1..Len(ids) :
                /\ ids[k] \in DOMAIN rows
                /\ \A column \in keys : Reversals(rows, ids)[k][column] = rows[ids[k]][column]
      BY <1>1, <2>1, <3>1, ReversalsType
    <3> QED  BY <3>2 DEF ids
  <2>3. ASSUME NEW k \in 1..Len(plan.reverse)
        PROVE  rows[plan.reverse[k]]["charge"] \in ChargesOf(L, plan)
               /\ rows[plan.reverse[k]]["source"] \in SourcesOf(L, plan)
    <3>1. rows[plan.reverse[k]] \in Allocations  BY <1>1, <2>2, LenProperties
    <3>2. rows[plan.reverse[k]]["charge"] = rows[plan.reverse[k]].charge
          /\ rows[plan.reverse[k]]["source"] = rows[plan.reverse[k]].source  BY <3>1 DEF Allocations
    <3> QED  BY <3>2, PlanTouches
  <2> HIDE DEF back, rows
  <2> QED  BY <2>1, <2>2, <2>3
<1>9. \A k \in 1..Len(more) : more[k]["charge"] \in ChargesOf(L, plan) /\ more[k]["source"] \in SourcesOf(L, plan)
  <2> DEFINE S == DOMAIN L.receipts
             K == DOMAIN L.charges
             items == plan.apply
  <2>1. RowIds(S, K) /\ items \in Seq(Facts(S, K))  BY <1>2, ShapedTables DEF RowIds
  <2>2. \A k \in 1..Len(items) : items[k].charge \in ChargesOf(L, plan) /\ items[k].source \in SourcesOf(L, plan)
    BY PlanTouches
  <2> HIDE DEF S, K, items
  <2>3. /\ Len(AppliedRows(items)) = Len(items)
        /\ \A k \in 1..Len(items) : AppliedRows(items)[k]["source"] = items[k].source
                                    /\ AppliedRows(items)[k]["charge"] = items[k].charge
    BY <2>1, AppliedRowsType
  <2>4. more = AppliedRows(items)  BY DEF items
  <2> HIDE DEF more
  <2> QED  BY <2>2, <2>3, <2>4
<1> HIDE DEF rows, back, more, N
<1>10. ASSUME NEW c, c \notin ChargesOf(L, plan) PROVE Paid(N, c) = Paid(L, c)
  <2>1. Total(rows \o back, "charge", c) = Total(rows, "charge", c)
    BY <1>1, <1>5, <1>8, <1>10, RowTypes, TotalKept
  <2>2. Total((rows \o back) \o more, "charge", c) = Total(rows \o back, "charge", c)
    <3> DEFINE both == rows \o back
    <3>1. both \in Seq(Allocations) /\ more \in Seq(Allocations) /\ Signable(Allocations)
          /\ \A k \in 1..Len(more) : more[k]["charge"] # c
      BY <1>6, <1>7, <1>9, <1>10, RowTypes
    <3> HIDE DEF both
    <3>2. Total(both \o more, "charge", c) = Total(both, "charge", c)  BY <3>1, TotalKept
    <3> QED  BY <3>2 DEF both
  <2> QED  BY <1>6, <2>1, <2>2 DEF Paid, rows
<1>11. ASSUME NEW s, s \notin SourcesOf(L, plan) PROVE Used(N, s) = Used(L, s)
  <2>1. Total(rows \o back, "source", s) = Total(rows, "source", s)
    BY <1>1, <1>5, <1>8, <1>11, RowTypes, TotalKept
  <2>2. Total((rows \o back) \o more, "source", s) = Total(rows \o back, "source", s)
    <3> DEFINE both == rows \o back
    <3>1. both \in Seq(Allocations) /\ more \in Seq(Allocations) /\ Signable(Allocations)
          /\ \A k \in 1..Len(more) : more[k]["source"] # s
      BY <1>6, <1>7, <1>9, <1>11, RowTypes
    <3> HIDE DEF both
    <3>2. Total(both \o more, "source", s) = Total(both, "source", s)  BY <3>1, TotalKept
    <3> QED  BY <3>2 DEF both
  <2> QED  BY <1>6, <2>1, <2>2 DEF Used, rows
<1> QED  BY <1>6, <1>10, <1>11 DEF N

----------------------------------------------------------------------------
(* The corrections: what each command stages is sound                      *)

Outcome == \E staged : Sound(staged) /\ Room(staged) /\ Commit(staged)

LEMMA SoundAmounts ==
    ASSUME NEW L, Sound(L), NEW c \in DOMAIN L.charges
    PROVE  Adjusted(L, c) >= 0 /\ Effective(L, c) <= BigintMax
BY BalancedMeans DEF Sound, ChargeSound

\* A correction that finishes what it touched is sound.
LEMMA SoundWhenFinished ==
    ASSUME NEW L, Sound(L), NEW N, Shaped(N), N.refunds = L.refunds, N.returns = L.returns,
           NEW charges, NEW sources, Finished(N, charges, sources),
           DOMAIN N.charges = DOMAIN L.charges,
           \A c \in DOMAIN L.charges : Adjusted(N, c) >= 0 /\ Effective(N, c) <= BigintMax,
           \A c \in DOMAIN L.charges : c \notin charges =>
              N.charges[c] = L.charges[c] /\ Adjusted(N, c) = Adjusted(L, c) /\ Paid(N, c) = Paid(L, c),
           \A s \in DOMAIN N.receipts : s \notin sources =>
              /\ s \in DOMAIN L.receipts /\ Worth(N.receipts[s]) = Worth(L.receipts[s])
              /\ Used(N, s) = Used(L, s)
    PROVE  Sound(N)
<1>1. Shaped(L) /\ Balanced(L)  BY DEF Sound
<1>2. \A s \in DOMAIN N.receipts : Returned(N, s) = Returned(L, s)  BY DEF Returned
<1>3. Balanced(N)  BY <1>1, <1>2, BalancedWhenFinished
<1>4. RefundsMatch(N)  BY DEF Sound, RefundsMatch, RefundTotal
<1> QED  BY <1>3, <1>4 DEF Sound

\* The corrections that change one more table between what they reverse and
\* what they apply.
LEMMA SoundCorrection ==
    ASSUME NEW L, Sound(L), NEW plan \in Corrections(L), NEW M, Shaped(M),
           M.allocations = Reversed(L, plan.reverse).allocations,
           M.refunds = L.refunds, M.returns = L.returns,
           DOMAIN M.receipts = DOMAIN L.receipts, DOMAIN M.charges = DOMAIN L.charges,
           NEW charges, NEW sources, ChargesOf(L, plan) \subseteq charges, SourcesOf(L, plan) \subseteq sources,
           Finished(Applied(M, plan.apply), charges, sources),
           \A c \in DOMAIN L.charges : Adjusted(M, c) >= 0 /\ Effective(M, c) <= BigintMax,
           \A c \in DOMAIN L.charges : c \notin charges =>
              M.charges[c] = L.charges[c] /\ Adjusted(M, c) = Adjusted(L, c),
           \A s \in DOMAIN L.receipts : s \notin sources => Worth(M.receipts[s]) = Worth(L.receipts[s])
    PROVE  Sound(Applied(M, plan.apply))
<1> DEFINE N == Applied(M, plan.apply)
<1>1. Shaped(L)  BY DEF Sound
<1>2. /\ Shaped(N) /\ SameBut(N, M, {"allocations"})
      /\ \A c : c \notin ChargesOf(L, plan) => Paid(N, c) = Paid(L, c)
      /\ \A s : s \notin SourcesOf(L, plan) => Used(N, s) = Used(L, s)
  BY <1>1, PlanStaged
<1> HIDE DEF N
<1>3. N.charges = M.charges /\ N.adjustments = M.adjustments /\ N.receipts = M.receipts
      /\ N.refunds = L.refunds /\ N.returns = L.returns
  BY <1>2 DEF SameBut
<1>4. \A c \in DOMAIN L.charges : Adjusted(N, c) = Adjusted(M, c) /\ Effective(N, c) = Effective(M, c)
  BY <1>3 DEF Adjusted, Effective
<1>5. Finished(N, charges, sources)  BY DEF N
<1>6. \A c \in DOMAIN L.charges : Adjusted(N, c) >= 0 /\ Effective(N, c) <= BigintMax  BY <1>4
<1>7. \A c \in DOMAIN L.charges : c \notin charges =>
         N.charges[c] = L.charges[c] /\ Adjusted(N, c) = Adjusted(L, c) /\ Paid(N, c) = Paid(L, c)
  BY <1>2, <1>3, <1>4
<1>8. \A s \in DOMAIN N.receipts : s \notin sources =>
         /\ s \in DOMAIN L.receipts /\ Worth(N.receipts[s]) = Worth(L.receipts[s])
         /\ Used(N, s) = Used(L, s)
  BY <1>2, <1>3
<1>9. DOMAIN N.charges = DOMAIN L.charges  BY <1>3
<1>10. Sound(N)  BY <1>2, <1>3, <1>5, <1>6, <1>7, <1>8, <1>9, SoundWhenFinished
<1> QED  BY <1>10 DEF N

LEMMA ReversedStaged ==
    ASSUME NEW L, Sound(L), NEW plan \in Corrections(L)
    PROVE  /\ Shaped(Reversed(L, plan.reverse)) /\ SameBut(Reversed(L, plan.reverse), L, {"allocations"})
           /\ Reversed(L, plan.reverse).charges = L.charges
           /\ Reversed(L, plan.reverse).adjustments = L.adjustments
           /\ Reversed(L, plan.reverse).receipts = L.receipts
           /\ Reversed(L, plan.reverse).refunds = L.refunds
           /\ Reversed(L, plan.reverse).returns = L.returns
<1>1. Shaped(L)  BY DEF Sound
<1>2. Takable(L.allocations, plan.reverse)  BY <1>1, PlanFits
<1>3. Shaped(Reversed(L, plan.reverse)) /\ SameBut(Reversed(L, plan.reverse), L, {"allocations"})
  BY <1>1, <1>2, StageReversed
<1> QED  BY <1>3 DEF SameBut

\* Command by command: what it stages is sound.
LEMMA CorrectAllocationsSound ==
    ASSUME Sound(ledger), CorrectAllocations
    PROVE  Outcome
<1>1. PICK plan \in Corrections(ledger) :
         LET reversed == Reversed(ledger, plan.reverse)
             staged == Applied(reversed, plan.apply)
         IN /\ Finished(staged, ChargesOf(ledger, plan), SourcesOf(ledger, plan))
            /\ Room(staged)
            /\ Commit(staged)
  BY DEF CorrectAllocations
<1> DEFINE M == Reversed(ledger, plan.reverse)
           N == Applied(M, plan.apply)
<1>2. /\ Shaped(M) /\ M.charges = ledger.charges /\ M.adjustments = ledger.adjustments
      /\ M.receipts = ledger.receipts /\ M.refunds = ledger.refunds /\ M.returns = ledger.returns
  BY ReversedStaged
<1>3. Finished(N, ChargesOf(ledger, plan), SourcesOf(ledger, plan)) /\ Room(N) /\ Commit(N)  BY <1>1
<1>4. M.allocations = Reversed(ledger, plan.reverse).allocations  OBVIOUS
<1> HIDE DEF M
<1>5. \A c \in DOMAIN ledger.charges :
         Adjusted(M, c) = Adjusted(ledger, c) /\ Effective(M, c) = Effective(ledger, c)
  BY <1>2 DEF Adjusted, Effective
<1>6. \A c \in DOMAIN ledger.charges : Adjusted(M, c) >= 0 /\ Effective(M, c) <= BigintMax
  BY <1>5, SoundAmounts
<1>7. Sound(N)  BY <1>2, <1>3, <1>4, <1>5, <1>6, SoundCorrection
<1> QED  BY <1>3, <1>7 DEF Outcome

LEMMA AdjustReceivableSound ==
    ASSUME Sound(ledger), NEW c \in DOMAIN ledger.charges, NEW delta \in Int,
           NEW reverses \in {0} \cup DOMAIN ledger.adjustments, AdjustReceivable(c, delta, reverses)
    PROVE  Outcome
<1>1. /\ ~ledger.charges[c].voided
      /\ Effective(ledger, c) + delta \in 0..BigintMax
      /\ reverses # 0 => Reversible(ledger, c, delta, reverses)
  BY DEF AdjustReceivable
<1> DEFINE row == [charge |-> c, delta |-> delta, reverses |-> reverses]
<1>2. PICK plan \in Corrections(ledger) :
         LET adjusted == [Reversed(ledger, plan.reverse) EXCEPT !.adjustments = Append(@, row)]
             staged == Applied(adjusted, plan.apply)
         IN /\ Finished(staged, ChargesOf(ledger, plan) \cup {c}, SourcesOf(ledger, plan))
            /\ Room(staged)
            /\ Commit(staged)
  BY DEF AdjustReceivable
<1> DEFINE R == Reversed(ledger, plan.reverse)
           old == ledger.adjustments
           new == Append(old, row)
           M == [R EXCEPT !.adjustments = new]
           N == Applied(M, plan.apply)
<1>3. /\ Shaped(R) /\ R.charges = ledger.charges /\ R.adjustments = ledger.adjustments
      /\ R.receipts = ledger.receipts /\ R.refunds = ledger.refunds /\ R.returns = ledger.returns
  BY ReversedStaged
<1>4. M = [R EXCEPT !.adjustments = Append(@, row)]
  <2> HIDE DEF R, row
  <2> QED  BY <1>3
<1>5. Finished(N, ChargesOf(ledger, plan) \cup {c}, SourcesOf(ledger, plan)) /\ Room(N) /\ Commit(N)
  <2> HIDE DEF row
  <2> QED  BY <1>2, <1>4
<1>6. Shaped(ledger)  BY DEF Sound
<1>7. /\ AdjustmentsShaped(new, DOMAIN ledger.charges)
      /\ \A i \in 1..Len(old) : new[i] = old[i]
      /\ new[Len(old) + 1].charge = c /\ new[Len(old) + 1].delta = delta
  <2>1. AdjustmentsShaped(old, DOMAIN ledger.charges)  BY <1>6 DEF Shaped
  <2>2. DOMAIN ledger.charges \subseteq Nat \ {0}  BY <1>6, ShapedTables
  <2>3. reverses # 0 =>
           /\ old[reverses].charge = c /\ old[reverses].reverses = 0 /\ old[reverses].delta = -delta
           /\ \A i \in DOMAIN old : old[i].reverses # reverses
    BY <1>1 DEF Reversible
  <2> HIDE DEF old
  <2>4. reverses \in {0} \cup DOMAIN old  BY DEF old
  <2> QED  BY <2>1, <2>2, <2>3, <2>4, AdjustmentsAppended
<1>8. old \in Seq(Adjustments) /\ new \in Seq(Adjustments) /\ Len(new) = Len(old) + 1
  <2>1. old \in Seq(Adjustments)  BY <1>6, LedgerTables DEF Shaped
  <2>2. new \in Seq(Adjustments)  BY <1>7 DEF AdjustmentsShaped
  <2>3. row \in Adjustments
    <3>1. c \in Nat \ {0} /\ reverses \in Nat  BY <1>6, ShapedTables
    <3> QED  BY <3>1 DEF Adjustments
  <2> HIDE DEF old, row
  <2> QED  BY <2>1, <2>2, <2>3, AppendProperties
<1> HIDE DEF new, row
<1>9. Shaped(M) /\ M.adjustments = new /\ SameBut(M, R, {"adjustments"})
  <2> HIDE DEF R
  <2> QED  BY <1>3, <1>7, StageAdjustments
<1>10. M.allocations = Reversed(ledger, plan.reverse).allocations  BY <1>9 DEF SameBut
<1>11. M.charges = ledger.charges /\ M.receipts = ledger.receipts
       /\ M.refunds = ledger.refunds /\ M.returns = ledger.returns
  BY <1>3, <1>9 DEF SameBut
<1> HIDE DEF M, R
<1>12. ASSUME NEW k \in DOMAIN ledger.charges
       PROVE  Adjusted(M, k) = Adjusted(ledger, k) + (IF k = c THEN delta ELSE 0)
  <2>1. AdjustedBy(new, k) =
           AdjustedBy(old, k) + (IF new[Len(new)].charge = k THEN new[Len(new)].delta ELSE 0)
    <3> HIDE DEF old
    <3> QED  BY <1>7, <1>8, AdjustedByAppended
  <2>2. new[Len(new)].charge = c /\ new[Len(new)].delta = delta  BY <1>7, <1>8
  <2>3. Adjusted(M, k) = ledger.charges[k].original + AdjustedBy(new, k)
    BY <1>9, <1>11 DEF Adjusted, AdjustedBy
  <2>4. Adjusted(ledger, k) = ledger.charges[k].original + AdjustedBy(old, k)  BY DEF Adjusted, AdjustedBy
  <2>5. AdjustedBy(old, k) \in Int  BY <1>8, AdjustedByType
  <2>6. ledger.charges[k].original \in Int
    <3>1. ledger.charges[k] \in Charges  BY <1>6, LedgerTables, LenProperties DEF Shaped
    <3> QED  BY <3>1, RowTypes DEF Charges
  <2> QED  BY <2>1, <2>2, <2>3, <2>4, <2>5, <2>6
<1>13. \A k \in DOMAIN ledger.charges : Adjusted(M, k) >= 0 /\ Effective(M, k) <= BigintMax
  <2>1. ASSUME NEW k \in DOMAIN ledger.charges, k # c PROVE Adjusted(M, k) >= 0 /\ Effective(M, k) <= BigintMax
    <3>1. Adjusted(M, k) = Adjusted(ledger, k)
      <4>1. Adjusted(ledger, k) \in Int  BY <1>6, AmountTypes
      <4> QED  BY <1>12, <2>1, <4>1
    <3>2. Effective(M, k) = Effective(ledger, k)  BY <1>11, <3>1 DEF Effective
    <3> QED  BY <3>1, <3>2, SoundAmounts
  <2>2. Adjusted(M, c) >= 0 /\ Effective(M, c) <= BigintMax
    <3>1. Adjusted(ledger, c) = Effective(ledger, c)  BY <1>1 DEF Effective
    <3>2. Adjusted(M, c) \in 0..BigintMax  BY <1>1, <1>12, <3>1
    <3>3. Effective(M, c) = Adjusted(M, c)  BY <1>1, <1>11 DEF Effective
    <3> QED  BY <3>2, <3>3, BigintAssumption
  <2> QED  BY <2>1, <2>2
<1>14. \A k \in DOMAIN ledger.charges : k \notin ChargesOf(ledger, plan) \cup {c} =>
          M.charges[k] = ledger.charges[k] /\ Adjusted(M, k) = Adjusted(ledger, k)
  <2>1. \A k \in DOMAIN ledger.charges : Adjusted(ledger, k) \in Int  BY <1>6, AmountTypes
  <2> QED  BY <1>11, <1>12, <2>1
<1>15. Sound(N)
  <2> DEFINE C == ChargesOf(ledger, plan) \cup {c}
  <2>1. ChargesOf(ledger, plan) \subseteq C  OBVIOUS
  <2>2. Finished(N, C, SourcesOf(ledger, plan))
        /\ \A k \in DOMAIN ledger.charges : k \notin C =>
              M.charges[k] = ledger.charges[k] /\ Adjusted(M, k) = Adjusted(ledger, k)
    BY <1>5, <1>14
  <2> HIDE DEF C
  <2> QED  BY <1>9, <1>10, <1>11, <1>13, <2>1, <2>2, SoundCorrection
<1> QED  BY <1>5, <1>15 DEF Outcome

LEMMA VoidReceivableSound ==
    ASSUME Sound(ledger), NEW c \in DOMAIN ledger.charges, VoidReceivable(c)
    PROVE  Outcome
<1>1. PICK plan \in Corrections(ledger) :
         LET voided == [Reversed(ledger, plan.reverse) EXCEPT !.charges[c].voided = TRUE]
             staged == Applied(voided, plan.apply)
         IN /\ Finished(staged, ChargesOf(ledger, plan) \cup {c}, SourcesOf(ledger, plan))
            /\ Room(staged)
            /\ Commit(staged)
  BY DEF VoidReceivable
<1> DEFINE R == Reversed(ledger, plan.reverse)
           old == ledger.charges
           new == [old EXCEPT ![c].voided = TRUE]
           M == [R EXCEPT !.charges = new]
           N == Applied(M, plan.apply)
<1>2. /\ Shaped(R) /\ R.charges = ledger.charges /\ R.adjustments = ledger.adjustments
      /\ R.receipts = ledger.receipts /\ R.refunds = ledger.refunds /\ R.returns = ledger.returns
  BY ReversedStaged
<1>3. M = [R EXCEPT !.charges[c].voided = TRUE]
  <2> HIDE DEF R
  <2> QED  BY <1>2
<1>4. Finished(N, ChargesOf(ledger, plan) \cup {c}, SourcesOf(ledger, plan)) /\ Room(N) /\ Commit(N)
  BY <1>1, <1>3
<1>5. Shaped(ledger) /\ old \in Seq(Charges)  BY LedgerTables DEF Sound, Shaped
<1>6. /\ new \in Seq(Charges) /\ DOMAIN new = DOMAIN old
      /\ \A k \in DOMAIN old : new[k].original = old[k].original
      /\ \A k \in DOMAIN old : k # c => new[k] = old[k]
      /\ new[c].voided
  <2> HIDE DEF old
  <2>1. c \in DOMAIN old  BY DEF old
  <2> QED  BY <1>5, <2>1, ChargesVoided
<1> HIDE DEF new
<1>7. Shaped(M) /\ M.charges = new /\ SameBut(M, R, {"charges"})
  <2> HIDE DEF R
  <2> QED  BY <1>2, <1>6, StageCharges
<1>8. M.allocations = Reversed(ledger, plan.reverse).allocations  BY <1>7 DEF SameBut
<1>9. M.adjustments = ledger.adjustments /\ M.receipts = ledger.receipts
      /\ M.refunds = ledger.refunds /\ M.returns = ledger.returns
  BY <1>2, <1>7 DEF SameBut
<1> HIDE DEF M, R
<1>10. \A k \in DOMAIN ledger.charges : Adjusted(M, k) = Adjusted(ledger, k)
  BY <1>6, <1>7, <1>9 DEF Adjusted
<1>11. ASSUME NEW k \in DOMAIN ledger.charges PROVE Adjusted(M, k) >= 0 /\ Effective(M, k) <= BigintMax
  <2>1. Adjusted(ledger, k) >= 0 /\ Effective(ledger, k) <= BigintMax  BY SoundAmounts
  <2>2. CASE k = c
    <3>1. Effective(M, k) = 0  BY <1>6, <1>7, <2>2 DEF Effective
    <3> QED  BY <1>10, <2>1, <3>1, BigintAssumption
  <2>3. CASE k # c
    <3>1. Effective(M, k) = Effective(ledger, k)  BY <1>6, <1>7, <1>10, <2>3 DEF Effective
    <3> QED  BY <1>10, <2>1, <3>1
  <2> QED  BY <2>2, <2>3
<1>12. Sound(N)
  <2> DEFINE C == ChargesOf(ledger, plan) \cup {c}
  <2>1. ChargesOf(ledger, plan) \subseteq C  OBVIOUS
  <2>2. Finished(N, C, SourcesOf(ledger, plan))
        /\ \A k \in DOMAIN ledger.charges : k \notin C =>
              M.charges[k] = ledger.charges[k] /\ Adjusted(M, k) = Adjusted(ledger, k)
    BY <1>4, <1>6, <1>7, <1>10
  <2>3. DOMAIN M.charges = DOMAIN ledger.charges  BY <1>6, <1>7
  <2> HIDE DEF C
  <2> QED  BY <1>7, <1>8, <1>9, <1>11, <2>1, <2>2, <2>3, SoundCorrection
<1> QED  BY <1>4, <1>12 DEF Outcome

LEMMA CorrectMovementSound ==
    ASSUME Sound(ledger), NEW m \in DOMAIN ledger.receipts, NEW amount \in Money,
           NEW status \in {"RECORDED", "REVERSED"}, CorrectMovement(m, amount, status)
    PROVE  Outcome
<1>1. Standing(ledger.receipts[m]) /\ (status = "REVERSED" => amount = Current(ledger.receipts[m]).amount)
  BY DEF CorrectMovement
<1>2. PICK plan \in Corrections(ledger) :
         LET revised == [Reversed(ledger, plan.reverse) EXCEPT !.receipts[m] = Revised(@, amount, status)]
             staged == Applied(revised, plan.apply)
         IN /\ Finished(staged, ChargesOf(ledger, plan), SourcesOf(ledger, plan) \cup {m})
            /\ Room(staged)
            /\ Commit(staged)
  BY DEF CorrectMovement
<1> DEFINE R == Reversed(ledger, plan.reverse)
           old == ledger.receipts
           new == [old EXCEPT ![m] = Revised(@, amount, status)]
           M == [R EXCEPT !.receipts = new]
           N == Applied(M, plan.apply)
<1>3. /\ Shaped(R) /\ R.charges = ledger.charges /\ R.adjustments = ledger.adjustments
      /\ R.receipts = ledger.receipts /\ R.refunds = ledger.refunds /\ R.returns = ledger.returns
  BY ReversedStaged
<1>4. M = [R EXCEPT !.receipts[m] = Revised(@, amount, status)]
  <2> HIDE DEF R
  <2> QED  BY <1>3
<1>5. Finished(N, ChargesOf(ledger, plan), SourcesOf(ledger, plan) \cup {m}) /\ Room(N) /\ Commit(N)
  BY <1>2, <1>4
<1>6. ReceiptsShaped(old)  BY DEF Sound, Shaped
<1>7. ReceiptsShaped(new) /\ DOMAIN new = DOMAIN old /\ \A s \in DOMAIN old : s # m => new[s] = old[s]
  BY <1>1, <1>6, ReceiptsRevised
<1> HIDE DEF new
<1>8. Shaped(M) /\ M.receipts = new /\ SameBut(M, R, {"receipts"})
  <2> HIDE DEF R
  <2> QED  BY <1>3, <1>7, StageReceipts
<1>9. M.allocations = Reversed(ledger, plan.reverse).allocations  BY <1>8 DEF SameBut
<1>10. M.charges = ledger.charges /\ M.adjustments = ledger.adjustments
       /\ M.refunds = ledger.refunds /\ M.returns = ledger.returns
  BY <1>3, <1>8 DEF SameBut
<1> HIDE DEF M, R
<1>11. \A k \in DOMAIN ledger.charges :
          Adjusted(M, k) = Adjusted(ledger, k) /\ Effective(M, k) = Effective(ledger, k)
  BY <1>10 DEF Adjusted, Effective
<1>12. \A k \in DOMAIN ledger.charges : Adjusted(M, k) >= 0 /\ Effective(M, k) <= BigintMax
  BY <1>11, SoundAmounts
<1>13. Sound(N)
  <2> DEFINE S == SourcesOf(ledger, plan) \cup {m}
  <2>1. SourcesOf(ledger, plan) \subseteq S  OBVIOUS
  <2>2. Finished(N, ChargesOf(ledger, plan), S)
        /\ \A s \in DOMAIN ledger.receipts : s \notin S => Worth(M.receipts[s]) = Worth(ledger.receipts[s])
    BY <1>5, <1>7, <1>8
  <2>3. DOMAIN M.receipts = DOMAIN ledger.receipts  BY <1>7, <1>8
  <2> HIDE DEF S
  <2> QED  BY <1>8, <1>9, <1>10, <1>11, <1>12, <2>1, <2>2, <2>3, SoundCorrection
<1> QED  BY <1>5, <1>13 DEF Outcome

----------------------------------------------------------------------------
(* Receipts and allocations                                                *)

\* Amounts of which none is negative do not add up to less than nothing.
LEMMA SumNotNegative ==
    ASSUME NEW a \in Seq(Int), \A i \in 1..Len(a) : a[i] >= 0
    PROVE  Sum(a) >= 0
<1>1. PICK f : AddsUp(f, a)  BY SumsExist
<1>2. Len(a) \in Nat /\ \A i \in 1..Len(a) : a[i] \in Int  BY LenProperties
<1> DEFINE T == {k \in 0..Len(a) : f[k] >= 0}
<1>3. 0 \in T  BY <1>1, <1>2 DEF AddsUp
<1>4. ASSUME NEW k \in 0..(Len(a)-1), k \in T PROVE k + 1 \in T
  <2>1. k + 1 \in 1..Len(a) /\ k + 1 \in 0..Len(a) /\ (k + 1) - 1 = k /\ k \in 0..Len(a) /\ f[k] >= 0
    BY <1>2, <1>4
  <2>2. f[k+1] = f[k] + a[k+1] /\ f[k] \in Int /\ a[k+1] \in Int  BY <1>1, <1>2, <2>1 DEF AddsUp
  <2>3. f[k+1] >= 0  BY <2>1, <2>2
  <2> QED  BY <2>1, <2>3
<1>5. \A k \in 0..Len(a) : k \in T
  <2> HIDE DEF T
  <2> QED  BY <1>2, <1>3, <1>4, Induction
<1>6. f[Len(a)] >= 0
  <2>1. Len(a) \in 0..Len(a)  BY <1>2
  <2> QED  BY <1>5, <2>1
<1> QED  BY <1>1, <1>6, SumIs

LEMMA AmountsNotNegative ==
    ASSUME NEW sources, NEW known, NEW items \in Seq(Facts(sources, known)), NEW column, NEW id
    PROVE  Amounts(items, column, id) >= 0
<1> DEFINE a == [k \in DOMAIN items |-> IF items[k][column] = id THEN items[k].amount ELSE 0]
<1>1. DOMAIN items = 1..Len(items) /\ Len(items) \in Nat
      /\ \A k \in 1..Len(items) : items[k] \in Facts(sources, known)
  BY LenProperties
<1>2. \A k \in 1..Len(items) : items[k].amount \in Int /\ items[k].amount >= 0
  BY <1>1, BigintAssumption DEF Facts, Money
<1>3. a \in [1..Len(items) -> Int] /\ \A k \in 1..Len(items) : a[k] >= 0  BY <1>1, <1>2
<1>4. Amounts(items, column, id) = Sum(a)  BY DEF Amounts
<1> HIDE DEF a
<1>5. a \in Seq(Int) /\ Len(a) = Len(items)  BY <1>1, <1>3, SeqDef, LenProperties
<1>6. Sum(a) >= 0  BY <1>3, <1>5, SumNotNegative
<1> QED  BY <1>4, <1>6

LEMMA AppliedAmounts ==
    ASSUME NEW L, Shaped(L), NEW items \in Seq(Facts(DOMAIN L.receipts, DOMAIN L.charges))
    PROVE  /\ \A c : /\ Paid(Applied(L, items), c) = Paid(L, c) + Amounts(items, "charge", c)
                     /\ Amounts(items, "charge", c) \in Int /\ Amounts(items, "charge", c) >= 0
                     /\ Paid(L, c) \in Int
                     /\ (\A k \in DOMAIN items : items[k].charge # c) => Amounts(items, "charge", c) = 0
           /\ \A s : /\ Used(Applied(L, items), s) = Used(L, s) + Amounts(items, "source", s)
                     /\ Amounts(items, "source", s) \in Int /\ Amounts(items, "source", s) >= 0
                     /\ Used(L, s) \in Int
                     /\ (\A k \in DOMAIN items : items[k].source # s) => Amounts(items, "source", s) = 0
<1> DEFINE S == DOMAIN L.receipts
           K == DOMAIN L.charges
           rows == L.allocations
           more == AppliedRows(items)
<1>1. RowIds(S, K) /\ items \in Seq(Facts(S, K))  BY ShapedTables DEF RowIds
<1>2. rows \in Seq(Allocations)  BY LedgerTables DEF Shaped
<1>3. Applied(L, items).allocations = rows \o more /\ more \in Seq(Allocations)  BY StageApplied
<1>4. \A k \in DOMAIN items : items[k].source = items[k]["source"] /\ items[k].charge = items[k]["charge"]
  <2>1. \A k \in DOMAIN items : items[k] \in Facts(S, K)  BY <1>1, LenProperties
  <2> QED  BY <2>1 DEF Facts
<1> HIDE DEF S, K, rows
<1>5. ASSUME NEW column \in {"source", "charge"}, NEW id
      PROVE  /\ Total(rows \o more, column, id) = Total(rows, column, id) + Amounts(items, column, id)
             /\ Amounts(items, column, id) \in Int /\ Amounts(items, column, id) >= 0
             /\ Total(rows, column, id) \in Int
             /\ (\A k \in DOMAIN items : items[k][column] # id) => Amounts(items, column, id) = 0
  <2>1. Total(more, column, id) = Amounts(items, column, id) /\ Amounts(items, column, id) \in Int
        /\ ((\A k \in DOMAIN items : items[k][column] # id) => Amounts(items, column, id) = 0)
    BY <1>1, AppliedTotals
  <2>2. Amounts(items, column, id) >= 0  BY <1>1, AmountsNotNegative
  <2>3. Total(rows, column, id) \in Int  BY <1>2, RowTypes, TotalType
  <2>4. Total(rows \o more, column, id) = Total(rows, column, id) + Total(more, column, id)
    <3> HIDE DEF more
    <3> QED  BY <1>2, <1>3, RowTypes, TotalConcat
  <2> QED  BY <2>1, <2>2, <2>3, <2>4
<1>6. ASSUME NEW c
      PROVE  /\ Paid(Applied(L, items), c) = Paid(L, c) + Amounts(items, "charge", c)
             /\ Amounts(items, "charge", c) \in Int /\ Amounts(items, "charge", c) >= 0
             /\ Paid(L, c) \in Int
             /\ (\A k \in DOMAIN items : items[k].charge # c) => Amounts(items, "charge", c) = 0
  <2>1. "charge" \in {"source", "charge"}  OBVIOUS
  <2> HIDE DEF more
  <2> QED  BY <1>3, <1>4, <1>5, <2>1 DEF Paid, rows
<1>7. ASSUME NEW s
      PROVE  /\ Used(Applied(L, items), s) = Used(L, s) + Amounts(items, "source", s)
             /\ Amounts(items, "source", s) \in Int /\ Amounts(items, "source", s) >= 0
             /\ Used(L, s) \in Int
             /\ (\A k \in DOMAIN items : items[k].source # s) => Amounts(items, "source", s) = 0
  <2>1. "source" \in {"source", "charge"}  OBVIOUS
  <2> HIDE DEF more
  <2> QED  BY <1>3, <1>4, <1>5, <2>1 DEF Used, rows
<1> QED  BY <1>6, <1>7

\* _apply_allocations keeps every balance.
LEMMA AllocatedIsSound ==
    ASSUME NEW L, Sound(L), NEW items \in Seq(Facts(DOMAIN L.receipts, DOMAIN L.charges)),
           Allocatable(L, items)
    PROVE  Sound(Applied(L, items))
<1> DEFINE N == Applied(L, items)
<1>1. Shaped(L) /\ Balanced(L)  BY DEF Sound
<1>2. Shaped(N) /\ SameBut(N, L, {"allocations"})  BY <1>1, StageApplied
<1>3. N.charges = L.charges /\ N.adjustments = L.adjustments /\ N.receipts = L.receipts
      /\ N.refunds = L.refunds /\ N.returns = L.returns
  BY <1>2 DEF SameBut
<1>4. ASSUME NEW c
      PROVE  /\ Paid(N, c) = Paid(L, c) + Amounts(items, "charge", c)
             /\ Amounts(items, "charge", c) \in Int /\ Amounts(items, "charge", c) >= 0
             /\ Paid(L, c) \in Int
             /\ (\A k \in DOMAIN items : items[k].charge # c) => Amounts(items, "charge", c) = 0
  BY <1>1, AppliedAmounts
<1>5. ASSUME NEW s
      PROVE  /\ Used(N, s) = Used(L, s) + Amounts(items, "source", s)
             /\ Amounts(items, "source", s) \in Int /\ Amounts(items, "source", s) >= 0
             /\ Used(L, s) \in Int
             /\ (\A k \in DOMAIN items : items[k].source # s) => Amounts(items, "source", s) = 0
  BY <1>1, AppliedAmounts
<1> HIDE DEF N
<1>6. ASSUME NEW c \in DOMAIN N.charges PROVE ChargeSound(N, c)
  <2>1. ChargeSound(L, c) /\ Effective(L, c) \in Int  BY <1>1, <1>3, BalancedMeans, AmountTypes
  <2>2. Adjusted(N, c) = Adjusted(L, c) /\ Effective(N, c) = Effective(L, c)  BY <1>3 DEF Adjusted, Effective
  <2>3. CASE \E k \in DOMAIN items : items[k].charge = c
    <3>1. Amounts(items, "charge", c) <= Balance(L, c)  BY <2>3 DEF Allocatable
    <3> QED  BY <1>4, <2>1, <2>2, <3>1 DEF ChargeSound, Balance
  <2>4. CASE ~ \E k \in DOMAIN items : items[k].charge = c
    <3>1. Paid(N, c) = Paid(L, c)  BY <1>4, <2>4
    <3> QED  BY <2>1, <2>2, <3>1 DEF ChargeSound, Balance
  <2> QED  BY <2>3, <2>4
<1>7. ASSUME NEW s \in DOMAIN N.receipts PROVE SourceSound(N, s)
  <2>1. SourceSound(L, s) /\ Returned(L, s) \in Int /\ Worth(L.receipts[s]) \in Int
    BY <1>1, <1>3, BalancedMeans, AmountTypes
  <2>2. Returned(N, s) = Returned(L, s) /\ Worth(N.receipts[s]) = Worth(L.receipts[s])
    BY <1>3 DEF Returned
  <2>3. CASE \E k \in DOMAIN items : items[k].source = s
    <3>1. Amounts(items, "source", s) <= Available(L, s)  BY <2>3 DEF Allocatable
    <3> QED  BY <1>5, <2>1, <2>2, <3>1 DEF SourceSound, Available
  <2>4. CASE ~ \E k \in DOMAIN items : items[k].source = s
    <3>1. Used(N, s) = Used(L, s)  BY <1>5, <2>4
    <3> QED  BY <2>1, <2>2, <3>1 DEF SourceSound, Available
  <2> QED  BY <2>3, <2>4
<1>8. Balanced(N)  BY <1>6, <1>7, BalancedMeans
<1>9. RefundsMatch(N)  BY <1>3 DEF Sound, RefundsMatch, RefundTotal
<1>10. Sound(N)  BY <1>2, <1>8, <1>9 DEF Sound
<1> QED  BY <1>10 DEF N

LEMMA ItemsAreFacts ==
    ASSUME NEW L, NEW sources, sources \subseteq DOMAIN L.receipts, NEW n \in Int,
           NEW items \in SeqsUpTo(Items(L, sources), n)
    PROVE  /\ items \in Seq(Facts(DOMAIN L.receipts, DOMAIN L.charges))
           /\ \A k \in DOMAIN items : items[k].source \in sources
<1>1. PICK k \in 0..n : items \in [1..k -> Items(L, sources)]  BY DEF SeqsUpTo
<1>2. k \in Nat  OBVIOUS
<1>3. Items(L, sources) \subseteq Facts(sources, DOMAIN L.charges)
      /\ Items(L, sources) \subseteq Facts(DOMAIN L.receipts, DOMAIN L.charges)
  BY DEF Items, Facts
<1>4. items \in Seq(Items(L, sources)) /\ DOMAIN items = 1..k  BY <1>1, <1>2, SeqDef
<1>5. items \in Seq(Facts(DOMAIN L.receipts, DOMAIN L.charges))  BY <1>3, <1>4, SeqMonotonic
<1>6. ASSUME NEW j \in DOMAIN items PROVE items[j].source \in sources
  <2>1. items[j] \in Facts(sources, DOMAIN L.charges)  BY <1>1, <1>3, <1>4
  <2> QED  BY <2>1 DEF Facts
<1> QED  BY <1>5, <1>6

\* A receipt nothing names yet is worth its amount and gives nothing.
LEMMA ReceivedStaged ==
    ASSUME NEW L, Shaped(L), NEW amount \in Money, NEW attribution \in Attributions,
           NEW replaces \in {0} \cup DOMAIN L.receipts,
           replaces # 0 => Current(L.receipts[replaces]).status = "REVERSED"
    PROVE  LET M == WithReceipt(L, amount, attribution, replaces)
               s == Len(M.receipts)
           IN /\ Shaped(M) /\ SameBut(M, L, {"receipts"})
              /\ DOMAIN M.receipts = DOMAIN L.receipts \cup {s} /\ s \notin DOMAIN L.receipts
              /\ \A i \in DOMAIN L.receipts : M.receipts[i] = L.receipts[i]
              /\ Worth(M.receipts[s]) = amount /\ Used(M, s) = 0 /\ Returned(M, s) = 0
<1> DEFINE row == [revisions |-> Recorded(amount), replaces |-> replaces, attribution |-> attribution]
           old == L.receipts
           new == Append(old, row)
           M == WithReceipt(L, amount, attribution, replaces)
           s == Len(new)
<1>1. ReceiptsShaped(old) /\ L \in Ledgers  BY DEF Shaped
<1>2. /\ ReceiptsShaped(new) /\ DOMAIN new = DOMAIN old \cup {s} /\ s \notin DOMAIN old
      /\ \A i \in DOMAIN old : new[i] = old[i]
      /\ Worth(new[s]) = amount
  <2> HIDE DEF old
  <2>1. replaces \in {0} \cup DOMAIN old /\ (replaces # 0 => Current(old[replaces]).status = "REVERSED")
    BY DEF old
  <2> QED  BY <1>1, <2>1, ReceiptsReceived
<1>3. M = [L EXCEPT !.receipts = new]  BY DEF WithReceipt
<1> HIDE DEF row, new, M
<1>4. Shaped(M) /\ M.receipts = new /\ SameBut(M, L, {"receipts"})  BY <1>2, <1>3, StageReceipts
<1>5. M.allocations = L.allocations /\ M.returns = L.returns  BY <1>4 DEF SameBut
<1>6. L.allocations \in Seq(Allocations) /\ L.returns \in Seq(Returns)
      /\ DOMAIN L.allocations = 1..Len(L.allocations) /\ DOMAIN L.returns = 1..Len(L.returns)
  BY <1>1, LedgerTables
<1>7. (\A i \in 1..Len(L.allocations) : L.allocations[i]["source"] # s)
      /\ (\A i \in 1..Len(L.returns) : L.returns[i]["source"] # s)
  <2>1. \A i \in DOMAIN L.allocations : L.allocations[i]["source"] \in DOMAIN L.receipts
    BY DEF Shaped, RowsShaped, Linked
  <2>2. \A i \in DOMAIN L.returns : L.returns[i]["source"] \in DOMAIN L.receipts
    BY DEF Shaped, RowsShaped, Linked
  <2> HIDE DEF s
  <2> QED  BY <1>2, <1>6, <2>1, <2>2
<1>8. Used(M, s) = 0  BY <1>5, <1>6, <1>7, RowTypes, TotalOfOthers DEF Used
<1>9. Returned(M, s) = 0  BY <1>5, <1>6, <1>7, RowTypes, TotalOfOthers DEF Returned
<1>10. s = Len(M.receipts)  BY <1>4
<1> HIDE DEF s
<1> QED  BY <1>2, <1>4, <1>8, <1>9, <1>10 DEF M

\* A receipt and the items it is recorded with.
LEMMA RecordReceiptSound ==
    ASSUME Sound(ledger), NEW amount \in Money, NEW attribution \in Attributions,
           RecordReceipt(amount, attribution)
    PROVE  Outcome
<1> DEFINE M == WithReceipt(ledger, amount, attribution, 0)
           s == Len(M.receipts)
<1>1. PICK items \in SeqsUpTo(Items(M, {s}), MaxItems) :
         Allocatable(M, items) /\ Room(Applied(M, items)) /\ Commit(Applied(M, items))
  BY DEF RecordReceipt
<1>2. Shaped(ledger) /\ Balanced(ledger)  BY DEF Sound
<1>3. /\ Shaped(M) /\ SameBut(M, ledger, {"receipts"})
      /\ DOMAIN M.receipts = DOMAIN ledger.receipts \cup {s}
      /\ \A i \in DOMAIN ledger.receipts : M.receipts[i] = ledger.receipts[i]
      /\ Worth(M.receipts[s]) = amount /\ Used(M, s) = 0 /\ Returned(M, s) = 0
  BY <1>2, ReceivedStaged
<1> HIDE DEF M, s
<1>4. M.charges = ledger.charges /\ M.adjustments = ledger.adjustments /\ M.allocations = ledger.allocations
      /\ M.refunds = ledger.refunds /\ M.returns = ledger.returns
  BY <1>3 DEF SameBut
<1>5. \A c \in DOMAIN M.charges : ChargeSound(M, c)
  <2>1. \A c \in DOMAIN M.charges : ChargeSound(ledger, c)  BY <1>2, <1>4, BalancedMeans
  <2>2. \A c \in DOMAIN M.charges : Adjusted(M, c) = Adjusted(ledger, c) /\ Paid(M, c) = Paid(ledger, c)
    BY <1>4 DEF Adjusted, Paid
  <2> QED  BY <1>4, <2>1, <2>2, ChargeKept
<1>6. ASSUME NEW i \in DOMAIN M.receipts PROVE SourceSound(M, i)
  <2>1. CASE i \in DOMAIN ledger.receipts
    <3>1. SourceSound(ledger, i)  BY <1>2, <2>1, BalancedMeans
    <3>2. Used(M, i) = Used(ledger, i) /\ Returned(M, i) = Returned(ledger, i)  BY <1>4 DEF Used, Returned
    <3> QED  BY <1>3, <2>1, <3>1, <3>2, SourceKept
  <2>2. CASE i = s  
    <3>1. amount \in Nat  BY BigintAssumption DEF Money
    <3> QED  BY <1>3, <2>2, <3>1 DEF SourceSound, Available
  <2> QED  BY <1>3, <2>1, <2>2
<1>7. Balanced(M)  BY <1>5, <1>6, BalancedMeans
<1>8. RefundsMatch(M)  BY <1>4 DEF Sound, RefundsMatch, RefundTotal
<1>9. Sound(M)  BY <1>3, <1>7, <1>8 DEF Sound
<1>10. items \in Seq(Facts(DOMAIN M.receipts, DOMAIN M.charges))
  <2>1. {s} \subseteq DOMAIN M.receipts /\ MaxItems \in Int  BY <1>3, BoundsAssumption
  <2> QED  BY <2>1, ItemsAreFacts
<1>11. Sound(Applied(M, items))  BY <1>1, <1>9, <1>10, AllocatedIsSound
<1> QED  BY <1>1, <1>11 DEF Outcome

\* Money allocated, with or without a new attribution.
LEMMA AllocateSound ==
    ASSUME Sound(ledger), NEW s \in DOMAIN ledger.receipts, NEW attribution \in Attributions,
           Allocate(s, attribution)
    PROVE  Outcome
<1> DEFINE old == ledger.receipts
           new == [old EXCEPT ![s].attribution = attribution]
           M == [ledger EXCEPT !.receipts = new]
<1>1. M = [ledger EXCEPT !.receipts[s].attribution = attribution]  OBVIOUS
<1>2. PICK items \in SeqsUpTo(Items(M, {s}), MaxItems) :
         Allocatable(M, items) /\ Room(Applied(M, items)) /\ Commit(Applied(M, items))
  <2> HIDE DEF M
  <2> QED  BY <1>1 DEF Allocate
<1>3. Shaped(ledger) /\ Balanced(ledger) /\ ReceiptsShaped(old)  BY DEF Sound, Shaped
<1>4. /\ ReceiptsShaped(new) /\ DOMAIN new = DOMAIN old
      /\ \A i \in DOMAIN old : new[i].revisions = old[i].revisions
  <2> HIDE DEF old
  <2>1. s \in DOMAIN old  BY DEF old
  <2> QED  BY <1>3, <2>1, ReceiptsAttributed
<1> HIDE DEF new
<1>5. Shaped(M) /\ M.receipts = new /\ SameBut(M, ledger, {"receipts"})  BY <1>3, <1>4, StageReceipts
<1> HIDE DEF M
<1>6. M.charges = ledger.charges /\ M.adjustments = ledger.adjustments /\ M.allocations = ledger.allocations
      /\ M.refunds = ledger.refunds /\ M.returns = ledger.returns
  BY <1>5 DEF SameBut
<1>7. \A c \in DOMAIN M.charges : ChargeSound(M, c)
  <2>1. \A c \in DOMAIN M.charges : ChargeSound(ledger, c)  BY <1>3, <1>6, BalancedMeans
  <2>2. \A c \in DOMAIN M.charges : Adjusted(M, c) = Adjusted(ledger, c) /\ Paid(M, c) = Paid(ledger, c)
    BY <1>6 DEF Adjusted, Paid
  <2> QED  BY <1>6, <2>1, <2>2, ChargeKept
<1>8. ASSUME NEW i \in DOMAIN M.receipts PROVE SourceSound(M, i)
  <2>1. i \in DOMAIN ledger.receipts  BY <1>4, <1>5
  <2>2. SourceSound(ledger, i)  BY <1>3, <2>1, BalancedMeans
  <2>3. Used(M, i) = Used(ledger, i) /\ Returned(M, i) = Returned(ledger, i)  BY <1>6 DEF Used, Returned
  <2>4. Worth(M.receipts[i]) = Worth(ledger.receipts[i])
    <3>1. M.receipts[i].revisions = ledger.receipts[i].revisions  BY <1>4, <1>5, <2>1
    <3> QED  BY <3>1 DEF Worth, Current
  <2> QED  BY <2>2, <2>3, <2>4, SourceKept
<1>9. Balanced(M)  BY <1>7, <1>8, BalancedMeans
<1>10. RefundsMatch(M)  BY <1>6 DEF Sound, RefundsMatch, RefundTotal
<1>11. Sound(M)  BY <1>5, <1>9, <1>10 DEF Sound
<1>12. items \in Seq(Facts(DOMAIN M.receipts, DOMAIN M.charges))
  <2>1. {s} \subseteq DOMAIN M.receipts /\ MaxItems \in Int  BY <1>4, <1>5, BoundsAssumption
  <2> QED  BY <2>1, ItemsAreFacts
<1>13. Sound(Applied(M, items))  BY <1>2, <1>11, <1>12, AllocatedIsSound
<1> QED  BY <1>2, <1>13 DEF Outcome

\* A receipt reversed and replaced: the plan, then the new receipt's own items.
LEMMA ReplaceMovementSound ==
    ASSUME Sound(ledger), NEW m \in DOMAIN ledger.receipts, NEW amount \in Money,
           NEW attribution \in Attributions, ReplaceMovement(m, amount, attribution)
    PROVE  Outcome
<1> DEFINE old == ledger.receipts
           was == Current(old[m]).amount
<1>1. Standing(old[m])  BY DEF ReplaceMovement
<1>2. Shaped(ledger) /\ ReceiptsShaped(old)  BY DEF Sound, Shaped
<1>3. was \in Money
  <2>1. old \in Seq(Receipts) /\ old[m].revisions # <<>>  BY <1>2 DEF ReceiptsShaped
  <2>2. old[m] \in Receipts  BY <2>1, LenProperties
  <2>3. Current(old[m]) \in Revisions  BY <2>1, <2>2, WorthType
  <2> QED  BY <2>3 DEF Revisions
<1>4. PICK plan \in Corrections(ledger) :
         LET reversed == Reversed(ledger, plan.reverse)
             revised == [reversed EXCEPT !.receipts[m] = Revised(@, Current(@).amount, "REVERSED")]
             replaced == Applied(revised, plan.apply)
             received == WithReceipt(replaced, amount, attribution, m)
             s == Len(received.receipts)
         IN \E items \in SeqsUpTo(Items(received, {s}), MaxItems - Len(plan.apply)) :
               LET staged == Applied(received, items)
               IN /\ Finished(staged, ChargesOf(ledger, plan) \cup {it.charge : it \in Entries(items)},
                              SourcesOf(ledger, plan) \cup {m, s})
                  /\ Room(staged)
                  /\ Commit(staged)
  BY DEF ReplaceMovement
<1> DEFINE R == Reversed(ledger, plan.reverse)
           new == [old EXCEPT ![m] = Revised(@, was, "REVERSED")]
           M == [R EXCEPT !.receipts = new]
           P == Applied(M, plan.apply)
           Q == WithReceipt(P, amount, attribution, m)
           s == Len(Q.receipts)
<1>5. /\ Shaped(R) /\ R.charges = ledger.charges /\ R.adjustments = ledger.adjustments
      /\ R.receipts = ledger.receipts /\ R.refunds = ledger.refunds /\ R.returns = ledger.returns
  BY ReversedStaged
<1>6. M = [R EXCEPT !.receipts[m] = Revised(@, Current(@).amount, "REVERSED")]
  <2>1. new = [old EXCEPT ![m] = Revised(old[m], Current(old[m]).amount, "REVERSED")]  OBVIOUS
  <2> HIDE DEF R, new
  <2> QED  BY <1>5, <2>1
<1>7. PICK items \in SeqsUpTo(Items(Q, {s}), MaxItems - Len(plan.apply)) :
         /\ Finished(Applied(Q, items), ChargesOf(ledger, plan) \cup {it.charge : it \in Entries(items)},
                     SourcesOf(ledger, plan) \cup {m, s})
         /\ Room(Applied(Q, items)) /\ Commit(Applied(Q, items))
  <2> HIDE DEF M
  <2>1. M = [Reversed(ledger, plan.reverse) EXCEPT !.receipts[m] = Revised(@, Current(@).amount, "REVERSED")]
    BY <1>6
  <2> QED  BY <1>4, <2>1
<1>8. /\ ReceiptsShaped(new) /\ DOMAIN new = DOMAIN old /\ \A i \in DOMAIN old : i # m => new[i] = old[i]
      /\ Current(new[m]) = [amount |-> was, status |-> "REVERSED"]
  <2>1. m \in DOMAIN old /\ was \in Money /\ "REVERSED" \in {"RECORDED", "REVERSED"}
        /\ ("REVERSED" = "REVERSED" => was = Current(old[m]).amount)
    BY <1>3
  <2> HIDE DEF old, was
  <2> QED  BY <1>1, <1>2, <2>1, ReceiptsRevised
<1> HIDE DEF new
<1>9. Shaped(M) /\ M.receipts = new /\ SameBut(M, R, {"receipts"})
  <2> HIDE DEF R
  <2> QED  BY <1>5, <1>8, StageReceipts
<1>10. /\ M.allocations = Reversed(ledger, plan.reverse).allocations
       /\ M.charges = ledger.charges /\ M.adjustments = ledger.adjustments
       /\ M.refunds = ledger.refunds /\ M.returns = ledger.returns
  BY <1>5, <1>9 DEF SameBut
<1> HIDE DEF M
<1>11. /\ Shaped(P) /\ SameBut(P, M, {"allocations"})
       /\ \A c : c \notin ChargesOf(ledger, plan) => Paid(P, c) = Paid(ledger, c)
       /\ \A i : i \notin SourcesOf(ledger, plan) => Used(P, i) = Used(ledger, i)
  <2>1. DOMAIN ledger.receipts \subseteq DOMAIN M.receipts /\ DOMAIN ledger.charges \subseteq DOMAIN M.charges
    BY <1>8, <1>9, <1>10
  <2> QED  BY <1>2, <1>9, <1>10, <2>1, PlanStaged
<1>12. P.receipts = new /\ P.charges = ledger.charges /\ P.adjustments = ledger.adjustments
       /\ P.refunds = ledger.refunds /\ P.returns = ledger.returns
  BY <1>9, <1>10, <1>11 DEF SameBut
<1> HIDE DEF P
<1>13. /\ Shaped(Q) /\ SameBut(Q, P, {"receipts"})
       /\ DOMAIN Q.receipts = DOMAIN P.receipts \cup {s}
       /\ \A i \in DOMAIN P.receipts : Q.receipts[i] = P.receipts[i]
  <2>1. m \in {0} \cup DOMAIN P.receipts /\ Current(P.receipts[m]).status = "REVERSED"  BY <1>8, <1>12
  <2> QED  BY <1>11, <2>1, ReceivedStaged
<1> HIDE DEF Q
<1>14. Q.allocations = P.allocations /\ Q.charges = ledger.charges /\ Q.adjustments = ledger.adjustments
       /\ Q.refunds = ledger.refunds /\ Q.returns = ledger.returns
  BY <1>12, <1>13 DEF SameBut
<1> DEFINE N == Applied(Q, items)
           C == ChargesOf(ledger, plan) \cup {it.charge : it \in Entries(items)}
           S == SourcesOf(ledger, plan) \cup {m, s}
<1>15. Len(plan.apply) \in Nat
  <2>1. plan.apply \in Seq(Facts(DOMAIN ledger.receipts, DOMAIN ledger.charges))  BY <1>2, PlanFits
  <2> QED  BY <2>1, LenProperties
<1>16. items \in Seq(Facts(DOMAIN Q.receipts, DOMAIN Q.charges)) /\ \A k \in DOMAIN items : items[k].source \in {s}
  <2>1. {s} \subseteq DOMAIN Q.receipts /\ MaxItems - Len(plan.apply) \in Int
    BY <1>13, <1>15, BoundsAssumption
  <2> HIDE DEF s
  <2> QED  BY <2>1, ItemsAreFacts
<1>17. Shaped(N) /\ SameBut(N, Q, {"allocations"})  BY <1>13, <1>16, StageApplied
<1>18. N.charges = ledger.charges /\ N.adjustments = ledger.adjustments /\ N.receipts = Q.receipts
       /\ N.refunds = ledger.refunds /\ N.returns = ledger.returns
  BY <1>14, <1>17 DEF SameBut
<1>19. ASSUME NEW c, c \notin C PROVE Paid(N, c) = Paid(ledger, c)
  <2>1. \A k \in DOMAIN items : items[k].charge # c
    <3>1. \A k \in DOMAIN items : items[k] \in Entries(items)  BY DEF Entries
    <3> QED  BY <1>19, <3>1
  <2>2. Paid(N, c) = Paid(Q, c) + 0 /\ Paid(Q, c) \in Int
    <3>1. Paid(N, c) = Paid(Q, c) + Amounts(items, "charge", c) /\ Paid(Q, c) \in Int
          /\ ((\A k \in DOMAIN items : items[k].charge # c) => Amounts(items, "charge", c) = 0)
      BY <1>13, <1>16, AppliedAmounts
    <3> QED  BY <2>1, <3>1
  <2>3. Paid(Q, c) = Paid(P, c)  BY <1>14 DEF Paid
  <2> QED  BY <1>11, <1>19, <2>2, <2>3
<1>20. ASSUME NEW i, i \notin S PROVE Used(N, i) = Used(ledger, i)
  <2>1. \A k \in DOMAIN items : items[k].source # i  BY <1>16, <1>20
  <2>2. Used(N, i) = Used(Q, i) + 0 /\ Used(Q, i) \in Int
    <3>1. Used(N, i) = Used(Q, i) + Amounts(items, "source", i) /\ Used(Q, i) \in Int
          /\ ((\A k \in DOMAIN items : items[k].source # i) => Amounts(items, "source", i) = 0)
      BY <1>13, <1>16, AppliedAmounts
    <3> QED  BY <2>1, <3>1
  <2>3. Used(Q, i) = Used(P, i)  BY <1>14 DEF Used
  <2> QED  BY <1>11, <1>20, <2>2, <2>3
<1>21. Finished(N, C, S) /\ Room(N) /\ Commit(N)  BY <1>7
<1> HIDE DEF N
<1>22. \A c \in DOMAIN ledger.charges :
          Adjusted(N, c) = Adjusted(ledger, c) /\ Effective(N, c) = Effective(ledger, c)
  BY <1>18 DEF Adjusted, Effective
<1>23. \A c \in DOMAIN ledger.charges : Adjusted(N, c) >= 0 /\ Effective(N, c) <= BigintMax
  BY <1>22, SoundAmounts
<1>24. \A i \in DOMAIN N.receipts : i \notin S =>
          /\ i \in DOMAIN ledger.receipts /\ Worth(N.receipts[i]) = Worth(ledger.receipts[i])
          /\ Used(N, i) = Used(ledger, i)
  <2> SUFFICES ASSUME NEW i \in DOMAIN N.receipts, i \notin S
               PROVE  i \in DOMAIN ledger.receipts /\ N.receipts[i] = ledger.receipts[i]
    BY <1>20
  <2>1. i # m /\ i # s  OBVIOUS
  <2> HIDE DEF S, s
  <2> QED  BY <1>8, <1>12, <1>13, <1>18, <2>1
<1>25. \A c \in DOMAIN ledger.charges : c \notin C =>
          N.charges[c] = ledger.charges[c] /\ Adjusted(N, c) = Adjusted(ledger, c) /\ Paid(N, c) = Paid(ledger, c)
  BY <1>18, <1>19, <1>22
<1> HIDE DEF C, S
<1>26. Sound(N)  BY <1>17, <1>18, <1>21, <1>23, <1>24, <1>25, SoundWhenFinished
<1> QED  BY <1>21, <1>26 DEF Outcome

----------------------------------------------------------------------------
(* Refunds                                                                 *)

\* A refund's rows change the returns and the refunds alone.
LEMMA SoundRefund ==
    ASSUME NEW L, Sound(L), NEW N, Shaped(N),
           N.charges = L.charges, N.adjustments = L.adjustments, N.receipts = L.receipts,
           N.allocations = L.allocations, NEW sources, Finished(N, {}, sources),
           \A s \in DOMAIN L.receipts : s \notin sources => Returned(N, s) = Returned(L, s),
           RefundsMatch(N)
    PROVE  Sound(N)
<1>1. Balanced(L)  BY DEF Sound
<1>2. ASSUME NEW c \in DOMAIN N.charges PROVE ChargeSound(N, c)
  <2>1. ChargeSound(L, c)  BY <1>1, BalancedMeans
  <2>2. Adjusted(N, c) = Adjusted(L, c) /\ Paid(N, c) = Paid(L, c)  BY DEF Adjusted, Paid
  <2> QED  BY <2>1, <2>2, ChargeKept
<1>3. ASSUME NEW s \in DOMAIN N.receipts PROVE SourceSound(N, s)
  <2>1. CASE s \in sources  BY <2>1, FinishedSources
  <2>2. CASE s \notin sources
    <3>1. SourceSound(L, s)  BY <1>1, BalancedMeans
    <3>2. Used(N, s) = Used(L, s) /\ Worth(N.receipts[s]) = Worth(L.receipts[s])  BY DEF Used
    <3> QED  BY <2>2, <3>1, <3>2, SourceKept
  <2> QED  BY <2>1, <2>2
<1>4. Balanced(N)  BY <1>2, <1>3, BalancedMeans
<1> QED  BY <1>4 DEF Sound

LEMMA TotalOfOne ==
    ASSUME NEW R, Signable(R), NEW row \in R, NEW column, NEW id
    PROVE  Total(<<row>>, column, id) = IF row[column] = id THEN Signed(row) ELSE 0
<1>1. <<row>> \in Seq(R) /\ Len(<<row>>) = 1 /\ <<row>>[1] = row  OBVIOUS
<1> DEFINE a == <<>>
           b == Part(<<row>>, column, id)
           v == IF row[column] = id THEN Signed(row) ELSE 0
<1>2. b \in Seq(Int) /\ Len(b) = 1 /\ b[1] = v
  <2> DEFINE rows == <<row>>
  <2>1. rows \in Seq(R) /\ Len(rows) = 1 /\ rows[1] = row  BY <1>1
  <2> HIDE DEF rows
  <2>2. Part(rows, column, id) \in Seq(Int) /\ Len(Part(rows, column, id)) = Len(rows)
        /\ \A i \in 1..Len(rows) : Part(rows, column, id)[i] = IF rows[i][column] = id THEN Signed(rows[i]) ELSE 0
    BY <2>1, PartType
  <2>3. 1 \in 1..Len(rows)  BY <2>1
  <2>4. Part(rows, column, id)[1] = IF rows[1][column] = id THEN Signed(rows[1]) ELSE 0  BY <2>2, <2>3
  <2> QED  BY <2>1, <2>2, <2>4 DEF rows
<1>3. a \in Seq(Int) /\ Len(a) = 0  OBVIOUS
<1> HIDE DEF a, b
<1>4. Sum(a) = 0
  <2>1. \A i \in 1..Len(a) : a[i] = 0  BY <1>3
  <2> QED  BY <1>3, <2>1, SumOfZeros
<1>5. Sum(b) = Sum(a) + b[Len(b)]
  <2>1. Len(b) = Len(a) + 1 /\ \A i \in 1..Len(a) : b[i] = a[i]  BY <1>2, <1>3
  <2> QED  BY <1>2, <1>3, <2>1, SumAppended
<1>6. v \in Int  BY DEF Signable, Signed
<1>7. Total(<<row>>, column, id) = Sum(b)  BY DEF Total, Part, b
<1> QED  BY <1>2, <1>4, <1>5, <1>6, <1>7

LEMMA TwoTablesSet ==
    ASSUME NEW L \in Ledgers, NEW t, NEW a
    PROVE  [[L EXCEPT !.refunds = t] EXCEPT !.returns = a] = [L EXCEPT !.refunds = t, !.returns = a]
BY DEF Ledgers

\* A transfer out and the return that accounts for it.
LEMMA RecordRefundSound ==
    ASSUME Sound(ledger), NEW s \in DOMAIN ledger.receipts, NEW amount \in Money, RecordRefund(s, amount)
    PROVE  Outcome
<1> DEFINE old == ledger.refunds
           r == Len(old) + 1
           new == Append(old, [revisions |-> Recorded(amount)])
           row == ReturnRow(s, r, amount)
           rows == ledger.returns
           M == [ledger EXCEPT !.refunds = new]
           N == [M EXCEPT !.returns = rows \o <<row>>]
<1>1. Shaped(ledger) /\ RefundsShaped(old) /\ ledger \in Ledgers  BY DEF Sound, Shaped
<1>2. rows \in Seq(Returns) /\ DOMAIN rows = 1..Len(rows) /\ DOMAIN old = 1..Len(old)
  BY <1>1, LedgerTables
<1>3. N = [ledger EXCEPT !.refunds = Append(@, [revisions |-> Recorded(amount)]),
                         !.returns = Append(@, ReturnRow(s, r, amount))]
  <2>1. row \in Returns
    <3>1. Len(old) \in Nat  BY <1>1, LenProperties DEF RefundsShaped
    <3>2. s \in Nat \ {0} /\ r \in Nat \ {0}  BY <1>1, <3>1, ShapedTables
    <3> HIDE DEF r
    <3> QED  BY <3>2 DEF ReturnRow, Returns
  <2>2. Append(rows, row) = rows \o <<row>>
    <3> HIDE DEF rows, row
    <3> QED  BY <1>2, <2>1, AppendIsConcat
  <2> DEFINE b == [revisions |-> Recorded(amount)]
             e == rows \o <<row>>
  <2>3. [ledger EXCEPT !.refunds = Append(@, b), !.returns = Append(@, row)]
           = [ledger EXCEPT !.refunds = Append(ledger.refunds, b), !.returns = Append(ledger.returns, row)]
    <3> HIDE DEF b, row
    <3> QED  BY <1>1 DEF Ledgers
  <2>4. [ledger EXCEPT !.refunds = Append(ledger.refunds, b), !.returns = Append(ledger.returns, row)]
           = [ledger EXCEPT !.refunds = new, !.returns = e]
    BY <2>2
  <2>5. N = [ledger EXCEPT !.refunds = new, !.returns = e]
    <3> HIDE DEF new, e
    <3> QED  BY <1>1, TwoTablesSet DEF e
  <2> QED  BY <2>3, <2>4, <2>5
<1>4. Finished(N, {}, {s}) /\ Room(N) /\ Commit(N)  BY <1>3 DEF RecordRefund
<1>5. /\ RefundsShaped(new) /\ DOMAIN new = DOMAIN old \cup {r} /\ r \notin DOMAIN old
      /\ \A i \in DOMAIN old : new[i] = old[i]
      /\ Worth(new[r]) = amount
  <2> HIDE DEF old
  <2> QED  BY <1>1, RefundsRecorded
<1> HIDE DEF new
<1>6. Shaped(M) /\ M.refunds = new /\ SameBut(M, ledger, {"refunds"})  BY <1>1, <1>5, StageRefunds
<1>7. M.charges = ledger.charges /\ M.adjustments = ledger.adjustments /\ M.receipts = ledger.receipts
      /\ M.allocations = ledger.allocations /\ M.returns = rows
  BY <1>6 DEF SameBut
<1>8. row \in Returns /\ row.reverses = 0 /\ row["source"] = s /\ row["refund"] = r /\ row.amount = amount
  <2>1. s \in Nat \ {0} /\ r \in Nat \ {0}
    <3>1. Len(old) \in Nat  BY <1>1, LenProperties DEF RefundsShaped
    <3> QED  BY <1>1, <3>1, ShapedTables
  <2> HIDE DEF r
  <2> QED  BY <2>1 DEF ReturnRow, Returns
<1> HIDE DEF M, row
<1>9. <<row>> \in Seq(Returns) /\ Len(<<row>>) = 1 /\ <<row>>[1] = row  BY <1>8
<1>10. Shaped(N) /\ N.returns = rows \o <<row>> /\ SameBut(N, M, {"returns"})
  <2> DEFINE more == <<row>>
  <2>1. Linked(rows, "source", DOMAIN M.receipts, "refund", DOMAIN M.refunds) /\ ReversedOnce(rows)
    BY <1>6, <1>7 DEF Shaped, RowsShaped
  <2>2. \A k \in 1..Len(more) : more[k].reverses = 0 /\ more[k]["source"] \in DOMAIN M.receipts
           /\ more[k]["refund"] \in DOMAIN M.refunds
    BY <1>5, <1>6, <1>7, <1>8, <1>9
  <2>3. more \in Seq(Returns)  BY <1>9
  <2> HIDE DEF more, rows
  <2>4. Linked(rows \o more, "source", DOMAIN M.receipts, "refund", DOMAIN M.refunds)
        /\ ReversedOnce(rows \o more)
    BY <1>2, <2>1, <2>2, <2>3, LinkedApplied
  <2>5. rows \o more \in Seq(Returns)  BY <1>2, <2>3, ConcatProperties
  <2>6. RowsShaped(rows \o more, DOMAIN M.receipts, "refund", DOMAIN M.refunds)  BY <2>4 DEF RowsShaped
  <2> DEFINE t == rows \o more
             N2 == [M EXCEPT !.returns = t]
  <2>7. N = N2  BY DEF more
  <2> HIDE DEF t, N
  <2>8. Shaped(N2) /\ N2.returns = t /\ SameBut(N2, M, {"returns"})  BY <1>6, <2>5, <2>6, StageReturns DEF t
  <2> QED  BY <2>7, <2>8 DEF t, more
<1> HIDE DEF N
<1>11. N.charges = ledger.charges /\ N.adjustments = ledger.adjustments /\ N.receipts = ledger.receipts
       /\ N.allocations = ledger.allocations /\ N.refunds = new
  BY <1>6, <1>7, <1>10 DEF SameBut
<1>12. ASSUME NEW column, NEW id
       PROVE  /\ Total(N.returns, column, id) = Total(rows, column, id) + (IF row[column] = id THEN amount ELSE 0)
              /\ Total(rows, column, id) \in Int
  <2>1. Total(<<row>>, column, id) = IF row[column] = id THEN Signed(row) ELSE 0
    BY <1>8, RowTypes, TotalOfOne
  <2>2. Signed(row) = amount  BY <1>8 DEF Signed
  <2> DEFINE more == <<row>>
  <2>3. more \in Seq(Returns)  BY <1>9
  <2>4. Total(rows \o more, column, id) = Total(rows, column, id) + Total(more, column, id)
    <3> HIDE DEF more, rows
    <3> QED  BY <1>2, <2>3, RowTypes, TotalConcat
  <2>5. Total(rows, column, id) \in Int
    <3> HIDE DEF rows
    <3> QED  BY <1>2, RowTypes, TotalType
  <2> QED  BY <1>10, <2>1, <2>2, <2>4, <2>5
<1>13. \A i \in DOMAIN ledger.receipts : i \notin {s} => Returned(N, i) = Returned(ledger, i)
  BY <1>8, <1>12 DEF Returned
<1>14. RefundsMatch(N)
  <2> SUFFICES ASSUME NEW i \in DOMAIN new PROVE RefundTotal(N, i) = Worth(new[i])  BY <1>11 DEF RefundsMatch
  <2>1. CASE i \in DOMAIN old
    <3>1. i # r  BY <1>5, <2>1
    <3>2. RefundTotal(N, i) = RefundTotal(ledger, i)  BY <1>8, <1>12, <3>1 DEF RefundTotal
    <3>3. RefundTotal(ledger, i) = Worth(old[i])  BY <2>1 DEF Sound, RefundsMatch
    <3> QED  BY <1>5, <2>1, <3>2, <3>3
  <2>2. CASE i = r
    <3>1. \A j \in 1..Len(rows) : rows[j]["refund"] # r
      <4>1. \A j \in DOMAIN rows : rows[j]["refund"] \in DOMAIN old  BY <1>1 DEF Shaped, RowsShaped, Linked
      <4> HIDE DEF r, rows
      <4> QED  BY <1>2, <1>5, <4>1
    <3>2. Total(rows, "refund", r) = 0
      <4> HIDE DEF r, rows
      <4> QED  BY <1>2, <3>1, RowTypes, TotalOfOthers
    <3>3. amount \in Int  BY RowTypes
    <3> HIDE DEF r
    <3>4. RefundTotal(N, i) = amount  BY <1>8, <1>12, <2>2, <3>2, <3>3 DEF RefundTotal
    <3> QED  BY <1>5, <2>2, <3>4
  <2> HIDE DEF r
  <2> QED  BY <1>5, <2>1, <2>2
<1>15. Sound(N)  BY <1>4, <1>10, <1>11, <1>13, <1>14, SoundRefund
<1> QED  BY <1>4, <1>15 DEF Outcome

\* What the transfer pays back after its correction.
Parts(sources) == [source : sources, amount : Money]
ReturnRows(parts, r) == [k \in DOMAIN parts |-> ReturnRow(parts[k].source, r, parts[k].amount)]

Accounts(rows, parts, r, sources) ==
    /\ rows \in Seq(Returns) /\ Len(rows) = Len(parts)
    /\ DOMAIN parts = 1..Len(parts)
    /\ \A k \in 1..Len(parts) :
          /\ rows[k].reverses = 0
          /\ rows[k]["source"] = parts[k].source
          /\ rows[k]["refund"] = r
          /\ rows[k].amount = parts[k].amount
          /\ parts[k].source \in sources /\ parts[k].amount \in Int

LEMMA ReturnRowsType ==
    ASSUME NEW sources, NEW r, RowIds(sources, {r}),
           NEW parts \in Seq(Parts(sources))
    PROVE  Accounts(ReturnRows(parts, r), parts, r, sources)
<1>1. DOMAIN parts = 1..Len(parts) /\ Len(parts) \in Nat /\ \A k \in 1..Len(parts) : parts[k] \in Parts(sources)
  BY LenProperties
<1>2. ASSUME NEW k \in 1..Len(parts)
      PROVE  /\ ReturnRows(parts, r)[k] \in Returns
             /\ ReturnRows(parts, r)[k].reverses = 0
             /\ ReturnRows(parts, r)[k]["source"] = parts[k].source
             /\ ReturnRows(parts, r)[k]["refund"] = r
             /\ ReturnRows(parts, r)[k].amount = parts[k].amount
             /\ parts[k].source \in sources /\ parts[k].amount \in Int
  <2> DEFINE row == [source |-> parts[k].source, refund |-> r, amount |-> parts[k].amount, reverses |-> 0]
  <2>1. ReturnRows(parts, r)[k] = row  BY <1>1 DEF ReturnRows, ReturnRow
  <2>2. parts[k] \in Parts(sources)  BY <1>1
  <2>3. row \in Returns /\ row.reverses = 0 /\ row["source"] = parts[k].source /\ row["refund"] = r
        /\ row.amount = parts[k].amount /\ parts[k].source \in sources /\ parts[k].amount \in Int
    BY <2>2, RowTypes DEF Parts, Returns, RowIds
  <2> QED  BY <2>1, <2>3
<1>3. ReturnRows(parts, r) \in [1..Len(parts) -> Returns]
  <2>1. ReturnRows(parts, r) = [k \in 1..Len(parts) |-> ReturnRows(parts, r)[k]]  BY <1>1 DEF ReturnRows
  <2> QED  BY <1>2, <2>1
<1>4. ReturnRows(parts, r) \in Seq(Returns) /\ Len(ReturnRows(parts, r)) = Len(parts)
  <2> DEFINE rows == ReturnRows(parts, r)
  <2>1. rows \in [1..Len(parts) -> Returns]  BY <1>3
  <2> HIDE DEF rows
  <2>2. rows \in Seq(Returns) /\ Len(rows) = Len(parts)  BY <1>1, <2>1, SeqDef, LenProperties
  <2> QED  BY <2>2 DEF rows
<1> QED  BY <1>1, <1>2, <1>4 DEF Accounts

\* They add up to the transfer's parts, under its refund alone.
LEMMA ReturnRowsTotal ==
    ASSUME NEW sources, NEW r, RowIds(sources, {r}),
           NEW parts \in Seq(Parts(sources))
    PROVE  LET amounts == [k \in DOMAIN parts |-> parts[k].amount]
           IN Total(ReturnRows(parts, r), "refund", r) = Sum(amounts) /\ Sum(amounts) \in Int
<1> DEFINE rows == ReturnRows(parts, r)
           amounts == [k \in DOMAIN parts |-> parts[k].amount]
<1>1. /\ rows \in Seq(Returns) /\ Len(rows) = Len(parts) /\ DOMAIN parts = 1..Len(parts)
      /\ \A k \in 1..Len(parts) : rows[k].reverses = 0 /\ rows[k]["refund"] = r /\ rows[k].amount = parts[k].amount
  <2>1. Accounts(rows, parts, r, sources)  BY ReturnRowsType
  <2> HIDE DEF rows
  <2> QED  BY <2>1 DEF Accounts
<1>2. DOMAIN rows = DOMAIN parts  BY DEF ReturnRows
<1> HIDE DEF rows
<1>3. [i \in DOMAIN rows |-> IF rows[i]["refund"] = r THEN Signed(rows[i]) ELSE 0] = amounts
  BY <1>1, <1>2 DEF Signed
<1>4. Total(rows, "refund", r) = Sum(amounts)  BY <1>3 DEF Total
<1>5. Total(rows, "refund", r) \in Int  BY <1>1, RowTypes, TotalType
<1> QED  BY <1>4, <1>5 DEF rows

\* What a correction takes back of a transfer's returns.
LEMMA ReversalsTotal ==
    ASSUME NEW rows \in Seq(Returns), NEW ids, Takable(rows, ids), NEW r,
           \A k \in DOMAIN ids : rows[ids[k]].refund = r
    PROVE  LET amounts == [k \in DOMAIN ids |-> rows[ids[k]].amount]
           IN Total(Reversals(rows, ids), "refund", r) = -Sum(amounts) /\ Sum(amounts) \in Int
<1> DEFINE back == Reversals(rows, ids)
           amounts == [k \in DOMAIN ids |-> rows[ids[k]].amount]
           keys == {"source", "refund"}
<1>1. Reversibles(Returns, keys) /\ "refund" \in keys  BY DEF Reversibles
<1> HIDE DEF keys
<1>2. /\ back \in Seq(Returns) /\ Len(back) = Len(ids) /\ DOMAIN ids = 1..Len(ids) /\ Len(ids) \in Nat
      /\ \A k \in 1..Len(ids) :
            /\ ids[k] \in DOMAIN rows
            /\ back[k].reverses = ids[k] /\ ids[k] # 0
            /\ back[k].amount = rows[ids[k]].amount
            /\ \A column \in keys : back[k][column] = rows[ids[k]][column]
  BY <1>1, ReversalsType
<1>3. \A k \in 1..Len(ids) : rows[ids[k]] \in Returns  BY <1>2, LenProperties
<1>4. \A k \in 1..Len(ids) : back[k]["refund"] = r /\ rows[ids[k]].amount \in Int
  <2> SUFFICES ASSUME NEW k \in 1..Len(ids) PROVE back[k]["refund"] = r /\ rows[ids[k]].amount \in Int
    OBVIOUS
  <2> DEFINE row == rows[ids[k]]
  <2>1. row \in Returns /\ row.refund = r /\ back[k]["refund"] = row["refund"]  BY <1>1, <1>2, <1>3
  <2> HIDE DEF row, back
  <2>2. row["refund"] = row.refund /\ row.amount \in Int  BY <2>1, RowTypes DEF Returns
  <2> QED  BY <2>1, <2>2 DEF row
<1>5. amounts \in Seq(Int) /\ Len(amounts) = Len(ids) /\ \A k \in 1..Len(ids) : amounts[k] = rows[ids[k]].amount
  <2>1. amounts \in [1..Len(ids) -> Int]  BY <1>2, <1>4
  <2>2. \A k \in 1..Len(ids) : amounts[k] = rows[ids[k]].amount  BY <1>2
  <2> HIDE DEF amounts
  <2> QED  BY <1>2, <2>1, <2>2, SeqDef, LenProperties
<1> DEFINE part == Part(back, "refund", r)
<1>6. /\ part \in Seq(Int) /\ Len(part) = Len(back)
      /\ \A i \in 1..Len(back) : part[i] = IF back[i]["refund"] = r THEN Signed(back[i]) ELSE 0
  <2> HIDE DEF back
  <2> QED  BY <1>2, RowTypes, PartType
<1>7. Total(back, "refund", r) = Sum(part)  BY DEF Total, Part
<1> HIDE DEF part, back, amounts
<1>8. ASSUME NEW i \in 1..Len(ids) PROVE part[i] = -amounts[i]
  <2>1. part[i] = Signed(back[i])  BY <1>2, <1>4, <1>6
  <2>2. Signed(back[i]) = -back[i].amount  BY <1>2 DEF Signed
  <2> QED  BY <1>2, <1>5, <2>1, <2>2
<1>9. Sum(part) = -Sum(amounts)  BY <1>2, <1>5, <1>6, <1>8, SumNegated
<1>10. Sum(amounts) \in Int  BY <1>5, SumType
<1> QED  BY <1>7, <1>9, <1>10 DEF back, amounts

TakesBack(back, rows, ids) ==
    /\ back \in Seq(Returns) /\ Len(back) = Len(ids)
    /\ \A k \in 1..Len(ids) :
          back[k]["source"] = rows[ids[k]]["source"] /\ back[k]["refund"] = rows[ids[k]]["refund"]

\* Returns taken back,
LEMMA StageTakenBack ==
    ASSUME NEW L, Shaped(L), NEW ids, Takable(L.returns, ids)
    PROVE  LET t == L.returns \o Reversals(L.returns, ids)
               M == [L EXCEPT !.returns = t]
           IN /\ Shaped(M) /\ M.returns = t /\ SameBut(M, L, {"returns"})
              /\ t \in Seq(Returns)
              /\ TakesBack(Reversals(L.returns, ids), L.returns, ids)
<1> DEFINE rows == L.returns
           more == Reversals(rows, ids)
           t == rows \o more
<1>1. L \in Ledgers /\ rows \in Seq(Returns)  BY LedgerTables DEF Shaped
<1>2. /\ more \in Seq(Returns) /\ Len(more) = Len(ids)
      /\ \A k \in 1..Len(ids) : more[k].reverses = ids[k] /\ more[k]["source"] = rows[ids[k]]["source"]
            /\ more[k]["refund"] = rows[ids[k]]["refund"] /\ more[k].amount = rows[ids[k]].amount
  <2> HIDE DEF rows
  <2>1. Takable(rows, ids)  BY DEF rows
  <2> DEFINE keys == {"source", "refund"}
  <2>2. Reversibles(Returns, keys) /\ "source" \in keys /\ "refund" \in keys  BY DEF Reversibles
  <2> HIDE DEF keys
  <2>3. /\ more \in Seq(Returns) /\ Len(more) = Len(ids)
        /\ \A k \in 1..Len(ids) : more[k].reverses = ids[k] /\ more[k].amount = rows[ids[k]].amount
              /\ \A column \in keys : more[k][column] = rows[ids[k]][column]
    BY <1>1, <2>1, <2>2, ReversalsType
  <2> QED  BY <2>2, <2>3
<1>3. RowsShaped(t, DOMAIN L.receipts, "refund", DOMAIN L.refunds)
  <2>1. Linked(rows, "source", DOMAIN L.receipts, "refund", DOMAIN L.refunds) /\ ReversedOnce(rows)
    BY DEF Shaped, RowsShaped
  <2> HIDE DEF rows
  <2>2. Takable(rows, ids)  BY DEF rows
  <2>3. Linked(rows \o more, "source", DOMAIN L.receipts, "refund", DOMAIN L.refunds) /\ ReversedOnce(rows \o more)
    BY <1>1, <1>2, <2>1, <2>2, LinkedReversed
  <2> QED  BY <2>3 DEF RowsShaped
<1>4. t \in Seq(Returns)
  <2> HIDE DEF rows, more
  <2> QED  BY <1>1, <1>2, ConcatProperties
<1> HIDE DEF t
<1>5. LET M == [L EXCEPT !.returns = t] IN Shaped(M) /\ M.returns = t /\ SameBut(M, L, {"returns"})
  BY <1>3, <1>4, StageReturns
<1>6. TakesBack(more, rows, ids)
  <2> HIDE DEF more, rows
  <2> QED  BY <1>2 DEF TakesBack
<1> QED  BY <1>4, <1>5, <1>6 DEF t

\* and returns put in their place.
LEMMA StageReturned ==
    ASSUME NEW L, Shaped(L), NEW r \in DOMAIN L.refunds, NEW parts \in Seq(Parts(DOMAIN L.receipts))
    PROVE  LET t == L.returns \o ReturnRows(parts, r)
               M == [L EXCEPT !.returns = t]
           IN /\ Shaped(M) /\ M.returns = t /\ SameBut(M, L, {"returns"})
<1> DEFINE rows == L.returns
           more == ReturnRows(parts, r)
           t == rows \o more
           S == DOMAIN L.receipts
<1>1. L \in Ledgers /\ rows \in Seq(Returns)  BY LedgerTables DEF Shaped
<1>2. RowIds(S, {r}) /\ parts \in Seq(Parts(S))  BY ShapedTables DEF RowIds
<1>3. /\ more \in Seq(Returns) /\ Len(more) = Len(parts)
      /\ \A k \in 1..Len(parts) : more[k].reverses = 0 /\ more[k]["source"] \in S /\ more[k]["refund"] = r
  <2> HIDE DEF S
  <2>1. Accounts(more, parts, r, S)  BY <1>2, ReturnRowsType
  <2> HIDE DEF more
  <2> QED  BY <2>1 DEF Accounts
<1>4. Linked(rows, "source", S, "refund", DOMAIN L.refunds) /\ ReversedOnce(rows)
  BY DEF Shaped, RowsShaped
<1> HIDE DEF rows, more
<1>5. Linked(rows \o more, "source", S, "refund", DOMAIN L.refunds) /\ ReversedOnce(rows \o more)
  <2> HIDE DEF S
  <2> QED  BY <1>1, <1>3, <1>4, LinkedApplied
<1>6. t \in Seq(Returns)  BY <1>1, <1>3, ConcatProperties
<1>7. RowsShaped(t, DOMAIN L.receipts, "refund", DOMAIN L.refunds)  BY <1>5 DEF RowsShaped
<1> HIDE DEF t
<1>8. LET M == [L EXCEPT !.returns = t] IN Shaped(M) /\ M.returns = t /\ SameBut(M, L, {"returns"})
  BY <1>6, <1>7, StageReturns
<1> QED  BY <1>8 DEF t, rows, more

RefundStaged(r, amount, status, ids, parts) ==
    /\ Distinct(ids) /\ Standing(ledger.refunds[r])
    /\ status = "REVERSED" => amount = Current(ledger.refunds[r]).amount
    /\ \A i \in Entries(ids) : LiveReversible(ledger.returns, i) /\ ledger.returns[i].refund = r
    /\ NetMatches(ledger, r, ids, parts, IF status = "RECORDED" THEN amount ELSE 0)
    /\ LET reversed == [ledger EXCEPT !.returns = @ \o [k \in DOMAIN ids |-> Reversal(@, ids[k])]]
           revised == [reversed EXCEPT !.refunds[r] = Revised(@, amount, status)]
           staged == [revised EXCEPT !.returns =
                         @ \o [k \in DOMAIN parts |-> ReturnRow(parts[k].source, r, parts[k].amount)]]
       IN /\ Finished(staged, {}, {ledger.returns[i].source : i \in Entries(ids)}
                                   \cup {p.source : p \in Entries(parts)})
          /\ Room(staged)
          /\ Commit(staged)

\* A transfer out is revised, and other returns account for it.
LEMMA CorrectRefundSound ==
    ASSUME Sound(ledger), NEW r \in DOMAIN ledger.refunds, NEW amount \in Money,
           NEW status \in {"RECORDED", "REVERSED"}, CorrectRefund(r, amount, status)
    PROVE  Outcome
<1> DEFINE rows == ledger.returns
           old == ledger.refunds
           new == [old EXCEPT ![r] = Revised(@, amount, status)]
           worth == IF status = "RECORDED" THEN amount ELSE 0
<1>1. PICK ids \in SeqsUpTo(DOMAIN ledger.returns, MaxReturns),
             parts \in SeqsUpTo([source : DOMAIN ledger.receipts, amount : Money], MaxItems) :
        RefundStaged(r, amount, status, ids, parts)
  BY ZenonT(30) DEF CorrectRefund, RefundStaged
<1>2. /\ NetMatches(ledger, r, ids, parts, worth)
      /\ LET reversed == [ledger EXCEPT !.returns = @ \o [k \in DOMAIN ids |-> Reversal(@, ids[k])]]
             revised == [reversed EXCEPT !.refunds[r] = Revised(@, amount, status)]
             staged == [revised EXCEPT !.returns =
                           @ \o [k \in DOMAIN parts |-> ReturnRow(parts[k].source, r, parts[k].amount)]]
         IN /\ Finished(staged, {}, {rows[i].source : i \in Entries(ids)}
                                     \cup {p.source : p \in Entries(parts)})
            /\ Room(staged)
            /\ Commit(staged)
  BY <1>1 DEF RefundStaged
<1>3. /\ Distinct(ids) /\ Standing(old[r])
      /\ status = "REVERSED" => amount = Current(old[r]).amount
      /\ \A i \in Entries(ids) : LiveReversible(rows, i) /\ rows[i].refund = r
  BY <1>1 DEF RefundStaged
<1> DEFINE back == Reversals(rows, ids)
           first == rows \o back
           more == ReturnRows(parts, r)
           last == first \o more
           touched == {rows[i].source : i \in Entries(ids)} \cup {p.source : p \in Entries(parts)}
           M1 == [ledger EXCEPT !.returns = first]
           M2 == [M1 EXCEPT !.refunds = new]
           N == [M2 EXCEPT !.returns = last]
<1>4. Shaped(ledger) /\ ledger \in Ledgers /\ rows \in Seq(Returns) /\ RefundsShaped(old)
  BY LedgerTables DEF Sound, Shaped
<1>5. /\ ids \in Seq(DOMAIN rows) /\ DOMAIN ids = 1..Len(ids)
      /\ parts \in Seq(Parts(DOMAIN ledger.receipts)) /\ DOMAIN parts = 1..Len(parts)
  BY SeqsAreSeqs, BoundsAssumption DEF Parts
<1>6. Takable(rows, ids)
  <2>1. \A k \in DOMAIN ids : ids[k] \in Entries(ids)  BY DEF Entries
  <2> QED  BY <1>3, <1>5, <2>1 DEF Takable, LiveReversible
<1>7. Finished(N, {}, touched) /\ Room(N) /\ Commit(N)
  <2> DEFINE reversed == [ledger EXCEPT !.returns = @ \o [k \in DOMAIN ids |-> Reversal(@, ids[k])]]
             revised == [reversed EXCEPT !.refunds[r] = Revised(@, amount, status)]
             staged == [revised EXCEPT !.returns =
                             @ \o [k \in DOMAIN parts |-> ReturnRow(parts[k].source, r, parts[k].amount)]]
  <2>1. reversed = M1  BY DEF Reversals
  <2>2. revised = M2
    <3>1. M1.refunds = old  BY <1>4 DEF Ledgers
    <3> HIDE DEF reversed, M1, old
    <3> QED  BY <2>1, <3>1
  <2>3. M2.returns = first  
    <3>1. first = first OBVIOUS
    <3> HIDE DEF first, new
    <3> QED  BY <1>4 DEF Ledgers
  <2>4. staged = N
    <3> HIDE DEF revised, M2, first
    <3> QED  BY <2>2, <2>3 DEF ReturnRows
  <2>5. Finished(staged, {}, touched) /\ Room(staged) /\ Commit(staged)  BY <1>2
  <2> HIDE DEF staged, N
  <2> QED  BY <2>4, <2>5
<1> HIDE DEF M1, M2, N, worth
<1>8. /\ Shaped(M1) /\ M1.returns = first /\ SameBut(M1, ledger, {"returns"})
      /\ first \in Seq(Returns) /\ back \in Seq(Returns) /\ Len(back) = Len(ids)
      /\ \A k \in 1..Len(ids) : back[k]["source"] = rows[ids[k]]["source"]
                                /\ back[k]["refund"] = rows[ids[k]]["refund"]
  <2>1. /\ Shaped(M1) /\ M1.returns = first /\ SameBut(M1, ledger, {"returns"})
        /\ first \in Seq(Returns) /\ TakesBack(back, rows, ids)
    BY <1>4, <1>6, StageTakenBack DEF M1
  <2> HIDE DEF first, back, rows
  <2> QED  BY <2>1 DEF TakesBack
<1>9. /\ RefundsShaped(new) /\ DOMAIN new = DOMAIN old
      /\ \A s \in DOMAIN old : s # r => new[s] = old[s]
      /\ Worth(new[r]) = worth
  <2> HIDE DEF old
  <2>1. r \in DOMAIN old  BY DEF old
  <2>2. RefundsShaped(old) /\ Standing(old[r]) /\ (status = "REVERSED" => amount = Current(old[r]).amount)
    BY <1>3, <1>4
  <2>3. RefundsShaped(new) /\ DOMAIN new = DOMAIN old  BY <2>1, <2>2, RefundsRevised
  <2>4. \A s \in DOMAIN old : s # r => new[s] = old[s]  BY <2>1, <2>2, RefundsRevised
  <2>5. Worth(Revised(old[r], amount, status)) = worth
    <3> DEFINE m == old[r]
               v == Revised(m, amount, status)
    <3>1. m \in Refunds /\ m.revisions # <<>> /\ RevisionsFollow(m) /\ Standing(m)
      BY <2>1, <2>2, LenProperties DEF RefundsShaped
    <3>2. status = "REVERSED" => amount = Current(m).amount  BY <2>2
    <3> HIDE DEF m
    <3>3. Current(v) = [amount |-> amount, status |-> status]  BY <3>1, <3>2, RevisedMovement
    <3> HIDE DEF v
    <3>4. Worth(v) = worth  BY <3>3 DEF Worth, worth
    <3> QED  BY <3>4 DEF v, m
  <2>6. new[r] = Revised(old[r], amount, status)  BY <2>1
  <2> QED  BY <2>3, <2>4, <2>5, <2>6
<1> HIDE DEF new
<1>10. Shaped(M2) /\ M2.refunds = new /\ SameBut(M2, M1, {"refunds"})
  <2>1. DOMAIN M1.refunds \subseteq DOMAIN new  BY <1>8, <1>9 DEF SameBut
  <2> QED  BY <1>8, <1>9, <2>1, StageRefunds DEF M2
<1>11. M2.charges = ledger.charges /\ M2.adjustments = ledger.adjustments /\ M2.receipts = ledger.receipts
       /\ M2.allocations = ledger.allocations /\ M2.returns = first
  BY <1>8, <1>10 DEF SameBut
<1>12. Shaped(N) /\ N.returns = last /\ SameBut(N, M2, {"returns"})
  <2>1. parts \in Seq(Parts(DOMAIN M2.receipts)) /\ r \in DOMAIN M2.refunds  BY <1>5, <1>9, <1>10, <1>11
  <2> DEFINE t == M2.returns \o ReturnRows(parts, r)
             M3 == [M2 EXCEPT !.returns = t]
  <2>2. Shaped(M3) /\ M3.returns = t /\ SameBut(M3, M2, {"returns"})  BY <1>10, <2>1, StageReturned
  <2>3. t = last  BY <1>11
  <2>4. M3 = N
    <3> HIDE DEF t, last
    <3> QED  BY <2>3 DEF N
  <2> HIDE DEF M3, t, last
  <2> QED  BY <2>2, <2>3, <2>4
<1>13. N.charges = ledger.charges /\ N.adjustments = ledger.adjustments /\ N.receipts = ledger.receipts
       /\ N.allocations = ledger.allocations /\ N.refunds = new
  BY <1>10, <1>11, <1>12 DEF SameBut
<1>14. /\ more \in Seq(Returns) /\ Len(more) = Len(parts)
       /\ \A k \in 1..Len(parts) : more[k]["source"] = parts[k].source /\ more[k]["refund"] = r
  <2> DEFINE S == DOMAIN ledger.receipts
  <2>1. RowIds(S, {r}) /\ parts \in Seq(Parts(S))  BY <1>4, <1>5, ShapedTables DEF RowIds
  <2> HIDE DEF S
  <2>2. Accounts(more, parts, r, S)  BY <2>1, ReturnRowsType
  <2> HIDE DEF more
  <2> QED  BY <2>2 DEF Accounts
<1>15. \A k \in 1..Len(ids) : rows[ids[k]] \in Returns /\ ids[k] \in Entries(ids) /\ rows[ids[k]].refund = r
  BY <1>3, <1>4, <1>5, LenProperties DEF Entries
<1>16. ASSUME NEW column, NEW id
       PROVE  /\ Total(last, column, id) = Total(rows, column, id) + Total(back, column, id) + Total(more, column, id)
              /\ Total(rows, column, id) \in Int /\ Total(back, column, id) \in Int /\ Total(more, column, id) \in Int
  <2> HIDE DEF rows, back, more
  <2>1. Total(first, column, id) = Total(rows, column, id) + Total(back, column, id)
    BY <1>4, <1>8, RowTypes, TotalConcat
  <2>2. Total(last, column, id) = Total(first, column, id) + Total(more, column, id)
    <3> HIDE DEF first
    <3> QED  BY <1>8, <1>14, RowTypes, TotalConcat
  <2>3. Total(rows, column, id) \in Int /\ Total(back, column, id) \in Int /\ Total(more, column, id) \in Int
    BY <1>4, <1>8, <1>14, RowTypes, TotalType
  <2> HIDE DEF last, first
  <2> QED  BY <2>1, <2>2, <2>3
<1>17. \A s \in DOMAIN ledger.receipts : s \notin touched => Returned(N, s) = Returned(ledger, s)
  <2> SUFFICES ASSUME NEW s \in DOMAIN ledger.receipts, s \notin touched PROVE Returned(N, s) = Returned(ledger, s)
    OBVIOUS
  <2>1. \A k \in 1..Len(back) : back[k]["source"] # s
    <3> SUFFICES ASSUME NEW k \in 1..Len(ids) PROVE rows[ids[k]]["source"] # s  BY <1>8
    <3>1. rows[ids[k]].source \in touched /\ rows[ids[k]] \in Returns  BY <1>15
    <3>2. rows[ids[k]]["source"] = rows[ids[k]].source  BY <3>1 DEF Returns
    <3> QED  BY <3>1, <3>2
  <2>2. \A k \in 1..Len(more) : more[k]["source"] # s
    <3> SUFFICES ASSUME NEW k \in 1..Len(parts) PROVE parts[k].source # s  BY <1>14
    <3>1. parts[k] \in Entries(parts)  BY <1>5 DEF Entries
    <3> QED  BY <3>1
  <2>3. Total(back, "source", s) = 0 /\ Total(more, "source", s) = 0
    <3> HIDE DEF back, more
    <3> QED  BY <1>8, <1>14, <2>1, <2>2, RowTypes, TotalOfOthers
  <2>4. Total(last, "source", s) = Total(rows, "source", s)
    <3> HIDE DEF back, more, last, rows
    <3> QED  BY <1>16, <2>3
  <2> QED  BY <1>12, <2>4 DEF Returned
<1>18. RefundsMatch(N)
  <2> SUFFICES ASSUME NEW i \in DOMAIN new PROVE RefundTotal(N, i) = Worth(new[i])  BY <1>13 DEF RefundsMatch
  <2>1. RefundTotal(N, i) = Total(last, "refund", i)  BY <1>12 DEF RefundTotal
  <2>2. RefundTotal(ledger, i) = Worth(old[i]) /\ RefundTotal(ledger, i) = Total(rows, "refund", i)
    BY <1>9 DEF Sound, RefundsMatch, RefundTotal
  <2>3. \A k \in 1..Len(back) : back[k]["refund"] = r
    <3> SUFFICES ASSUME NEW k \in 1..Len(ids) PROVE rows[ids[k]]["refund"] = r  BY <1>8
    <3>1. rows[ids[k]]["refund"] = rows[ids[k]].refund  BY <1>15 DEF Returns
    <3> QED  BY <1>15, <3>1
  <2>4. CASE i # r
    <3>1. Total(back, "refund", i) = 0 /\ Total(more, "refund", i) = 0
      <4>1. \A k \in 1..Len(more) : more[k]["refund"] # i  BY <1>14, <2>4
      <4> HIDE DEF back, more
      <4>2. \A k \in 1..Len(back) : back[k]["refund"] # i  BY <2>3, <2>4
      <4>3. Total(back, "refund", i) = 0  BY <1>8, <4>2, RowTypes, TotalOfOthers
      <4>4. Total(more, "refund", i) = 0  BY <1>14, <4>1, RowTypes, TotalOfOthers
      <4> QED  BY <4>3, <4>4
    <3>2. Total(last, "refund", i) = Total(rows, "refund", i)
      <4> HIDE DEF back, more, last, rows
      <4>1. Total(last, "refund", i) = Total(rows, "refund", i) + Total(back, "refund", i) + Total(more, "refund", i)
            /\ Total(rows, "refund", i) \in Int
        BY <1>16
      <4> QED  BY <3>1, <4>1
    <3> QED  BY <1>9, <2>1, <2>2, <2>4, <3>2
  <2>5. CASE i = r
    <3> DEFINE taken == Sum([k \in DOMAIN ids |-> ledger.returns[ids[k]].amount])
               given == Sum([k \in DOMAIN parts |-> parts[k].amount])
    <3>1. Total(back, "refund", r) = -taken /\ taken \in Int
      <4>1. \A k \in DOMAIN ids : rows[ids[k]].refund = r  BY <1>5, <1>15
      <4> QED  BY <1>4, <1>6, <4>1, ReversalsTotal
    <3>2. Total(more, "refund", r) = given /\ given \in Int
      <4> DEFINE S == DOMAIN ledger.receipts
      <4>1. RowIds(S, {r}) /\ parts \in Seq(Parts(S))  BY <1>4, <1>5, ShapedTables DEF RowIds
      <4> HIDE DEF S
      <4> QED  BY <4>1, ReturnRowsTotal
    <3>3. Current(old[r]).amount - taken + given = worth  BY <1>2 DEF NetMatches
    <3>4. Worth(old[r]) = Current(old[r]).amount  BY <1>3 DEF Worth, Standing
    <3> HIDE DEF taken, given, back, more, last, rows, old
    <3>5. Total(last, "refund", r) = Worth(old[r]) - taken + given  BY <1>16, <2>2, <2>5, <3>1, <3>2
    <3> QED  BY <1>9, <2>1, <2>5, <3>3, <3>4, <3>5
  <2> QED  BY <2>4, <2>5
<1> HIDE DEF touched
<1>19. Sound(N)  BY <1>7, <1>12, <1>13, <1>17, <1>18, SoundRefund
<1> QED  BY <1>7, <1>19 DEF Outcome

----------------------------------------------------------------------------
(* The inductive invariant and what follows from it                        *)

\* What every command leaves behind.
IInv ==
    /\ Sound(ledger)
    /\ Attributed(ledger)
    /\ Room(ledger)
    /\ revision \in 0..MaxCommands
    /\ caught \subseteq {Attribution}

\* Whatever the command, the ledger the deferred check looks at is sound.
LEMMA CommandSound ==
    ASSUME IInv, Command
    PROVE  Outcome
<1>1. Sound(ledger)  BY DEF IInv
<1>2. ASSUME NEW amount \in Money, NEW a \in Attributions, RecordReceipt(amount, a) PROVE Outcome
  BY <1>1, <1>2, RecordReceiptSound
<1>3. ASSUME NEW s \in DOMAIN ledger.receipts, NEW a \in Attributions, Allocate(s, a) PROVE Outcome
  BY <1>1, <1>3, AllocateSound
<1>4. CASE CorrectAllocations  BY <1>1, <1>4, CorrectAllocationsSound
<1>5. ASSUME NEW c \in DOMAIN ledger.charges, NEW delta \in ((-BigintMax)..BigintMax) \ {0},
             NEW reverses \in {0} \cup DOMAIN ledger.adjustments, AdjustReceivable(c, delta, reverses)
      PROVE  Outcome
  <2>1. delta \in Int  BY BigintAssumption
  <2> QED  BY <1>1, <1>5, <2>1, AdjustReceivableSound
<1>6. ASSUME NEW c \in DOMAIN ledger.charges, VoidReceivable(c) PROVE Outcome
  BY <1>1, <1>6, VoidReceivableSound
<1>7. ASSUME NEW m \in DOMAIN ledger.receipts, NEW amount \in Money, NEW status \in {"RECORDED", "REVERSED"},
             CorrectMovement(m, amount, status)
      PROVE  Outcome
  BY <1>1, <1>7, CorrectMovementSound
<1>8. ASSUME NEW m \in DOMAIN ledger.receipts, NEW amount \in Money, NEW a \in Attributions,
             ReplaceMovement(m, amount, a)
      PROVE  Outcome
  BY <1>1, <1>8, ReplaceMovementSound
<1>9. ASSUME NEW s \in DOMAIN ledger.receipts, NEW amount \in Money, RecordRefund(s, amount) PROVE Outcome
  BY <1>1, <1>9, RecordRefundSound
<1>10. ASSUME NEW r \in DOMAIN ledger.refunds, NEW amount \in Money, NEW status \in {"RECORDED", "REVERSED"},
              CorrectRefund(r, amount, status)
       PROVE  Outcome
  BY <1>1, <1>10, CorrectRefundSound
<1> QED  BY <1>2, <1>3, <1>4, <1>5, <1>6, <1>7, <1>8, <1>9, <1>10 DEF Command

\* The ledger the commands start from passed the check.
THEOREM InitIInv == Init => IInv
<1> SUFFICES ASSUME Init PROVE IInv  OBVIOUS
<1>1. ledger = Start /\ revision = 0 /\ caught = {}  BY DEF Init
<1>2. ledger \in Ledgers /\ Keyed(ledger) /\ Broken(ledger) = {}  BY <1>1, StartAssumption
<1>3. Sound(ledger) /\ Attributed(ledger)  BY <1>2, PassedIsSound
<1>4. Room(ledger) /\ MaxCommands \in Nat  BY <1>1, BoundsAssumption
<1> QED  BY <1>1, <1>3, <1>4 DEF IInv

\* A command's ledger is sound, and when it is committed the check has found its
\* attributions in order; one that is not leaves a refusal over attributions.
THEOREM NextIInv == IInv /\ [Next]_vars => IInv'
<1>1. ASSUME IInv, Next PROVE IInv'
  <2>1. MaxCommands \in Nat  BY BoundsAssumption
  <2>2. revision \in 0..MaxCommands /\ revision < MaxCommands /\ caught \subseteq {Attribution}
    BY <1>1 DEF Next, IInv
  <2>3. PICK staged : Sound(staged) /\ Room(staged) /\ Commit(staged)
    BY <1>1, CommandSound DEF Next, Outcome
  <2>4. Broken(staged) \subseteq {Attribution}  BY <2>3, SoundPasses
  <2>5. caught' \subseteq {Attribution}  BY <2>2, <2>3, <2>4 DEF Commit
  <2>6. CASE Broken(staged) = {}
    <3>1. ledger' = staged /\ revision' = revision + 1  BY <2>3, <2>6 DEF Commit
    <3>2. Attributed(staged)
      <4>1. Holds(staged, Attribution)  BY <2>6 DEF Broken, Checks, Attribution
      <4> QED  BY <4>1 DEF Holds, Attribution
    <3>3. (Sound(ledger) /\ Attributed(ledger) /\ Room(ledger))'
      BY <2>3, <3>1, <3>2 DEF Sound, Attributed, Room, Shaped, Balanced, RefundsMatch
    <3> QED  BY <2>1, <2>2, <2>5, <3>1, <3>3 DEF IInv
  <2>7. CASE Broken(staged) # {}
    <3>1. UNCHANGED <<ledger, revision>>  BY <2>3, <2>7 DEF Commit
    <3> QED  BY <1>1, <2>5, <3>1 DEF IInv
  <2> QED  BY <2>6, <2>7
<1>2. ASSUME IInv, UNCHANGED vars PROVE IInv'  BY <1>2 DEF IInv, vars
<1> QED  BY <1>1, <1>2

\* Every ledger the commands commit is sound and attributed, and nothing but
\* attributions is ever refused at COMMIT.
THEOREM Invariant == Spec => []IInv
BY InitIInv, NextIInv, PTL DEF Spec

\* The rows of the finance tables keep their shape, and refusals are the check's.
THEOREM TypeCorrect == Spec => []TypeOK
<1>1. IInv => TypeOK
  <2> SUFFICES ASSUME IInv PROVE TypeOK  OBVIOUS
  <2>1. ledger \in Ledgers  BY DEF IInv, Sound, Shaped
  <2>2. caught \subseteq Checks  BY DEF IInv, Checks, Attribution
  <2> QED  BY <2>1, <2>2 DEF IInv, TypeOK
<1> QED  BY <1>1, Invariant, PTL

\* The views add up every row; the live ones alone come to the same.
LEMMA LiveTotals ==
    ASSUME NEW L, Shaped(L)
    PROVE  /\ \A s : Used(L, s) = Sum(LivePart(L.allocations, "source", s))
           /\ \A s : Returned(L, s) = Sum(LivePart(L.returns, "source", s))
           /\ \A c : Paid(L, c) = Sum(LivePart(L.allocations, "charge", c))
           /\ \A r : RefundTotal(L, r) = Sum(LivePart(L.returns, "refund", r))
<1>1. L.allocations \in Seq(Allocations) /\ L.returns \in Seq(Returns)  BY LedgerTables DEF Shaped
<1>2. /\ Linked(L.allocations, "source", DOMAIN L.receipts, "charge", DOMAIN L.charges)
      /\ Linked(L.returns, "source", DOMAIN L.receipts, "refund", DOMAIN L.refunds)
      /\ ReversedOnce(L.allocations) /\ ReversedOnce(L.returns)
  BY DEF Shaped, RowsShaped
<1>3. /\ Paired(L.allocations, "source") /\ Paired(L.allocations, "charge")
      /\ Paired(L.returns, "source") /\ Paired(L.returns, "refund")
  BY <1>2, LinkedPairs
<1>4. ASSUME NEW s PROVE Used(L, s) = Sum(LivePart(L.allocations, "source", s))
  BY <1>1, <1>2, <1>3, RowTypes, TotalIsLive DEF Used
<1>5. ASSUME NEW s PROVE Returned(L, s) = Sum(LivePart(L.returns, "source", s))
  BY <1>1, <1>2, <1>3, RowTypes, TotalIsLive DEF Returned
<1>6. ASSUME NEW c PROVE Paid(L, c) = Sum(LivePart(L.allocations, "charge", c))
  BY <1>1, <1>2, <1>3, RowTypes, TotalIsLive DEF Paid
<1>7. ASSUME NEW r PROVE RefundTotal(L, r) = Sum(LivePart(L.returns, "refund", r))
  BY <1>1, <1>2, <1>3, RowTypes, TotalIsLive DEF RefundTotal
<1> QED  BY <1>4, <1>5, <1>6, <1>7

\* No receipt gives more than it was worth, no charge holds more than is owed and
\* every transfer out is accounted for, whichever commands RentService is sent:
\* the balances the deferred check computes from all rows are those of the live
\* rows, through every reversal, revision, replacement and void.
THEOREM Conserved == Spec => []MoneyIsConserved
<1>1. IInv => MoneyIsConserved
  <2> SUFFICES ASSUME IInv PROVE MoneyIsConserved  OBVIOUS
  <2>1. Shaped(ledger) /\ Balanced(ledger) /\ RefundsMatch(ledger)  BY DEF IInv, Sound
  <2>2. /\ \A s : Used(ledger, s) = Sum(LivePart(ledger.allocations, "source", s))
        /\ \A s : Returned(ledger, s) = Sum(LivePart(ledger.returns, "source", s))
        /\ \A c : Paid(ledger, c) = Sum(LivePart(ledger.allocations, "charge", c))
        /\ \A r : RefundTotal(ledger, r) = Sum(LivePart(ledger.returns, "refund", r))
    BY <2>1, LiveTotals
  <2>3. ASSUME NEW s \in DOMAIN ledger.receipts
        PROVE  Sum(LivePart(ledger.allocations, "source", s)) + Sum(LivePart(ledger.returns, "source", s))
                  <= Worth(ledger.receipts[s])
    <3>1. SourceSound(ledger, s)  BY <2>1, BalancedMeans
    <3>2. Used(ledger, s) \in Int /\ Returned(ledger, s) \in Int /\ Worth(ledger.receipts[s]) \in Int
      BY <2>1, AmountTypes
    <3> QED  BY <2>2, <3>1, <3>2 DEF SourceSound, Available
  <2>4. ASSUME NEW c \in DOMAIN ledger.charges
        PROVE  Sum(LivePart(ledger.allocations, "charge", c)) <= Effective(ledger, c)
    <3>1. ChargeSound(ledger, c)  BY <2>1, BalancedMeans
    <3>2. Effective(ledger, c) \in Int /\ Paid(ledger, c) \in Int  BY <2>1, AmountTypes
    <3> QED  BY <2>2, <3>1, <3>2 DEF ChargeSound, Balance
  <2>5. ASSUME NEW r \in DOMAIN ledger.refunds
        PROVE  Sum(LivePart(ledger.returns, "refund", r)) = Worth(ledger.refunds[r])
    BY <2>1, <2>2 DEF RefundsMatch
  <2> QED  BY <2>3, <2>4, <2>5 DEF MoneyIsConserved, LivePart
<1> QED  BY <1>1, Invariant, PTL

\* Every allocation that stands is of money its charge may be paid from, or has an
\* operator's override, also after the source was attributed anew.
THEOREM Honoured == Spec => []AttributionHonoured
<1>1. IInv => AttributionHonoured
  <2> SUFFICES ASSUME IInv, NEW i \in DOMAIN ledger.allocations, LiveRow(ledger.allocations, i),
                      ~ledger.allocations[i].override
               PROVE  Speaks(ledger, ledger.allocations[i].source, ledger.allocations[i].charge)
    BY DEF AttributionHonoured
  <2> DEFINE row == ledger.allocations[i]
             a == ledger.receipts[row.source].attribution
             k == ledger.charges[row.charge].contract
  <2>1. Shaped(ledger) /\ ledger \in Ledgers  BY DEF IInv, Sound, Shaped
  <2>2. /\ a # Unmatched
        /\ a.status = "PROPERTY_CONFIRMED" => a.property = PropertyOf[k]
        /\ a.status = "CONTRACT_CONFIRMED" => a.contract = k
    BY DEF IInv, Attributed
  <2>3. row.source \in DOMAIN ledger.receipts
    <3>1. row \in Allocations  BY <2>1, LedgerTables, LenProperties
    <3>2. row["source"] \in DOMAIN ledger.receipts  BY <2>1 DEF Shaped, RowsShaped, Linked
    <3> HIDE DEF row
    <3> QED  BY <3>1, <3>2 DEF Allocations
  <2>4. a \in Attributions
    <3>1. ledger.receipts \in Seq(Receipts)  BY <2>1, LedgerTables
    <3>2. ledger.receipts[row.source] \in Receipts  BY <2>3, <3>1, LenProperties
    <3> QED  BY <3>2 DEF Receipts
  <2>5. a.status \in {"PROPERTY_CONFIRMED", "CONTRACT_CONFIRMED"}
    <3> HIDE DEF a
    <3> QED  BY <2>2, <2>4 DEF Attributions, Unmatched
  <2> QED  BY <2>2, <2>5 DEF Speaks
<1> QED  BY <1>1, Invariant, PTL

\* RentService's own conditions catch whatever rent_check_ledger would, of every
\* command, but a new attribution under allocations that stand.
THEOREM RefusesFirst == Spec => []ServiceRefusesFirst
<1>1. IInv => ServiceRefusesFirst  BY DEF IInv, ServiceRefusesFirst, Attribution
<1> QED  BY <1>1, Invariant, PTL
=============================================================================
