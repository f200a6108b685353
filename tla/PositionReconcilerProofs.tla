----------------------- MODULE PositionReconcilerProofs -----------------------
(***************************************************************************)
(* Theorems about the position reconciler: what one order's rounding can   *)
(* do, for every size and every ratio; the types of its state for any      *)
(* pairs; and, for the one pair of a Gateway login, that its alarms are    *)
(* real and that a quiet pass overlooks nothing.                           *)
(***************************************************************************)
EXTENDS PositionReconciler, FiniteSetTheorems, SequenceTheorems, TLAPS

PosNat == Nat \ {0}
Ratio  == PosNat \X PosNat

LEMMA Division ==
    ASSUME NEW a \in Int, NEW b \in PosNat
    PROVE  /\ a \div b \in Int
           /\ b * (a \div b) <= a
           /\ a < b * (a \div b) + b
  BY DEF PosNat

LEMMA Shift ==
    ASSUME NEW x \in Int, NEW y \in Int, NEW d \in Int
    PROVE  x + d < y + 2 * d => x < y + d
  OBVIOUS

\* The rounded size is within half a contract of the exact one.
LEMMA Rounded ==
    ASSUME NEW x \in Int, NEW D \in PosNat
    PROVE  LET k == (x + D) \div (2 * D)
           IN  /\ k \in Int
               /\ (2 * D) * k <= x + D
               /\ x < (2 * D) * k + D
<1> DEFINE a == x + D
           b == 2 * D
           k == a \div b
<1>1. a \in Int /\ b \in PosNat
  BY DEF PosNat
<1>2. /\ k \in Int
      /\ b * k <= a
      /\ a < b * k + b
  <2> HIDE DEF a, b
  <2> QED BY <1>1, Division
<1>3. b * k \in Int
  <2> HIDE DEF a, b, k
  <2> QED BY <1>1, <1>2 DEF PosNat
<1>4. x < b * k + D
  <2> DEFINE y == b * k
  <2>1. x + D < y + 2 * D /\ y \in Int
    BY <1>2, <1>3
  <2> HIDE DEF k, y
  <2>2. x < y + D
    BY <2>1, Shift DEF PosNat
  <2> QED BY <2>2 DEF y
<1> QED
  BY <1>2, <1>4

LEMMA PairOf ==
    ASSUME NEW r \in Ratio
    PROVE  /\ r[1] \in PosNat /\ r[2] \in PosNat
           /\ r = <<r[1], r[2]>>
  BY DEF Ratio

LEMMA Products ==
    ASSUME NEW m \in PosNat, NEW n \in PosNat
    PROVE  m * n \in PosNat
  BY DEF PosNat

LEMMA TimesTwo ==
    ASSUME NEW n \in Int, NEW d \in Int
    PROVE  (2 * d) * n = 2 * (n * d)
  OBVIOUS

\* An order of any size leads to an order, within one contract of the exact
\* product.
LEMMA ScaleNear ==
    ASSUME NEW q \in PosNat, NEW r \in Ratio
    PROVE  /\ Scale(q, r) \in PosNat
           /\ Scale(q, r) * r[2] <= q * r[1] + r[2]
           /\ q * r[1] <= Scale(q, r) * r[2] + r[2]
<1> DEFINE N == r[1]
           D == r[2]
           k == (2 * q * N + D) \div (2 * D)
<1>1. N \in PosNat /\ D \in PosNat
  BY PairOf
<1>2. q * N \in PosNat
  BY <1>1, Products
<1>3. Scale(q, r) = IF k >= 1 THEN k ELSE 1
  BY DEF Scale, PosNat
<1>4. 2 * q * N = 2 * (q * N)
  BY <1>1 DEF PosNat
<1>5. /\ k \in Int
      /\ (2 * D) * k <= 2 * (q * N) + D
      /\ 2 * (q * N) < (2 * D) * k + D
  <2> DEFINE x == 2 * (q * N)
  <2>1. x \in Int /\ k = (x + D) \div (2 * D)
    BY <1>1, <1>2, <1>4 DEF PosNat
  <2>2. LET j == (x + D) \div (2 * D)
        IN  j \in Int /\ (2 * D) * j <= x + D /\ x < (2 * D) * j + D
    <3> HIDE DEF x, D
    <3> QED BY <1>1, <2>1, Rounded
  <2> QED BY <2>1, <2>2
<1>6. k * D \in Int /\ (2 * D) * k = 2 * (k * D)
  <2> HIDE DEF k, D
  <2> QED BY <1>1, <1>5, TimesTwo DEF PosNat
<1>7. CASE k >= 1
  <2>1. Scale(q, r) = k
    BY <1>3, <1>7
  <2>2. k * D <= q * N + D /\ q * N <= k * D + D
    <3> DEFINE x == q * N
               y == k * D
    <3>1. x \in Int /\ y \in Int /\ D \in Int /\ D > 0
          /\ 2 * y <= 2 * x + D /\ 2 * x < 2 * y + D
      BY <1>1, <1>2, <1>5, <1>6 DEF PosNat
    <3> HIDE DEF x, y, D
    <3>2. y <= x + D /\ x <= y + D
      BY <3>1
    <3> QED BY <3>2 DEF x, y
  <2> QED BY <2>1, <2>2, <1>5, <1>7 DEF PosNat
<1>8. CASE ~(k >= 1)
  <2>1. Scale(q, r) = 1
    BY <1>3, <1>8
  <2>2. k * D <= 0
    <3> HIDE DEF k, D
    <3> QED BY <1>1, <1>5, <1>8 DEF PosNat
  <2>3. D <= q * N + D /\ q * N <= D + D
    BY <1>1, <1>2, <1>5, <1>6, <2>2 DEF PosNat
  <2>4. 1 * D = D
    BY <1>1 DEF PosNat
  <2> QED BY <2>1, <2>3, <2>4 DEF PosNat
<1> QED
  BY <1>7, <1>8

LEMMA Mono ==
    ASSUME NEW b \in PosNat, NEW x \in Int, NEW y \in Int, x >= y + 1
    PROVE  b * x >= b * y + b
  BY DEF PosNat

\* At ratio one the size is kept.
LEMMA ScaleExact ==
    ASSUME NEW q \in PosNat, NEW r \in Ratio, r[1] = r[2]
    PROVE  Scale(q, r) = q
<1> DEFINE D == r[2]
           b == 2 * D
           k == (2 * q * D + D) \div (2 * D)
<1>1. D \in PosNat /\ b \in PosNat
  BY PairOf DEF PosNat
<1>2. 2 * q * D = b * q /\ b * q \in Int
  BY <1>1 DEF PosNat
<1>3. k \in Int /\ b * k <= b * q + D /\ b * q < b * k + D
  <2> DEFINE x == b * q
  <2>1. x \in Int /\ k = (x + D) \div (2 * D)
    BY <1>2
  <2>2. LET j == (x + D) \div (2 * D)
        IN  j \in Int /\ (2 * D) * j <= x + D /\ x < (2 * D) * j + D
    <3> HIDE DEF x, D
    <3> QED BY <1>1, <2>1, Rounded
  <2> QED BY <2>1, <2>2
<1>4. D < b /\ b * k \in Int
  <2>1. D < b
    BY <1>1 DEF PosNat
  <2> HIDE DEF k, b
  <2> QED BY <1>1, <1>3, <2>1 DEF PosNat
<1>5. ~(k >= q + 1)
  <2> SUFFICES ASSUME k >= q + 1 PROVE FALSE
    OBVIOUS
  <2> HIDE DEF k, b, D
  <2>1. b * k >= b * q + b
    BY <1>1, <1>3, Mono DEF PosNat
  <2> QED BY <1>1, <1>2, <1>3, <1>4, <2>1 DEF PosNat
<1>6. ~(q >= k + 1)
  <2> SUFFICES ASSUME q >= k + 1 PROVE FALSE
    OBVIOUS
  <2> HIDE DEF k, b, D
  <2>1. b * q >= b * k + b
    BY <1>1, <1>3, Mono DEF PosNat
  <2> QED BY <1>1, <1>2, <1>3, <1>4, <2>1 DEF PosNat
<1>7. k = q
  <2> HIDE DEF k
  <2> QED BY <1>3, <1>5, <1>6 DEF PosNat
<1>8. Scale(q, r) = IF k >= 1 THEN k ELSE 1
  BY DEF Scale, PosNat
<1> QED
  BY <1>7, <1>8 DEF PosNat

LEMMA WithinTolerance ==
    ASSUME NEW t \in PosNat, NEW d \in PosNat
    PROVE  t * d \in Int /\ d <= t * d
<1>1. d * t \in Int /\ d * t >= d * 0 + d
  BY Mono DEF PosNat
<1>2. t * d = d * t
  BY DEF PosNat
<1> QED
  BY <1>1, <1>2 DEF PosNat

(* The rounding of one order is never reported, at any ratio: a follower
   that holds what scale_quantity makes of the source's position is aligned
   with it, on its side and within the tolerance. *)
THEOREM OneOrderIsAligned ==
    ASSUME Tolerance \in PosNat, NEW s \in Int, NEW r \in Ratio
    PROVE  IsAligned(s, Scaled(s, r), r)
<1> DEFINE N == r[1]
           D == r[2]
<1>1. N \in PosNat /\ D \in PosNat
  BY PairOf
<1>2. D \in Int /\ Tolerance * D \in Int /\ D <= Tolerance * D
  BY <1>1, WithinTolerance DEF PosNat
<1>3. CASE s = 0
  <2>1. Scaled(s, r) = 0
    BY <1>3 DEF Scaled, Scale
  <2>2. 0 * D - 0 * N = 0
    BY <1>1 DEF PosNat
  <2> QED BY <1>1, <1>2, <1>3, <2>1, <2>2
             DEF IsAligned, Near, Positive, Negative, PosNat
<1>4. CASE s > 0
  <2> DEFINE f == Scale(s, r)
  <2>1. s \in PosNat /\ Scaled(s, r) = f
    BY <1>4 DEF PosNat, Scaled
  <2>2. /\ f \in PosNat
        /\ f * D <= s * N + D
        /\ s * N <= f * D + D
    BY <2>1, ScaleNear
  <2>3. CASE N = D
    BY <2>1, <2>3, ScaleExact DEF IsAligned
  <2>4. CASE N # D
    <3> HIDE DEF f
    <3>1. s * N \in Int /\ f * D \in Int
      BY <1>1, <2>2 DEF PosNat
    <3>2. Near(s, f, r)
      <4> HIDE DEF N, D
      <4>1. f * D - s * N <= Tolerance * D /\ -(f * D - s * N) <= Tolerance * D
        BY <1>2, <2>2, <3>1
      <4> QED BY <4>1 DEF Near, N, D
    <3> QED BY <1>4, <2>1, <2>2, <2>4, <3>2
               DEF IsAligned, Positive, Negative, PosNat
  <2> QED BY <2>3, <2>4
<1>5. CASE s < 0
  <2> DEFINE f == Scale(-s, r)
  <2>1. -s \in PosNat /\ Scaled(s, r) = -f
    BY <1>5 DEF PosNat, Scaled
  <2>2. /\ f \in PosNat
        /\ f * D <= (-s) * N + D
        /\ (-s) * N <= f * D + D
    BY <2>1, ScaleNear
  <2>3. CASE N = D
    <3>1. f = -s
      BY <2>1, <2>3, ScaleExact
    <3> QED BY <2>1, <2>3, <3>1 DEF IsAligned
  <2>4. CASE N # D
    <3> HIDE DEF f
    <3>1. /\ s * N \in Int /\ f * D \in Int
          /\ (-s) * N = -(s * N) /\ (-f) * D = -(f * D)
      BY <1>1, <2>2 DEF PosNat
    <3>2. Near(s, -f, r)
      <4> HIDE DEF N, D
      <4>1. (-f) * D - s * N <= Tolerance * D /\ -((-f) * D - s * N) <= Tolerance * D
        BY <1>2, <2>2, <3>1
      <4> QED BY <4>1 DEF Near, N, D
    <3> QED BY <1>5, <2>1, <2>2, <2>4, <3>2
               DEF IsAligned, Positive, Negative, PosNat
  <2> QED BY <2>3, <2>4
<1> QED
  BY <1>3, <1>4, <1>5


-----------------------------------------------------------------------------
(* Types.                                                                  *)

Message ==
    [asker : Pair, account : Pair, held : Int] \cup [asker : Pair]

Orders == [Pair -> [source : Seq(Sizes), follower : Seq(Sizes)]]

ReconcilerTyped ==
    /\ stage \in [Pair -> Stages]
    /\ folPos \in [Pair -> Int] /\ srcPos \in [Pair -> Int]
    /\ accum \in [Pair -> Int] /\ seen \in [Pair -> Int]
    /\ meant \in [Pair -> Int]
    /\ event \in BOOLEAN /\ subscribed \in BOOLEAN
    /\ stream \in Seq(Message)
    /\ subscribed => \E p \in Pair : stage[p] \in {"asked", "woken"}
    /\ last \in [Pair -> {"none", "aligned", "mismatch", "inconclusive"}]
    /\ running \subseteq Pair /\ named \subseteq Pair
    /\ faults \in 0 .. MaxFaults
    /\ ratio \in [Pair -> Ratios]
    /\ trades \in [Pair -> Nat]
    /\ unfilled \in Orders

IsRow(message) == "account" \in DOMAIN message

LEMMA MessageForms ==
    ASSUME NEW m \in Message
    PROVE  /\ m.asker \in Pair
           /\ IsRow(m) => m.account \in Pair /\ m.held \in Int
BY DEF Message, IsRow

LEMMA RowForms ==
    ASSUME NEW p \in Pair, NEW q \in Pair, NEW h \in Int
    PROVE  /\ Row(q, h, p) \in Message /\ IsRow(Row(q, h, p))
           /\ Row(q, h, p).account = q /\ Row(q, h, p).held = h
           /\ End(p) \in Message /\ ~IsRow(End(p))
BY DEF Row, End, Message, IsRow

LEMMA ScaledInt ==
    ASSUME NEW q \in Int, NEW r \in Ratio
    PROVE  /\ Scaled(q, r) \in Int
           /\ Scaled(q, r) = 0 => q = 0
           /\ r[1] = r[2] => Scaled(q, r) = q
<1>1. CASE q < 0
  <2>1. -q \in PosNat /\ Scaled(q, r) = -Scale(-q, r)
    BY <1>1 DEF PosNat, Scaled
  <2>2. Scale(-q, r) \in PosNat /\ (r[1] = r[2] => Scale(-q, r) = -q)
    BY <2>1, ScaleNear, ScaleExact
  <2>3. QED
    BY <1>1, <2>1, <2>2 DEF PosNat
<1>2. CASE q = 0
  BY <1>2 DEF Scaled, Scale
<1>3. CASE q > 0
  <2>1. q \in PosNat /\ Scaled(q, r) = Scale(q, r)
    BY <1>3 DEF PosNat, Scaled
  <2>2. Scale(q, r) \in PosNat /\ (r[1] = r[2] => Scale(q, r) = q)
    BY <2>1, ScaleNear, ScaleExact
  <2>3. QED
    BY <1>3, <2>1, <2>2 DEF PosNat
<1>4. QED
  BY <1>1, <1>2, <1>3

LEMMA RatioForms ==
    ASSUME ReconcilerTyped, NEW p \in Pair
    PROVE  ratio[p] \in Ratio
BY ReconcilerAssumption DEF ReconcilerTyped, Ratio, PosNat

(* The sequence of a finite set has its elements. *)
LEMMA SetSequence ==
    ASSUME NEW S, IsFiniteSet(S)
    PROVE  /\ SetToSeq(S) \in [1 .. Cardinality(S) -> S]
           /\ Cardinality(S) \in Nat
<1>1. /\ Cardinality(S) \in Nat
      /\ ExistsBijection(1 .. Cardinality(S), S)
  BY FS_CardinalityType
<1>2. PICK f \in [1 .. Cardinality(S) -> S] : IsInjective(f)
  BY <1>1 DEF ExistsBijection, Bijection, Injection
<1>3. QED
  BY <1>1, <1>2 DEF SetToSeq

(* An answer has a row of every account that is not flat, then its end. *)
LEMMA AnswerForms ==
    ASSUME folPos \in [Pair -> Int], NEW p \in Pair
    PROVE  LET a == Answer(p)
           IN  /\ a \in Seq(Message) /\ Len(a) >= 1
               /\ ~IsRow(a[Len(a)])
               /\ \A i \in 1 .. Len(a) - 1 :
                     IsRow(a[i]) /\ a[i].held = folPos[a[i].account]
               /\ (\E q \in Pair : folPos[q] # 0) => Len(a) >= 2
<1> DEFINE S == {q \in Pair : folPos[q] # 0}
           held == SetToSeq(S)
           n == Cardinality(S)
           rows == [i \in DOMAIN held |-> Row(held[i], folPos[held[i]], p)]
<1>1. IsFiniteSet(S)
  BY ReconcilerAssumption, FS_Subset
<1>2. held \in [1 .. n -> S] /\ n \in Nat
  BY <1>1, SetSequence
<1>3. \A i \in 1 .. n : held[i] \in Pair /\ folPos[held[i]] \in Int
  BY <1>2
<1>4. rows \in Seq(Message) /\ Len(rows) = n
  <2>1. DOMAIN held = 1 .. n
    BY <1>2
  <2>2. \A i \in 1 .. n : Row(held[i], folPos[held[i]], p) \in Message
    BY <1>3, RowForms
  <2> HIDE DEF held, n
  <2>3. rows = [i \in 1 .. n |-> Row(held[i], folPos[held[i]], p)]
    BY <2>1
  <2>4. rows \in [1 .. n -> Message]
    BY <2>2, <2>3
  <2>5. QED
    BY <1>2, <2>4
<1>5. \A i \in 1 .. n : /\ rows[i] = Row(held[i], folPos[held[i]], p)
                        /\ IsRow(rows[i]) /\ rows[i].held = folPos[rows[i].account]
  <2>1. DOMAIN held = 1 .. n
    BY <1>2
  <2> HIDE DEF held, n
  <2>2. QED
    BY <1>3, <2>1, RowForms
<1>6. Answer(p) = rows \o <<End(p)>>
  BY DEF Answer
<1>7. <<End(p)>> \in Seq(Message) /\ ~IsRow(End(p))
  BY RowForms
<1>10. (\E q \in Pair : folPos[q] # 0) => n # 0
  BY <1>1, FS_EmptySet
<1> HIDE DEF held, n, rows, S
<1>8. /\ Answer(p) \in Seq(Message) /\ Len(Answer(p)) = n + 1
      /\ Answer(p)[n + 1] = End(p)
      /\ \A i \in 1 .. n : Answer(p)[i] = rows[i]
  BY <1>2, <1>4, <1>6, <1>7
<1>9. QED
  BY <1>2, <1>5, <1>7, <1>8, <1>10


LEMMA ReconcilerInit == Init => ReconcilerTyped
<1> SUFFICES ASSUME Init PROVE ReconcilerTyped
  OBVIOUS
<1>1. ratio \in [Pair -> Ratios] /\ srcPos \in [Pair -> Int]
  BY ReconcilerAssumption DEF Init
<1>2. \A p \in Pair : Scaled(srcPos[p], ratio[p]) \in Int
  <2>1. \A p \in Pair : ratio[p] \in Ratio
    BY <1>1, ReconcilerAssumption DEF Ratio, PosNat
  <2>2. QED
    BY <1>1, <2>1, ScaledInt
<1>3. folPos \in [Pair -> Int] /\ meant \in [Pair -> Int]
  BY <1>2 DEF Init
<1>4. unfilled \in Orders /\ stream \in Seq(Message)
  BY DEF Init, ReadersInit, Orders
<1>5. trades \in [Pair -> Nat] /\ faults \in 0 .. MaxFaults
  BY ReconcilerAssumption DEF Init
<1>6. stage \in [Pair -> Stages] /\ accum \in [Pair -> Int]
  BY DEF Init, ReadersInit, Stages
<1>7. /\ seen \in [Pair -> Int] /\ running \subseteq Pair /\ named \subseteq Pair
      /\ last \in [Pair -> {"none", "aligned", "mismatch", "inconclusive"}]
  BY DEF Init
<1>8. event = FALSE /\ subscribed = FALSE
  BY DEF Init, ReadersInit
<1>9. QED
  BY <1>1, <1>3, <1>4, <1>5, <1>6, <1>7, <1>8 DEF ReconcilerTyped

LEMMA PopForms ==
    ASSUME NEW S, NEW q \in Seq(S), q # <<>>
    PROVE  /\ Head(q) \in S /\ Tail(q) \in Seq(S) /\ Len(q) >= 1
           /\ Head(q) = q[1] /\ Len(Tail(q)) = Len(q) - 1
           /\ \A i \in 1 .. Len(Tail(q)) : Tail(q)[i] = q[i + 1]
  OBVIOUS

LEMMA OrdersTyped ==
    ASSUME unfilled \in Orders,
           NEW p \in Pair, NEW a \in Seq(Sizes), NEW b \in Seq(Sizes)
    PROVE  /\ [unfilled EXCEPT ![p].source = a, ![p].follower = b] \in Orders
           /\ [unfilled EXCEPT ![p].source = a] \in Orders
           /\ [unfilled EXCEPT ![p].follower = b] \in Orders
BY DEF Orders

LEMMA CountFault ==
    ASSUME faults \in 0 .. MaxFaults, Fault
    PROVE  faults' \in 0 .. MaxFaults
BY ReconcilerAssumption DEF Fault

(* What the accounts do. *)
LEMMA TradesTyped ==
    ASSUME ReconcilerTyped, NEW p \in Pair,
           \/ \E q \in Sizes : Place(p, q)
           \/ SourceExecutes(p) \/ FollowerExecutes(p)
    PROVE  ReconcilerTyped'
<1> USE DEF readerVars, marketVars, passVars, historyVars
<1>0. ratio[p] \in Ratio /\ Sizes \subseteq Int
  BY RatioForms, ReconcilerAssumption
<1>1. ASSUME NEW q \in Sizes, Place(p, q) PROVE ReconcilerTyped'
  <2>1. faults' \in 0 .. MaxFaults /\ named' \subseteq Pair
    BY <1>1, CountFault DEF Place, ReconcilerTyped
  <2>2. /\ Append(unfilled[p].source, q) \in Seq(Sizes)
        /\ Append(unfilled[p].follower, q) \in Seq(Sizes)
        /\ unfilled[p].source \in Seq(Sizes)
        /\ unfilled[p].follower \in Seq(Sizes)
    BY DEF ReconcilerTyped, Orders
  <2>3. unfilled' \in Orders
    <3> DEFINE a == Append(unfilled[p].source, q)
               b == Append(unfilled[p].follower, q)
    <3>1. \/ unfilled' = [unfilled EXCEPT ![p].source = a, ![p].follower = b]
          \/ unfilled' = [unfilled EXCEPT ![p].source = a]
      BY <1>1 DEF Place
    <3>2. a \in Seq(Sizes) /\ b \in Seq(Sizes)
      BY <2>2
    <3> HIDE DEF a, b
    <3>3. unfilled \in Orders
      BY DEF ReconcilerTyped
    <3>4. /\ [unfilled EXCEPT ![p].source = a, ![p].follower = b] \in Orders
          /\ [unfilled EXCEPT ![p].source = a] \in Orders
      BY <3>2, <3>3, OrdersTyped
    <3>5. QED
      BY <3>1, <3>4, Zenon
  <2>4. trades' \in [Pair -> Nat]
    BY <1>1 DEF Place, ReconcilerTyped
  <2>5. QED
    BY <1>1, <2>1, <2>3, <2>4 DEF Place, ReconcilerTyped
<1>2. CASE SourceExecutes(p)
  <2> DEFINE orders == unfilled[p].source
  <2>1. orders \in Seq(Sizes) /\ orders # <<>>
    BY <1>2 DEF ReconcilerTyped, Orders, SourceExecutes
  <2>2. Head(orders) \in Int /\ Tail(orders) \in Seq(Sizes)
    BY <1>0, <2>1, PopForms
  <2>3. Scaled(Head(orders), ratio[p]) \in Int
    BY <1>0, <2>2, ScaledInt
  <2> DEFINE moved == Scaled(Head(orders), ratio[p])
  <2>4. /\ srcPos' = [srcPos EXCEPT ![p] = @ + Head(orders)]
        /\ meant' = [meant EXCEPT ![p] = @ + moved]
        /\ unfilled' = [unfilled EXCEPT ![p].source = Tail(orders)]
    BY <1>2 DEF SourceExecutes
  <2>5. unfilled' \in Orders
    BY <2>1, <2>2, <2>4, OrdersTyped DEF ReconcilerTyped
  <2> HIDE DEF moved
  <2>6. srcPos' \in [Pair -> Int] /\ meant' \in [Pair -> Int]
    <3> DEFINE sold == Head(orders)
    <3>1. /\ srcPos' = [srcPos EXCEPT ![p] = @ + sold]
          /\ meant' = [meant EXCEPT ![p] = @ + moved]
          /\ sold \in Int /\ moved \in Int
      BY <2>2, <2>3, <2>4 DEF moved
    <3> HIDE DEF sold
    <3>2. QED
      BY <3>1 DEF ReconcilerTyped
  <2>7. QED
    BY <1>2, <2>5, <2>6 DEF ReconcilerTyped, SourceExecutes
<1>3. CASE FollowerExecutes(p)
  <2> DEFINE orders == unfilled[p].follower
             q == Scaled(Head(orders), ratio[p])
  <2>1. orders \in Seq(Sizes) /\ orders # <<>>
    BY <1>3 DEF ReconcilerTyped, Orders, FollowerExecutes
  <2>2. Head(orders) \in Int /\ Tail(orders) \in Seq(Sizes)
    BY <1>0, <2>1, PopForms
  <2>3. q \in Int /\ Moves(p, q)
    BY <1>0, <1>3, <2>2, ScaledInt DEF FollowerExecutes
  <2> HIDE DEF q
  <2>4. folPos' \in [Pair -> Int]
    <3>1. folPos \in [Pair -> Int] /\ folPos' = [folPos EXCEPT ![p] = @ + q]
      BY <2>3 DEF ReconcilerTyped, Moves
    <3>2. QED
      BY <2>3, <3>1
  <2>5. stream' \in Seq(Message)
    <3>1. Row(p, folPos'[p], p) \in Message
      BY <2>4, RowForms
    <3>2. QED
      BY <2>3, <3>1 DEF ReconcilerTyped, Moves
  <2>6. unfilled' \in Orders
    BY <1>3, <2>1, <2>2, OrdersTyped DEF ReconcilerTyped, FollowerExecutes
  <2>7. UNCHANGED <<stage, accum, event, subscribed, ratio, srcPos, trades,
                    named, meant, seen, last, running, faults>>
    BY <1>3, <2>3 DEF FollowerExecutes, Moves
  <2>8. QED
    BY <2>4, <2>5, <2>6, <2>7 DEF ReconcilerTyped
<1>4. QED
  BY <1>1, <1>2, <1>3

(* What the reconcilers and the reader do. *)
LEMMA PassesTyped ==
    ASSUME ReconcilerTyped,
           \/ \E p \in Pair : Pass(p) \/ ReadFails(p) \/ TimesOut(p) \/ Stop(p)
           \/ Reader
    PROVE  ReconcilerTyped'
<1> USE DEF readerVars, marketVars, passVars, historyVars
<1>1. ASSUME NEW p \in Pair, Begin(p) PROVE ReconcilerTyped'
  BY <1>1 DEF Begin, ReconcilerTyped, Stages
<1>2. ASSUME NEW p \in Pair, ReadSource(p) PROVE ReconcilerTyped'
  BY <1>2 DEF ReadSource, ReconcilerTyped, Stages
<1>3. ASSUME NEW p \in Pair, ResetAccum(p), ReadFollower(p) PROVE ReconcilerTyped'
  BY <1>3 DEF ReadFollower, ResetAccum, ReconcilerTyped, Stages
<1>4. ASSUME NEW p \in Pair, Request(p), ReadFollower(p) PROVE ReconcilerTyped'
  <2>1. stream' \in Seq(Message)
    <3>1. Answer(p) \in Seq(Message)
      BY AnswerForms DEF ReconcilerTyped
    <3>2. QED
      BY <1>4, <3>1 DEF Request, ReconcilerTyped
  <2>2. stage'[p] = "asked" /\ stage' \in [Pair -> Stages]
    BY <1>4 DEF Request, ReconcilerTyped, Stages
  <2>3. QED
    BY <1>4, <2>1, <2>2 DEF ReadFollower, Request, ReconcilerTyped
<1>5. ASSUME NEW p \in Pair, Woken(p),
             UNCHANGED <<folPos, marketVars, passVars>>, faults' \in 0 .. MaxFaults
      PROVE  ReconcilerTyped'
  <2>1. stage'[p] = "woken" /\ stage' \in [Pair -> Stages]
    BY <1>5 DEF Woken, ReconcilerTyped, Stages
  <2>2. QED
    BY <1>5, <2>1 DEF Woken, ReconcilerTyped
<1>6. ASSUME NEW p \in Pair, Compare(p) PROVE ReconcilerTyped'
  <2>1. faults' \in 0 .. MaxFaults
    BY <1>6, CountFault DEF Compare, ReconcilerTyped
  <2>2. last' \in [Pair -> {"none", "aligned", "mismatch", "inconclusive"}]
    BY <1>6 DEF Compare, ReconcilerTyped
  <2>3. QED
    BY <1>6, <2>1, <2>2
       DEF Compare, CancelSubscription, ReconcilerTyped, Stages
<1>7. ASSUME NEW p \in Pair, ReadFails(p) PROVE ReconcilerTyped'
  <2>1. faults' \in 0 .. MaxFaults
    BY <1>7, CountFault DEF ReadFails, ReconcilerTyped
  <2>2. QED
    BY <1>7, <2>1 DEF ReadFails, ReconcilerTyped, Stages
<1>8. ASSUME NEW p \in Pair, Stop(p) PROVE ReconcilerTyped'
  BY <1>8 DEF Stop, ReconcilerTyped
<1>9. CASE Reader
  <2>1. stream \in Seq(Message) /\ stream # <<>>
    BY <1>9 DEF Reader, Callback, ReconcilerTyped
  <2>2. Head(stream) \in Message /\ Tail(stream) \in Seq(Message)
    BY <2>1, PopForms
  <2>3. accum' \in [Pair -> Int] /\ event' \in BOOLEAN /\ stream' = Tail(stream)
        /\ UNCHANGED <<stage, subscribed>>
    BY <1>9, <2>2, MessageForms DEF Reader, Callback, ReconcilerTyped, IsRow
  <2>4. QED
    BY <1>9, <2>2, <2>3 DEF Reader, ReconcilerTyped
<1>10. ASSUME NEW p \in Pair, TimesOut(p) PROVE ReconcilerTyped'
  <2>1. faults' \in 0 .. MaxFaults
    BY <1>10, CountFault DEF TimesOut, ReconcilerTyped
  <2>2. QED
    BY <1>5, <1>10, <2>1 DEF TimesOut
<1>11. ASSUME NEW p \in Pair, Woken(p), ReadFollower(p) PROVE ReconcilerTyped'
  BY <1>5, <1>11 DEF ReadFollower, ReconcilerTyped
<1>12. QED
  BY <1>1, <1>2, <1>3, <1>4, <1>6, <1>7, <1>8, <1>9, <1>10, <1>11
     DEF Pass, ReadFollower

LEMMA ReconcilerStep ==
    ASSUME ReconcilerTyped, [Next]_vars
    PROVE  ReconcilerTyped'
<1>1. CASE UNCHANGED vars
  BY <1>1
     DEF vars, readerVars, marketVars, passVars, historyVars, ReconcilerTyped
<1>2. QED
  BY <1>1, TradesTyped, PassesTyped DEF Next

(* Whatever the pairs trade and whichever reads fail, every variable keeps
   its type, and the Gateway streams changes only while some pair reads. *)
THEOREM ReconcilerTypeCorrect == Spec => []TypeOK
<1>1. Init => ReconcilerTyped
  BY ReconcilerInit
<1>2. ReconcilerTyped /\ [Next]_vars => ReconcilerTyped'
  BY ReconcilerStep
<1>3. ReconcilerTyped => TypeOK
  BY DEF ReconcilerTyped, TypeOK
<1>4. QED
  BY <1>1, <1>2, <1>3, PTL DEF Spec


-----------------------------------------------------------------------------
(* What the follower should hold.                                          *)

\* At ratio one in-step is equality; a single order leaves its own rounding.
MeantFollows(p) ==
    /\ Exact(p) => meant[p] = srcPos[p]
    /\ trades[p] = 0 => srcPos[p] = 0 /\ unfilled[p].source = <<>>
    /\ trades[p] = 1 => \/ unfilled[p].source = <<>>
                        \/ srcPos[p] = 0 /\ Len(unfilled[p].source) = 1
    /\ trades[p] <= 1 => meant[p] = Scaled(srcPos[p], ratio[p])

LEMMA ScaledZero == \A r : Scaled(0, r) = 0
BY DEF Scaled, Scale

LEMMA MeantInit == Init => \A p \in Pair : MeantFollows(p)
<1> SUFFICES ASSUME Init, NEW p \in Pair PROVE MeantFollows(p)
  OBVIOUS
<1>0. ReconcilerTyped
  BY ReconcilerInit
<1>1. ratio[p] \in Ratio /\ srcPos[p] \in Int
  BY <1>0, RatioForms DEF ReconcilerTyped
<1>2. /\ meant[p] = Scaled(srcPos[p], ratio[p])
      /\ unfilled[p].source = <<>>
      /\ trades[p] = IF srcPos[p] = 0 THEN 0 ELSE 1
  BY DEF Init
<1>3. Exact(p) => meant[p] = srcPos[p]
  BY <1>1, <1>2, ScaledInt DEF Exact
<1>4. QED
  BY <1>2, <1>3 DEF MeantFollows

LEMMA MeantStep ==
    ASSUME ReconcilerTyped, [Next]_vars, NEW p \in Pair, MeantFollows(p)
    PROVE  MeantFollows(p)'
<1>0. /\ ratio' = ratio /\ ratio[p] \in Ratio /\ Sizes \subseteq Int
      /\ srcPos[p] \in Int /\ meant[p] \in Int /\ trades[p] \in Nat
      /\ unfilled[p].source \in Seq(Sizes)
  BY RatioForms, ReconcilerAssumption
     DEF Next, Place, SourceExecutes, FollowerExecutes, Pass, Begin,
         ReadSource, ReadFollower, Compare, ReadFails, TimesOut, Stop, Reader,
         marketVars, vars, ReconcilerTyped, Orders
<1>1. CASE /\ UNCHANGED <<srcPos, meant, trades>>
           /\ unfilled'[p].source = unfilled[p].source
  BY <1>0, <1>1 DEF MeantFollows, Exact
<1>2. ASSUME NEW q \in Sizes, Place(p, q) PROVE MeantFollows(p)'
  <2>1. trades'[p] = trades[p] + 1 /\ srcPos' = srcPos /\ meant' = meant
    BY <1>2 DEF Place, ReconcilerTyped
  <2>2. unfilled'[p].source = Append(unfilled[p].source, q)
    BY <1>2 DEF Place, ReconcilerTyped, Orders
  <2>3. trades[p] = 0 => Len(unfilled'[p].source) = 1
    BY <1>0, <2>2 DEF MeantFollows
  <2>4. QED
    BY <1>0, <2>1, <2>3 DEF MeantFollows, Exact
<1>3. CASE SourceExecutes(p)
  <2> DEFINE orders == unfilled[p].source
             sold == Head(orders)
  <2>1. /\ orders # <<>> /\ trades' = trades
        /\ srcPos'[p] = srcPos[p] + sold
        /\ meant'[p] = meant[p] + Scaled(sold, ratio[p])
    BY <1>3 DEF SourceExecutes, ReconcilerTyped
  <2>2. unfilled'[p].source = Tail(orders)
    BY <1>3 DEF SourceExecutes, ReconcilerTyped, Orders
  <2>3. sold \in Int /\ Len(Tail(orders)) = Len(orders) - 1
        /\ Tail(orders) \in Seq(Sizes)
    BY <1>0, <2>1, PopForms
  <2>4. Exact(p) => Scaled(sold, ratio[p]) = sold
    BY <1>0, <2>3, ScaledInt DEF Exact
  <2>5. ASSUME trades[p] = 1
        PROVE  srcPos'[p] = sold /\ meant'[p] = Scaled(sold, ratio[p])
               /\ unfilled'[p].source = <<>>
    <3>1. srcPos[p] = 0 /\ Len(orders) = 1 /\ meant[p] = 0
      BY <2>1, <2>5, ScaledZero DEF MeantFollows
    <3>2. Scaled(sold, ratio[p]) \in Int
      BY <1>0, <2>3, ScaledInt
    <3> HIDE DEF sold, orders
    <3>3. Tail(orders) = <<>>
      <4> DEFINE rest == Tail(orders)
      <4>1. rest \in Seq(Sizes) /\ Len(rest) = 0
        BY <2>3, <3>1
      <4> HIDE DEF rest
      <4>2. rest = <<>>
        BY <4>1
      <4>3. QED
        BY <4>2 DEF rest
    <3>4. QED
      BY <2>1, <2>2, <2>3, <3>1, <3>2, <3>3
  <2>6. trades[p] # 0
    BY <2>1 DEF MeantFollows
  <2>7. Exact(p)' => meant'[p] = srcPos'[p]
    <3> HIDE DEF sold, orders
    <3>1. QED
      BY <1>0, <2>1, <2>4 DEF MeantFollows, Exact
  <2>8. QED
    BY <1>0, <2>1, <2>5, <2>6, <2>7 DEF MeantFollows
<1>4. ASSUME NEW k \in Pair, k # p,
             (\E q \in Sizes : Place(k, q)) \/ SourceExecutes(k)
      PROVE  MeantFollows(p)'
  <2>1. /\ srcPos'[p] = srcPos[p] /\ meant'[p] = meant[p]
        /\ trades'[p] = trades[p] /\ unfilled'[p] = unfilled[p]
    BY <1>4 DEF Place, SourceExecutes, ReconcilerTyped, Orders
  <2>2. QED
    BY <1>0, <2>1 DEF MeantFollows, Exact
<1>5. ASSUME NEW k \in Pair, FollowerExecutes(k) PROVE MeantFollows(p)'
  <2>1. /\ UNCHANGED <<srcPos, meant, trades>>
        /\ unfilled'[p].source = unfilled[p].source
    BY <1>5 DEF FollowerExecutes, ReconcilerTyped, Orders
  <2>2. QED
    BY <1>1, <2>1
<1>6. CASE UNCHANGED marketVars
  BY <1>1, <1>6 DEF marketVars
<1>7. QED
  BY <1>2, <1>3, <1>4, <1>5, <1>6
     DEF Next, Pass, Begin, ReadSource, ReadFollower, Compare, ReadFails,
         TimesOut, Stop, Reader, marketVars, vars


-----------------------------------------------------------------------------
(* What a pass has read, when one pair has the client to itself.           *)

\* Pairs that share a client reset each other's accumulator.
OnePair == \A p, q \in Pair : p = q

\* Nothing has moved the two accounts apart in this pass.
Undisturbed(p) == p \in quiet \/ p \notin parted

\* Every row on its way is what the account holds; the row of an account that
\* is not flat comes before the end, after which the accumulator has it.
ReadsTruly(p) ==
    /\ \A i \in DOMAIN stream : IsRow(stream[i]) => stream[i].held = folPos[p]
    /\ \A i \in DOMAIN stream : ~IsRow(stream[i]) =>
          accum[p] = folPos[p] \/ \E j \in 1 .. i - 1 : IsRow(stream[j])
    /\ event => accum[p] = folPos[p]

PassInv(p) ==
    /\ stage[p] \in {"source", "follower", "reset"} => stream = <<>>
    /\ stage[p] = "reset" => accum[p] = 0
    /\ stage[p] = "woken" /\ p \notin excused => event
    /\ stage[p] # "idle" /\ p \notin parted => InStep(p)
    /\ stage[p] \notin {"idle", "source"} /\ Undisturbed(p) => seen[p] = srcPos[p]
    /\ stage[p] \in {"asked", "woken"} /\ Undisturbed(p) => ReadsTruly(p)

LEMMA SoleReader ==
    ASSUME OnePair, ReconcilerTyped, NEW p \in Pair
    PROVE  /\ subscribed => stage[p] \in {"asked", "woken"}
           /\ \A i \in DOMAIN stream :
                 /\ stream[i] \in Message
                 /\ stream[i].asker = p
                 /\ IsRow(stream[i]) => stream[i].account = p
<1>1. \A i \in DOMAIN stream : stream[i] \in Message
  BY DEF ReconcilerTyped
<1>2. QED
  BY <1>1, MessageForms DEF OnePair, ReconcilerTyped

(* An execution leaves the pass undisturbed only if it moved nothing. *)
LEMMA TradesKeepPass ==
    ASSUME OnePair, ReconcilerTyped, NEW p \in Pair, PassInv(p),
           \/ \E q \in Sizes : Place(p, q)
           \/ SourceExecutes(p) \/ FollowerExecutes(p)
    PROVE  PassInv(p)'
<1>0. ratio[p] \in Ratio /\ Sizes \subseteq Int /\ folPos[p] \in Int
      /\ srcPos[p] \in Int /\ meant[p] \in Int /\ stream \in Seq(Message)
  BY RatioForms, ReconcilerAssumption DEF ReconcilerTyped
<1>1. ASSUME NEW q \in Sizes, Place(p, q) PROVE PassInv(p)'
  BY <1>1
     DEF Place, PassInv, Undisturbed, ReadsTruly, InStep, readerVars, passVars,
         historyVars
<1>2. ASSUME SourceExecutes(p) \/ FollowerExecutes(p), stage[p] # "idle",
             Undisturbed(p)'
      PROVE  p \notin parted' /\ p \notin parted /\ folPos'[p] = meant'[p]
             /\ folPos[p] = meant[p]
  <2>1. p \notin quiet' /\ p \notin parted'
    BY <1>2 DEF SourceExecutes, FollowerExecutes, Executed, Undisturbed
  <2>2. p \notin parted /\ folPos'[p] = meant'[p]
    BY <1>2, <2>1 DEF SourceExecutes, FollowerExecutes, Executed
  <2>3. QED
    BY <1>2, <2>1, <2>2 DEF PassInv, InStep
<1>3. CASE SourceExecutes(p)
  <2> DEFINE orders == unfilled[p].source
             sold == Head(orders)
  <2>1. orders \in Seq(Sizes) /\ orders # <<>>
    BY <1>3 DEF ReconcilerTyped, Orders, SourceExecutes
  <2>2. sold \in Int /\ Scaled(sold, ratio[p]) \in Int
        /\ (Scaled(sold, ratio[p]) = 0 => sold = 0)
    BY <1>0, <2>1, PopForms, ScaledInt
  <2>3. /\ srcPos'[p] = srcPos[p] + sold
        /\ meant'[p] = meant[p] + Scaled(sold, ratio[p])
        /\ UNCHANGED <<folPos, stage, accum, event, stream, seen>>
        /\ excused' = excused
    BY <1>3
       DEF SourceExecutes, Executed, ReconcilerTyped, readerVars, passVars
  <2>4. ASSUME stage[p] # "idle", Undisturbed(p)'
        PROVE  srcPos'[p] = srcPos[p] /\ Undisturbed(p)
    <3>1. folPos[p] = meant'[p] /\ folPos[p] = meant[p] /\ Undisturbed(p)
      BY <1>2, <1>3, <2>3, <2>4 DEF Undisturbed
    <3> HIDE DEF sold, orders
    <3>2. sold = 0
      BY <1>0, <2>2, <2>3, <3>1
    <3>3. QED
      BY <1>0, <2>3, <3>1, <3>2
  <2>5. stage[p] # "idle" /\ p \notin parted' => InStep(p)'
    BY <1>2, <1>3 DEF Undisturbed, InStep
  <2>6. QED
    BY <2>3, <2>4, <2>5 DEF PassInv, ReadsTruly
<1>4. CASE FollowerExecutes(p)
  <2> DEFINE q == Scaled(Head(unfilled[p].follower), ratio[p])
  <2>1. Moves(p, q) /\ UNCHANGED <<srcPos, meant, seen, excused>>
    BY <1>4 DEF FollowerExecutes, Executed, passVars
  <2> HIDE DEF q
  <2>2. UNCHANGED <<stage, accum, event, subscribed>>
    BY <2>1 DEF Moves
  <2>3. stream' = stream \/ (subscribed /\ stream' = Append(stream, Row(p, folPos'[p], p)))
    BY <2>1 DEF Moves
  <2>4. stage[p] # "idle" /\ p \notin parted' => InStep(p)'
    BY <1>2, <1>4 DEF Undisturbed, InStep
  <2>5. ASSUME stage[p] # "idle", Undisturbed(p)'
        PROVE  folPos'[p] = folPos[p] /\ Undisturbed(p)
    BY <1>2, <1>4, <2>1, <2>5 DEF Undisturbed
  <2>6. ASSUME stage[p] \in {"asked", "woken"}, Undisturbed(p)'
        PROVE  ReadsTruly(p)'
    <3>1. folPos'[p] = folPos[p] /\ ReadsTruly(p)
      BY <2>5, <2>6 DEF PassInv
    <3>2. CASE stream' = stream
      BY <2>2, <3>1, <3>2 DEF ReadsTruly
    <3>3. CASE stream' = Append(stream, Row(p, folPos'[p], p))
      <4> DEFINE r == Row(p, folPos'[p], p)
      <4>1. IsRow(r) /\ r.held = folPos[p] /\ r \in Message
        BY <1>0, <3>1, RowForms
      <4> HIDE DEF r
      <4>2. /\ DOMAIN stream' = 1 .. Len(stream) + 1
            /\ stream'[Len(stream) + 1] = r
            /\ \A i \in DOMAIN stream : stream'[i] = stream[i]
            /\ DOMAIN stream = 1 .. Len(stream) /\ Len(stream) \in Nat
        BY <1>0, <3>3, <4>1 DEF r
      <4>3. \A i \in DOMAIN stream' : ~IsRow(stream'[i]) => i \in DOMAIN stream
        BY <4>1, <4>2
      <4>4. \A i \in DOMAIN stream : \A j \in 1 .. i - 1 : j \in DOMAIN stream
        BY <4>2
      <4>5. QED
        BY <2>2, <3>1, <4>1, <4>2, <4>3, <4>4 DEF ReadsTruly
    <3>4. QED
      BY <2>3, <3>2, <3>3
  <2>7. stage[p] \in {"source", "follower", "reset"} => stream' = stream
    BY <2>3, SoleReader
  <2>8. QED
    BY <2>1, <2>2, <2>4, <2>5, <2>6, <2>7 DEF PassInv
<1>5. QED
  BY <1>1, <1>3, <1>4


LEMMA ReaderKeepsPass ==
    ASSUME OnePair, ReconcilerTyped, NEW p \in Pair, PassInv(p), Reader
    PROVE  PassInv(p)'
<1> DEFINE m == Head(stream)
<1>0. /\ stream \in Seq(Message) /\ stream # <<>> /\ stream' = Tail(stream)
      /\ stage' = stage /\ UNCHANGED <<folPos, srcPos, meant, seen>>
      /\ UNCHANGED <<parted, quiet, excused>>
  BY DEF Reader, Callback, ReconcilerTyped, marketVars, passVars, historyVars
<1>1. /\ m = stream[1] /\ 1 \in DOMAIN stream /\ m \in Message
      /\ Len(stream) \in Nat /\ DOMAIN stream = 1 .. Len(stream)
      /\ DOMAIN stream' = 1 .. Len(stream) - 1
      /\ \A i \in DOMAIN stream' : stream'[i] = stream[i + 1]
  BY <1>0, PopForms
<1>2. IsRow(m) => m.account = p /\ accum' = [accum EXCEPT ![p] = m.held] /\ event' = event
  BY <1>1, SoleReader DEF Reader, Callback, IsRow
<1>3. ~IsRow(m) => event' = TRUE /\ accum' = accum
  BY DEF Reader, Callback, IsRow
<1> HIDE DEF m
<1>4. ASSUME ReadsTruly(p) PROVE ReadsTruly(p)' /\ accum'[p] = folPos[p]
  <2>1. accum'[p] = folPos[p]
    <3>1. CASE IsRow(m)
      BY <1>1, <1>2, <1>4, <3>1 DEF ReadsTruly, ReconcilerTyped
    <3>2. CASE ~IsRow(m)
      <4>1. ~ \E j \in 1 .. 1 - 1 : IsRow(stream[j])
        OBVIOUS
      <4>2. QED
        BY <1>1, <1>3, <1>4, <3>2, <4>1 DEF ReadsTruly
    <3>3. QED
      BY <3>1, <3>2
  <2>2. \A i \in DOMAIN stream' : i + 1 \in DOMAIN stream
    BY <1>1
  <2>3. \A i \in DOMAIN stream' : IsRow(stream'[i]) => stream'[i].held = folPos[p]
    BY <1>1, <1>4, <2>2 DEF ReadsTruly
  <2>4. QED
    BY <1>0, <2>1, <2>3 DEF ReadsTruly
<1>5. stage[p] \notin {"source", "follower", "reset"}
  BY <1>0 DEF PassInv
<1>6. event => event'
  BY <1>2, <1>3
<1>7. QED
  BY <1>0, <1>4, <1>5, <1>6 DEF PassInv, InStep, Undisturbed

LEMMA PassKeepsPass ==
    ASSUME OnePair, ReconcilerTyped, NEW p \in Pair, PassInv(p),
           Pass(p) \/ ReadFails(p) \/ TimesOut(p) \/ Stop(p)
    PROVE  PassInv(p)'
<1> USE DEF readerVars, marketVars, passVars, historyVars
<1>0. stage \in [Pair -> Stages] /\ stream \in Seq(Message)
  BY DEF ReconcilerTyped
<1>1. CASE Begin(p)
  <2>1. stream = <<>>
    <3>1. \A i \in DOMAIN stream : FALSE
      BY <1>1, SoleReader DEF Begin
    <3>2. stream # <<>> => 1 \in DOMAIN stream
      BY <1>0, PopForms
    <3>3. QED
      BY <3>1, <3>2
  <2>2. stage'[p] = "source" /\ UNCHANGED <<stream, folPos, meant>>
    BY <1>0, <1>1 DEF Begin
  <2>3. p \notin parted' => InStep(p)'
    BY <1>1, <2>2 DEF Begin, InStep
  <2>4. QED
    BY <2>1, <2>2, <2>3 DEF PassInv
<1>2. CASE ReadSource(p)
  <2>1. stage[p] = "source" /\ stage'[p] = "follower"
    BY <1>0, <1>2 DEF ReadSource
  <2>2. seen'[p] = srcPos[p]
    BY <1>2 DEF ReadSource, ReconcilerTyped
  <2>3. UNCHANGED <<stream, folPos, meant, srcPos, parted>>
    BY <1>2 DEF ReadSource
  <2>4. QED
    BY <2>1, <2>2, <2>3 DEF PassInv, InStep
<1>3. CASE ReadFollower(p) /\ ResetAccum(p)
  <2>1. stage[p] = "follower" /\ stage'[p] = "reset"
    BY <1>0, <1>3 DEF ResetAccum
  <2>2. accum'[p] = 0
    BY <1>3 DEF ResetAccum
  <2>3. UNCHANGED <<stream, folPos, meant, srcPos, seen, parted, quiet>>
    BY <1>3 DEF ResetAccum, ReadFollower
  <2>4. QED
    BY <2>1, <2>2, <2>3 DEF PassInv, InStep, Undisturbed
<1>4. CASE ReadFollower(p) /\ Request(p)
  <2>1. /\ stage[p] = "reset" /\ stage'[p] = "asked" /\ event' = FALSE
        /\ UNCHANGED <<accum, folPos, meant, srcPos, seen, parted, quiet>>
    BY <1>0, <1>4 DEF Request, ReadFollower
  <2> DEFINE a == Answer(p)
  <2>2. /\ a \in Seq(Message) /\ Len(a) >= 1
        /\ ~IsRow(a[Len(a)])
        /\ \A i \in 1 .. Len(a) - 1 :
              IsRow(a[i]) /\ a[i].held = folPos[a[i].account]
        /\ (\E q \in Pair : folPos[q] # 0) => Len(a) >= 2
    BY AnswerForms DEF ReconcilerTyped
  <2>3. stream = <<>> /\ accum[p] = 0
    BY <2>1 DEF PassInv
  <2>4. stream' = a
    BY <1>4, <2>2, <2>3, ConcatEmptySeq DEF Request
  <2>5. /\ a \in Seq(Message)
        /\ \A i \in DOMAIN a : IsRow(a[i]) => a[i].account \in Pair
    BY <2>2, MessageForms
  <2> HIDE DEF a
  <2>6. \A i \in DOMAIN a : IsRow(a[i]) => a[i].held = folPos[p]
    <3>1. \A i \in DOMAIN a : IsRow(a[i]) => i \in 1 .. Len(a) - 1
      BY <2>2
    <3>2. QED
      BY <2>2, <2>5, <3>1 DEF OnePair
  <2>7. \A i \in DOMAIN a : ~IsRow(a[i]) =>
          accum[p] = folPos[p] \/ \E j \in 1 .. i - 1 : IsRow(a[j])
    <3>1. CASE folPos[p] = 0
      BY <2>3, <3>1
    <3>2. CASE folPos[p] # 0
      <4>1. Len(a) >= 2 /\ 1 \in 1 .. Len(a) - 1 /\ IsRow(a[1])
        BY <2>2, <3>2
      <4>2. \A i \in DOMAIN a : ~IsRow(a[i]) => 1 \in 1 .. i - 1
        BY <2>2, <4>1
      <4>3. QED
        BY <4>1, <4>2
    <3>3. QED
      BY <3>1, <3>2
  <2>8. ReadsTruly(p)'
    BY <2>1, <2>4, <2>6, <2>7 DEF ReadsTruly
  <2>9. QED
    BY <2>1, <2>8 DEF PassInv, InStep, Undisturbed
<1>5. ASSUME Woken(p), event \/ p \in excused',
             UNCHANGED <<folPos, meant, srcPos, seen, parted, quiet>>
      PROVE  PassInv(p)'
  <2>1. /\ stage[p] = "asked" /\ stage'[p] = "woken"
        /\ UNCHANGED <<accum, event, stream>>
    BY <1>0, <1>5 DEF Woken
  <2>2. Undisturbed(p)' => ReadsTruly(p)'
    BY <1>5, <2>1 DEF PassInv, Undisturbed, ReadsTruly
  <2>3. QED
    BY <1>5, <2>1, <2>2 DEF PassInv, InStep, Undisturbed
<1>6. CASE stage'[p] = "idle"
  BY <1>6 DEF PassInv
<1>7. CASE Stop(p)
  BY <1>7 DEF Stop, PassInv, InStep, Undisturbed, ReadsTruly
<1>8. CASE ReadFollower(p) /\ event /\ Woken(p)
  BY <1>5, <1>8 DEF ReadFollower
<1>9. CASE TimesOut(p)
  BY <1>5, <1>9 DEF TimesOut
<1>10. CASE Compare(p) \/ ReadFails(p)
  BY <1>0, <1>6, <1>10 DEF Compare, ReadFails
<1>11. QED
  BY <1>1, <1>2, <1>3, <1>4, <1>7, <1>8, <1>9, <1>10 DEF Pass, ReadFollower

ReconcilerInv ==
    ReconcilerTyped /\ \A p \in Pair : MeantFollows(p) /\ PassInv(p)

LEMMA ReconcilerInvariant ==
    ASSUME OnePair PROVE Spec => []ReconcilerInv
<1>1. Init => ReconcilerInv
  <2>1. Init => \A p \in Pair : PassInv(p)
    BY DEF Init, ReadersInit, PassInv
  <2>2. QED
    BY <2>1, ReconcilerInit, MeantInit DEF ReconcilerInv
<1>2. ReconcilerInv /\ [Next]_vars => ReconcilerInv'
  <2> SUFFICES ASSUME ReconcilerInv, [Next]_vars PROVE ReconcilerInv'
    OBVIOUS
  <2>1. ReconcilerTyped /\ ReconcilerTyped'
    BY ReconcilerStep DEF ReconcilerInv
  <2>2. ASSUME NEW p \in Pair PROVE PassInv(p)'
    <3>1. PassInv(p) /\ \A k \in Pair : k = p
      BY <2>2 DEF ReconcilerInv, OnePair
    <3>2. CASE UNCHANGED vars
      BY <3>1, <3>2
         DEF vars, readerVars, marketVars, passVars, historyVars, PassInv,
             InStep, Undisturbed, ReadsTruly
    <3>3. CASE Next
      BY <2>1, <3>1, <3>3, TradesKeepPass, ReaderKeepsPass, PassKeepsPass
         DEF Next
    <3>4. QED
      BY <3>2, <3>3
  <2>3. \A p \in Pair : MeantFollows(p)'
    BY <2>1, MeantStep DEF ReconcilerInv
  <2>4. QED
    BY <2>1, <2>2, <2>3 DEF ReconcilerInv
<1>3. QED
  BY <1>1, <1>2, PTL DEF Spec


-----------------------------------------------------------------------------
(* The two promises.                                                       *)

LEMMA OnlyCompare ==
    ASSUME ReconcilerTyped, [Next]_vars, NEW p \in Pair, Compared(p)
    PROVE  Compare(p)
<1>1. stage \in [Pair -> Stages] /\ stage[p] = "woken" /\ stage'[p] = "idle"
  BY DEF ReconcilerTyped, Compared
<1>2. CASE UNCHANGED stage
  BY <1>1, <1>2
<1>3. ASSUME NEW k \in Pair, k # p, stage' = [stage EXCEPT ![k] = stage'[k]]
      PROVE  FALSE
  BY <1>1, <1>3
<1>4. ASSUME NEW k \in Pair,
             Pass(k) \/ ReadFails(k) \/ TimesOut(k), ~Compare(k)
      PROVE  FALSE
  BY <1>1, <1>4
     DEF Pass, Begin, ReadSource, ReadFollower, ResetAccum, Request, Woken,
         ReadFails, TimesOut
<1>5. ASSUME NEW k \in Pair, Compare(k), k # p PROVE FALSE
  BY <1>1, <1>5 DEF Compare
<1>6. QED
  BY <1>2, <1>4, <1>5
     DEF Next, Place, SourceExecutes, FollowerExecutes, Moves, Stop, Reader,
         Callback, vars, readerVars

(* What a comparison that nothing excuses compares. *)
LEMMA ComparedAlike ==
    ASSUME ReconcilerInv, NEW p \in Pair, Compare(p),
           p \notin excused', Undisturbed(p)
    PROVE  /\ last'[p] = IF IsAligned(srcPos[p], folPos[p], ratio[p])
                         THEN "aligned" ELSE "mismatch"
           /\ p \notin parted => folPos[p] = meant[p]
<1>1. PassInv(p) /\ stage[p] = "woken"
  BY DEF ReconcilerInv, Compare
<1>2. PICK found \in BOOLEAN :
        LET known == found /\ (accum[p] = 0 \/ p \in named)
        IN  /\ last' = [last EXCEPT ![p] =
                          IF Agree(seen[p], accum[p], ratio[p], known)
                          THEN "aligned" ELSE "mismatch"]
            /\ excused' = IF known THEN excused ELSE excused \cup {p}
  BY DEF Compare
<1>3. found /\ (accum[p] = 0 \/ p \in named) /\ p \notin excused
  BY <1>2
<1>4. last'[p] = IF Agree(seen[p], accum[p], ratio[p], TRUE)
                 THEN "aligned" ELSE "mismatch"
  BY <1>2, <1>3 DEF ReconcilerInv, ReconcilerTyped
<1>5. seen[p] = srcPos[p] /\ accum[p] = folPos[p]
  BY <1>1, <1>3 DEF PassInv, ReadsTruly
<1>6. p \notin parted => folPos[p] = meant[p]
  BY <1>1 DEF PassInv, InStep
<1>7. QED
  BY <1>4, <1>5, <1>6 DEF Agree

(* An alarm is never about nothing, however the two accounts trade between
   the two reads of a pass: not before or in the pass out of step, both were
   read as they stood, and what one order's rounding leaves is aligned. *)
THEOREM AlarmsAreReal == OnePair /\ Spec => AlarmIsReal
<1>1. ReconcilerInv /\ [Next]_vars =>
        [\A p \in Pair :
          Compared(p) /\ last'[p] = "mismatch" =>
              \/ p \in parted \/ p \in excused'
              \/ ~Exact(p) /\ trades[p] > 1]_vars
  <2> SUFFICES ASSUME ReconcilerInv, [Next]_vars, NEW p \in Pair, Compared(p),
                      last'[p] = "mismatch", p \notin parted, p \notin excused',
                      Exact(p) \/ ~(trades[p] > 1)
               PROVE  FALSE
    OBVIOUS
  <2>1. Compare(p)
    BY OnlyCompare DEF ReconcilerInv
  <2>2. /\ ~IsAligned(srcPos[p], folPos[p], ratio[p])
        /\ folPos[p] = meant[p]
    BY <2>1, ComparedAlike DEF Undisturbed
  <2>3. MeantFollows(p) /\ trades[p] \in Nat /\ srcPos[p] \in Int
        /\ ratio[p] \in Ratio
    BY RatioForms DEF ReconcilerInv, ReconcilerTyped
  <2>4. CASE Exact(p)
    BY <2>2, <2>3, <2>4 DEF MeantFollows, Exact, IsAligned
  <2>5. CASE ~Exact(p)
    <3>1. meant[p] = Scaled(srcPos[p], ratio[p])
      BY <2>3, <2>5 DEF MeantFollows
    <3>2. IsAligned(srcPos[p], Scaled(srcPos[p], ratio[p]), ratio[p])
      BY <2>3, ReconcilerAssumption, OneOrderIsAligned DEF PosNat
    <3>3. QED
      BY <2>2, <3>1, <3>2
  <2>6. QED
    BY <2>4, <2>5
<1>2. OnePair => (Spec => []ReconcilerInv)
  BY ReconcilerInvariant
<1>3. QED
  BY <1>1, <1>2, PTL DEF Spec, AlarmIsReal

(* A pass during which nothing executed does not overlook a position on the
   wrong side, one left open or one never opened; at ratio one it overlooks
   nothing. *)
THEOREM QuietPassesOverlookNothing == OnePair /\ Spec => NothingOverlooked
<1>1. ReconcilerInv /\ [Next]_vars =>
        [\A p \in Pair :
          Compared(p) /\ last'[p] = "aligned" /\ p \in quiet \ excused' =>
              /\ Side(srcPos[p]) = Side(folPos[p])
              /\ Exact(p) => srcPos[p] = folPos[p]]_vars
  <2> SUFFICES ASSUME ReconcilerInv, [Next]_vars, NEW p \in Pair, Compared(p),
                      last'[p] = "aligned", p \in quiet \ excused'
               PROVE  /\ Side(srcPos[p]) = Side(folPos[p])
                      /\ Exact(p) => srcPos[p] = folPos[p]
    OBVIOUS
  <2>1. Compare(p)
    BY OnlyCompare DEF ReconcilerInv
  <2>2. IsAligned(srcPos[p], folPos[p], ratio[p])
    BY <2>1, ComparedAlike DEF Undisturbed
  <2>3. srcPos[p] \in Int /\ folPos[p] \in Int
    BY DEF ReconcilerInv, ReconcilerTyped
  <2>4. QED
    BY <2>2, <2>3 DEF IsAligned, Positive, Negative, Side, Exact
<1>2. OnePair => (Spec => []ReconcilerInv)
  BY ReconcilerInvariant
<1>3. QED
  BY <1>1, <1>2, PTL DEF Spec, NothingOverlooked

=============================================================================
