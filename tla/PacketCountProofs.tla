---- MODULE PacketCountProofs ----
(***************************************************************************)
(* Theorems about PacketCount, for any number of CPUs and any width of the *)
(* counter.                                                                *)
(***************************************************************************)
EXTENDS PacketCount, FiniteSetTheorems, WellFoundedInduction, TLAPS

\* A quotient and a remainder are determined by the number they divide.
LEMMA DivisionUnique ==
    ASSUME NEW m \in Nat \ {0}, NEW q1 \in Nat, NEW q2 \in Nat,
           NEW r1 \in 0 .. m - 1, NEW r2 \in 0 .. m - 1, m * q1 + r1 = m * q2 + r2
    PROVE  r1 = r2
<1>1. ASSUME NEW a \in Nat, NEW b \in Nat, a > b
      PROVE  m * a >= m * b + m
  <2>1. a = b + 1 + (a - b - 1) /\ a - b - 1 \in Nat
    BY <1>1
  <2>2. m * a = m * b + m + m * (a - b - 1)
    BY <2>1
  <2>3. m * (a - b - 1) >= 0
    BY <2>1
  <2>4. QED
    BY <2>2, <2>3
<1>2. m * q1 \in Nat /\ m * q2 \in Nat
  OBVIOUS
<1>3. CASE q1 = q2
  BY <1>2, <1>3
<1>4. CASE q1 > q2
  BY <1>1, <1>2, <1>4
<1>5. CASE q2 > q1
  BY <1>1, <1>2, <1>5
<1>6. QED
  BY <1>3, <1>4, <1>5

(***************************************************************************)
(* counter++ follows the number of packets modulo the width of counter.    *)
(***************************************************************************)
LEMMA WrapIncMod ==
    ASSUME NEW n \in Nat
    PROVE  WrapInc(n % CounterMod, CounterMod) = (n + 1) % CounterMod
<1> DEFINE M == CounterMod
           q == n \div M
           r == n % M
           q2 == (n + 1) \div M
           r2 == (n + 1) % M
<1>1. M \in Nat \ {0, 1}
  BY CounterModNat
<1>2. q \in Nat /\ r \in 0 .. M - 1 /\ n = M * q + r
  BY <1>1
<1>3. q2 \in Nat /\ r2 \in 0 .. M - 1 /\ n + 1 = M * q2 + r2
  BY <1>1
<1>4. M * q \in Nat /\ M * (q + 1) = M * q + M
  BY <1>1, <1>2
<1> HIDE DEF M, q, r, q2, r2
<1>5. CASE r + 1 = M
  <2>1. n + 1 = M * (q + 1) + 0
    BY <1>1, <1>2, <1>4, <1>5
  <2>2. r2 = 0
    BY <1>1, <1>2, <1>3, <2>1, DivisionUnique
  <2>3. QED
    BY <1>5, <2>2 DEF WrapInc, M, r, r2
<1>6. CASE r + 1 < M
  <2>1. n + 1 = M * q + (r + 1)
    BY <1>1, <1>2, <1>4
  <2>2. r2 = r + 1
    BY <1>1, <1>2, <1>3, <1>6, <2>1, DivisionUnique
  <2>3. WrapInc(r, M) = r + 1
    BY <1>1, <1>2, <1>6 DEF WrapInc
  <2>4. QED
    BY <2>2, <2>3 DEF M, r, r2
<1>7. QED
  BY <1>1, <1>2, <1>5, <1>6

(***************************************************************************)
(* The inductive invariant.  A value loaded for an increment is at most    *)
(* the number of completed packets; and while packets come one at a time,  *)
(* it is still the counter.                                                *)
(***************************************************************************)
LoadsBounded == \A cpu \in Cpus : pc[cpu] = "store" => reg[cpu] <= completed

OneAtATime ==
    /\ \A cpu, other \in Cpus : pc[cpu] # "idle" /\ pc[other] # "idle" => cpu = other
    /\ \A cpu \in Cpus : pc[cpu] = "store" => reg[cpu] = counter

CountInv == TypeOK /\ LoadsBounded /\ (serial => OneAtATime) /\ CountNeverAhead

LEMMA CountInit == Init => CountInv
<1> SUFFICES ASSUME Init PROVE CountInv
  OBVIOUS
<1>1. 0 % CounterMod = 0
  BY CounterModNat
<1>2. QED
  BY <1>1, CounterModNat DEF Init, CountInv, TypeOK, LoadsBounded, OneAtATime, CountNeverAhead, Values

LEMMA CountStep == CountInv /\ [Next]_vars => CountInv'
<1> SUFFICES ASSUME CountInv, [Next]_vars PROVE CountInv'
  OBVIOUS
<1>1. /\ counter \in Values /\ counter \in Nat /\ completed \in Nat
      /\ reg \in [Cpus -> Values] /\ \A cpu \in Cpus : reg[cpu] \in Nat
  BY CounterModNat DEF CountInv, TypeOK, Values
<1>2. ASSUME NEW cpu \in Cpus, Receive(cpu)
      PROVE  CountInv'
  <2>1. TypeOK'
    BY <1>2 DEF CountInv, TypeOK, Receive
  <2>2. LoadsBounded' /\ (serial' => OneAtATime') /\ CountNeverAhead'
    BY <1>2 DEF CountInv, TypeOK, LoadsBounded, OneAtATime, CountNeverAhead, Receive
  <2>3. QED
    BY <2>1, <2>2 DEF CountInv
<1>3. ASSUME NEW cpu \in Cpus, LoadCounter(cpu)
      PROVE  CountInv'
  <2>1. TypeOK'
    BY <1>3 DEF CountInv, TypeOK, LoadCounter
  <2>2. LoadsBounded' /\ (serial' => OneAtATime') /\ CountNeverAhead'
    BY <1>1, <1>3 DEF CountInv, TypeOK, LoadsBounded, OneAtATime, CountNeverAhead, LoadCounter
  <2>3. QED
    BY <2>1, <2>2 DEF CountInv
<1>4. ASSUME NEW cpu \in Cpus, StoreAndReturn(cpu)
      PROVE  CountInv'
  <2>1. /\ pc[cpu] = "store" /\ pc' = [pc EXCEPT ![cpu] = "idle"]
        /\ counter' = WrapInc(reg[cpu], CounterMod) /\ completed' = completed + 1
        /\ UNCHANGED <<reg, serial>>
    BY <1>4 DEF StoreAndReturn, Return
  <2>2. counter' \in Values /\ counter' <= reg[cpu] + 1
    BY <1>1, <2>1, CounterModNat DEF WrapInc, Values
  <2>3. TypeOK'
    BY <1>1, <1>4, <2>2 DEF CountInv, TypeOK, StoreAndReturn, Return
  <2>4. LoadsBounded'
    BY <1>1, <2>1 DEF CountInv, TypeOK, LoadsBounded
  <2>5. serial' => OneAtATime'
    BY <2>1 DEF CountInv, TypeOK, OneAtATime
  <2>6. counter' <= completed'
    BY <1>1, <2>1, <2>2, CounterModNat DEF CountInv, LoadsBounded, Values
  <2>7. serial => counter' = completed' % CounterMod
    BY <1>1, <2>1, WrapIncMod DEF CountInv, OneAtATime, CountNeverAhead
  <2>8. QED
    BY <2>1, <2>3, <2>4, <2>5, <2>6, <2>7 DEF CountInv, CountNeverAhead
<1>5. CASE UNCHANGED vars
  BY <1>5 DEF CountInv, TypeOK, LoadsBounded, OneAtATime, CountNeverAhead, vars
<1>6. QED
  BY <1>2, <1>3, <1>4, <1>5 DEF Next

(***************************************************************************)
(* CPUs that race on counter++ only ever lose packets, and packets that    *)
(* come one at a time are counted exactly, up to the width of counter.     *)
(***************************************************************************)
THEOREM PacketsNotInvented == Spec => []CountNeverAhead
<1>1. CountInv => CountNeverAhead
  BY DEF CountInv
<1>2. QED
  BY <1>1, CountInit, CountStep, PTL DEF Spec

-----------------------------------------------------------------------------
(***************************************************************************)
(* The verdicts.  While packets come one at a time, what a run has printed *)
(* is still the counter, and that is the number of packets before it.      *)
(***************************************************************************)
PrintedCurrent ==
    serial => \A cpu \in Cpus : pc[cpu] # "idle" => printed[cpu] = counter

\* The packets, by number, whose counter prints as XDP_PASS characters.
PrintsAsPass(n) == {k \in 0 .. n - 1 : Length(k) = XDP_PASS}

(***************************************************************************)
(* packet_count passes every packet, packet_count_float none; and          *)
(* error_packet_count exactly those whose counter prints as XDP_PASS       *)
(* characters (handled one at a time, before the counter turns negative).  *)
(***************************************************************************)
VerdictsByLength ==
    /\ program = "packet_count" => notPassed = 0
    /\ program = "packet_count_float" => notPassed = completed
    /\ program = "error_packet_count" /\ serial /\ 2 * completed <= CounterMod =>
          completed - notPassed = Cardinality(PrintsAsPass(completed))

LEMMA VerdictOf ==
    ASSUME NEW v
    PROVE  /\ Verdict("packet_count", v) = XDP_PASS
           /\ Verdict("packet_count_float", v) = FloatTwo
           /\ Verdict("error_packet_count", v) = Length(v)
BY DEF Verdict, BytesPrinted

LEMMA FloatIsNoPass == FloatTwo # XDP_PASS
BY SMT DEF FloatTwo, XDP_PASS

LEMMA PrintsAsPassNext ==
    ASSUME NEW n \in Nat
    PROVE  /\ Cardinality(PrintsAsPass(n)) \in Nat
           /\ Cardinality(PrintsAsPass(n + 1)) =
                 Cardinality(PrintsAsPass(n)) + (IF Length(n) = XDP_PASS THEN 1 ELSE 0)
<1>1. IsFiniteSet(PrintsAsPass(n))
  <2>1. IsFiniteSet(0 .. n - 1)
    BY FS_Interval
  <2>2. PrintsAsPass(n) \subseteq 0 .. n - 1
    BY DEF PrintsAsPass
  <2>3. QED
    BY <2>1, <2>2, FS_Subset
<1>2. n \notin PrintsAsPass(n)
  BY DEF PrintsAsPass
<1>3. CASE Length(n) = XDP_PASS
  <2>1. PrintsAsPass(n + 1) = PrintsAsPass(n) \union {n}
    BY <1>3 DEF PrintsAsPass
  <2>2. QED
    BY <1>1, <1>2, <1>3, <2>1, FS_AddElement, FS_CardinalityType
<1>4. CASE Length(n) # XDP_PASS
  <2>1. PrintsAsPass(n + 1) = PrintsAsPass(n)
    BY <1>4 DEF PrintsAsPass
  <2>2. QED
    BY <1>1, <1>4, <2>1, FS_CardinalityType
<1>5. QED
  BY <1>3, <1>4

VerdictInv == CountInv /\ PrintedCurrent /\ VerdictsByLength

LEMMA VerdictInit == Init => VerdictInv
<1> SUFFICES ASSUME Init PROVE VerdictInv
  OBVIOUS
<1>1. PrintsAsPass(0) = {}
  BY DEF PrintsAsPass
<1>2. Cardinality(PrintsAsPass(0)) = 0
  BY <1>1, FS_EmptySet
<1>3. QED
  BY <1>2, CountInit DEF VerdictInv, PrintedCurrent, VerdictsByLength, Init

LEMMA VerdictStep == VerdictInv /\ [Next]_vars => VerdictInv'
<1> SUFFICES ASSUME VerdictInv, [Next]_vars PROVE VerdictInv'
  OBVIOUS
<1>1. CountInv'
  BY CountStep DEF VerdictInv
<1>2. /\ completed \in Nat /\ notPassed \in Nat /\ counter \in Nat
      /\ pc \in [Cpus -> {"idle", "load", "store"}] /\ printed \in [Cpus -> Values]
  BY DEF VerdictInv, CountInv, TypeOK, Values
<1>3. ASSUME NEW cpu \in Cpus, Receive(cpu)
      PROVE  PrintedCurrent' /\ VerdictsByLength'
  <2>1. PrintedCurrent'
    BY <1>2, <1>3 DEF VerdictInv, PrintedCurrent, Receive
  <2>2. UNCHANGED <<program, completed, notPassed>> /\ (serial' => serial)
    BY <1>3 DEF Receive
  <2>3. QED
    BY <2>1, <2>2 DEF VerdictInv, VerdictsByLength
<1>4. ASSUME NEW cpu \in Cpus, LoadCounter(cpu)
      PROVE  PrintedCurrent' /\ VerdictsByLength'
  BY <1>2, <1>4 DEF VerdictInv, PrintedCurrent, VerdictsByLength, LoadCounter
<1>5. ASSUME NEW cpu \in Cpus, StoreAndReturn(cpu)
      PROVE  PrintedCurrent' /\ VerdictsByLength'
  <2>1. /\ pc[cpu] = "store" /\ pc' = [pc EXCEPT ![cpu] = "idle"]
        /\ UNCHANGED <<program, printed, serial>> /\ completed' = completed + 1
        /\ notPassed' = IF Verdict(program, printed[cpu]) = XDP_PASS
                          THEN notPassed ELSE notPassed + 1
    BY <1>5 DEF StoreAndReturn, Return
  <2>2. serial => \A other \in Cpus : pc'[other] = "idle"
    BY <1>2, <2>1 DEF VerdictInv, CountInv, OneAtATime
  <2>3. PrintedCurrent'
    BY <2>1, <2>2 DEF PrintedCurrent
  <2>4. program = "packet_count" => notPassed' = 0
    BY <2>1, VerdictOf DEF VerdictInv, VerdictsByLength
  <2>5. program = "packet_count_float" => notPassed' = completed'
    BY <2>1, VerdictOf, FloatIsNoPass DEF VerdictInv, VerdictsByLength
  <2>6. ASSUME program = "error_packet_count", serial, 2 * completed' <= CounterMod
        PROVE  completed' - notPassed' = Cardinality(PrintsAsPass(completed'))
    <3>1. completed < CounterMod /\ 2 * completed <= CounterMod
      BY <1>2, <2>1, <2>6, CounterModNat
    <3>2. counter = completed
      BY <1>2, <2>6, <3>1, CounterModNat DEF VerdictInv, CountInv, CountNeverAhead
    <3>3. Verdict(program, printed[cpu]) = Length(completed)
      BY <2>1, <2>6, <3>2, VerdictOf DEF VerdictInv, PrintedCurrent
    <3>4. completed - notPassed = Cardinality(PrintsAsPass(completed))
      BY <2>6, <3>1 DEF VerdictInv, VerdictsByLength
    <3>5. QED
      BY <1>2, <2>1, <3>3, <3>4, PrintsAsPassNext
  <2>7. QED
    BY <2>1, <2>3, <2>4, <2>5, <2>6 DEF VerdictsByLength
<1>6. ASSUME UNCHANGED vars
      PROVE  PrintedCurrent' /\ VerdictsByLength'
  <2>1. PrintedCurrent'
    BY <1>6 DEF VerdictInv, PrintedCurrent, vars
  <2>2. VerdictsByLength'
    BY <1>6 DEF VerdictInv, VerdictsByLength, vars
  <2>3. QED
    BY <2>1, <2>2
<1>7. QED
  BY <1>1, <1>3, <1>4, <1>5, <1>6 DEF Next, VerdictInv

-----------------------------------------------------------------------------
(***************************************************************************)
(* The digits.  Digits is defined by recursion, so that it has any values  *)
(* at all needs a proof.  Induction over the naturals is used in the form  *)
(* of a least counterexample.                                              *)
(***************************************************************************)
LEMMA LeastNatural ==
    ASSUME NEW T \in SUBSET Nat, T # {}
    PROVE  \E x \in T : \A y \in T : x <= y
<1>1. PICK x \in T : \A y \in T : ~(<<y, x>> \in OpToRel(<, Nat))
  BY NatLessThanWellFounded, WFMin
<1>2. ASSUME NEW y \in T
      PROVE  x <= y
  <2>1. <<y, x>> \in Nat \X Nat
    BY <1>1
  <2>2. ~(y < x)
    BY <1>1, <2>1 DEF OpToRel
  <2>3. QED
    BY <2>2
<1>3. QED
  BY <1>1, <1>2

LEMMA Quotient ==
    ASSUME NEW n \in Nat, n >= Radix
    PROVE  n \div Radix \in Nat /\ n \div Radix < n /\ n \div Radix > 0
<1> DEFINE q == n \div Radix
           r == n % Radix
<1>1. Radix \in Nat /\ Radix >= 2
  BY RadixNat
<1>2. q \in Nat /\ r \in 0 .. Radix - 1 /\ n = Radix * q + r
  BY <1>1
<1> HIDE DEF q, r
<1>3. q # 0
  BY <1>1, <1>2
<1>4. Radix * q = 2 * q + (Radix - 2) * q /\ (Radix - 2) * q \in Nat
  BY <1>1, <1>2
<1>5. q < n
  BY <1>1, <1>2, <1>3, <1>4
<1>6. QED
  BY <1>2, <1>3, <1>5 DEF q

\* The recursion's right-hand side, and its solutions on the numbers up to m.
DigitsOf(g, n) == IF n < Radix THEN 1 ELSE 1 + g[n \div Radix]
Approximations(m) ==
    {g \in [0 .. m -> Nat \ {0}] : \A n \in 0 .. m : g[n] = DigitsOf(g, n)}

LEMMA ApproximationsAgree ==
    ASSUME NEW m \in Nat, NEW p \in Nat,
           NEW g \in Approximations(m), NEW h \in Approximations(p)
    PROVE  \A n \in 0 .. m : n <= p => g[n] = h[n]
<1> DEFINE T == {n \in 0 .. m : n <= p /\ g[n] # h[n]}
<1>1. SUFFICES ASSUME T # {} PROVE FALSE
  OBVIOUS
<1>2. PICK n \in T : \A k \in T : n <= k
  <2>1. T \in SUBSET Nat
    OBVIOUS
  <2> HIDE DEF T
  <2>2. QED
    BY <1>1, <2>1, LeastNatural
<1>3. n \in Nat /\ n \in 0 .. m /\ n \in 0 .. p /\ g[n] # h[n]
  BY <1>2
<1>4. g[n] = DigitsOf(g, n) /\ h[n] = DigitsOf(h, n)
  BY <1>3 DEF Approximations
<1>5. n >= Radix
  BY <1>3, <1>4, RadixNat DEF DigitsOf
<1>6. n \div Radix \in 0 .. m /\ n \div Radix <= p /\ n \div Radix < n
  BY <1>3, <1>5, Quotient
<1>7. g[n \div Radix] = h[n \div Radix]
  BY <1>2, <1>3, <1>6
<1>8. QED
  BY <1>3, <1>4, <1>7 DEF DigitsOf

LEMMA ApproximationsExist == \A m \in Nat : Approximations(m) # {}
<1> DEFINE T == {m \in Nat : Approximations(m) = {}}
<1>1. SUFFICES ASSUME T # {} PROVE FALSE
  OBVIOUS
<1>2. PICK m \in T : \A k \in T : m <= k
  BY <1>1, LeastNatural
<1>3. m \in Nat /\ Approximations(m) = {}
  BY <1>2
<1>4. Radix \in Nat /\ Radix >= 2
  BY RadixNat
<1>5. CASE m = 0
  <2> DEFINE g == [n \in 0 .. 0 |-> 1]
  <2>1. g \in [0 .. 0 -> Nat \ {0}]
    OBVIOUS
  <2>2. \A n \in 0 .. 0 : g[n] = DigitsOf(g, n)
    BY <1>4 DEF DigitsOf
  <2>3. g \in Approximations(0)
    BY <2>1, <2>2 DEF Approximations
  <2>4. QED
    BY <1>3, <1>5, <2>3
<1>6. CASE m > 0
  <2>1. m - 1 \in Nat /\ ~(m <= m - 1)
    BY <1>3, <1>6
  <2>2. PICK g \in Approximations(m - 1) : TRUE
    BY <1>2, <2>1
  <2> DEFINE h == [n \in 0 .. m |-> IF n <= m - 1 THEN g[n] ELSE DigitsOf(g, m)]
  <2>3. /\ g \in [0 .. m - 1 -> Nat \ {0}]
        /\ \A n \in 0 .. m - 1 : g[n] = DigitsOf(g, n)
    BY <2>2 DEF Approximations
  <2>4. \A n \in 0 .. m : n >= Radix => n \div Radix \in 0 .. m - 1
    BY <1>3, Quotient
  <2>5. ASSUME NEW n \in 0 .. m
        PROVE  DigitsOf(g, n) \in Nat \ {0}
    <3>1. CASE n < Radix
      BY <3>1 DEF DigitsOf
    <3>2. CASE n >= Radix
      <4>1. g[n \div Radix] \in Nat \ {0}
        BY <2>3, <2>4, <3>2
      <4>2. DigitsOf(g, n) = 1 + g[n \div Radix]
        BY <1>3, <1>4, <3>2 DEF DigitsOf
      <4>3. QED
        BY <4>1, <4>2
    <3>3. QED
      BY <1>3, <1>4, <3>1, <3>2
  <2>6. \A n \in 0 .. m : h[n] = DigitsOf(g, n)
    BY <1>3, <2>3
  <2>7. h \in [0 .. m -> Nat \ {0}]
    BY <2>5, <2>6
  <2>8. \A k \in 0 .. m - 1 : h[k] = g[k]
    BY <1>3
  <2> HIDE DEF h
  <2>9. \A n \in 0 .. m : DigitsOf(h, n) = DigitsOf(g, n)
    BY <1>3, <1>4, <2>4, <2>8 DEF DigitsOf
  <2>10. h \in Approximations(m)
    BY <2>6, <2>7, <2>9 DEF Approximations
  <2>11. QED
    BY <1>3, <2>10
<1>7. QED
  BY <1>3, <1>5, <1>6

(***************************************************************************)
(* Digits is the function its definition says: the recursion of the        *)
(* division by the radix ends.                                             *)
(***************************************************************************)
LEMMA DigitsDefined ==
    /\ Digits \in [Nat -> Nat \ {0}]
    /\ \A n \in Nat : Digits[n] = IF n < Radix THEN 1 ELSE 1 + Digits[n \div Radix]
<1> DEFINE A == [n \in Nat |-> CHOOSE g \in Approximations(n) : TRUE]
           D == [n \in Nat |-> A[n][n]]
<1>1. \A n \in Nat : A[n] \in Approximations(n)
  BY ApproximationsExist
<1> HIDE DEF A
<1>2. ASSUME NEW n \in Nat
      PROVE  D[n] \in Nat \ {0} /\ D[n] = DigitsOf(A[n], n)
  <2>1. A[n] \in Approximations(n) /\ n \in 0 .. n
    BY <1>1
  <2>2. QED
    BY <2>1 DEF Approximations
<1>3. ASSUME NEW n \in Nat, n >= Radix
      PROVE  A[n][n \div Radix] = D[n \div Radix]
  <2> DEFINE q == n \div Radix
  <2>1. q \in Nat /\ q <= n /\ q \in 0 .. q
    BY <1>3, Quotient
  <2> HIDE DEF q
  <2>2. A[q][q] = A[n][q]
    BY <1>1, <2>1, ApproximationsAgree
  <2>3. QED
    BY <2>1, <2>2 DEF q
<1>4. ASSUME NEW n \in Nat
      PROVE  D[n] = IF n < Radix THEN 1 ELSE 1 + D[n \div Radix]
  <2>1. D[n] = DigitsOf(A[n], n)
    BY <1>2
  <2> HIDE DEF D
  <2>2. CASE n < Radix
    BY <2>1, <2>2 DEF DigitsOf
  <2>3. CASE n >= Radix
    BY <1>3, <2>1, <2>3 DEF DigitsOf
  <2>4. QED
    BY <2>2, <2>3, RadixNat
<1>5. D = [n \in Nat |-> D[n]]
  OBVIOUS
<1> HIDE DEF D
<1>6. D = [n \in Nat |-> IF n < Radix THEN 1 ELSE 1 + D[n \div Radix]]
  BY <1>4, <1>5
<1>7. Digits = [n \in Nat |-> IF n < Radix THEN 1 ELSE 1 + Digits[n \div Radix]]
  BY <1>6 DEF Digits
<1>8. \A n \in Nat : Digits[n] = IF n < Radix THEN 1 ELSE 1 + Digits[n \div Radix]
  BY <1>7
<1>9. ASSUME NEW n \in Nat
      PROVE  Digits[n] \in Nat \ {0}
  <2> DEFINE T == {k \in Nat : Digits[k] \notin Nat \ {0}}
  <2>1. SUFFICES ASSUME T # {} PROVE FALSE
    OBVIOUS
  <2>2. PICK k \in T : \A j \in T : k <= j
    BY <2>1, LeastNatural
  <2>3. CASE k < Radix
    BY <1>8, <2>2, <2>3
  <2>4. CASE k >= Radix
    <3>1. Digits[k \div Radix] \in Nat \ {0}
      BY <2>2, <2>4, Quotient
    <3>2. QED
      BY <1>8, <2>2, <2>4, <3>1, RadixNat
  <2>5. QED
    BY <2>2, <2>3, <2>4, RadixNat
<1>10. QED
  BY <1>7, <1>8, <1>9

(***************************************************************************)
(* A number has two digits when it is at least the radix and less than its *)
(* square.                                                                 *)
(***************************************************************************)
LEMMA TwoDigits ==
    ASSUME NEW n \in Nat
    PROVE  Digits[n] = 2 <=> Radix <= n /\ n < Radix * Radix
<1>1. Radix \in Nat /\ Radix >= 2
  BY RadixNat
<1>2. CASE n < Radix
  BY <1>1, <1>2, DigitsDefined
<1>3. CASE n >= Radix
  <2> DEFINE q == n \div Radix
             r == n % Radix
  <2>1. q \in Nat /\ r \in 0 .. Radix - 1 /\ n = Radix * q + r
    BY <1>1
  <2>2. Digits[n] = 1 + Digits[q]
    <3>1. ~(n < Radix)
      BY <1>1, <1>3
    <3>2. QED
      BY <3>1, DigitsDefined
  <2> HIDE DEF q, r
  <2>3. q < Radix <=> n < Radix * Radix
    <3>1. CASE q < Radix
      <4>1. Radix * Radix = Radix * q + Radix * (Radix - q)
        BY <1>1, <2>1
      <4>2. Radix * (Radix - q) = Radix + Radix * (Radix - q - 1)
        BY <1>1, <2>1
      <4>3. Radix * (Radix - q - 1) >= 0
        BY <1>1, <2>1, <3>1
      <4>4. QED
        BY <1>1, <2>1, <3>1, <4>1, <4>2, <4>3
    <3>2. CASE q >= Radix
      <4>1. Radix * q = Radix * Radix + Radix * (q - Radix)
        BY <1>1, <2>1
      <4>2. Radix * (q - Radix) >= 0
        BY <1>1, <2>1, <3>2
      <4>3. QED
        BY <1>1, <2>1, <3>2, <4>1, <4>2
    <3>3. QED
      BY <1>1, <2>1, <3>1, <3>2
  <2>4. Digits[q] = 1 <=> q < Radix
    <3>1. CASE q < Radix
      BY <2>1, <3>1, DigitsDefined
    <3>2. CASE q >= Radix
      <4>1. ~(q < Radix) /\ q \div Radix \in Nat
        BY <1>1, <2>1, <3>2, Quotient
      <4>2. Digits[q] = 1 + Digits[q \div Radix] /\ Digits[q \div Radix] \in Nat \ {0}
        BY <2>1, <4>1, DigitsDefined
      <4>3. QED
        BY <4>1, <4>2
    <3>3. QED
      BY <1>1, <2>1, <3>1, <3>2
  <2>5. Digits[q] \in Nat
    BY <2>1, DigitsDefined
  <2>6. QED
    BY <1>3, <2>2, <2>3, <2>4, <2>5
<1>4. QED
  BY <1>1, <1>2, <1>3

(***************************************************************************)
(* What becomes of the packets under each of the three counters: a packet  *)
(* of error_packet_count passes when its number has two digits.            *)
(***************************************************************************)
THEOREM PacketVerdicts == Spec => []VerdictsByProgram
<1>1. VerdictInv => VerdictsByProgram
  <2> SUFFICES ASSUME VerdictInv PROVE VerdictsByProgram
    OBVIOUS
  <2>1. completed \in Nat
    BY DEF VerdictInv, CountInv, TypeOK
  <2>2. ASSUME 2 * completed <= CounterMod
        PROVE  PrintsAsPass(completed) =
                 {n \in 0 .. completed - 1 : Radix <= n /\ n < Radix * Radix}
    <3>1. ASSUME NEW n \in 0 .. completed - 1
          PROVE  Length(n) = XDP_PASS <=> Radix <= n /\ n < Radix * Radix
      <4>1. n \in Nat /\ 2 * n < CounterMod
        BY <2>1, <2>2, CounterModNat
      <4>2. Length(n) = Digits[n]
        <5>1. Digits[n] \in Nat
          BY <4>1, DigitsDefined
        <5>2. QED
          BY <4>1, <5>1 DEF Length, Magnitude
      <4>3. QED
        BY <4>1, <4>2, TwoDigits DEF XDP_PASS
    <3>2. QED
      BY <3>1 DEF PrintsAsPass
  <2>3. QED
    BY <2>2 DEF VerdictInv, VerdictsByLength, VerdictsByProgram
<1>2. QED
  BY <1>1, VerdictInit, VerdictStep, PTL DEF Spec
====
