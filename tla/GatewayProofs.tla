---------------------------- MODULE GatewayProofs ----------------------------
(***************************************************************************)
(* Proofs about Gateway for any rate, burst and cap and any number of      *)
(* requests.  The limiter and the pipeline of requests share no variable   *)
(* but now, and are proved apart.                                          *)
(***************************************************************************)
EXTENDS Gateway, FiniteSetTheorems, TLAPS

-----------------------------------------------------------------------------
(* Arithmetic                                                              *)

\* Products of naturals, which refills are.
LEMMA MulNat == \A a, b \in Nat : a * b \in Nat
OBVIOUS

LEMMA MulMono == \A a, b, c \in Nat : a <= b => a * c <= b * c
<1> TAKE a, b, c \in Nat
<1> HAVE a <= b
<1>1. (b - a) * c >= 0 BY MulNat, b - a \in Nat
<1>2. (b - a) * c = b * c - a * c OBVIOUS
<1> QED BY <1>1, <1>2, MulNat

LEMMA MulSum == \A a, b, c \in Int : (a + b) * c = a * c + b * c
OBVIOUS

\* The whole seconds after which a shortfall of x is refilled at n a second.
LEMMA CeilDiv ==
  ASSUME NEW x \in Nat, NEW n \in Nat \ {0}
  PROVE  /\ (x + n - 1) \div n \in Nat
         /\ ((x + n - 1) \div n) * n >= x
OBVIOUS

-----------------------------------------------------------------------------
(* The limiter                                                             *)

\* The time up to which a bucket was refilled: last_refill, and the seconds by
\* which late checks moved it back, which are refilled again.  It never runs back.
Filled(k) == bucket[k].last + rewound[k]
Phase(a)  == a.at + a.again

\* The budget of a key since any of its admitted requests: those admitted from
\* then on and the tokens left are what the bucket can hold and what was
\* refilled since.  RateBound follows, but is not inductive: it says nothing of
\* the tokens left.
BudgetInv ==
    \A k \in Keys :
        /\ bucket[k] = None => admitted[k] = <<>> /\ promised[k] = None
        /\ bucket[k] # None => bucket[k].last <= now
        /\ bucket[k] # None => \A i \in 1..Len(admitted[k]) :
             /\ Phase(admitted[k][i]) <= Filled(k)
             /\ 60 * (Len(admitted[k]) - i + 1) + bucket[k].tokens
                  <= Capacity + (Filled(k) - Phase(admitted[k][i])) * Rpm

\* By the time a Retry-After has run out, a token will be there.
PromiseInv ==
    \A k \in Keys : promised[k] # None =>
        /\ promised[k] >= bucket[k].last
        /\ bucket[k].tokens + (promised[k] - bucket[k].last) * Rpm >= 60

LimiterType ==
    /\ now \in 0..MaxTime
    /\ bucket \in [Keys -> {None} \cup [tokens : 0..Capacity, last : 0..MaxTime]]
    /\ admitted \in [Keys -> Seq(Admission)] /\ rewound \in [Keys -> Nat]
    /\ promised \in [Keys -> {None} \cup Nat]

LimiterInv == LimiterType /\ BudgetInv /\ PromiseInv /\ RateBound

LEMMA CapacityType == Capacity \in Nat /\ Capacity >= 60
BY RateAssumption DEF Capacity

\* What a bucket holds for a check that read s, in terms of what it held at its
\* last refill, and where the check leaves last_refill.
LEMMA TokensThen ==
  ASSUME LimiterType, NEW k \in Keys, NEW s \in 0..MaxTime
  PROVE  /\ Tokens(k, s) \in 0..Capacity /\ Rewind(k, s) \in Nat
         /\ bucket[k] # None =>
              \E e \in Nat :
                /\ e = IF s > bucket[k].last THEN s - bucket[k].last ELSE 0
                /\ s + Rewind(k, s) = bucket[k].last + e
                /\ e * Rpm \in Nat /\ Tokens(k, s) <= bucket[k].tokens + e * Rpm
                /\ Tokens(k, s) \in {bucket[k].tokens + e * Rpm, Capacity}
<1>0. s \in Nat /\ Rpm \in Nat BY BoundAssumption, RateAssumption
<1>1. CASE bucket[k] = None
  BY <1>1, CapacityType DEF Tokens, Rewind
<1>2. CASE bucket[k] # None
  <2>1. bucket[k].tokens \in Nat /\ bucket[k].last \in Nat
    BY <1>2, CapacityType, BoundAssumption DEF LimiterType
  <2> DEFINE e == IF s > bucket[k].last THEN s - bucket[k].last ELSE 0
  <2>2. e \in Nat /\ s + Rewind(k, s) = bucket[k].last + e /\ Rewind(k, s) \in Nat
    BY <1>0, <1>2, <2>1 DEF Rewind
  <2>3. e * Rpm \in Nat
    <3> HIDE DEF e
    <3> QED BY <1>0, <2>2, MulNat
  <2>4. Tokens(k, s) = IF bucket[k].tokens + e * Rpm < Capacity
                       THEN bucket[k].tokens + e * Rpm ELSE Capacity
    BY <1>2 DEF Tokens
  <2>5. /\ Tokens(k, s) \in 0..Capacity
        /\ Tokens(k, s) <= bucket[k].tokens + e * Rpm
        /\ Tokens(k, s) \in {bucket[k].tokens + e * Rpm, Capacity}
    <3> HIDE DEF e
    <3> QED BY <2>1, <2>3, <2>4, CapacityType
  <2> QED BY <1>2, <2>2, <2>3, <2>5
<1> QED BY <1>1, <1>2

\* A budget that covers x and the tokens y covers x.
LEMMA LessTokens ==
  \A x, g \in Int, y \in Nat : x + y <= Capacity + g => x <= Capacity + g
BY CapacityType

\* RateBound depends on the admissions alone, and on each key's by itself.
LEMMA RateUnchanged ==
  ASSUME RateBound, admitted' = admitted
  PROVE  RateBound'
BY DEF RateBound, Capacity

LEMMA RateByKey ==
  ASSUME RateBound, NEW k \in Keys, \A m \in Keys \ {k} : admitted'[m] = admitted[m],
         \A i, j \in 1..Len(admitted'[k]) :
           i <= j => 60 * (j - i + 1)
                       <= Capacity + (Phase(admitted'[k][j]) - Phase(admitted'[k][i])) * Rpm
  PROVE  RateBound'
BY DEF RateBound, Capacity, Phase

\* The wait RetryAfter names is long enough for the shortfall.
LEMMA WaitSuffices ==
  ASSUME NEW t \in Nat, t < 60
  PROVE  RetryAfter(t) \in Nat /\ t + RetryAfter(t) * Rpm >= 60
<1> DEFINE s == (60 - t + Rpm - 1) \div Rpm
<1>1. s \in Nat /\ s * Rpm >= 60 - t
  BY CeilDiv, RateAssumption, 60 - t \in Nat
<1>2. CASE s > 1
  <2>1. RetryAfter(t) = s BY <1>2 DEF RetryAfter
  <2> HIDE DEF s
  <2>2. s * Rpm \in Nat BY <1>1, MulNat, RateAssumption
  <2> QED BY <1>1, <2>1, <2>2
<1>3. CASE ~(s > 1)
  <2>1. s = 0 \/ s = 1 BY <1>1, <1>3
  <2>2. s * Rpm <= Rpm BY <2>1, RateAssumption
  <2>3. Rpm >= 60 - t BY <1>1, <2>1, <2>2, RateAssumption
  <2>4. RetryAfter(t) = 1 BY <1>3 DEF RetryAfter
  <2> QED BY <2>3, <2>4, RateAssumption
<1> QED BY <1>2, <1>3

\* A refill of t, at most the tokens held and what came since, keeps within the
\* budget counted from a.
LEMMA BudgetStep ==
  ASSUME NEW a \in Nat, NEW last \in Nat, NEW time \in Nat, NEW tokens \in Nat,
         NEW c \in Int, NEW t \in Nat, a <= last, last <= time,
         c + tokens <= Capacity + (last - a) * Rpm,
         t <= tokens + (time - last) * Rpm
  PROVE  c + t <= Capacity + (time - a) * Rpm
<1> DEFINE x == last - a
           y == time - last
<1>1. x \in Int /\ y \in Int /\ x + y = time - a OBVIOUS
<1>2. c + tokens <= Capacity + x * Rpm /\ t <= tokens + y * Rpm OBVIOUS
<1> HIDE DEF x, y
<1>3. (x + y) * Rpm = x * Rpm + y * Rpm BY <1>1, MulSum, RateAssumption
<1>4. x * Rpm \in Int /\ y * Rpm \in Int BY <1>1, RateAssumption
<1>5. c + t <= Capacity + (x + y) * Rpm BY <1>2, <1>3, <1>4, CapacityType
<1> QED BY <1>1, <1>5

\* A denied check at s, early or late, takes nothing from what was promised for q.
LEMMA PromiseStep ==
  ASSUME NEW last \in Nat, NEW s \in Nat, NEW q \in Nat, NEW tokens \in Nat,
         NEW t \in Nat, NEW e \in Nat, q >= last, tokens + (q - last) * Rpm >= 60, t < 60,
         e = IF s > last THEN s - last ELSE 0, t = tokens + e * Rpm
  PROVE  q >= s /\ t + (q - s) * Rpm >= 60
<1>0. Rpm \in Nat BY RateAssumption
<1>1. CASE s > last
  <2>0. e = s - last BY <1>1
  <2>1. q >= s
    <3> SUFFICES ASSUME q < s PROVE FALSE
      OBVIOUS
    <3> DEFINE d == q - last
    <3>1. d \in Nat /\ d <= e BY <2>0
    <3>2. tokens + d * Rpm >= 60 OBVIOUS
    <3> HIDE DEF d
    <3>3. d * Rpm <= e * Rpm /\ d * Rpm \in Nat /\ e * Rpm \in Nat
      BY <1>0, <3>1, MulMono, MulNat
    <3> QED BY <3>2, <3>3
  <2>2. t + (q - s) * Rpm >= 60
    <3> DEFINE x == q - s
               d == q - last
    <3>1. x \in Int /\ e + x = d /\ d \in Int BY <2>0
    <3>2. tokens + d * Rpm >= 60 OBVIOUS
    <3> HIDE DEF x, d
    <3>3. (e + x) * Rpm = e * Rpm + x * Rpm BY <1>0, <3>1, MulSum
    <3>4. e * Rpm \in Int /\ x * Rpm \in Int /\ d * Rpm \in Int BY <1>0, <3>1
    <3>5. d * Rpm = e * Rpm + x * Rpm BY <3>1, <3>3
    <3>6. t + x * Rpm >= 60 BY <3>2, <3>4, <3>5
    <3> QED BY <3>6 DEF x
  <2> QED BY <2>1, <2>2
<1>2. CASE ~(s > last)
  <2>0. e = 0 /\ 0 * Rpm = 0 BY <1>0, <1>2
  <2>1. t = tokens /\ q >= s BY <1>2, <2>0
  <2> DEFINE x == q - last
             y == q - s
  <2>2. x \in Nat /\ y \in Nat /\ x <= y BY <1>2
  <2>3. tokens + x * Rpm >= 60 OBVIOUS
  <2> HIDE DEF x, y
  <2>4. x * Rpm <= y * Rpm /\ x * Rpm \in Nat /\ y * Rpm \in Nat
    BY <1>0, <2>2, MulMono, MulNat
  <2>5. t + y * Rpm >= 60 BY <2>1, <2>3, <2>4
  <2> QED BY <2>1, <2>5 DEF y
<1> QED BY <1>1, <1>2

\* TokenBucket::check, admitting or denying, early or late, keeps the budget and
\* the promise.
LEMMA TakeKeeps ==
  ASSUME LimiterInv, NEW k \in Keys, NEW s \in 0..MaxTime, s <= now, Take(k, s), UNCHANGED now
  PROVE  LimiterInv'
<1> DEFINE t == Tokens(k, s)
           n == Len(admitted[k])
           time == s + rewound'[k]
           a == [at |-> s, again |-> rewound'[k]]
<1> USE DEF LimiterInv
<1>1. s \in Nat /\ now \in Nat /\ t \in 0..Capacity /\ Rewind(k, s) \in Nat
  BY TokensThen, BoundAssumption DEF LimiterType
<1>2. /\ rewound' \in [Keys -> Nat] /\ rewound'[k] = rewound[k] + Rewind(k, s)
      /\ time \in Nat /\ a \in Admission /\ Phase(a) = time
      /\ \A j \in Keys \ {k} : rewound'[j] = rewound[j]
  <2>1. /\ rewound' \in [Keys -> Nat] /\ rewound'[k] = rewound[k] + Rewind(k, s)
        /\ rewound[k] \in Nat /\ \A j \in Keys \ {k} : rewound'[j] = rewound[j]
    BY <1>1 DEF Take, LimiterType
  <2> QED BY <1>1, <2>1 DEF Admission, Phase
<1>3. admitted[k] \in Seq(Admission) /\ n \in Nat
      /\ \A i \in 1..n : admitted[k][i] \in Admission /\ Phase(admitted[k][i]) \in Nat
  <2>1. \A x \in Admission : Phase(x) \in Nat BY DEF Admission, Phase
  <2>2. admitted[k] \in Seq(Admission) BY DEF LimiterType
  <2>3. n \in Nat /\ \A i \in 1..n : admitted[k][i] \in Admission BY <2>2
  <2> QED BY <2>1, <2>2, <2>3
\* The budget counted with what is there now, tokens not yet taken.
<1>4. ASSUME NEW i \in 1..n
      PROVE  /\ Phase(admitted[k][i]) <= time
             /\ 60 * (n - i + 1) + t <= Capacity + (time - Phase(admitted[k][i])) * Rpm
  <2>1. bucket[k] # None BY <1>3, <1>4 DEF BudgetInv
  <2>2. /\ bucket[k].last \in Nat /\ bucket[k].tokens \in Nat /\ rewound[k] \in Nat
        /\ Filled(k) \in Nat
    BY <2>1, CapacityType, BoundAssumption DEF LimiterType, Filled
  <2>3. PICK e \in Nat : /\ s + Rewind(k, s) = bucket[k].last + e
                         /\ t <= bucket[k].tokens + e * Rpm
    BY <2>1, TokensThen
  <2>4. time = Filled(k) + e /\ time - Filled(k) = e /\ Filled(k) <= time
    <3> DEFINE w == Rewind(k, s)
    <3>1. time = s + (rewound[k] + w) /\ w \in Nat BY <1>1, <1>2
    <3>2. s + w = bucket[k].last + e BY <2>3
    <3> DEFINE last == bucket[k].last
               x == rewound[k]
    <3>3. last \in Nat /\ x \in Nat /\ Filled(k) = last + x /\ s \in Nat
      BY <1>1, <2>2 DEF Filled
    <3>4. time = s + (x + w) /\ s + w = last + e /\ w \in Nat BY <3>1, <3>2
    <3> HIDE DEF w, time, t, last, x
    <3>5. s + (x + w) = (last + x) + e /\ last + x <= s + (x + w) BY <3>3, <3>4
    <3>6. ((last + x) + e) - (last + x) = e BY <3>3
    <3> QED BY <3>3, <3>4, <3>5, <3>6
  <2>5. /\ Phase(admitted[k][i]) <= Filled(k)
        /\ 60 * (n - i + 1) + bucket[k].tokens
             <= Capacity + (Filled(k) - Phase(admitted[k][i])) * Rpm
    BY <2>1 DEF BudgetInv
  <2>6. Phase(admitted[k][i]) \in Nat /\ Phase(admitted[k][i]) <= time
    <3>1. Phase(admitted[k][i]) \in Nat BY <1>3
    <3>2. Phase(admitted[k][i]) <= Filled(k) BY <2>5
    <3> HIDE DEF time
    <3> QED BY <1>2, <2>2, <2>4, <3>1, <3>2
  <2>7. 60 * (n - i + 1) \in Int
    <3> HIDE DEF n
    <3> QED BY <1>3
  <2>8. t \in Nat BY <1>1, CapacityType
  <2> HIDE DEF n, t, time
  <2> QED BY <1>2, <2>2, <2>3, <2>4, <2>5, <2>6, <2>7, <2>8, BudgetStep
<1>5. /\ bucket'[k].last = s /\ bucket'[k] \in [tokens : 0..Capacity, last : 0..MaxTime]
      /\ bucket'[k] # None
      /\ bucket' \in [Keys -> {None} \cup [tokens : 0..Capacity, last : 0..MaxTime]]
      /\ \A j \in Keys \ {k} : /\ bucket'[j] = bucket[j] /\ admitted'[j] = admitted[j]
                              /\ promised'[j] = promised[j]
  <2>1. \A v \in 0..Capacity : [tokens |-> v, last |-> s] # None
    BY <1>1, NoneAssumption, CapacityType
  <2>2. \E v \in 0..Capacity : bucket' = [bucket EXCEPT ![k] = [tokens |-> v, last |-> s]]
    BY <1>1, CapacityType DEF Take
  <2>3. \A j \in Keys \ {k} : admitted'[j] = admitted[j] /\ promised'[j] = promised[j]
    BY DEF Take, Allow, Deny, LimiterType
  <2> QED BY <2>1, <2>2, <2>3 DEF LimiterType
\* What is left to show of the budget is its part about k.
<1>6. ASSUME NEW m \in Nat, Len(admitted'[k]) = m,
             \A i \in 1..m :
               /\ Phase(admitted'[k][i]) <= time
               /\ 60 * (m - i + 1) + bucket'[k].tokens
                    <= Capacity + (time - Phase(admitted'[k][i])) * Rpm
      PROVE  BudgetInv'
  <2> SUFFICES ASSUME NEW j \in Keys
               PROVE  /\ bucket'[j] = None => admitted'[j] = <<>> /\ promised'[j] = None
                      /\ bucket'[j] # None => bucket'[j].last <= now
                      /\ bucket'[j] # None => \A i \in 1..Len(admitted'[j]) :
                           /\ Phase(admitted'[j][i]) <= bucket'[j].last + rewound'[j]
                           /\ 60 * (Len(admitted'[j]) - i + 1) + bucket'[j].tokens
                                <= Capacity + ((bucket'[j].last + rewound'[j])
                                                 - Phase(admitted'[j][i])) * Rpm
    BY DEF BudgetInv, Filled, Phase
  <2>1. CASE j = k
    BY <1>5, <1>6, <2>1
  <2>2. CASE j # k
    BY <1>2, <1>5, <2>2 DEF BudgetInv, Filled
  <2> QED BY <2>1, <2>2
<1>7. CASE t >= 60
  <2>1. /\ bucket'[k].tokens = t - 60 /\ admitted'[k] = Append(admitted[k], a)
        /\ promised'[k] = None /\ promised' \in [Keys -> {None} \cup Nat]
        /\ admitted' \in [Keys -> Seq(Admission)]
    <3>1. Append(admitted[k], a) \in Seq(Admission) BY <1>2, <1>3
    <3> HIDE DEF t, a
    <3>2. /\ bucket' = [bucket EXCEPT ![k] = [tokens |-> t - 60, last |-> s]]
          /\ admitted' = [admitted EXCEPT ![k] = Append(@, a)]
          /\ promised' = [promised EXCEPT ![k] = None]
      BY <1>7 DEF Take, Allow, t, a
    <3> QED BY <3>1, <3>2 DEF LimiterType
  <2>2. /\ Len(admitted'[k]) = n + 1 /\ admitted'[k][n + 1] = a
        /\ \A i \in 1..n : admitted'[k][i] = admitted[k][i]
    <3> HIDE DEF a
    <3> QED BY <1>2, <1>3, <2>1
  <2>3. LimiterType'
    BY <1>2, <1>5, <2>1 DEF LimiterType
  <2>4. ASSUME NEW i \in 1..(n + 1)
        PROVE  /\ Phase(admitted'[k][i]) <= time
               /\ 60 * ((n + 1) - i + 1) + (t - 60)
                    <= Capacity + (time - Phase(admitted'[k][i])) * Rpm
    <3>1. CASE i \in 1..n
      <4>1. 60 * (n - i + 1) + t <= Capacity + (time - Phase(admitted'[k][i])) * Rpm
        BY <1>4, <2>2, <3>1
      <4>2. 60 * ((n + 1) - i + 1) + (t - 60) = 60 * (n - i + 1) + t
        <5> HIDE DEF n, t
        <5> QED BY <1>1, <1>3, <3>1, CapacityType
      <4> QED BY <1>4, <2>2, <3>1, <4>1, <4>2
    <3>2. CASE i = n + 1
      <4>1. Phase(admitted'[k][i]) = time BY <1>2, <2>2, <3>2
      <4> HIDE DEF n, t, time
      <4>2. (time - time) * Rpm = 0 /\ time <= time BY <1>2, RateAssumption
      <4>3. 60 * ((n + 1) - i + 1) + (t - 60) = t /\ t <= Capacity + 0
        BY <1>1, <1>3, <3>2, CapacityType
      <4> QED BY <4>1, <4>2, <4>3
    <3> QED BY <1>3, <2>4, <3>1, <3>2
  <2>5. BudgetInv'
    <3> HIDE DEF n, t, time
    <3>1. n + 1 \in Nat BY <1>3
    <3> QED BY <1>6, <2>1, <2>2, <2>4, <3>1
  <2>6. PromiseInv'
    BY <1>5, <2>1 DEF PromiseInv
  <2>7. RateBound'
    <3> SUFFICES ASSUME NEW i \in 1..(n + 1), NEW j \in 1..(n + 1), i <= j
                 PROVE  60 * (j - i + 1) <= Capacity
                          + (Phase(admitted'[k][j]) - Phase(admitted'[k][i])) * Rpm
      BY <1>5, <2>2, RateByKey
    <3> HIDE DEF n, t, time
    <3>1. CASE j \in 1..n
      <4>1. i \in 1..n BY <1>3, <3>1
      <4> QED BY <2>2, <3>1, <4>1 DEF RateBound, Phase, n
    <3>2. CASE j = n + 1
      <4>1. 60 * ((n + 1) - i + 1) + (t - 60)
              <= Capacity + (time - Phase(admitted'[k][i])) * Rpm
        BY <2>4
      <4>2. Phase(admitted'[k][j]) = time /\ Phase(admitted'[k][i]) \in Nat
        <5>1. i \in 1..n \/ i = n + 1 BY <1>3
        <5> QED BY <1>2, <1>3, <2>2, <3>2, <5>1
      <4>3. (Phase(admitted'[k][j]) - Phase(admitted'[k][i])) * Rpm \in Int
        BY <1>2, <4>2, RateAssumption
      <4>4. 60 * (j - i + 1) = 60 * ((n + 1) - i + 1) BY <3>2
      <4>5. 60 * (j - i + 1) \in Int BY <1>3, <4>4
      <4>6. t - 60 \in Nat BY <1>1, <1>7, CapacityType DEF t
      <4>7. 60 * (j - i + 1) + (t - 60)
              <= Capacity + (Phase(admitted'[k][j]) - Phase(admitted'[k][i])) * Rpm
        BY <4>1, <4>2, <4>4
      <4> QED BY <4>3, <4>5, <4>6, <4>7, LessTokens, Zenon
    <3>3. j \in 1..n \/ j = n + 1 BY <1>3
    <3> QED BY <3>1, <3>2, <3>3
  <2> QED BY <2>3, <2>5, <2>6, <2>7
<1>8. CASE ~(t >= 60)
  <2> DEFINE p == now + RetryAfter(t)
  <2>1. /\ bucket'[k].tokens = t /\ admitted' = admitted
        /\ promised'[k] = IF promised[k] # None /\ promised[k] < p THEN promised[k] ELSE p
        /\ promised' = [promised EXCEPT ![k] = promised'[k]]
    BY <1>8 DEF Take, Deny, LimiterType
  <2>2. t \in Nat /\ RetryAfter(t) \in Nat /\ t + RetryAfter(t) * Rpm >= 60 /\ p \in Nat
    BY <1>1, <1>8, CapacityType, WaitSuffices
  <2> HIDE DEF p
  <2>3. promised'[k] \in {promised[k], p} \cap Nat /\ promised' \in [Keys -> {None} \cup Nat]
    <3>1. promised'[k] \in {promised[k], p} \cap Nat
      BY <2>1, <2>2 DEF LimiterType
    <3> QED BY <2>1, <3>1 DEF LimiterType
  <2>4. LimiterType'
    BY <1>2, <1>5, <2>1, <2>3 DEF LimiterType
  <2>5. BudgetInv'
    <3> HIDE DEF n, t, time
    <3> QED BY <1>3, <1>4, <1>6, <2>1 DEF n
  <2>6. PromiseInv'
    <3>1. promised'[k] >= s /\ t + (promised'[k] - s) * Rpm >= 60
      <4>1. CASE promised'[k] = p
        <5> DEFINE d == p - s
                   w == RetryAfter(t)
        <5>1. d \in Nat /\ w \in Nat /\ w <= d /\ p >= s BY <1>1, <2>2 DEF p
        <5>2. t + w * Rpm >= 60 BY <2>2
        <5> HIDE DEF d, w, t
        <5>3. w * Rpm <= d * Rpm /\ w * Rpm \in Nat /\ d * Rpm \in Nat
          BY <5>1, MulMono, MulNat, RateAssumption
        <5>4. t + d * Rpm >= 60 BY <2>2, <5>2, <5>3
        <5> QED BY <4>1, <5>1, <5>4 DEF d
      <4>2. CASE promised'[k] = promised[k]
        <5>1. promised[k] \in Nat /\ promised[k] # None BY <2>3, <4>2, NoneAssumption
        <5>2. /\ bucket[k] # None /\ promised[k] >= bucket[k].last
              /\ bucket[k].tokens + (promised[k] - bucket[k].last) * Rpm >= 60
          BY <5>1 DEF PromiseInv, BudgetInv
        <5>3. bucket[k].last \in Nat /\ bucket[k].tokens \in Nat
          BY <5>2, CapacityType, BoundAssumption DEF LimiterType
        <5>4. PICK e \in Nat :
                /\ e = IF s > bucket[k].last THEN s - bucket[k].last ELSE 0
                /\ t \in {bucket[k].tokens + e * Rpm, Capacity}
          BY <5>2, TokensThen
        <5>5. t < 60 /\ t # Capacity BY <1>1, <1>8, CapacityType
        <5>6. t = bucket[k].tokens + e * Rpm BY <5>4, <5>5
        <5> DEFINE last == bucket[k].last
                   b == bucket[k].tokens
                   q == promised[k]
        <5>7. /\ last \in Nat /\ b \in Nat /\ q \in Nat /\ s \in Nat /\ t \in Nat
              /\ q >= last /\ b + (q - last) * Rpm >= 60 /\ t < 60
              /\ e = (IF s > last THEN s - last ELSE 0) /\ t = b + e * Rpm
          BY <1>1, <2>2, <5>1, <5>2, <5>3, <5>4, <5>5, <5>6
        <5> HIDE DEF t, last, b, q
        <5>8. q >= s /\ t + (q - s) * Rpm >= 60
          BY <5>7, PromiseStep
        <5> QED BY <4>2, <5>8 DEF q
      <4> QED BY <2>3, <4>1, <4>2
    <3> HIDE DEF t
    <3>2. bucket'[k].last = s /\ bucket'[k].tokens = t BY <1>5, <2>1
    <3>3. /\ promised'[k] >= bucket'[k].last
          /\ bucket'[k].tokens + (promised'[k] - bucket'[k].last) * Rpm >= 60
      BY <3>1, <3>2
    <3> QED BY <1>5, <3>3 DEF PromiseInv
  <2>7. RateBound'
    BY <2>1, RateUnchanged
  <2> QED BY <2>4, <2>5, <2>6, <2>7
<1> QED BY <1>7, <1>8

\* Time passes: no token is promised or spent.
LEMMA TickKeeps ==
  ASSUME LimiterInv, Tick
  PROVE  LimiterInv'
<1> USE DEF LimiterInv
<1>1. /\ now' \in 0..MaxTime /\ now' > now /\ now \in Nat /\ UNCHANGED limiter
  BY BoundAssumption DEF Tick, LimiterType
<1>2. LimiterType' /\ PromiseInv' /\ RateBound'
  BY <1>1 DEF limiter, LimiterType, PromiseInv, RateBound
<1>3. BudgetInv'
  <2>1. \A k \in Keys : bucket[k] # None => bucket[k].last \in Nat /\ bucket[k].last <= now
    BY BoundAssumption DEF LimiterType, BudgetInv
  <2>2. \A k \in Keys : bucket[k] # None => bucket[k].last <= now'
    BY <1>1, <2>1, BoundAssumption
  <2> QED BY <1>1, <2>2 DEF BudgetInv, Filled, limiter
<1> QED BY <1>2, <1>3

\* An empty limiter, at the start and after a crash.
LEMMA EmptyKeeps ==
  ASSUME now \in 0..MaxTime, bucket = [k \in Keys |-> None],
         admitted = [k \in Keys |-> <<>>], promised = [k \in Keys |-> None],
         rewound = [k \in Keys |-> 0]
  PROVE  LimiterInv
BY DEF LimiterInv, LimiterType, BudgetInv, PromiseInv, RateBound

LEMMA UnchangedKeeps ==
  ASSUME LimiterInv, UNCHANGED <<now, limiter>>
  PROVE  LimiterInv'
BY DEF LimiterInv, LimiterType, BudgetInv, PromiseInv, RateBound, limiter, Filled

\* A promise that has run out is kept.
LEMMA PromiseKept ==
  ASSUME LimiterInv
  PROVE  RetryAfterHonest
<1> SUFFICES ASSUME NEW k \in Keys, promised[k] # None, now >= promised[k]
             PROVE  Tokens(k, now) >= 60
  BY DEF RetryAfterHonest
<1> DEFINE last == bucket[k].last
           b == bucket[k].tokens
<1>1. /\ bucket[k] # None /\ promised[k] \in Nat /\ now \in Nat
      /\ last \in Nat /\ b \in Nat /\ promised[k] >= last
      /\ b + (promised[k] - last) * Rpm >= 60
  BY BoundAssumption, CapacityType DEF LimiterInv, LimiterType, BudgetInv, PromiseInv
<1>2. PICK e \in Nat : /\ e = IF now > last THEN now - last ELSE 0
                       /\ Tokens(k, now) \in {b + e * Rpm, Capacity}
  BY <1>1, TokensThen DEF LimiterInv, LimiterType
<1> DEFINE d == promised[k] - last
<1>3. d \in Nat /\ d <= e /\ b + d * Rpm >= 60 BY <1>1, <1>2
<1> HIDE DEF last, b, d
<1>4. d * Rpm <= e * Rpm /\ d * Rpm \in Nat /\ e * Rpm \in Nat
  BY <1>3, MulMono, MulNat, RateAssumption
<1> QED BY <1>1, <1>2, <1>3, <1>4, CapacityType

-----------------------------------------------------------------------------
(* The pipeline of requests                                                *)

\* What is true of a request at each of its steps: the door and the route that
\* lead there.
Sound(r) ==
    pc[r] # "idle" =>
        /\ req[r].door \in Doors(req[r].route)
        /\ pc[r] \in {"limit", "audit"} => req[r].door = "rest"
        /\ pc[r] = "limit" => stamp[r] # None
        /\ pc[r] = "tool" => req[r].door = "mcp"
        /\ pc[r] = "extract" => req[r].door # "mcp"
        /\ pc[r] = "gate" => req[r].door = "rest" /\ req[r].route = "create"
        /\ pc[r] \in {"stage", "staged", "orphan"} => req[r].route = "upload"
        /\ pc[r] = "renew" => req[r].route = "renew"

FlowType ==
    /\ config \in Configs /\ now \in 0..MaxTime
    /\ pc \in [Requests -> Labels]
    /\ req \in [Requests -> {None} \cup Request]
    /\ \A r \in Requests : req[r] = None <=> pc[r] = "idle"
    /\ stamp \in [Requests -> {None} \cup 0..MaxTime]
    /\ body \in [Requests -> {None, "whole", "empty"}]
    /\ temp \subseteq Requests /\ litter \in Nat
    /\ gate \in Requests \cup {None}
    /\ faults \in 0..MaxFaults /\ arrivals \in 0..MaxArrivals

RecordType ==
    /\ store \subseteq Record /\ back \subseteq Record /\ born \in Nat
    /\ IsFiniteSet(store)

\* A record is in the hands of a renewal between its load and its save.
CopyInv ==
    /\ copy \in [Requests -> {None} \cup Record]
    /\ \A r \in Requests : copy[r] # None <=> pc[r] = "renew"

\* No check has read a time that is still to come.
StampInv == \A r \in Requests : stamp[r] # None => stamp[r] <= now

\* A create of the gateway calls the facade under the gate, and the gate is
\* held only while a slot is free.
Admitted(r) ==
    pc[r] = "call" /\ req[r].route = "create" /\ req[r].door = "rest" => gate = r

GateInv ==
    /\ \A r \in Requests : Admitted(r)
    /\ gate # None => Cardinality(Share) < MaxSandboxes

\* Only two handlers have temporary files.
TempInv == \A r \in temp : req[r].route \in {"upload", "artifacts"}

FlowInv ==
    /\ FlowType /\ RecordType /\ CopyInv /\ StampInv
    /\ NothingLeftBehind /\ TempInv /\ GateInv /\ ShareBounded
    /\ \A r \in Requests : Sound(r)

LEMMA NoneIsNot == None \notin Record /\ None \notin 0..MaxTime
BY NoneAssumption, BoundAssumption DEF Record

\* The share of the gateway is finite, and a part of it is no larger.
LEMMA ShareShrinks ==
  ASSUME NEW S, IsFiniteSet(S), NEW T \in SUBSET S
  PROVE  /\ IsFiniteSet(T) /\ Cardinality(T) \in Nat /\ Cardinality(S) \in Nat
         /\ Cardinality(T) <= Cardinality(S)
BY FS_Subset, FS_CardinalityType

LEMMA ShareFinite ==
  ASSUME RecordType
  PROVE  /\ IsFiniteSet(Share) /\ Cardinality(Share) \in Nat
         /\ Cardinality(Share) <= Cardinality(store) /\ Cardinality(store) \in Nat
BY ShareShrinks, Share \in SUBSET store DEF RecordType, Share

\* A request that no step touches stays sound.
LEMMA SoundKept ==
  ASSUME NEW r \in Requests, Sound(r), config' = config, pc'[r] = pc[r], req'[r] = req[r],
         stamp'[r] = stamp[r]
  PROVE  Sound(r)'
BY DEF Sound, Doors

\* A step of one request that moves on.
LEMMA MoveKeeps ==
  ASSUME FlowInv, NEW r \in Requests, NEW l \in Labels \ {"idle"},
         pc[r] \notin {"idle", "renew"}, Goto(r, l), Sound(r)',
         UNCHANGED <<config, now, req, stamp, litter, store, born, back, arrivals>>,
         faults' \in 0..MaxFaults,
         body' \in [Requests -> {None, "whole", "empty"}],
         \/ temp' = temp /\ (r \in temp => l \in {"staged", "orphan", "call"})
         \/ /\ temp' = temp \cup {r} /\ l \in {"staged", "orphan", "call"}
            /\ req[r].route \in {"upload", "artifacts"},
         \/ /\ UNCHANGED gate /\ gate # r
            /\ l = "call" => req[r].route # "create" \/ req[r].door # "rest"
         \/ /\ gate = None /\ gate' = r /\ l = "call" /\ req[r].route = "create"
            /\ req[r].door = "rest" /\ Cardinality(Share) < MaxSandboxes,
         \/ copy' = copy /\ l # "renew"
         \/ l = "renew" /\ \E x \in Record : copy' = [copy EXCEPT ![r] = x]
  PROVE  FlowInv'
<1>1. /\ pc'[r] = l /\ pc' \in [Requests -> Labels]
      /\ \A q \in Requests \ {r} : pc'[q] = pc[q]
  BY DEF FlowInv, FlowType, Goto
<1>2. FlowType' /\ RecordType' /\ StampInv'
  BY <1>1 DEF FlowInv, FlowType, RecordType, StampInv
<1>3. \A q \in Requests : Sound(q)'
  <2> SUFFICES ASSUME NEW q \in Requests \ {r} PROVE Sound(q)'
    OBVIOUS
  <2>1. Sound(q) BY DEF FlowInv
  <2> QED BY <1>1, <2>1, SoundKept
<1>4. NothingLeftBehind' /\ TempInv'
  BY <1>1 DEF FlowInv, FlowType, NothingLeftBehind, TempInv
<1>5. Share' = Share BY DEF Share
<1>6. GateInv'
  BY <1>1, <1>5, NoneAssumption DEF FlowInv, FlowType, GateInv, Admitted
<1>7. CopyInv'
  <2>1. CASE copy' = copy /\ l # "renew"
    BY <1>1, <2>1 DEF FlowInv, CopyInv
  <2>2. CASE l = "renew" /\ \E x \in Record : copy' = [copy EXCEPT ![r] = x]
    BY <1>1, <2>2, NoneIsNot DEF FlowInv, CopyInv
  <2> QED BY <2>1, <2>2
<1> QED BY <1>2, <1>3, <1>4, <1>5, <1>6, <1>7 DEF FlowInv, ShareBounded

\* A task that ends, answered or dropped, takes with it what it held.
LEMMA EndKeeps ==
  ASSUME FlowInv, NEW r \in Requests, Ended(r), UNCHANGED <<config, now, litter, arrivals>>,
         faults' \in 0..MaxFaults, RecordType',
         Cardinality(Share') <= MaxSandboxes,
         gate # None /\ gate # r => Cardinality(Share') < MaxSandboxes,
         \/ copy' = copy /\ pc[r] # "renew"
         \/ copy' = [copy EXCEPT ![r] = None]
  PROVE  FlowInv'
<1>1. /\ pc'[r] = "idle" /\ pc' \in [Requests -> Labels] /\ req'[r] = None
      /\ req' \in [Requests -> {None} \cup Request]
      /\ stamp'[r] = None /\ stamp' \in [Requests -> {None} \cup 0..MaxTime]
      /\ \A q \in Requests \ {r} : /\ pc'[q] = pc[q] /\ req'[q] = req[q]
                                  /\ stamp'[q] = stamp[q]
  BY DEF FlowInv, FlowType, Ended, Goto, Labels
<1>2. FlowType' /\ StampInv'
  BY <1>1 DEF FlowInv, FlowType, StampInv, Ended
<1>3. \A q \in Requests : Sound(q)'
  <2>1. Sound(r)' BY <1>1 DEF Sound
  <2>2. ASSUME NEW q \in Requests \ {r} PROVE Sound(q)'
    <3>1. Sound(q) BY DEF FlowInv
    <3> QED BY <1>1, <3>1, SoundKept
  <2> QED BY <2>1, <2>2
<1>4. NothingLeftBehind' /\ TempInv'
  BY <1>1 DEF FlowInv, FlowType, NothingLeftBehind, TempInv, Ended
<1>5. GateInv'
  BY <1>1, NoneAssumption DEF FlowInv, FlowType, GateInv, Admitted, Ended
<1>6. CopyInv'
  <2>1. CASE copy' = copy /\ pc[r] # "renew"
    BY <1>1, <2>1 DEF FlowInv, CopyInv
  <2>2. CASE copy' = [copy EXCEPT ![r] = None]
    BY <1>1, <2>2 DEF FlowInv, CopyInv
  <2> QED BY <2>1, <2>2
<1> QED BY <1>2, <1>3, <1>4, <1>5, <1>6 DEF FlowInv, ShareBounded

LEMMA AnswerKeeps ==
  ASSUME FlowInv, NEW r \in Requests, Ended(r), pc[r] # "renew",
         UNCHANGED <<config, now, litter, arrivals, records>>, UNCHANGED faults \/ Failure
  PROVE  FlowInv'
<1>1. faults' \in 0..MaxFaults
  BY BoundAssumption DEF FlowInv, FlowType, Failure
<1>2. RecordType' /\ Share' = Share /\ copy' = copy
  BY DEF FlowInv, RecordType, Share, records
<1>3. /\ Cardinality(Share') <= MaxSandboxes
      /\ gate # None => Cardinality(Share') < MaxSandboxes
  BY <1>2 DEF FlowInv, ShareBounded, GateInv
<1> QED BY <1>1, <1>2, <1>3, EndKeeps

\* Whoever holds the gate is in the call of a create.
LEMMA GateFree ==
  ASSUME FlowInv, NEW r \in Requests, pc[r] # "call" \/ req[r].route # "create"
  PROVE  gate # r
BY NoneAssumption DEF FlowInv, NothingLeftBehind

\* A request arrives.
LEMMA ArriveKeeps ==
  ASSUME FlowInv, NEW r \in Requests, NEW route \in Routes, NEW cred \in Creds,
         NEW door \in DoorNames, Arrive(r, route, cred, door)
  PROVE  FlowInv'
<1> DEFINE q == [door |-> door, route |-> route, cred |-> cred]
<1>1. q \in Request /\ q # None
  BY NoneAssumption DEF Request
<1>2. /\ pc'[r] \in {"limit", "tool", "extract"} /\ pc' \in [Requests -> Labels]
      /\ pc'[r] = "limit" <=> door = "rest"
      /\ pc'[r] = "tool" <=> door = "mcp"
      /\ req'[r] = q /\ req' \in [Requests -> {None} \cup Request]
      /\ \A p \in Requests \ {r} : /\ pc'[p] = pc[p] /\ req'[p] = req[p]
                                  /\ stamp'[p] = stamp[p]
  BY <1>1 DEF FlowInv, FlowType, Arrive, Goto, Labels
<1>3. FlowType'
  <2>1. arrivals' \in 0..MaxArrivals /\ faults' = faults
    BY BoundAssumption DEF FlowInv, FlowType, Arrive
  <2>2. /\ body' \in [Requests -> {None, "whole", "empty"}]
        /\ stamp' \in [Requests -> {None} \cup 0..MaxTime]
    BY DEF FlowInv, FlowType, Arrive
  <2>3. \A p \in Requests : req'[p] = None <=> pc'[p] = "idle"
    BY <1>1, <1>2 DEF FlowInv, FlowType
  <2> QED BY <1>2, <2>1, <2>2, <2>3 DEF FlowInv, FlowType, Arrive
<1>4. \A p \in Requests : Sound(p)'
  <2>1. door = "rest" => stamp'[r] # None BY NoneIsNot DEF Arrive, FlowInv, FlowType
  <2>3. Sound(r)'
    BY <1>2, <2>1 DEF Sound, Arrive, Doors
  <2>2. ASSUME NEW p \in Requests \ {r} PROVE Sound(p)'
    <3>1. Sound(p) /\ config' = config BY DEF FlowInv, Arrive
    <3> QED BY <1>2, <3>1, SoundKept
  <2> QED BY <2>3, <2>2
<1>5. NothingLeftBehind' /\ TempInv' /\ GateInv' /\ ShareBounded' /\ RecordType' /\ CopyInv'
  <2>1. pc[r] = "idle" /\ temp' = temp /\ gate' = gate /\ UNCHANGED records
    BY DEF Arrive
  <2>2. Share' = Share /\ copy' = copy BY <2>1 DEF Share, records
  <2>3. RecordType' BY <2>1 DEF FlowInv, RecordType, records
  <2> QED BY <1>2, <2>1, <2>2, <2>3 DEF FlowInv, FlowType, NothingLeftBehind, TempInv, GateInv,
                                        Admitted, ShareBounded, CopyInv
<1>6. StampInv'
  <2>1. now \in Nat /\ now' = now /\ stamp'[r] \in {now, None}
    BY BoundAssumption DEF Arrive, FlowInv, FlowType
  <2> QED BY <1>2, <2>1 DEF FlowInv, StampInv
<1> QED BY <1>3, <1>4, <1>5, <1>6 DEF FlowInv

\* The layers in front of the handler.
LEMMA LayersKeep ==
  ASSUME FlowInv, NEW r \in Requests, Limit(r) \/ Audit(r) \/ BadRequest(r)
  PROVE  FlowInv'
<1>0. Sound(r) /\ FlowType BY DEF FlowInv
<1>1. CASE Limit(r)
  <2>1. CASE Tokens(KeyOf(r), stamp[r]) >= 60
    <3> DEFINE l == IF Mutating(req[r].route) THEN "audit" ELSE "extract"
    <3>1. /\ pc[r] = "limit" /\ Goto(r, l) /\ l \in Labels \ {"idle"}
          /\ UNCHANGED <<config, now, req, stamp, body, temp, gate, litter, records, arrivals, faults>>
      BY <1>1, <2>1 DEF Limit, pipeline, Labels
    <3>2. Sound(r)'
      <4>1. pc'[r] = l /\ req'[r] = req[r] /\ config' = config
        BY <1>0, <3>1 DEF FlowType, Goto
      <4> QED BY <1>0, <3>1, <4>1 DEF Sound, Doors
    <3>3. gate # r /\ r \notin temp
      BY <3>1, GateFree DEF FlowInv, NothingLeftBehind
    <3> QED BY <1>0, <3>1, <3>2, <3>3, MoveKeeps DEF FlowType, records
  <2>2. CASE ~(Tokens(KeyOf(r), stamp[r]) >= 60)
    BY <1>1, <2>2, AnswerKeeps DEF Limit, Answer
  <2> QED BY <2>1, <2>2
<1>2. CASE Audit(r)
  <2>1. /\ pc[r] = "audit" /\ Goto(r, "extract") /\ "extract" \in Labels \ {"idle"}
        /\ UNCHANGED <<config, now, req, stamp, temp, gate, litter, records, arrivals>>
    BY <1>2 DEF Audit, Labels
  <2>2. faults' \in 0..MaxFaults /\ body' \in [Requests -> {None, "whole", "empty"}]
    BY <1>0, <1>2, BoundAssumption DEF Audit, FlowType, Failure
  <2>3. gate # r /\ r \notin temp
    BY <2>1, GateFree DEF FlowInv, NothingLeftBehind
  <2>4. Sound(r)'
    <3>1. pc'[r] = "extract" /\ req'[r] = req[r] /\ config' = config
      BY <1>0, <2>1 DEF FlowType, Goto
    <3> QED BY <1>0, <2>1, <3>1 DEF Sound, Doors
  <2> QED BY <2>1, <2>2, <2>3, <2>4, MoveKeeps DEF records
<1>3. CASE BadRequest(r)
  BY <1>3, AnswerKeeps DEF BadRequest, Answer
<1> QED BY <1>1, <1>2, <1>3

\* The handler's beginning and the MCP tools.
LEMMA HandlersKeep ==
  ASSUME FlowInv, NEW r \in Requests, Handle(r) \/ Tool(r) \/ Admit(r)
  PROVE  FlowInv'
<1>0. Sound(r) /\ FlowType BY DEF FlowInv
<1>1. CASE Handle(r)
  <2>1. CASE Answer(r) /\ UNCHANGED <<limiter, records>>
    BY <1>1, <2>1, AnswerKeeps DEF Handle, Answer
  <2>2. CASE ~(Answer(r) /\ UNCHANGED <<limiter, records>>)
    <3> DEFINE l == CASE req[r].route = "create" -> "gate"
                      [] req[r].route = "upload" -> "stage"
                      [] OTHER -> "call"
    <3>1. /\ pc[r] = "extract" /\ Vetted(r) /\ Goto(r, l)
          /\ temp' = IF req[r].route = "artifacts" THEN temp \cup {r} ELSE temp
          /\ UNCHANGED <<config, now, req, stamp, body, litter, gate, records, arrivals, faults>>
      BY <1>1, <2>2 DEF Handle
    <3>2. l \in Labels \ {"idle"} /\ (req[r].route = "artifacts" => l = "call")
          /\ (l = "call" => req[r].route # "create")
          /\ (l = "gate" => req[r].route = "create") /\ (l = "stage" => req[r].route = "upload")
          /\ l \in {"gate", "stage", "call"}
      BY DEF Labels
    <3> HIDE DEF l
    <3>3. Sound(r)'
      <4>1. pc'[r] = l /\ req' = req /\ config' = config /\ stamp' = stamp
        BY <1>0, <3>1 DEF FlowType, Goto
      <4>2. req[r].route = "create" => req[r].door = "rest"
        BY <1>0, <3>1 DEF Sound, Doors, RestRoutes
      <4> QED BY <1>0, <3>1, <3>2, <4>1, <4>2 DEF Sound, Doors
    <3>4. gate # r /\ r \notin temp
      BY <3>1, GateFree DEF FlowInv, NothingLeftBehind
    <3> QED BY <1>0, <3>1, <3>2, <3>3, <3>4, MoveKeeps DEF FlowType, records
  <2> QED BY <2>1, <2>2
<1>2. CASE Tool(r)
  <2>1. CASE Answer(r) /\ UNCHANGED <<limiter, records>>
    BY <1>2, <2>1, AnswerKeeps DEF Tool, Answer
  <2>2. CASE ~(Answer(r) /\ UNCHANGED <<limiter, records>>)
    <3>1. /\ pc[r] = "tool" /\ Goto(r, "call") /\ "call" \in Labels \ {"idle"}
          /\ UNCHANGED <<config, now, req, stamp, body, temp, gate, litter, records, arrivals, faults>>
      BY <1>2, <2>2 DEF Tool, pipeline, Labels
    <3>2. req[r].door = "mcp" BY <1>0, <3>1 DEF Sound
    <3>3. Sound(r)'
      <4>1. pc'[r] = "call" BY <1>0, <3>1 DEF FlowType, Goto
      <4> QED BY <1>0, <3>1, <3>2, <4>1 DEF Sound, Doors
    <3>4. gate # r /\ r \notin temp
      BY <3>1, GateFree DEF FlowInv, NothingLeftBehind
    <3> QED BY <1>0, <3>1, <3>2, <3>3, <3>4, MoveKeeps DEF FlowType, records
  <2> QED BY <2>1, <2>2
<1>3. CASE Admit(r)
  <2>1. CASE Records >= MaxSandboxes /\ Answer(r)
    BY <1>3, <2>1, AnswerKeeps DEF Admit, Answer
  <2>2. CASE Failure /\ Ended(r) /\ UNCHANGED <<config, now, litter, arrivals>>
    BY <1>3, <2>2, AnswerKeeps DEF Admit
  <2>3. CASE /\ Records < MaxSandboxes
             /\ Goto(r, "call") /\ gate' = r
             /\ UNCHANGED <<config, now, req, stamp, body, temp, litter, arrivals, faults>>
    <3>1. pc[r] = "gate" /\ gate = None /\ "call" \in Labels \ {"idle"} /\ UNCHANGED records
      BY <1>3 DEF Admit, Labels
    <3>2. Cardinality(Share) < MaxSandboxes
      BY <2>3, ShareFinite, CapAssumption DEF FlowInv, Records
    <3>3. req[r].door = "rest" /\ req[r].route = "create" BY <1>0, <3>1 DEF Sound
    <3>4. Sound(r)'
      <4>1. pc'[r] = "call" BY <1>0, <2>3 DEF FlowType, Goto
      <4> QED BY <1>0, <2>3, <3>1, <4>1 DEF Sound, Doors
    <3>5. r \notin temp BY <3>1 DEF FlowInv, NothingLeftBehind
    <3> QED BY <1>0, <2>3, <3>1, <3>2, <3>3, <3>4, <3>5, MoveKeeps DEF FlowType, records
  <2> QED BY <1>3, <2>1, <2>2, <2>3 DEF Admit
<1> QED BY <1>1, <1>2, <1>3

\* The staging of an upload, with or without its handler.
LEMMA StagingKeeps ==
  ASSUME FlowInv, NEW r \in Requests, Stage(r) \/ Staged(r) \/ Unclaimed(r)
  PROVE  FlowInv'
<1>0. Sound(r) /\ FlowType BY DEF FlowInv
<1>1. CASE Stage(r)
  <2> DEFINE l == IF pc[r] = "stage" THEN "staged" ELSE "orphan"
  <2>1. /\ pc[r] \in {"stage", "orphan"} /\ Goto(r, l) /\ temp' = temp \cup {r}
        /\ l \in Labels \ {"idle"}
        /\ UNCHANGED <<config, now, req, stamp, body, litter, gate, records, arrivals, faults>>
    BY <1>0, <1>1 DEF Stage, Goto, Labels, FlowType
  <2>2. Sound(r)'
    <3>1. pc'[r] = l BY <1>0, <2>1 DEF FlowType, Goto
    <3> QED BY <1>0, <2>1, <3>1 DEF Sound, Doors
  <2>3. gate # r /\ req[r].route = "upload" BY <1>0, <2>1, GateFree DEF Sound
  <2> QED BY <1>0, <2>1, <2>2, <2>3, MoveKeeps DEF FlowType, records
<1>2. CASE Staged(r)
  <2>1. CASE Failure /\ Ended(r)
    BY <1>2, <2>1, AnswerKeeps DEF Staged
  <2>2. CASE Goto(r, "call") /\ UNCHANGED <<req, pipeline, faults>>
    <3>1. /\ pc[r] = "staged" /\ "call" \in Labels \ {"idle"}
          /\ UNCHANGED <<config, now, req, stamp, body, temp, litter, gate, records, arrivals, faults>>
      BY <1>2, <2>2 DEF Staged, Labels, pipeline
    <3>2. Sound(r)' /\ req[r].route = "upload"
      <4>1. pc'[r] = "call" BY <1>0, <2>2 DEF FlowType, Goto
      <4> QED BY <1>0, <3>1, <4>1 DEF Sound, Doors
    <3>3. gate # r BY <3>1, GateFree
    <3> QED BY <1>0, <2>2, <3>1, <3>2, <3>3, MoveKeeps DEF FlowType, records
  <2> QED BY <1>2, <2>1, <2>2 DEF Staged
<1>3. CASE Unclaimed(r)
  BY <1>3, AnswerKeeps DEF Unclaimed
<1> QED BY <1>1, <1>2, <1>3

\* The facade call, the save of a renewal and the relay of a stream.
LEMMA CallKeeps ==
  ASSUME FlowInv, NEW r \in Requests, Call(r) \/ Renew(r) \/ RelayEnds(r)
  PROVE  FlowInv'
<1>0. Sound(r) /\ FlowType /\ RecordType BY DEF FlowInv
<1>1. CASE RelayEnds(r)
  BY <1>1, AnswerKeeps DEF RelayEnds, Answer
<1>2. CASE Renew(r)
  <2>1. /\ pc[r] = "renew" /\ copy[r] \in Record /\ faults' = faults
        /\ store' = store \cup {copy[r]} /\ copy' = [copy EXCEPT ![r] = None] /\ born' = born
        /\ back' = IF copy[r] \in store THEN back ELSE back \cup {copy[r]}
    BY <1>2 DEF Renew, Answer, FlowInv, CopyInv
  <2>2. RecordType'
    <3>1. IsFiniteSet(store') BY <1>0, <2>1, FS_AddElement DEF RecordType
    <3> QED BY <1>0, <2>1, <3>1 DEF RecordType
  <2>3. Share' \in SUBSET Share BY <2>1 DEF Share
  <2>4. /\ Cardinality(Share') <= Cardinality(Share)
        /\ Cardinality(Share') \in Nat /\ Cardinality(Share) \in Nat
    BY <1>0, <2>3, ShareFinite, ShareShrinks
  <2>5. /\ Cardinality(Share') <= MaxSandboxes
        /\ gate # None => Cardinality(Share') < MaxSandboxes
    BY <2>4, CapAssumption DEF FlowInv, GateInv, ShareBounded
  <2> QED BY <1>0, <1>2, <2>1, <2>2, <2>5, EndKeeps DEF Renew, Answer, FlowType
<1>3. CASE Call(r)
  <2>0. pc[r] = "call" BY <1>3 DEF Call
  <2>1. CASE /\ req[r].route \notin {"stream", "create"}
             /\ Answer(r) /\ UNCHANGED records
    BY <2>0, <2>1, AnswerKeeps DEF Answer
  <2>2. CASE /\ req[r].route = "create"
             /\ born' = born + 1 /\ store' = store \cup {<<req[r].door, born'>>}
             /\ Answer(r) /\ UNCHANGED <<copy, back>>
    <3> DEFINE x == <<req[r].door, born'>>
    <3>1. req[r].door \in {"rest", "mcp"}
      BY <1>0, <2>0, <2>2 DEF Sound, Doors, RestRoutes
    <3>2. x \in Record /\ x[1] = req[r].door BY <1>0, <2>2, <3>1 DEF RecordType, Record
    <3> HIDE DEF x
    <3>3. store' = store \cup {x} /\ back' = back BY <2>2 DEF x
    <3>4. RecordType'
      <4>1. IsFiniteSet(store') BY <1>0, <3>3, FS_AddElement DEF RecordType
      <4>2. born' \in Nat BY <1>0, <2>2 DEF RecordType
      <4> QED BY <1>0, <2>2, <3>2, <3>3, <4>1, <4>2 DEF RecordType
    <3>5. CASE req[r].door = "rest"
      <4>1. gate = r /\ Cardinality(Share) < MaxSandboxes
        BY <2>0, <2>2, <3>5, NoneAssumption DEF FlowInv, GateInv, Admitted
      <4>2. Share' \in SUBSET (Share \cup {x}) BY <3>3 DEF Share
      <4>3. /\ IsFiniteSet(Share \cup {x}) /\ Cardinality(Share) \in Nat
            /\ Cardinality(Share \cup {x}) \in {Cardinality(Share), Cardinality(Share) + 1}
        BY <1>0, ShareFinite, FS_AddElement
      <4>4. Cardinality(Share') <= Cardinality(Share \cup {x}) /\ Cardinality(Share') \in Nat
        BY <4>2, <4>3, ShareShrinks
      <4>5. Cardinality(Share') <= MaxSandboxes
        BY <4>1, <4>3, <4>4, CapAssumption
      <4> QED BY <1>0, <2>0, <2>2, <3>4, <4>1, <4>5, EndKeeps DEF Answer, FlowType
    <3>6. CASE req[r].door = "mcp"
      <4>1. Share' = Share BY <3>2, <3>3, <3>6 DEF Share
      <4> QED BY <1>0, <2>0, <2>2, <3>4, <4>1, EndKeeps
              DEF Answer, FlowType, FlowInv, GateInv, ShareBounded
    <3> QED BY <3>1, <3>5, <3>6
  <2>3. CASE /\ \E x \in store : store' = store \ {x}
             /\ Answer(r) /\ UNCHANGED <<born, copy, back>>
    <3>1. Share' \in SUBSET Share /\ store' \in SUBSET store BY <2>3 DEF Share
    <3>2. RecordType'
      BY <1>0, <2>3, <3>1, ShareShrinks DEF RecordType
    <3>3. /\ Cardinality(Share') <= Cardinality(Share)
          /\ Cardinality(Share') \in Nat /\ Cardinality(Share) \in Nat
      BY <1>0, <3>1, ShareFinite, ShareShrinks
    <3>4. /\ Cardinality(Share') <= MaxSandboxes
          /\ gate # None => Cardinality(Share') < MaxSandboxes
      BY <3>3, CapAssumption DEF FlowInv, GateInv, ShareBounded
    <3> QED BY <1>0, <2>0, <2>3, <3>2, <3>4, EndKeeps DEF Answer, FlowType
  <2>4. CASE /\ req[r].route = "renew"
             /\ \E x \in store : copy' = [copy EXCEPT ![r] = x]
             /\ Goto(r, "renew")
             /\ UNCHANGED <<config, now, req, pipeline, litter, store, born, back, arrivals,
                            faults>>
    <3>1. /\ "renew" \in Labels \ {"idle"}
          /\ UNCHANGED <<config, now, req, stamp, body, temp, litter, gate, store, born, back,
                         arrivals, faults>>
      BY <2>4 DEF Labels, pipeline
    <3>2. Sound(r)'
      <4>1. pc'[r] = "renew" BY <1>0, <2>4 DEF FlowType, Goto
      <4> QED BY <1>0, <2>0, <2>4, <3>1, <4>1 DEF Sound, Doors
    <3>3. gate # r BY <2>4, GateFree
    <3>4. r \notin temp BY <2>4 DEF FlowInv, TempInv
    <3>5. \E x \in Record : copy' = [copy EXCEPT ![r] = x] BY <1>0, <2>4 DEF RecordType
    <3> QED BY <1>0, <2>0, <2>4, <3>1, <3>2, <3>3, <3>4, <3>5, MoveKeeps DEF FlowType
  <2>5. CASE /\ req[r].route = "stream"
             /\ Goto(r, "relay")
             /\ UNCHANGED <<config, now, req, pipeline, litter, records, arrivals, faults>>
    <3>1. /\ "relay" \in Labels \ {"idle"}
          /\ UNCHANGED <<config, now, req, stamp, body, temp, litter, gate, records, arrivals,
                         faults>>
      BY <2>5 DEF Labels, pipeline
    <3>2. Sound(r)'
      <4>1. pc'[r] = "relay" BY <1>0, <2>5 DEF FlowType, Goto
      <4> QED BY <1>0, <2>0, <3>1, <4>1 DEF Sound, Doors
    <3>3. gate # r BY <2>5, GateFree
    <3>4. r \notin temp BY <2>5 DEF FlowInv, TempInv
    <3> QED BY <1>0, <2>0, <2>5, <3>1, <3>2, <3>3, <3>4, MoveKeeps DEF FlowType, records
  <2>6. CASE Failure /\ Ended(r) /\ UNCHANGED <<config, now, litter, records, arrivals>>
    BY <2>0, <2>6, AnswerKeeps
  <2> QED BY <1>3, <2>1, <2>2, <2>3, <2>4, <2>5, <2>6 DEF Call
<1> QED BY <1>1, <1>2, <1>3

\* The client hangs up.
LEMMA HangUpKeeps ==
  ASSUME FlowInv, NEW r \in Requests, HangUp(r)
  PROVE  FlowInv'
<1>0. Sound(r) /\ FlowType BY DEF FlowInv
<1>1. CASE pc[r] \in {"stage", "staged"}
  <2>1. /\ Goto(r, "orphan") /\ "orphan" \in Labels \ {"idle"} /\ faults' \in 0..MaxFaults
        /\ UNCHANGED <<config, now, req, stamp, body, temp, litter, gate, records, arrivals>>
    BY <1>0, <1>1, BoundAssumption DEF HangUp, Failure, Labels, pipeline, FlowType
  <2>2. Sound(r)'
    <3>1. pc'[r] = "orphan" BY <1>0, <2>1 DEF FlowType, Goto
    <3> QED BY <1>0, <1>1, <2>1, <3>1 DEF Sound, Doors
  <2>3. gate # r BY <1>1, GateFree
  <2> QED BY <1>0, <1>1, <2>1, <2>2, <2>3, MoveKeeps DEF FlowType, records
<1>2. CASE pc[r] \notin {"stage", "staged"}
  BY <1>2, AnswerKeeps DEF HangUp
<1> QED BY <1>1, <1>2

\* A process dies with all its requests.
LEMMA CrashKeeps ==
  ASSUME FlowInv, NEW doors \in {{"mcp"}, {"rest", "merged", "bare"}}, Crash(doors)
  PROVE  FlowInv'
<1> DEFINE gone == {r \in Requests : pc[r] # "idle" /\ req[r].door \in doors}
<1>0. FlowType BY DEF FlowInv
<1>1. /\ \A r \in gone : /\ pc'[r] = "idle" /\ req'[r] = None
                           /\ stamp'[r] = None /\ copy'[r] = None
      /\ \A r \in Requests \ gone : /\ pc'[r] = pc[r] /\ req'[r] = req[r]
                                   /\ stamp'[r] = stamp[r] /\ copy'[r] = copy[r]
      /\ temp' = temp \ gone /\ litter' = litter + Cardinality(temp \cap gone)
      /\ UNCHANGED <<config, now, store, born, back, arrivals>>
  BY <1>0 DEF Crash
<1>2. /\ pc' \in [Requests -> Labels] /\ req' \in [Requests -> {None} \cup Request]
      /\ body' \in [Requests -> {None, "whole", "empty"}]
      /\ stamp' \in [Requests -> {None} \cup 0..MaxTime]
      /\ copy' \in [Requests -> {None} \cup Record]
  BY <1>0 DEF Crash, FlowType, FlowInv, CopyInv, Labels
<1>3. litter' \in Nat /\ faults' \in 0..MaxFaults
  <2>1. IsFiniteSet(temp \cap gone)
    BY <1>0, BoundAssumption, FS_Subset, temp \cap gone \subseteq Requests
  <2>2. Cardinality(temp \cap gone) \in Nat BY <2>1, FS_CardinalityType
  <2> HIDE DEF gone
  <2> QED BY <1>0, <1>1, <2>2, BoundAssumption DEF FlowType, Crash, Failure
<1>4. \/ gate' = None /\ \A r \in Requests : pc[r] # "idle" /\ req[r].door = "rest" => r \in gone
      \/ gate' = gate /\ gate \notin gone
  <2>1. CASE doors = {"mcp"}
    BY <1>0, <2>1, NoneAssumption DEF Crash, FlowInv, NothingLeftBehind
  <2>2. CASE doors = {"rest", "merged", "bare"}
    BY <2>2 DEF Crash
  <2> QED BY <2>1, <2>2
<1> HIDE DEF gone
<1>5. FlowType'
  <2>1. gate' \in Requests \cup {None} BY <1>0, <1>4 DEF FlowType
  <2>2. \A r \in Requests : req'[r] = None <=> pc'[r] = "idle" BY <1>0, <1>1 DEF FlowType
  <2> QED BY <1>0, <1>1, <1>2, <1>3, <2>1, <2>2 DEF FlowType
<1>6. \A r \in Requests : Sound(r)'
  <2> TAKE r \in Requests
  <2>1. CASE r \in gone BY <1>1, <2>1 DEF Sound
  <2>2. CASE r \notin gone
    <3>1. Sound(r) BY DEF FlowInv
    <3> QED BY <1>1, <2>2, <3>1, SoundKept
  <2> QED BY <2>1, <2>2
<1>7. NothingLeftBehind' /\ TempInv'
  BY <1>0, <1>1, <1>4 DEF FlowInv, FlowType, NothingLeftBehind, TempInv
<1>8. RecordType' /\ Share' = Share
  BY <1>1 DEF FlowInv, RecordType, Share
<1>9. GateInv' /\ ShareBounded'
  BY <1>0, <1>1, <1>4, <1>8 DEF FlowInv, FlowType, GateInv, Admitted, ShareBounded
<1>10. CopyInv' /\ StampInv'
  BY <1>1, <1>2 DEF FlowInv, CopyInv, StampInv
<1> QED BY <1>5, <1>6, <1>7, <1>8, <1>9, <1>10 DEF FlowInv

LEMMA FlowUnchanged ==
  ASSUME FlowInv, now' \in 0..MaxTime, now' >= now,
         UNCHANGED <<config, pc, req, pipeline, litter, records, arrivals, faults>>
  PROVE  FlowInv'
<1>1. \A r \in Requests : Sound(r)'
  <2> TAKE r \in Requests
  <2>1. Sound(r) BY DEF FlowInv
  <2> QED BY <2>1, SoundKept DEF pipeline
<1>2. Share' = Share BY DEF Share, records
<1>3. StampInv'
  <2>1. \A r \in Requests : stamp[r] # None => stamp[r] \in Int /\ stamp[r] <= now
    BY BoundAssumption DEF FlowInv, FlowType, StampInv
  <2>2. now \in Int /\ now' \in Int BY BoundAssumption DEF FlowInv, FlowType
  <2> QED BY <2>1, <2>2 DEF StampInv, pipeline
<1>4. FlowType' /\ RecordType' /\ CopyInv'
  BY DEF FlowInv, FlowType, RecordType, CopyInv, pipeline, records
<1> QED BY <1>1, <1>2, <1>3, <1>4
        DEF FlowInv, NothingLeftBehind, TempInv, GateInv, Admitted, ShareBounded, pipeline

-----------------------------------------------------------------------------
(* The whole                                                               *)

IInv == LimiterInv /\ FlowInv

LEMMA InitInv == Init => IInv
<1> SUFFICES ASSUME Init PROVE IInv
  OBVIOUS
<1>1. LimiterInv
  BY BoundAssumption, EmptyKeeps DEF Init
<1>2. FlowInv
  <2>1. FlowType /\ CopyInv /\ StampInv /\ NothingLeftBehind /\ TempInv
    BY BoundAssumption
       DEF Init, FlowType, CopyInv, StampInv, NothingLeftBehind, TempInv, Labels
  <2>2. RecordType
    <3>1. IsFiniteSet({}) /\ IsFiniteSet({<<"rest", 0>>}) BY FS_EmptySet, FS_Singleton
    <3>2. <<"rest", 0>> \in Record BY DEF Record
    <3>3. store \in {{}, {<<"rest", 0>>}} /\ back = {} /\ born = 0 BY DEF Init
    <3>4. store \subseteq Record /\ IsFiniteSet(store) BY <3>1, <3>2, <3>3
    <3> QED BY <3>3, <3>4 DEF RecordType
  <2>3. GateInv /\ ShareBounded
    <3>1. Cardinality(Share) <= MaxSandboxes
      BY <2>2, ShareFinite, CapAssumption DEF Init
    <3> QED BY <3>1 DEF Init, GateInv, Admitted, ShareBounded
  <2>4. \A r \in Requests : Sound(r) BY DEF Init, Sound
  <2> QED BY <2>1, <2>2, <2>3, <2>4 DEF FlowInv
<1> QED BY <1>1, <1>2 DEF IInv

LEMMA StepInv == IInv /\ [Next]_vars => IInv'
<1> SUFFICES ASSUME IInv, [Next]_vars PROVE IInv'
  OBVIOUS
<1>0. LimiterInv /\ FlowInv BY DEF IInv
<1>1. CASE UNCHANGED vars
  <2>1. now' \in 0..MaxTime /\ now' >= now
    BY <1>0, <1>1, BoundAssumption DEF vars, FlowInv, FlowType
  <2> QED BY <1>0, <1>1, <2>1, UnchangedKeeps, FlowUnchanged DEF IInv, vars
<1>2. ASSUME NEW r \in Requests, NEW route \in Routes, NEW cred \in Creds,
             NEW door \in DoorNames, Arrive(r, route, cred, door)
      PROVE  IInv'
  BY <1>0, <1>2, ArriveKeeps, UnchangedKeeps DEF IInv, Arrive
<1>3. ASSUME NEW r \in Requests, Limit(r)
      PROVE  IInv'
  <2>1. now' = now /\ Take(KeyOf(r), stamp[r]) /\ pc[r] = "limit"
    BY <1>3 DEF Limit, Answer
  <2>3. stamp[r] \in 0..MaxTime /\ stamp[r] <= now
    BY <1>0, <2>1 DEF FlowInv, FlowType, Sound, StampInv
  <2>2. KeyOf(r) \in Keys
    <3>1. req[r] \in Request BY <1>0, <2>1 DEF FlowInv, FlowType
    <3> QED BY <3>1, CredAssumption DEF Request, KeyOf, Keys
  <2> QED BY <1>0, <1>3, <2>1, <2>2, <2>3, TakeKeeps, LayersKeep DEF IInv
<1>4. ASSUME NEW r \in Requests, Audit(r) \/ BadRequest(r)
      PROVE  IInv'
  BY <1>0, <1>4, LayersKeep, UnchangedKeeps DEF IInv, Audit, BadRequest, Answer
<1>5. ASSUME NEW r \in Requests, Handle(r) \/ Tool(r) \/ Admit(r)
      PROVE  IInv'
  <2>1. UNCHANGED <<now, limiter>> BY <1>5 DEF Handle, Tool, Admit, Answer
  <2> QED BY <1>0, <1>5, <2>1, HandlersKeep, UnchangedKeeps DEF IInv
<1>6. ASSUME NEW r \in Requests, Stage(r) \/ Staged(r) \/ Unclaimed(r)
      PROVE  IInv'
  BY <1>0, <1>6, StagingKeeps, UnchangedKeeps DEF IInv, Stage, Staged, Unclaimed
<1>7. ASSUME NEW r \in Requests, Call(r) \/ Renew(r) \/ RelayEnds(r)
      PROVE  IInv'
  <2>1. UNCHANGED <<now, limiter>> BY <1>7 DEF Call, Renew, RelayEnds, Answer
  <2> QED BY <1>0, <1>7, <2>1, CallKeeps, UnchangedKeeps DEF IInv
<1>8. ASSUME NEW r \in Requests, HangUp(r)
      PROVE  IInv'
  BY <1>0, <1>8, HangUpKeeps, UnchangedKeeps DEF IInv, HangUp
<1>9. ASSUME NEW doors \in {{"mcp"}, {"rest", "merged", "bare"}}, Crash(doors)
      PROVE  IInv'
  <2>1. LimiterInv'
    <3>1. CASE doors = {"mcp"}
      BY <1>0, <1>9, <3>1, UnchangedKeeps DEF Crash
    <3>2. CASE doors # {"mcp"}
      <4>1. /\ now' \in 0..MaxTime /\ bucket' = [k \in Keys |-> None]
            /\ admitted' = [k \in Keys |-> <<>>] /\ promised' = [k \in Keys |-> None]
            /\ rewound' = [k \in Keys |-> 0]
        BY <1>0, <1>9, <3>2 DEF Crash, LimiterInv, LimiterType
      <4> QED BY <4>1 DEF LimiterInv, LimiterType, BudgetInv, PromiseInv, RateBound
    <3> QED BY <3>1, <3>2
  <2> QED BY <1>0, <1>9, <2>1, CrashKeeps DEF IInv
<1>10. CASE Tick
  <2>1. now' \in 0..MaxTime /\ now' >= now
    BY <1>0, <1>10, BoundAssumption DEF Tick, FlowInv, FlowType
  <2> QED BY <1>0, <1>10, <2>1, TickKeeps, FlowUnchanged DEF IInv, Tick
<1> QED
  BY <1>1, <1>2, <1>3, <1>4, <1>5, <1>6, <1>7, <1>8, <1>9, <1>10 DEF Next, Step

LEMMA Invariance == Spec => []IInv
BY InitInv, StepInv, PTL DEF Spec

\* Every reachable state is well typed; of the limiter, no bucket ever holds less
\* than nothing or more than the burst (TokenBucket::check).
THEOREM TypeCorrect == Spec => []TypeOK
<1>1. IInv => TypeOK
  BY DEF IInv, LimiterInv, LimiterType, FlowInv, FlowType, RecordType, CopyInv, TypeOK
<1> QED BY <1>1, Invariance, PTL

\* For every rate and burst, no span of time has more admissions of one key than
\* the burst, the refill of that span and of the seconds that late checks brought
\* back (TokenBucket::check, its clock read before the lock).
THEOREM RateIsBounded == Spec => []RateBound
<1>1. IInv => RateBound
  BY DEF IInv, LimiterInv
<1> QED BY <1>1, Invariance, PTL

\* For every rate and burst, whoever waits for Retry-After finds a token.
THEOREM RetryAfterIsHonest == Spec => []RetryAfterHonest
<1>1. IInv => RetryAfterHonest
  BY PromiseKept DEF IInv
<1> QED BY <1>1, Invariance, PTL

\* Temporary files and the creation gate belong to requests in flight.
THEOREM NothingIsLeftBehind == Spec => []NothingLeftBehind
<1>1. IInv => NothingLeftBehind
  BY DEF IInv, FlowInv
<1> QED BY <1>1, Invariance, PTL

\* However many creates, deletes and renewals are under way through whatever
\* doors, the records that came through the gateway's gate stay within
\* max_sandboxes, those aside that a renewal wrote back.
THEOREM ShareIsBounded == Spec => []ShareBounded
<1>1. IInv => ShareBounded
  BY DEF IInv, FlowInv
<1> QED BY <1>1, Invariance, PTL
=============================================================================
