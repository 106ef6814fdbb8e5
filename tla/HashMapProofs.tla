---------------------------- MODULE HashMapProofs ----------------------------
(***************************************************************************)
(* Proofs about HashMap, for every set of keys, hash function, capacity and *)
(* limit of the allocator.                                                  *)
(***************************************************************************)
EXTENDS HashMap, SetInduction, FiniteSetTheorems

-----------------------------------------------------------------------------
(* Prime capacities *)

\* A prime number, by definition.
IsPrime(n) == n >= 2 /\ \A d \in 2 .. n - 1 : n % d # 0

\* The least number of a set.
LEMMA MinIsLeast ==
    ASSUME NEW S \in SUBSET Nat, S # {}
    PROVE  Min(S) \in S /\ \A n \in S : Min(S) <= n
<1>1. \E n \in S : \A m \in S : n <= m
  BY LeastElement
<1> QED BY <1>1 DEF Min

\* A number whose square is not above n is not above the quotient either.
LEMMA SquareQuotient ==
    ASSUME NEW a \in Nat \ {0}, NEW n \in Nat, a * a <= n
    PROVE  n \div a >= a
OBVIOUS

\* Squares grow.
LEMMA SquareGrows ==
    ASSUME NEW a \in Nat, NEW b \in Nat, a <= b
    PROVE  a * a <= b * b
<1>1. a * a <= a * b
  OBVIOUS
<1>2. a * b <= b * b
  OBVIOUS
<1>3. a * a \in Nat /\ a * b \in Nat /\ b * b \in Nat
  OBVIOUS
<1> QED BY <1>1, <1>2, <1>3

\* One of two factors is not above the square root.
LEMMA SmallFactor ==
    ASSUME NEW n \in Nat, n > 3, NEW d \in 2 .. n - 1, n % d = 0
    PROVE  \E m \in 2 .. n - 1 : n % m = 0 /\ m * m <= n
<1>1. PICK q \in Nat : n = d * q
  <2>1. d \in Nat \ {0} /\ n = d * (n \div d) /\ n \div d \in Nat
    OBVIOUS
  <2> QED BY <2>1
<1>2. q \in 2 .. n - 1
  <2>1. q # 0 /\ q # 1
    BY <1>1
  <2>2. 2 * q <= d * q
    BY <2>1
  <2> QED BY <1>1, <2>1, <2>2
<1>3. n % q = 0
  <2>1. n = q * d /\ q \in Nat \ {0} /\ d \in Nat
    BY <1>1, <1>2
  <2> QED BY <2>1
<1>4. CASE d <= q
  <2>1. d * d <= d * q
    BY <1>4
  <2> QED BY <1>1, <2>1
<1>5. CASE q < d
  <2>1. q * q <= d * q
    BY <1>5
  <2> QED BY <1>1, <1>2, <1>3, <2>1
<1> QED BY <1>4, <1>5

\* Trying 3 and then i while n / (i - 1) >= i - 1 finds every composite number.
LEMMA TrialDivision ==
    ASSUME NEW n \in Nat
    PROVE  is_prime(n) <=> IsPrime(n)
<1>1. CASE n <= 3
  <2>1. n \in {0, 1, 2, 3}
    BY <1>1
  <2>2. ~is_prime(0) /\ ~IsPrime(0) /\ ~is_prime(1) /\ ~IsPrime(1)
    BY DEF is_prime, IsPrime
  <2>3. is_prime(2) /\ is_prime(3)
    BY DEF is_prime
  <2>4. IsPrime(2) /\ IsPrime(3)
    <3>1. \A d \in 2 .. 3 - 1 : d = 2
      OBVIOUS
    <3>2. 3 % 2 # 0 /\ \A d \in 2 .. 2 - 1 : FALSE
      OBVIOUS
    <3> QED BY <3>1, <3>2 DEF IsPrime
  <2> QED BY <2>1, <2>2, <2>3, <2>4
<1>2. ASSUME n > 3, is_prime(n) PROVE IsPrime(n)
  <2>1. n % 2 = 1 /\ \A i \in 3 .. n - 1 : (i = 3 \/ n \div (i - 1) >= i - 1) => n % i # 0
    <3>1. n \notin {2, 3}
      BY <1>2
    <3> QED BY <1>2, <3>1, Zenon DEF is_prime
  <2>2. ASSUME NEW d \in 2 .. n - 1, n % d = 0 PROVE FALSE
    <3>1. PICK m \in 2 .. n - 1 : n % m = 0 /\ m * m <= n
      BY <1>2, <2>2, SmallFactor
    <3>2. m # 2 /\ m \in 3 .. n - 1 /\ m - 1 \in Nat \ {0}
      BY <2>1, <3>1
    <3>3. (m - 1) * (m - 1) <= n
      <4> DEFINE k == m - 1
      <4>1. k \in Nat /\ m \in Nat /\ k <= m
        BY <3>2
      <4> HIDE DEF k
      <4>2. k * k <= m * m /\ k * k \in Nat /\ m * m \in Nat
        BY <4>1, SquareGrows
      <4>3. k * k <= n
        BY <3>1, <4>2
      <4> QED BY <4>3 DEF k
    <3>4. n \div (m - 1) >= m - 1
      BY <3>2, <3>3, SquareQuotient
    <3> QED BY <2>1, <3>1, <3>2, <3>4
  <2>3. n >= 2
    BY <1>2
  <2>4. \A d \in 2 .. n - 1 : n % d # 0
    BY <2>2, Zenon
  <2> QED BY <2>3, <2>4, Zenon DEF IsPrime
<1>3. ASSUME n > 3, IsPrime(n) PROVE is_prime(n)
  <2>1. \A d \in 2 .. n - 1 : n % d # 0
    BY <1>3 DEF IsPrime
  <2>2. 2 \in 2 .. n - 1 /\ n % 2 \in {0, 1}
    BY <1>3
  <2>3. \A i \in 3 .. n - 1 : n % i # 0
    BY <2>1
  <2>4. n % 2 = 1
    BY <2>1, <2>2
  <2>5. n >= 2
    BY <1>3
  <2> QED BY <2>3, <2>4, <2>5, Zenon DEF is_prime
<1> QED BY <1>1, <1>2, <1>3

\* No prime above 3 has another remainder by 6 than 1 or 5.
LEMMA PrimeRemainder ==
    ASSUME NEW n \in Nat, n > 3, IsPrime(n)
    PROVE  n % 6 \in {1, 5}
<1>1. n % 2 # 0 /\ n % 3 # 0
  BY DEF IsPrime
<1> QED BY <1>1

\* The first candidate is above x and none is passed over.
LEMMA Candidates ==
    ASSUME NEW x \in Nat, x > 3
    PROVE  /\ FirstCandidate(x) \in Nat /\ FirstCandidate(x) > x
           /\ \A c \in x + 1 .. FirstCandidate(x) - 1 : c % 6 \notin {1, 5}
BY DEF FirstCandidate

\* What divides a number divides its multiples.
LEMMA DividesMultiple ==
    ASSUME NEW d \in Nat \ {0}, NEW m \in Nat, m % d = 0, NEW k \in Nat
    PROVE  m * k \in Nat /\ (m * k) % d = 0
<1>1. PICK q \in Nat : m = d * q
  <2>1. m = d * (m \div d) /\ m \div d \in Nat
    OBVIOUS
  <2> QED BY <2>1
<1>2. q * k \in Nat /\ m * k = (q * k) * d
  BY <1>1
<1> DEFINE r == q * k
           mk == m * k
<1>3. r \in Nat /\ mk = r * d
  BY <1>2
<1> HIDE DEF r, mk
<1>4. mk \in Nat /\ mk % d = 0
  BY <1>3
<1> QED BY <1>4 DEF mk

\* Some number is divided by all up to n.
LEMMA CommonMultiple ==
    ASSUME NEW n \in Nat
    PROVE  \E m \in Nat \ {0} : \A d \in 1 .. n : m % d = 0
<1> DEFINE S == {i \in Nat : \E m \in Nat \ {0} : \A d \in 1 .. i : m % d = 0}
<1>1. 0 \in S
  BY 1 \in Nat \ {0}
<1>2. ASSUME NEW i \in Nat, i \in S PROVE i + 1 \in S
  <2>1. PICK m \in Nat \ {0} : \A d \in 1 .. i : m % d = 0
    BY <1>2
  <2> DEFINE k == m * (i + 1)
  <2>2. k \in Nat \ {0}
    BY <2>1
  <2>3. ASSUME NEW d \in 1 .. i + 1 PROVE k % d = 0
    <3>1. CASE d \in 1 .. i
      <4>1. m % d = 0
        BY <2>1, <3>1, Zenon
      <4>2. d \in Nat \ {0} /\ m \in Nat /\ i + 1 \in Nat
        BY <3>1
      <4>3. (m * (i + 1)) % d = 0
        BY <4>1, <4>2, DividesMultiple, Zenon
      <4> QED BY <4>3
    <3>2. CASE d = i + 1
      <4>1. m \in Nat /\ d \in Nat \ {0} /\ k = m * d
        BY <3>2
      <4> HIDE DEF k
      <4> QED BY <4>1
    <3> QED BY <3>1, <3>2
  <2> HIDE DEF k
  <2>4. \A d \in 1 .. i + 1 : k % d = 0
    BY <2>3, Zenon
  <2>5. \E j \in Nat \ {0} : \A d \in 1 .. i + 1 : j % d = 0
    BY <2>2, <2>4, Zenon
  <2>6. i + 1 \in Nat
    OBVIOUS
  <2> QED BY <2>5, <2>6, Zenon
<1> HIDE DEF S
<1>3. n \in S
  BY <1>1, <1>2, InductionOnSet
<1> QED BY <1>3 DEF S

\* There is a prime above every number (Euclid).
LEMMA PrimeAbove ==
    ASSUME NEW x \in Nat
    PROVE  \E p \in Nat : p > x /\ IsPrime(p)
<1>1. PICK m \in Nat \ {0} : \A d \in 1 .. x : m % d = 0
  BY CommonMultiple
<1> DEFINE N == m + 1
           D == {d \in Nat : d >= 2 /\ N % d = 0}
<1>2. N \in Nat /\ N >= 2 /\ N % N = 0
  OBVIOUS
<1>3. PICK p \in D : \A d \in D : p <= d
  <2>1. D \in SUBSET Nat /\ N \in D
    BY <1>2
  <2> HIDE DEF D
  <2> QED BY <2>1, LeastElement
<1>4. p \in Nat /\ p >= 2 /\ N % p = 0
  BY <1>3
<1>5. p > x
  <2> SUFFICES ASSUME p <= x PROVE FALSE
    BY <1>4
  <2>1. m % p = 0 /\ m \in Nat
    BY <1>1, <1>4
  <2>2. PICK q \in Nat : m = p * q
    <3>1. m = p * (m \div p) /\ m \div p \in Nat
      BY <1>4, <2>1
    <3> QED BY <3>1
  <2>3. PICK r \in Nat : m + 1 = p * r
    <3>1. N = p * (N \div p) /\ N \div p \in Nat
      BY <1>2, <1>4
    <3> QED BY <3>1
  <2>4. p * q < p * r
    BY <2>2, <2>3
  <2>5. q + 1 <= r
    <3> SUFFICES ASSUME r <= q PROVE FALSE
      OBVIOUS
    <3>1. p * r <= p * q
      BY <1>4
    <3> QED BY <2>2, <2>3, <3>1
  <2>6. p * (q + 1) <= p * r
    BY <1>4, <2>5
  <2>7. p * (q + 1) = p * q + p
    BY <1>4
  <2> QED BY <1>4, <2>2, <2>3, <2>6, <2>7
<1>6. IsPrime(p)
  <2> SUFFICES ASSUME NEW e \in 2 .. p - 1, p % e = 0 PROVE FALSE
    BY <1>4 DEF IsPrime
  <2>1. PICK q \in Nat : N = p * q
    <3>1. N = p * (N \div p) /\ N \div p \in Nat
      BY <1>2, <1>4
    <3> QED BY <3>1
  <2>2. (p * q) % e = 0
    <3>1. e \in Nat \ {0} /\ p \in Nat /\ p % e = 0
      BY <1>4
    <3> QED BY <2>1, <3>1, DividesMultiple
  <2>3. e \in D
    <3>1. e \in Nat /\ e >= 2 /\ N % e = 0
      <4>1. e \in Nat /\ e >= 2
        OBVIOUS
      <4> HIDE DEF N
      <4>2. N % e = 0
        BY <2>1, <2>2, Zenon
      <4> QED BY <4>1, <4>2
    <3> HIDE DEF N
    <3> QED BY <3>1
  <2> HIDE DEF D
  <2>4. p <= e
    BY <1>3, <2>3, Zenon
  <2> QED BY <1>4, <2>4
<1> QED BY <1>4, <1>5, <1>6

\* The least prime above 3 that is not below n.
LeastPrime(n) == Min({p \in Nat : p >= n /\ p > 3 /\ IsPrime(p)})

\* There is one, and it is a candidate.
LEMMA LeastPrimeIs ==
    ASSUME NEW n \in Nat
    PROVE  /\ LeastPrime(n) \in Candidate /\ LeastPrime(n) >= n /\ LeastPrime(n) > 3 /\ IsPrime(LeastPrime(n))
           /\ \A p \in Nat : (p >= n /\ p > 3 /\ IsPrime(p)) => LeastPrime(n) <= p
<1> DEFINE S == {p \in Nat : p >= n /\ p > 3 /\ IsPrime(p)}
<1>1. PICK p \in Nat : p > n + 3 /\ IsPrime(p)
  <2>1. n + 3 \in Nat
    OBVIOUS
  <2> QED BY <2>1, PrimeAbove
<1>2. p \in S
  BY <1>1
<1>3. LeastPrime(n) \in S /\ \A q \in S : LeastPrime(n) <= q
  <2>1. S \in SUBSET Nat /\ S # {}
    BY <1>2
  <2> HIDE DEF S
  <2>2. Min(S) \in S /\ \A q \in S : Min(S) <= q
    BY <2>1, MinIsLeast
  <2> QED BY <2>2 DEF LeastPrime, S
<1>4. LeastPrime(n) \in Candidate
  BY <1>3, PrimeRemainder DEF Candidate
<1> QED BY <1>3, <1>4

\* The loop goes on to the next candidate if this one is not prime.
LEMMA LeastPrimeSteps ==
    ASSUME NEW c \in Candidate
    PROVE  /\ NextCandidate(c) \in Candidate /\ NextCandidate(c) > c
           /\ LeastPrime(c) = IF is_prime(c) THEN c ELSE LeastPrime(NextCandidate(c))
<1>1. c \in Nat /\ c % 6 \in {1, 5} /\ c # 2 /\ c # 3
  BY DEF Candidate
<1>2. NextCandidate(c) \in Candidate /\ NextCandidate(c) > c
  BY <1>1 DEF Candidate, NextCandidate
<1>3. \A n \in c + 1 .. NextCandidate(c) - 1 : n % 6 \notin {1, 5}
  BY <1>1 DEF NextCandidate
<1> DEFINE P == LeastPrime(c)
           Q == LeastPrime(NextCandidate(c))
<1>4. /\ P \in Candidate /\ P >= c /\ P > 3 /\ IsPrime(P)
      /\ \A p \in Nat : (p >= c /\ p > 3 /\ IsPrime(p)) => P <= p
  BY <1>1, LeastPrimeIs
<1>5. /\ Q \in Candidate /\ Q >= NextCandidate(c) /\ Q > 3 /\ IsPrime(Q)
      /\ \A p \in Nat : (p >= NextCandidate(c) /\ p > 3 /\ IsPrime(p)) => Q <= p
  <2>1. NextCandidate(c) \in Nat
    BY <1>2 DEF Candidate
  <2> QED BY <2>1, LeastPrimeIs
<1> HIDE DEF P, Q
<1>6. P \in Nat /\ P % 6 \in {1, 5} /\ Q \in Nat /\ NextCandidate(c) \in Nat
  BY <1>2, <1>4, <1>5 DEF Candidate
<1>7. CASE is_prime(c)
  <2>1. IsPrime(c) /\ c >= 2
    <3>1. IsPrime(c)
      BY <1>1, <1>7, TrialDivision
    <3> QED BY <3>1 DEF IsPrime
  <2>2. c > 3
    BY <1>1, <2>1
  <2>3. P = c
    BY <1>1, <1>4, <1>6, <2>1, <2>2
  <2> QED BY <1>2, <1>7, <2>3 DEF P
<1>8. CASE ~is_prime(c)
  <2>1. P # c
    BY <1>1, <1>4, <1>8, TrialDivision
  <2>2. P >= NextCandidate(c)
    BY <1>1, <1>3, <1>4, <1>6, <2>1
  <2>3. Q <= P
    BY <1>4, <1>5, <1>6, <2>2
  <2>4. P <= Q
    BY <1>1, <1>2, <1>4, <1>5, <1>6
  <2>5. P = Q
    BY <1>6, <2>3, <2>4
  <2> QED BY <1>2, <1>8, <2>5 DEF P, Q
<1> QED BY <1>7, <1>8

\* The loop of next_prime ends at the least prime from where it starts.
LEMMA LoopEnds ==
    ASSUME NEW c \in Candidate
    PROVE  LET from[n \in Candidate] == IF is_prime(n) THEN n ELSE from[NextCandidate(n)]
           IN  from[c] = LeastPrime(c)
<1> DEFINE Eq(f) == f = [n \in Candidate |-> IF is_prime(n) THEN n ELSE f[NextCandidate(n)]]
           g == [n \in Candidate |-> LeastPrime(n)]
           from == CHOOSE f : Eq(f)
           S == {d \in Nat : \A n \in Candidate : LeastPrime(n) - n <= d => from[n] = LeastPrime(n)}
<1>1. Eq(g)
  <2> DEFINE h == [n \in Candidate |-> IF is_prime(n) THEN n ELSE g[NextCandidate(n)]]
  <2>1. ASSUME NEW n \in Candidate PROVE g[n] = h[n]
    BY LeastPrimeSteps
  <2>2. g = [n \in Candidate |-> g[n]] /\ h = [n \in Candidate |-> h[n]]
    OBVIOUS
  <2> HIDE DEF g, h
  <2>3. g = h
    BY <2>1, <2>2
  <2> QED BY <2>3 DEF h
<1> HIDE DEF g
<1>2. Eq(from)
  <2> HIDE DEF Eq
  <2> QED BY <1>1
<1> HIDE DEF from
<1>3. \A n \in Candidate : from[n] = IF is_prime(n) THEN n ELSE from[NextCandidate(n)]
  BY <1>2
<1>4. \A n \in Candidate : n \in Nat /\ LeastPrime(n) \in Nat /\ LeastPrime(n) >= n
  <2> TAKE n \in Candidate
  <2>1. n \in Nat
    BY DEF Candidate
  <2>2. LeastPrime(n) \in Candidate /\ LeastPrime(n) >= n
    BY <2>1, LeastPrimeIs
  <2> QED BY <2>1, <2>2 DEF Candidate
<1>5. ASSUME NEW n \in Candidate
      PROVE  is_prime(n) \/ LeastPrime(NextCandidate(n)) - NextCandidate(n) < LeastPrime(n) - n
  <2>1. NextCandidate(n) \in Candidate /\ NextCandidate(n) > n
    BY LeastPrimeSteps
  <2>2. is_prime(n) \/ LeastPrime(n) = LeastPrime(NextCandidate(n))
    BY LeastPrimeSteps
  <2> QED BY <1>4, <2>1, <2>2
<1>6. 0 \in S
  <2> SUFFICES ASSUME NEW n \in Candidate, LeastPrime(n) - n <= 0 PROVE from[n] = LeastPrime(n)
    OBVIOUS
  <2>1. NextCandidate(n) \in Candidate
    BY LeastPrimeSteps
  <2>2. is_prime(n)
    BY <1>4, <1>5, <2>1
  <2> QED BY <1>3, <2>2, LeastPrimeSteps
<1>7. ASSUME NEW d \in Nat, d \in S PROVE d + 1 \in S
  <2> SUFFICES ASSUME NEW n \in Candidate, LeastPrime(n) - n <= d + 1 PROVE from[n] = LeastPrime(n)
    OBVIOUS
  <2>1. CASE is_prime(n)
    BY <1>3, <2>1, LeastPrimeSteps
  <2>2. CASE ~is_prime(n)
    <3>1. NextCandidate(n) \in Candidate /\ LeastPrime(n) = LeastPrime(NextCandidate(n))
      BY <2>2, LeastPrimeSteps
    <3>2. LeastPrime(NextCandidate(n)) - NextCandidate(n) <= d
      BY <1>4, <1>5, <2>2, <3>1
    <3>3. from[NextCandidate(n)] = LeastPrime(NextCandidate(n))
      BY <1>7, <3>1, <3>2
    <3> QED BY <1>3, <2>2, <3>1, <3>3
  <2> QED BY <2>1, <2>2
<1> HIDE DEF S
<1>8. \A d \in Nat : d \in S
  BY <1>6, <1>7, InductionOnSet
<1>9. from[c] = LeastPrime(c)
  <2>1. LeastPrime(c) - c \in Nat
    BY <1>4
  <2> QED BY <1>8, <2>1 DEF S
<1> QED BY <1>9 DEF from, Eq

\* next_prime(x) is the least prime above x.
LEMMA NextPrime ==
    ASSUME NEW x \in Nat
    PROVE  /\ next_prime(x) \in Nat /\ next_prime(x) > x
           /\ IsPrime(next_prime(x))
           /\ \A n \in x + 1 .. next_prime(x) - 1 : ~IsPrime(n)
<1>1. CASE x < 2
  <2>1. next_prime(x) = 2 /\ IsPrime(2) /\ x \in {0, 1} /\ ~IsPrime(1)
    BY <1>1 DEF next_prime, IsPrime
  <2> QED BY <2>1
<1>2. CASE x = 2 \/ x = 3
  <2>1. next_prime(2) = 3 /\ next_prime(3) = 5 /\ IsPrime(3) /\ IsPrime(5) /\ ~IsPrime(4)
    <3>1. IsPrime(3) /\ IsPrime(5)
      BY DEF IsPrime
    <3>2. ~IsPrime(4)
      <4>1. 2 \in 2 .. 4 - 1 /\ 4 % 2 = 0
        OBVIOUS
      <4> QED BY <4>1 DEF IsPrime
    <3> QED BY <3>1, <3>2 DEF next_prime
  <2> QED BY <1>2, <2>1
<1>3. CASE x > 3
  <2> DEFINE c == FirstCandidate(x)
             p == LeastPrime(c)
  <2>1. /\ c \in Candidate /\ c \in Nat /\ c > x
        /\ \A n \in x + 1 .. c - 1 : n % 6 \notin {1, 5}
    <3>1. c % 6 \in {1, 5}
      BY <1>3 DEF FirstCandidate
    <3> QED BY <1>3, <3>1, Candidates DEF Candidate
  <2> HIDE DEF c
  <2>2. next_prime(x) = p
    <3>1. (LET from[n \in Candidate] == IF is_prime(n) THEN n ELSE from[NextCandidate(n)] IN from[c]) = p
      BY <2>1, LoopEnds
    <3> QED BY <1>3, <3>1 DEF next_prime, c
  <2>3. /\ p \in Candidate /\ p >= c /\ IsPrime(p)
        /\ \A n \in Nat : (n >= c /\ n > 3 /\ IsPrime(n)) => p <= n
    BY <2>1, LeastPrimeIs
  <2> HIDE DEF p
  <2>4. p \in Nat /\ p > x
    BY <2>1, <2>3 DEF Candidate
  <2>5. ASSUME NEW n \in x + 1 .. p - 1, IsPrime(n) PROVE FALSE
    <3>1. n \in Nat /\ n > 3 /\ n % 6 \in {1, 5}
      BY <1>3, <2>5, PrimeRemainder
    <3>2. n >= c
      BY <2>1, <3>1
    <3> QED BY <2>3, <2>4, <2>5, <3>1, <3>2
  <2> QED BY <2>2, <2>3, <2>4, <2>5
<1> QED BY <1>1, <1>2, <1>3

-----------------------------------------------------------------------------
(* Probing *)

\* What a bin may hold.
Bins == {NullBin, HASH_PAIR_REMOVED} \cup {Pair(k, v) : k \in Keys, v \in Values}

\* The capacities of a map that has bins.
Capacities == Nat \ {0}

\* The tables of cap bins.
Tables(cap) == [0 .. cap - 1 -> Bins]

\* The bin at distance d from the key's own.
Slot(k, cap, d) == (Home(k, cap) + d) % cap

\* Bin x holds a pair of key k.
Holds(x, k) == x.kind = "pair" /\ x.key = k

\* No NULL bin on the way to a pair, and no key twice.
Kept(b, cap) ==
    /\ cap \in Capacities /\ b \in Tables(cap)
    /\ \A k \in Keys, d \in 0 .. cap - 1 :
          Holds(At(b, cap, k, d), k) => \A e \in 0 .. d : At(b, cap, k, e) # NullBin
    /\ \A k \in Keys, i, j \in 0 .. cap - 1 : Holds(b[i], k) /\ Holds(b[j], k) => i = j

\* No bin of table b carries the mark of a removal.
NoneRemoved(b, cap) == \A i \in 0 .. cap - 1 : b[i] # HASH_PAIR_REMOVED

\* Where the search for k ends in table b.
Place(b, cap, k) == Slot(k, cap, Min(FoundDistances(b, cap, k)))

\* What get returns for k in table b.
View(b, cap, k) == IF FoundDistances(b, cap, k) # {} THEN b[Place(b, cap, k)].value ELSE NoValue

\* Once round the table, every bin is met once.
LEMMA RoundOnce ==
    ASSUME NEW cap \in Capacities, NEW h \in 0 .. cap - 1
    PROVE  /\ \A d \in 0 .. cap - 1 : (h + d) % cap \in 0 .. cap - 1
           /\ \A i \in 0 .. cap - 1 : \E d \in 0 .. cap - 1 : (h + d) % cap = i
           /\ \A d, e \in 0 .. cap - 1 : (h + d) % cap = (h + e) % cap => d = e
<1>0. cap \in Nat \ {0} /\ h \in Nat /\ h < cap
  BY DEF Capacities
<1> DEFINE at(d) == (h + d) % cap
<1>1. ASSUME NEW d \in 0 .. cap - 1
      PROVE  /\ d \in Nat /\ d < cap /\ at(d) \in 0 .. cap - 1
             /\ h + d < cap => at(d) = h + d
             /\ h + d >= cap => at(d) = h + d - cap
  BY <1>0
<1> HIDE DEF at
<1>2. ASSUME NEW i \in 0 .. cap - 1 PROVE \E d \in 0 .. cap - 1 : at(d) = i
  <2>1. CASE i >= h
    <3>1. i - h \in 0 .. cap - 1 /\ h + (i - h) = i /\ h + (i - h) < cap
      BY <1>0, <2>1
    <3> QED BY <1>1, <3>1
  <2>2. CASE i < h
    <3> DEFINE d == (i - h) + cap
    <3>1. d \in 0 .. cap - 1 /\ h + d >= cap /\ h + d - cap = i
      BY <1>0, <2>2
    <3> HIDE DEF d
    <3>2. at(d) = i
      BY <1>1, <3>1
    <3> QED BY <3>1, <3>2
  <2> QED BY <1>0, <2>1, <2>2
<1>3. ASSUME NEW d \in 0 .. cap - 1, NEW e \in 0 .. cap - 1, at(d) = at(e)
      PROVE  d = e
  <2>1. /\ at(d) = h + d \/ at(d) = h + d - cap
        /\ at(e) = h + e \/ at(e) = h + e - cap
    BY <1>0, <1>1
  <2>2. d \in Nat /\ d < cap /\ e \in Nat /\ e < cap
    BY <1>1
  <2> QED BY <1>0, <1>3, <2>1, <2>2
<1> QED BY <1>1, <1>2, <1>3 DEF at

\* The same of the slots of a key.
LEMMA Slots ==
    ASSUME NEW cap \in Capacities, NEW k \in Keys
    PROVE  /\ \A d \in 0 .. cap - 1 : Slot(k, cap, d) \in 0 .. cap - 1
           /\ \A i \in 0 .. cap - 1 : \E d \in 0 .. cap - 1 : Slot(k, cap, d) = i
           /\ \A d, e \in 0 .. cap - 1 : Slot(k, cap, d) = Slot(k, cap, e) => d = e
<1>1. Home(k, cap) \in 0 .. cap - 1
  <2>1. Hash[k] \in Nat /\ cap \in Nat \ {0}
    BY MapAssumption DEF Capacities
  <2> QED BY <2>1 DEF Home
<1> QED BY <1>1, RoundOnce DEF Slot

\* The three kinds of bins.
LEMMA Kinds ==
    /\ \A k, v : Pair(k, v) # NullBin /\ Pair(k, v) # HASH_PAIR_REMOVED
    /\ \A k, v : Pair(k, v).kind = "pair" /\ Pair(k, v).key = k /\ Pair(k, v).value = v
    /\ NullBin # HASH_PAIR_REMOVED /\ NullBin.kind # "pair" /\ HASH_PAIR_REMOVED.kind # "pair"
BY DEF Pair, NullBin, HASH_PAIR_REMOVED

\* A bin that holds a pair of key k is Pair(k, v) for some v.
LEMMA PairBins ==
    ASSUME NEW x \in Bins
    PROVE  /\ x.kind = "pair" => \E k \in Keys, v \in Values : x = Pair(k, v)
           /\ \A k : Holds(x, k) => \E v \in Values : k \in Keys /\ x = Pair(k, v) /\ x.value = v
           /\ x.kind # "pair" => x \in {NullBin, HASH_PAIR_REMOVED}
<1>1. CASE x \in {NullBin, HASH_PAIR_REMOVED}
  BY <1>1, Kinds DEF Holds
<1>2. CASE \E k \in Keys, v \in Values : x = Pair(k, v)
  BY <1>2, Kinds DEF Holds
<1> QED BY <1>1, <1>2 DEF Bins

\* A pair in the table is found, and where it is.
LEMMA PairFound ==
    ASSUME NEW b, NEW cap, Kept(b, cap), NEW k \in Keys, NEW i \in 0 .. cap - 1, Holds(b[i], k)
    PROVE  /\ FoundDistances(b, cap, k) # {}
           /\ Place(b, cap, k) = i
           /\ View(b, cap, k) = b[i].value
<1>1. cap \in Capacities
  BY DEF Kept
<1>2. PICK d \in 0 .. cap - 1 : Slot(k, cap, d) = i
  BY <1>1, Slots
<1>3. At(b, cap, k, d) = b[i]
  BY <1>2 DEF At, Slot
<1>4. d \in FoundDistances(b, cap, k)
  BY <1>3 DEF Kept, FoundDistances, Holds
<1>5. ASSUME NEW e \in FoundDistances(b, cap, k) PROVE e = d
  <2>1. e \in 0 .. cap - 1 /\ Holds(b[Slot(k, cap, e)], k)
    BY DEF FoundDistances, At, Slot, Holds
  <2>2. Slot(k, cap, e) = i
    BY <1>1, <2>1, Slots DEF Kept
  <2> QED BY <1>1, <1>2, <2>1, <2>2, Slots
<1>6. Min(FoundDistances(b, cap, k)) = d
  BY <1>4, <1>5, MinIsLeast DEF FoundDistances
<1> QED BY <1>2, <1>4, <1>6 DEF Place, View

\* What is found is a pair of the key.
LEMMA FoundPair ==
    ASSUME NEW b, NEW cap, Kept(b, cap), NEW k \in Keys, FoundDistances(b, cap, k) # {}
    PROVE  LET i == Place(b, cap, k) IN
           i \in 0 .. cap - 1 /\ Holds(b[i], k) /\ \E v \in Values : b[i] = Pair(k, v) /\ View(b, cap, k) = v
<1> DEFINE d == Min(FoundDistances(b, cap, k))
<1>1. cap \in Capacities /\ b \in Tables(cap)
  BY DEF Kept
<1>2. d \in FoundDistances(b, cap, k)
  BY MinIsLeast DEF FoundDistances
<1>3. d \in 0 .. cap - 1 /\ Holds(b[Slot(k, cap, d)], k)
  BY <1>2 DEF FoundDistances, At, Slot, Holds
<1>4. Slot(k, cap, d) \in 0 .. cap - 1
  BY <1>1, <1>3, Slots
<1>5. b[Slot(k, cap, d)] \in Bins
  BY <1>1, <1>4 DEF Tables
<1>6. \E v \in Values : b[Slot(k, cap, d)] = Pair(k, v) /\ b[Slot(k, cap, d)].value = v
  BY <1>3, <1>5, PairBins
<1> QED BY <1>3, <1>4, <1>6 DEF Place, View

\* A key without a pair is not found.
LEMMA NothingFound ==
    ASSUME NEW b, NEW cap, Kept(b, cap), NEW k \in Keys, \A i \in 0 .. cap - 1 : ~Holds(b[i], k)
    PROVE  FoundDistances(b, cap, k) = {} /\ View(b, cap, k) = NoValue
<1>1. FoundDistances(b, cap, k) = {}
  BY FoundPair
<1> QED BY <1>1 DEF View

-----------------------------------------------------------------------------
(* One bin changes *)

\* A bin may be overwritten with anything but NULL. A pair must belong there: the
\* way to the bin has no NULL, and there is no other pair of its key.
LEMMA Overwrite ==
    ASSUME NEW b, NEW cap, Kept(b, cap), NEW p \in 0 .. cap - 1, NEW x \in Bins, x # NullBin,
           ASSUME NEW k \in Keys, Holds(x, k)
           PROVE  /\ \A j \in 0 .. cap - 1 : Holds(b[j], k) => j = p
                  /\ \A d \in 0 .. cap - 1 : Slot(k, cap, d) = p =>
                        \A e \in 0 .. d : e # d => At(b, cap, k, e) # NullBin
    PROVE  Kept([b EXCEPT ![p] = x], cap)
<1> DEFINE c == [b EXCEPT ![p] = x]
<1>1. cap \in Capacities /\ b \in Tables(cap)
  BY DEF Kept
<1>2. c \in Tables(cap) /\ \A i \in 0 .. cap - 1 : c[i] = IF i = p THEN x ELSE b[i]
  BY <1>1 DEF Tables
<1> HIDE DEF c
<1>3. ASSUME NEW k \in Keys, NEW d \in 0 .. cap - 1, Holds(At(c, cap, k, d), k), NEW e \in 0 .. d
      PROVE  At(c, cap, k, e) # NullBin
  <2>1. e \in 0 .. cap - 1 /\ Slot(k, cap, d) \in 0 .. cap - 1 /\ Slot(k, cap, e) \in 0 .. cap - 1
    <3>1. e \in 0 .. cap - 1
      BY <1>1 DEF Capacities
    <3> QED BY <1>1, <3>1, Slots
  <2>2. /\ At(c, cap, k, e) = c[Slot(k, cap, e)] /\ At(c, cap, k, d) = c[Slot(k, cap, d)]
        /\ At(b, cap, k, e) = b[Slot(k, cap, e)] /\ At(b, cap, k, d) = b[Slot(k, cap, d)]
    BY DEF At, Slot
  <2>3. CASE Slot(k, cap, e) = p
    BY <1>2, <2>1, <2>2, <2>3
  <2>4. CASE Slot(k, cap, e) # p /\ Slot(k, cap, d) = p
    <3>1. Holds(x, k) /\ e # d
      BY <1>2, <1>3, <2>1, <2>2, <2>4
    <3>2. At(b, cap, k, e) # NullBin
      BY <2>4, <3>1
    <3> QED BY <1>2, <2>1, <2>2, <2>4, <3>2
  <2>5. CASE Slot(k, cap, e) # p /\ Slot(k, cap, d) # p
    <3>1. Holds(At(b, cap, k, d), k)
      BY <1>2, <1>3, <2>1, <2>2, <2>5
    <3>2. At(b, cap, k, e) # NullBin
      BY <3>1 DEF Kept
    <3> QED BY <1>2, <2>1, <2>2, <2>5, <3>2
  <2> QED BY <2>3, <2>4, <2>5
<1>4. ASSUME NEW k \in Keys, NEW i \in 0 .. cap - 1, NEW j \in 0 .. cap - 1,
             Holds(c[i], k), Holds(c[j], k)
      PROVE  i = j
  <2>1. Holds(b[i], k) /\ Holds(b[j], k) => i = j
    BY DEF Kept
  <2>2. Holds(x, k) => /\ Holds(b[i], k) => i = p
                       /\ Holds(b[j], k) => j = p
    OBVIOUS
  <2> QED BY <1>2, <1>4, <2>1, <2>2
<1> QED BY <1>1, <1>2, <1>3, <1>4 DEF Kept, c

\* The pairs of a table: its bins are finitely many.
LEMMA PairsOf ==
    ASSUME NEW cap \in Capacities, NEW b \in Tables(cap)
    PROVE  /\ Pairs(b) = {i \in 0 .. cap - 1 : b[i].kind = "pair"}
           /\ IsFiniteSet(Pairs(b)) /\ Cardinality(Pairs(b)) \in Nat
           /\ Cardinality(Pairs(b)) <= cap
<1>1. Pairs(b) = {i \in 0 .. cap - 1 : b[i].kind = "pair"}
  BY DEF Pairs, Tables
<1>2. IsFiniteSet(0 .. cap - 1) /\ Cardinality(0 .. cap - 1) = cap
  <2>1. 0 \in Int /\ cap - 1 \in Int /\ cap \in Nat /\ ~(0 > cap - 1) /\ cap - 1 - 0 + 1 = cap
    BY DEF Capacities
  <2> QED BY <2>1, FS_Interval
<1>3. Pairs(b) \in SUBSET (0 .. cap - 1)
  BY <1>1
<1>4. IsFiniteSet(Pairs(b)) /\ Cardinality(Pairs(b)) <= Cardinality(0 .. cap - 1)
  BY <1>2, <1>3, FS_Subset
<1>5. Cardinality(Pairs(b)) \in Nat
  BY <1>4, FS_CardinalityType
<1> QED BY <1>1, <1>2, <1>4, <1>5

\* A table that has no removed pair and is not full has a NULL bin for every key.
LEMMA Room ==
    ASSUME NEW cap \in Capacities, NEW b \in Tables(cap), NoneRemoved(b, cap),
           Cardinality(Pairs(b)) < cap, NEW k \in Keys
    PROVE  FreeDistances(b, cap, k) # {}
<1>1. PICK i \in 0 .. cap - 1 : b[i].kind # "pair"
  <2> SUFFICES ASSUME \A i \in 0 .. cap - 1 : b[i].kind = "pair" PROVE FALSE
    OBVIOUS
  <2>1. Pairs(b) = 0 .. cap - 1
    BY PairsOf
  <2>2. 0 \in Int /\ cap - 1 \in Int /\ cap \in Nat /\ ~(0 > cap - 1) /\ cap - 1 - 0 + 1 = cap
    BY DEF Capacities
  <2>3. Cardinality(0 .. cap - 1) = cap
    BY <2>2, FS_Interval
  <2> QED BY <2>1, <2>2, <2>3
<1>2. b[i] \in Bins /\ b[i] # HASH_PAIR_REMOVED
  BY DEF Tables, NoneRemoved
<1>3. b[i] = NullBin
  BY <1>1, <1>2, PairBins
<1>4. PICK d \in 0 .. cap - 1 : Slot(k, cap, d) = i
  BY Slots
<1> QED BY <1>3, <1>4 DEF FreeDistances, At, Slot

\* The keys whose view differs between two tables.
SameView(b, bcap, c, ccap, k) == View(c, ccap, k) = View(b, bcap, k)

\* A view is determined by the pair of its key.
LEMMA ViewFromPairs ==
    ASSUME NEW b, NEW bcap, Kept(b, bcap), NEW c, NEW ccap, Kept(c, ccap), NEW k \in Keys,
           \A v \in Values : (\E i \in 0 .. bcap - 1 : b[i] = Pair(k, v))
                               <=> (\E i \in 0 .. ccap - 1 : c[i] = Pair(k, v))
    PROVE  SameView(b, bcap, c, ccap, k)
<1>1. CASE \E i \in 0 .. bcap - 1 : Holds(b[i], k)
  <2>1. PICK i \in 0 .. bcap - 1 : Holds(b[i], k)
    BY <1>1
  <2>2. b[i] \in Bins
    BY DEF Kept, Tables
  <2>3. PICK v \in Values : b[i] = Pair(k, v) /\ b[i].value = v
    BY <2>1, <2>2, PairBins
  <2>4. PICK j \in 0 .. ccap - 1 : c[j] = Pair(k, v)
    BY <2>3
  <2>5. Holds(c[j], k) /\ c[j].value = v
    BY <2>4, Kinds DEF Holds
  <2>6. View(b, bcap, k) = v
    BY <2>1, <2>3, PairFound
  <2>7. View(c, ccap, k) = v
    BY <2>5, PairFound
  <2> QED BY <2>6, <2>7 DEF SameView
<1>2. CASE \A i \in 0 .. bcap - 1 : ~Holds(b[i], k)
  <2>1. ASSUME NEW j \in 0 .. ccap - 1, Holds(c[j], k) PROVE FALSE
    <3>1. c[j] \in Bins
      BY DEF Kept, Tables
    <3>2. PICK v \in Values : c[j] = Pair(k, v)
      BY <2>1, <3>1, PairBins
    <3>3. PICK i \in 0 .. bcap - 1 : b[i] = Pair(k, v)
      BY <3>2
    <3> QED BY <1>2, <3>3, Kinds DEF Holds
  <2> QED BY <1>2, <2>1, NothingFound DEF SameView
<1> QED BY <1>1, <1>2

\* If only bin p changes, and neither its old nor its new content is a pair of key k,
\* the view of k stays.
LEMMA ViewElsewhere ==
    ASSUME NEW b, NEW cap, Kept(b, cap), NEW p \in 0 .. cap - 1, NEW x,
           Kept([b EXCEPT ![p] = x], cap), NEW k \in Keys, ~Holds(b[p], k), ~Holds(x, k)
    PROVE  SameView(b, cap, [b EXCEPT ![p] = x], cap, k)
<1> DEFINE c == [b EXCEPT ![p] = x]
<1>1. \A i \in 0 .. cap - 1 : c[i] = IF i = p THEN x ELSE b[i]
  BY DEF Kept, Tables
<1>2. \A v : x # Pair(k, v) /\ b[p] # Pair(k, v)
  BY Kinds DEF Holds
<1> HIDE DEF c
<1>3. \A v : (\E i \in 0 .. cap - 1 : b[i] = Pair(k, v)) <=> (\E i \in 0 .. cap - 1 : c[i] = Pair(k, v))
  BY <1>1, <1>2
<1>4. Kept(c, cap)
  BY DEF c
<1>5. SameView(b, cap, c, cap, k)
  BY <1>3, <1>4, ViewFromPairs
<1> QED BY <1>5 DEF c

\* Table b with value v written into the pair of k.
WithValue(b, cap, k, v) == [b EXCEPT ![Place(b, cap, k)].value = v]

\* Overwriting the value of a pair.
LEMMA Revalue ==
    ASSUME NEW b, NEW cap, Kept(b, cap), NEW k \in Keys, NEW v \in Values,
           FoundDistances(b, cap, k) # {}
    PROVE  LET c == WithValue(b, cap, k, v) IN
           /\ Kept(c, cap)
           /\ Pairs(c) = Pairs(b)
           /\ NoneRemoved(c, cap) <=> NoneRemoved(b, cap)
           /\ View(c, cap, k) = v
           /\ \A q \in Keys : q # k => SameView(b, cap, c, cap, q)
<1> DEFINE p == Place(b, cap, k)
           c == [b EXCEPT ![p].value = v]
           x == Pair(k, v)
<1>1. p \in 0 .. cap - 1 /\ Holds(b[p], k) /\ \E w \in Values : b[p] = Pair(k, w)
  BY FoundPair
<1> HIDE DEF p
<1>2. b \in Tables(cap) /\ cap \in Capacities
  BY DEF Kept
<1>3. [b[p] EXCEPT !.value = v] = x
  BY <1>1 DEF Pair
<1>4. c = [b EXCEPT ![p] = x]
  BY <1>1, <1>2, <1>3 DEF Tables
<1> HIDE DEF c
<1>5. x \in Bins /\ x # NullBin /\ x # HASH_PAIR_REMOVED /\ Holds(x, k) /\ x.kind = "pair" /\ x.value = v
      /\ \A q : Holds(x, q) => q = k
  BY Kinds DEF Bins, Holds
<1> HIDE DEF x
<1>6. Kept(c, cap)
  <2>1. ASSUME NEW q \in Keys, Holds(x, q)
        PROVE  /\ \A j \in 0 .. cap - 1 : Holds(b[j], q) => j = p
               /\ \A d \in 0 .. cap - 1 : Slot(q, cap, d) = p =>
                     \A e \in 0 .. d : e # d => At(b, cap, q, e) # NullBin
    <3>1. Holds(b[p], q) /\ \A d : Slot(q, cap, d) = p => Holds(At(b, cap, q, d), q)
      BY <1>1, <1>5, <2>1 DEF At, Slot
    <3> QED BY <1>1, <3>1 DEF Kept
  <2> QED BY <1>1, <1>4, <1>5, <2>1, Overwrite
<1>7. c \in Tables(cap) /\ \A i \in 0 .. cap - 1 : c[i] = IF i = p THEN x ELSE b[i]
  BY <1>2, <1>4, <1>6 DEF Tables, Kept
<1>8. Pairs(c) = Pairs(b)
  <2>1. b[p].kind = "pair"
    BY <1>1 DEF Holds
  <2>2. /\ Pairs(b) = {i \in 0 .. cap - 1 : b[i].kind = "pair"}
        /\ Pairs(c) = {i \in 0 .. cap - 1 : c[i].kind = "pair"}
    BY <1>2, <1>7, PairsOf
  <2>3. \A i \in 0 .. cap - 1 : c[i].kind = "pair" <=> b[i].kind = "pair"
    BY <1>5, <1>7, <2>1
  <2> QED BY <2>2, <2>3
<1>9. NoneRemoved(c, cap) <=> NoneRemoved(b, cap)
  <2>1. b[p] # HASH_PAIR_REMOVED
    BY <1>1, Kinds
  <2> QED BY <1>5, <1>7, <2>1 DEF NoneRemoved
<1>10. View(c, cap, k) = v
  <2>1. c[p] = x
    BY <1>1, <1>7
  <2>2. Holds(c[p], k) /\ c[p].value = v
    BY <1>5, <2>1
  <2> QED BY <1>1, <1>6, <2>2, PairFound
<1>11. ASSUME NEW q \in Keys, q # k PROVE SameView(b, cap, c, cap, q)
  <2>1. ~Holds(b[p], q) /\ ~Holds(x, q)
    BY <1>1, <1>5, <1>11 DEF Holds
  <2> QED BY <1>1, <1>4, <1>6, <2>1, ViewElsewhere
<1>12. c = WithValue(b, cap, k, v)
  BY DEF c, p, WithValue
<1> HIDE DEF c
<1> QED BY <1>6, <1>8, <1>9, <1>10, <1>11, <1>12

\* _pop: the bin of a pair becomes HASH_PAIR_REMOVED.
LEMMA Mark ==
    ASSUME NEW b, NEW cap, Kept(b, cap), NEW k \in Keys, FoundDistances(b, cap, k) # {}
    PROVE  LET c == [b EXCEPT ![Place(b, cap, k)] = HASH_PAIR_REMOVED] IN
           /\ Kept(c, cap)
           /\ ~NoneRemoved(c, cap)
           /\ Cardinality(Pairs(c)) = Cardinality(Pairs(b)) - 1
           /\ View(c, cap, k) = NoValue
           /\ \A q \in Keys : q # k => SameView(b, cap, c, cap, q)
<1> DEFINE p == Place(b, cap, k)
           x == HASH_PAIR_REMOVED
           c == [b EXCEPT ![p] = x]
<1>1. p \in 0 .. cap - 1 /\ Holds(b[p], k)
  BY FoundPair
<1> HIDE DEF p
<1>2. b \in Tables(cap) /\ cap \in Capacities
  BY DEF Kept
<1>3. x \in Bins /\ x # NullBin /\ x.kind # "pair" /\ \A q : ~Holds(x, q)
  BY Kinds DEF Bins, Holds
<1> HIDE DEF x
<1>4. Kept(c, cap)
  BY <1>1, <1>3, Overwrite
<1>5. c \in Tables(cap) /\ \A i \in 0 .. cap - 1 : c[i] = IF i = p THEN x ELSE b[i]
  BY <1>2, <1>4 DEF Kept, Tables
<1>6. ~NoneRemoved(c, cap)
  BY <1>1, <1>5 DEF NoneRemoved, x
<1>7. Cardinality(Pairs(c)) = Cardinality(Pairs(b)) - 1
  <2>1. /\ Pairs(b) = {i \in 0 .. cap - 1 : b[i].kind = "pair"}
        /\ Pairs(c) = {i \in 0 .. cap - 1 : c[i].kind = "pair"}
        /\ IsFiniteSet(Pairs(b))
    BY <1>2, <1>5, PairsOf
  <2>2. \A i \in 0 .. cap - 1 : c[i].kind = "pair" <=> (b[i].kind = "pair" /\ i # p)
    BY <1>3, <1>5
  <2>3. Pairs(c) = Pairs(b) \ {p} /\ p \in Pairs(b)
    BY <1>1, <2>1, <2>2 DEF Holds
  <2> QED BY <2>1, <2>3, FS_RemoveElement
<1>8. View(c, cap, k) = NoValue
  <2>1. ASSUME NEW i \in 0 .. cap - 1, Holds(c[i], k) PROVE FALSE
    <3>1. i # p /\ Holds(b[i], k)
      BY <1>3, <1>5, <2>1
    <3> QED BY <1>1, <3>1 DEF Kept
  <2> QED BY <1>4, <2>1, NothingFound
<1>9. ASSUME NEW q \in Keys, q # k PROVE SameView(b, cap, c, cap, q)
  <2>1. ~Holds(b[p], q) /\ ~Holds(x, q)
    BY <1>1, <1>3, <1>9 DEF Holds
  <2> QED BY <1>1, <1>4, <2>1, ViewElsewhere
<1> QED BY <1>4, <1>6, <1>7, <1>8, <1>9 DEF c, p, x

\* _insert of a key that is not in the table.
LEMMA Insert ==
    ASSUME NEW b, NEW cap, Kept(b, cap), NEW k \in Keys, NEW v \in Values,
           FoundDistances(b, cap, k) = {}, FreeDistances(b, cap, k) # {}
    PROVE  LET c == Put(b, cap, Pair(k, v)) IN
           /\ Kept(c, cap)
           /\ NoneRemoved(c, cap) <=> NoneRemoved(b, cap)
           /\ Cardinality(Pairs(c)) = Cardinality(Pairs(b)) + 1
           /\ View(c, cap, k) = v
           /\ \A q \in Keys : q # k => SameView(b, cap, c, cap, q)
           /\ \A q, w : (\E i \in 0 .. cap - 1 : c[i] = Pair(q, w))
                         <=> \/ \E i \in 0 .. cap - 1 : b[i] = Pair(q, w)
                             \/ Pair(q, w) = Pair(k, v)
<1> DEFINE f == Min(FreeDistances(b, cap, k))
           p == Slot(k, cap, f)
           x == Pair(k, v)
           c == [b EXCEPT ![p] = x]
<1>1. Put(b, cap, Pair(k, v)) = c
  BY Kinds DEF Put, Slot
<1>2. b \in Tables(cap) /\ cap \in Capacities
  BY DEF Kept
<1>3. f \in FreeDistances(b, cap, k) /\ \A e \in FreeDistances(b, cap, k) : f <= e
  BY MinIsLeast DEF FreeDistances
<1>4. f \in 0 .. cap - 1 /\ At(b, cap, k, f) = NullBin
  BY <1>3 DEF FreeDistances
<1> HIDE DEF f
<1>5. p \in 0 .. cap - 1 /\ b[p] = NullBin
  BY <1>2, <1>4, Slots DEF At, Slot
<1>6. x \in Bins /\ x # NullBin /\ x # HASH_PAIR_REMOVED /\ Holds(x, k) /\ x.kind = "pair" /\ x.value = v
      /\ \A q : Holds(x, q) => q = k
  BY Kinds DEF Bins, Holds
<1>7. \A i \in 0 .. cap - 1 : ~Holds(b[i], k)
  BY PairFound
<1>8. Kept(c, cap)
  <2>1. ASSUME NEW q \in Keys, Holds(x, q)
        PROVE  /\ \A j \in 0 .. cap - 1 : Holds(b[j], q) => j = p
               /\ \A d \in 0 .. cap - 1 : Slot(q, cap, d) = p =>
                     \A e \in 0 .. d : e # d => At(b, cap, q, e) # NullBin
    <3>1. q = k
      BY <1>6, <2>1
    <3>2. ASSUME NEW d \in 0 .. cap - 1, Slot(k, cap, d) = p, NEW e \in 0 .. d, e # d,
                 At(b, cap, k, e) = NullBin
          PROVE  FALSE
      <4>1. d = f
        BY <1>2, <1>4, <3>2, Slots
      <4>2. e \in 0 .. cap - 1 /\ e < f
        BY <1>2, <1>4, <3>2, <4>1 DEF Capacities
      <4>3. e \in FreeDistances(b, cap, k)
        BY <3>2, <4>2 DEF FreeDistances
      <4> QED BY <1>3, <1>4, <4>2, <4>3
    <3> QED BY <1>7, <3>1, <3>2
  <2> HIDE DEF x, p
  <2> QED BY <1>5, <1>6, <2>1, Overwrite
<1> HIDE DEF x, p
<1>9. c \in Tables(cap) /\ \A i \in 0 .. cap - 1 : c[i] = IF i = p THEN x ELSE b[i]
  BY <1>2, <1>8 DEF Kept, Tables
<1>10. NoneRemoved(c, cap) <=> NoneRemoved(b, cap)
  <2>1. b[p] # HASH_PAIR_REMOVED
    BY <1>5, Kinds
  <2> QED BY <1>6, <1>9, <2>1 DEF NoneRemoved
<1>11. Cardinality(Pairs(c)) = Cardinality(Pairs(b)) + 1
  <2>1. /\ Pairs(b) = {i \in 0 .. cap - 1 : b[i].kind = "pair"}
        /\ Pairs(c) = {i \in 0 .. cap - 1 : c[i].kind = "pair"}
        /\ IsFiniteSet(Pairs(b))
    BY <1>2, <1>9, PairsOf
  <2>2. b[p].kind # "pair"
    BY <1>5, Kinds
  <2>3. \A i \in 0 .. cap - 1 : c[i].kind = "pair" <=> (b[i].kind = "pair" \/ i = p)
    BY <1>6, <1>9
  <2>4. Pairs(c) = Pairs(b) \cup {p} /\ p \notin Pairs(b)
    BY <1>5, <2>1, <2>2, <2>3
  <2> QED BY <2>1, <2>4, FS_AddElement
<1>12. View(c, cap, k) = v
  <2>1. c[p] = x
    BY <1>5, <1>9
  <2>2. Holds(c[p], k) /\ c[p].value = v
    BY <1>6, <2>1
  <2> QED BY <1>5, <1>8, <2>2, PairFound
<1>13. ASSUME NEW q \in Keys, q # k PROVE SameView(b, cap, c, cap, q)
  <2>1. ~Holds(b[p], q) /\ ~Holds(x, q)
    BY <1>5, <1>6, <1>13, Kinds DEF Holds
  <2> QED BY <1>5, <1>8, <2>1, ViewElsewhere
<1>14. ASSUME NEW q, NEW w
       PROVE  (\E i \in 0 .. cap - 1 : c[i] = Pair(q, w))
              <=> (\E i \in 0 .. cap - 1 : b[i] = Pair(q, w)) \/ Pair(q, w) = x
  <2>1. b[p] # Pair(q, w)
    BY <1>5, Kinds
  <2> QED BY <1>5, <1>9, <2>1
<1> QED BY <1>1, <1>8, <1>10, <1>11, <1>12, <1>13, <1>14 DEF c, p, x

-----------------------------------------------------------------------------
(* _resize *)

\* Bins fresh from calloc.
LEMMA Fresh ==
    ASSUME NEW cap \in Capacities
    PROVE  /\ Kept(NewBins(cap), cap) /\ NoneRemoved(NewBins(cap), cap)
           /\ Cardinality(Pairs(NewBins(cap))) = 0
           /\ \A q, w : ~ \E i \in 0 .. cap - 1 : NewBins(cap)[i] = Pair(q, w)
           /\ \A k \in Keys : View(NewBins(cap), cap, k) = NoValue
<1> DEFINE b == NewBins(cap)
<1>1. b \in Tables(cap) /\ \A i \in 0 .. cap - 1 : b[i] = NullBin
  BY DEF NewBins, Tables, Bins
<1> HIDE DEF b
<1>2. \A i \in 0 .. cap - 1, k \in Keys : ~Holds(b[i], k)
  BY <1>1, Kinds DEF Holds
<1>3. Kept(b, cap)
  <2>1. ASSUME NEW k \in Keys, NEW d \in 0 .. cap - 1 PROVE ~Holds(At(b, cap, k, d), k)
    BY <1>2, Slots DEF At, Slot
  <2> QED BY <1>1, <1>2, <2>1 DEF Kept
<1>4. Pairs(b) = {}
  BY <1>1, PairsOf, Kinds
<1>5. Cardinality(Pairs(b)) = 0
  BY <1>4, FS_EmptySet
<1>6. NoneRemoved(b, cap) /\ \A q, w : ~ \E i \in 0 .. cap - 1 : b[i] = Pair(q, w)
  BY <1>1, Kinds DEF NoneRemoved
<1>7. \A k \in Keys : View(b, cap, k) = NoValue
  BY <1>2, <1>3, NothingFound
<1> QED BY <1>3, <1>5, <1>6, <1>7 DEF b

\* u[i] is the new table when the bins of b below i have been gone through.
Rehashes(u, b, old, cap) ==
    /\ Rehash(b, old, cap) = u[old]
    /\ u[0] = NewBins(cap)
    /\ \A i \in 0 .. old - 1 :
          u[i + 1] = IF b[i].kind = "pair" THEN Put(u[i], cap, b[i]) ELSE u[i]

\* The recursive function in Rehash goes through the bins one by one.
LEMMA RehashSteps ==
    ASSUME NEW b, NEW old \in Nat, NEW cap
    PROVE  \E u : Rehashes(u, b, old, cap)
<1> DEFINE Step(i, x) == IF b[i - 1].kind = "pair" THEN Put(x, cap, b[i - 1]) ELSE x
           First == NewBins(cap)
           S == {m \in Nat : \E g : g = [i \in 0 .. m |-> IF i = 0 THEN First ELSE Step(i, g[i - 1])]}
           R == CHOOSE g : g = [i \in 0 .. old |-> IF i = 0 THEN First ELSE Step(i, g[i - 1])]
<1>1. 0 \in S
  <2> DEFINE g == [i \in 0 .. 0 |-> First]
  <2>1. g = [i \in 0 .. 0 |-> IF i = 0 THEN First ELSE Step(i, g[i - 1])]
    OBVIOUS
  <2> QED BY <2>1
<1>2. ASSUME NEW m \in Nat, m \in S PROVE m + 1 \in S
  <2>1. PICK g : g = [i \in 0 .. m |-> IF i = 0 THEN First ELSE Step(i, g[i - 1])]
    BY <1>2
  <2> DEFINE h == [i \in 0 .. m + 1 |-> IF i = m + 1 THEN Step(i, g[m]) ELSE g[i]]
  <2>2. h = [i \in 0 .. m + 1 |-> IF i = 0 THEN First ELSE Step(i, h[i - 1])]
    <3> HIDE DEF Step, First
    <3> QED BY <2>1
  <2> HIDE DEF h, Step, First
  <2> QED BY <2>2
<1>3. old \in S
  <2> HIDE DEF S
  <2> QED BY <1>1, <1>2, InductionOnSet
<1>4. PICK g : g = [i \in 0 .. old |-> IF i = 0 THEN First ELSE Step(i, g[i - 1])]
  BY <1>3
<1>5. Rehash(b, old, cap) = R[old]
  BY DEF Rehash
<1> HIDE DEF Step, First
<1>6. R = [i \in 0 .. old |-> IF i = 0 THEN First ELSE Step(i, R[i - 1])]
  BY <1>4
<1> HIDE DEF R
<1>7. R[0] = First
  BY <1>6
<1>8. ASSUME NEW i \in 0 .. old - 1 PROVE R[i + 1] = Step(i + 1, R[i])
  <2>1. i + 1 \in 0 .. old /\ i + 1 # 0 /\ (i + 1) - 1 = i
    OBVIOUS
  <2> QED BY <1>6, <2>1
<1>9. \A i \in 0 .. old - 1 : (i + 1) - 1 = i
  OBVIOUS
<1>10. Rehashes(R, b, old, cap)
  BY <1>5, <1>7, <1>8, <1>9 DEF Step, First, Rehashes
<1> QED BY <1>10

\* A larger table takes all pairs: nothing is lost, nothing removed comes along.
LEMMA Rehashed ==
    ASSUME NEW b, NEW old, Kept(b, old), NEW cap \in Nat, cap > old
    PROVE  LET c == Rehash(b, old, cap) IN
           /\ Kept(c, cap) /\ NoneRemoved(c, cap)
           /\ Cardinality(Pairs(c)) = Cardinality(Pairs(b))
           /\ \A k \in Keys : SameView(b, old, c, cap, k)
<1>1. /\ old \in Nat \ {0} /\ cap \in Capacities /\ old \in Capacities
      /\ b \in Tables(old) /\ \A i \in 0 .. old - 1 : b[i] \in Bins
  BY DEF Kept, Tables, Capacities
<1>2. /\ old \in Nat
      /\ \E u : Rehashes(u, b, old, cap)
  BY <1>1, RehashSteps
<1>3. PICK u : Rehashes(u, b, old, cap)
  BY <1>2
<1>4. /\ Rehash(b, old, cap) = u[old]
      /\ u[0] = NewBins(cap)
      /\ \A i \in 0 .. old - 1 :
            u[i + 1] = IF b[i].kind = "pair" THEN Put(u[i], cap, b[i]) ELSE u[i]
  BY <1>3 DEF Rehashes
<1> DEFINE Below(i) == {j \in 0 .. i - 1 : b[j].kind = "pair"}
           Moved(i) == \A q, w : (\E j \in 0 .. cap - 1 : u[i][j] = Pair(q, w))
                                 <=> (\E j \in 0 .. i - 1 : b[j] = Pair(q, w))
           Good(i) == /\ Kept(u[i], cap) /\ NoneRemoved(u[i], cap)
                      /\ Cardinality(Pairs(u[i])) = Cardinality(Below(i))
                      /\ Moved(i)
           S == {i \in Nat : i <= old => Good(i)}
<1>5. 0 \in S
  <2>1. 0 .. 0 - 1 = {} /\ Below(0) = {}
    OBVIOUS
  <2>2. Cardinality(Below(0)) = 0
    BY <2>1, FS_EmptySet
  <2>3. Good(0)
    BY <1>1, <1>4, <2>1, <2>2, Fresh
  <2> QED BY <2>3
<1>6. ASSUME NEW i \in Nat PROVE IsFiniteSet(Below(i)) /\ Cardinality(Below(i)) \in Nat /\ Cardinality(Below(i)) <= i
  <2>1. 0 \in Int /\ i - 1 \in Int /\ (IF 0 > i - 1 THEN 0 ELSE i - 1 - 0 + 1) = i
    OBVIOUS
  <2>2. IsFiniteSet(0 .. i - 1) /\ Cardinality(0 .. i - 1) = i
    BY <2>1, FS_Interval
  <2>3. Below(i) \in SUBSET (0 .. i - 1)
    OBVIOUS
  <2>4. IsFiniteSet(Below(i)) /\ Cardinality(Below(i)) <= i
    BY <2>2, <2>3, FS_Subset
  <2> QED BY <2>4, FS_CardinalityType
<1>7. ASSUME NEW i \in Nat, i + 1 <= old, Good(i) PROVE Good(i + 1)
  <2>1. i \in 0 .. old - 1 /\ b[i] \in Bins
    BY <1>1, <1>7
  <2>2. \A j : j \in 0 .. (i + 1) - 1 <=> j \in 0 .. i - 1 \/ j = i
    OBVIOUS
  <2>3. CASE b[i].kind = "pair"
    <3>1. PICK k \in Keys, v \in Values : b[i] = Pair(k, v)
      BY <2>1, <2>3, PairBins
    <3>2. u[i + 1] = Put(u[i], cap, Pair(k, v))
      BY <1>4, <2>1, <2>3, <3>1
    <3>3. FoundDistances(u[i], cap, k) = {}
      <4> SUFFICES ASSUME FoundDistances(u[i], cap, k) # {} PROVE FALSE
        OBVIOUS
      <4>1. Place(u[i], cap, k) \in 0 .. cap - 1 /\ \E w \in Values : u[i][Place(u[i], cap, k)] = Pair(k, w)
        BY <1>7, FoundPair
      <4>2. PICK w : \E j \in 0 .. i - 1 : b[j] = Pair(k, w)
        BY <1>7, <4>1
      <4>3. PICK j \in 0 .. i - 1 : b[j] = Pair(k, w)
        BY <4>2
      <4>4. Holds(b[i], k) /\ Holds(b[j], k) /\ j \in 0 .. old - 1 /\ j # i
        BY <1>1, <1>7, <3>1, <4>3, Kinds DEF Holds
      <4> QED BY <2>1, <4>4 DEF Kept
    <3>4. FreeDistances(u[i], cap, k) # {}
      <4>1. u[i] \in Tables(cap)
        BY <1>7 DEF Kept
      <4>2. Cardinality(Pairs(u[i])) <= i /\ i < cap /\ Cardinality(Pairs(u[i])) \in Nat
        BY <1>1, <1>6, <1>7
      <4>3. Cardinality(Pairs(u[i])) < cap
        BY <1>1, <4>2
      <4> QED BY <1>1, <1>7, <4>1, <4>3, Room
    <3> HIDE DEF Below
    <3>5. /\ Kept(u[i + 1], cap)
          /\ NoneRemoved(u[i + 1], cap) <=> NoneRemoved(u[i], cap)
          /\ Cardinality(Pairs(u[i + 1])) = Cardinality(Pairs(u[i])) + 1
          /\ \A q, w : (\E j \in 0 .. cap - 1 : u[i + 1][j] = Pair(q, w))
                        <=> (\E j \in 0 .. cap - 1 : u[i][j] = Pair(q, w)) \/ Pair(q, w) = Pair(k, v)
      BY <1>7, <3>2, <3>3, <3>4, Insert
    <3>6. Cardinality(Below(i + 1)) = Cardinality(Below(i)) + 1
      <4>1. Below(i + 1) = Below(i) \cup {i} /\ i \notin Below(i)
        BY <2>2, <2>3 DEF Below
      <4> QED BY <1>6, <4>1, FS_AddElement
    <3>7. Moved(i + 1)
      <4>1. ASSUME NEW q, NEW w
            PROVE  (\E j \in 0 .. (i + 1) - 1 : b[j] = Pair(q, w))
                   <=> (\E j \in 0 .. i - 1 : b[j] = Pair(q, w)) \/ Pair(q, w) = Pair(k, v)
        BY <2>2, <3>1
      <4> QED BY <1>7, <3>5, <4>1
    <3> QED BY <1>7, <3>5, <3>6, <3>7
  <2>4. CASE b[i].kind # "pair"
    <3>1. u[i + 1] = u[i]
      BY <1>4, <2>1, <2>4
    <3>2. Below(i + 1) = Below(i)
      BY <2>2, <2>4
    <3>3. \A q, w : b[i] # Pair(q, w)
      BY <2>4, Kinds
    <3> HIDE DEF Below
    <3>4. Moved(i + 1)
      BY <1>7, <2>2, <3>1, <3>3
    <3> QED BY <1>7, <3>1, <3>2, <3>4
  <2> QED BY <2>3, <2>4
<1>8. old \in S
  <2>1. ASSUME NEW i \in Nat, i \in S PROVE i + 1 \in S
    <3> SUFFICES ASSUME i + 1 <= old PROVE Good(i + 1)
      OBVIOUS
    <3>1. Good(i)
      <4>1. i <= old
        BY <1>1
      <4> QED BY <2>1, <4>1
    <3> HIDE DEF Good
    <3> QED BY <1>7, <3>1
  <2> HIDE DEF S
  <2> QED BY <1>1, <1>5, <2>1, InductionOnSet
<1>9. Good(old)
  BY <1>1, <1>8
<1>10. Below(old) = Pairs(b)
  <2>1. Pairs(b) = {i \in 0 .. old - 1 : b[i].kind = "pair"}
    BY <1>1, PairsOf
  <2> QED BY <2>1
<1> HIDE DEF Below
<1>11. ASSUME NEW k \in Keys PROVE SameView(b, old, u[old], cap, k)
  BY <1>9, ViewFromPairs
<1> QED BY <1>4, <1>9, <1>10, <1>11

-----------------------------------------------------------------------------
(* The invariant *)

\* A live map is well kept, within what can be allocated, and counted right.
Live ==
    /\ Kept(bins, capacity)
    /\ capacity <= AllocLimit
    /\ fill = Cardinality(Pairs(bins))

\* Set has failed for want of a bin only if a bin is used up.
NoRoomLeft == ret = "HM_INSERTION_FAILURE" => ~NoneRemoved(bins, capacity)

\* The inductive invariant: besides TypeOK it says what each bin may hold, that the way
\* to every pair is free of NULL, and what set has returned.
Inv ==
    /\ phase \in {"fresh", "live", "broken", "undefined", "gone"}
    /\ capacity \in Nat
    /\ phase = "live" => /\ Live
                         /\ NoneRemoved(bins, capacity) => 2 * fill <= capacity + 1
                         /\ NoRoomLeft

\* What TLC checks, in the terms of the proof.
LEMMA LiveFacts ==
    ASSUME Live
    PROVE  /\ capacity \in Capacities /\ capacity > 0 /\ bins \in Tables(capacity)
           /\ DOMAIN bins = 0 .. capacity - 1
           /\ fill \in Nat /\ fill <= capacity
           /\ \A k \in Keys : /\ Found(k) <=> FoundDistances(bins, capacity, k) # {}
                              /\ BinOf(k) = Place(bins, capacity, k)
                              /\ Lookup(k) = View(bins, capacity, k)
<1>1. capacity \in Capacities /\ bins \in Tables(capacity)
  BY DEF Live, Kept
<1>2. capacity > 0 /\ DOMAIN bins = 0 .. capacity - 1
  BY <1>1 DEF Capacities, Tables
<1>3. fill \in Nat /\ fill <= capacity
  BY <1>1, PairsOf DEF Live
<1>4. ASSUME NEW k \in Keys
      PROVE  /\ Found(k) <=> FoundDistances(bins, capacity, k) # {}
             /\ BinOf(k) = Place(bins, capacity, k)
             /\ Lookup(k) = View(bins, capacity, k)
  BY <1>2 DEF Found, BinOf, Place, Slot, Lookup, View
<1> QED BY <1>1, <1>2, <1>3, <1>4

\* The invariant holds before the map is initialised.
LEMMA InitInv == Init => Inv
BY DEF Init, Inv

\* Key k is bound to v, and the other keys keep their views.
Binds(k, v) ==
    /\ Live'
    /\ View(bins', capacity', k) = v
    /\ \A q \in Keys : q # k => SameView(bins, capacity, bins', capacity', q)

\* Key k is forgotten, and the other keys keep their views.
Forgets(k) ==
    /\ Live'
    /\ View(bins', capacity', k) = NoValue
    /\ \A q \in Keys : q # k => SameView(bins, capacity, bins', capacity', q)

\* _set_existing: the key has a pair, whose value is replaced.
LEMMA SetExistingStep ==
    ASSUME Inv, phase = "live", NEW k \in Keys, NEW v \in Values, SetExisting(k, v)
    PROVE  Inv' /\ Binds(k, v)
<1>1. Live /\ FoundDistances(bins, capacity, k) # {} /\ BinOf(k) = Place(bins, capacity, k)
  BY LiveFacts DEF Inv, SetExisting
<1>2. /\ bins' = WithValue(bins, capacity, k, v)
      /\ ret' = "HM_SUCCESS" /\ UNCHANGED <<phase, capacity, fill>>
  BY <1>1 DEF SetExisting, WithValue
<1>3. /\ Kept(bins', capacity)
      /\ Pairs(bins') = Pairs(bins)
      /\ NoneRemoved(bins', capacity) <=> NoneRemoved(bins, capacity)
      /\ View(bins', capacity, k) = v
      /\ \A q \in Keys : q # k => SameView(bins, capacity, bins', capacity, q)
  BY <1>1, <1>2, Revalue DEF Live
<1>4. Live'
  BY <1>1, <1>2, <1>3 DEF Live
<1>5. Inv'
  BY <1>2, <1>3, <1>4 DEF Inv, NoRoomLeft
<1> QED BY <1>2, <1>3, <1>4, <1>5 DEF Binds

\* _insert without growth: one more bin holds a pair, and still at most half (rounded up).
LEMMA SetInsertStep ==
    ASSUME Inv, phase = "live", NEW k \in Keys, NEW v \in Values, SetInsert(k, v)
    PROVE  Inv' /\ Binds(k, v)
<1>1. /\ Live /\ FoundDistances(bins, capacity, k) = {} /\ FreeDistances(bins, capacity, k) # {}
      /\ capacity \in Nat /\ fill \in Nat /\ ~(2 * fill >= capacity)
  BY LiveFacts DEF Inv, SetInsert, MustGrow
<1>2. /\ bins' = Put(bins, capacity, Pair(k, v)) /\ fill' = fill + 1
      /\ ret' = "HM_SUCCESS" /\ UNCHANGED <<phase, capacity>>
  BY DEF SetInsert
<1>3. /\ Kept(bins', capacity)
      /\ NoneRemoved(bins', capacity) <=> NoneRemoved(bins, capacity)
      /\ Cardinality(Pairs(bins')) = Cardinality(Pairs(bins)) + 1
      /\ View(bins', capacity, k) = v
      /\ \A q \in Keys : q # k => SameView(bins, capacity, bins', capacity, q)
  BY <1>1, <1>2, Insert DEF Live
<1>4. Live'
  BY <1>1, <1>2, <1>3 DEF Live
<1>5. 2 * fill' <= capacity' + 1
  BY <1>1, <1>2
<1>6. Inv'
  BY <1>1, <1>2, <1>4, <1>5 DEF Inv, NoRoomLeft
<1> QED BY <1>2, <1>3, <1>4, <1>6 DEF Binds

\* A growth that cannot be allocated.
LEMMA Breaks ==
    ASSUME NEW cap \in Nat, ResizeFails(cap)
    PROVE  Inv' /\ phase' # "live"
BY DEF ResizeFails, Inv

\* _resize and _insert: the pairs move to a larger table, where there is room for one more.
LEMMA SetGrowStep ==
    ASSUME Inv, phase = "live", NEW k \in Keys, NEW v \in Values, SetGrow(k, v)
    PROVE  Inv' /\ (Binds(k, v) \/ (phase' # "live" /\ ret' # "HM_SUCCESS"))
<1> DEFINE cap == next_prime(2 * capacity)
<1>1. /\ Live /\ FoundDistances(bins, capacity, k) = {} /\ fill \in Nat /\ fill <= capacity
      /\ capacity \in Nat \ {0}
  BY LiveFacts DEF Inv, SetGrow, Capacities
<1>2. cap \in Nat /\ cap > 2 * capacity
  BY <1>1, NextPrime
<1> HIDE DEF cap
<1>3. CASE ResizeFails(cap) /\ ret' = "HM_MALLOC_MAP_FAILURE"
  BY <1>2, <1>3, Breaks
<1>4. CASE /\ cap <= AllocLimit
           /\ bins' = Put(Rehash(bins, capacity, cap), cap, Pair(k, v))
           /\ capacity' = cap
           /\ fill' = FillAfterRehash(bins) + 1
           /\ ret' = "HM_SUCCESS"
           /\ UNCHANGED phase
  <2> DEFINE b == Rehash(bins, capacity, cap)
  <2>1. Kept(bins, capacity) /\ cap > capacity
    BY <1>1, <1>2 DEF Live
  <2>2. /\ Kept(b, cap) /\ NoneRemoved(b, cap)
        /\ Cardinality(Pairs(b)) = fill
        /\ \A q \in Keys : SameView(bins, capacity, b, cap, q)
    BY <1>1, <1>2, <2>1, Rehashed DEF Live
  <2> HIDE DEF b
  <2>3. cap \in Capacities /\ b \in Tables(cap)
    BY <2>2 DEF Kept
  <2>4. FreeDistances(b, cap, k) # {}
    <3>1. Cardinality(Pairs(b)) < cap
      BY <1>1, <1>2, <2>2
    <3> QED BY <2>2, <2>3, <3>1, Room
  <2>5. FoundDistances(b, cap, k) = {}
    <3> SUFFICES ASSUME FoundDistances(b, cap, k) # {} PROVE FALSE
      OBVIOUS
    <3>1. View(b, cap, k) \in Values
      BY <2>2, FoundPair
    <3>2. View(bins, capacity, k) = NoValue
      BY <1>1 DEF View
    <3> QED BY <2>2, <3>1, <3>2, MapAssumption DEF SameView
  <2>6. bins' = Put(b, cap, Pair(k, v)) /\ fill' = fill + 1 /\ capacity' = cap
    BY <1>1, <1>4 DEF b, FillAfterRehash, Live
  <2>7. /\ Kept(bins', cap)
        /\ Cardinality(Pairs(bins')) = fill + 1
        /\ NoneRemoved(bins', cap)
        /\ View(bins', cap, k) = v
        /\ \A q \in Keys : q # k => SameView(b, cap, bins', cap, q)
    BY <2>2, <2>4, <2>5, <2>6, Insert
  <2>8. Live'
    BY <1>4, <2>6, <2>7 DEF Live
  <2>9. 2 * fill' <= capacity' + 1
    BY <1>1, <1>2, <2>6
  <2>10. Inv'
    BY <1>2, <1>4, <2>6, <2>8, <2>9 DEF Inv, NoRoomLeft
  <2>11. \A q \in Keys : q # k => SameView(bins, capacity, bins', cap, q)
    BY <2>2, <2>7 DEF SameView
  <2> QED BY <2>6, <2>7, <2>8, <2>10, <2>11 DEF Binds
<1> QED BY <1>3, <1>4 DEF SetGrow, cap

\* _pop: the pair of the key becomes a mark, or free() of a pair of the pool is undefined.
LEMMA PopStep ==
    ASSUME Inv, NEW k \in Keys, Pop(k)
    PROVE  Inv' /\ (Forgets(k) \/ phase' = "undefined")
<1>1. phase = "live" /\ Live /\ FoundDistances(bins, capacity, k) # {} /\ BinOf(k) = Place(bins, capacity, k)
  BY LiveFacts DEF Inv, Pop
<1>2. CASE phase' = "undefined" /\ UNCHANGED <<bins, capacity, fill, ret>>
  BY <1>2 DEF Inv
<1>3. CASE /\ bins' = PopLeavesMark(k)
           /\ fill' = fill - 1
           /\ ret' = "HM_SUCCESS"
           /\ UNCHANGED <<phase, capacity>>
  <2>1. bins' = [bins EXCEPT ![Place(bins, capacity, k)] = HASH_PAIR_REMOVED]
    BY <1>1, <1>3 DEF PopLeavesMark
  <2>2. /\ Kept(bins', capacity)
        /\ ~NoneRemoved(bins', capacity)
        /\ Cardinality(Pairs(bins')) = Cardinality(Pairs(bins)) - 1
        /\ View(bins', capacity, k) = NoValue
        /\ \A q \in Keys : q # k => SameView(bins, capacity, bins', capacity, q)
    BY <1>1, <2>1, Mark DEF Live
  <2>3. Live'
    BY <1>1, <1>3, <2>2 DEF Live
  <2>4. Inv'
    BY <1>3, <2>2, <2>3 DEF Inv, NoRoomLeft
  <2> QED BY <1>3, <2>2, <2>3, <2>4 DEF Forgets
<1> QED BY <1>2, <1>3 DEF Pop

\* Neither the pool's want of a pair nor the lack of a bin touches the table, and
\* a bin is lacking only when the probe meets no NULL one: then some were removed,
\* since fewer than half of them hold a pair.
LEMMA SetFailsStep ==
    ASSUME Inv, phase = "live", NEW k \in Keys, NEW v \in Values,
           SetNoPair(k, v) \/ SetNoBin(k, v)
    PROVE  Inv' /\ UNCHANGED <<phase, bins, capacity, fill>> /\ ret' # "HM_SUCCESS"
<1>1. Live /\ Kept(bins, capacity)
  BY DEF Inv, Live
<1>2. UNCHANGED <<phase, bins, capacity, fill>> /\ ret' # "HM_SUCCESS"
  BY DEF SetNoPair, SetNoBin
<1>3. Live' /\ (NoneRemoved(bins, capacity) => 2 * fill <= capacity + 1)'
  BY <1>1, <1>2 DEF Inv, Live
<1>4. NoRoomLeft'
  <2>1. CASE SetNoPair(k, v)
    BY <2>1 DEF SetNoPair, NoRoomLeft
  <2>2. CASE SetNoBin(k, v)
    <3>1. /\ ~(2 * fill >= capacity) /\ FreeDistances(bins, capacity, k) = {}
          /\ fill \in Nat /\ capacity \in Capacities /\ bins \in Tables(capacity)
          /\ fill = Cardinality(Pairs(bins))
      BY <1>1, <2>2, LiveFacts DEF SetNoBin, MustGrow, Live
    <3>2. fill < capacity
      BY <3>1 DEF Capacities
    <3>3. ~NoneRemoved(bins, capacity)
      BY <3>1, <3>2, Room
    <3> QED BY <1>2, <3>3 DEF NoRoomLeft
  <2> QED BY <2>1, <2>2
<1> QED BY <1>2, <1>3, <1>4 DEF Inv

\* map_init.
LEMMA InitMapStep ==
    ASSUME Inv, NEW cap \in InitCaps, InitMap(cap)
    PROVE  /\ Inv'
           /\ phase # "live"
           /\ phase' = "live" => \A k \in Keys : View(bins', capacity', k) = NoValue
<1>1. cap \in Capacities /\ cap \in Nat /\ cap > 0 /\ phase = "fresh"
  BY MapAssumption DEF Capacities, InitMap
<1>2. CASE ResizeFails(cap) /\ ret' = "HM_MALLOC_MAP_FAILURE"
  BY <1>1, <1>2, Breaks
<1>3. CASE /\ cap <= AllocLimit
           /\ phase' = "live"
           /\ bins' = NewBins(cap)
           /\ capacity' = cap
           /\ fill' = 0
           /\ ret' = "HM_SUCCESS"
  <2>1. /\ Kept(bins', cap)
        /\ Cardinality(Pairs(bins')) = 0
        /\ \A k \in Keys : View(bins', cap, k) = NoValue
    BY <1>1, <1>3, Fresh
  <2>2. Live'
    BY <1>3, <2>1 DEF Live
  <2>3. 2 * fill' <= capacity' + 1
    BY <1>1, <1>3
  <2>4. Inv'
    BY <1>1, <1>3, <2>2, <2>3 DEF Inv, NoRoomLeft
  <2> QED BY <1>1, <1>3, <2>1, <2>4
<1> QED BY <1>1, <1>2, <1>3 DEF InitMap

\* Every step keeps the invariant.
LEMMA NextInv == ASSUME Inv, [Next]_vars PROVE Inv'
<1>1. CASE \E c \in InitCaps : InitMap(c)
  BY <1>1, InitMapStep
<1>2. ASSUME NEW k \in Keys, NEW v \in Values, Set(k, v) PROVE Inv'
  BY <1>2, SetExistingStep, SetInsertStep, SetGrowStep, SetFailsStep DEF Set
<1>3. CASE \E k \in Keys : Pop(k)
  BY <1>3, PopStep
<1>4. CASE (\E k \in Keys : PopMissing(k)) \/ UNCHANGED vars
  <2>1. /\ UNCHANGED <<phase, bins, capacity, fill>>
        /\ ret' = ret \/ ret' = "HM_KEY_NOT_FOUND"
    BY <1>4 DEF PopMissing, vars
  <2>2. Live' <=> Live
    BY <2>1 DEF Live
  <2> QED BY <2>1, <2>2 DEF Inv, NoRoomLeft
<1>5. CASE UseBroken \/ Dest
  BY <1>5 DEF UseBroken, Dest, Inv
<1> QED BY <1>1, <1>2, <1>3, <1>4, <1>5 DEF Next

\* The invariant holds throughout.
LEMMA AlwaysInv == Spec => []Inv
<1>1. Inv /\ [Next]_vars => Inv'
  BY NextInv
<1> QED BY InitInv, <1>1, PTL DEF Spec

-----------------------------------------------------------------------------
(* The theorems *)

\* A live map has as many bins as capacity says and counts its pairs right,
\* through failed insertions, removals and growth.
THEOREM TypeCorrect == Spec => []TypeOK
<1>1. Inv => TypeOK
  BY LiveFacts DEF Inv, Live, TypeOK
<1> QED BY AlwaysInv, <1>1, PTL

\* Whatever collided, was removed or was moved by a growth: every pair is where
\* _get_pair ends for its key.
THEOREM PairsReachable == Spec => []PairsAreReachable
<1>1. ASSUME Inv, phase = "live", NEW i \in Pairs(bins)
      PROVE  Found(bins[i].key) /\ BinOf(bins[i].key) = i
  <2>1. Live /\ Kept(bins, capacity)
    BY <1>1 DEF Inv, Live
  <2>2. i \in 0 .. capacity - 1 /\ bins[i].kind = "pair" /\ bins[i] \in Bins
    BY <2>1, LiveFacts, PairsOf DEF Tables
  <2>3. PICK k \in Keys, v \in Values : bins[i] = Pair(k, v)
    BY <2>2, PairBins
  <2>4. bins[i].key = k /\ Holds(bins[i], k)
    BY <2>3, Kinds DEF Holds
  <2>5. FoundDistances(bins, capacity, k) # {} /\ Place(bins, capacity, k) = i
    BY <2>1, <2>2, <2>4, PairFound
  <2> QED BY <2>1, <2>4, <2>5, LiveFacts
<1>2. Inv => PairsAreReachable
  BY <1>1 DEF PairsAreReachable
<1> QED BY AlwaysInv, <1>2, PTL

\* As long as nothing was removed, at most half of the bins (rounded up) hold a
\* pair and set never fails for want of a bin.
THEOREM RoomForTheNext == Spec => []RoomUnlessRemoved
<1>1. Inv => RoomUnlessRemoved
  <2> SUFFICES ASSUME Inv, phase = "live", \A i \in DOMAIN bins : bins[i] # HASH_PAIR_REMOVED
               PROVE  2 * fill <= capacity + 1 /\ ret # "HM_INSERTION_FAILURE"
    BY DEF RoomUnlessRemoved
  <2>1. NoneRemoved(bins, capacity)
    BY LiveFacts DEF Inv, NoneRemoved
  <2> QED BY <2>1 DEF Inv, NoRoomLeft
<1> QED BY AlwaysInv, <1>1, PTL

\* The wheel of next_prime and the trial divisions of is_prime find the least
\* prime above the number asked for.
THEOREM GrowthIsPrime == Spec => []NextPrimeIsNext
<1>1. ASSUME NEW x \in Nat
      PROVE  LET Prime(n) == n >= 2 /\ \A d \in 2 .. n - 1 : n % d # 0
             IN  /\ next_prime(x) > x
                 /\ Prime(next_prime(x))
                 /\ \A n \in x + 1 .. next_prime(x) - 1 : ~Prime(n)
  BY NextPrime DEF IsPrime
<1>2. Inv => capacity \in Nat /\ 2 * capacity \in Nat
  BY DEF Inv
<1>3. Inv => NextPrimeIsNext
  BY <1>1, <1>2 DEF NextPrimeIsNext
<1> QED BY AlwaysInv, <1>3, PTL

\* What Lookup returns after a step.
LEMMA NextLookup ==
    ASSUME Live', NEW k \in Keys
    PROVE  Lookup(k)' = View(bins', capacity', k)
<1>1. capacity' > 0
  BY DEF Live, Kept, Capacities
<1> QED BY <1>1 DEF Lookup, Found, BinOf, View, Place, Slot

\* What the operations do to the views of the keys.
LEMMA SetStep ==
    ASSUME Inv, NEW k \in Keys, NEW v \in Values, Set(k, v)
    PROVE  /\ phase = "live"
           /\ \/ phase' = "live" /\ Binds(k, v)
              \/ phase' # "live" /\ ret' # "HM_SUCCESS"
              \/ UNCHANGED <<phase, bins, capacity, fill>> /\ ret' # "HM_SUCCESS"
<1>1. phase = "live"
  BY DEF Set
<1>2. CASE SetExisting(k, v)
  BY <1>1, <1>2, SetExistingStep DEF SetExisting
<1>3. CASE SetInsert(k, v)
  BY <1>1, <1>3, SetInsertStep DEF SetInsert
<1>4. CASE SetGrow(k, v)
  <2>1. phase' # "live" => ret' # "HM_SUCCESS"
    BY <1>1, <1>4 DEF SetGrow
  <2> QED BY <1>1, <1>4, <2>1, SetGrowStep
<1>5. CASE SetNoPair(k, v) \/ SetNoBin(k, v)
  BY <1>1, <1>5, SetFailsStep
<1> QED BY <1>1, <1>2, <1>3, <1>4, <1>5 DEF Set

\* A set that reports success is what the next get returns, whether the key was
\* there, found a bin, or made the map grow.
THEOREM SetThenGet == Spec => SetIsFound
<1>1. ASSUME Inv, NEW k \in Keys, NEW v \in Values, Set(k, v), ret' = "HM_SUCCESS"
      PROVE  Lookup(k)' = v
  <2>1. Binds(k, v)
    BY <1>1, SetStep
  <2> QED BY <2>1, NextLookup DEF Binds
<1>2. Inv /\ [Next]_vars =>
        [\A k \in Keys, v \in Values : Set(k, v) /\ ret' = "HM_SUCCESS" => Lookup(k)' = v]_vars
  BY <1>1
<1> QED BY AlwaysInv, <1>2, PTL DEF Spec, SetIsFound

-----------------------------------------------------------------------------
(* Refinement *)

\* The dictionary that callers see.
DictView == [k \in Keys |-> IF phase = "live" THEN Lookup(k) ELSE NoValue]

\* It is made of the keys' views.
LEMMA DictViewOf ==
    /\ phase = "live" /\ Live => DictView = [k \in Keys |-> View(bins, capacity, k)]
    /\ phase # "live" => DictView = [k \in Keys |-> NoValue]
<1>1. ASSUME phase = "live", Live PROVE DictView = [k \in Keys |-> View(bins, capacity, k)]
  BY <1>1, LiveFacts DEF DictView
<1> QED BY <1>1 DEF DictView

\* The same after a step.
LEMMA NextDictViewOf ==
    /\ phase' = "live" /\ Live' => DictView' = [k \in Keys |-> View(bins', capacity', k)]
    /\ phase' # "live" => DictView' = [k \in Keys |-> NoValue]
<1>1. ASSUME phase' = "live", Live' PROVE DictView' = [k \in Keys |-> View(bins', capacity', k)]
  BY <1>1, NextLookup DEF DictView
<1> QED BY <1>1 DEF DictView

\* A step of the map is a step of the dictionary or leaves it alone: a key is
\* bound or forgotten whole, failures change nothing, and a map that is broken,
\* undefined or gone shows nothing.
LEMMA DictStep == ASSUME Inv, [Next]_vars PROVE [Dict!Next]_DictView
<1>1. ASSUME phase' # "live" PROVE Dict!Next
  <2>1. Dict!Clear
    BY <1>1, NextDictViewOf DEF DictView, Dict!Clear, Dict!Nothing
  <2> QED BY <2>1 DEF Dict!Next
<1>2. ASSUME UNCHANGED <<phase, bins, capacity>> PROVE DictView' = DictView
  BY <1>2 DEF DictView, Lookup, Found, BinOf
<1>3. ASSUME NEW k \in Keys, NEW w, phase = "live", phase' = "live", Live',
             View(bins', capacity', k) = w,
             \A q \in Keys : q # k => SameView(bins, capacity, bins', capacity', q)
      PROVE  DictView' = [DictView EXCEPT ![k] = w]
  <2>1. /\ DictView = [q \in Keys |-> View(bins, capacity, q)]
        /\ DictView' = [q \in Keys |-> View(bins', capacity', q)]
    BY <1>3, DictViewOf, NextDictViewOf DEF Inv
  <2> QED BY <1>3, <2>1 DEF SameView
<1>4. ASSUME NEW k \in Keys, NEW v \in Values, Set(k, v)
      PROVE  Dict!Next \/ DictView' = DictView
  <2>1. CASE phase' = "live" /\ Binds(k, v)
    <3>1. DictView' = [DictView EXCEPT ![k] = v]
      BY <1>3, <1>4, <2>1, SetStep DEF Binds
    <3>2. Dict!Bind(k, v)
      BY <3>1 DEF Dict!Bind, DictView
    <3> QED BY <3>2 DEF Dict!Next
  <2> QED BY <1>1, <1>2, <1>4, <2>1, SetStep
<1>5. ASSUME NEW k \in Keys, Pop(k)
      PROVE  Dict!Next
  <2>1. CASE phase' = "live" /\ Forgets(k)
    <3>1. DictView' = [DictView EXCEPT ![k] = NoValue]
      BY <1>3, <1>5, <2>1 DEF Pop, Forgets
    <3>2. Dict!Forget(k)
      BY <3>1 DEF Dict!Forget, DictView
    <3> QED BY <3>2 DEF Dict!Next
  <2> QED BY <1>1, <1>5, <2>1, PopStep
<1>6. ASSUME NEW cap \in InitCaps, InitMap(cap)
      PROVE  Dict!Next
  <2>1. CASE phase' = "live"
    <3>1. Live' /\ \A k \in Keys : View(bins', capacity', k) = NoValue
      BY <1>6, <2>1, InitMapStep DEF Inv
    <3>2. DictView' = [k \in Keys |-> NoValue]
      BY <2>1, <3>1, NextDictViewOf
    <3>3. Dict!Clear
      BY <3>2 DEF Dict!Clear, Dict!Nothing, DictView
    <3> QED BY <3>3 DEF Dict!Next
  <2> QED BY <1>1, <2>1
<1>7. CASE (\E k \in Keys : PopMissing(k)) \/ UNCHANGED vars
  BY <1>2, <1>7 DEF PopMissing, vars
<1>8. CASE UseBroken \/ Dest
  BY <1>1, <1>8 DEF UseBroken, Dest
<1> QED BY <1>4, <1>5, <1>6, <1>7, <1>8 DEF Next

\* Collisions, removals, growth and failures never show in what get returns: the
\* map is the dictionary that AbstractMap promises.
THEOREM Refinement == Spec => ImplementsMap
<1>1. Init => Dict!Init
  BY DictViewOf DEF Init, Dict!Init, Dict!Nothing, DictView
<1>2. Inv /\ [Next]_vars => [Dict!Next]_DictView
  BY DictStep
<1> QED BY AlwaysInv, <1>1, <1>2, PTL DEF Spec, ImplementsMap, Dict!Spec, DictView
==============================================================================
