--------------------------- MODULE EnetChannelProofs ---------------------------
(****************************************************************************)
(* What TLAPS proves of EnetChannel, for any window size, any packets and any    *)
(* losses, repetitions and delays within a datagram's lifetime: the counters are   *)
(* exact, the queues in order, nothing acknowledged is lost, the oldest         *)
(* command gets an answer, and the packets come out in the order of OrderedChannel.  *)
(*                                                                          *)
(* The argument gives every command the number it would have had numbers never     *)
(* wrapped (Absolute), and the receiver such a number m too.  The sender opens no   *)
(* window while an old command is unanswered (InReach), the receiver misses a part   *)
(* of the packet after m (MissingPart), so what was sent is less than a turn ahead   *)
(* of m (Reach), and a number that wrapped stands for one command only.           *)
(****************************************************************************)
EXTENDS EnetChannel, FiniteSetTheorems, SequenceTheorems, TLAPS

--------------------------------------------------------------------------------
(* Arithmetic of numbers that wrap.                                          *)

(* Division with remainder.                                                   *)
LEMMA DivMod ==
    ASSUME NEW n \in Int, NEW d \in Nat \ {0}
    PROVE  /\ n = d * (n \div d) + (n % d)
           /\ n \div d \in Int /\ n % d \in 0..(d - 1)
           /\ n >= 0 => n \div d >= 0
  OBVIOUS

(* The quotient is the only one.                                              *)
LEMMA OneQuotient ==
    ASSUME NEW d \in Nat \ {0}, NEW q \in Int, NEW r \in 0..(d - 1),
           NEW p \in Int, NEW s \in 0..(d - 1), d * q + r = d * p + s
    PROVE  q = p /\ r = s
  <1>1. d * (q - p) = s - r
    OBVIOUS
  <1>2. ~(q > p)
    <2>1. SUFFICES ASSUME q > p PROVE FALSE
      OBVIOUS
    <2>2. q - p - 1 \in Nat
      BY <2>1
    <2>3. d * (q - p - 1) >= 0
      BY <2>2
    <2>4. d * (q - p) >= d
      BY <2>3
    <2>. QED
      BY <2>4, <1>1
  <1>3. ~(q < p)
    <2>1. SUFFICES ASSUME q < p PROVE FALSE
      OBVIOUS
    <2>2. p - q - 1 \in Nat
      BY <2>1
    <2>3. d * (p - q - 1) >= 0
      BY <2>2
    <2>4. d * (p - q) >= d
      BY <2>3
    <2>. QED
      BY <2>4, <1>1
  <1>. QED
    BY <1>2, <1>3

(* A quotient and a remainder that fit are the ones.                          *)
LEMMA Quotient ==
    ASSUME NEW n \in Int, NEW d \in Nat \ {0}, NEW q \in Int, NEW r \in 0..(d - 1), n = d * q + r
    PROVE  n \div d = q /\ n % d = r
  <1>1. /\ n = d * (n \div d) + (n % d)
        /\ n \div d \in Int /\ n % d \in 0..(d - 1)
    BY DivMod
  <1>. QED
    BY <1>1, OneQuotient

(* What the assumption says of the constants, product by product.             *)
LEMMA Sizes ==
    /\ WindowSize \in Nat \ {0} /\ Windows \in Nat \ {0} /\ FreeWindows \in Nat
    /\ FreeWindows >= 3 /\ Windows >= FreeWindows + 2 /\ Windows <= 2 * FreeWindows + 1
    /\ Windows >= 2 * FreeWindows - 1
    /\ Numbers \in Nat \ {0} /\ Numbers = WindowSize * Windows
    /\ Sequence = 0..(Numbers - 1)
    /\ Lifetime \in Nat /\ Lifetime <= (Windows - FreeWindows) * WindowSize
    /\ MaxQueued \in Nat /\ MaxQueued <= FreeWindows * WindowSize
    /\ LastUnreliable \in Nat /\ MaxInTransit \in Nat
  <1>1. /\ WindowSize \in Nat \ {0} /\ Windows \in Nat \ {0} /\ FreeWindows \in Nat
        /\ FreeWindows >= 3 /\ Windows >= FreeWindows + 2 /\ Windows <= 2 * FreeWindows + 1
        /\ Windows >= 2 * FreeWindows - 1
        /\ LastUnreliable \in Nat /\ MaxInTransit \in Nat
    BY ChannelAssumption
  <1>2. Numbers \in Nat \ {0} /\ Numbers = WindowSize * Windows
    <2>1. WindowSize * Windows > 0
      BY <1>1
    <2>. QED
      BY <1>1, <2>1 DEF Numbers
  <1>3. Lifetime \in Nat /\ Lifetime <= (Windows - FreeWindows) * WindowSize
    <2>1. (Windows - FreeWindows - 1) * WindowSize >= 0
      BY <1>1
    <2>. QED
      BY <1>1, <2>1, ChannelAssumption
  <1>4. MaxQueued \in Nat /\ MaxQueued <= FreeWindows * WindowSize
    BY <1>1, ChannelAssumption
  <1>. QED
    BY <1>1, <1>2, <1>3, <1>4 DEF Sequence

(* The window of a number that does not wrap.                                *)
Turn(n) == n \div WindowSize

(* The numbers of a window.                                                   *)
LEMMA TurnIs ==
    ASSUME NEW n \in Nat
    PROVE  Turn(n) \in Nat /\ WindowSize * Turn(n) <= n /\ n < WindowSize * Turn(n) + WindowSize
  <1>. DEFINE W == WindowSize
              q == n \div W
              r == n % W
  <1>1. W \in Nat \ {0} /\ n \in Int /\ n >= 0
    BY Sizes
  <1>2. n = W * q + r /\ q \in Int /\ r \in 0..(W - 1) /\ q >= 0
    BY <1>1, DivMod
  <1>. HIDE DEF q, r, W
  <1>3. q \in Nat /\ W * q <= n /\ n < W * q + W
    BY <1>1, <1>2
  <1>. QED
    BY <1>3 DEF Turn, q, W

(* How far apart two windows are, and two numbers in them.                    *)
LEMMA TurnsApart ==
    ASSUME NEW a \in Nat, NEW b \in Nat, NEW k \in Nat
    PROVE  /\ a <= b + k * WindowSize => Turn(a) <= Turn(b) + k
           /\ Turn(a) <= Turn(b) + k => a < b + k * WindowSize + WindowSize
  <1>. DEFINE W == WindowSize
              s == Turn(a)
              t == Turn(b)
  <1>1. /\ s \in Nat /\ W * s <= a /\ a < W * s + W
        /\ t \in Nat /\ W * t <= b /\ b < W * t + W
        /\ W \in Nat \ {0}
    BY TurnIs, Sizes
  <1>. HIDE DEF s, t, W
  <1>2. ASSUME a <= b + k * W PROVE s <= t + k
    <2>1. SUFFICES ASSUME s > t + k PROVE FALSE
      BY <1>1
    <2>2. s - t - k - 1 \in Nat
      BY <1>1, <2>1
    <2>3. W * (s - t - k - 1) >= 0
      BY <1>1, <2>2
    <2>4. W * s >= W * t + k * W + W
      BY <1>1, <2>3
    <2>. QED
      BY <1>1, <1>2, <2>4
  <1>3. ASSUME s <= t + k PROVE a < b + k * W + W
    <2>1. t + k - s \in Nat
      BY <1>1, <1>3
    <2>2. W * (t + k - s) >= 0
      BY <1>1, <2>1
    <2>3. W * s <= W * t + k * W
      BY <1>1, <2>2
    <2>4. W * s + W <= W * t + k * W + W
      BY <1>1, <2>3
    <2>. QED
      BY <1>1, <2>4
  <1>. QED
    BY <1>2, <1>3 DEF s, t, W

(* A later number is not in an earlier window.                                *)
LEMMA TurnGrows ==
    ASSUME NEW a \in Nat, NEW b \in Nat, a <= b
    PROVE  Turn(a) <= Turn(b)
  <1>1. a <= b + 0 * WindowSize
    BY Sizes
  <1>2. Turn(a) <= Turn(b) + 0
    BY <1>1, TurnsApart
  <1>. QED
    BY <1>2, TurnIs

(* The next number is in the same window or opens the next.                   *)
LEMMA NextTurn ==
    ASSUME NEW n \in Nat
    PROVE  /\ Turn(n + 1) \in {Turn(n), Turn(n) + 1}
           /\ Turn(n + 1) # Turn(n) => (n + 1) % WindowSize = 0
  <1>. DEFINE W == WindowSize
              q == n \div W
              r == n % W
  <1>1. W \in Nat \ {0} /\ q \in Int /\ r \in 0..(W - 1) /\ n = W * q + r
    BY Sizes, DivMod
  <1>. HIDE DEF q, r, W
  <1>2. CASE r + 1 \in 0..(W - 1)
    <2>1. n + 1 = W * q + (r + 1) /\ n + 1 \in Int
      BY <1>1
    <2>2. (n + 1) \div W = q
      BY <1>1, <1>2, <2>1, Quotient
    <2>. QED
      BY <2>2 DEF Turn, q, W
  <1>3. CASE r + 1 \notin 0..(W - 1)
    <2>1. n + 1 = W * (q + 1) + 0 /\ n + 1 \in Int /\ 0 \in 0..(W - 1) /\ q + 1 \in Int
      BY <1>1, <1>3
    <2>2. (n + 1) \div W = q + 1 /\ (n + 1) % W = 0
      <3>. DEFINE k == q + 1
      <3>1. n + 1 = W * k + 0 /\ k \in Int
        BY <2>1
      <3>. HIDE DEF k
      <3>2. (n + 1) \div W = k /\ (n + 1) % W = 0
        BY <1>1, <2>1, <3>1, Quotient
      <3>. QED
        BY <3>2 DEF k
    <2>. QED
      BY <2>2 DEF Turn, q, W
  <1>. QED
    BY <1>2, <1>3

(* A number and its window, as they are when they wrap.                       *)
LEMMA Wraps ==
    ASSUME NEW n \in Nat
    PROVE  /\ n % Numbers \in Sequence
           /\ Window(n % Numbers) \in 0..(Windows - 1)
           /\ Window(n % Numbers) = Turn(n) % Windows
           /\ (n % Numbers) % WindowSize = n % WindowSize
           /\ \E q \in Nat : /\ n = Numbers * q + (n % Numbers)
                             /\ Turn(n) = Windows * q + Window(n % Numbers)
  <1>. DEFINE N == Numbers
              W == WindowSize
              q == n \div N
              r == n % N
              a == r \div W
              b == r % W
  <1>1. W \in Nat \ {0} /\ N \in Nat \ {0} /\ Windows \in Nat \ {0} /\ N = W * Windows
    BY Sizes
  <1>2. q \in Nat /\ r \in 0..(N - 1) /\ n = N * q + r
    <2>1. n \in Int /\ n >= 0
      OBVIOUS
    <2>2. /\ n = N * (n \div N) + (n % N)
          /\ n \div N \in Int /\ n % N \in 0..(N - 1)
          /\ n >= 0 => n \div N >= 0
      BY <1>1, <2>1, DivMod
    <2>. QED
      BY <2>1, <2>2
  <1>. HIDE DEF r
  <1>3. a \in Nat /\ b \in 0..(W - 1) /\ r = W * a + b
    <2>1. r \in Int /\ r >= 0
      BY <1>1, <1>2
    <2>2. /\ r = W * (r \div W) + (r % W)
          /\ r \div W \in Int /\ r % W \in 0..(W - 1)
          /\ r >= 0 => r \div W >= 0
      BY <1>1, <2>1, DivMod
    <2>. QED
      BY <2>1, <2>2
  <1>. HIDE DEF q, a, b, W, N
  <1>4. a \in 0..(Windows - 1)
    <2>1. SUFFICES ASSUME a >= Windows PROVE FALSE
      BY <1>1, <1>3
    <2>2. a - Windows \in Nat
      BY <1>1, <1>3, <2>1
    <2>3. W * (a - Windows) >= 0
      BY <1>1, <2>2
    <2>4. W * a >= N
      BY <1>1, <1>3, <2>3
    <2>. QED
      BY <1>1, <1>2, <1>3, <2>4
  <1>5. n = W * (Windows * q + a) + b /\ Windows * q + a \in Nat
    BY <1>1, <1>2, <1>3
  <1>6. n \div W = Windows * q + a /\ n % W = b
    <2>. DEFINE k == Windows * q + a
    <2>1. n = W * k + b /\ k \in Int
      BY <1>5
    <2>. HIDE DEF k
    <2>2. n \div W = k /\ n % W = b
      BY <1>1, <1>3, <2>1, Quotient
    <2>. QED
      BY <2>2 DEF k
  <1>7. (Windows * q + a) % Windows = a
    <2>1. Windows * q + a \in Int /\ q \in Int
      BY <1>2, <1>5
    <2>. QED
      BY <1>1, <1>4, <2>1, Quotient
  <1>8. r \in Sequence
    BY <1>2, Sizes DEF N
  <1>9. Window(r) = a /\ Turn(n) = Windows * q + a
    BY <1>6 DEF Window, Turn, a, W
  <1>10. r % W = n % W
    BY <1>6 DEF b
  <1>. QED
    BY <1>2, <1>4, <1>7, <1>8, <1>9, <1>10 DEF r, W, N

(* Numbers that lie within a turn of each other can be told apart.              *)
LEMMA SameNumber ==
    ASSUME NEW a \in Nat, NEW b \in Nat, a % Numbers = b % Numbers,
           a < b + Numbers, b < a + Numbers
    PROVE  a = b
  <1>. DEFINE N == Numbers
              r == b % N
  <1>1. PICK q \in Nat : a = N * q + (a % N)
    BY Wraps
  <1>2. PICK p \in Nat : b = N * p + (b % N)
    BY Wraps
  <1>3. a = N * q + r /\ b = N * p + r /\ r \in 0..(N - 1) /\ N \in Nat \ {0}
    BY <1>1, <1>2, Wraps, Sizes
  <1>. HIDE DEF r, N
  <1>4. a < b + N /\ b < a + N
    BY DEF N
  <1>5. ~(q > p)
    <2>1. SUFFICES ASSUME q > p PROVE FALSE
      OBVIOUS
    <2>2. N * (q - p - 1) >= 0
      BY <1>3, <2>1
    <2>. QED
      BY <1>3, <1>4, <2>2
  <1>6. ~(p > q)
    <2>1. SUFFICES ASSUME p > q PROVE FALSE
      OBVIOUS
    <2>2. N * (p - q - 1) >= 0
      BY <1>3, <2>1
    <2>. QED
      BY <1>3, <1>4, <2>2
  <1>7. q = p
    BY <1>5, <1>6
  <1>. QED
    BY <1>3, <1>7

(* Of two such numbers, whether they lie in the same turn.                     *)
LEMMA TurnsOf ==
    ASSUME NEW a \in Nat, NEW m \in Nat, m <= a, a < m + Numbers
    PROVE  \E q \in Nat, p \in Nat :
             /\ a = Numbers * q + (a % Numbers) /\ Turn(a) = Windows * q + Window(a % Numbers)
             /\ m = Numbers * p + (m % Numbers) /\ Turn(m) = Windows * p + Window(m % Numbers)
             /\ \/ q = p /\ m % Numbers <= a % Numbers
                \/ q = p + 1 /\ a % Numbers < m % Numbers
  <1>. DEFINE N == Numbers
              r == a % N
              s == m % N
  <1>1. PICK q \in Nat : a = N * q + r /\ Turn(a) = Windows * q + Window(r)
    BY Wraps
  <1>2. PICK p \in Nat : m = N * p + s /\ Turn(m) = Windows * p + Window(s)
    BY Wraps
  <1>3. r \in 0..(N - 1) /\ s \in 0..(N - 1) /\ N \in Nat \ {0}
    BY Wraps, Sizes
  <1>. HIDE DEF r, s, N
  <1>4. m <= a /\ a < m + N
    BY DEF N
  <1>5. ~(q < p)
    <2>1. SUFFICES ASSUME q < p PROVE FALSE
      OBVIOUS
    <2>2. N * (p - q - 1) >= 0
      BY <1>3, <2>1
    <2>. QED
      BY <1>1, <1>2, <1>3, <1>4, <2>2
  <1>6. ~(q > p + 1)
    <2>1. SUFFICES ASSUME q > p + 1 PROVE FALSE
      OBVIOUS
    <2>2. N * (q - p - 2) >= 0
      BY <1>3, <2>1
    <2>. QED
      BY <1>1, <1>2, <1>3, <1>4, <2>2
  <1>7. CASE q = p
    <2>1. s <= r
      BY <1>1, <1>2, <1>3, <1>4, <1>7
    <2>. QED
      BY <1>1, <1>2, <1>7, <2>1 DEF r, s, N
  <1>8. CASE q = p + 1
    <2>1. N * q = N * p + N
      BY <1>3, <1>8
    <2>2. r < s
      BY <1>1, <1>2, <1>3, <1>4, <2>1
    <2>. QED
      BY <1>1, <1>2, <1>8, <2>2 DEF r, s, N
  <1>. QED
    BY <1>5, <1>6, <1>7, <1>8

(* How far ahead the receiver, at m, sees a number to be.                       *)
LEMMA AheadIs ==
    ASSUME NEW a \in Nat, NEW m \in Nat
    PROVE  /\ m <= a /\ a < m + Numbers =>
                Ahead(a % Numbers, m % Numbers) = Turn(a) - Turn(m)
           /\ a < m /\ m < a + Numbers =>
                Ahead(a % Numbers, m % Numbers) = Turn(a) - Turn(m) + Windows
  <1>0. /\ a % Numbers \in Nat /\ m % Numbers \in Nat /\ Windows \in Nat
        /\ Window(a % Numbers) \in Nat /\ Window(m % Numbers) \in Nat
    <2>1. /\ a % Numbers \in Sequence /\ Window(a % Numbers) \in 0..(Windows - 1)
          /\ m % Numbers \in Sequence /\ Window(m % Numbers) \in 0..(Windows - 1)
      BY Wraps
    <2>2. Windows \in Nat /\ Sequence = 0..(Numbers - 1) /\ Numbers \in Nat
      BY Sizes
    <2>. QED
      BY <2>1, <2>2
  <1>1. ASSUME m <= a, a < m + Numbers
        PROVE  Ahead(a % Numbers, m % Numbers) = Turn(a) - Turn(m)
    <2>1. PICK q \in Nat, p \in Nat :
             /\ Turn(a) = Windows * q + Window(a % Numbers)
             /\ Turn(m) = Windows * p + Window(m % Numbers)
             /\ \/ q = p /\ m % Numbers <= a % Numbers
                \/ q = p + 1 /\ a % Numbers < m % Numbers
      BY <1>1, TurnsOf
    <2>2. CASE q = p /\ m % Numbers <= a % Numbers
      BY <1>0, <2>1, <2>2 DEF Ahead
    <2>3. CASE q = p + 1 /\ a % Numbers < m % Numbers
      <3>1. Windows * q = Windows * p + Windows
        BY <1>0, <2>3
      <3>. QED
        BY <1>0, <2>1, <2>3, <3>1 DEF Ahead
    <2>. QED
      BY <2>1, <2>2, <2>3
  <1>2. ASSUME a < m, m < a + Numbers
        PROVE  Ahead(a % Numbers, m % Numbers) = Turn(a) - Turn(m) + Windows
    <2>0. a <= m
      BY <1>2
    <2>1. PICK q \in Nat, p \in Nat :
             /\ m = Numbers * q + (m % Numbers)
             /\ a = Numbers * p + (a % Numbers)
             /\ Turn(m) = Windows * q + Window(m % Numbers)
             /\ Turn(a) = Windows * p + Window(a % Numbers)
             /\ \/ q = p /\ a % Numbers <= m % Numbers
                \/ q = p + 1 /\ m % Numbers < a % Numbers
      BY <1>2, <2>0, TurnsOf
    <2>2. CASE q = p /\ a % Numbers <= m % Numbers
      <3>1. a % Numbers # m % Numbers
        BY <1>2, <2>1, <2>2
      <3>2. a % Numbers < m % Numbers
        BY <1>0, <2>2, <3>1
      <3>. QED
        BY <1>0, <2>1, <2>2, <3>2 DEF Ahead
    <2>3. CASE q = p + 1 /\ m % Numbers < a % Numbers
      <3>1. Windows * q = Windows * p + Windows
        BY <1>0, <2>3
      <3>. QED
        BY <1>0, <2>1, <2>3, <3>1 DEF Ahead
    <2>. QED
      BY <2>1, <2>2, <2>3
  <1>. QED
    BY <1>1, <1>2

(* How far seq lies ahead of the number n.                                      *)
Away(seq, n) == (seq + Numbers - n) % Numbers

(* A number is as far away as has to be added to reach it.                    *)
LEMMA AwayIs ==
    ASSUME NEW m \in Nat, NEW s \in Sequence
    PROVE  /\ Away(s, m % Numbers) \in Nat /\ Away(s, m % Numbers) < Numbers
           /\ (m + Away(s, m % Numbers)) % Numbers = s
  <1>. DEFINE N == Numbers
              r == m % N
  <1>1. r \in 0..(N - 1) /\ N \in Nat \ {0} /\ s \in 0..(N - 1)
    BY Wraps, Sizes
  <1>2. PICK q \in Nat : m = N * q + r
    BY Wraps
  <1>. HIDE DEF r, N
  <1>3. PICK x \in Int : x = s + N - r
    BY <1>1
  <1>4. PICK d \in 0..(N - 1) : d = x % N
    BY <1>1, DivMod
  <1>5. PICK j \in Int : x = N * j + d
    BY <1>1, <1>4, DivMod
  <1>6. PICK k \in Int : k = q + 1 - j
    OBVIOUS
  <1>7. N * k = N * q + N - N * j
    BY <1>1, <1>6
  <1>8. m + d = N * k + s /\ m + d \in Int
    BY <1>1, <1>2, <1>3, <1>4, <1>5, <1>7
  <1>9. (m + d) % N = s
    BY <1>1, <1>8, Quotient
  <1>10. d = Away(s, r)
    BY <1>3, <1>4 DEF Away, N
  <1>11. d \in Nat /\ d < N
    BY <1>1, <1>4
  <1>12. N = Numbers /\ r = m % Numbers
    BY DEF r, N
  <1>. QED
    BY <1>9, <1>10, <1>11, <1>12

(* The distance of a number less than a turn ahead.                           *)
LEMMA OneAway ==
    ASSUME NEW a \in Nat, NEW m \in Nat, m <= a, a < m + Numbers
    PROVE  Away(a % Numbers, m % Numbers) = a - m
  <1>1. PICK s : s = a % Numbers
    OBVIOUS
  <1>2. s \in Sequence
    BY <1>1, Wraps
  <1>3. PICK d : d = Away(s, m % Numbers)
    OBVIOUS
  <1>4. d \in Nat /\ d < Numbers /\ (m + d) % Numbers = s
    BY <1>2, <1>3, AwayIs
  <1>5. m + d \in Nat /\ m + d < a + Numbers /\ a < (m + d) + Numbers
    BY <1>4, Sizes
  <1>6. m + d = a
    BY <1>1, <1>4, <1>5, SameNumber
  <1>. QED
    BY <1>1, <1>3, <1>4, <1>6

(* Counting back, past the wrap.                                              *)
LEMMA Minus ==
    ASSUME NEW n \in Nat, NEW k \in Nat, k <= n
    PROVE  ((n % Numbers) + Numbers - k) % Numbers = (n - k) % Numbers
  <1>. DEFINE N == Numbers
              r == n % N
              e == n - k
              s == e % N
  <1>0. e \in Nat
    OBVIOUS
  <1>1. PICK q \in Nat : n = N * q + r
    BY Wraps
  <1>2. PICK p \in Nat : e = N * p + s
    BY <1>0, Wraps
  <1>3. r \in 0..(N - 1) /\ s \in 0..(N - 1) /\ N \in Nat \ {0}
    BY <1>0, Wraps, Sizes
  <1>4. e = n - k
    OBVIOUS
  <1>. HIDE DEF r, s, N, e
  <1>. DEFINE j == p - q + 1
  <1>5. r + N - k = N * j + s /\ j \in Int /\ r + N - k \in Int
    BY <1>1, <1>2, <1>3, <1>4
  <1>. HIDE DEF j
  <1>6. (r + N - k) % N = s
    BY <1>3, <1>5, Quotient
  <1>. QED
    BY <1>6 DEF r, s, N, e

(* Counting on, past the wrap.                                                *)
LEMMA Plus ==
    ASSUME NEW n \in Nat, NEW k \in Nat
    PROVE  ((n % Numbers) + k) % Numbers = (n + k) % Numbers
  <1>. DEFINE N == Numbers
              r == n % N
              e == n + k
              s == e % N
  <1>0. e \in Nat
    OBVIOUS
  <1>1. PICK q \in Nat : n = N * q + r
    BY Wraps
  <1>2. PICK p \in Nat : e = N * p + s
    BY <1>0, Wraps
  <1>3. r \in 0..(N - 1) /\ s \in 0..(N - 1) /\ N \in Nat \ {0}
    BY <1>0, Wraps, Sizes
  <1>4. e = n + k
    OBVIOUS
  <1>. HIDE DEF r, s, N, e
  <1>. DEFINE j == p - q
  <1>5. r + k = N * j + s /\ j \in Int /\ r + k \in Int
    BY <1>1, <1>2, <1>3, <1>4
  <1>. HIDE DEF j
  <1>6. (r + k) % N = s
    BY <1>3, <1>5, Quotient
  <1>. QED
    BY <1>6 DEF r, s, N, e

--------------------------------------------------------------------------------
(* The operators on sequences.                                              *)

(* A set of numbers has a least one.                                          *)
LEMMA LeastNumber ==
    ASSUME NEW N \in SUBSET Nat, N # {}
    PROVE  \E m \in N : \A k \in N : m <= k
  <1>1. PICK m \in N : \A k \in N : ~ (<<k, m>> \in OpToRel(<, Nat))
    BY NatLessThanWellFounded, WFMin
  <1>2. \A k \in N : ~ (k < m)
    BY <1>1 DEF OpToRel
  <1>. QED
    BY <1>2

(* A bounded set of numbers has a greatest one, and Max is it.                *)
LEMMA MaxIs ==
    ASSUME NEW n \in Nat, NEW S \in SUBSET (0..n), S # {}
    PROVE  Max(S) \in S /\ \A x \in S : x <= Max(S)
  <1>. DEFINE Above == {k \in Nat : \A x \in S : x <= k}
  <1>1. n \in Above
    OBVIOUS
  <1>2. PICK m \in Above : \A k \in Above : m <= k
    <2>1. Above \in SUBSET Nat /\ Above # {}
      BY <1>1
    <2>. QED
      BY <2>1, LeastNumber
  <1>3. m \in S
    <2>1. SUFFICES ASSUME m \notin S PROVE FALSE
      OBVIOUS
    <2>2. \A x \in S : x <= m - 1
      BY <1>2, <2>1
    <2>3. m - 1 \in Nat
      <3>1. PICK x \in S : TRUE
        OBVIOUS
      <3>2. x \in Nat /\ x <= m - 1 /\ m \in Nat
        BY <1>2, <2>2, <3>1
      <3>. QED
        BY <3>2
    <2>4. m - 1 \in Above
      BY <2>2, <2>3
    <2>. QED
      BY <1>2, <2>4
  <1>4. \E x \in S : \A y \in S : x >= y
    BY <1>2, <1>3
  <1>5. Max(S) \in S /\ \A y \in S : Max(S) >= y
    BY <1>4 DEF Max
  <1>. QED
    BY <1>5

(* Picking the elements at the places I: their order is kept.                    *)
Places(t, s, I, p) ==
    /\ p \in [1..Len(t) -> I]
    /\ \A j \in 1..Len(t) : t[j] = s[p[j]]
    /\ \A j, k \in 1..Len(t) : j < k => p[j] < p[k]
    /\ \A i \in I : \E j \in 1..Len(t) : p[j] = i

(* The recursive function of Pick, up to n.                                       *)
Picking(at, s, I, n) ==
    at = [i \in 0..n |-> IF i = 0 THEN <<>>
                         ELSE IF i \in I THEN Append(at[i - 1], s[i]) ELSE at[i - 1]]

(* The recursive function of Pick exists, by the least number without a value.*)
LEMMA PickingExists ==
    ASSUME NEW s, NEW I, NEW n \in Nat
    PROVE  \E at : Picking(at, s, I, n)
  <1>. DEFINE Missing == {m \in Nat : ~(\E at : Picking(at, s, I, m))}
  <1>. SUFFICES ASSUME n \in Missing PROVE FALSE
    OBVIOUS
  <1>1. PICK m \in Missing : \A k \in Missing : m <= k
    BY LeastNumber
  <1>2. m # 0
    <2>1. Picking([i \in 0..0 |-> <<>>], s, I, 0)
      BY DEF Picking
    <2>. QED
      BY <2>1
  <1>3. m - 1 \in Nat /\ m - 1 \notin Missing
    BY <1>1, <1>2
  <1>4. PICK f : Picking(f, s, I, m - 1)
    BY <1>3
  <1>. DEFINE g == [i \in 0..m |-> IF i < m THEN f[i] ELSE IF i = 0 THEN <<>>
                                   ELSE IF i \in I THEN Append(f[i - 1], s[i]) ELSE f[i - 1]]
  <1>5. \A i \in 0..m : g[i] = IF i = 0 THEN <<>>
                               ELSE IF i \in I THEN Append(g[i - 1], s[i]) ELSE g[i - 1]
    <2>. TAKE i \in 0..m
    <2>1. CASE i < m
      <3>1. i \in 0..(m - 1) /\ i - 1 < m /\ (i # 0 => i - 1 \in 0..m)
        BY <1>1, <2>1
      <3>2. f[i] = IF i = 0 THEN <<>> ELSE IF i \in I THEN Append(f[i - 1], s[i]) ELSE f[i - 1]
        BY <1>4, <3>1 DEF Picking
      <3>. QED
        BY <2>1, <3>1, <3>2
    <2>2. CASE i = m
      <3>1. i # 0 => i - 1 \in 0..m /\ i - 1 < m
        BY <2>2
      <3>. QED
        BY <2>2, <3>1
    <2>. QED
      BY <1>1, <2>1, <2>2
  <1>6. Picking(g, s, I, m)
    BY <1>5 DEF Picking
  <1>. QED
    BY <1>6

(* Pick keeps the picked elements, in their order.                            *)
LEMMA PickPlaces ==
    ASSUME NEW S, NEW s \in Seq(S), NEW I \in SUBSET DOMAIN s
    PROVE  Pick(s, I) \in Seq(S) /\ \E p : Places(Pick(s, I), s, I, p)
  <1>0. Len(s) \in Nat /\ DOMAIN s = 1..Len(s)
    OBVIOUS
  <1>1. \E at : Picking(at, s, I, Len(s))
    BY <1>0, PickingExists
  <1>. DEFINE at == CHOOSE at : Picking(at, s, I, Len(s))
  <1>2. Picking(at, s, I, Len(s))
    BY <1>1
  <1>3. Pick(s, I) = at[Len(s)]
    BY DEF Pick, Picking
  <1>. HIDE DEF at
  <1>. DEFINE Q(i) == at[i] \in Seq(S) /\ \E p : Places(at[i], s, I \cap (1..i), p)
              Bad == {i \in 0..Len(s) : ~Q(i)}
  <1>4. SUFFICES Bad = {}
    <2>1. Len(s) \in 0..Len(s) /\ I \cap (1..Len(s)) = I
      BY <1>0
    <2>2. Q(Len(s))
      BY <1>4, <2>1
    <2>. QED
      BY <1>3, <2>1, <2>2
  <1>5. SUFFICES ASSUME Bad # {} PROVE FALSE
    OBVIOUS
  <1>6. PICK i \in Bad : \A k \in Bad : i <= k
    <2>1. Bad \in SUBSET Nat
      BY <1>0
    <2>. QED
      BY <1>5, <2>1, LeastNumber
  <1>7. i \in 0..Len(s)
    OBVIOUS
  <1>8. at[i] = IF i = 0 THEN <<>> ELSE IF i \in I THEN Append(at[i - 1], s[i]) ELSE at[i - 1]
    BY <1>2, <1>7 DEF Picking
  <1>9. i # 0
    <2>1. SUFFICES ASSUME i = 0 PROVE FALSE
      OBVIOUS
    <2>2. at[i] = <<>> /\ I \cap (1..i) = {}
      BY <1>8, <2>1
    <2>3. Places(<<>>, s, {}, <<>>)
      BY DEF Places
    <2>4. <<>> \in Seq(S)
      OBVIOUS
    <2>5. Q(i)
      BY <2>2, <2>3, <2>4
    <2>. QED
      BY <1>6, <2>5
  <1>10. i - 1 \in 0..Len(s) /\ i \in 1..Len(s) /\ i \in Nat
    BY <1>0, <1>7, <1>9
  <1>11. Q(i - 1)
    <2>1. SUFFICES ASSUME ~Q(i - 1) PROVE FALSE
      OBVIOUS
    <2>2. i - 1 \in Bad
      BY <1>10, <2>1
    <2>. HIDE DEF Bad
    <2>3. i <= i - 1
      BY <1>6, <2>2
    <2>. QED
      BY <1>10, <2>3
  <1>12. PICK p : Places(at[i - 1], s, I \cap (1..(i - 1)), p)
    BY <1>11
  <1>13. CASE i \notin I
    <2>1. I \cap (1..i) = I \cap (1..(i - 1))
      BY <1>10, <1>13
    <2>2. at[i] = at[i - 1]
      BY <1>8, <1>9, <1>13
    <2>3. Q(i)
      BY <1>11, <2>1, <2>2
    <2>. QED
      BY <1>6, <2>3
  <1>14. CASE i \in I
    <2>. DEFINE t == at[i - 1]
                u == at[i]
                n == Len(t)
                q == [j \in 1..(n + 1) |-> IF j = n + 1 THEN i ELSE p[j]]
    <2>1. u = Append(t, s[i]) /\ t \in Seq(S) /\ s[i] \in S
      BY <1>8, <1>9, <1>10, <1>11, <1>14
    <2>2. /\ u \in Seq(S) /\ n \in Nat /\ Len(u) = n + 1 /\ u[n + 1] = s[i]
          /\ \A j \in 1..n : u[j] = t[j]
      BY <2>1
    <2>3. /\ p \in [1..n -> I \cap (1..(i - 1))]
          /\ \A j \in 1..n : t[j] = s[p[j]]
          /\ \A j, k \in 1..n : j < k => p[j] < p[k]
          /\ \A k \in I \cap (1..(i - 1)) : \E j \in 1..n : p[j] = k
      BY <1>12 DEF Places
    <2>. HIDE DEF t, u, n
    <2>4. \A j \in 1..(n + 1) : j \in 1..n \/ j = n + 1
      BY <2>2
    <2>5. \A j \in 1..n : q[j] = p[j] /\ p[j] \in I \cap (1..(i - 1)) /\ p[j] \in Nat /\ p[j] < i
      BY <1>10, <2>2, <2>3
    <2>6. q[n + 1] = i /\ i \in I \cap (1..i)
      BY <1>10, <1>14, <2>2
    <2>. HIDE DEF q
    <2>7. q \in [1..(n + 1) -> I \cap (1..i)]
      <3>1. \A j \in 1..(n + 1) : q[j] \in I \cap (1..i)
        BY <1>10, <2>4, <2>5, <2>6
      <3>. QED
        BY <3>1 DEF q
    <2>8. \A j \in 1..(n + 1) : u[j] = s[q[j]]
      BY <2>2, <2>3, <2>4, <2>5, <2>6
    <2>9. \A j, k \in 1..(n + 1) : j < k => q[j] < q[k]
      <3>. SUFFICES ASSUME NEW j \in 1..(n + 1), NEW k \in 1..(n + 1), j < k PROVE q[j] < q[k]
        OBVIOUS
      <3>1. j \in 1..n
        BY <2>2
      <3>2. CASE k = n + 1
        BY <2>5, <2>6, <3>1, <3>2
      <3>3. CASE k \in 1..n
        BY <2>3, <2>5, <3>1, <3>3
      <3>. QED
        BY <2>4, <3>2, <3>3
    <2>10. \A k \in I \cap (1..i) : \E j \in 1..(n + 1) : q[j] = k
      <3>. TAKE k \in I \cap (1..i)
      <3>1. CASE k = i
        <4>1. n + 1 \in 1..(n + 1)
          BY <2>2
        <4>. QED
          BY <2>6, <3>1, <4>1
      <3>2. CASE k # i
        <4>1. k \in I \cap (1..(i - 1))
          BY <1>10, <3>2
        <4>2. PICK j \in 1..n : p[j] = k
          BY <2>3, <4>1
        <4>3. j \in 1..(n + 1)
          BY <2>2
        <4>. QED
          BY <2>5, <4>2, <4>3
      <3>. QED
        BY <3>1, <3>2
    <2>11. Places(u, s, I \cap (1..i), q)
      BY <2>2, <2>7, <2>8, <2>9, <2>10 DEF Places
    <2>12. Q(i)
      BY <2>2, <2>11 DEF u
    <2>. QED
      BY <1>6, <2>12
  <1>. QED
    BY <1>13, <1>14
(* Two sequences, one after the other.                                        *)
LEMMA Joined ==
    ASSUME NEW S, NEW s \in Seq(S), NEW t \in Seq(S)
    PROVE  /\ s \o t \in Seq(S) /\ Len(s \o t) = Len(s) + Len(t)
           /\ \A i \in 1..Len(s) : (s \o t)[i] = s[i]
           /\ \A i \in 1..Len(t) : (s \o t)[Len(s) + i] = t[i]
           /\ Len(s) \in Nat /\ Len(t) \in Nat /\ DOMAIN (s \o t) = 1..Len(s \o t)
  OBVIOUS

(* Pick keeps as many as it is told to.                                       *)
LEMMA PickLength ==
    ASSUME NEW S, NEW s \in Seq(S), NEW I \in SUBSET DOMAIN s
    PROVE  /\ IsFiniteSet(I) /\ Cardinality(I) = Len(Pick(s, I))
           /\ Cardinality(DOMAIN s \ I) = Len(s) - Cardinality(I)
  <1>1. Pick(s, I) \in Seq(S)
    BY PickPlaces
  <1>2. PICK p : Places(Pick(s, I), s, I, p)
    BY PickPlaces
  <1>3. PICK n : n = Len(Pick(s, I))
    OBVIOUS
  <1>4. n \in Nat /\ DOMAIN s = 1..Len(s) /\ Len(s) \in Nat
    BY <1>1, <1>3
  <1>5. /\ p \in [1..n -> I] /\ \A j, k \in 1..n : j < k => p[j] < p[k]
        /\ \A i \in I : \E j \in 1..n : p[j] = i
    BY <1>2, <1>3 DEF Places
  <1>6. \A i \in I : i \in Nat
    BY <1>4
  <1>7. p \in Injection(1..n, I)
    <2>1. \A j, k \in 1..n : p[j] = p[k] => j = k
      <3>. SUFFICES ASSUME NEW j \in 1..n, NEW k \in 1..n, p[j] = p[k], j # k PROVE FALSE
        OBVIOUS
      <3>1. p[j] \in Nat /\ p[k] \in Nat
        BY <1>5, <1>6
      <3>2. j < k \/ k < j
        BY <1>4
      <3>3. p[j] < p[k] \/ p[k] < p[j]
        BY <1>5, <3>2
      <3>. QED
        BY <3>1, <3>3
    <2>. QED
      BY <1>5, <2>1 DEF Injection, IsInjective
  <1>8. p \in Bijection(1..n, I)
    BY <1>5, <1>7 DEF Bijection, Surjection
  <1>9. ExistsBijection(1..n, I)
    BY <1>8 DEF ExistsBijection
  <1>10. Cardinality(I) = n
    BY <1>4, <1>9, FS_CountingElements
  <1>11. IsFiniteSet(1..Len(s)) /\ Cardinality(1..Len(s)) = Len(s)
    <2>1. Cardinality(1..Len(s)) = IF 1 > Len(s) THEN 0 ELSE Len(s) - 1 + 1
      BY <1>4, FS_Interval
    <2>. QED
      BY <1>4, <2>1, FS_Interval
  <1>12. IsFiniteSet(I)
    BY <1>4, <1>11, FS_Subset
  <1>13. Cardinality(1..Len(s) \ I) = Cardinality(1..Len(s)) - Cardinality(1..Len(s) \cap I)
    BY <1>11, FS_Difference
  <1>14. 1..Len(s) \cap I = I
    BY <1>4
  <1>. QED
    BY <1>3, <1>4, <1>10, <1>11, <1>12, <1>13, <1>14

(* other holds elements of list, each once, the j-th from the place q[j].             *)
Rearranges(other, list, q) ==
    /\ q \in [1..Len(other) -> 1..Len(list)]
    /\ \A j \in 1..Len(other) : other[j] = list[q[j]]
    /\ \A j, k \in 1..Len(other) : q[j] = q[k] => j = k

(* The places in I of the commands of window w.                                   *)
Held(list, w, I) == {i \in DOMAIN list : i \in I /\ Window(list[i].seq) = w}

(* How many commands of a list belong to a window is a number.                *)
LEMMA HeldFinite ==
    ASSUME NEW S, NEW list \in Seq(S), NEW w, NEW I
    PROVE  IsFiniteSet(Held(list, w, I)) /\ Cardinality(Held(list, w, I)) \in Nat
  <1>1. Held(list, w, I) \in SUBSET (1..Len(list)) /\ Len(list) \in Nat
    BY DEF Held
  <1>2. IsFiniteSet(1..Len(list))
    BY <1>1, FS_Interval
  <1>. QED
    BY <1>1, <1>2, FS_Subset, FS_CardinalityType

(* A rearranged list holds as many of each window.                            *)
LEMMA HeldMoved ==
    ASSUME NEW S, NEW list \in Seq(S), NEW other \in Seq(S), NEW q, Rearranges(other, list, q), NEW w,
           NEW I, \A i \in DOMAIN list : i \in I <=> \E j \in DOMAIN other : q[j] = i
    PROVE  Cardinality(Held(other, w, DOMAIN other)) = Cardinality(Held(list, w, I))
  <1>. DEFINE A == Held(other, w, DOMAIN other)
              B == Held(list, w, I)
              f == [j \in A |-> q[j]]
  <1>1. /\ DOMAIN other = 1..Len(other) /\ DOMAIN list = 1..Len(list)
        /\ \A j \in DOMAIN other : q[j] \in DOMAIN list /\ other[j] = list[q[j]]
        /\ \A j, k \in DOMAIN other : q[j] = q[k] => j = k
    BY DEF Rearranges
  <1>2. f \in [A -> B]
    BY <1>1 DEF Held
  <1>3. \A j, k \in A : f[j] = f[k] => j = k
    BY <1>1 DEF Held
  <1>4. \A i \in B : \E j \in A : f[j] = i
    <2>. TAKE i \in B
    <2>1. i \in DOMAIN list /\ i \in I /\ Window(list[i].seq) = w
      BY DEF Held
    <2>2. PICK j \in DOMAIN other : q[j] = i
      BY <2>1
    <2>3. j \in A
      BY <1>1, <2>1, <2>2 DEF Held
    <2>. QED
      BY <2>2, <2>3
  <1>5. IsFiniteSet(A)
    BY HeldFinite
  <1>. HIDE DEF f, A, B
  <1>6. ExistsBijection(A, B)
    BY <1>2, <1>3, <1>4 DEF ExistsBijection, Bijection, Injection, IsInjective, Surjection
  <1>7. Cardinality(B) = Cardinality(A)
    BY <1>5, <1>6, FS_Bijection
  <1>. QED
    BY <1>7 DEF A, B

(* other holds the elements of list at A and, counted from n, at B.               *)
Joins(other, list, A, n, B) ==
    \E q : /\ Rearranges(other, list, q)
           /\ \A i \in DOMAIN list :
                 (i \in A \/ i - n \in B) <=> \E j \in DOMAIN other : q[j] = i

(* Two picks, one after the other, hold what was picked.                      *)
LEMMA JoinedPicks ==
    ASSUME NEW S, NEW s \in Seq(S), NEW t \in Seq(S), NEW A \in SUBSET DOMAIN s, NEW B \in SUBSET DOMAIN t
    PROVE  /\ Pick(s, A) \o Pick(t, B) \in Seq(S)
           /\ Joins(Pick(s, A) \o Pick(t, B), s \o t, A, Len(s), B)
  <1>1. PICK x : x = Pick(s, A)
    OBVIOUS
  <1>2. PICK y : y = Pick(t, B)
    OBVIOUS
  <1>3. x \in Seq(S) /\ y \in Seq(S)
    BY <1>1, <1>2, PickPlaces
  <1>4. PICK p : Places(x, s, A, p)
    BY <1>1, PickPlaces
  <1>5. PICK r : Places(y, t, B, r)
    BY <1>2, PickPlaces
  <1>6. PICK m \in Nat : m = Len(x)
    BY <1>3
  <1>7. PICK n \in Nat : n = Len(y)
    BY <1>3
  <1>8. PICK l \in Nat : l = Len(s)
    OBVIOUS
  <1>9. PICK k \in Nat : k = Len(t)
    OBVIOUS
  <1>10. /\ A \subseteq 1..l /\ B \subseteq 1..k
         /\ p \in [1..m -> A] /\ \A i \in A : \E j \in 1..m : p[j] = i
         /\ \A i, j \in 1..m : i < j => p[i] < p[j]
         /\ \A j \in 1..m : x[j] = s[p[j]]
         /\ r \in [1..n -> B] /\ \A i \in B : \E j \in 1..n : r[j] = i
         /\ \A i, j \in 1..n : i < j => r[i] < r[j]
         /\ \A j \in 1..n : y[j] = t[r[j]]
    BY <1>4, <1>5, <1>6, <1>7, <1>8, <1>9 DEF Places
  <1>11. /\ x \o y \in Seq(S) /\ Len(x \o y) = m + n /\ DOMAIN (x \o y) = 1..(m + n)
         /\ \A i \in 1..m : (x \o y)[i] = x[i]
         /\ \A i \in 1..n : (x \o y)[m + i] = y[i]
    BY <1>3, <1>6, <1>7, Joined
  <1>12. /\ Len(s \o t) = l + k /\ DOMAIN (s \o t) = 1..(l + k)
         /\ \A i \in 1..l : (s \o t)[i] = s[i]
         /\ \A i \in 1..k : (s \o t)[l + i] = t[i]
    BY <1>8, <1>9, Joined
  <1>13. PICK z : z = x \o y
    OBVIOUS
  <1>14. PICK v : v = s \o t
    OBVIOUS
  <1>. DEFINE q == [j \in 1..(m + n) |-> IF j <= m THEN p[j] ELSE l + r[j - m]]
  <1>15. \A j \in 1..m : j \in 1..(m + n) /\ q[j] = p[j] /\ p[j] \in A /\ p[j] \in 1..l
    BY <1>10
  <1>16. \A j \in 1..n : m + j \in 1..(m + n) /\ q[m + j] = l + r[j] /\ r[j] \in B /\ r[j] \in 1..k
    <2>. TAKE j \in 1..n
    <2>1. m + j \in 1..(m + n) /\ ~(m + j <= m) /\ (m + j) - m = j
      OBVIOUS
    <2>2. q[m + j] = l + r[j]
      BY <2>1
    <2>. QED
      BY <1>10, <2>1, <2>2
  <1>. HIDE DEF q
  <1>17. \A j \in 1..(m + n) : j \in 1..m \/ \E i \in 1..n : j = m + i
    <2>. TAKE j \in 1..(m + n)
    <2>1. CASE j <= m
      BY <2>1
    <2>2. CASE j > m
      <3>1. j - m \in 1..n /\ j = m + (j - m)
        BY <2>2
      <3>. QED
        BY <3>1
    <2>. QED
      BY <2>1, <2>2
  <1>18. q \in [1..(m + n) -> 1..(l + k)]
    <2>1. \A j \in 1..(m + n) : q[j] \in 1..(l + k)
      <3>. TAKE j \in 1..(m + n)
      <3>1. CASE j \in 1..m
        BY <1>15, <3>1
      <3>2. ASSUME NEW i \in 1..n, j = m + i PROVE q[j] \in 1..(l + k)
        <4>1. q[j] = l + r[i] /\ r[i] \in 1..k
          BY <1>16, <3>2
        <4>2. l + r[i] \in 1..(l + k)
          BY <4>1
        <4>. QED
          BY <4>1, <4>2
      <3>. QED
        BY <1>17, <3>1, <3>2
    <2>. QED
      BY <2>1 DEF q
  <1>19. \A j \in 1..(m + n) : z[j] = v[q[j]]
    <2>. TAKE j \in 1..(m + n)
    <2>1. CASE j \in 1..m
      <3>1. z[j] = x[j] /\ x[j] = s[p[j]]
        BY <1>10, <1>11, <1>13, <2>1
      <3>2. q[j] = p[j] /\ p[j] \in 1..l
        BY <1>15, <2>1
      <3>3. v[q[j]] = s[p[j]]
        BY <1>12, <1>14, <3>2
      <3>. QED
        BY <3>1, <3>3
    <2>2. ASSUME NEW i \in 1..n, j = m + i PROVE z[j] = v[q[j]]
      <3>1. z[j] = y[i] /\ y[i] = t[r[i]]
        BY <1>10, <1>11, <1>13, <2>2
      <3>2. q[j] = l + r[i] /\ r[i] \in 1..k
        BY <1>16, <2>2
      <3>3. v[q[j]] = t[r[i]]
        BY <1>12, <1>14, <3>2
      <3>. QED
        BY <3>1, <3>3
    <2>. QED
      BY <1>17, <2>1, <2>2
  <1>20. \A i, j \in 1..m : p[i] = p[j] => i = j
    <2>. SUFFICES ASSUME NEW i \in 1..m, NEW j \in 1..m, p[i] = p[j], i # j PROVE FALSE
      OBVIOUS
    <2>1. i < j \/ j < i
      OBVIOUS
    <2>2. (p[i] < p[j] \/ p[j] < p[i]) /\ p[i] \in Int /\ p[j] \in Int
      BY <1>10, <1>15, <2>1
    <2>. QED
      BY <2>2
  <1>21. \A i, j \in 1..n : r[i] = r[j] => i = j
    <2>. SUFFICES ASSUME NEW i \in 1..n, NEW j \in 1..n, r[i] = r[j], i # j PROVE FALSE
      OBVIOUS
    <2>1. i < j \/ j < i
      OBVIOUS
    <2>2. (r[i] < r[j] \/ r[j] < r[i]) /\ r[i] \in Int /\ r[j] \in Int
      BY <1>10, <1>16, <2>1
    <2>. QED
      BY <2>2
  <1>22. \A i, j \in 1..(m + n) : q[i] = q[j] => i = j
    <2>. SUFFICES ASSUME NEW i \in 1..(m + n), NEW j \in 1..(m + n), q[i] = q[j] PROVE i = j
      OBVIOUS
    <2>1. CASE i \in 1..m /\ j \in 1..m
      BY <1>15, <1>20, <2>1
    <2>2. ASSUME NEW a \in 1..n, NEW b \in 1..n, i = m + a, j = m + b PROVE i = j
      <3>1. r[a] = r[b]
        BY <1>16, <2>2
      <3>. QED
        BY <1>21, <2>2, <3>1
    <2>3. ASSUME i \in 1..m, NEW b \in 1..n, j = m + b PROVE FALSE
      <3>1. q[i] = p[i] /\ p[i] \in 1..l /\ q[j] = l + r[b] /\ r[b] \in 1..k
        BY <1>15, <1>16, <2>3
      <3>2. p[i] = l + r[b]
        BY <3>1, q[i] = q[j]
      <3>3. \A g \in 1..l, h \in 1..k : g # l + h
        OBVIOUS
      <3>. QED
        BY <3>1, <3>2, <3>3
    <2>4. ASSUME j \in 1..m, NEW b \in 1..n, i = m + b PROVE FALSE
      <3>1. q[j] = p[j] /\ p[j] \in 1..l /\ q[i] = l + r[b] /\ r[b] \in 1..k
        BY <1>15, <1>16, <2>4
      <3>. QED
        BY <3>1
    <2>. QED
      BY <1>17, <2>1, <2>2, <2>3, <2>4
  <1>23. \A i \in 1..(l + k) : (i \in A \/ i - l \in B) <=> \E j \in 1..(m + n) : q[j] = i
    <2>. TAKE i \in 1..(l + k)
    <2>1. ASSUME i \in A PROVE \E j \in 1..(m + n) : q[j] = i
      BY <1>10, <1>15, <2>1
    <2>2. ASSUME i - l \in B PROVE \E j \in 1..(m + n) : q[j] = i
      <3>1. PICK j \in 1..n : r[j] = i - l
        BY <1>10, <2>2
      <3>2. m + j \in 1..(m + n) /\ q[m + j] = i
        BY <1>16, <3>1
      <3>. QED
        BY <3>2
    <2>3. ASSUME NEW j \in 1..(m + n), q[j] = i PROVE i \in A \/ i - l \in B
      <3>1. CASE j \in 1..m
        BY <1>15, <2>3, <3>1
      <3>2. ASSUME NEW a \in 1..n, j = m + a PROVE i - l \in B
        <4>1. i = l + r[a] /\ r[a] \in B /\ r[a] \in 1..k
          BY <1>16, <2>3, <3>2
        <4>2. i - l = r[a]
          BY <4>1
        <4>. QED
          BY <4>1, <4>2
      <3>. QED
        BY <1>17, <3>1, <3>2
    <2>. QED
      BY <2>1, <2>2, <2>3
  <1>24. Rearranges(z, v, q)
    BY <1>11, <1>12, <1>13, <1>14, <1>18, <1>19, <1>22 DEF Rearranges
  <1>25. /\ z \in Seq(S) /\ DOMAIN z = 1..(m + n) /\ DOMAIN v = 1..(l + k)
    BY <1>11, <1>12, <1>13, <1>14
  <1>26. \A i \in DOMAIN v : (i \in A \/ i - l \in B) <=> \E j \in DOMAIN z : q[j] = i
    BY <1>23, <1>25
  <1>27. Joins(z, v, A, l, B)
    BY <1>24, <1>26 DEF Joins
  <1>28. z = Pick(s, A) \o Pick(t, B) /\ v = s \o t
    BY <1>1, <1>2, <1>13, <1>14
  <1>. QED
    BY <1>8, <1>25, <1>27, <1>28

(* other holds the elements of list in another order.                             *)
Reorders(other, list) ==
    \E q : Rearranges(other, list, q) /\ \A i \in DOMAIN list : \E j \in DOMAIN other : q[j] = i

(* Elements of s, those at I, are moved to the front of t.                       *)
LEMMA MovedInFront ==
    ASSUME NEW S, NEW s \in Seq(S), NEW t \in Seq(S), NEW I \in SUBSET DOMAIN s
    PROVE  /\ Pick(s, DOMAIN s \ I) \o (Pick(s, I) \o t) \in Seq(S)
           /\ Len(Pick(s, DOMAIN s \ I)) = Len(s) - Cardinality(I)
           /\ Reorders(Pick(s, DOMAIN s \ I) \o (Pick(s, I) \o t), s \o t)
  <1>1. PICK x : x = Pick(s, DOMAIN s \ I)
    OBVIOUS
  <1>2. PICK y : y = Pick(s, I)
    OBVIOUS
  <1>3. DOMAIN s \ I \in SUBSET DOMAIN s
    OBVIOUS
  <1>4. x \in Seq(S) /\ y \in Seq(S)
    BY <1>1, <1>2, <1>3, PickPlaces
  <1>5. PICK p : Places(x, s, DOMAIN s \ I, p)
    BY <1>1, <1>3, PickPlaces
  <1>6. PICK r : Places(y, s, I, r)
    BY <1>2, PickPlaces
  <1>7. PICK m \in Nat : m = Len(x)
    BY <1>4
  <1>8. PICK n \in Nat : n = Len(y)
    BY <1>4
  <1>9. PICK k \in Nat : k = Len(t)
    OBVIOUS
  <1>10. Len(s) = m + n /\ m = Len(s) - Cardinality(I)
    <2>1. Cardinality(I) = n /\ Cardinality(DOMAIN s \ I) = Len(s) - Cardinality(I)
      BY <1>2, <1>8, PickLength
    <2>2. Cardinality(DOMAIN s \ I) = m
      BY <1>1, <1>3, <1>7, PickLength
    <2>. QED
      BY <1>7, <1>8, <2>1, <2>2
  <1>11. /\ \A j \in 1..m : p[j] \in 1..(m + n) /\ x[j] = s[p[j]]
         /\ \A j \in 1..n : r[j] \in 1..(m + n) /\ y[j] = s[r[j]]
         /\ \A i \in 1..(m + n) : i \in I => \E j \in 1..n : r[j] = i
         /\ \A i \in 1..(m + n) : i \notin I => \E j \in 1..m : p[j] = i
    <2>1. DOMAIN s = 1..(m + n)
      BY <1>10
    <2>. QED
      BY <1>5, <1>6, <1>7, <1>8, <2>1 DEF Places
  <1>12. PICK yt : yt = y \o t
    OBVIOUS
  <1>13. /\ yt \in Seq(S) /\ Len(yt) = n + k
         /\ \A i \in 1..n : yt[i] = y[i]
         /\ \A i \in 1..k : yt[n + i] = t[i]
    BY <1>4, <1>8, <1>9, <1>12, Joined
  <1>14. PICK z : z = x \o yt
    OBVIOUS
  <1>15. /\ z \in Seq(S) /\ Len(z) = m + (n + k) /\ DOMAIN z = 1..(m + (n + k))
         /\ \A i \in 1..m : z[i] = x[i]
         /\ \A i \in 1..(n + k) : z[m + i] = yt[i]
    <2>1. /\ x \o yt \in Seq(S) /\ Len(x \o yt) = Len(x) + Len(yt)
          /\ \A i \in 1..Len(x) : (x \o yt)[i] = x[i]
          /\ \A i \in 1..Len(yt) : (x \o yt)[Len(x) + i] = yt[i]
          /\ DOMAIN (x \o yt) = 1..Len(x \o yt)
      <3>1. x \in Seq(S) /\ yt \in Seq(S)
        BY <1>4, <1>13
      <3>. QED
        BY <3>1, Joined
    <2>. QED
      BY <1>7, <1>13, <1>14, <2>1
  <1>16. PICK v : v = s \o t
    OBVIOUS
  <1>17. /\ Len(v) = (m + n) + k /\ DOMAIN v = 1..((m + n) + k)
         /\ \A i \in 1..(m + n) : v[i] = s[i]
         /\ \A i \in 1..k : v[(m + n) + i] = t[i]
    <2>1. /\ Len(s \o t) = Len(s) + Len(t)
          /\ \A i \in 1..Len(s) : (s \o t)[i] = s[i]
          /\ \A i \in 1..Len(t) : (s \o t)[Len(s) + i] = t[i]
          /\ DOMAIN (s \o t) = 1..Len(s \o t)
      BY Joined
    <2>. QED
      BY <1>9, <1>10, <1>16, <2>1
  <1>. DEFINE q == [j \in 1..(m + n + k) |-> IF j <= m THEN p[j]
                                             ELSE IF j <= m + n THEN r[j - m] ELSE j]
  <1>18. \A j \in 1..m : j \in 1..(m + n + k) /\ q[j] = p[j]
    OBVIOUS
  <1>19. \A j \in 1..n : m + j \in 1..(m + n + k) /\ q[m + j] = r[j]
    <2>. TAKE j \in 1..n
    <2>1. m + j \in 1..(m + n + k) /\ ~(m + j <= m) /\ m + j <= m + n /\ (m + j) - m = j
      OBVIOUS
    <2>. QED
      BY <2>1
  <1>20. \A j \in 1..k : m + n + j \in 1..(m + n + k) /\ q[m + n + j] = m + n + j
    OBVIOUS
  <1>. HIDE DEF q
  <1>21. \A j \in 1..(m + n + k) : \/ j \in 1..m
                                   \/ \E i \in 1..n : j = m + i
                                   \/ \E i \in 1..k : j = m + n + i
    <2>. TAKE j \in 1..(m + n + k)
    <2>1. CASE j <= m
      BY <2>1
    <2>2. CASE j > m /\ j <= m + n
      <3>1. j - m \in 1..n /\ j = m + (j - m)
        BY <2>2
      <3>. QED
        BY <3>1
    <2>3. CASE j > m + n
      <3>1. j - m - n \in 1..k /\ j = m + n + (j - m - n)
        BY <2>3
      <3>. QED
        BY <3>1
    <2>. QED
      BY <2>1, <2>2, <2>3
  <1>22. \A j \in 1..(m + n + k) : q[j] \in 1..(m + n + k) /\ z[j] = v[q[j]]
    <2>. TAKE j \in 1..(m + n + k)
    <2>1. CASE j \in 1..m
      <3>1. q[j] = p[j] /\ p[j] \in 1..(m + n) /\ z[j] = s[p[j]]
        BY <1>11, <1>15, <1>18, <2>1
      <3>2. v[p[j]] = s[p[j]]
        BY <1>17, <3>1
      <3>3. p[j] \in 1..(m + n + k)
        BY <3>1
      <3>. QED
        BY <3>1, <3>2, <3>3
    <2>2. ASSUME NEW i \in 1..n, j = m + i PROVE q[j] \in 1..(m + n + k) /\ z[j] = v[q[j]]
      <3>1. q[j] = r[i] /\ r[i] \in 1..(m + n) /\ y[i] = s[r[i]]
        BY <1>11, <1>19, <2>2
      <3>2. i \in 1..(n + k)
        OBVIOUS
      <3>3. z[j] = y[i]
        BY <1>13, <1>15, <2>2, <3>2
      <3>4. v[r[i]] = s[r[i]]
        BY <1>17, <3>1
      <3>5. r[i] \in 1..(m + n + k)
        BY <3>1
      <3>. QED
        BY <3>1, <3>3, <3>4, <3>5
    <2>3. ASSUME NEW i \in 1..k, j = m + n + i PROVE q[j] \in 1..(m + n + k) /\ z[j] = v[q[j]]
      <3>0. q[m + n + i] = m + n + i
        BY <1>20
      <3>1. q[j] = (m + n) + i /\ n + i \in 1..(n + k) /\ j = m + (n + i)
        BY <2>3, <3>0
      <3>2. z[j] = t[i]
        BY <1>13, <1>15, <3>1
      <3>3. v[(m + n) + i] = t[i]
        BY <1>17
      <3>. QED
        BY <2>3, <3>1, <3>2, <3>3
    <2>. QED
      BY <1>21, <2>1, <2>2, <2>3
  <1>23. \A i \in 1..(m + n + k) : \E j \in 1..(m + n + k) : q[j] = i
    <2>. TAKE i \in 1..(m + n + k)
    <2>1. CASE i \in 1..(m + n) /\ i \in I
      <3>1. PICK j \in 1..n : r[j] = i
        BY <1>11, <2>1
      <3>. QED
        BY <1>19, <3>1
    <2>2. CASE i \in 1..(m + n) /\ i \notin I
      <3>1. PICK j \in 1..m : p[j] = i
        BY <1>11, <2>2
      <3>. QED
        BY <1>18, <3>1
    <2>3. CASE i \notin 1..(m + n)
      <3>1. i - m - n \in 1..k /\ i = m + n + (i - m - n)
        BY <2>3
      <3>2. q[i] = i
        BY <1>20, <3>1
      <3>. QED
        BY <3>2
    <2>. QED
      BY <2>1, <2>2, <2>3
  <1>24. q \in Surjection(1..(m + n + k), 1..(m + n + k))
    <2>1. q \in [1..(m + n + k) -> 1..(m + n + k)]
      BY <1>22 DEF q
    <2>. QED
      BY <1>23, <2>1 DEF Surjection
  <1>25. q \in Injection(1..(m + n + k), 1..(m + n + k))
    <2>1. IsFiniteSet(1..(m + n + k))
      BY FS_Interval
    <2>. QED
      BY <1>24, <2>1, FS_SurjSameCardinalityImpliesInj
  <1>26. /\ q \in [1..(m + n + k) -> 1..(m + n + k)]
         /\ \A i, j \in 1..(m + n + k) : q[i] = q[j] => i = j
    BY <1>25 DEF Injection, IsInjective
  <1>27. m + (n + k) = m + n + k
    OBVIOUS
  <1>28. Rearranges(z, v, q) /\ \A i \in DOMAIN v : \E j \in DOMAIN z : q[j] = i
    BY <1>15, <1>17, <1>22, <1>23, <1>26, <1>27 DEF Rearranges
  <1>29. z = Pick(s, DOMAIN s \ I) \o (Pick(s, I) \o t) /\ v = s \o t
    BY <1>1, <1>2, <1>12, <1>14, <1>16
  <1>30. Reorders(z, v)
    BY <1>28 DEF Reorders
  <1>. QED
    BY <1>1, <1>7, <1>10, <1>15, <1>29, <1>30

--------------------------------------------------------------------------------
(* The inductive invariant.  Numbers are compared as they would be had they not   *)
(* wrapped: m is where the receiver is.                                        *)

(* A packet as the program sends it, one as it was sent, and a command.           *)
Kind == [reliable : BOOLEAN, fragments : 1..WindowSize]
Kept == [reliable : BOOLEAN, fragments : 1..WindowSize, after : Nat, number : 0..LastUnreliable]
Command == [packet : Nat, part : Nat, fragments : Nat, reliable : BOOLEAN,
            seq : Sequence, unreliable : 0..LastUnreliable]

(* The packets' numbers follow each other.                                     *)
Ending(p) == packets[p].after + Width(packets[p])
(* A number after which a reliable packet begins, or will begin.                  *)
Boundary(n) ==
    n = Numbered \/ \E p \in DOMAIN packets : packets[p].reliable /\ packets[p].after = n

(* The order of packets, by the reliable number they end with, then the unreliable one.  *)
Earlier(p, q) ==
    \/ Ending(p) < Ending(q)
    \/ Ending(p) = Ending(q) /\ packets[p].number < packets[q].number

(* Packets lie behind each other and leave no number out.                         *)
PacketsInv ==
    /\ plan \in Seq(Kind) /\ packets \in Seq(Kept)
    /\ Numbered \in Nat /\ outgoingReliableSequenceNumber = Numbered % Numbers
    /\ outgoingUnreliableSequenceNumber \in 0..LastUnreliable
    /\ \A p \in DOMAIN packets : Ending(p) <= Numbered
    /\ \A p, q \in DOMAIN packets : p < q => Ending(p) <= packets[q].after
    /\ \A p \in DOMAIN packets : packets[p].reliable => Boundary(Ending(p))
    /\ \A p \in DOMAIN packets : packets[p].reliable <=> packets[p].number = 0
    /\ \A p \in DOMAIN packets :
          Ending(p) = Numbered => packets[p].number <= outgoingUnreliableSequenceNumber
    /\ \A p, q \in DOMAIN packets : p < q => Earlier(p, q)

(* A command is what CommandsOf made it.                                        *)
Legit(c) ==
    /\ c \in Command
    /\ c.packet \in DOMAIN packets
    /\ c.fragments = packets[c.packet].fragments
    /\ c.reliable = packets[c.packet].reliable
    /\ c.part \in 0..(c.fragments - 1)
    /\ c.unreliable = packets[c.packet].number
    /\ c.seq = Absolute(c) % Numbers

(* What waits to be sent is next in line; what was sent and is not acknowledged is     *)
(* sent once, and lies in the windows that the receiver can tell apart.         *)
Waiting(list) == \A i \in DOMAIN list :
    /\ Legit(list[i]) /\ list[i].reliable
    /\ Absolute(list[i]) = LastSent + i

(* Sent and unanswered, and not so long ago that its number would come again.     *)
InReach(c) ==
    /\ Legit(c) /\ c.reliable
    /\ Absolute(c) <= LastSent
    /\ Turn(LastSent) <= Turn(Absolute(c)) + (Windows - FreeWindows - 2)

(* No command is kept twice.                                                      *)
Unanswered(list) ==
    /\ \A i \in DOMAIN list : InReach(list[i])
    /\ \A i, j \in DOMAIN list : Absolute(list[i]) = Absolute(list[j]) => i = j

(* The sending peer's queues.                                                     *)
SenderInv ==
    /\ {sentReliableCommands, resend, outgoing} \subseteq Seq(Command)
    /\ LastSent \in Nat
    /\ Waiting(outgoing) /\ Unanswered(Unacknowledged)

(* What holds it back.                                                            *)
CountersInv ==
    /\ CountersMatch
    /\ reliableDataInTransit <= MaxInTransit
    /\ reliableWindows \in [0..(Windows - 1) -> Nat]

(* What is under way was sent, and what is acknowledged was received.                  *)
OnWire(d) ==
    /\ d \in {Send(d.command), Acknowledge(d.command)}
    /\ Legit(d.command)
    /\ d.command.reliable => Absolute(d.command) <= LastSent
    /\ d.type = "acknowledge" =>
          d.command.reliable /\ Received(d.command.packet, d.command.part)

(* The network.                                                                   *)
WireInv == Fresh /\ \A d \in wire : OnWire(d)

(* The receiver's queues.                                                      *)
Queued == [seq : Sequence, unreliable : 0..LastUnreliable, fragments : Nat,
           fragmentsRemaining : Int, parts : SUBSET (Nat \X Nat)]

(* The packet of which an entry holds parts.                                      *)
Of(e) == (CHOOSE part \in e.parts : TRUE)[2]

(* Entry e holds parts of packet p, which the receiver at m waits for.            *)
Assembles(e, p, m) ==
    /\ e \in Queued
    /\ p \in DOMAIN packets /\ packets[p].reliable
    /\ m <= packets[p].after
    /\ Turn(packets[p].after + 1) <= Turn(m) + (FreeWindows - 2)
    /\ e.seq = (packets[p].after + 1) % Numbers /\ e.unreliable = 0
    /\ e.fragments = packets[p].fragments
    /\ e.parts # {} /\ e.parts \subseteq {<<k, p>> : k \in 0..(e.fragments - 1)}
    /\ e.fragmentsRemaining = e.fragments - Cardinality(e.parts)
    /\ \A part \in e.parts : packets[p].after + part[1] + 1 <= LastSent

(* The reliable queue: packets, each once, in the order they were sent.           *)
InRow(list, m) ==
    /\ list \in Seq(Queued)
    /\ \A i \in DOMAIN list : Assembles(list[i], Of(list[i]), m)
    /\ \A i, j \in DOMAIN list : i < j => Of(list[i]) < Of(list[j])

(* The next packet in line is not complete, or it would have been dispatched.     *)
FirstWaits(list, m) ==
    list # <<>> => ~ (Complete(list[1]) /\ packets[Of(list[1])].after = m)

(* The order of the queues, for a receiver at n.                                  *)
Precedes(x, e, n) == \/ Away(x.seq, n) < Away(e.seq, n)
                     \/ x.seq = e.seq /\ x.unreliable < e.unreliable

(* Entry e holds parts of an unreliable packet p that the receiver, at reliable number m   *)
(* and at unreliable number u after it, has not gone past.                          *)
Hinted(e, p, m, u) ==
    /\ e \in Queued
    /\ p \in DOMAIN packets /\ ~ packets[p].reliable
    /\ m <= packets[p].after
    /\ Turn(packets[p].after) <= Turn(m) + (FreeWindows - 2)
    /\ packets[p].after = m => u < packets[p].number
    /\ e.seq = packets[p].after % Numbers /\ e.unreliable = packets[p].number
    /\ e.fragments = packets[p].fragments
    /\ e.parts # {} /\ e.parts \subseteq {<<k, p>> : k \in 0..(e.fragments - 1)}
    /\ e.fragmentsRemaining = e.fragments - Cardinality(e.parts)

(* The unreliable queue.                                                          *)
Hints(list, m, u) ==
    /\ list \in Seq(Queued)
    /\ \A i \in DOMAIN list : Hinted(list[i], Of(list[i]), m, u)
    /\ \A i, j \in DOMAIN list : i < j => Precedes(list[i], list[j], m % Numbers)

(* Packets that the receiver gave out: in the order they were sent, and none beyond the     *)
(* reliable number m and the unreliable number u after it.                          *)
GivenInOrder(s, m, u) ==
    /\ s \in Seq(Nat)
    /\ \A i \in DOMAIN s :
          /\ s[i] \in DOMAIN packets
          /\ Ending(s[i]) < m \/ (Ending(s[i]) = m /\ packets[s[i]].number <= u)
    /\ \A i, j \in DOMAIN s : i < j => s[i] < s[j]

(* What was delivered.                                                            *)
IsDelivered(p) == \E i \in DOMAIN delivered : delivered[i] = p

(* The receiver at m, the number it would have had numbers never wrapped: the reliable*)
(* packets before m are delivered, the others are not, and m is between two packets.*)
ReceiverInv(m) ==
    /\ m \in Nat /\ m <= LastSent /\ Boundary(m)
    /\ incomingReliableSequenceNumber = m % Numbers
    /\ incomingUnreliableSequenceNumber \in 0..LastUnreliable
    /\ GivenInOrder(delivered, m, incomingUnreliableSequenceNumber)
    /\ \A p \in DOMAIN packets :
          packets[p].reliable => (IsDelivered(p) <=> packets[p].after < m)
    /\ InRow(incomingReliableCommands, m)
    /\ FirstWaits(incomingReliableCommands, m)
    /\ Hints(incomingUnreliableCommands, m, incomingUnreliableSequenceNumber)

(* The inductive invariant.                                                       *)
IInv == /\ PacketsInv /\ SenderInv /\ CountersInv /\ WireInv
        /\ NothingAcknowledgedIsLost
        /\ \E m \in Nat : ReceiverInv(m)


--------------------------------------------------------------------------------
(* Packets and their commands.                                              *)

(* The types of a packet.                                                     *)
LEMMA PacketIs ==
    ASSUME PacketsInv, NEW p \in DOMAIN packets
    PROVE  /\ Len(packets) \in Nat /\ p \in 1..Len(packets) /\ p \in Nat
           /\ packets[p] \in Kept /\ packets[p].after \in Nat /\ packets[p].reliable \in BOOLEAN
           /\ packets[p].fragments \in Nat \ {0} /\ packets[p].fragments <= WindowSize
           /\ Ending(p) \in Nat /\ packets[p].after <= Ending(p) /\ Ending(p) <= Numbered
           /\ packets[p].reliable => Ending(p) = packets[p].after + packets[p].fragments
           /\ ~ packets[p].reliable => Ending(p) = packets[p].after
           /\ packets[p].number \in 0..LastUnreliable /\ packets[p].number \in Nat
           /\ packets[p].reliable <=> packets[p].number = 0
  <1>1. /\ packets \in Seq(Kept) /\ Ending(p) <= Numbered
        /\ packets[p].reliable <=> packets[p].number = 0
    BY DEF PacketsInv
  <1>2. Len(packets) \in Nat /\ p \in 1..Len(packets) /\ packets[p] \in Kept
    BY <1>1
  <1>. QED
    BY <1>1, <1>2, Sizes DEF Kept, Ending, Width

(* Packets are in the order of their numbers.                                  *)
LEMMA EarlierIs ==
    ASSUME PacketsInv, NEW p \in DOMAIN packets, NEW q \in DOMAIN packets
    PROVE  p < q <=> Earlier(p, q)
  <1>1. /\ p \in Nat /\ Ending(p) \in Nat /\ packets[p].number \in Nat
        /\ q \in Nat /\ Ending(q) \in Nat /\ packets[q].number \in Nat
    BY PacketIs, Sizes
  <1>2. (p < q => Earlier(p, q)) /\ (q < p => Earlier(q, p))
    BY DEF PacketsInv
  <1>3. ~ (Earlier(p, q) /\ Earlier(q, p)) /\ ~ Earlier(p, p)
    BY <1>1 DEF Earlier
  <1>4. p < q \/ q < p \/ p = q
    BY <1>1
  <1>. QED
    BY <1>2, <1>3, <1>4

(* A number belongs to one packet, and to one place in it.                    *)
LEMMA OnePacket ==
    ASSUME PacketsInv, NEW p \in DOMAIN packets, NEW q \in DOMAIN packets,
           packets[p].reliable, packets[q].reliable,
           NEW j \in Nat, NEW k \in Nat, j < packets[p].fragments, k < packets[q].fragments,
           packets[p].after + j = packets[q].after + k
    PROVE  p = q /\ j = k
  <1>1. /\ p \in Nat /\ Ending(p) = packets[p].after + packets[p].fragments
        /\ q \in Nat /\ Ending(q) = packets[q].after + packets[q].fragments
        /\ packets[p].after \in Nat /\ packets[q].after \in Nat
        /\ packets[p].fragments \in Nat /\ packets[q].fragments \in Nat
    BY PacketIs
  <1>2. p < q => Ending(p) <= packets[q].after
    BY DEF PacketsInv
  <1>3. q < p => Ending(q) <= packets[p].after
    BY DEF PacketsInv
  <1>4. ~(p < q) /\ ~(q < p)
    BY <1>1, <1>2, <1>3
  <1>5. p = q
    BY <1>1, <1>4
  <1>. QED
    BY <1>1, <1>5

(* The types of a command, and its number before it wrapped.                  *)
LEMMA CommandIs ==
    ASSUME PacketsInv, NEW c, Legit(c)
    PROVE  /\ c.packet \in DOMAIN packets /\ c.part \in Nat /\ c.part < packets[c.packet].fragments
           /\ c.seq = Absolute(c) % Numbers /\ Absolute(c) \in Nat /\ Absolute(c) <= Numbered
           /\ c.reliable = packets[c.packet].reliable /\ c.fragments = packets[c.packet].fragments
           /\ c.reliable => /\ Absolute(c) = packets[c.packet].after + c.part + 1
                            /\ c.unreliable = 0
           /\ ~ c.reliable => Absolute(c) = packets[c.packet].after
           /\ c.unreliable = packets[c.packet].number
           /\ c \in Command /\ c.reliable \in BOOLEAN
  <1>1. /\ c.packet \in DOMAIN packets /\ c.part \in 0..(c.fragments - 1)
        /\ c.seq = Absolute(c) % Numbers /\ c \in Command
        /\ c.reliable = packets[c.packet].reliable /\ c.fragments = packets[c.packet].fragments
        /\ c.unreliable = packets[c.packet].number
        /\ c.reliable => c.unreliable = 0
    <2>1. Legit(c) /\ c.packet \in DOMAIN packets
      BY DEF Legit
    <2>. QED
      BY <2>1, PacketIs DEF Legit
  <1>2. /\ packets[c.packet].after \in Nat /\ packets[c.packet].fragments \in Nat
        /\ packets[c.packet].reliable \in BOOLEAN /\ packets[c.packet].after <= Numbered
        /\ packets[c.packet].reliable =>
              packets[c.packet].after + packets[c.packet].fragments <= Numbered
        /\ Numbered \in Nat
    BY <1>1, PacketIs DEF PacketsInv
  <1>3. c.part \in Nat /\ c.part < packets[c.packet].fragments
    BY <1>1, <1>2
  <1>4. CASE c.reliable
    <2>1. Absolute(c) = packets[c.packet].after + (c.part + 1)
      BY <1>4 DEF Absolute
    <2>2. packets[c.packet].after + packets[c.packet].fragments <= Numbered
      BY <1>1, <1>2, <1>4
    <2>3. /\ Absolute(c) = packets[c.packet].after + c.part + 1
          /\ Absolute(c) \in Nat /\ Absolute(c) <= Numbered
      BY <1>2, <1>3, <2>1, <2>2
    <2>. QED
      BY <1>1, <1>2, <1>3, <1>4, <2>3
  <1>5. CASE ~ c.reliable
    <2>1. Absolute(c) = packets[c.packet].after
      BY <1>2, <1>5 DEF Absolute
    <2>. QED
      BY <1>1, <1>2, <1>3, <1>5, <2>1
  <1>. QED
    BY <1>4, <1>5

(* Two commands with one number are one command.                              *)
LEMMA SameCommand ==
    ASSUME PacketsInv, NEW c, NEW d, Legit(c), Legit(d), c.reliable, d.reliable,
           Absolute(c) = Absolute(d)
    PROVE  c.packet = d.packet /\ c.part = d.part /\ c = d
  <1>1. /\ c.packet \in DOMAIN packets /\ c.part \in Nat /\ c.part < packets[c.packet].fragments
        /\ Absolute(c) = packets[c.packet].after + c.part + 1
        /\ d.packet \in DOMAIN packets /\ d.part \in Nat /\ d.part < packets[d.packet].fragments
        /\ Absolute(d) = packets[d.packet].after + d.part + 1
        /\ packets[c.packet].reliable /\ packets[d.packet].reliable
    BY CommandIs
  <1>2. packets[c.packet].after + c.part = packets[d.packet].after + d.part
    <2>1. packets[c.packet].after \in Nat /\ packets[d.packet].after \in Nat
      BY <1>1, PacketIs
    <2>2. packets[c.packet].after + c.part + 1 = packets[d.packet].after + d.part + 1
      BY <1>1
    <2>3. c.part \in Nat /\ d.part \in Nat
      BY <1>1
    <2>. QED
      BY <2>1, <2>2, <2>3
  <1>3. c.packet = d.packet /\ c.part = d.part
    BY <1>1, <1>2, OnePacket
  <1>4. /\ c.seq = d.seq /\ c.unreliable = d.unreliable /\ c.fragments = d.fragments
        /\ c.reliable = d.reliable /\ c \in Command /\ d \in Command
    BY <1>3, CommandIs
  <1>. QED
    BY <1>3, <1>4 DEF Command

(* The number of a packet is that of its first command.                          *)
LEMMA NumberIs ==
    ASSUME PacketsInv, NEW c, Legit(c)
    PROVE  /\ c.reliable => Number(c) = (packets[c.packet].after + 1) % Numbers
           /\ ~ c.reliable => Number(c) = Absolute(c) % Numbers
  <1>1. CASE c.reliable
    <2>1. /\ c.part \in Nat /\ Absolute(c) \in Nat /\ packets[c.packet].after \in Nat
          /\ c.seq = Absolute(c) % Numbers /\ Absolute(c) = packets[c.packet].after + c.part + 1
      BY <1>1, CommandIs, PacketIs
    <2>2. ((Absolute(c) % Numbers) + Numbers - c.part) % Numbers = (Absolute(c) - c.part) % Numbers
      BY <2>1, Minus
    <2>3. Absolute(c) - c.part = packets[c.packet].after + 1
      BY <2>1
    <2>. QED
      BY <1>1, <2>1, <2>2, <2>3 DEF Number
  <1>2. CASE ~ c.reliable
    BY <1>2, CommandIs DEF Number
  <1>. QED
    BY <1>1, <1>2

--------------------------------------------------------------------------------
(* The channel starts.                                                       *)

(* Nothing was sent, and the receiver is where the sender is.                 *)
LEMMA InitHolds == ChannelInit => IInv
  <1>. SUFFICES ASSUME ChannelInit PROVE IInv
    OBVIOUS
  <1>. DEFINE m == incomingReliableSequenceNumber
  <1>1. /\ packets = <<>> /\ resend = <<>> /\ outgoing = <<>> /\ sentReliableCommands = <<>>
        /\ plan \in Plans /\ wire = {} /\ delivered = <<>>
        /\ incomingReliableCommands = <<>> /\ incomingUnreliableCommands = <<>>
        /\ outgoingUnreliableSequenceNumber = 0 /\ incomingUnreliableSequenceNumber = 0
        /\ reliableDataInTransit = 0 /\ reliableWindows = [w \in 0..(Windows - 1) |-> 0]
        /\ m \in Sequence /\ outgoingReliableSequenceNumber = m
    BY ChannelAssumption DEF ChannelInit
  <1>2. Unacknowledged = <<>>
    BY <1>1 DEF Unacknowledged
  <1>3. m % Numbers = m /\ m \in Nat
    <2>1. m \in 0..(Numbers - 1) /\ m \in Int /\ 0 \in Int /\ m = Numbers * 0 + m /\ Numbers \in Nat \ {0}
      BY <1>1, Sizes
    <2>. HIDE DEF m
    <2>. QED
      BY <2>1, Quotient
  <1>4. Len(<<>>) = 0 /\ DOMAIN <<>> = {} /\ Numbered = m /\ LastSent = m
    <2>1. Len(<<>>) = 0 /\ DOMAIN <<>> = {} /\ Numbered = m
      BY <1>1 DEF Numbered
    <2>. QED
      BY <1>1, <1>3, <2>1 DEF LastSent
  <1>5. PacketsInv
    <2>1. plan \in Seq(Kind) /\ packets \in Seq(Kept)
      <3>1. Plans \subseteq Seq(Kind)
        BY ChannelAssumption DEF Kind
      <3>2. <<>> \in Seq(Kept)
        OBVIOUS
      <3>. QED
        BY <1>1, <3>1, <3>2
    <2>2. outgoingUnreliableSequenceNumber \in 0..LastUnreliable
      BY <1>1, Sizes
    <2>. QED
      BY <1>1, <1>3, <1>4, <2>1, <2>2 DEF PacketsInv
  <1>6. SenderInv
    <2>1. {sentReliableCommands, resend, outgoing} \subseteq Seq(Command)
      BY <1>1
    <2>. QED
      BY <1>1, <1>2, <1>3, <1>4, <2>1 DEF SenderInv, Waiting, Unanswered
  <1>7. CountersInv
    <2>1. \A w \in 0..(Windows - 1) :
             {i \in DOMAIN Unacknowledged : Window(Unacknowledged[i].seq) = w} = {}
      BY <1>2, <1>4
    <2>2. CountersMatch
      BY <1>1, <1>4, <2>1, FS_EmptySet DEF CountersMatch
    <2>. QED
      BY <1>1, <2>2, Sizes DEF CountersInv
  <1>8. WireInv
    BY <1>1, <1>4, Sizes DEF WireInv, Fresh
  <1>9. NothingAcknowledgedIsLost
    BY <1>1, <1>4 DEF NothingAcknowledgedIsLost
  <1>10. ReceiverInv(m)
    <2>1. Boundary(m)
      BY <1>4 DEF Boundary
    <2>2. /\ InRow(<<>>, m) /\ FirstWaits(<<>>, m) /\ Hints(<<>>, m, 0)
          /\ GivenInOrder(<<>>, m, 0)
      BY <1>4 DEF InRow, Hints, FirstWaits, GivenInOrder
    <2>. QED
      BY <1>1, <1>3, <1>4, <2>1, <2>2, Sizes DEF ReceiverInv
  <1>. QED
    BY <1>3, <1>5, <1>6, <1>7, <1>8, <1>9, <1>10 DEF IInv

--------------------------------------------------------------------------------
(* A packet is queued.                                                      *)

(* One packet is queued: enet_peer_send of a given kind.                          *)
Queues(kind) ==
    /\ kind \in Kind
    /\ packets' = Append(packets, [reliable |-> kind.reliable, fragments |-> kind.fragments,
                                   after |-> Numbered, number |-> UnreliableNumber(kind)])
    /\ IF kind.reliable THEN SetupReliable(kind) ELSE SetupUnreliable(kind)
    /\ ~ kind.reliable => outgoingUnreliableSequenceNumber < LastUnreliable
    /\ plan' \in Seq(Kind)
    /\ UNCHANGED <<resend, sentReliableCommands, reliableWindows, reliableDataInTransit, receiver>>

(* What enet_peer_send does with one kind of packet.                          *)
LEMMA SendQueues ==
    ASSUME PacketsInv, enet_peer_send
    PROVE  \E kind : Queues(kind)
  <1>. DEFINE kind == [Head(plan) EXCEPT !.reliable =
                          @ \/ outgoingUnreliableSequenceNumber >= LastUnreliable]
  <1>1. Head(plan) \in Kind /\ Tail(plan) \in Seq(Kind)
    <2>1. plan \in Seq(Kind) /\ plan # <<>>
      BY DEF PacketsInv, enet_peer_send
    <2>. QED
      BY <2>1
  <1>2. /\ kind \in Kind
        /\ kind.reliable = (Head(plan).reliable \/ outgoingUnreliableSequenceNumber >= LastUnreliable)
    BY <1>1 DEF Kind
  <1>3. ~ kind.reliable => outgoingUnreliableSequenceNumber < LastUnreliable
    <2>1. outgoingUnreliableSequenceNumber \in Nat /\ LastUnreliable \in Nat
      BY Sizes DEF PacketsInv
    <2>2. ~ kind.reliable => ~ (outgoingUnreliableSequenceNumber >= LastUnreliable)
      BY <1>2, Zenon
    <2>. QED
      BY <2>1, <2>2
  <1>4. /\ packets' = Append(packets, [reliable |-> kind.reliable, fragments |-> kind.fragments,
                                       after |-> Numbered, number |-> UnreliableNumber(kind)])
        /\ IF kind.reliable THEN SetupReliable(kind) ELSE SetupUnreliable(kind)
        /\ plan' = Tail(plan)
        /\ UNCHANGED <<resend, sentReliableCommands, reliableWindows, reliableDataInTransit, receiver>>
    BY DEF enet_peer_send
  <1>. HIDE DEF kind
  <1>5. Queues(kind)
    BY <1>1, <1>2, <1>3, <1>4 DEF Queues
  <1>. QED
    BY <1>5

(* Where the new packet is, and where the numbers are after it.               *)
LEMMA QueuedPacket ==
    ASSUME PacketsInv, NEW kind, Queues(kind)
    PROVE  LET n == Len(packets) + 1
           IN  /\ n \in Nat \ {0} /\ DOMAIN packets = 1..(n - 1)
               /\ Len(packets') = n /\ DOMAIN packets' = 1..n
               /\ packets' \in Seq(Kept)
               /\ \A p \in DOMAIN packets : p \in DOMAIN packets' /\ packets'[p] = packets[p]
               /\ packets'[n].reliable = kind.reliable /\ packets'[n].fragments = kind.fragments
               /\ packets'[n].after = Numbered /\ packets'[n].number = UnreliableNumber(kind)
               /\ kind.fragments \in Nat \ {0} /\ kind.fragments <= WindowSize
               /\ kind.reliable \in BOOLEAN
               /\ Numbered' = Numbered + Width(kind)
               /\ UnreliableNumber(kind) \in 0..LastUnreliable
               /\ kind.reliable <=> UnreliableNumber(kind) = 0
  <1>. DEFINE n == Len(packets) + 1
              new == [reliable |-> kind.reliable, fragments |-> kind.fragments, after |-> Numbered,
                      number |-> UnreliableNumber(kind)]
  <1>1. /\ packets \in Seq(Kept) /\ Numbered \in Nat
        /\ outgoingUnreliableSequenceNumber \in 0..LastUnreliable
    BY DEF PacketsInv
  <1>2. kind \in Kind /\ packets' = Append(packets, new)
    BY DEF Queues
  <1>6. /\ UnreliableNumber(kind) \in 0..LastUnreliable
        /\ kind.reliable <=> UnreliableNumber(kind) = 0
    <2>1. ~ kind.reliable => outgoingUnreliableSequenceNumber < LastUnreliable
      BY DEF Queues
    <2>. QED
      BY <1>1, <2>1, Sizes DEF UnreliableNumber
  <1>3. /\ new \in Kept /\ kind.reliable \in BOOLEAN /\ kind.fragments \in Nat \ {0}
        /\ kind.fragments <= WindowSize
    BY <1>1, <1>2, <1>6, Sizes DEF Kind, Kept
  <1>4. /\ n \in Nat \ {0} /\ DOMAIN packets = 1..(n - 1)
        /\ packets' \in Seq(Kept) /\ Len(packets') = n /\ DOMAIN packets' = 1..n
        /\ packets'[n] = new
        /\ \A p \in DOMAIN packets : p \in DOMAIN packets' /\ packets'[p] = packets[p]
    <2>. HIDE DEF new
    <2>. QED
      BY <1>1, <1>2, <1>3
  <1>5. Numbered' = Numbered + Width(kind)
    <2>1. packets' # <<>>
      BY <1>4
    <2>2. Numbered' = packets'[n].after + Width(packets'[n])
      BY <1>4, <2>1 DEF Numbered
    <2>3. packets'[n].after = Numbered /\ Width(packets'[n]) = Width(kind)
      BY <1>4 DEF Width
    <2>. QED
      BY <2>2, <2>3
  <1>. QED
    BY <1>3, <1>4, <1>5, <1>6

(* The packets' numbers still follow each other.                              *)
LEMMA QueuedPackets ==
    ASSUME PacketsInv, NEW kind, Queues(kind)
    PROVE  /\ PacketsInv'
           /\ \A n \in Nat : Boundary(n) => Boundary(n)'
           /\ \A c : Legit(c) => Legit(c)' /\ Absolute(c)' = Absolute(c)
  <1>0. PICK n : n = Len(packets) + 1
    OBVIOUS
  <1>1. /\ n \in Nat \ {0} /\ DOMAIN packets = 1..(n - 1)
        /\ Len(packets') = n /\ DOMAIN packets' = 1..n
        /\ packets' \in Seq(Kept)
        /\ \A p \in DOMAIN packets : p \in DOMAIN packets' /\ packets'[p] = packets[p]
        /\ packets'[n].reliable = kind.reliable /\ packets'[n].fragments = kind.fragments
        /\ packets'[n].after = Numbered /\ packets'[n].number = UnreliableNumber(kind)
        /\ kind.fragments \in Nat \ {0} /\ kind.fragments <= WindowSize
        /\ kind.reliable \in BOOLEAN
        /\ Numbered' = Numbered + Width(kind)
        /\ kind.reliable <=> UnreliableNumber(kind) = 0
    BY <1>0, QueuedPacket
  <1>2. Numbered \in Nat /\ Width(kind) \in Nat /\ Numbered' \in Nat
    BY <1>1 DEF PacketsInv, Width
  <1>3. \A p \in DOMAIN packets' : p \in DOMAIN packets \/ p = n
    BY <1>1
  <1>4. \A p \in DOMAIN packets : p < n /\ p \in Nat
    BY <1>1
  <1>5. /\ \A p \in DOMAIN packets : Ending(p)' = Ending(p) /\ Ending(p) \in Nat /\ Ending(p) <= Numbered
        /\ Ending(n)' = Numbered'
    <2>1. ASSUME NEW p \in DOMAIN packets
          PROVE  Ending(p)' = Ending(p) /\ Ending(p) \in Nat /\ Ending(p) <= Numbered
      <3>1. packets'[p] = packets[p]
        BY <1>1
      <3>2. Ending(p)' = Ending(p)
        BY <3>1 DEF Ending, Width
      <3>. QED
        BY <3>2, PacketIs
    <2>2. Ending(n)' = Numbered'
      BY <1>1 DEF Ending, Width
    <2>. QED
      BY <2>1, <2>2
  <1>6. \A k \in Nat : Boundary(k) => Boundary(k)'
    <2>. SUFFICES ASSUME NEW k \in Nat, Boundary(k) PROVE Boundary(k)'
      OBVIOUS
    <2>1. CASE k = Numbered
      <3>1. CASE kind.reliable
        <4>1. packets'[n].reliable /\ packets'[n].after = k /\ n \in DOMAIN packets'
          BY <1>1, <2>1, <3>1
        <4>. QED
          BY <4>1 DEF Boundary
      <3>2. CASE ~ kind.reliable
        <4>1. Numbered' = k
          BY <1>1, <1>2, <2>1, <3>2 DEF Width
        <4>. QED
          BY <4>1 DEF Boundary
      <3>. QED
        BY <3>1, <3>2
    <2>2. CASE \E p \in DOMAIN packets : packets[p].reliable /\ packets[p].after = k
      BY <1>1, <2>2 DEF Boundary
    <2>. QED
      BY <2>1, <2>2 DEF Boundary
  <1>7. \A c : Legit(c) => Legit(c)' /\ Absolute(c)' = Absolute(c)
    <2>. SUFFICES ASSUME NEW c, Legit(c) PROVE Legit(c)' /\ Absolute(c)' = Absolute(c)
      OBVIOUS
    <2>1. packets'[c.packet] = packets[c.packet] /\ c.packet \in DOMAIN packets'
      BY <1>1 DEF Legit
    <2>2. Absolute(c)' = Absolute(c)
      BY <2>1 DEF Absolute
    <2>. QED
      BY <2>1, <2>2 DEF Legit
  <1>8. /\ outgoingReliableSequenceNumber' = Numbered' % Numbers
        /\ outgoingUnreliableSequenceNumber' \in 0..LastUnreliable
    <2>1. outgoingReliableSequenceNumber = Numbered % Numbers
      BY DEF PacketsInv
    <2>2. CASE kind.reliable
      <3>1. /\ outgoingReliableSequenceNumber' = CommandsOf(kind, n)[kind.fragments].seq
            /\ outgoingUnreliableSequenceNumber' = 0
        BY <1>0, <2>2 DEF Queues, SetupReliable
      <3>2. kind.fragments \in 1..kind.fragments
        BY <1>1
      <3>3. outgoingReliableSequenceNumber' = (outgoingReliableSequenceNumber + kind.fragments) % Numbers
        BY <2>2, <3>1, <3>2 DEF CommandsOf
      <3>4. ((Numbered % Numbers) + kind.fragments) % Numbers = (Numbered + kind.fragments) % Numbers
        BY <1>1, <1>2, Plus
      <3>. QED
        BY <1>1, <2>1, <2>2, <3>1, <3>3, <3>4, Sizes DEF Width
    <2>3. CASE ~ kind.reliable
      <3>1. /\ outgoingUnreliableSequenceNumber' = outgoingUnreliableSequenceNumber + 1
            /\ outgoingReliableSequenceNumber' = outgoingReliableSequenceNumber
            /\ outgoingUnreliableSequenceNumber < LastUnreliable
        BY <2>3 DEF Queues, SetupUnreliable
      <3>2. outgoingUnreliableSequenceNumber \in 0..LastUnreliable
        BY DEF PacketsInv
      <3>3. Numbered' = Numbered
        BY <1>1, <1>2, <2>3 DEF Width
      <3>. QED
        BY <2>1, <3>1, <3>2, <3>3, Sizes
    <2>. QED
      BY <1>1, <2>2, <2>3
  <1>9. \A p \in DOMAIN packets' : Ending(p)' <= Numbered'
    <2>1. \A p \in DOMAIN packets : Ending(p)' <= Numbered'
      BY <1>1, <1>2, <1>5
    <2>. QED
      BY <1>2, <1>3, <1>5, <2>1
  <1>10. \A p, q \in DOMAIN packets' : p < q => Ending(p)' <= packets'[q].after
    <2>. SUFFICES ASSUME NEW p \in DOMAIN packets', NEW q \in DOMAIN packets', p < q
                  PROVE  Ending(p)' <= packets'[q].after
      OBVIOUS
    <2>1. p \in DOMAIN packets
      BY <1>1
    <2>2. CASE q \in DOMAIN packets
      <3>1. Ending(p) <= packets[q].after
        BY <2>1, <2>2 DEF PacketsInv
      <3>. QED
        BY <1>1, <1>5, <2>1, <2>2, <3>1
    <2>3. CASE q = n
      BY <1>1, <1>5, <2>1, <2>3
    <2>. QED
      BY <1>3, <2>2, <2>3
  <1>11. \A p \in DOMAIN packets' : packets'[p].reliable => Boundary(Ending(p))'
    <2>. SUFFICES ASSUME NEW p \in DOMAIN packets', packets'[p].reliable PROVE Boundary(Ending(p))'
      OBVIOUS
    <2>1. CASE p \in DOMAIN packets
      <3>1. Boundary(Ending(p)) /\ Ending(p) \in Nat
        BY <1>1, <1>5, <2>1 DEF PacketsInv
      <3>. DEFINE k == Ending(p)
      <3>2. k \in Nat /\ Boundary(k)
        BY <3>1
      <3>3. Ending(p)' = k
        BY <1>5, <2>1
      <3>4. k = Numbered \/ \E q \in DOMAIN packets : packets[q].reliable /\ packets[q].after = k
        BY <3>2 DEF Boundary
      <3>5. k = Numbered' \/ \E q \in DOMAIN packets' : packets'[q].reliable /\ packets'[q].after = k
        <4>1. CASE k = Numbered /\ kind.reliable
          <5>1. packets'[n].reliable /\ packets'[n].after = k /\ n \in DOMAIN packets'
            BY <1>1, <4>1
          <5>. QED
            BY <5>1
        <4>2. CASE k = Numbered /\ ~ kind.reliable
          BY <1>1, <1>2, <4>2 DEF Width
        <4>3. CASE \E q \in DOMAIN packets : packets[q].reliable /\ packets[q].after = k
          BY <1>1, <4>3
        <4>. QED
          BY <1>1, <3>4, <4>1, <4>2, <4>3
      <3>. HIDE DEF k
      <3>. QED
        BY <3>3, <3>5 DEF Boundary
    <2>2. CASE p = n
      BY <1>5, <2>2 DEF Boundary
    <2>. QED
      BY <1>3, <2>1, <2>2
  <1>13. \A p \in DOMAIN packets' : packets'[p].reliable <=> packets'[p].number = 0
    <2>1. \A p \in DOMAIN packets : packets'[p].reliable <=> packets'[p].number = 0
      BY <1>1 DEF PacketsInv
    <2>. QED
      BY <1>1, <1>3, <2>1
  <1>14. \A p \in DOMAIN packets' :
            Ending(p)' = Numbered' => packets'[p].number <= outgoingUnreliableSequenceNumber'
    <2>. SUFFICES ASSUME NEW p \in DOMAIN packets', Ending(p)' = Numbered'
                  PROVE  packets'[p].number <= outgoingUnreliableSequenceNumber'
      OBVIOUS
    <2>0. outgoingUnreliableSequenceNumber \in Nat
      BY Sizes DEF PacketsInv
    <2>1. CASE p = n
      <3>1. outgoingUnreliableSequenceNumber' = UnreliableNumber(kind)
        BY DEF Queues, SetupReliable, SetupUnreliable, UnreliableNumber
      <3>2. UnreliableNumber(kind) \in Nat
        BY <2>0 DEF UnreliableNumber
      <3>. QED
        BY <1>1, <2>1, <3>1, <3>2
    <2>2. CASE p \in DOMAIN packets
      <3>1. Ending(p) = Numbered' /\ Ending(p) \in Nat /\ Ending(p) <= Numbered
        BY <1>5, <2>2
      <3>2. ~ kind.reliable /\ Ending(p) = Numbered
        BY <1>1, <1>2, <3>1 DEF Width
      <3>3. packets[p].number <= outgoingUnreliableSequenceNumber
        BY <2>2, <3>2 DEF PacketsInv
      <3>4. packets'[p].number \in Nat /\ packets'[p].number = packets[p].number
        BY <1>1, <2>2, PacketIs, Sizes
      <3>5. outgoingUnreliableSequenceNumber' = outgoingUnreliableSequenceNumber + 1
        BY <3>2 DEF Queues, SetupUnreliable
      <3>. QED
        BY <2>0, <3>3, <3>4, <3>5
    <2>. QED
      BY <1>3, <2>1, <2>2
  <1>15. \A p, q \in DOMAIN packets' : p < q => Earlier(p, q)'
    <2>. SUFFICES ASSUME NEW p \in DOMAIN packets', NEW q \in DOMAIN packets', p < q
                  PROVE  \/ Ending(p)' < Ending(q)'
                         \/ Ending(p)' = Ending(q)' /\ packets'[p].number < packets'[q].number
      BY DEF Earlier
    <2>1. p \in DOMAIN packets
      BY <1>1
    <2>2. Ending(p)' = Ending(p) /\ Ending(p) \in Nat /\ Ending(p) <= Numbered
          /\ packets'[p].number = packets[p].number /\ packets[p].number \in Nat
      BY <1>1, <1>5, <2>1, PacketIs, Sizes
    <2>3. CASE q \in DOMAIN packets
      <3>1. Earlier(p, q)
        BY <2>1, <2>3 DEF PacketsInv
      <3>. QED
        BY <1>1, <1>5, <2>1, <2>2, <2>3, <3>1 DEF Earlier
    <2>4. CASE q = n /\ kind.reliable
      <3>1. Ending(q)' = Numbered + kind.fragments
        BY <1>1, <1>5, <2>4 DEF Width
      <3>. QED
        BY <1>1, <1>2, <2>2, <3>1
    <2>5. CASE q = n /\ ~ kind.reliable
      <3>1. Ending(q)' = Numbered
        BY <1>1, <1>2, <1>5, <2>5 DEF Width
      <3>2. packets'[q].number = outgoingUnreliableSequenceNumber + 1
        BY <1>1, <2>5 DEF UnreliableNumber
      <3>3. outgoingUnreliableSequenceNumber \in Nat
        BY Sizes DEF PacketsInv
      <3>4. Ending(p) = Numbered => packets[p].number <= outgoingUnreliableSequenceNumber
        BY <2>1 DEF PacketsInv
      <3>. QED
        BY <1>2, <2>2, <3>1, <3>2, <3>3, <3>4
    <2>. QED
      BY <1>1, <1>3, <2>3, <2>4, <2>5
  <1>12. PacketsInv'
    <2>1. plan' \in Seq(Kind)
      BY DEF Queues
    <2>. QED
      BY <1>1, <1>2, <1>8, <1>9, <1>10, <1>11, <1>13, <1>14, <1>15, <2>1 DEF PacketsInv
  <1>. QED
    BY <1>6, <1>7, <1>12

(* The commands of the new packet.                                            *)
LEMMA MadeCommands ==
    ASSUME PacketsInv, NEW kind, Queues(kind), NEW i \in 1..kind.fragments
    PROVE  \E c : /\ c = CommandsOf(kind, Len(packets) + 1)[i]
                  /\ c \in Command /\ Legit(c)' /\ c.reliable = kind.reliable
                  /\ c.packet = Len(packets) + 1 /\ c.part = i - 1
                  /\ Absolute(c)' = Numbered + (IF kind.reliable THEN i ELSE 0)
  <1>0. PICK n : n = Len(packets) + 1
    OBVIOUS
  <1>. DEFINE c == CommandsOf(kind, n)[i]
  <1>1. /\ n \in Nat \ {0}
        /\ Len(packets') = n /\ DOMAIN packets' = 1..n
        /\ packets'[n].reliable = kind.reliable /\ packets'[n].fragments = kind.fragments
        /\ packets'[n].after = Numbered /\ packets'[n].number = UnreliableNumber(kind)
        /\ UnreliableNumber(kind) \in 0..LastUnreliable
        /\ kind.fragments \in Nat \ {0} /\ kind.fragments <= WindowSize
        /\ kind.reliable \in BOOLEAN
    BY <1>0, QueuedPacket
  <1>2. Numbered \in Nat /\ outgoingReliableSequenceNumber = Numbered % Numbers
        /\ outgoingUnreliableSequenceNumber \in 0..LastUnreliable
    BY DEF PacketsInv
  <1>3. c = [packet |-> n, part |-> i - 1, fragments |-> kind.fragments, reliable |-> kind.reliable,
             seq |-> (outgoingReliableSequenceNumber + (IF kind.reliable THEN i ELSE 0)) % Numbers,
             unreliable |-> UnreliableNumber(kind)]
    BY DEF CommandsOf
  <1>4. PICK d : d = c
    OBVIOUS
  <1>. HIDE DEF c
  <1>5. /\ d.packet = n /\ d.part = i - 1 /\ d.fragments = kind.fragments /\ d.reliable = kind.reliable
        /\ d.seq = (outgoingReliableSequenceNumber + (IF kind.reliable THEN i ELSE 0)) % Numbers
        /\ d.unreliable = UnreliableNumber(kind)
        /\ d = [packet |-> d.packet, part |-> d.part, fragments |-> d.fragments,
                reliable |-> d.reliable, seq |-> d.seq, unreliable |-> d.unreliable]
    BY <1>3, <1>4
  <1>6. Absolute(d)' = Numbered + (IF kind.reliable THEN i ELSE 0)
    <2>1. packets'[d.packet].after = Numbered /\ d.part = i - 1 /\ d.reliable = kind.reliable
      BY <1>1, <1>5
    <2>2. Absolute(d)' = Numbered + (IF kind.reliable THEN (i - 1) + 1 ELSE 0)
      BY <2>1 DEF Absolute
    <2>. QED
      BY <2>2
  <1>7. d.seq = (Numbered + (IF kind.reliable THEN i ELSE 0)) % Numbers
    <2>. DEFINE k == IF kind.reliable THEN i ELSE 0
    <2>1. k \in Nat
      OBVIOUS
    <2>. HIDE DEF k
    <2>2. ((Numbered % Numbers) + k) % Numbers = (Numbered + k) % Numbers
      BY <1>2, <2>1, Plus
    <2>. QED
      BY <1>2, <1>5, <2>2 DEF k
  <1>8. Numbered + (IF kind.reliable THEN i ELSE 0) \in Nat
    BY <1>2
  <1>9. d.seq \in Sequence
    BY <1>7, <1>8, Wraps
  <1>10. d.unreliable \in 0..LastUnreliable
    BY <1>1, <1>5
  <1>11. d \in Command
    <2>1. d.packet \in Nat /\ d.part \in Nat /\ d.fragments \in Nat /\ d.reliable \in BOOLEAN
      BY <1>1, <1>5
    <2>. QED
      BY <1>5, <1>9, <1>10, <2>1 DEF Command
  <1>12. Legit(d)'
    <2>1. d.packet \in DOMAIN packets' /\ d.fragments = packets'[d.packet].fragments
          /\ d.reliable = packets'[d.packet].reliable /\ d.part \in 0..(d.fragments - 1)
      BY <1>1, <1>5
    <2>2. d.unreliable = packets'[d.packet].number
      BY <1>1, <1>5
    <2>3. d.seq = Absolute(d)' % Numbers
      BY <1>6, <1>7
    <2>. QED
      BY <1>11, <2>1, <2>2, <2>3 DEF Legit
  <1>13. /\ d \in Command /\ Legit(d)' /\ d.reliable = kind.reliable
         /\ d.packet = n /\ d.part = i - 1
         /\ Absolute(d)' = Numbered + (IF kind.reliable THEN i ELSE 0)
    BY <1>5, <1>6, <1>11, <1>12
  <1>14. d = CommandsOf(kind, Len(packets) + 1)[i]
    BY <1>0, <1>4 DEF c
  <1>. QED
    BY <1>0, <1>13, <1>14

(* They wait behind those that waited.                                        *)
LEMMA QueuedSender ==
    ASSUME PacketsInv, SenderInv, NEW kind, Queues(kind)
    PROVE  SenderInv' /\ LastSent' = LastSent /\ Unacknowledged' = Unacknowledged
  <1>1. PacketsInv' /\ \A c : Legit(c) => Legit(c)' /\ Absolute(c)' = Absolute(c)
    BY QueuedPackets
  <1>2. Unacknowledged' = Unacknowledged /\ resend' = resend /\ sentReliableCommands' = sentReliableCommands
    BY DEF Queues, Unacknowledged
  <1>3. Numbered \in Nat /\ Numbered' = Numbered + Width(kind)
        /\ kind.fragments \in Nat \ {0} /\ kind.reliable \in BOOLEAN
    BY QueuedPacket DEF PacketsInv
  <1>4. outgoing \in Seq(Command) /\ Len(outgoing) \in Nat /\ LastSent \in Nat
        /\ LastSent = Numbered - Len(outgoing)
    BY DEF SenderInv, LastSent
  <1>5. LastSent' = LastSent /\ outgoing' \in Seq(Command) /\ Waiting(outgoing)'
    <2>1. CASE ~ kind.reliable
      <3>1. outgoing' = outgoing
        BY <2>1 DEF Queues, SetupUnreliable
      <3>2. Numbered' = Numbered
        BY <1>3, <2>1 DEF Width
      <3>3. LastSent' = LastSent
        BY <3>1, <3>2 DEF LastSent
      <3>4. PICK list : list = outgoing
        OBVIOUS
      <3>5. Waiting(list)'
        <4>1. Waiting(list)
          BY <3>4 DEF SenderInv
        <4>. QED
          BY <1>1, <3>3, <4>1 DEF Waiting
      <3>6. Waiting(outgoing)'
        BY <3>1, <3>4, <3>5
      <3>. QED
        BY <1>4, <3>1, <3>3, <3>6
    <2>2. CASE kind.reliable
      <3>1. PICK made : made = CommandsOf(kind, Len(packets) + 1)
        OBVIOUS
      <3>2. outgoing' = outgoing \o made
        BY <2>2, <3>1 DEF Queues, SetupReliable
      <3>3. \A i \in 1..kind.fragments :
               /\ made[i] \in Command /\ Legit(made[i])' /\ made[i].reliable
               /\ Absolute(made[i])' = Numbered + i
        <4>. TAKE i \in 1..kind.fragments
        <4>1. PICK c : /\ c = CommandsOf(kind, Len(packets) + 1)[i]
                       /\ c \in Command /\ Legit(c)' /\ c.reliable = kind.reliable
                       /\ Absolute(c)' = Numbered + (IF kind.reliable THEN i ELSE 0)
          BY MadeCommands
        <4>2. c = made[i]
          BY <3>1, <4>1
        <4>. QED
          BY <2>2, <4>1, <4>2
      <3>4. made \in Seq(Command) /\ Len(made) = kind.fragments
        <4>1. made = [i \in 1..kind.fragments |-> made[i]]
          BY <3>1 DEF CommandsOf
        <4>2. made \in [1..kind.fragments -> Command]
          BY <3>3, <4>1
        <4>. QED
          BY <1>3, <4>2
      <3>5. PICK list : list = outgoing
        OBVIOUS
      <3>6. PICK longer : longer = outgoing \o made
        OBVIOUS
      <3>7. /\ longer \in Seq(Command) /\ Len(longer) = Len(list) + kind.fragments
            /\ \A i \in 1..Len(list) : longer[i] = list[i]
            /\ \A i \in 1..Len(made) : longer[Len(list) + i] = made[i]
            /\ DOMAIN longer = 1..Len(longer) /\ Len(list) \in Nat
        BY <1>3, <1>4, <3>4, <3>5, <3>6
      <3>8. outgoing' = longer
        BY <3>2, <3>6
      <3>9. LastSent' = LastSent
        BY <1>3, <1>4, <2>2, <3>5, <3>7, <3>8 DEF LastSent, Width
      <3>10. ASSUME NEW i \in DOMAIN longer
             PROVE  Legit(longer[i])' /\ longer[i].reliable /\ Absolute(longer[i])' = LastSent + i
        <4>1. CASE i \in 1..Len(list)
          <5>1. Legit(list[i]) /\ list[i].reliable /\ Absolute(list[i]) = LastSent + i
            BY <1>4, <3>5, <4>1 DEF SenderInv, Waiting
          <5>. QED
            BY <1>1, <3>7, <4>1, <5>1
        <4>2. CASE i \notin 1..Len(list)
          <5>. DEFINE j == i - Len(list)
          <5>1. j \in 1..Len(made) /\ j \in 1..kind.fragments /\ i = Len(list) + j
            BY <1>3, <3>4, <3>7, <4>2
          <5>2. longer[i] = made[j]
            BY <3>7, <5>1
          <5>3. Numbered + j = LastSent + i
            BY <1>3, <1>4, <3>5, <5>1
          <5>4. Legit(made[j])' /\ made[j].reliable /\ Absolute(made[j])' = Numbered + j
            BY <3>3, <5>1
          <5>. QED
            BY <5>2, <5>3, <5>4
        <4>. QED
          BY <4>1, <4>2
      <3>11. Waiting(longer)'
        BY <3>9, <3>10 DEF Waiting
      <3>12. Waiting(outgoing)'
        BY <3>8, <3>11
      <3>. QED
        BY <3>7, <3>8, <3>9, <3>12
    <2>. QED
      BY <1>3, <2>1, <2>2
  <1>6. PICK list : list = Unacknowledged
    OBVIOUS
  <1>7. Unanswered(list)'
    <2>1. Unanswered(list)
      BY <1>6 DEF SenderInv
    <2>2. \A i \in DOMAIN list : InReach(list[i])' /\ Absolute(list[i])' = Absolute(list[i])
      BY <1>1, <1>5, <2>1 DEF Unanswered, InReach, Turn
    <2>. QED
      BY <2>1, <2>2 DEF Unanswered
  <1>8. Unanswered(Unacknowledged)'
    BY <1>2, <1>6, <1>7
  <1>9. {sentReliableCommands', resend', outgoing'} \subseteq Seq(Command)
    BY <1>2, <1>5 DEF SenderInv
  <1>10. LastSent' \in Nat
    BY <1>4, <1>5
  <1>11. SenderInv'
    BY <1>5, <1>8, <1>9, <1>10 DEF SenderInv
  <1>. QED
    BY <1>2, <1>5, <1>11

--------------------------------------------------------------------------------
(* What a step leaves as it was.                                              *)

(* Packets may be queued and commands be sent.                                  *)
Grows ==
    /\ packets' \in Seq(Kept)
    /\ Len(packets') \in Nat /\ Len(packets) <= Len(packets') /\ DOMAIN packets' = 1..Len(packets')
    /\ \A p \in DOMAIN packets : packets'[p] = packets[p]
    /\ \A p \in DOMAIN packets' : p \notin DOMAIN packets => packets'[p].after >= Numbered
    /\ \A n \in Nat : Boundary(n) => Boundary(n)'
    /\ LastSent \in Nat /\ LastSent <= Numbered
    /\ LastSent' \in Nat /\ LastSent <= LastSent'

(* The receiver gives nothing back.                                            *)
KeepsReceived ==
    \A p \in DOMAIN packets, k \in Nat :
        packets[p].reliable /\ Received(p, k) => Received(p, k)'

(* A command remains what it was when packets are added.                      *)
LEMMA LegitStays ==
    ASSUME PacketsInv, Grows, NEW c, Legit(c)
    PROVE  Legit(c)' /\ Absolute(c)' = Absolute(c)
  <1>1. /\ c.packet \in DOMAIN packets /\ DOMAIN packets = 1..Len(packets) /\ Len(packets) \in Nat
        /\ DOMAIN packets' = 1..Len(packets') /\ Len(packets') \in Nat /\ Len(packets) <= Len(packets')
    BY DEF Legit, Grows, PacketsInv
  <1>2. packets'[c.packet] = packets[c.packet] /\ c.packet \in DOMAIN packets'
    BY <1>1 DEF Grows
  <1>3. Absolute(c)' = Absolute(c)
    BY <1>2 DEF Absolute
  <1>. QED
    BY <1>2, <1>3 DEF Legit

(* And so does a datagram,                                                    *)
LEMMA DatagramStays ==
    ASSUME PacketsInv, Grows, KeepsReceived, NEW d, OnWire(d)
    PROVE  OnWire(d)'
  <1>1. Legit(d.command)' /\ Absolute(d.command)' = Absolute(d.command)
    BY LegitStays DEF OnWire
  <1>2. Absolute(d.command) \in Nat /\ d.command.packet \in DOMAIN packets /\ d.command.part \in Nat
        /\ d.command.reliable = packets[d.command.packet].reliable
    BY CommandIs DEF OnWire
  <1>3. d.command.reliable => Absolute(d.command)' <= LastSent'
    BY <1>1, <1>2 DEF OnWire, Grows
  <1>4. d.type = "acknowledge" =>
          d.command.reliable /\ Received(d.command.packet, d.command.part)'
    BY <1>2 DEF OnWire, KeepsReceived
  <1>. QED
    BY <1>1, <1>3, <1>4 DEF OnWire, Send, Acknowledge

(* an entry of the receiver's queue,                                          *)
LEMMA AssemblesStays ==
    ASSUME PacketsInv, Grows, NEW e, NEW p, NEW m, Assembles(e, p, m)
    PROVE  Assembles(e, p, m)'
  <1>1. /\ p \in DOMAIN packets /\ DOMAIN packets = 1..Len(packets) /\ Len(packets) \in Nat
        /\ DOMAIN packets' = 1..Len(packets') /\ Len(packets') \in Nat /\ Len(packets) <= Len(packets')
    BY DEF Assembles, Grows, PacketsInv
  <1>2. packets'[p] = packets[p] /\ p \in DOMAIN packets'
    BY <1>1 DEF Grows
  <1>3. packets[p].after \in Nat
    BY <1>1, PacketIs
  <1>4. \A part \in e.parts : packets'[p].after + part[1] + 1 <= LastSent'
    <2>. TAKE part \in e.parts
    <2>1. part[1] \in Nat
      BY DEF Assembles
    <2>2. packets[p].after + part[1] + 1 <= LastSent
      BY DEF Assembles
    <2>. QED
      BY <1>2, <1>3, <2>1, <2>2 DEF Grows
  <1>. QED
    BY <1>2, <1>4 DEF Assembles, Turn

(* and the receiver, when only the sender moved.                              *)
LEMMA ReceiverStays ==
    ASSUME PacketsInv, Grows, NEW m, ReceiverInv(m), UNCHANGED receiver
    PROVE  ReceiverInv(m)' /\ KeepsReceived
  <1>1. /\ DOMAIN packets = 1..Len(packets) /\ Len(packets) \in Nat
        /\ DOMAIN packets' = 1..Len(packets') /\ Len(packets') \in Nat /\ Len(packets) <= Len(packets')
        /\ \A p \in DOMAIN packets : packets'[p] = packets[p]
    BY DEF Grows, PacketsInv
  <1>2. /\ incomingReliableSequenceNumber' = incomingReliableSequenceNumber
        /\ incomingUnreliableSequenceNumber' = incomingUnreliableSequenceNumber
        /\ incomingReliableCommands' = incomingReliableCommands
        /\ incomingUnreliableCommands' = incomingUnreliableCommands /\ delivered' = delivered
    BY DEF receiver
  <1>3. m \in Nat /\ m <= LastSent /\ Boundary(m)
    BY DEF ReceiverInv
  <1>4. m <= LastSent' /\ Boundary(m)' /\ m <= Numbered
    BY <1>3 DEF Grows, PacketsInv
  <1>5. \A i \in DOMAIN delivered :
           delivered[i] \in DOMAIN packets /\ delivered[i] <= Len(packets) /\ delivered[i] \in Nat
    BY <1>1 DEF ReceiverInv, GivenInOrder
  <1>6. \A p \in DOMAIN packets' :
           packets'[p].reliable => (IsDelivered(p)' <=> packets'[p].after < m)
    <2>. SUFFICES ASSUME NEW p \in DOMAIN packets', packets'[p].reliable
                  PROVE  IsDelivered(p)' <=> packets'[p].after < m
      OBVIOUS
    <2>1. CASE p \in DOMAIN packets
      BY <1>1, <1>2, <2>1 DEF ReceiverInv, IsDelivered
    <2>2. CASE p \notin DOMAIN packets
      <3>1. ~(p <= Len(packets)) /\ packets'[p].after >= Numbered
        BY <1>1, <2>2 DEF Grows
      <3>2. ~ IsDelivered(p)'
        BY <1>2, <1>5, <3>1 DEF IsDelivered
      <3>3. packets'[p].after \in Nat
        <4>1. packets'[p] \in Kept
          BY <1>1 DEF Grows
        <4>. QED
          BY <4>1 DEF Kept
      <3>4. Numbered \in Nat
        BY DEF PacketsInv
      <3>5. ~(packets'[p].after < m)
        BY <1>3, <1>4, <3>1, <3>3, <3>4
      <3>. QED
        BY <3>2, <3>5
    <2>. QED
      BY <2>1, <2>2
  <1>7. InRow(incomingReliableCommands, m)'
    <2>1. PICK list : list = incomingReliableCommands
      OBVIOUS
    <2>2. InRow(list, m)
      BY <2>1 DEF ReceiverInv
    <2>3. InRow(list, m)'
      BY <2>2, AssemblesStays DEF InRow
    <2>. QED
      BY <1>2, <2>1, <2>3
  <1>8. FirstWaits(incomingReliableCommands, m)'
    <2>1. PICK list : list = incomingReliableCommands
      OBVIOUS
    <2>2. FirstWaits(list, m) /\ InRow(list, m)
      BY <2>1 DEF ReceiverInv
    <2>3. FirstWaits(list, m)'
      <3>1. SUFFICES ASSUME list # <<>> PROVE ~ (Complete(list[1]) /\ packets'[Of(list[1])].after = m)
        BY DEF FirstWaits, Complete, Of
      <3>2. list \in Seq(Queued) /\ \A i \in DOMAIN list : Of(list[i]) \in DOMAIN packets
        BY <2>2 DEF InRow, Assembles
      <3>3. 1 \in DOMAIN list
        BY <3>1, <3>2
      <3>4. packets'[Of(list[1])] = packets[Of(list[1])]
        BY <1>1, <3>2, <3>3
      <3>. QED
        BY <2>2, <3>1, <3>4 DEF FirstWaits
    <2>. QED
      BY <1>2, <2>1, <2>3
  <1>9. PICK u : u = incomingUnreliableSequenceNumber
    OBVIOUS
  <1>13. Hints(incomingUnreliableCommands, m, u)'
    <2>1. PICK list : list = incomingUnreliableCommands
      OBVIOUS
    <2>2. Hints(list, m, u)
      BY <1>9, <2>1 DEF ReceiverInv
    <2>3. \A e, p : Hinted(e, p, m, u) => Hinted(e, p, m, u)'
      BY <1>1 DEF Hinted, Turn
    <2>4. Hints(list, m, u)'
      BY <2>2, <2>3 DEF Hints, Of, Precedes, Away
    <2>. QED
      BY <1>2, <2>1, <2>4
  <1>10. GivenInOrder(delivered, m, u)'
    <2>1. PICK s : s = delivered
      OBVIOUS
    <2>2. GivenInOrder(s, m, u)
      BY <1>9, <2>1 DEF ReceiverInv
    <2>3. \A p \in DOMAIN packets : /\ p \in DOMAIN packets' /\ Ending(p)' = Ending(p)
                                    /\ packets'[p].number = packets[p].number
      BY <1>1 DEF Ending, Width
    <2>4. GivenInOrder(s, m, u)'
      BY <2>2, <2>3 DEF GivenInOrder
    <2>. QED
      BY <1>2, <2>1, <2>4
  <1>11. ReceiverInv(m)'
    BY <1>2, <1>3, <1>4, <1>6, <1>7, <1>8, <1>9, <1>10, <1>13 DEF ReceiverInv
  <1>12. KeepsReceived
    BY <1>2 DEF KeepsReceived, Received
  <1>. QED
    BY <1>11, <1>12

(* Queueing a packet adds packets and takes nothing back.                     *)
LEMMA QueuedGrows ==
    ASSUME PacketsInv, SenderInv, NEW kind, Queues(kind)
    PROVE  Grows
  <1>1. LastSent' = LastSent /\ LastSent \in Nat /\ outgoing \in Seq(Command)
    BY QueuedSender DEF SenderInv
  <1>2. LastSent <= Numbered
    BY <1>1 DEF LastSent, PacketsInv
  <1>3. \A n \in Nat : Boundary(n) => Boundary(n)'
    BY QueuedPackets
  <1>4. PICK n : n = Len(packets) + 1
    OBVIOUS
  <1>5. /\ n \in Nat \ {0} /\ DOMAIN packets = 1..(n - 1)
        /\ Len(packets') = n /\ DOMAIN packets' = 1..n
        /\ packets' \in Seq(Kept)
        /\ \A p \in DOMAIN packets : packets'[p] = packets[p]
        /\ packets'[n].after = Numbered
    BY <1>4, QueuedPacket
  <1>6. Numbered \in Nat
    BY DEF PacketsInv
  <1>7. \A p \in DOMAIN packets' : p \notin DOMAIN packets => packets'[p].after >= Numbered
    <2>1. \A p \in DOMAIN packets' : p \notin DOMAIN packets => p = n
      BY <1>5
    <2>. QED
      BY <1>5, <1>6, <2>1
  <1>8. Len(packets') \in Nat /\ Len(packets) <= Len(packets') /\ DOMAIN packets' = 1..Len(packets')
    BY <1>4, <1>5
  <1>. QED
    BY <1>1, <1>2, <1>3, <1>5, <1>7, <1>8 DEF Grows

(* Each part of the new packet waits, or it is unreliable.                    *)
LEMMA QueuedHeld ==
    ASSUME PacketsInv, SenderInv, NothingAcknowledgedIsLost, NEW kind, Queues(kind)
    PROVE  NothingAcknowledgedIsLost'
  <1>0. PICK n : n = Len(packets) + 1
    OBVIOUS
  <1>1. /\ n \in Nat \ {0} /\ DOMAIN packets = 1..(n - 1)
        /\ Len(packets') = n /\ DOMAIN packets' = 1..n
        /\ \A p \in DOMAIN packets : packets'[p] = packets[p]
        /\ packets'[n].reliable = kind.reliable /\ packets'[n].fragments = kind.fragments
        /\ kind.fragments \in Nat \ {0}
    BY <1>0, QueuedPacket
  <1>2. PICK list : list = outgoing
    OBVIOUS
  <1>3. PICK made : made = CommandsOf(kind, n)
    OBVIOUS
  <1>4. /\ kind.reliable => outgoing' = list \o made
        /\ ~ kind.reliable => outgoing' = list
    BY <1>0, <1>2, <1>3 DEF Queues, SetupReliable, SetupUnreliable
  <1>5. \A i \in 1..kind.fragments : made[i].packet = n /\ made[i].part = i - 1
    BY <1>3 DEF CommandsOf
  <1>6. list \in Seq(Command) /\ \A i \in 1..kind.fragments : made[i] \in Command
    <2>1. \A i \in 1..kind.fragments : made[i] \in Command
      <3>. TAKE i \in 1..kind.fragments
      <3>1. \E c : c = CommandsOf(kind, Len(packets) + 1)[i] /\ c \in Command
        BY MadeCommands
      <3>. QED
        BY <1>0, <1>3, <3>1
    <2>. QED
      BY <1>2, <2>1 DEF SenderInv
  <1>7. made \in Seq(Command) /\ Len(made) = kind.fragments
    <2>1. made = [i \in 1..kind.fragments |-> made[i]]
      BY <1>3 DEF CommandsOf
    <2>2. made \in [1..kind.fragments -> Command]
      BY <1>6, <2>1
    <2>. QED
      BY <1>1, <2>2
  <1>8. /\ kind.reliable =>
             /\ Len(outgoing') = Len(list) + Len(made) /\ DOMAIN outgoing' = 1..Len(outgoing')
             /\ \A i \in 1..Len(list) : outgoing'[i] = list[i]
             /\ \A i \in 1..Len(made) : outgoing'[Len(list) + i] = made[i]
        /\ Len(list) \in Nat /\ DOMAIN list = 1..Len(list)
    BY <1>4, <1>6, <1>7
  <1>9. Unacknowledged' = Unacknowledged /\ UNCHANGED receiver
    BY QueuedSender DEF Queues
  <1>10. \A i \in DOMAIN list : i \in DOMAIN outgoing' /\ outgoing'[i] = list[i]
    <2>1. CASE kind.reliable
      <3>1. Len(outgoing') \in Nat /\ Len(list) <= Len(outgoing')
        BY <1>1, <1>7, <1>8, <2>1
      <3>. QED
        BY <1>8, <2>1, <3>1
    <2>2. CASE ~ kind.reliable
      BY <1>4, <2>2
    <2>. QED
      BY <2>1, <2>2
  <1>. SUFFICES ASSUME NEW p \in DOMAIN packets', packets'[p].reliable,
                       NEW k \in 0..(packets'[p].fragments - 1)
                PROVE  \/ Received(p, k)'
                       \/ \E i \in DOMAIN Unacknowledged' :
                             Unacknowledged'[i].packet = p /\ Unacknowledged'[i].part = k
                       \/ \E i \in DOMAIN outgoing' :
                             outgoing'[i].packet = p /\ outgoing'[i].part = k
    BY DEF NothingAcknowledgedIsLost
  <1>11. CASE p \in DOMAIN packets
    <2>1. \/ Received(p, k)
          \/ \E i \in DOMAIN Unacknowledged :
                Unacknowledged[i].packet = p /\ Unacknowledged[i].part = k
          \/ \E i \in DOMAIN list : list[i].packet = p /\ list[i].part = k
      BY <1>1, <1>2, <1>11 DEF NothingAcknowledgedIsLost
    <2>2. Received(p, k)' <=> Received(p, k)
      BY <1>9 DEF Received, receiver
    <2>. QED
      BY <1>9, <1>10, <2>1, <2>2
  <1>12. CASE p = n
    <2>1. kind.reliable /\ k + 1 \in 1..kind.fragments /\ k \in Nat
      BY <1>1, <1>12
    <2>2. made[k + 1].packet = p /\ made[k + 1].part = k
      BY <1>5, <1>12, <2>1
    <2>3. Len(list) + (k + 1) \in DOMAIN outgoing' /\ outgoing'[Len(list) + (k + 1)] = made[k + 1]
      BY <1>1, <1>7, <1>8, <2>1
    <2>. QED
      BY <2>2, <2>3
  <1>. QED
    BY <1>1, <1>11, <1>12

(* enet_peer_send keeps the invariant.                                        *)
LEMMA SendKeeps ==
    ASSUME IInv, enet_peer_send, Fresh'
    PROVE  IInv'
  <1>1. /\ PacketsInv /\ SenderInv /\ CountersInv /\ WireInv /\ NothingAcknowledgedIsLost
    BY DEF IInv
  <1>2. PICK m \in Nat : ReceiverInv(m)
    BY DEF IInv
  <1>3. PICK kind : Queues(kind)
    BY <1>1, SendQueues
  <1>4. PacketsInv' /\ SenderInv' /\ Grows /\ NothingAcknowledgedIsLost'
    BY <1>1, <1>3, QueuedPackets, QueuedSender, QueuedGrows, QueuedHeld
  <1>5. ReceiverInv(m)' /\ KeepsReceived
    BY <1>1, <1>2, <1>3, <1>4, ReceiverStays DEF Queues
  <1>6. CountersInv'
    <2>1. /\ Unacknowledged' = Unacknowledged /\ sentReliableCommands' = sentReliableCommands
          /\ reliableWindows' = reliableWindows /\ reliableDataInTransit' = reliableDataInTransit
      BY <1>3 DEF Queues, Unacknowledged
    <2>. QED
      BY <1>1, <2>1 DEF CountersInv, CountersMatch
  <1>7. WireInv'
    <2>1. \A d \in wire : OnWire(d)'
      BY <1>1, <1>4, <1>5, DatagramStays DEF WireInv
    <2>2. CASE kind.reliable
      <3>1. wire' = wire
        BY <1>3, <2>2 DEF Queues, SetupReliable
      <3>. QED
        BY <2>1, <3>1 DEF WireInv
    <2>3. CASE ~ kind.reliable
      <3>1. PICK made : made = CommandsOf(kind, Len(packets) + 1)
        OBVIOUS
      <3>2. \A d \in wire' : d \in wire \/ \E i \in 1..kind.fragments : d = Send(made[i])
        BY <1>3, <2>3, <3>1 DEF Queues, SetupUnreliable
      <3>3. \A i \in 1..kind.fragments : OnWire(Send(made[i]))'
        <4>. TAKE i \in 1..kind.fragments
        <4>1. PICK c : /\ c = CommandsOf(kind, Len(packets) + 1)[i]
                       /\ Legit(c)' /\ c.reliable = kind.reliable
          BY <1>1, <1>3, MadeCommands
        <4>2. c = made[i]
          BY <3>1, <4>1
        <4>3. OnWire(Send(c))'
          BY <2>3, <4>1 DEF OnWire, Send, Acknowledge
        <4>. QED
          BY <4>2, <4>3
      <3>. QED
        BY <2>1, <3>2, <3>3 DEF WireInv
    <2>. QED
      BY <2>2, <2>3
  <1>. QED
    BY <1>2, <1>4, <1>5, <1>6, <1>7 DEF IInv

--------------------------------------------------------------------------------
(* Commands are sent.                                                       *)

(* A step that sends no new packet leaves the packets as they are.            *)
LEMMA SamePackets ==
    ASSUME PacketsInv, LastSent \in Nat, outgoing \in Seq(Command),
           UNCHANGED <<plan, packets, outgoingReliableSequenceNumber, outgoingUnreliableSequenceNumber>>,
           LastSent' \in Nat, LastSent <= LastSent'
    PROVE  PacketsInv' /\ Grows /\ Numbered' = Numbered
  <1>1. Numbered' = Numbered
    BY DEF Numbered, Width
  <1>2. PacketsInv'
    BY <1>1 DEF PacketsInv, Ending, Earlier, Boundary, Width
  <1>3. \A n \in Nat : Boundary(n) => Boundary(n)'
    BY <1>1 DEF Boundary
  <1>4. LastSent <= Numbered
    <2>1. Len(outgoing) \in Nat /\ Numbered \in Nat
      BY DEF PacketsInv
    <2>. QED
      BY <2>1 DEF LastSent
  <1>5. packets \in Seq(Kept)
    BY DEF PacketsInv
  <1>6. Len(packets) \in Nat /\ DOMAIN packets = 1..Len(packets)
    BY <1>5
  <1>. QED
    BY <1>1, <1>2, <1>3, <1>4, <1>5, <1>6 DEF Grows

(* What a step that changes only what the sender keeps of sent commands owes.         *)
LEMMA StepOwes ==
    ASSUME IInv, Fresh',
           UNCHANGED <<plan, packets, outgoingReliableSequenceNumber, outgoingUnreliableSequenceNumber>>,
           UNCHANGED receiver,
           SenderInv', LastSent <= LastSent', CountersInv',
           \A d \in wire' : d \in wire \/ OnWire(d)',
           \A c : (\E s \in {Unacknowledged, outgoing} : \E i \in DOMAIN s : s[i] = c) =>
                     \/ \E s \in {Unacknowledged', outgoing'} : \E i \in DOMAIN s : s[i] = c
                     \/ Received(c.packet, c.part)
    PROVE  IInv'
  <1>1. /\ PacketsInv /\ SenderInv /\ WireInv /\ NothingAcknowledgedIsLost
    BY DEF IInv
  <1>2. PICK m \in Nat : ReceiverInv(m)
    BY DEF IInv
  <1>3. LastSent \in Nat /\ LastSent' \in Nat /\ outgoing \in Seq(Command)
    BY <1>1 DEF SenderInv
  <1>4. PacketsInv' /\ Grows /\ Numbered' = Numbered
    BY <1>1, <1>3, SamePackets
  <1>5. ReceiverInv(m)' /\ KeepsReceived
    BY <1>1, <1>2, <1>4, ReceiverStays
  <1>6. WireInv'
    <2>1. \A d \in wire : OnWire(d)'
      BY <1>1, <1>4, <1>5, DatagramStays DEF WireInv
    <2>. QED
      BY <2>1 DEF WireInv
  <1>7. NothingAcknowledgedIsLost'
    <2>. SUFFICES ASSUME NEW p \in DOMAIN packets, packets[p].reliable,
                         NEW k \in 0..(packets[p].fragments - 1)
                  PROVE  \/ Received(p, k)'
                         \/ \E s \in {Unacknowledged', outgoing'} : \E i \in DOMAIN s :
                               s[i].packet = p /\ s[i].part = k
      BY DEF NothingAcknowledgedIsLost
    <2>1. Received(p, k)' <=> Received(p, k)
      BY DEF Received, receiver
    <2>2. \/ Received(p, k)
          \/ \E s \in {Unacknowledged, outgoing} : \E i \in DOMAIN s :
                s[i].packet = p /\ s[i].part = k
      BY <1>1 DEF NothingAcknowledgedIsLost
    <2>3. ASSUME NEW c, c.packet = p, c.part = k,
                 \E s \in {Unacknowledged, outgoing} : \E i \in DOMAIN s : s[i] = c
          PROVE  \/ Received(p, k)'
                 \/ \E s \in {Unacknowledged', outgoing'} : \E i \in DOMAIN s :
                       s[i].packet = p /\ s[i].part = k
      BY <2>1, <2>3
    <2>. QED
      BY <2>1, <2>2, <2>3
  <1>. QED
    BY <1>2, <1>4, <1>5, <1>6, <1>7 DEF IInv

(* A command that is sent.                                                    *)
LEMMA SentCommand ==
    ASSUME PacketsInv, SenderInv, NEW c, Legit(c), c.reliable, Absolute(c) <= LastSent
    PROVE  OnWire(Send(c))
  BY DEF OnWire, Send, Acknowledge

(* The head of one list becomes the last of another.                          *)
LEMMA MovedHead ==
    ASSUME NEW S, NEW s \in Seq(S), NEW t \in Seq(S), t # <<>>
    PROVE  /\ Head(t) \in S /\ Tail(t) \in Seq(S) /\ Append(s, Head(t)) \in Seq(S)
           /\ Len(Append(s, Head(t))) = Len(s) + 1
           /\ Append(s, Head(t)) \o Tail(t) = s \o t
           /\ Len(s) + 1 \in DOMAIN (s \o t) /\ (s \o t)[Len(s) + 1] = Head(t)
  <1>1. /\ Head(t) \in S /\ Tail(t) \in Seq(S) /\ Head(t) = t[1] /\ Len(t) \in Nat \ {0}
        /\ Len(Tail(t)) = Len(t) - 1 /\ \A i \in 1..(Len(t) - 1) : Tail(t)[i] = t[i + 1]
        /\ Len(s) \in Nat
    OBVIOUS
  <1>. DEFINE h == Head(t)
              u == Append(s, h)
              r == Tail(t)
  <1>2. h \in S /\ r \in Seq(S) /\ h = t[1] /\ Len(r) = Len(t) - 1
        /\ \A i \in 1..(Len(t) - 1) : r[i] = t[i + 1]
    BY <1>1
  <1>. HIDE DEF h, r
  <1>3. /\ u \in Seq(S) /\ Len(u) = Len(s) + 1 /\ u[Len(s) + 1] = h
        /\ \A i \in 1..Len(s) : u[i] = s[i]
    BY <1>2
  <1>. HIDE DEF u
  <1>4. /\ u \o r \in Seq(S) /\ Len(u \o r) = Len(u) + Len(r)
        /\ \A i \in 1..Len(u) : (u \o r)[i] = u[i]
        /\ \A i \in 1..Len(r) : (u \o r)[Len(u) + i] = r[i]
    <2>1. u \in Seq(S) /\ r \in Seq(S)
      BY <1>2, <1>3
    <2>. QED
      BY <2>1, Joined
  <1>5. /\ s \o t \in Seq(S) /\ Len(s \o t) = Len(s) + Len(t)
        /\ \A i \in 1..Len(s) : (s \o t)[i] = s[i]
        /\ \A i \in 1..Len(t) : (s \o t)[Len(s) + i] = t[i]
    OBVIOUS
  <1>6. Len(u \o r) = Len(s \o t)
    BY <1>1, <1>2, <1>3, <1>4, <1>5
  <1>7. \A i \in 1..Len(s \o t) : (u \o r)[i] = (s \o t)[i]
    <2>. TAKE i \in 1..Len(s \o t)
    <2>1. CASE i <= Len(s)
      BY <1>1, <1>3, <1>4, <1>5, <2>1
    <2>2. CASE i = Len(s) + 1
      <3>1. i \in 1..Len(u) /\ 1 \in 1..Len(t)
        BY <1>1, <1>3, <2>2
      <3>. QED
        BY <1>2, <1>3, <1>4, <1>5, <2>2, <3>1
    <2>3. CASE i > Len(s) + 1
      <3>. DEFINE j == i - Len(s) - 1
      <3>1. j \in 1..Len(r) /\ i = Len(u) + j /\ j + 1 \in 1..Len(t) /\ i = Len(s) + (j + 1)
            /\ j \in 1..(Len(t) - 1)
        <4>1. /\ Len(s) \in Nat /\ Len(t) \in Nat \ {0} /\ Len(r) = Len(t) - 1 /\ Len(u) = Len(s) + 1
              /\ Len(s \o t) = Len(s) + Len(t)
          BY <1>1, <1>2, <1>3, <1>5
        <4>. QED
          BY <4>1, <2>3
      <3>. HIDE DEF j
      <3>2. (u \o r)[i] = r[j] /\ (s \o t)[i] = t[j + 1]
        BY <1>4, <1>5, <3>1
      <3>. QED
        BY <1>2, <3>1, <3>2
    <2>4. i \in Int /\ Len(s) \in Nat
      BY <1>1
    <2>5. i <= Len(s) \/ i = Len(s) + 1 \/ i > Len(s) + 1
      BY <2>4
    <2>. QED
      BY <2>1, <2>2, <2>3, <2>5
  <1>8. u \o r = s \o t
    BY <1>4, <1>5, <1>6, <1>7
  <1>9. Len(s) + 1 \in DOMAIN (s \o t) /\ (s \o t)[Len(s) + 1] = h
    <2>1. 1 \in 1..Len(t) /\ Len(s) + 1 \in 1..Len(s \o t)
      BY <1>1, <1>5
    <2>. QED
      BY <1>2, <1>5, <2>1
  <1>. QED
    BY <1>2, <1>3, <1>8, <1>9 DEF h, r, u

(* Sending a command again keeps the invariant.                               *)
LEMMA SendAgainKeeps ==
    ASSUME IInv, SendAgain, Fresh'
    PROVE  IInv'
  <1>1. /\ PacketsInv /\ SenderInv /\ CountersInv /\ WireInv
    BY DEF IInv
  <1>2. PICK c : c = Head(resend)
    OBVIOUS
  <1>3. /\ sentReliableCommands \in Seq(Command) /\ resend \in Seq(Command) /\ resend # <<>>
        /\ outgoing \in Seq(Command)
    BY <1>1 DEF SenderInv, SendAgain
  <1>4. /\ sentReliableCommands' = Append(sentReliableCommands, Head(resend)) /\ resend' = Tail(resend)
        /\ reliableDataInTransit + 1 <= MaxInTransit
        /\ reliableDataInTransit' = reliableDataInTransit + 1
        /\ wire' = wire \cup {Send(c)}
        /\ UNCHANGED <<plan, packets, outgoingReliableSequenceNumber, outgoingUnreliableSequenceNumber>>
        /\ UNCHANGED <<outgoing, reliableWindows>> /\ UNCHANGED receiver
    BY <1>2 DEF SendAgain, Transmit
  <1>5. /\ sentReliableCommands' \in Seq(Command) /\ resend' \in Seq(Command)
        /\ Len(sentReliableCommands') = Len(sentReliableCommands) + 1
        /\ Unacknowledged' = Unacknowledged
        /\ \E i \in DOMAIN Unacknowledged : Unacknowledged[i] = c
    <2>1. PICK s : s = sentReliableCommands
      OBVIOUS
    <2>2. PICK t : t = resend
      OBVIOUS
    <2>3. /\ Tail(t) \in Seq(Command) /\ Append(s, c) \in Seq(Command)
          /\ Len(Append(s, c)) = Len(s) + 1
          /\ Append(s, c) \o Tail(t) = s \o t
          /\ Len(s) + 1 \in DOMAIN (s \o t) /\ (s \o t)[Len(s) + 1] = c
      BY <1>2, <1>3, <2>1, <2>2, MovedHead
    <2>4. Unacknowledged = s \o t /\ Unacknowledged' = Append(s, c) \o Tail(t)
      BY <1>2, <1>4, <2>1, <2>2 DEF Unacknowledged
    <2>. QED
      BY <1>2, <1>4, <2>1, <2>2, <2>3, <2>4
  <1>6. LastSent' = LastSent /\ LastSent \in Nat
    BY <1>1, <1>4 DEF LastSent, Numbered, Width, SenderInv
  <1>7. \A x : (Legit(x)' <=> Legit(x)) /\ Absolute(x)' = Absolute(x)
    BY <1>4 DEF Legit, Absolute
  <1>8. SenderInv'
    <2>1. PICK list : list = Unacknowledged
      OBVIOUS
    <2>2. PICK queue : queue = outgoing
      OBVIOUS
    <2>3. Unanswered(list)' /\ Waiting(queue)'
      <3>1. Unanswered(list) /\ Waiting(queue)
        BY <1>1, <2>1, <2>2 DEF SenderInv
      <3>. QED
        BY <1>6, <1>7, <3>1 DEF Unanswered, Waiting, InReach, Turn
    <2>4. Unanswered(Unacknowledged)' /\ Waiting(outgoing)'
      BY <1>4, <1>5, <2>1, <2>2, <2>3
    <2>. QED
      BY <1>3, <1>4, <1>5, <1>6, <2>4 DEF SenderInv
  <1>9. CountersInv'
    <2>1. reliableDataInTransit' = Len(sentReliableCommands')
      BY <1>1, <1>4, <1>5 DEF CountersInv, CountersMatch
    <2>2. CountersMatch'
      BY <1>1, <1>4, <1>5, <2>1 DEF CountersInv, CountersMatch
    <2>. QED
      BY <1>1, <1>4, <2>2 DEF CountersInv
  <1>10. OnWire(Send(c))'
    <2>1. InReach(c)
      BY <1>1, <1>5 DEF SenderInv, Unanswered
    <2>2. Legit(c)' /\ c.reliable /\ Absolute(c)' <= LastSent'
      BY <1>6, <1>7, <2>1 DEF InReach
    <2>. QED
      BY <2>2 DEF OnWire, Send, Acknowledge
  <1>11. \A d \in wire' : d \in wire \/ OnWire(d)'
    <2>. TAKE d \in wire'
    <2>1. CASE d = Send(c)
      BY <1>10, <2>1
    <2>. QED
      BY <1>4, <2>1
  <1>12. LastSent <= LastSent'
    BY <1>6
  <1>13. \A x : (\E s \in {Unacknowledged, outgoing} : \E i \in DOMAIN s : s[i] = x) =>
                  \E s \in {Unacknowledged', outgoing'} : \E i \in DOMAIN s : s[i] = x
    BY <1>4, <1>5
  <1>. QED
    BY <1>4, <1>8, <1>9, <1>11, <1>12, <1>13, StepOwes

--------------------------------------------------------------------------------
(* Commands time out.                                                        *)

(* The order of the unanswered commands does not matter.                      *)
LEMMA RearrangedUnanswered ==
    ASSUME NEW list \in Seq(Command), NEW other \in Seq(Command), NEW q, Rearranges(other, list, q),
           Unanswered(list)
    PROVE  Unanswered(other)
  <1>1. /\ DOMAIN other = 1..Len(other) /\ DOMAIN list = 1..Len(list)
        /\ \A j \in DOMAIN other : q[j] \in DOMAIN list /\ other[j] = list[q[j]]
        /\ \A j, k \in DOMAIN other : q[j] = q[k] => j = k
    BY DEF Rearranges
  <1>2. /\ \A i \in DOMAIN list : InReach(list[i])
        /\ \A i, j \in DOMAIN list : Absolute(list[i]) = Absolute(list[j]) => i = j
    BY DEF Unanswered
  <1>3. \A j \in DOMAIN other : InReach(other[j])
    BY <1>1, <1>2
  <1>4. \A j, k \in DOMAIN other : Absolute(other[j]) = Absolute(other[k]) => j = k
    <2>. SUFFICES ASSUME NEW j \in DOMAIN other, NEW k \in DOMAIN other,
                         Absolute(other[j]) = Absolute(other[k])
                  PROVE  j = k
      OBVIOUS
    <2>1. q[j] \in DOMAIN list /\ q[k] \in DOMAIN list /\ other[j] = list[q[j]] /\ other[k] = list[q[k]]
      BY <1>1
    <2>2. q[j] = q[k]
      BY <1>2, <2>1
    <2>. QED
      BY <1>1, <2>2
  <1>. QED
    BY <1>3, <1>4 DEF Unanswered

(* A step that neither sends for the first time nor changes the packets.            *)
LEMMA SameSent ==
    ASSUME UNCHANGED <<packets, outgoingReliableSequenceNumber, outgoing>>
    PROVE  /\ Numbered' = Numbered /\ LastSent' = LastSent
           /\ \A x : (Legit(x)' <=> Legit(x)) /\ Absolute(x)' = Absolute(x)
           /\ \A list : Unanswered(list)' <=> Unanswered(list)
           /\ \A list : Waiting(list)' <=> Waiting(list)
  <1>1. Numbered' = Numbered
    BY DEF Numbered, Width
  <1>2. LastSent' = LastSent
    BY <1>1 DEF LastSent
  <1>3. \A x : (Legit(x)' <=> Legit(x)) /\ Absolute(x)' = Absolute(x)
    BY DEF Legit, Absolute
  <1>4. \A x : InReach(x)' <=> InReach(x)
    BY <1>2, <1>3 DEF InReach, Turn
  <1>5. \A list : Unanswered(list)' <=> Unanswered(list)
    BY <1>3, <1>4 DEF Unanswered
  <1>6. \A list : Waiting(list)' <=> Waiting(list)
    BY <1>2, <1>3 DEF Waiting
  <1>. QED
    BY <1>1, <1>2, <1>3, <1>5, <1>6

(* enet_protocol_check_timeouts keeps the invariant.                          *)
LEMMA TimeOutKeeps ==
    ASSUME IInv, NEW I \in SUBSET DOMAIN sentReliableCommands, TimeOutCommands(I), Fresh'
    PROVE  IInv'
  <1>1. /\ PacketsInv /\ SenderInv /\ CountersInv /\ WireInv
    BY DEF IInv
  <1>2. PICK s : s = sentReliableCommands
    OBVIOUS
  <1>3. PICK t : t = resend
    OBVIOUS
  <1>4. s \in Seq(Command) /\ t \in Seq(Command) /\ I \in SUBSET DOMAIN s /\ outgoing \in Seq(Command)
    BY <1>1, <1>2, <1>3 DEF SenderInv
  <1>5. PICK a : a = Pick(s, DOMAIN s \ I)
    OBVIOUS
  <1>6. PICK b : b = Pick(s, I) \o t
    OBVIOUS
  <1>7. PICK z : z = a \o b
    OBVIOUS
  <1>8. PICK v : v = s \o t
    OBVIOUS
  <1>9. /\ z \in Seq(Command) /\ Len(a) = Len(s) - Cardinality(I)
        /\ Reorders(z, v)
    <2>1. /\ Pick(s, DOMAIN s \ I) \o (Pick(s, I) \o t) \in Seq(Command)
          /\ Len(Pick(s, DOMAIN s \ I)) = Len(s) - Cardinality(I)
          /\ Reorders(Pick(s, DOMAIN s \ I) \o (Pick(s, I) \o t), s \o t)
      BY <1>4, MovedInFront
    <2>2. z = Pick(s, DOMAIN s \ I) \o (Pick(s, I) \o t) /\ v = s \o t
      BY <1>5, <1>6, <1>7, <1>8
    <2>. QED
      BY <1>5, <2>1, <2>2
  <1>10. PICK q : Rearranges(z, v, q) /\ \A i \in DOMAIN v : \E j \in DOMAIN z : q[j] = i
    BY <1>9 DEF Reorders
  <1>11. a \in Seq(Command) /\ b \in Seq(Command) /\ v \in Seq(Command)
    <2>1. Pick(s, I) \in Seq(Command)
      BY <1>4, PickPlaces
    <2>2. DOMAIN s \ I \in SUBSET DOMAIN s
      OBVIOUS
    <2>3. Pick(s, DOMAIN s \ I) \in Seq(Command)
      BY <1>4, <2>2, PickPlaces
    <2>. QED
      BY <1>4, <1>5, <1>6, <1>8, <2>1, <2>3, Joined
  <1>12. /\ sentReliableCommands' = a /\ resend' = b
         /\ reliableDataInTransit' = reliableDataInTransit - Cardinality(I)
         /\ UNCHANGED <<plan, packets, outgoingReliableSequenceNumber, outgoingUnreliableSequenceNumber>>
         /\ UNCHANGED <<outgoing, reliableWindows, wire>> /\ UNCHANGED receiver
    BY <1>2, <1>3, <1>5, <1>6 DEF TimeOutCommands
  <1>13. Unacknowledged = v /\ Unacknowledged' = z
    BY <1>2, <1>3, <1>7, <1>8, <1>12 DEF Unacknowledged
  <1>14. SenderInv'
    <2>1. Unanswered(z)
      BY <1>1, <1>9, <1>10, <1>11, <1>13, RearrangedUnanswered DEF SenderInv
    <2>2. PICK queue : queue = outgoing
      OBVIOUS
    <2>3. Waiting(queue)
      BY <1>1, <2>2 DEF SenderInv
    <2>4. Unanswered(z)' /\ Waiting(queue)' /\ LastSent' = LastSent
      BY <1>12, <2>1, <2>3, SameSent
    <2>5. Unanswered(Unacknowledged)' /\ Waiting(outgoing)'
      BY <1>12, <1>13, <2>2, <2>4
    <2>6. {sentReliableCommands', resend', outgoing'} \subseteq Seq(Command) /\ LastSent' \in Nat
      BY <1>1, <1>4, <1>11, <1>12, <2>4 DEF SenderInv
    <2>. QED
      BY <2>5, <2>6 DEF SenderInv
  <1>15. CountersInv'
    <2>1. reliableDataInTransit = Len(s) /\ reliableDataInTransit <= MaxInTransit
      BY <1>1, <1>2 DEF CountersInv, CountersMatch
    <2>2. Cardinality(I) \in Nat /\ Len(s) \in Nat
      <3>1. Pick(s, I) \in Seq(Command) /\ Cardinality(I) = Len(Pick(s, I))
        BY <1>4, PickPlaces, PickLength
      <3>. QED
        BY <1>4, <3>1
    <2>3. reliableDataInTransit' = Len(sentReliableCommands') /\ reliableDataInTransit' <= MaxInTransit
      BY <1>9, <1>12, <2>1, <2>2, Sizes
    <2>4. \A w \in 0..(Windows - 1) :
             reliableWindows'[w] = Cardinality({i \in DOMAIN Unacknowledged' :
                                                   Window(Unacknowledged'[i].seq) = w})
      <3>. TAKE w \in 0..(Windows - 1)
      <3>1. reliableWindows[w] = Cardinality(Held(v, w, DOMAIN v))
        <4>1. Held(v, w, DOMAIN v) = {i \in DOMAIN v : Window(v[i].seq) = w}
          BY DEF Held
        <4>. QED
          BY <1>1, <1>13, <4>1 DEF CountersInv, CountersMatch
      <3>2. Cardinality(Held(z, w, DOMAIN z)) = Cardinality(Held(v, w, DOMAIN v))
        <4>1. \A i \in DOMAIN v : i \in DOMAIN v <=> \E j \in DOMAIN z : q[j] = i
          BY <1>10
        <4>. QED
          BY <1>9, <1>10, <1>11, <4>1, HeldMoved
      <3>3. Held(z, w, DOMAIN z) = {i \in DOMAIN Unacknowledged' : Window(Unacknowledged'[i].seq) = w}
        BY <1>13 DEF Held
      <3>. QED
        BY <1>12, <3>1, <3>2, <3>3
    <2>5. CountersMatch'
      BY <2>3, <2>4 DEF CountersMatch
    <2>. QED
      BY <1>1, <1>12, <2>3, <2>5 DEF CountersInv
  <1>16. \A x : (\E l \in {Unacknowledged, outgoing} : \E i \in DOMAIN l : l[i] = x) =>
                   \E l \in {Unacknowledged', outgoing'} : \E i \in DOMAIN l : l[i] = x
    <2>1. ASSUME NEW i \in DOMAIN v PROVE \E j \in DOMAIN z : z[j] = v[i]
      <3>1. PICK j \in DOMAIN z : q[j] = i
        BY <1>10
      <3>. QED
        BY <1>9, <1>10, <3>1 DEF Rearranges
    <2>. QED
      BY <1>12, <1>13, <2>1
  <1>17. LastSent <= LastSent'
    BY <1>1, <1>12, SameSent DEF SenderInv
  <1>. QED
    BY <1>12, <1>14, <1>15, <1>16, <1>17, StepOwes

--------------------------------------------------------------------------------
(* A command is acknowledged.                                                  *)

(* What is acknowledged is the command that has the number, and not one that had it    *)
(* a turn before.                                                              *)
LEMMA OneSuch ==
    ASSUME PacketsInv, SenderInv, NEW c, Legit(c), c.reliable, Absolute(c) <= LastSent,
           LastSent - Absolute(c) <= Lifetime,
           NEW x, InReach(x), x.seq = c.seq
    PROVE  x = c
  <1>1. /\ Legit(x) /\ x.reliable /\ Absolute(x) <= LastSent /\ LastSent \in Nat
        /\ Turn(LastSent) <= Turn(Absolute(x)) + (Windows - FreeWindows - 2)
    BY DEF InReach, SenderInv
  <1>2. /\ Absolute(c) \in Nat /\ c.seq = Absolute(c) % Numbers
        /\ Absolute(x) \in Nat /\ x.seq = Absolute(x) % Numbers
    BY <1>1, CommandIs
  <1>3. PICK k : k = Windows - FreeWindows - 2
    OBVIOUS
  <1>4. k \in Nat
    BY <1>3, Sizes
  <1>5. LastSent < Absolute(x) + k * WindowSize + WindowSize
    BY <1>1, <1>2, <1>3, <1>4, TurnsApart
  <1>6. k * WindowSize + WindowSize < Numbers /\ Lifetime < Numbers
    <2>1. /\ Numbers = WindowSize * Windows /\ Lifetime <= (Windows - FreeWindows) * WindowSize
          /\ WindowSize \in Nat \ {0} /\ Windows \in Nat /\ FreeWindows \in Nat /\ FreeWindows >= 3
      BY Sizes
    <2>2. /\ Windows * WindowSize = Numbers
          /\ (Windows - FreeWindows) * WindowSize = Numbers - FreeWindows * WindowSize
          /\ k * WindowSize + WindowSize = Numbers - FreeWindows * WindowSize - WindowSize
      BY <1>3, <2>1
    <2>3. FreeWindows * WindowSize > 0
      BY <2>1
    <2>4. FreeWindows * WindowSize \in Nat /\ Numbers \in Nat /\ Lifetime \in Nat
      BY <2>1, Sizes
    <2>. QED
      BY <2>1, <2>2, <2>3, <2>4
  <1>7. k * WindowSize \in Nat /\ Numbers \in Nat /\ Lifetime \in Nat /\ WindowSize \in Nat
    BY <1>4, Sizes
  <1>8. Absolute(x) < Absolute(c) + Numbers /\ Absolute(c) < Absolute(x) + Numbers
    BY <1>1, <1>2, <1>5, <1>6, <1>7
  <1>9. Absolute(x) = Absolute(c)
    BY <1>2, <1>8, SameNumber
  <1>. QED
    BY <1>1, <1>9, SameCommand

(* enet_protocol_handle_acknowledge keeps the invariant.                      *)
LEMMA HandleAcknowledgeKeeps ==
    ASSUME IInv, NEW c, HandleAcknowledge(c), Fresh'
    PROVE  IInv'
  <1>1. /\ PacketsInv /\ SenderInv /\ CountersInv /\ WireInv
    BY DEF IInv
  <1>2. /\ Acknowledge(c) \in wire /\ wire' \subseteq wire /\ RemoveSent(c.seq)
        /\ UNCHANGED <<plan, packets, outgoingReliableSequenceNumber, outgoingUnreliableSequenceNumber>>
        /\ UNCHANGED outgoing /\ UNCHANGED receiver
    BY DEF HandleAcknowledge, Arrives
  <1>3. /\ Legit(c) /\ c.reliable /\ Absolute(c) <= LastSent /\ Received(c.packet, c.part)
        /\ LastSent - Absolute(c) <= Lifetime
    <2>1. Acknowledge(c).command = c /\ Acknowledge(c).type = "acknowledge"
      BY DEF Acknowledge
    <2>. QED
      BY <1>1, <1>2, <2>1 DEF WireInv, OnWire, Fresh
  <1>4. PICK n : n = c.seq
    OBVIOUS
  <1>5. PICK s : s = sentReliableCommands
    OBVIOUS
  <1>6. PICK t : t = resend
    OBVIOUS
  <1>7. PICK sent : sent = {i \in DOMAIN s : s[i].seq = n}
    OBVIOUS
  <1>8. PICK timedOut : timedOut = IF sent = {} THEN {i \in DOMAIN t : t[i].seq = n} ELSE {}
    OBVIOUS
  <1>9. /\ sentReliableCommands' = Pick(s, DOMAIN s \ sent)
        /\ resend' = Pick(t, DOMAIN t \ timedOut)
        /\ reliableDataInTransit' = reliableDataInTransit - Cardinality(sent)
        /\ reliableWindows' = [reliableWindows EXCEPT ![Window(n)] =
                                 IF sent \cup timedOut # {} /\ @ > 0 THEN @ - 1 ELSE @]
    BY <1>2, <1>4, <1>5, <1>6, <1>7, <1>8 DEF RemoveSent, WithNumber
  <1>10. PICK a : a = Pick(s, DOMAIN s \ sent)
    OBVIOUS
  <1>11. PICK b : b = Pick(t, DOMAIN t \ timedOut)
    OBVIOUS
  <1>12. PICK z : z = a \o b
    OBVIOUS
  <1>13. PICK v : v = s \o t
    OBVIOUS
  <1>14. s \in Seq(Command) /\ t \in Seq(Command) /\ outgoing \in Seq(Command)
    BY <1>1, <1>5, <1>6 DEF SenderInv
  <1>15. PICK A : A = DOMAIN s \ sent
    OBVIOUS
  <1>16. PICK B : B = DOMAIN t \ timedOut
    OBVIOUS
  <1>17. A \in SUBSET DOMAIN s /\ B \in SUBSET DOMAIN t
    BY <1>15, <1>16
  <1>18. z \in Seq(Command) /\ a \in Seq(Command) /\ b \in Seq(Command)
    <2>1. a \in Seq(Command) /\ b \in Seq(Command)
      BY <1>10, <1>11, <1>14, <1>15, <1>16, <1>17, PickPlaces
    <2>. QED
      BY <1>12, <2>1, Joined
  <1>19. PICK l \in Nat : l = Len(s)
    BY <1>14
  <1>20. PICK k \in Nat : k = Len(t)
    BY <1>14
  <1>21. /\ v \in Seq(Command) /\ DOMAIN v = 1..(l + k)
         /\ \A i \in 1..l : v[i] = s[i]
         /\ \A i \in 1..k : v[l + i] = t[i]
         /\ DOMAIN s = 1..l /\ DOMAIN t = 1..k
    BY <1>13, <1>14, <1>19, <1>20, Joined
  <1>22. PICK q : /\ Rearranges(z, v, q)
                  /\ \A i \in DOMAIN v : (i \in A \/ i - l \in B) <=> \E j \in DOMAIN z : q[j] = i
    <2>1. Joins(Pick(s, A) \o Pick(t, B), s \o t, A, Len(s), B)
      BY <1>14, <1>17, JoinedPicks
    <2>2. z = Pick(s, A) \o Pick(t, B) /\ v = s \o t /\ l = Len(s)
      BY <1>10, <1>11, <1>12, <1>13, <1>15, <1>16, <1>19
    <2>3. Joins(z, v, A, l, B)
      BY <2>1, <2>2
    <2>. QED
      BY <2>3 DEF Joins
  <1>23. Unacknowledged = v /\ Unacknowledged' = z
    BY <1>5, <1>6, <1>9, <1>10, <1>11, <1>12, <1>13 DEF Unacknowledged
  <1>24. \A i \in DOMAIN v : v[i].seq = n => v[i] = c
    BY <1>1, <1>3, <1>4, <1>23, OneSuch DEF SenderInv, Unanswered
  <1>25. \A i, j \in DOMAIN v : v[i].seq = n /\ v[j].seq = n => i = j
    BY <1>1, <1>23, <1>24 DEF SenderInv, Unanswered
  <1>26. \A i \in DOMAIN v : i \in 1..l \/ \E j \in 1..k : i = l + j
    <2>. TAKE i \in DOMAIN v
    <2>1. CASE i <= l
      BY <1>21, <2>1
    <2>2. CASE i > l
      <3>1. i - l \in 1..k /\ i = l + (i - l)
        BY <1>21, <2>2
      <3>. QED
        BY <3>1
    <2>. QED
      BY <1>21, <2>1, <2>2
  <1>27. \A i \in DOMAIN v : v[i].seq # n <=> (i \in A \/ i - l \in B)
    <2>. TAKE i \in DOMAIN v
    <2>1. CASE i \in 1..l
      <3>1. i - l \notin B
        BY <1>16, <1>21, <2>1
      <3>. QED
        BY <1>7, <1>15, <1>21, <2>1, <3>1
    <2>2. ASSUME NEW j \in 1..k, i = l + j PROVE v[i].seq # n <=> (i \in A \/ i - l \in B)
      <3>1. i \notin A /\ i - l = j /\ v[i] = t[j] /\ j \in DOMAIN t
        BY <1>15, <1>21, <2>2
      <3>2. CASE sent = {}
        BY <1>8, <1>16, <3>1, <3>2
      <3>3. ASSUME NEW h \in sent PROVE v[i].seq # n <=> (i \in A \/ i - l \in B)
        <4>1. h \in 1..l /\ s[h].seq = n
          BY <1>7, <1>21
        <4>2. h \in DOMAIN v /\ v[h].seq = n /\ h # i
          BY <1>21, <2>2, <4>1
        <4>3. v[i].seq # n
          BY <1>25, <4>2
        <4>4. j \in B
          BY <1>8, <1>16, <3>1
        <4>. QED
          BY <3>1, <4>3, <4>4
      <3>. QED
        BY <3>2, <3>3
    <2>. QED
      BY <1>26, <2>1, <2>2
  <1>28. sent \cup timedOut # {} <=> \E i \in DOMAIN v : v[i].seq = n
    <2>1. ASSUME NEW i \in sent PROVE \E j \in DOMAIN v : v[j].seq = n
      <3>1. i \in 1..l /\ s[i].seq = n
        BY <1>7, <1>21
      <3>2. i \in DOMAIN v /\ v[i].seq = n
        BY <1>21, <3>1
      <3>. QED
        BY <3>2
    <2>2. ASSUME NEW i \in timedOut PROVE \E j \in DOMAIN v : v[j].seq = n
      <3>1. i \in 1..k /\ t[i].seq = n
        BY <1>8, <1>21
      <3>2. l + i \in DOMAIN v /\ v[l + i].seq = n
        BY <1>21, <3>1
      <3>. QED
        BY <3>2
    <2>3. ASSUME NEW i \in DOMAIN v, v[i].seq = n PROVE sent \cup timedOut # {}
      <3>1. CASE i \in 1..l
        BY <1>7, <1>21, <2>3, <3>1
      <3>2. ASSUME NEW j \in 1..k, i = l + j PROVE sent \cup timedOut # {}
        <4>1. t[j].seq = n /\ j \in DOMAIN t
          BY <1>21, <2>3, <3>2
        <4>. QED
          BY <1>8, <4>1
      <3>. QED
        BY <1>26, <3>1, <3>2
    <2>. QED
      BY <2>1, <2>2, <2>3
  <1>29. SenderInv'
    <2>1. Unanswered(z)
      BY <1>1, <1>18, <1>21, <1>22, <1>23, RearrangedUnanswered DEF SenderInv
    <2>2. PICK queue : queue = outgoing
      OBVIOUS
    <2>3. Waiting(queue)
      BY <1>1, <2>2 DEF SenderInv
    <2>4. Unanswered(z)' /\ Waiting(queue)' /\ LastSent' = LastSent
      BY <1>2, <2>1, <2>3, SameSent
    <2>5. Unanswered(Unacknowledged)' /\ Waiting(outgoing)'
      BY <1>2, <1>23, <2>2, <2>4
    <2>6. {sentReliableCommands', resend', outgoing'} \subseteq Seq(Command) /\ LastSent' \in Nat
      BY <1>1, <1>2, <1>9, <1>10, <1>11, <1>14, <1>18, <2>4 DEF SenderInv
    <2>. QED
      BY <2>5, <2>6 DEF SenderInv
  <1>30. /\ reliableDataInTransit' = Len(sentReliableCommands')
         /\ reliableDataInTransit' <= MaxInTransit
    <2>1. reliableDataInTransit = l /\ reliableDataInTransit <= MaxInTransit
      BY <1>1, <1>5, <1>19 DEF CountersInv, CountersMatch
    <2>2. sent \in SUBSET DOMAIN s
      BY <1>7
    <2>3. Cardinality(DOMAIN s \ sent) = l - Cardinality(sent) /\ Cardinality(sent) \in Nat
      <3>1. Cardinality(sent) = Len(Pick(s, sent)) /\ Pick(s, sent) \in Seq(Command)
        BY <1>14, <2>2, PickLength, PickPlaces
      <3>2. Cardinality(DOMAIN s \ sent) = l - Cardinality(sent)
        BY <1>14, <1>19, <2>2, PickLength
      <3>. QED
        BY <3>1, <3>2
    <2>4. Len(a) = Cardinality(DOMAIN s \ sent)
      BY <1>10, <1>14, <1>15, <1>17, PickLength
    <2>. QED
      BY <1>9, <1>10, <2>1, <2>3, <2>4, Sizes
  <1>31. PICK I : I = {i \in DOMAIN v : v[i].seq # n}
    OBVIOUS
  <1>32. \A w : Cardinality(Held(z, w, DOMAIN z)) = Cardinality(Held(v, w, I))
    <2>. TAKE w
    <2>1. \A i \in DOMAIN v : i \in I <=> \E j \in DOMAIN z : q[j] = i
      BY <1>22, <1>27, <1>31
    <2>2. v \in Seq(Command) /\ z \in Seq(Command) /\ Rearranges(z, v, q)
      BY <1>18, <1>21, <1>22
    <2>. QED
      BY <2>1, <2>2, HeldMoved
  <1>33. \A w \in 0..(Windows - 1) :
             reliableWindows'[w] = Cardinality(Held(z, w, DOMAIN z))
    <2>. TAKE w \in 0..(Windows - 1)
    <2>1. PICK H : H = Held(v, w, DOMAIN v)
      OBVIOUS
    <2>2. IsFiniteSet(H) /\ Cardinality(H) \in Nat
      BY <1>21, <2>1, HeldFinite
    <2>3. reliableWindows[w] = Cardinality(H)
      <3>1. H = {i \in DOMAIN v : Window(v[i].seq) = w}
        BY <2>1 DEF Held
      <3>. QED
        BY <1>1, <1>23, <3>1 DEF CountersInv, CountersMatch
    <2>4. /\ w # Window(n) => reliableWindows'[w] = reliableWindows[w]
          /\ w = Window(n) => reliableWindows'[w] =
                IF sent \cup timedOut # {} /\ reliableWindows[w] > 0
                THEN reliableWindows[w] - 1 ELSE reliableWindows[w]
      BY <1>1, <1>9 DEF CountersInv
    <2>5. CASE \A i \in DOMAIN v : v[i].seq # n
      <3>1. Held(v, w, I) = H
        BY <1>31, <2>1, <2>5 DEF Held
      <3>2. reliableWindows'[w] = reliableWindows[w]
        BY <1>28, <2>4, <2>5
      <3>. QED
        BY <1>32, <2>3, <3>1, <3>2
    <2>6. ASSUME NEW r \in DOMAIN v, v[r].seq = n
          PROVE  reliableWindows'[w] = Cardinality(Held(z, w, DOMAIN z))
      <3>1. Held(v, w, I) = H \ {r}
        BY <1>25, <1>31, <2>1, <2>6 DEF Held
      <3>2. Cardinality(H \ {r}) = IF r \in H THEN Cardinality(H) - 1 ELSE Cardinality(H)
        BY <2>2, FS_RemoveElement
      <3>3. r \in H <=> w = Window(n)
        BY <2>1, <2>6 DEF Held
      <3>4. r \in H => Cardinality(H) > 0
        <4>1. SUFFICES ASSUME r \in H, Cardinality(H) = 0 PROVE FALSE
          BY <2>2
        <4>2. H = {}
          BY <2>2, <4>1, FS_EmptySet
        <4>. QED
          BY <4>1, <4>2
      <3>5. sent \cup timedOut # {}
        BY <1>28, <2>6
      <3>6. CASE r \in H
        <4>1. reliableWindows'[w] = Cardinality(H) - 1
          BY <2>3, <2>4, <3>3, <3>4, <3>5, <3>6
        <4>. QED
          BY <1>32, <3>1, <3>2, <3>6, <4>1
      <3>7. CASE r \notin H
        <4>1. reliableWindows'[w] = Cardinality(H)
          BY <2>3, <2>4, <3>3, <3>7
        <4>. QED
          BY <1>32, <3>1, <3>2, <3>7, <4>1
      <3>. QED
        BY <3>6, <3>7
    <2>. QED
      BY <2>5, <2>6
  <1>34. CountersInv'
    <2>1. \A w \in 0..(Windows - 1) :
            /\ reliableWindows'[w] = Cardinality({i \in DOMAIN z : Window(z[i].seq) = w})
            /\ reliableWindows'[w] \in Nat
      <3>. TAKE w \in 0..(Windows - 1)
      <3>1. Held(z, w, DOMAIN z) = {i \in DOMAIN z : Window(z[i].seq) = w}
        BY DEF Held
      <3>2. Cardinality(Held(z, w, DOMAIN z)) \in Nat
        BY <1>18, HeldFinite
      <3>. QED
        BY <1>33, <3>1, <3>2
    <2>2. CountersMatch'
      BY <1>23, <1>30, <2>1 DEF CountersMatch
    <2>3. DOMAIN reliableWindows' = 0..(Windows - 1)
          /\ reliableWindows' = [w \in 0..(Windows - 1) |-> reliableWindows'[w]]
      BY <1>1, <1>9 DEF CountersInv
    <2>4. reliableWindows' \in [0..(Windows - 1) -> Nat]
      BY <2>1, <2>3
    <2>. QED
      BY <1>30, <2>2, <2>4 DEF CountersInv
  <1>35. \A x : (\E y \in {Unacknowledged, outgoing} : \E i \in DOMAIN y : y[i] = x) =>
                   \/ \E y \in {Unacknowledged', outgoing'} : \E i \in DOMAIN y : y[i] = x
                   \/ Received(x.packet, x.part)
    <2>1. ASSUME NEW i \in DOMAIN v
          PROVE  (\E j \in DOMAIN z : z[j] = v[i]) \/ Received(v[i].packet, v[i].part)
      <3>1. CASE v[i].seq = n
        BY <1>3, <1>24, <3>1
      <3>2. CASE v[i].seq # n
        <4>1. PICK j \in DOMAIN z : q[j] = i
          BY <1>22, <1>27, <3>2
        <4>2. z[j] = v[i]
          BY <1>18, <1>22, <4>1 DEF Rearranges
        <4>. QED
          BY <4>2
      <3>. QED
        BY <3>1, <3>2
    <2>. QED
      BY <1>2, <1>23, <2>1
  <1>36. LastSent <= LastSent'
    BY <1>1, <1>2, SameSent DEF SenderInv
  <1>37. \A d \in wire' : d \in wire \/ OnWire(d)'
    BY <1>2
  <1>. QED
    BY <1>2, <1>29, <1>34, <1>35, <1>36, <1>37, StepOwes

(* Losing a datagram keeps the invariant.                                     *)
LEMMA LoseKeeps ==
    ASSUME IInv, NEW d, Lose(d), Fresh'
    PROVE  IInv'
  <1>1. /\ SenderInv /\ CountersInv
    BY DEF IInv
  <1>2. /\ UNCHANGED sender /\ UNCHANGED receiver /\ wire' \subseteq wire
    BY DEF Lose
  <1>3. /\ UNCHANGED <<plan, packets, outgoingReliableSequenceNumber, outgoingUnreliableSequenceNumber>>
        /\ UNCHANGED <<resend, outgoing, sentReliableCommands, reliableWindows, reliableDataInTransit>>
    BY <1>2 DEF sender
  <1>4. Unacknowledged' = Unacknowledged
    BY <1>3 DEF Unacknowledged
  <1>5. SenderInv' /\ LastSent <= LastSent'
    <2>1. PICK list : list = Unacknowledged
      OBVIOUS
    <2>2. PICK queue : queue = outgoing
      OBVIOUS
    <2>3. Unanswered(list)' /\ Waiting(queue)' /\ LastSent' = LastSent /\ LastSent \in Nat
      BY <1>1, <1>3, <2>1, <2>2, SameSent DEF SenderInv
    <2>4. Unanswered(Unacknowledged)' /\ Waiting(outgoing)'
      BY <1>3, <1>4, <2>1, <2>2, <2>3
    <2>. QED
      BY <1>1, <1>3, <2>3, <2>4 DEF SenderInv
  <1>6. CountersInv'
    BY <1>1, <1>3, <1>4 DEF CountersInv, CountersMatch
  <1>7. \A d2 \in wire' : d2 \in wire \/ OnWire(d2)'
    BY <1>2
  <1>. QED
    BY <1>2, <1>3, <1>4, <1>5, <1>6, <1>7, StepOwes

--------------------------------------------------------------------------------
(* A command is sent for the first time.                                         *)

(* When the sender opens a window, nothing is unanswered that is so far behind that the   *)
(* receiver would take the new window for one it had.                           *)
LEMMA StaysInReach ==
    ASSUME PacketsInv, SenderInv, CountersInv, NEW c, Legit(c), Absolute(c) = LastSent + 1,
           ~ WindowWraps(c.seq),
           NEW i \in DOMAIN Unacknowledged
    PROVE  Turn(LastSent + 1) <= Turn(Absolute(Unacknowledged[i])) + (Windows - FreeWindows - 2)
  <1>1. PICK x : x = Unacknowledged[i]
    OBVIOUS
  <1>2. PICK L \in Nat : L = LastSent
    BY DEF SenderInv
  <1>3. InReach(x)
    BY <1>1 DEF SenderInv, Unanswered
  <1>4. PICK a \in Nat : a = Absolute(x)
    BY <1>3, CommandIs DEF InReach
  <1>5. /\ Turn(L) <= Turn(a) + (Windows - FreeWindows - 2)
        /\ x.seq = a % Numbers /\ c.seq = (L + 1) % Numbers
    BY <1>2, <1>3, <1>4, CommandIs DEF InReach
  <1>6. /\ Turn(L) \in Nat /\ Turn(a) \in Nat /\ Turn(L + 1) \in Nat
        /\ Windows \in Nat \ {0} /\ FreeWindows \in Nat
    <2>1. L + 1 \in Nat
      OBVIOUS
    <2>. QED
      BY <2>1, TurnIs, Sizes
  <1>7. SUFFICES ASSUME ~(Turn(L + 1) <= Turn(a) + (Windows - FreeWindows - 2)) PROVE FALSE
    BY <1>1, <1>2, <1>4
  <1>8. /\ Turn(L + 1) = Turn(L) + 1 /\ (L + 1) % WindowSize = 0
        /\ Turn(a) + (Windows - FreeWindows - 1) = Turn(L + 1)
    <2>1. Turn(L + 1) = Turn(L) + 1 /\ (L + 1) % WindowSize = 0
      BY <1>5, <1>6, <1>7, NextTurn
    <2>. QED
      BY <1>5, <1>6, <1>7, <2>1
  <1>9. PICK p \in Nat : Turn(L + 1) = Windows * p + Window(c.seq)
    <2>1. L + 1 \in Nat
      OBVIOUS
    <2>. QED
      BY <1>5, <2>1, Wraps
  <1>10. PICK q \in Nat : Turn(a) = Windows * q + Window(x.seq)
    BY <1>5, Wraps
  <1>11. /\ Window(x.seq) \in 0..(Windows - 1) /\ Window(c.seq) \in 0..(Windows - 1)
         /\ c.seq % WindowSize = 0
    <2>1. L + 1 \in Nat
      OBVIOUS
    <2>. QED
      BY <1>5, <1>8, <2>1, Wraps
  <1>12. (Window(c.seq) + (FreeWindows + 1)) % Windows = Window(x.seq)
    <2>1. PICK n : n = Window(c.seq) + (FreeWindows + 1)
      OBVIOUS
    <2>2. PICK k : k = q + 1 - p
      OBVIOUS
    <2>3. n \in Int /\ k \in Int
      BY <1>6, <1>11, <2>1, <2>2
    <2>4. Windows * k = Windows * q + Windows - Windows * p
      BY <1>6, <2>2
    <2>5. n = Windows * k + Window(x.seq)
      <3>1. Windows * q \in Int /\ Windows * p \in Int /\ Window(x.seq) \in Int /\ Window(c.seq) \in Int
        BY <1>6, <1>11
      <3>. QED
        BY <1>6, <1>8, <1>9, <1>10, <2>1, <2>4, <3>1
    <2>6. n % Windows = Window(x.seq)
      BY <1>6, <1>11, <2>3, <2>5, Quotient
    <2>. QED
      BY <2>1, <2>6
  <1>13. ~(reliableWindows[Window(x.seq)] > 0)
    <2>1. FreeWindows + 1 \in 0..(FreeWindows + 1)
      BY <1>6
    <2>2. ~(reliableWindows[(Window(c.seq) + (FreeWindows + 1)) % Windows] > 0)
      BY <1>11, <2>1 DEF WindowWraps
    <2>. QED
      BY <1>12, <2>2
  <1>14. PICK H : H = {j \in DOMAIN Unacknowledged : Window(Unacknowledged[j].seq) = Window(x.seq)}
    OBVIOUS
  <1>15. reliableWindows[Window(x.seq)] = Cardinality(H) /\ i \in H
    BY <1>1, <1>11, <1>14 DEF CountersInv, CountersMatch
  <1>16. IsFiniteSet(H) /\ Cardinality(H) \in Nat
    <2>1. Unacknowledged \in Seq(Command)
      BY DEF SenderInv, Unacknowledged
    <2>2. H = Held(Unacknowledged, Window(x.seq), DOMAIN Unacknowledged)
      BY <1>14 DEF Held
    <2>. QED
      BY <2>1, <2>2, HeldFinite
  <1>17. Cardinality(H) = 0
    BY <1>13, <1>15, <1>16
  <1>. QED
    BY <1>15, <1>16, <1>17, FS_EmptySet

(* Sending a command for the first time keeps the invariant.                  *)
LEMMA SendFirstKeeps ==
    ASSUME IInv, SendFirst, Fresh'
    PROVE  IInv'
  <1>1. /\ PacketsInv /\ SenderInv /\ CountersInv /\ WireInv
    BY DEF IInv
  <1>2. PICK s : s = sentReliableCommands
    OBVIOUS
  <1>3. PICK t : t = outgoing
    OBVIOUS
  <1>4. PICK c : c = Head(t)
    OBVIOUS
  <1>5. s \in Seq(Command) /\ t \in Seq(Command) /\ t # <<>> /\ resend = <<>>
    BY <1>1, <1>2, <1>3 DEF SenderInv, SendFirst
  <1>6. PICK u : u = Append(s, c)
    OBVIOUS
  <1>7. PICK r : r = Tail(t)
    OBVIOUS
  <1>8. /\ sentReliableCommands' = u /\ outgoing' = r /\ resend' = <<>>
        /\ reliableDataInTransit + 1 <= MaxInTransit
        /\ reliableDataInTransit' = reliableDataInTransit + 1
        /\ wire' = wire \cup {Send(c)}
        /\ reliableWindows' = [reliableWindows EXCEPT ![Window(c.seq)] = @ + 1]
        /\ ~ WindowWraps(c.seq)
        /\ UNCHANGED <<plan, packets, outgoingReliableSequenceNumber, outgoingUnreliableSequenceNumber>>
        /\ UNCHANGED receiver
    BY <1>2, <1>3, <1>4, <1>5, <1>6, <1>7 DEF SendFirst, Transmit
  <1>9. PICK l \in Nat : l = Len(s)
    BY <1>5
  <1>10. PICK k \in Nat \ {0} : k = Len(t)
    BY <1>5
  <1>11. /\ c = t[1] /\ c \in Command /\ 1 \in DOMAIN t
         /\ u \in Seq(Command) /\ DOMAIN u = 1..(l + 1) /\ Len(u) = l + 1 /\ u[l + 1] = c
         /\ \A i \in 1..l : u[i] = s[i]
         /\ r \in Seq(Command) /\ DOMAIN r = 1..(k - 1) /\ Len(r) = k - 1
         /\ \A i \in 1..(k - 1) : r[i] = t[i + 1]
         /\ DOMAIN s = 1..l /\ DOMAIN t = 1..k
    BY <1>4, <1>5, <1>6, <1>7, <1>9, <1>10
  <1>12. Unacknowledged = s /\ Unacknowledged' = u
    <2>1. s \o <<>> = s /\ u \o <<>> = u
      BY <1>5, <1>11
    <2>. QED
      BY <1>2, <1>5, <1>8, <2>1 DEF Unacknowledged
  <1>13. /\ Numbered' = Numbered
         /\ \A x : (Legit(x)' <=> Legit(x)) /\ Absolute(x)' = Absolute(x)
    BY <1>8 DEF Numbered, Width, Legit, Absolute
  <1>14. LastSent' = LastSent + 1 /\ LastSent \in Nat /\ LastSent' \in Nat
    <2>1. LastSent = Numbered - k /\ LastSent' = Numbered - (k - 1) /\ LastSent \in Nat /\ Numbered \in Nat
      BY <1>1, <1>3, <1>8, <1>10, <1>11, <1>13 DEF LastSent, SenderInv, PacketsInv
    <2>. QED
      BY <2>1
  <1>15. \A i \in 1..k : Legit(t[i]) /\ t[i].reliable /\ Absolute(t[i]) = LastSent + i
    BY <1>1, <1>3, <1>11 DEF SenderInv, Waiting
  <1>16. Legit(c) /\ c.reliable /\ Absolute(c) = LastSent + 1
    BY <1>11, <1>15
  <1>17. Waiting(r)'
    <2>1. ASSUME NEW i \in DOMAIN r
          PROVE  Legit(r[i])' /\ r[i].reliable /\ Absolute(r[i])' = LastSent' + i
      <3>1. i + 1 \in 1..k /\ r[i] = t[i + 1] /\ i \in Nat
        BY <1>11
      <3>2. Legit(t[i + 1]) /\ t[i + 1].reliable /\ Absolute(t[i + 1]) = LastSent + (i + 1)
        BY <1>15, <3>1
      <3>3. LastSent + (i + 1) = LastSent' + i
        BY <1>14, <3>1
      <3>. QED
        BY <1>13, <3>1, <3>2, <3>3
    <2>. QED
      BY <2>1 DEF Waiting
  <1>18. \A i \in 1..l : /\ InReach(s[i]) /\ Absolute(s[i]) \in Nat /\ Absolute(s[i]) <= LastSent
                         /\ InReach(s[i])'
    <2>. TAKE i \in 1..l
    <2>1. InReach(s[i])
      BY <1>1, <1>11, <1>12 DEF SenderInv, Unanswered
    <2>2. Absolute(s[i]) \in Nat /\ Absolute(s[i]) <= LastSent
      BY <1>1, <2>1, CommandIs DEF InReach
    <2>3. Turn(LastSent + 1) <= Turn(Absolute(s[i])) + (Windows - FreeWindows - 2)
      BY <1>1, <1>8, <1>11, <1>12, <1>16, StaysInReach
    <2>4. PICK x : x = s[i]
      OBVIOUS
    <2>5. Absolute(x)' = Absolute(x) /\ Legit(x)' /\ x.reliable
      BY <1>13, <2>1, <2>4 DEF InReach
    <2>6. Absolute(x)' <= LastSent'
      BY <1>14, <2>2, <2>4, <2>5
    <2>7. Turn(LastSent') <= Turn(Absolute(x)') + (Windows - FreeWindows - 2)
      BY <1>14, <2>3, <2>4, <2>5
    <2>8. InReach(x)'
      BY <2>5, <2>6, <2>7 DEF InReach, Turn
    <2>. QED
      BY <2>1, <2>2, <2>4, <2>8
  <1>19. InReach(c)'
    <2>1. Absolute(c)' = LastSent' /\ Legit(c)'
      BY <1>13, <1>14, <1>16
    <2>2. Turn(LastSent') \in Nat /\ Windows - FreeWindows - 2 \in Nat
      <3>1. \A n \in Nat : Turn(n) \in Nat
        BY TurnIs
      <3>. QED
        BY <1>14, <3>1, Sizes
    <2>3. Turn(LastSent') <= Turn(Absolute(c)') + (Windows - FreeWindows - 2)
      BY <2>1, <2>2
    <2>4. Absolute(c)' <= LastSent'
      BY <1>14, <2>1
    <2>. QED
      BY <1>16, <2>1, <2>3, <2>4 DEF InReach, Turn
  <1>20. \A i \in 1..(l + 1) : i \in 1..l \/ i = l + 1
    OBVIOUS
  <1>21. Unanswered(u)'
    <2>1. \A i \in DOMAIN u : InReach(u[i])'
      BY <1>11, <1>18, <1>19, <1>20
    <2>2. \A i, j \in 1..l : Absolute(s[i]) = Absolute(s[j]) => i = j
      BY <1>1, <1>11, <1>12 DEF SenderInv, Unanswered
    <2>3. \A i \in 1..l : Absolute(s[i]) # Absolute(c)
      BY <1>14, <1>16, <1>18
    <2>4. \A i, j \in DOMAIN u : Absolute(u[i]) = Absolute(u[j]) => i = j
      BY <1>11, <1>20, <2>2, <2>3
    <2>5. \A i, j \in DOMAIN u : Absolute(u[i])' = Absolute(u[j])' => i = j
      BY <1>13, <2>4
    <2>. QED
      BY <2>1, <2>5 DEF Unanswered
  <1>22. SenderInv'
    <2>1. Unanswered(Unacknowledged)' /\ Waiting(outgoing)'
      BY <1>8, <1>12, <1>17, <1>21
    <2>2. {sentReliableCommands', resend', outgoing'} \subseteq Seq(Command)
      BY <1>8, <1>11
    <2>. QED
      BY <1>14, <2>1, <2>2 DEF SenderInv
  <1>23. CountersInv'
    <2>1. reliableDataInTransit' = Len(sentReliableCommands') /\ reliableDataInTransit' <= MaxInTransit
      BY <1>1, <1>2, <1>8, <1>9, <1>11 DEF CountersInv, CountersMatch
    <2>2. \A w \in 0..(Windows - 1) :
            /\ reliableWindows'[w] = Cardinality({i \in DOMAIN u : Window(u[i].seq) = w})
            /\ reliableWindows'[w] \in Nat
      <3>. TAKE w \in 0..(Windows - 1)
      <3>1. PICK H : H = {i \in DOMAIN s : Window(s[i].seq) = w}
        OBVIOUS
      <3>2. reliableWindows[w] = Cardinality(H) /\ reliableWindows[w] \in Nat
        BY <1>1, <1>12, <3>1 DEF CountersInv, CountersMatch
      <3>3. IsFiniteSet(H)
        <4>1. H = Held(s, w, DOMAIN s)
          BY <3>1 DEF Held
        <4>. QED
          BY <1>5, <4>1, HeldFinite
      <3>4. PICK G : G = {i \in DOMAIN u : Window(u[i].seq) = w}
        OBVIOUS
      <3>5. CASE Window(c.seq) = w
        <4>1. G = H \cup {l + 1} /\ l + 1 \notin H
          BY <1>11, <1>20, <3>1, <3>4, <3>5
        <4>2. Cardinality(G) = Cardinality(H) + 1
          BY <3>3, <4>1, FS_AddElement
        <4>3. reliableWindows'[w] = reliableWindows[w] + 1
          BY <1>1, <1>8, <3>5 DEF CountersInv
        <4>. QED
          BY <3>2, <3>4, <4>2, <4>3
      <3>6. CASE Window(c.seq) # w
        <4>1. G = H
          BY <1>11, <1>20, <3>1, <3>4, <3>6
        <4>2. reliableWindows'[w] = reliableWindows[w]
          BY <1>1, <1>8, <3>6 DEF CountersInv
        <4>. QED
          BY <3>2, <3>4, <4>1, <4>2
      <3>. QED
        BY <3>5, <3>6
    <2>3. CountersMatch'
      BY <1>12, <2>1, <2>2 DEF CountersMatch
    <2>4. DOMAIN reliableWindows' = 0..(Windows - 1)
          /\ reliableWindows' = [w \in 0..(Windows - 1) |-> reliableWindows'[w]]
      BY <1>1, <1>8 DEF CountersInv
    <2>5. reliableWindows' \in [0..(Windows - 1) -> Nat]
      BY <2>2, <2>4
    <2>. QED
      BY <2>1, <2>3, <2>5 DEF CountersInv
  <1>24. \A d \in wire' : d \in wire \/ OnWire(d)'
    <2>1. OnWire(Send(c))'
      <3>1. Legit(c)' /\ c.reliable /\ Absolute(c)' <= LastSent'
        BY <1>19 DEF InReach
      <3>. QED
        BY <3>1 DEF OnWire, Send, Acknowledge
    <2>. QED
      BY <1>8, <2>1
  <1>25. \A x : (\E y \in {Unacknowledged, outgoing} : \E i \in DOMAIN y : y[i] = x) =>
                   \E y \in {Unacknowledged', outgoing'} : \E i \in DOMAIN y : y[i] = x
    <2>1. ASSUME NEW i \in 1..l PROVE \E j \in DOMAIN u : u[j] = s[i]
      <3>1. i \in DOMAIN u
        BY <1>11
      <3>. QED
        BY <1>11, <3>1
    <2>2. ASSUME NEW i \in 1..k PROVE (\E j \in DOMAIN u : u[j] = t[i]) \/ (\E j \in DOMAIN r : r[j] = t[i])
      <3>1. CASE i = 1
        <4>1. l + 1 \in DOMAIN u /\ u[l + 1] = t[i]
          BY <1>11, <3>1
        <4>. QED
          BY <4>1
      <3>2. CASE i # 1
        <4>1. i - 1 \in 1..(k - 1) /\ (i - 1) + 1 = i
          BY <3>2
        <4>2. i - 1 \in DOMAIN r /\ r[i - 1] = t[i]
          BY <1>11, <4>1
        <4>. QED
          BY <4>2
      <3>. QED
        BY <3>1, <3>2
    <2>. QED
      BY <1>3, <1>8, <1>11, <1>12, <2>1, <2>2
  <1>26. LastSent <= LastSent'
    BY <1>14
  <1>. QED
    BY <1>8, <1>22, <1>23, <1>24, <1>25, <1>26, StepOwes

--------------------------------------------------------------------------------
(* How far the sender may be ahead.                                             *)

(* A packet that was not delivered misses a part that the sender still keeps.       *)
LEMMA MissingPart ==
    ASSUME PacketsInv, NothingAcknowledgedIsLost, NEW m \in Nat, ReceiverInv(m), m # Numbered
    PROVE  \E p \in DOMAIN packets : \E k \in 0..(packets[p].fragments - 1) :
             /\ packets[p].reliable /\ packets[p].after = m
             /\ \E s \in {Unacknowledged, outgoing} : \E i \in DOMAIN s :
                   s[i].packet = p /\ s[i].part = k
  <1>1. PICK p \in DOMAIN packets : packets[p].reliable /\ packets[p].after = m
    BY DEF ReceiverInv, Boundary
  <1>2. PICK f \in Nat \ {0} : f = packets[p].fragments
    BY PacketIs
  <1>3. PICK list : list = incomingReliableCommands
    OBVIOUS
  <1>4. /\ list \in Seq(Queued)
        /\ \A i \in DOMAIN list : Assembles(list[i], Of(list[i]), m)
        /\ \A i, j \in DOMAIN list : i < j => Of(list[i]) < Of(list[j])
        /\ list # <<>> => ~ (Complete(list[1]) /\ packets[Of(list[1])].after = m)
    BY <1>3 DEF ReceiverInv, InRow, FirstWaits
  <1>5. SUFFICES ASSUME \A k \in 0..(f - 1) : Received(p, k) PROVE FALSE
    BY <1>1, <1>2 DEF NothingAcknowledgedIsLost
  <1>6. ~ IsDelivered(p)
    BY <1>1 DEF ReceiverInv
  <1>7. \A k \in 0..(f - 1) : \E i \in DOMAIN list : <<k, p>> \in list[i].parts
    BY <1>3, <1>5, <1>6 DEF Received, IsDelivered
  <1>8. \A i \in DOMAIN list : \A k : <<k, p>> \in list[i].parts => Of(list[i]) = p
    BY <1>4 DEF Assembles
  <1>9. PICK i \in DOMAIN list : Of(list[i]) = p
    <2>1. 0 \in 0..(f - 1)
      BY <1>2
    <2>2. PICK j \in DOMAIN list : <<0, p>> \in list[j].parts
      BY <1>7, <2>1
    <2>. QED
      BY <1>8, <2>2
  <1>10. i = 1
    <2>1. SUFFICES ASSUME i # 1 PROVE FALSE
      OBVIOUS
    <2>2. 1 \in DOMAIN list /\ 1 < i
      BY <1>4, <2>1
    <2>3. PICK o : o = Of(list[1])
      OBVIOUS
    <2>4. o < p /\ o \in DOMAIN packets /\ packets[o].reliable /\ m <= packets[o].after
      BY <1>4, <1>9, <2>2, <2>3 DEF Assembles
    <2>5. Ending(o) <= packets[p].after
      BY <2>4 DEF PacketsInv
    <2>6. /\ Ending(o) = packets[o].after + packets[o].fragments
          /\ packets[o].fragments \in Nat \ {0} /\ packets[o].after \in Nat
      BY <2>4, PacketIs
    <2>. QED
      BY <1>1, <2>4, <2>5, <2>6
  <1>11. \A j \in DOMAIN list : Of(list[j]) = p => j = 1
    <2>. SUFFICES ASSUME NEW j \in DOMAIN list, Of(list[j]) = p, j # 1 PROVE FALSE
      OBVIOUS
    <2>1. 1 \in DOMAIN list /\ 1 < j
      BY <1>4
    <2>2. Of(list[1]) < Of(list[j])
      BY <1>4, <2>1
    <2>3. p \in Nat
      BY PacketIs
    <2>. QED
      BY <1>9, <1>10, <2>2, <2>3
  <1>12. PICK e : e = list[1]
    OBVIOUS
  <1>13. Assembles(e, p, m) /\ e.fragments = f
    BY <1>2, <1>4, <1>9, <1>10, <1>12 DEF Assembles
  <1>14. \A k \in 0..(f - 1) : <<k, p>> \in e.parts
    BY <1>7, <1>8, <1>11, <1>12
  <1>15. e.parts = {<<k, p>> : k \in 0..(f - 1)}
    BY <1>13, <1>14 DEF Assembles
  <1>16. Cardinality(e.parts) = f
    <2>. DEFINE all == 0..(f - 1)
                g == [k \in all |-> <<k, p>>]
    <2>1. g \in [all -> e.parts]
      BY <1>14
    <2>2. \A j, k \in all : g[j] = g[k] => j = k
      OBVIOUS
    <2>3. \A x \in e.parts : \E k \in all : g[k] = x
      BY <1>15
    <2>4. IsFiniteSet(all) /\ Cardinality(all) = f
      BY FS_Interval
    <2>. HIDE DEF g, all
    <2>5. ExistsBijection(all, e.parts)
      BY <2>1, <2>2, <2>3 DEF ExistsBijection, Bijection, Injection, IsInjective, Surjection
    <2>. QED
      BY <2>4, <2>5, FS_Bijection
  <1>17. Complete(e)
    BY <1>13, <1>16 DEF Assembles, Complete
  <1>. QED
    BY <1>1, <1>4, <1>9, <1>10, <1>12, <1>17

(* Hence what was sent is less than a turn of the numbers ahead of the receiver.*)
LEMMA Reach ==
    ASSUME PacketsInv, SenderInv, NothingAcknowledgedIsLost, NEW m \in Nat, ReceiverInv(m)
    PROVE  /\ Turn(LastSent) <= Turn(m) + (Windows - FreeWindows - 1)
           /\ LastSent < m + Numbers
  <1>1. PICK L \in Nat : L = LastSent
    BY DEF SenderInv
  <1>2. m <= L /\ L <= Numbered
    <2>1. Len(outgoing) \in Nat /\ Numbered \in Nat /\ L = Numbered - Len(outgoing)
      BY <1>1 DEF SenderInv, PacketsInv, LastSent
    <2>. QED
      BY <1>1, <2>1 DEF ReceiverInv
  <1>3. PICK d \in Nat : d = Windows - FreeWindows - 1
    BY Sizes
  <1>4. Turn(L) \in Nat /\ Turn(m) \in Nat /\ WindowSize \in Nat \ {0}
    BY TurnIs, Sizes
  <1>5. Turn(L) <= Turn(m) + d
    <2>1. CASE L = m
      BY <1>3, <1>4, <2>1
    <2>2. CASE L # m
      <3>1. m # Numbered
        BY <1>2, <2>2 DEF PacketsInv
      <3>0. PICK p \in DOMAIN packets : \E k \in 0..(packets[p].fragments - 1) :
             /\ packets[p].reliable /\ packets[p].after = m
             /\ \E s \in {Unacknowledged, outgoing} : \E i \in DOMAIN s :
                   s[i].packet = p /\ s[i].part = k
        BY <3>1, MissingPart
      <3>2. PICK k \in 0..(packets[p].fragments - 1) :
             /\ packets[p].reliable /\ packets[p].after = m
             /\ \E s \in {Unacknowledged, outgoing} : \E i \in DOMAIN s :
                   s[i].packet = p /\ s[i].part = k
        BY <3>0
      <3>3. k \in Nat /\ k + 1 <= WindowSize
        <4>1. packets[p].fragments \in Nat \ {0} /\ packets[p].fragments <= WindowSize
          BY PacketIs
        <4>2. k \in Nat /\ k + 1 <= packets[p].fragments
          BY <4>1
        <4>. QED
          BY <4>1, <4>2, Sizes
      <3>4. ASSUME NEW i \in DOMAIN Unacknowledged, Unacknowledged[i].packet = p, Unacknowledged[i].part = k
            PROVE  Turn(L) <= Turn(m) + d
        <4>1. PICK c : c = Unacknowledged[i]
          OBVIOUS
        <4>2. InReach(c)
          BY <4>1 DEF SenderInv, Unanswered
        <4>3. PICK a \in Nat : a = Absolute(c)
          BY <4>2, CommandIs DEF InReach
        <4>4. a = m + k + 1 /\ Turn(L) <= Turn(a) + (Windows - FreeWindows - 2)
          BY <1>1, <3>2, <3>4, <4>1, <4>2, <4>3, CommandIs DEF InReach
        <4>5. a <= m + 1 * WindowSize
          BY <1>4, <3>3, <4>4
        <4>6. Turn(a) <= Turn(m) + 1 /\ Turn(a) \in Nat
          BY <4>5, TurnsApart, TurnIs
        <4>. QED
          BY <1>3, <1>4, <4>4, <4>6, Sizes
      <3>5. ASSUME NEW i \in DOMAIN outgoing, outgoing[i].packet = p, outgoing[i].part = k
            PROVE  Turn(L) <= Turn(m) + d
        <4>1. PICK c : c = outgoing[i]
          OBVIOUS
        <4>2. Legit(c) /\ c.reliable /\ Absolute(c) = L + i
          BY <1>1, <4>1 DEF SenderInv, Waiting
        <4>3. Absolute(c) = m + k + 1
          BY <3>2, <3>5, <4>1, <4>2, CommandIs
        <4>4. i \in Nat \ {0}
          BY DEF SenderInv
        <4>5. L <= m + 1 * WindowSize
          BY <1>4, <3>3, <4>2, <4>3, <4>4
        <4>6. Turn(L) <= Turn(m) + 1
          BY <4>5, TurnsApart
        <4>. QED
          BY <1>3, <1>4, <4>6, Sizes
      <3>. QED
        BY <3>2, <3>4, <3>5
    <2>. QED
      BY <2>1, <2>2
  <1>6. L < m + d * WindowSize + WindowSize
    BY <1>5, TurnsApart
  <1>7. d * WindowSize + WindowSize <= Numbers
    <2>1. Windows \in Nat /\ FreeWindows \in Nat /\ Numbers = WindowSize * Windows
      BY Sizes
    <2>2. d * WindowSize + WindowSize = Numbers - FreeWindows * WindowSize
      BY <1>3, <1>4, <2>1
    <2>3. FreeWindows * WindowSize >= 0
      BY <1>4, <2>1
    <2>4. FreeWindows * WindowSize \in Nat /\ Numbers \in Nat
      BY <1>4, <2>1, Sizes
    <2>. QED
      BY <2>2, <2>3, <2>4
  <1>8. L < m + Numbers
    <2>1. d * WindowSize \in Nat /\ Numbers \in Nat
      BY <1>3, <1>4, Sizes
    <2>. QED
      BY <1>4, <1>6, <1>7, <2>1
  <1>. QED
    BY <1>1, <1>3, <1>5, <1>8

--------------------------------------------------------------------------------
(* The receiver's queues.                                                    *)

(* Insert puts a new entry behind the last of those that come before it.      *)
LEMMA InsertIs ==
    ASSUME NEW S, NEW list \in Seq(S), NEW e \in S
    PROVE  \E place \in 0..Len(list) :
             /\ Insert(list, e) \in Seq(S) /\ Len(Insert(list, e)) = Len(list) + 1
             /\ \A i \in 1..place : Insert(list, e)[i] = list[i]
             /\ Insert(list, e)[place + 1] = e
             /\ \A i \in (place + 1)..Len(list) : Insert(list, e)[i + 1] = list[i]
             /\ place > 0 => Before(list[place], e)
             /\ \A i \in DOMAIN list : Before(list[i], e) => i <= place
  <1>1. PICK n \in Nat : n = Len(list) /\ DOMAIN list = 1..n
    OBVIOUS
  <1>2. PICK P : P = {0} \cup {i \in DOMAIN list : Before(list[i], e)}
    OBVIOUS
  <1>3. PICK place : place = Max(P)
    OBVIOUS
  <1>4. place \in P /\ \A i \in P : i <= place
    <2>1. P \in SUBSET (0..n) /\ P # {}
      BY <1>1, <1>2
    <2>. QED
      BY <1>1, <1>3, <2>1, MaxIs
  <1>5. /\ place \in 0..n
        /\ place > 0 => Before(list[place], e)
        /\ \A i \in DOMAIN list : Before(list[i], e) => i <= place
    BY <1>1, <1>2, <1>4
  <1>6. PICK x : x = SubSeq(list, 1, place)
    OBVIOUS
  <1>7. PICK y : y = SubSeq(list, place + 1, n)
    OBVIOUS
  <1>8. x \in Seq(S) /\ Len(x) = place /\ \A i \in 1..place : x[i] = list[i]
    <2>1. \A i \in 1..place : list[i] \in S
      BY <1>1, <1>5
    <2>2. /\ SubSeq(list, 1, place) \in Seq(S)
          /\ Len(SubSeq(list, 1, place)) = IF 1 <= place THEN place - 1 + 1 ELSE 0
          /\ \A i \in 1..(place - 1 + 1) : SubSeq(list, 1, place)[i] = list[1 + i - 1]
      BY <1>5, <2>1, SubSeqProperties
    <2>. QED
      BY <1>5, <1>6, <2>2
  <1>9. y \in Seq(S) /\ Len(y) = n - place /\ \A i \in 1..(n - place) : y[i] = list[place + i]
    <2>1. \A i \in (place + 1)..n : list[i] \in S
      BY <1>1, <1>5
    <2>2. /\ SubSeq(list, place + 1, n) \in Seq(S)
          /\ Len(SubSeq(list, place + 1, n)) = IF place + 1 <= n THEN n - (place + 1) + 1 ELSE 0
          /\ \A i \in 1..(n - (place + 1) + 1) : SubSeq(list, place + 1, n)[i] = list[(place + 1) + i - 1]
      <3>1. place + 1 \in Int /\ n \in Int
        BY <1>1, <1>5
      <3>. QED
        BY <2>1, <3>1, SubSeqProperties
    <2>3. \A i \in 1..(n - place) : (place + 1) + i - 1 = place + i
      BY <1>5
    <2>. QED
      BY <1>1, <1>5, <1>7, <2>2, <2>3
  <1>10. PICK one : one = <<e>>
    OBVIOUS
  <1>11. one \in Seq(S) /\ Len(one) = 1 /\ one[1] = e
    BY <1>10
  <1>12. PICK w : w = x \o one
    OBVIOUS
  <1>13. /\ w \in Seq(S) /\ Len(w) = place + 1
         /\ \A i \in 1..place : w[i] = list[i]
         /\ w[place + 1] = e
    <2>1. /\ x \o one \in Seq(S) /\ Len(x \o one) = Len(x) + Len(one)
          /\ \A i \in 1..Len(x) : (x \o one)[i] = x[i]
          /\ \A i \in 1..Len(one) : (x \o one)[Len(x) + i] = one[i]
      <3>1. x \in Seq(S) /\ one \in Seq(S)
        BY <1>8, <1>11
      <3>. QED
        BY <3>1, Joined
    <2>. QED
      BY <1>5, <1>8, <1>11, <1>12, <2>1
  <1>14. PICK z : z = w \o y
    OBVIOUS
  <1>15. /\ z \in Seq(S) /\ Len(z) = n + 1
         /\ \A i \in 1..(place + 1) : z[i] = w[i]
         /\ \A i \in 1..(n - place) : z[(place + 1) + i] = y[i]
    <2>1. /\ w \o y \in Seq(S) /\ Len(w \o y) = Len(w) + Len(y)
          /\ \A i \in 1..Len(w) : (w \o y)[i] = w[i]
          /\ \A i \in 1..Len(y) : (w \o y)[Len(w) + i] = y[i]
      <3>1. w \in Seq(S) /\ y \in Seq(S)
        BY <1>9, <1>13
      <3>. QED
        BY <3>1, Joined
    <2>2. Len(w) + Len(y) = n + 1 /\ Len(w) = place + 1 /\ Len(y) = n - place
      BY <1>1, <1>5, <1>9, <1>13
    <2>. QED
      BY <1>14, <2>1, <2>2
  <1>16. z = Insert(list, e)
    <2>1. Insert(list, e) = SubSeq(list, 1, place) \o <<e>> \o SubSeq(list, place + 1, Len(list))
      BY <1>2, <1>3 DEF Insert
    <2>. QED
      BY <1>1, <1>6, <1>7, <1>10, <1>12, <1>14, <2>1
  <1>17. \A i \in 1..place : z[i] = list[i]
    BY <1>5, <1>13, <1>15
  <1>18. z[place + 1] = e
    <2>1. place + 1 \in 1..(place + 1)
      BY <1>5
    <2>. QED
      BY <1>13, <1>15, <2>1
  <1>19. \A i \in (place + 1)..n : z[i + 1] = list[i]
    <2>. TAKE i \in (place + 1)..n
    <2>1. i - place \in 1..(n - place) /\ (place + 1) + (i - place) = i + 1 /\ place + (i - place) = i
      BY <1>1, <1>5
    <2>2. z[(place + 1) + (i - place)] = y[i - place] /\ y[i - place] = list[place + (i - place)]
      BY <1>9, <1>15, <2>1
    <2>. QED
      BY <2>1, <2>2
  <1>. QED
    BY <1>1, <1>5, <1>15, <1>16, <1>17, <1>18, <1>19

(* A packet that the receiver still waits for, as it sees its numbers.                *)
LEMMA RowRange ==
    ASSUME PacketsInv, NEW m \in Nat, NEW p \in DOMAIN packets, m <= packets[p].after,
           Turn(packets[p].after + 1) <= Turn(m) + (FreeWindows - 2)
    PROVE  /\ packets[p].after + 1 \in Nat /\ m <= packets[p].after + 1
           /\ packets[p].after + 1 < m + Numbers
  <1>1. PICK a \in Nat : a = packets[p].after
    BY PacketIs
  <1>2. PICK k \in Nat : k = FreeWindows - 2
    BY Sizes
  <1>3. a + 1 \in Nat
    OBVIOUS
  <1>4. a + 1 < m + k * WindowSize + WindowSize
    BY <1>1, <1>2, <1>3, TurnsApart
  <1>5. k * WindowSize + WindowSize <= Numbers
    <2>1. /\ Numbers = WindowSize * Windows /\ WindowSize \in Nat \ {0} /\ Windows \in Nat
          /\ k + 1 <= Windows
      BY <1>2, Sizes
    <2>2. WindowSize * (Windows - (k + 1)) >= 0
      BY <2>1
    <2>3. WindowSize * (Windows - (k + 1)) = Numbers - (k * WindowSize + WindowSize)
      BY <2>1
    <2>4. k * WindowSize \in Nat /\ Numbers \in Nat
      BY <2>1, Sizes
    <2>. QED
      BY <2>1, <2>2, <2>3, <2>4
  <1>6. k * WindowSize \in Nat /\ Numbers \in Nat /\ WindowSize \in Nat
    BY Sizes
  <1>7. a + 1 < m + Numbers
    BY <1>4, <1>5, <1>6
  <1>. QED
    BY <1>1, <1>7

(* A command of a packet that was not delivered.                                 *)
LEMMA NewCommand ==
    ASSUME PacketsInv, SenderInv, NothingAcknowledgedIsLost, NEW m \in Nat, ReceiverInv(m),
           NEW c, Legit(c), c.reliable, Absolute(c) <= LastSent, m <= packets[c.packet].after
    PROVE  /\ Number(c) # m % Numbers
           /\ InWindow(Number(c), m % Numbers) <=>
                 Turn(packets[c.packet].after + 1) <= Turn(m) + (FreeWindows - 2)
           /\ ~ InWindow(Number(c), m % Numbers) => ~ Acknowledged(c.seq, m % Numbers)
  <1>1. c.packet \in DOMAIN packets
    BY CommandIs
  <1>2. PICK n \in Nat : n = packets[c.packet].after + 1
    BY <1>1, PacketIs
  <1>3. Number(c) = n % Numbers
    BY <1>2, NumberIs
  <1>4. PICK a \in Nat : a = Absolute(c)
    BY CommandIs
  <1>5. n <= a /\ c.seq = a % Numbers
    <2>1. a = packets[c.packet].after + c.part + 1 /\ c.part \in Nat /\ packets[c.packet].after \in Nat
      BY <1>1, <1>4, CommandIs, PacketIs
    <2>. QED
      BY <1>2, <1>4, <2>1, CommandIs
  <1>6. PICK L \in Nat : L = LastSent
    BY DEF SenderInv
  <1>7. a <= L /\ L < m + Numbers /\ Turn(L) <= Turn(m) + (Windows - FreeWindows - 1)
    BY <1>4, <1>6, Reach
  <1>8. m < n /\ m <= n /\ n < m + Numbers /\ m <= a /\ a < m + Numbers
    <2>1. packets[c.packet].after \in Nat /\ Numbers \in Nat
      BY <1>1, PacketIs, Sizes
    <2>. QED
      BY <1>2, <1>5, <1>7, <2>1
  <1>9. Number(c) # m % Numbers
    <2>1. SUFFICES ASSUME Number(c) = m % Numbers PROVE FALSE
      OBVIOUS
    <2>2. m < n + Numbers
      <3>1. Numbers \in Nat
        BY Sizes
      <3>. QED
        BY <1>8, <3>1
    <2>3. n = m
      BY <1>3, <1>8, <2>1, <2>2, SameNumber
    <2>. QED
      BY <1>8, <2>3
  <1>10. /\ Ahead(Number(c), m % Numbers) = Turn(n) - Turn(m)
         /\ Ahead(c.seq, m % Numbers) = Turn(a) - Turn(m)
    BY <1>3, <1>5, <1>8, AheadIs
  <1>11. /\ Turn(n) \in Nat /\ Turn(m) \in Nat /\ Turn(a) \in Nat /\ Turn(L) \in Nat
         /\ Turn(m) <= Turn(n) /\ Turn(n) <= Turn(a) /\ Turn(a) <= Turn(L)
    BY <1>5, <1>7, <1>8, TurnIs, TurnGrows
  <1>12. InWindow(Number(c), m % Numbers) <=> Turn(n) <= Turn(m) + (FreeWindows - 2)
    BY <1>10, <1>11, Sizes DEF InWindow
  <1>13. ~ InWindow(Number(c), m % Numbers) => ~ Acknowledged(c.seq, m % Numbers)
    <2>. SUFFICES ASSUME ~ (Turn(n) <= Turn(m) + (FreeWindows - 2))
                  PROVE  Turn(a) - Turn(m) \in {FreeWindows - 1, FreeWindows}
      BY <1>10, <1>12 DEF Acknowledged
    <2>1. Windows - FreeWindows - 1 <= FreeWindows /\ FreeWindows \in Nat /\ Windows \in Nat
      BY Sizes
    <2>. QED
      BY <1>7, <1>11, <2>1
  <1>. QED
    BY <1>2, <1>9, <1>12, <1>13

(* One of a packet that was delivered, from a datagram that came late.                *)
LEMMA OldCommand ==
    ASSUME PacketsInv, SenderInv, NEW m \in Nat, ReceiverInv(m),
           NEW c, Legit(c), c.reliable, packets[c.packet].after < m,
           LastSent - Absolute(c) <= Lifetime
    PROVE  Number(c) = m % Numbers \/ ~ InWindow(Number(c), m % Numbers)
  <1>1. c.packet \in DOMAIN packets
    BY CommandIs
  <1>2. PICK b \in Nat : b = packets[c.packet].after
    BY <1>1, PacketIs
  <1>3. PICK n \in Nat : n = b + 1
    OBVIOUS
  <1>4. Number(c) = n % Numbers
    BY <1>2, <1>3, NumberIs
  <1>5. SUFFICES ASSUME n # m PROVE ~ InWindow(n % Numbers, m % Numbers)
    BY <1>4
  <1>6. PICK a \in Nat : a = Absolute(c)
    BY CommandIs
  <1>7. PICK L \in Nat : L = LastSent
    BY DEF SenderInv
  <1>8. a < n + WindowSize /\ m <= L /\ L - a <= Lifetime /\ n < m
    <2>1. /\ a = b + c.part + 1 /\ c.part \in Nat /\ c.part < packets[c.packet].fragments
          /\ packets[c.packet].fragments \in Nat /\ packets[c.packet].fragments <= WindowSize
      BY <1>1, <1>2, <1>6, CommandIs, PacketIs
    <2>2. m <= L /\ L - a <= Lifetime /\ b < m
      BY <1>2, <1>6, <1>7 DEF ReceiverInv
    <2>. QED
      <3>1. WindowSize \in Nat /\ Lifetime \in Nat
        BY Sizes
      <3>. QED
        BY <1>3, <1>5, <2>1, <2>2, <3>1
  <1>9. PICK k \in Nat : k = Windows - FreeWindows + 1
    BY Sizes
  <1>10. m <= n + k * WindowSize
    <2>1. /\ Lifetime <= (Windows - FreeWindows) * WindowSize /\ Lifetime \in Nat
          /\ WindowSize \in Nat /\ Windows \in Nat /\ FreeWindows \in Nat
      BY Sizes
    <2>2. k * WindowSize = (Windows - FreeWindows) * WindowSize + WindowSize
      BY <1>9, <2>1
    <2>3. (Windows - FreeWindows) * WindowSize \in Int
      BY <2>1
    <2>. QED
      BY <1>8, <2>1, <2>2, <2>3
  <1>11. k * WindowSize < Numbers
    <2>1. /\ Numbers = WindowSize * Windows /\ WindowSize \in Nat \ {0} /\ Windows \in Nat
          /\ Windows - k - 1 \in Nat
      BY <1>9, Sizes
    <2>2. WindowSize * (Windows - k - 1) >= 0
      BY <2>1
    <2>3. WindowSize * (Windows - k - 1) = Numbers - k * WindowSize - WindowSize
      BY <2>1
    <2>4. k * WindowSize \in Nat /\ Numbers \in Nat
      BY <2>1, Sizes
    <2>. QED
      BY <2>1, <2>2, <2>3, <2>4
  <1>12. m < n + Numbers
    <2>1. k * WindowSize \in Nat /\ Numbers \in Nat
      BY Sizes
    <2>. QED
      BY <1>10, <1>11, <2>1
  <1>13. Ahead(n % Numbers, m % Numbers) = Turn(n) - Turn(m) + Windows
    BY <1>8, <1>12, AheadIs
  <1>14. Turn(m) <= Turn(n) + k /\ Turn(m) \in Nat /\ Turn(n) \in Nat
    BY <1>10, TurnsApart, TurnIs
  <1>. QED
    BY <1>9, <1>13, <1>14, Sizes DEF InWindow

(* The packet of an entry is that of any of its parts.                        *)
LEMMA OfIs ==
    ASSUME NEW e, NEW p, NEW m, Assembles(e, p, m)
    PROVE  Of(e) = p
  <1>1. e.parts # {} /\ \A part \in e.parts : part[2] = p
    BY DEF Assembles
  <1>2. (CHOOSE part \in e.parts : TRUE) \in e.parts
    BY <1>1
  <1>. QED
    BY <1>1, <1>2 DEF Of

(* A complete packet has all its parts.                                          *)
LEMMA AllParts ==
    ASSUME NEW f \in Nat \ {0}, NEW p
    PROVE  /\ IsFiniteSet({<<k, p>> : k \in 0..(f - 1)})
           /\ Cardinality({<<k, p>> : k \in 0..(f - 1)}) = f
  <1>. DEFINE all == 0..(f - 1)
              parts == {<<k, p>> : k \in all}
              g == [k \in all |-> <<k, p>>]
  <1>1. g \in [all -> parts]
    OBVIOUS
  <1>2. \A j, k \in all : g[j] = g[k] => j = k
    OBVIOUS
  <1>3. \A x \in parts : \E k \in all : g[k] = x
    OBVIOUS
  <1>4. IsFiniteSet(all) /\ Cardinality(all) = f
    BY FS_Interval
  <1>. HIDE DEF g, all, parts
  <1>5. ExistsBijection(all, parts)
    BY <1>1, <1>2, <1>3 DEF ExistsBijection, Bijection, Injection, IsInjective, Surjection
  <1>6. IsFiniteSet(parts) /\ Cardinality(parts) = f
    BY <1>4, <1>5, FS_Bijection
  <1>. QED
    BY <1>6 DEF parts, all

(* Parts of one packet are finitely many.                                       *)
LEMMA SomeParts ==
    ASSUME NEW e, NEW p, e.fragments \in Nat \ {0},
           e.parts \subseteq {<<k, p>> : k \in 0..(e.fragments - 1)}
    PROVE  IsFiniteSet(e.parts) /\ Cardinality(e.parts) \in Nat
  <1>1. PICK f \in Nat \ {0} : f = e.fragments
    OBVIOUS
  <1>. DEFINE all == {<<k, p>> : k \in 0..(f - 1)}
  <1>2. IsFiniteSet(all)
    BY AllParts
  <1>3. e.parts \in SUBSET all
    BY <1>1
  <1>. HIDE DEF all
  <1>. QED
    BY <1>2, <1>3, FS_Subset, FS_CardinalityType

(* A part is added to an entry.                                                 *)
LEMMA CopyIs ==
    ASSUME NEW e \in Queued, NEW c, NEW p \in Nat, c.packet = p, c.part \in 0..(e.fragments - 1),
           e.parts \subseteq {<<k, p>> : k \in 0..(e.fragments - 1)},
           e.fragmentsRemaining = e.fragments - Cardinality(e.parts),
           <<c.part, p>> \notin e.parts
    PROVE  LET new == Copy(e, c)
           IN  /\ new \in Queued
               /\ new.seq = e.seq /\ new.unreliable = e.unreliable /\ new.fragments = e.fragments
               /\ new.parts = e.parts \cup {<<c.part, p>>} /\ new.parts # {}
               /\ new.parts \subseteq {<<k, p>> : k \in 0..(new.fragments - 1)}
               /\ new.fragmentsRemaining = new.fragments - Cardinality(new.parts)
  <1>4. PICK x : x = <<c.part, p>>
    OBVIOUS
  <1>5. x \in Nat \X Nat /\ x \in {<<k, p>> : k \in 0..(e.fragments - 1)}
    <2>1. c.part \in Nat
      BY DEF Queued
    <2>. QED
      BY <1>4, <2>1
  <1>6. PICK new : new = Copy(e, c)
    OBVIOUS
  <1>7. /\ e.seq \in Sequence /\ e.unreliable \in 0..LastUnreliable /\ e.fragments \in Nat
        /\ e.fragmentsRemaining \in Int /\ e.parts \in SUBSET (Nat \X Nat)
        /\ new = [seq |-> e.seq, unreliable |-> e.unreliable, fragments |-> e.fragments,
                  fragmentsRemaining |-> e.fragmentsRemaining - 1, parts |-> e.parts \cup {x}]
    <2>1. Copy(e, c) = [e EXCEPT !.parts = e.parts \cup {x},
                                 !.fragmentsRemaining = e.fragmentsRemaining - 1]
      BY <1>4 DEF Copy, Part
    <2>. QED
      BY <1>6, <2>1 DEF Queued
  <1>8. /\ new.seq = e.seq /\ new.unreliable = e.unreliable /\ new.fragments = e.fragments
        /\ new.fragmentsRemaining = e.fragmentsRemaining - 1 /\ new.parts = e.parts \cup {x}
    BY <1>7
  <1>9. new \in Queued
    <2>1. e.parts \cup {x} \in SUBSET (Nat \X Nat)
      BY <1>5, <1>7
    <2>. QED
      BY <1>7, <2>1 DEF Queued
  <1>10. IsFiniteSet(e.parts) /\ Cardinality(e.parts) \in Nat
    <2>1. e.fragments \in Nat \ {0}
      BY <1>7
    <2>. QED
      BY <2>1, SomeParts
  <1>11. Cardinality(e.parts \cup {x}) = Cardinality(e.parts) + 1
    BY <1>4, <1>10, FS_AddElement
  <1>12. new.fragmentsRemaining = new.fragments - Cardinality(new.parts)
    BY <1>7, <1>8, <1>10, <1>11
  <1>. QED
    BY <1>4, <1>5, <1>6, <1>8, <1>9, <1>12

(* A part is added to a packet.                                                 *)
LEMMA Copied ==
    ASSUME PacketsInv, NEW m \in Nat, NEW c, Legit(c), c.reliable, Absolute(c) <= LastSent,
           m <= packets[c.packet].after,
           Turn(packets[c.packet].after + 1) <= Turn(m) + (FreeWindows - 2),
           NEW e \in Queued,
           e.seq = (packets[c.packet].after + 1) % Numbers, e.unreliable = 0,
           e.fragments = packets[c.packet].fragments,
           e.parts \subseteq {<<k, c.packet>> : k \in 0..(e.fragments - 1)},
           e.fragmentsRemaining = e.fragments - Cardinality(e.parts),
           \A part \in e.parts : packets[c.packet].after + part[1] + 1 <= LastSent,
           <<c.part, c.packet>> \notin e.parts
    PROVE  /\ Assembles(Copy(e, c), c.packet, m)
           /\ Copy(e, c).parts = e.parts \cup {<<c.part, c.packet>>}
           /\ Copy(e, c).seq = e.seq /\ Copy(e, c).unreliable = e.unreliable
  <1>1. PICK p : p = c.packet
    OBVIOUS
  <1>2. /\ p \in DOMAIN packets /\ packets[p].reliable /\ c.part \in Nat
        /\ c.part < packets[p].fragments
        /\ Absolute(c) = packets[p].after + c.part + 1
    BY <1>1, CommandIs
  <1>3. packets[p].fragments \in Nat /\ p \in Nat
    BY <1>2, PacketIs
  <1>4. PICK new : new = Copy(e, c)
    OBVIOUS
  <1>5. /\ new \in Queued
        /\ new.seq = e.seq /\ new.unreliable = e.unreliable /\ new.fragments = e.fragments
        /\ new.parts = e.parts \cup {<<c.part, p>>} /\ new.parts # {}
        /\ new.parts \subseteq {<<k, p>> : k \in 0..(new.fragments - 1)}
        /\ new.fragmentsRemaining = new.fragments - Cardinality(new.parts)
    <2>1. c.part \in 0..(e.fragments - 1)
      BY <1>1, <1>2, <1>3
    <2>. QED
      BY <1>1, <1>3, <1>4, <2>1, CopyIs
  <1>6. \A part \in new.parts : packets[p].after + part[1] + 1 <= LastSent
    BY <1>1, <1>2, <1>5
  <1>7. Assembles(new, p, m)
    BY <1>1, <1>2, <1>5, <1>6 DEF Assembles
  <1>. QED
    BY <1>1, <1>4, <1>5, <1>7

(* Entry e holds parts of the unreliable packet p, or none yet.                       *)
Gathers(e, p) ==
    /\ e \in Queued
    /\ e.seq = packets[p].after % Numbers /\ e.unreliable = packets[p].number
    /\ e.fragments = packets[p].fragments
    /\ e.parts \subseteq {<<k, p>> : k \in 0..(e.fragments - 1)}
    /\ e.fragmentsRemaining = e.fragments - Cardinality(e.parts)

(* A part is added to an unreliable packet.                                   *)
LEMMA CopiedHint ==
    ASSUME PacketsInv, NEW m \in Nat, NEW u, NEW c, Legit(c), ~ c.reliable,
           m <= packets[c.packet].after,
           Turn(packets[c.packet].after) <= Turn(m) + (FreeWindows - 2),
           packets[c.packet].after = m => u < packets[c.packet].number,
           NEW e, Gathers(e, c.packet), <<c.part, c.packet>> \notin e.parts
    PROVE  /\ Hinted(Copy(e, c), c.packet, m, u)
           /\ Copy(e, c).seq = e.seq /\ Copy(e, c).unreliable = e.unreliable
  <1>1. PICK p : p = c.packet
    OBVIOUS
  <1>2. /\ p \in DOMAIN packets /\ ~ packets[p].reliable /\ c.part \in Nat
        /\ c.part < packets[p].fragments
    BY <1>1, CommandIs
  <1>3. packets[p].fragments \in Nat /\ p \in Nat
    BY <1>2, PacketIs
  <1>0. /\ e \in Queued
        /\ e.seq = packets[p].after % Numbers /\ e.unreliable = packets[p].number
        /\ e.fragments = packets[p].fragments
        /\ e.parts \subseteq {<<k, p>> : k \in 0..(e.fragments - 1)}
        /\ e.fragmentsRemaining = e.fragments - Cardinality(e.parts)
        /\ <<c.part, p>> \notin e.parts
    BY <1>1 DEF Gathers
  <1>4. PICK new : new = Copy(e, c)
    OBVIOUS
  <1>5. /\ new \in Queued
        /\ new.seq = e.seq /\ new.unreliable = e.unreliable /\ new.fragments = e.fragments
        /\ new.parts # {}
        /\ new.parts \subseteq {<<k, p>> : k \in 0..(new.fragments - 1)}
        /\ new.fragmentsRemaining = new.fragments - Cardinality(new.parts)
    <2>1. c.part \in 0..(e.fragments - 1)
      BY <1>0, <1>1, <1>2, <1>3
    <2>. QED
      BY <1>0, <1>1, <1>3, <1>4, <2>1, CopyIs
  <1>6. Hinted(new, p, m, u)
    BY <1>0, <1>1, <1>2, <1>5 DEF Hinted
  <1>. QED
    BY <1>1, <1>4, <1>5, <1>6

(* A later packet has later numbers.                                          *)
LEMMA AfterGrows ==
    ASSUME PacketsInv, NEW p \in DOMAIN packets, NEW q \in DOMAIN packets, packets[p].reliable, p < q
    PROVE  /\ packets[p].after \in Nat /\ packets[q].after \in Nat
           /\ packets[p].after < packets[q].after /\ Ending(p) <= packets[q].after
  <1>1. Ending(p) <= packets[q].after
    BY DEF PacketsInv
  <1>2. /\ packets[p].after \in Nat /\ packets[q].after \in Nat /\ packets[p].fragments \in Nat \ {0}
        /\ Ending(p) = packets[p].after + packets[p].fragments
    BY PacketIs
  <1>. QED
    BY <1>1, <1>2

(* The entries of the row, as the receiver compares them with a new one.                *)
LEMMA RowCompares ==
    ASSUME PacketsInv, NEW m \in Nat, incomingReliableSequenceNumber = m % Numbers,
           NEW x, NEW o, Assembles(x, o, m),
           NEW p \in DOMAIN packets, packets[p].reliable, m <= packets[p].after,
           Turn(packets[p].after + 1) <= Turn(m) + (FreeWindows - 2)
    PROVE  /\ x.seq = (packets[p].after + 1) % Numbers <=> o = p
           /\ \A e : e.seq = (packets[p].after + 1) % Numbers /\ e.unreliable = 0 =>
                        (Before(x, e) <=> o < p)
  <1>1. /\ o \in DOMAIN packets /\ packets[o].reliable /\ m <= packets[o].after
        /\ Turn(packets[o].after + 1) <= Turn(m) + (FreeWindows - 2)
        /\ x.seq = (packets[o].after + 1) % Numbers /\ x.unreliable = 0
    BY DEF Assembles
  <1>2. PICK a \in Nat : a = packets[o].after + 1
    BY <1>1, PacketIs
  <1>3. PICK b \in Nat : b = packets[p].after + 1
    BY PacketIs
  <1>4. m <= a /\ a < m + Numbers /\ m <= b /\ b < m + Numbers
    BY <1>1, <1>2, <1>3, RowRange
  <1>5. Numbers \in Nat \ {0} /\ o \in Nat /\ p \in Nat
    BY <1>1, PacketIs, Sizes
  <1>6. a < b <=> o < p
    <2>1. o < p => a < b
      <3>1. SUFFICES ASSUME o < p PROVE a < b
        OBVIOUS
      <3>2. /\ packets[o].after < packets[p].after
            /\ packets[o].after \in Nat /\ packets[p].after \in Nat
        BY <1>1, <3>1, AfterGrows
      <3>. QED
        BY <1>2, <1>3, <3>2
    <2>2. p < o => b < a
      <3>1. SUFFICES ASSUME p < o PROVE b < a
        OBVIOUS
      <3>2. /\ packets[p].after < packets[o].after
            /\ packets[o].after \in Nat /\ packets[p].after \in Nat
        BY <1>1, <3>1, AfterGrows
      <3>. QED
        BY <1>2, <1>3, <3>2
    <2>3. p = o => a = b
      BY <1>2, <1>3
    <2>. QED
      BY <1>5, <2>1, <2>2, <2>3
  <1>7. x.seq = b % Numbers <=> o = p
    <2>1. ASSUME x.seq = b % Numbers PROVE o = p
      <3>1. a % Numbers = b % Numbers /\ a < b + Numbers /\ b < a + Numbers
        BY <1>1, <1>2, <1>4, <1>5, <2>1
      <3>2. a = b
        BY <3>1, SameNumber
      <3>3. /\ packets[o].after + 0 = packets[p].after + 0
            /\ 0 < packets[o].fragments /\ 0 < packets[p].fragments
        <4>1. /\ packets[o].after \in Nat /\ packets[p].after \in Nat
              /\ packets[o].fragments \in Nat \ {0} /\ packets[p].fragments \in Nat \ {0}
          BY <1>1, PacketIs
        <4>. QED
          BY <1>2, <1>3, <3>2, <4>1
      <3>. QED
        BY <1>1, <3>3, OnePacket
    <2>. QED
      BY <1>1, <1>2, <1>3, <2>1
  <1>8. ASSUME NEW e, e.seq = b % Numbers, e.unreliable = 0
        PROVE  Before(x, e) <=> o < p
    <2>1. Distance(x.seq) = a - m /\ Distance(e.seq) = b - m
      <3>1. Away(a % Numbers, m % Numbers) = a - m /\ Away(b % Numbers, m % Numbers) = b - m
        BY <1>4, OneAway
      <3>. QED
        BY <1>1, <1>2, <1>8, <3>1 DEF Distance, Away
    <2>2. Before(x, e) <=> a - m < b - m
      BY <1>1, <1>8, <2>1 DEF Before
    <2>. QED
      BY <1>6, <2>2
  <1>. QED
    BY <1>3, <1>7, <1>8

(* The row with one more part is in order, and has lost none.                 *)
LEMMA WithPartInRow ==
    ASSUME PacketsInv, NEW m \in Nat, incomingReliableSequenceNumber = m % Numbers,
           NEW list, InRow(list, m), NEW c, Legit(c), c.reliable, Absolute(c) <= LastSent,
           m <= packets[c.packet].after,
           Turn(packets[c.packet].after + 1) <= Turn(m) + (FreeWindows - 2)
    PROVE  /\ InRow(WithPart(list, c), m)
           /\ \E j \in DOMAIN WithPart(list, c) : <<c.part, c.packet>> \in WithPart(list, c)[j].parts
           /\ \A i \in DOMAIN list : \E j \in DOMAIN WithPart(list, c) :
                 list[i].parts \subseteq WithPart(list, c)[j].parts
  <1>1. PICK p : p = c.packet
    OBVIOUS
  <1>2. /\ p \in DOMAIN packets /\ packets[p].reliable /\ c.part \in Nat
        /\ c.part < packets[p].fragments /\ c.fragments = packets[p].fragments
        /\ c.unreliable = 0 /\ Absolute(c) = packets[p].after + c.part + 1
        /\ m <= packets[p].after /\ Turn(packets[p].after + 1) <= Turn(m) + (FreeWindows - 2)
    BY <1>1, CommandIs
  <1>3. PICK n \in Nat : n = packets[p].after + 1
    BY <1>2, PacketIs
  <1>4. Number(c) = n % Numbers
    BY <1>1, <1>3, NumberIs
  <1>5. /\ list \in Seq(Queued)
        /\ \A i \in DOMAIN list : Assembles(list[i], Of(list[i]), m)
        /\ \A i, j \in DOMAIN list : i < j => Of(list[i]) < Of(list[j])
    BY DEF InRow
  <1>6. \A i \in DOMAIN list : Of(list[i]) \in DOMAIN packets /\ Of(list[i]) \in Nat
    BY <1>5, PacketIs DEF Assembles
  <1>7. p \in Nat
    BY <1>2, PacketIs
  <1>8. ASSUME NEW i \in DOMAIN list
        PROVE  /\ i \in Same(list, c) <=> Of(list[i]) = p
               /\ \A e : e.seq = n % Numbers /\ e.unreliable = 0 =>
                            (Before(list[i], e) <=> Of(list[i]) < p)
    <2>1. PICK x : x = list[i]
      OBVIOUS
    <2>2. PICK o : o = Of(list[i])
      OBVIOUS
    <2>3. Assembles(x, o, m)
      BY <1>5, <2>1, <2>2
    <2>4. /\ x.seq = n % Numbers <=> o = p
          /\ \A e : e.seq = n % Numbers /\ e.unreliable = 0 => (Before(x, e) <=> o < p)
      BY <1>2, <1>3, <2>3, RowCompares
    <2>5. x.unreliable = 0
      BY <2>3 DEF Assembles
    <2>. QED
      BY <1>2, <1>4, <2>1, <2>2, <2>4, <2>5 DEF Same
  <1>9. PICK z : z = WithPart(list, c)
    OBVIOUS
  <1>10. CASE Same(list, c) = {}
    <2>1. PICK e : e = Copy(Entry(c), c)
      OBVIOUS
    <2>2. PICK e0 : e0 = Entry(c)
      OBVIOUS
    <2>3. e0 = [seq |-> n % Numbers, unreliable |-> 0, fragments |-> packets[p].fragments,
                fragmentsRemaining |-> packets[p].fragments, parts |-> {}]
      BY <1>2, <1>4, <2>2 DEF Entry
    <2>4. /\ e0.seq = n % Numbers /\ e0.unreliable = 0 /\ e0.fragments = packets[p].fragments
          /\ e0.fragmentsRemaining = packets[p].fragments /\ e0.parts = {}
      BY <2>3
    <2>5. e0 \in Queued
      <3>1. n % Numbers \in Sequence
        BY Wraps
      <3>2. packets[p].fragments \in Nat
        BY <1>2, PacketIs
      <3>3. LastUnreliable \in Nat
        BY ChannelAssumption
      <3>4. {} \in SUBSET (Nat \X Nat)
        OBVIOUS
      <3>5. 0 \in 0..LastUnreliable /\ packets[p].fragments \in Int
        BY <3>2, <3>3
      <3>. QED
        BY <2>3, <3>1, <3>2, <3>4, <3>5 DEF Queued
    <2>6. e0.fragmentsRemaining = e0.fragments - Cardinality(e0.parts)
      <3>1. Cardinality({}) = 0 /\ packets[p].fragments \in Nat
        BY <1>2, PacketIs, FS_EmptySet
      <3>. QED
        BY <2>4, <3>1
    <2>7. /\ Assembles(e, p, m) /\ e.parts = {<<c.part, p>>}
          /\ e.seq = n % Numbers /\ e.unreliable = 0
      <3>1. e0.seq = (packets[c.packet].after + 1) % Numbers
        BY <1>1, <1>3, <2>4
      <3>2. e0.fragments = packets[c.packet].fragments
        BY <1>1, <2>4
      <3>3. e0.parts \subseteq {<<k, c.packet>> : k \in 0..(e0.fragments - 1)}
        BY <2>4
      <3>4. \A part \in e0.parts : packets[c.packet].after + part[1] + 1 <= LastSent
        BY <2>4
      <3>5. <<c.part, c.packet>> \notin e0.parts /\ e0.unreliable = 0
        BY <2>4
      <3>6. /\ Assembles(Copy(e0, c), c.packet, m)
            /\ Copy(e0, c).parts = e0.parts \cup {<<c.part, c.packet>>}
            /\ Copy(e0, c).seq = e0.seq /\ Copy(e0, c).unreliable = e0.unreliable
        BY <2>5, <2>6, <3>1, <3>2, <3>3, <3>4, <3>5, Copied
      <3>. QED
        BY <1>1, <2>1, <2>2, <2>4, <3>6
    <2>8. Of(e) = p /\ e \in Queued
      BY <2>7, OfIs DEF Assembles
    <2>9. PICK l \in Nat : l = Len(list) /\ DOMAIN list = 1..l
      BY <1>5
    <2>10. z = Insert(list, e)
      BY <1>9, <1>10, <2>1 DEF WithPart
    <2>11. PICK place \in 0..l :
             /\ z \in Seq(Queued) /\ Len(z) = l + 1
             /\ \A i \in 1..place : z[i] = list[i]
             /\ z[place + 1] = e
             /\ \A i \in (place + 1)..l : z[i + 1] = list[i]
             /\ place > 0 => Before(list[place], e)
             /\ \A i \in DOMAIN list : Before(list[i], e) => i <= place
      <3>1. list \in Seq(Queued) /\ e \in Queued
        BY <1>5, <2>8
      <3>2. \E place \in 0..Len(list) :
             /\ Insert(list, e) \in Seq(Queued) /\ Len(Insert(list, e)) = Len(list) + 1
             /\ \A i \in 1..place : Insert(list, e)[i] = list[i]
             /\ Insert(list, e)[place + 1] = e
             /\ \A i \in (place + 1)..Len(list) : Insert(list, e)[i + 1] = list[i]
             /\ place > 0 => Before(list[place], e)
             /\ \A i \in DOMAIN list : Before(list[i], e) => i <= place
        BY <3>1, InsertIs
      <3>. QED
        BY <2>9, <2>10, <3>2
    <2>12. \A i \in 1..place : i \in DOMAIN list /\ Of(list[i]) < p
      <3>. TAKE i \in 1..place
      <3>1. place \in DOMAIN list /\ i \in DOMAIN list /\ place > 0
        BY <2>9
      <3>2. Of(list[place]) < p
        BY <1>8, <2>7, <2>11, <3>1
      <3>3. i = place \/ i < place
        BY <2>9
      <3>. QED
        BY <1>5, <1>6, <1>7, <3>1, <3>2, <3>3
    <2>13. \A i \in (place + 1)..l : i \in DOMAIN list /\ p < Of(list[i])
      <3>. TAKE i \in (place + 1)..l
      <3>1. i \in DOMAIN list /\ ~(i <= place)
        BY <2>9
      <3>2. ~(Of(list[i]) < p)
        BY <1>8, <2>7, <2>11, <3>1
      <3>3. Of(list[i]) # p
        BY <1>8, <1>10, <3>1
      <3>. QED
        BY <1>6, <1>7, <3>1, <3>2, <3>3
    <2>14. \A j \in 1..(l + 1) : \/ j \in 1..place
                                \/ j = place + 1
                                \/ j - 1 \in (place + 1)..l
      BY <2>9
    <2>15. \A j \in 1..place : j \in DOMAIN list /\ z[j] = list[j] /\ Of(z[j]) = Of(list[j]) /\ Of(z[j]) < p
      BY <2>11, <2>12
    <2>16. \A j \in 1..(l + 1) : j - 1 \in (place + 1)..l =>
             j - 1 \in DOMAIN list /\ z[j] = list[j - 1] /\ Of(z[j]) = Of(list[j - 1]) /\ p < Of(z[j])
      <3>. SUFFICES ASSUME NEW j \in 1..(l + 1), j - 1 \in (place + 1)..l
                    PROVE  j - 1 \in DOMAIN list /\ z[j] = list[j - 1] /\ p < Of(list[j - 1])
        OBVIOUS
      <3>1. (j - 1) + 1 = j
        OBVIOUS
      <3>. QED
        BY <2>11, <2>13, <3>1
    <2>17. z[place + 1] = e /\ Of(z[place + 1]) = p
      BY <2>8, <2>11
    <2>18. \A j \in 1..(l + 1) : Assembles(z[j], Of(z[j]), m) /\ Of(z[j]) \in Nat
      BY <1>5, <1>6, <1>7, <2>7, <2>14, <2>15, <2>16, <2>17
    <2>19. \A j, k \in 1..(l + 1) : j < k => Of(z[j]) < Of(z[k])
      <3>. SUFFICES ASSUME NEW j \in 1..(l + 1), NEW k \in 1..(l + 1), j < k PROVE Of(z[j]) < Of(z[k])
        OBVIOUS
      <3>1. CASE k \in 1..place
        <4>1. j \in 1..place
          BY <3>1
        <4>. QED
          BY <1>5, <2>15, <3>1, <4>1
      <3>2. CASE k = place + 1
        <4>1. j \in 1..place
          BY <3>2
        <4>. QED
          BY <2>15, <2>17, <3>2, <4>1
      <3>3. CASE k - 1 \in (place + 1)..l
        <4>1. CASE j \in 1..place
          BY <1>7, <2>15, <2>16, <2>18, <3>3, <4>1
        <4>2. CASE j = place + 1
          BY <2>16, <2>17, <3>3, <4>2
        <4>3. CASE j - 1 \in (place + 1)..l
          <5>1. j - 1 < k - 1
            OBVIOUS
          <5>. QED
            BY <1>5, <2>16, <3>3, <4>3, <5>1
        <4>. QED
          BY <2>14, <4>1, <4>2, <4>3
      <3>. QED
        BY <2>14, <3>1, <3>2, <3>3
    <2>20. DOMAIN z = 1..(l + 1)
      BY <2>11
    <2>21. InRow(z, m)
      BY <2>11, <2>18, <2>19, <2>20 DEF InRow
    <2>22. \E j \in DOMAIN z : <<c.part, p>> \in z[j].parts
      <3>1. place + 1 \in DOMAIN z /\ <<c.part, p>> \in e.parts
        BY <2>7, <2>9, <2>20
      <3>. QED
        BY <2>17, <3>1
    <2>23. \A i \in DOMAIN list : \E j \in DOMAIN z : list[i].parts \subseteq z[j].parts
      <3>. TAKE i \in DOMAIN list
      <3>1. CASE i <= place
        <4>1. i \in 1..place /\ i \in DOMAIN z
          BY <2>9, <2>20, <3>1
        <4>. QED
          BY <2>11, <4>1
      <3>2. CASE i > place
        <4>1. i \in (place + 1)..l /\ i + 1 \in DOMAIN z
          BY <2>9, <2>20, <3>2
        <4>. QED
          BY <2>11, <4>1
      <3>3. i \in Nat /\ place \in Nat
        BY <2>9
      <3>. QED
        BY <3>1, <3>2, <3>3
    <2>. QED
      BY <1>1, <1>9, <2>21, <2>22, <2>23
  <1>11. CASE Same(list, c) # {}
    <2>1. z = [i \in DOMAIN list |->
                 IF i \in Same(list, c) /\ \A part \in list[i].parts : part[1] # c.part
                 THEN Copy(list[i], c) ELSE list[i]]
      BY <1>9, <1>11 DEF WithPart
    <2>2. PICK l \in Nat : l = Len(list) /\ DOMAIN list = 1..l
      BY <1>5
    <2>3. \A i \in DOMAIN list :
             /\ Assembles(z[i], Of(list[i]), m) /\ list[i].parts \subseteq z[i].parts
             /\ Of(list[i]) = p => <<c.part, p>> \in z[i].parts
      <3>. TAKE i \in DOMAIN list
      <3>1. PICK x : x = list[i]
        OBVIOUS
      <3>2. Assembles(x, Of(x), m)
        BY <1>5, <3>1
      <3>3. CASE Of(x) # p
        BY <1>8, <2>1, <3>1, <3>2, <3>3
      <3>4. CASE Of(x) = p /\ \A part \in x.parts : part[1] # c.part
        <4>1. z[i] = Copy(x, c)
          BY <1>8, <2>1, <3>1, <3>4
        <4>2. <<c.part, p>> \notin x.parts
          BY <3>4
        <4>3. Assembles(Copy(x, c), p, m) /\ Copy(x, c).parts = x.parts \cup {<<c.part, p>>}
          BY <1>1, <3>2, <3>4, <4>2, Copied DEF Assembles
        <4>. QED
          BY <3>1, <3>4, <4>1, <4>3
      <3>5. ASSUME Of(x) = p, NEW part \in x.parts, part[1] = c.part
            PROVE  /\ Assembles(z[i], Of(list[i]), m) /\ list[i].parts \subseteq z[i].parts
                   /\ Of(list[i]) = p => <<c.part, p>> \in z[i].parts
        <4>1. z[i] = x
          BY <2>1, <3>1, <3>5
        <4>2. part = <<c.part, p>>
          BY <3>2, <3>5 DEF Assembles
        <4>. QED
          BY <3>1, <3>2, <4>1, <4>2
      <3>. QED
        BY <3>1, <3>3, <3>4, <3>5
    <2>4. \A i \in DOMAIN list : Of(z[i]) = Of(list[i])
      BY <2>3, OfIs
    <2>5. z \in Seq(Queued) /\ DOMAIN z = DOMAIN list
      <3>1. \A i \in 1..l : z[i] \in Queued
        BY <2>2, <2>3 DEF Assembles
      <3>2. z = [i \in 1..l |-> z[i]]
        BY <2>1, <2>2
      <3>3. z \in [1..l -> Queued]
        BY <3>1, <3>2
      <3>. QED
        BY <2>2, <3>2, <3>3
    <2>6. InRow(z, m)
      BY <1>5, <2>3, <2>4, <2>5 DEF InRow
    <2>7. \E j \in DOMAIN z : <<c.part, p>> \in z[j].parts
      <3>1. PICK i \in DOMAIN list : i \in Same(list, c)
        BY <1>11 DEF Same
      <3>2. Of(list[i]) = p
        BY <1>8, <3>1
      <3>. QED
        BY <2>3, <2>5, <3>2
    <2>. QED
      BY <1>1, <1>9, <2>3, <2>5, <2>6, <2>7
  <1>. QED
    BY <1>10, <1>11

(* A complete entry holds all the parts of its packet, and is put together to it.      *)
LEMMA Whole ==
    ASSUME NEW e, NEW p, NEW f \in Nat \ {0}, e.fragments = f,
           e.parts \subseteq {<<k, p>> : k \in 0..(f - 1)},
           e.fragmentsRemaining = f - Cardinality(e.parts), Complete(e)
    PROVE  e.parts = {<<k, p>> : k \in 0..(f - 1)} /\ Assembled(e) = p
  <1>1. e.parts = {<<k, p>> : k \in 0..(f - 1)}
    <2>. DEFINE whole == {<<k, p>> : k \in 0..(f - 1)}
    <2>1. IsFiniteSet(whole) /\ Cardinality(whole) = f
      BY AllParts
    <2>2. e.parts \in SUBSET whole
      OBVIOUS
    <2>3. IsFiniteSet(e.parts) /\ (Cardinality(whole) = Cardinality(e.parts) => whole = e.parts)
      BY <2>1, <2>2, FS_Subset
    <2>4. Cardinality(e.parts) \in Nat
      BY <2>3, FS_CardinalityType
    <2>5. f - Cardinality(e.parts) = 0
      BY DEF Complete
    <2>6. Cardinality(e.parts) = f
      BY <2>4, <2>5
    <2>. HIDE DEF whole
    <2>7. whole = e.parts
      BY <2>1, <2>3, <2>6
    <2>. QED
      BY <2>7 DEF whole
  <1>2. Assembled(e) = p
    <2>. DEFINE from == {part[2] : part \in e.parts}
                whole(q) == e.parts = {<<i, q>> : i \in 0..(e.fragments - 1)}
    <2>1. whole(p)
      BY <1>1
    <2>2. p \in from
      <3>1. <<0, p>> \in e.parts
        BY <1>1
      <3>. QED
        BY <3>1
    <2>3. \A q \in from : q = p
      BY <1>1
    <2>4. Assembled(e) = IF \E q \in from : whole(q) THEN CHOOSE q \in from : whole(q) ELSE 0
      BY DEF Assembled
    <2>. HIDE DEF from, whole
    <2>. QED
      BY <2>1, <2>2, <2>3, <2>4
  <1>. QED
    BY <1>1, <1>2

(* A complete entry is put together to its packet, all of which was sent.     *)
LEMMA Filled ==
    ASSUME PacketsInv, NEW m \in Nat, NEW e, NEW p, Assembles(e, p, m), Complete(e)
    PROVE  /\ Assembled(e) = p
           /\ Ending(p) \in Nat /\ Ending(p) <= LastSent /\ m < Ending(p)
           /\ Turn(Ending(p)) <= Turn(m) + (FreeWindows - 1)
           /\ LastNumber(e) = Ending(p) % Numbers
  <1>1. PICK a \in Nat : a = packets[p].after
    BY PacketIs DEF Assembles
  <1>2. PICK f \in Nat \ {0} : f = packets[p].fragments
    BY PacketIs DEF Assembles
  <1>3. /\ p \in DOMAIN packets /\ m <= a /\ Turn(a + 1) <= Turn(m) + (FreeWindows - 2)
        /\ e.seq = (a + 1) % Numbers /\ e.fragments = f
        /\ e.parts # {} /\ e.parts \subseteq {<<k, p>> : k \in 0..(f - 1)}
        /\ e.fragmentsRemaining = f - Cardinality(e.parts)
        /\ \A part \in e.parts : a + part[1] + 1 <= LastSent
    BY <1>1, <1>2 DEF Assembles
  <1>4. Ending(p) = a + f /\ f <= WindowSize
    BY <1>1, <1>2, <1>3, PacketIs DEF Assembles
  <1>5. e.parts = {<<k, p>> : k \in 0..(f - 1)} /\ Assembled(e) = p
    BY <1>3, Whole
  <1>6. Ending(p) <= LastSent
    <2>1. <<f - 1, p>> \in e.parts
      BY <1>5
    <2>2. a + (f - 1) + 1 <= LastSent
      BY <1>3, <2>1
    <2>3. a + (f - 1) + 1 = a + f
      OBVIOUS
    <2>. QED
      BY <1>4, <2>2, <2>3
  <1>8. LastNumber(e) = Ending(p) % Numbers
    <2>1. PICK r : r = (a + 1) % Numbers
      OBVIOUS
    <2>2. r \in Int
      BY <2>1, Wraps, Sizes
    <2>3. (((a + 1) % Numbers) + (f - 1)) % Numbers = ((a + 1) + (f - 1)) % Numbers
      BY Plus
    <2>4. r + f - 1 = r + (f - 1) /\ (a + 1) + (f - 1) = a + f
      BY <2>2
    <2>5. LastNumber(e) = (r + f - 1) % Numbers
      BY <1>3, <2>1 DEF LastNumber
    <2>. QED
      BY <1>4, <2>1, <2>3, <2>4, <2>5
  <1>9. Turn(Ending(p)) <= Turn(m) + (FreeWindows - 1)
    <2>1. a + f \in Nat /\ a + 1 \in Nat /\ a + f <= (a + 1) + 1 * WindowSize
      BY <1>4, Sizes
    <2>2. Turn(a + f) <= Turn(a + 1) + 1
      BY <2>1, TurnsApart
    <2>3. Turn(a + f) \in Nat /\ Turn(a + 1) \in Nat /\ Turn(m) \in Nat /\ FreeWindows \in Nat
      BY <2>1, TurnIs, Sizes
    <2>. QED
      BY <1>3, <1>4, <2>2, <2>3
  <1>. QED
    BY <1>3, <1>4, <1>5, <1>6, <1>8, <1>9

(* Where the receiver is after the first i packets of the row.                        *)
Reached(list, m, i) == IF i = 0 THEN m ELSE Ending(Of(list[i]))

(* The numbers grow along the row.                                            *)
LEMMA RowGrows ==
    ASSUME PacketsInv, NEW m \in Nat, NEW list, InRow(list, m)
    PROVE  /\ \A i \in 0..Len(list) : Reached(list, m, i) \in Nat /\ m <= Reached(list, m, i)
           /\ \A i \in 0..Len(list), j \in 1..Len(list) :
                 i < j => Reached(list, m, i) <= packets[Of(list[j])].after
           /\ \A j \in 1..Len(list) : /\ packets[Of(list[j])].after \in Nat
                                      /\ m <= packets[Of(list[j])].after
                                      /\ packets[Of(list[j])].after < Reached(list, m, j)
                                      /\ packets[Of(list[j])].after + 1 < m + Numbers
  <1>1. /\ list \in Seq(Queued) /\ Len(list) \in Nat /\ DOMAIN list = 1..Len(list)
        /\ \A i \in DOMAIN list : Assembles(list[i], Of(list[i]), m)
        /\ \A i, j \in DOMAIN list : i < j => Of(list[i]) < Of(list[j])
    BY DEF InRow
  <1>2. ASSUME NEW j \in 1..Len(list)
        PROVE  /\ packets[Of(list[j])].after \in Nat
               /\ m <= packets[Of(list[j])].after
               /\ packets[Of(list[j])].after < Reached(list, m, j)
               /\ packets[Of(list[j])].after + 1 < m + Numbers
               /\ Reached(list, m, j) \in Nat
    <2>1. PICK o : o = Of(list[j])
      OBVIOUS
    <2>2. /\ o \in DOMAIN packets /\ packets[o].reliable /\ m <= packets[o].after
          /\ Turn(packets[o].after + 1) <= Turn(m) + (FreeWindows - 2)
      BY <1>1, <2>1 DEF Assembles
    <2>3. /\ packets[o].after \in Nat /\ packets[o].fragments \in Nat \ {0}
          /\ Ending(o) = packets[o].after + packets[o].fragments
      BY <2>2, PacketIs
    <2>4. packets[o].after + 1 < m + Numbers
      BY <2>2, RowRange
    <2>5. Reached(list, m, j) = Ending(o)
      BY <2>1 DEF Reached
    <2>. QED
      BY <2>1, <2>2, <2>3, <2>4, <2>5
  <1>3. ASSUME NEW i \in 0..Len(list), NEW j \in 1..Len(list), i < j
        PROVE  Reached(list, m, i) <= packets[Of(list[j])].after
    <2>1. CASE i = 0
      BY <1>2, <2>1 DEF Reached
    <2>2. CASE i # 0
      <3>1. PICK o : o = Of(list[i])
        OBVIOUS
      <3>2. PICK p : p = Of(list[j])
        OBVIOUS
      <3>3. i \in DOMAIN list /\ j \in DOMAIN list
        BY <1>1, <2>2
      <3>4. o < p /\ o \in DOMAIN packets /\ p \in DOMAIN packets
        BY <1>1, <1>3, <3>1, <3>2, <3>3 DEF Assembles
      <3>5. Ending(o) <= packets[p].after
        BY <3>4 DEF PacketsInv
      <3>. QED
        BY <2>2, <3>1, <3>2, <3>5 DEF Reached
    <2>. QED
      BY <2>1, <2>2
  <1>4. ASSUME NEW i \in 0..Len(list)
        PROVE  Reached(list, m, i) \in Nat /\ m <= Reached(list, m, i)
    <2>1. CASE i = 0
      BY <2>1 DEF Reached
    <2>2. CASE i # 0
      <3>1. i \in 1..Len(list)
        BY <1>1, <2>2
      <3>2. /\ packets[Of(list[i])].after \in Nat /\ m <= packets[Of(list[i])].after
            /\ packets[Of(list[i])].after < Reached(list, m, i) /\ Reached(list, m, i) \in Nat
        BY <1>2, <3>1
      <3>. QED
        BY <3>2
    <2>. QED
      BY <2>1, <2>2
  <1>. QED
    BY <1>2, <1>3, <1>4

(* The packets in line are those that follow each other without a gap.                *)
LEMMA InLineIs ==
    ASSUME PacketsInv, NEW m \in Nat, incomingReliableSequenceNumber = m % Numbers,
           NEW list, InRow(list, m)
    PROVE  \E k \in 0..Len(list) :
             /\ k = InLine(list)
             /\ \A i \in 1..k : /\ Complete(list[i])
                                /\ packets[Of(list[i])].after = Reached(list, m, i - 1)
             /\ k < Len(list) => ~ /\ Complete(list[k + 1])
                                   /\ packets[Of(list[k + 1])].after = Reached(list, m, k)
  <1>. DEFINE next(i) == (1 + IF i = 1 THEN incomingReliableSequenceNumber
                              ELSE LastNumber(list[i - 1])) % Numbers
              S == {k \in 0..Len(list) : \A i \in 1..k : Complete(list[i]) /\ list[i].seq = next(i)}
  <1>1. /\ list \in Seq(Queued) /\ Len(list) \in Nat /\ DOMAIN list = 1..Len(list)
        /\ \A i \in DOMAIN list : Assembles(list[i], Of(list[i]), m)
    BY DEF InRow
  <1>2. InLine(list) = Max(S)
    BY DEF InLine
  <1>3. 0 \in S
    BY <1>1
  <1>4. Max(S) \in S /\ \A x \in S : x <= Max(S)
    <2>1. S \in SUBSET (0..Len(list)) /\ S # {}
      BY <1>3
    <2>. HIDE DEF S
    <2>. QED
      BY <1>1, <2>1, MaxIs
  <1>5. PICK k \in 0..Len(list) : k = InLine(list) /\ k \in S
    BY <1>2, <1>4
  <1>6. ASSUME NEW i \in 1..Len(list), i = 1 \/ Complete(list[i - 1])
        PROVE  list[i].seq = next(i) <=> packets[Of(list[i])].after = Reached(list, m, i - 1)
    <2>1. PICK r \in Nat : r = Reached(list, m, i - 1)
      <3>1. i - 1 \in 0..Len(list)
        BY <1>1
      <3>. QED
        BY <3>1, RowGrows
    <2>2. PICK a \in Nat : a = packets[Of(list[i])].after
      BY RowGrows
    <2>3. r <= a /\ a + 1 < m + Numbers /\ m <= r
      <3>1. i - 1 \in 0..Len(list) /\ i - 1 < i
        BY <1>1
      <3>. QED
        BY <2>1, <2>2, <3>1, RowGrows
    <2>4. list[i].seq = (a + 1) % Numbers
      BY <1>1, <2>2 DEF Assembles
    <2>5. next(i) = (r + 1) % Numbers
      <3>1. ((r % Numbers) + 1) % Numbers = (r + 1) % Numbers /\ r % Numbers \in Int
        <4>1. r % Numbers \in Sequence /\ Sequence = 0..(Numbers - 1)
          BY Wraps DEF Sequence
        <4>. QED
          BY <4>1, Plus
      <3>2. 1 + (r % Numbers) = (r % Numbers) + 1
        BY <3>1
      <3>3. CASE i = 1
        <4>1. r = m
          BY <2>1, <3>3 DEF Reached
        <4>. QED
          BY <3>1, <3>2, <3>3, <4>1
      <3>4. CASE i # 1
        <4>1. i - 1 \in DOMAIN list /\ i - 1 # 0 /\ Complete(list[i - 1])
          BY <1>1, <1>6, <3>4
        <4>2. LastNumber(list[i - 1]) = Ending(Of(list[i - 1])) % Numbers
          BY <1>1, <4>1, Filled
        <4>3. r = Ending(Of(list[i - 1]))
          BY <2>1, <4>1 DEF Reached
        <4>. QED
          BY <3>1, <3>2, <3>4, <4>2, <4>3
      <3>. QED
        BY <3>3, <3>4
    <2>6. (a + 1) % Numbers = (r + 1) % Numbers <=> a = r
      <3>1. a + 1 \in Nat /\ r + 1 \in Nat /\ a + 1 < (r + 1) + Numbers /\ r + 1 < (a + 1) + Numbers
        BY <2>3, Sizes
      <3>2. (a + 1) % Numbers = (r + 1) % Numbers => a + 1 = r + 1
        BY <3>1, SameNumber
      <3>. QED
        BY <3>2
    <2>. HIDE DEF next
    <2>. QED
      BY <2>1, <2>2, <2>4, <2>5, <2>6
  <1>7. \A i \in 1..k : Complete(list[i]) /\ list[i].seq = next(i)
    BY <1>5
  <1>8. ASSUME NEW i \in 1..k
        PROVE  Complete(list[i]) /\ packets[Of(list[i])].after = Reached(list, m, i - 1)
    <2>1. i \in 1..Len(list) /\ (i = 1 \/ i - 1 \in 1..k)
      BY <1>1
    <2>. HIDE DEF next
    <2>. QED
      BY <1>6, <1>7, <2>1
  <1>9. ASSUME k < Len(list), Complete(list[k + 1]), packets[Of(list[k + 1])].after = Reached(list, m, k)
        PROVE  FALSE
    <2>1. k + 1 \in 1..Len(list) /\ (k + 1) - 1 = k /\ (k + 1 = 1 \/ k \in 1..k)
      BY <1>1, <1>9
    <2>2. k + 1 = 1 \/ Complete(list[(k + 1) - 1])
      BY <1>8, <2>1
    <2>3. list[k + 1].seq = next(k + 1)
      <3>. HIDE DEF next
      <3>1. list[k + 1].seq = next(k + 1) <=> packets[Of(list[k + 1])].after = Reached(list, m, (k + 1) - 1)
        BY <1>6, <2>1, <2>2
      <3>. QED
        BY <1>9, <2>1, <3>1
    <2>4. \A i \in 1..(k + 1) : i \in 1..k \/ i = k + 1
      OBVIOUS
    <2>5. k + 1 \in S
      <3>. HIDE DEF next
      <3>1. \A i \in 1..(k + 1) : Complete(list[i]) /\ list[i].seq = next(i)
        BY <1>7, <1>9, <2>3, <2>4
      <3>2. k + 1 \in 0..Len(list)
        BY <2>1
      <3>. QED
        BY <3>1, <3>2
    <2>6. k + 1 <= k
      BY <1>2, <1>4, <1>5, <2>5
    <2>. QED
      BY <2>6
  <1>. QED
    BY <1>5, <1>8, <1>9

(* The two parts of a sequence.                                               *)
LEMMA Parted ==
    ASSUME NEW S, NEW list \in Seq(S), NEW k \in 0..Len(list)
    PROVE  /\ SubSeq(list, 1, k) \in Seq(S) /\ Len(SubSeq(list, 1, k)) = k
           /\ \A i \in 1..k : SubSeq(list, 1, k)[i] = list[i]
           /\ SubSeq(list, k + 1, Len(list)) \in Seq(S)
           /\ Len(SubSeq(list, k + 1, Len(list))) = Len(list) - k
           /\ \A i \in 1..(Len(list) - k) : SubSeq(list, k + 1, Len(list))[i] = list[k + i]
  <1>1. Len(list) \in Nat /\ DOMAIN list = 1..Len(list) /\ \A i \in 1..Len(list) : list[i] \in S
    OBVIOUS
  <1>2. PICK t : t = SubSeq(list, 1, k)
    OBVIOUS
  <1>3. t = [i \in 1..k |-> list[i]]
    BY <1>1, <1>2
  <1>4. t \in Seq(S) /\ Len(t) = k /\ \A i \in 1..k : t[i] = list[i]
    <2>1. t \in [1..k -> S]
      BY <1>1, <1>3
    <2>. QED
      BY <1>3, <2>1
  <1>5. PICK l : l = Len(list) - k
    OBVIOUS
  <1>6. PICK r : r = SubSeq(list, k + 1, Len(list))
    OBVIOUS
  <1>7. r = [i \in 1..l |-> list[k + i]]
    BY <1>1, <1>5, <1>6
  <1>8. r \in Seq(S) /\ Len(r) = l /\ \A i \in 1..l : r[i] = list[k + i]
    <2>1. l \in Nat /\ \A i \in 1..l : k + i \in 1..Len(list)
      BY <1>1, <1>5
    <2>2. r \in [1..l -> S]
      BY <1>1, <1>7, <2>1
    <2>. QED
      BY <1>7, <2>1, <2>2
  <1>. QED
    BY <1>2, <1>4, <1>5, <1>6, <1>8

(* A packet among those that are given to the program; a part among those in a queue.     *)
Among(s, p) == \E i \in DOMAIN s : s[i] = p
InQueue(list, x) == \E i \in DOMAIN list : x \in list[i].parts

(* What enet_peer_dispatch_incoming_reliable_commands makes of the row: the first k       *)
(* packets are given to the program, and the receiver goes from m to n.           *)
Passes(list, m, k, n) ==
    LET rest == SubSeq(list, k + 1, Len(list))
        given == Packets(SubSeq(list, 1, k))
    IN  /\ m <= n /\ n <= LastSent /\ Boundary(n) /\ Turn(n) <= Turn(m) + (FreeWindows - 1)
        /\ k = 0 => n = m
        /\ k # 0 => m < n /\ LastNumber(list[k]) = n % Numbers
        /\ InRow(rest, n) /\ FirstWaits(rest, n)
        /\ GivenInOrder(given, n, 0) /\ \A i \in DOMAIN given : m < Ending(given[i])
        /\ \A p \in DOMAIN packets : packets[p].reliable =>
              (Among(given, p) <=> m <= packets[p].after /\ packets[p].after < n)
        /\ \A x : InQueue(list, x) => Among(given, x[2]) \/ InQueue(rest, x)

(* The packets in line are those between the old number and the new one.      *)
LEMMA RowDispatched ==
    ASSUME PacketsInv, LastSent \in Nat, NEW m \in Nat, m <= LastSent, Boundary(m),
           incomingReliableSequenceNumber = m % Numbers, NEW list, InRow(list, m)
    PROVE  \E k \in 0..Len(list), n \in Nat : k = InLine(list) /\ Passes(list, m, k, n)
  <1>1. PICK k \in 0..Len(list) :
          /\ k = InLine(list)
          /\ \A i \in 1..k : /\ Complete(list[i])
                             /\ packets[Of(list[i])].after = Reached(list, m, i - 1)
          /\ k < Len(list) => ~ /\ Complete(list[k + 1])
                                /\ packets[Of(list[k + 1])].after = Reached(list, m, k)
    BY InLineIs
  <1>2. /\ list \in Seq(Queued) /\ Len(list) \in Nat /\ DOMAIN list = 1..Len(list)
        /\ \A i \in DOMAIN list : Assembles(list[i], Of(list[i]), m)
        /\ \A i, j \in DOMAIN list : i < j => Of(list[i]) < Of(list[j])
    BY DEF InRow
  <1>3. PICK n \in Nat : n = Reached(list, m, k)
    BY <1>1, RowGrows
  <1>4. PICK l \in Nat : l = Len(list)
    BY <1>2
  <1>5. \A i \in 1..k : /\ i \in DOMAIN list /\ Complete(list[i])
                        /\ Of(list[i]) \in DOMAIN packets /\ packets[Of(list[i])].reliable
                        /\ Of(list[i]) \in Nat /\ Of(list[i]) <= Len(packets)
                        /\ Assembled(list[i]) = Of(list[i])
    <2>. TAKE i \in 1..k
    <2>1. i \in DOMAIN list /\ Complete(list[i])
      BY <1>1, <1>2
    <2>2. PICK o : o = Of(list[i])
      OBVIOUS
    <2>3. Assembles(list[i], o, m)
      BY <1>2, <2>1, <2>2
    <2>4. o \in DOMAIN packets /\ packets[o].reliable
      BY <2>3 DEF Assembles
    <2>5. o \in Nat /\ o <= Len(packets)
      BY <2>4, PacketIs
    <2>6. Assembled(list[i]) = o
      BY <2>1, <2>3, Filled
    <2>. QED
      BY <2>1, <2>2, <2>4, <2>5, <2>6
  <1>6. ASSUME k # 0
        PROVE  /\ m <= n /\ n <= LastSent /\ Boundary(n) /\ Turn(n) <= Turn(m) + (FreeWindows - 1)
               /\ m < n /\ LastNumber(list[k]) = n % Numbers
    <2>1. k \in 1..k /\ k \in 1..l
      BY <1>4, <1>6
    <2>2. PICK o : o = Of(list[k])
      OBVIOUS
    <2>3. PICK e : e = list[k]
      OBVIOUS
    <2>4. n = Ending(o)
      BY <1>3, <1>6, <2>2 DEF Reached
    <2>5. Assembles(e, o, m) /\ Complete(e)
      BY <1>2, <1>5, <2>1, <2>2, <2>3
    <2>6. n <= LastSent /\ LastNumber(e) = n % Numbers /\ m < n /\ Turn(n) <= Turn(m) + (FreeWindows - 1)
      BY <2>4, <2>5, Filled
    <2>7. o \in DOMAIN packets /\ packets[o].reliable
      BY <2>5 DEF Assembles
    <2>8. Boundary(n)
      BY <2>4, <2>7 DEF PacketsInv
    <2>. QED
      BY <2>3, <2>6, <2>8
  <1>7. ASSUME k = 0
        PROVE  n = m /\ Turn(n) <= Turn(m) + (FreeWindows - 1)
    <2>1. n = m
      BY <1>3, <1>7 DEF Reached
    <2>2. Turn(m) \in Nat /\ FreeWindows \in Nat /\ FreeWindows >= 3
      BY TurnIs, Sizes, ChannelAssumption
    <2>. QED
      BY <1>7, <2>1, <2>2
  <1>8. /\ m <= n /\ n <= LastSent /\ Boundary(n) /\ Turn(n) <= Turn(m) + (FreeWindows - 1)
        /\ k = 0 => n = m
        /\ k # 0 => m < n /\ LastNumber(list[k]) = n % Numbers
    BY <1>6, <1>7
  <1>9. PICK rest : rest = SubSeq(list, k + 1, Len(list))
    OBVIOUS
  <1>10. PICK front : front = SubSeq(list, 1, k)
    OBVIOUS
  <1>11. PICK given : given = Packets(front)
    OBVIOUS
  <1>12. /\ front \in Seq(Queued) /\ Len(front) = k /\ \A i \in 1..k : front[i] = list[i]
         /\ rest \in Seq(Queued) /\ Len(rest) = l - k /\ \A i \in 1..(l - k) : rest[i] = list[k + i]
    BY <1>2, <1>4, <1>9, <1>10, Parted
  <1>13. DOMAIN front = 1..k /\ DOMAIN rest = 1..(l - k)
    BY <1>12
  <1>14. DOMAIN given = 1..k /\ \A i \in 1..k : given[i] = Of(list[i])
    BY <1>5, <1>11, <1>12, <1>13 DEF Packets
  <1>15. GivenInOrder(given, n, 0) /\ \A i \in DOMAIN given : m < Ending(given[i])
    <2>1. given \in Seq(Nat)
      <3>1. given = [i \in 1..k |-> given[i]]
        BY <1>11, <1>13 DEF Packets
      <3>2. \A i \in 1..k : given[i] \in Nat
        BY <1>5, <1>14
      <3>3. given \in [1..k -> Nat]
        BY <3>1, <3>2
      <3>. QED
        BY <3>3
    <2>2. ASSUME NEW i \in 1..k
          PROVE  /\ given[i] \in DOMAIN packets /\ m < Ending(given[i])
                 /\ Ending(given[i]) < n \/ (Ending(given[i]) = n /\ packets[given[i]].number <= 0)
      <3>1. PICK o : o = Of(list[i])
        OBVIOUS
      <3>2. o \in DOMAIN packets /\ packets[o].reliable /\ given[i] = o
        BY <1>5, <1>14, <3>1
      <3>3. packets[o].number = 0 /\ Ending(o) \in Nat
        BY <3>2, PacketIs
      <3>4. Ending(o) = Reached(list, m, i) /\ i \in 1..l /\ k \in 1..l
        BY <1>4, <3>1 DEF Reached
      <3>5. packets[o].after \in Nat /\ m <= packets[o].after /\ packets[o].after < Ending(o)
        BY <1>4, <3>1, <3>4, RowGrows
      <3>6. CASE i = k
        BY <1>3, <3>2, <3>3, <3>4, <3>5, <3>6
      <3>7. CASE i < k
        <4>1. Ending(o) <= packets[Of(list[k])].after
          BY <1>4, <3>4, <3>7, RowGrows
        <4>2. packets[Of(list[k])].after < n /\ packets[Of(list[k])].after \in Nat
          BY <1>3, <1>4, <3>4, RowGrows
        <4>. QED
          BY <3>2, <3>3, <3>5, <4>1, <4>2
      <3>. QED
        BY <3>6, <3>7
    <2>3. \A i, j \in 1..k : i < j => given[i] < given[j]
      BY <1>2, <1>5, <1>14
    <2>. QED
      BY <1>14, <2>1, <2>2, <2>3 DEF GivenInOrder
  <1>16. \A i \in 1..(l - k) : k + i \in 1..l /\ k + i \in DOMAIN list /\ k < k + i
    BY <1>2, <1>4
  <1>17. InRow(rest, n)
    <2>1. ASSUME NEW i \in 1..(l - k) PROVE Assembles(rest[i], Of(rest[i]), n)
      <3>1. PICK e : e = list[k + i]
        OBVIOUS
      <3>2. PICK o : o = Of(e)
        OBVIOUS
      <3>3. Assembles(e, o, m) /\ rest[i] = e
        BY <1>2, <1>12, <1>16, <3>1, <3>2
      <3>4. n <= packets[o].after
        BY <1>3, <1>4, <1>16, <3>1, <3>2, RowGrows
      <3>5. Turn(packets[o].after + 1) <= Turn(n) + (FreeWindows - 2)
        <4>1. o \in DOMAIN packets /\ Turn(packets[o].after + 1) <= Turn(m) + (FreeWindows - 2)
          BY <3>3 DEF Assembles
        <4>2. PICK a \in Nat : a = packets[o].after
          BY <4>1, PacketIs
        <4>3. a + 1 \in Nat
          OBVIOUS
        <4>4. Turn(m) <= Turn(n) /\ Turn(m) \in Nat /\ Turn(n) \in Nat /\ Turn(a + 1) \in Nat
          BY <1>8, <4>3, TurnGrows, TurnIs
        <4>5. FreeWindows \in Nat
          BY Sizes
        <4>. QED
          BY <4>1, <4>2, <4>4, <4>5
      <3>. QED
        BY <3>2, <3>3, <3>4, <3>5 DEF Assembles
    <2>2. ASSUME NEW i \in 1..(l - k), NEW j \in 1..(l - k), i < j PROVE Of(rest[i]) < Of(rest[j])
      <3>1. k + i < k + j
        BY <2>2
      <3>. QED
        BY <1>2, <1>12, <1>16, <3>1
    <2>. QED
      BY <1>12, <1>13, <2>1, <2>2 DEF InRow
  <1>18. FirstWaits(rest, n)
    <2>1. SUFFICES ASSUME rest # <<>>, Complete(rest[1]), packets[Of(rest[1])].after = n PROVE FALSE
      BY DEF FirstWaits
    <2>2. 1 \in 1..(l - k) /\ k < l
      BY <1>4, <1>12, <1>13, <2>1
    <2>3. rest[1] = list[k + 1]
      BY <1>12, <2>2
    <2>. QED
      BY <1>1, <1>3, <1>4, <2>1, <2>2, <2>3
  <1>19. ASSUME NEW p \in DOMAIN packets, packets[p].reliable
         PROVE  Among(given, p) <=> m <= packets[p].after /\ packets[p].after < n
    <2>1. PICK a \in Nat : a = packets[p].after
      BY PacketIs
    <2>2. ASSUME NEW i \in 1..k, Of(list[i]) = p PROVE m <= a /\ a < n
      <3>1. i \in 1..l /\ k \in 1..l
        BY <1>4
      <3>2. m <= a /\ a < Reached(list, m, i) /\ Reached(list, m, i) \in Nat
        BY <1>4, <2>1, <2>2, <3>1, RowGrows
      <3>3. CASE i = k
        BY <1>3, <3>2, <3>3
      <3>4. CASE i < k
        <4>1. Reached(list, m, i) <= packets[Of(list[k])].after
          BY <1>4, <3>1, <3>4, RowGrows
        <4>2. packets[Of(list[k])].after < n /\ packets[Of(list[k])].after \in Nat
          BY <1>3, <1>4, <3>1, RowGrows
        <4>. QED
          BY <3>2, <4>1, <4>2
      <3>. QED
        BY <3>3, <3>4
    <2>3. ASSUME m <= a, a < n PROVE \E i \in 1..k : Of(list[i]) = p
      <3>. DEFINE S == {i \in 0..k : a < Reached(list, m, i)}
      <3>1. S \in SUBSET Nat /\ S # {}
        BY <1>3, <2>3
      <3>2. PICK i \in S : \A j \in S : i <= j
        BY <3>1, LeastNumber
      <3>3. i \in 0..k /\ a < Reached(list, m, i)
        BY <3>2
      <3>4. i # 0
        BY <2>3, <3>3 DEF Reached
      <3>5. i \in 1..k /\ i - 1 \in 0..k /\ i - 1 < i /\ i - 1 \in 0..Len(list) /\ i \in 1..Len(list)
        BY <1>4, <3>3, <3>4
      <3>6. ~(a < Reached(list, m, i - 1))
        BY <3>2, <3>5
      <3>7. PICK b \in Nat : b = packets[Of(list[i])].after
        BY <3>5, RowGrows
      <3>8. b <= a
        BY <1>1, <3>5, <3>6, <3>7, RowGrows
      <3>9. PICK o : o = Of(list[i])
        OBVIOUS
      <3>10. o \in DOMAIN packets /\ packets[o].reliable
        BY <1>5, <3>5, <3>9
      <3>11. /\ Ending(o) = b + packets[o].fragments /\ packets[o].fragments \in Nat
             /\ packets[p].fragments \in Nat /\ 0 < packets[p].fragments
        BY <3>7, <3>9, <3>10, PacketIs
      <3>12. a < Ending(o)
        BY <3>3, <3>4, <3>9 DEF Reached
      <3>13. PICK j \in Nat : j = a - b /\ j < packets[o].fragments
        BY <3>8, <3>11, <3>12
      <3>14. packets[o].after + j = packets[p].after + 0
        BY <2>1, <3>7, <3>9, <3>13
      <3>15. o = p
        BY <1>19, <3>10, <3>11, <3>13, <3>14, OnePacket
      <3>. QED
        BY <3>5, <3>9, <3>15
    <2>. QED
      BY <1>14, <2>1, <2>2, <2>3 DEF Among
  <1>20. ASSUME NEW x, InQueue(list, x) PROVE Among(given, x[2]) \/ InQueue(rest, x)
    <2>1. PICK i \in DOMAIN list : x \in list[i].parts
      BY <1>20 DEF InQueue
    <2>2. CASE i \in 1..k
      <3>1. x[2] = Of(list[i])
        BY <1>2, <2>1 DEF Assembles
      <3>. QED
        BY <1>14, <2>2, <3>1 DEF Among
    <2>3. CASE i \notin 1..k
      <3>1. i - k \in 1..(l - k) /\ k + (i - k) = i
        BY <1>2, <1>4, <2>3
      <3>2. rest[i - k] = list[i]
        BY <1>12, <3>1
      <3>. QED
        BY <1>13, <2>1, <3>1, <3>2 DEF InQueue
    <2>. QED
      BY <2>2, <2>3
  <1>21. Passes(list, m, k, n)
    BY <1>8, <1>9, <1>10, <1>11, <1>15, <1>17, <1>18, <1>19, <1>20 DEF Passes
  <1>. QED
    BY <1>1, <1>3, <1>21

--------------------------------------------------------------------------------
(* The unreliable commands that wait for a reliable one.                             *)

(* Those that stay in the receiver's windows keep their order when it moves on.       *)
LEMMA AwayMoves ==
    ASSUME NEW m \in Nat, NEW n \in Nat, m <= n, Turn(n) <= Turn(m) + (FreeWindows - 1),
           NEW s \in Sequence, InWindow(s, n % Numbers)
    PROVE  Away(s, n % Numbers) = Away(s, m % Numbers) - (n - m)
  <1>1. PICK d : d = Away(s, m % Numbers)
    OBVIOUS
  <1>2. d \in Nat /\ d < Numbers /\ (m + d) % Numbers = s
    BY <1>1, AwayIs
  <1>3. PICK b \in Nat : b = m + d
    BY <1>2
  <1>4. Numbers \in Nat \ {0} /\ b % Numbers = s /\ m <= b /\ b < m + Numbers
    BY <1>2, <1>3, Sizes
  <1>5. PICK k \in Nat : k = FreeWindows - 1
    BY Sizes
  <1>6. n < b + Numbers
    <2>1. n < m + k * WindowSize + WindowSize
      BY <1>5, TurnsApart
    <2>2. k * WindowSize + WindowSize <= Numbers
      <3>1. /\ Numbers = WindowSize * Windows /\ WindowSize \in Nat \ {0} /\ Windows \in Nat
            /\ k + 1 <= Windows
        BY <1>5, Sizes
      <3>2. WindowSize * (Windows - (k + 1)) >= 0
        BY <3>1
      <3>3. WindowSize * (Windows - (k + 1)) = Numbers - (k * WindowSize + WindowSize)
        BY <3>1
      <3>4. k * WindowSize \in Nat
        BY <3>1
      <3>. QED
        BY <1>4, <3>1, <3>2, <3>3, <3>4
    <2>3. k * WindowSize \in Nat /\ WindowSize \in Nat
      BY Sizes
    <2>. QED
      BY <1>4, <2>1, <2>2, <2>3
  <1>7. n <= b
    <2>1. SUFFICES ASSUME b < n PROVE FALSE
      OBVIOUS
    <2>2. Ahead(b % Numbers, n % Numbers) = Turn(b) - Turn(n) + Windows
      BY <1>6, <2>1, AheadIs
    <2>3. Turn(m) <= Turn(b) /\ Turn(m) \in Nat /\ Turn(b) \in Nat /\ Turn(n) \in Nat
      BY <1>4, TurnGrows, TurnIs
    <2>4. Ahead(b % Numbers, n % Numbers) \in 0..(FreeWindows - 2)
      BY <1>4 DEF InWindow
    <2>. QED
      BY <2>2, <2>3, <2>4, Sizes, ChannelAssumption
  <1>8. Away(b % Numbers, n % Numbers) = b - n
    <2>1. b < n + Numbers
      BY <1>4
    <2>. QED
      BY <1>7, <2>1, OneAway
  <1>. QED
    BY <1>1, <1>2, <1>3, <1>4, <1>8

(* An unreliable packet that the receiver has not gone past, as it sees its numbers.      *)
LEMMA HintRange ==
    ASSUME PacketsInv, NEW m \in Nat, NEW p \in DOMAIN packets, ~ packets[p].reliable,
           m <= packets[p].after, Turn(packets[p].after) <= Turn(m) + (FreeWindows - 2)
    PROVE  /\ packets[p].after \in Nat /\ packets[p].after < m + Numbers
           /\ InWindow(packets[p].after % Numbers, m % Numbers)
           /\ Away(packets[p].after % Numbers, m % Numbers) = packets[p].after - m
  <1>1. PICK a \in Nat : a = packets[p].after
    BY PacketIs
  <1>2. PICK k \in Nat : k = FreeWindows - 2
    BY Sizes
  <1>3. a < m + k * WindowSize + WindowSize
    BY <1>1, <1>2, TurnsApart
  <1>4. k * WindowSize + WindowSize <= Numbers
    <2>1. /\ Numbers = WindowSize * Windows /\ WindowSize \in Nat \ {0} /\ Windows \in Nat
          /\ k + 1 <= Windows
      BY <1>2, Sizes
    <2>2. WindowSize * (Windows - (k + 1)) >= 0
      BY <2>1
    <2>3. WindowSize * (Windows - (k + 1)) = Numbers - (k * WindowSize + WindowSize)
      BY <2>1
    <2>4. k * WindowSize \in Nat /\ Numbers \in Nat
      BY <2>1, Sizes
    <2>. QED
      BY <2>1, <2>2, <2>3, <2>4
  <1>5. k * WindowSize \in Nat /\ Numbers \in Nat /\ WindowSize \in Nat
    BY Sizes
  <1>6. m <= a /\ a < m + Numbers
    BY <1>1, <1>3, <1>4, <1>5
  <1>7. Ahead(a % Numbers, m % Numbers) = Turn(a) - Turn(m)
    BY <1>6, AheadIs
  <1>8. Turn(m) <= Turn(a) /\ Turn(m) \in Nat /\ Turn(a) \in Nat
    BY <1>6, TurnGrows, TurnIs
  <1>9. InWindow(a % Numbers, m % Numbers)
    BY <1>1, <1>2, <1>7, <1>8 DEF InWindow
  <1>10. Away(a % Numbers, m % Numbers) = a - m
    BY <1>6, OneAway
  <1>. QED
    BY <1>1, <1>6, <1>9, <1>10

(* When the receiver moves from m to n, what stays in its windows is not behind it.  *)
LEMMA HintMoves ==
    ASSUME PacketsInv, NEW m \in Nat, NEW n \in Nat, m <= n, Turn(n) <= Turn(m) + (FreeWindows - 1),
           NEW e, NEW p, NEW u, NEW v, Hinted(e, p, m, u), InWindow(e.seq, n % Numbers),
           e.seq = n % Numbers => v < e.unreliable
    PROVE  Hinted(e, p, n, v)
  <1>1. /\ p \in DOMAIN packets /\ ~ packets[p].reliable /\ m <= packets[p].after
        /\ Turn(packets[p].after) <= Turn(m) + (FreeWindows - 2)
        /\ e.seq = packets[p].after % Numbers /\ e.unreliable = packets[p].number
        /\ e \in Queued
    BY DEF Hinted
  <1>2. PICK a \in Nat : a = packets[p].after
    BY <1>1, PacketIs
  <1>3. Away(e.seq, m % Numbers) = a - m
    BY <1>1, <1>2, HintRange
  <1>4. e.seq \in Sequence
    BY <1>1 DEF Queued
  <1>5. Away(e.seq, n % Numbers) = a - n /\ Away(e.seq, n % Numbers) \in Nat
    <2>1. Away(e.seq, n % Numbers) = Away(e.seq, m % Numbers) - (n - m)
      BY <1>4, AwayMoves
    <2>2. (a - m) - (n - m) = a - n
      OBVIOUS
    <2>. QED
      BY <1>3, <1>4, <2>1, <2>2, AwayIs
  <1>6. n <= a
    BY <1>5
  <1>7. a < n + Numbers
    <2>1. a < m + Numbers /\ Numbers \in Nat
      BY <1>1, <1>2, HintRange, Sizes
    <2>. QED
      BY <2>1
  <1>8. Ahead(a % Numbers, n % Numbers) = Turn(a) - Turn(n)
    BY <1>6, <1>7, AheadIs
  <1>9. Turn(a) <= Turn(n) + (FreeWindows - 2)
    <2>1. Turn(a) - Turn(n) \in 0..(FreeWindows - 2)
      BY <1>1, <1>2, <1>8 DEF InWindow
    <2>2. Turn(a) \in Nat /\ Turn(n) \in Nat /\ FreeWindows \in Nat
      BY TurnIs, Sizes
    <2>. QED
      BY <2>1, <2>2
  <1>10. a = n => v < packets[p].number
    BY <1>1, <1>2
  <1>. QED
    BY <1>1, <1>2, <1>6, <1>9, <1>10 DEF Hinted

(* What is picked of the unreliable commands is in order as before.           *)
LEMMA HintsPicked ==
    ASSUME PacketsInv, NEW m \in Nat, NEW n \in Nat, m <= n, Turn(n) <= Turn(m) + (FreeWindows - 1),
           NEW u, NEW v, NEW list, Hints(list, m, u), NEW I \in SUBSET DOMAIN list,
           \A i \in I : /\ InWindow(list[i].seq, n % Numbers)
                        /\ list[i].seq = n % Numbers => v < list[i].unreliable
    PROVE  Hints(Pick(list, I), n, v)
  <1>1. /\ list \in Seq(Queued)
        /\ \A i \in DOMAIN list : Hinted(list[i], Of(list[i]), m, u)
        /\ \A i, j \in DOMAIN list : i < j => Precedes(list[i], list[j], m % Numbers)
    BY DEF Hints
  <1>2. PICK t : t = Pick(list, I)
    OBVIOUS
  <1>3. t \in Seq(Queued) /\ \E p : Places(t, list, I, p)
    <2>1. Pick(list, I) \in Seq(Queued) /\ \E p : Places(Pick(list, I), list, I, p)
      BY <1>1, PickPlaces
    <2>. QED
      BY <1>2, <2>1
  <1>4. PICK p : Places(t, list, I, p)
    BY <1>3
  <1>5. PICK l \in Nat : l = Len(t) /\ DOMAIN t = 1..l
    BY <1>3
  <1>6. /\ \A j \in 1..l : p[j] \in I /\ p[j] \in DOMAIN list /\ t[j] = list[p[j]]
        /\ \A j, k \in 1..l : j < k => p[j] < p[k]
    BY <1>4, <1>5 DEF Places
  <1>7. ASSUME NEW i \in 1..l, NEW j \in 1..l, i < j PROVE Precedes(t[i], t[j], n % Numbers)
    <2>1. PICK x : x = t[i]
      OBVIOUS
    <2>2. PICK y : y = t[j]
      OBVIOUS
    <2>3. Precedes(x, y, m % Numbers) /\ InWindow(x.seq, n % Numbers) /\ InWindow(y.seq, n % Numbers)
      BY <1>1, <1>6, <1>7, <2>1, <2>2
    <2>4. x.seq \in Sequence /\ y.seq \in Sequence
      <3>1. x \in Queued /\ y \in Queued
        BY <1>3, <1>5, <2>1, <2>2
      <3>. QED
        BY <3>1 DEF Queued
    <2>5. /\ Away(x.seq, n % Numbers) = Away(x.seq, m % Numbers) - (n - m)
          /\ Away(y.seq, n % Numbers) = Away(y.seq, m % Numbers) - (n - m)
          /\ Away(x.seq, m % Numbers) \in Nat /\ Away(y.seq, m % Numbers) \in Nat
      BY <2>3, <2>4, AwayMoves, AwayIs
    <2>6. Precedes(x, y, n % Numbers)
      BY <2>3, <2>5 DEF Precedes
    <2>. QED
      BY <2>1, <2>2, <2>6
  <1>8. ASSUME NEW j \in 1..l PROVE Hinted(t[j], Of(t[j]), n, v)
    <2>1. PICK e : e = t[j]
      OBVIOUS
    <2>2. PICK o : o = Of(e)
      OBVIOUS
    <2>3. /\ Hinted(e, o, m, u) /\ InWindow(e.seq, n % Numbers)
          /\ e.seq = n % Numbers => v < e.unreliable
      BY <1>1, <1>6, <2>1, <2>2
    <2>4. Hinted(e, o, n, v)
      BY <2>3, HintMoves
    <2>. QED
      BY <2>1, <2>2, <2>4
  <1>9. Hints(t, n, v)
    BY <1>3, <1>5, <1>7, <1>8 DEF Hints
  <1>. QED
    BY <1>2, <1>9

(* A complete one is put together to its packet.                                    *)
LEMMA HintFilled ==
    ASSUME PacketsInv, NEW e, NEW p, NEW m \in Nat, NEW u, Hinted(e, p, m, u), Complete(e)
    PROVE  Assembled(e) = p
  <1>1. p \in DOMAIN packets
    BY DEF Hinted
  <1>2. PICK f \in Nat \ {0} : f = packets[p].fragments
    BY <1>1, PacketIs
  <1>. QED
    BY <1>2, Whole DEF Hinted

(* What enet_peer_dispatch_incoming_unreliable_commands leaves at reliable number n when      *)
(* last was the last unreliable one: it gives out packets that came after both.   *)
Overtakes(n, last, before) ==
    \E rest, given, v :
        /\ v \in 0..LastUnreliable /\ last <= v
        /\ incomingUnreliableCommands' = rest /\ Hints(rest, n, v)
        /\ incomingUnreliableSequenceNumber' = v
        /\ delivered' = delivered \o before \o given
        /\ GivenInOrder(given, n, v)
        /\ \A i \in DOMAIN given : /\ ~ packets[given[i]].reliable
                                   /\ Ending(given[i]) = n /\ last < packets[given[i]].number

(* So it does, when the reliable commands brought the receiver from m to n.        *)
LEMMA HintsDispatched ==
    ASSUME PacketsInv, NEW m \in Nat, NEW n \in Nat, m <= n, Turn(n) <= Turn(m) + (FreeWindows - 1),
           NEW u, NEW list, Hints(list, m, u), NEW last \in 0..LastUnreliable, NEW before,
           last = IF m = n THEN u ELSE 0,
           NEW current, current = n % Numbers, NEW queued,
           DispatchUnreliable(list, current, last, before, queued)
    PROVE  Overtakes(n, last, before)
  <1>. DEFINE ready == {i \in DOMAIN list : list[i].seq = current /\ Complete(list[i])}
              passed == Max(ready \cup {0})
              waiting == {i \in DOMAIN list : i > passed /\ list[i].seq = current}
              dropped == {i \in waiting \ queued : Cardinality({j \in waiting : j > i}) > 1}
              kept == {i \in DOMAIN list \ dropped : i > passed /\ InWindow(list[i].seq, current)}
  <1>1. PICK queue : queue = UnreliableQueue(list, current, queued)
    OBVIOUS
  <1>2. queue.ready = Pick(list, ready) /\ queue.rest = Pick(list, kept)
    BY <1>1 DEF UnreliableQueue
  <1>3. PICK s : s = queue.ready
    OBVIOUS
  <1>4. /\ list \in Seq(Queued) /\ DOMAIN list = 1..Len(list) /\ Len(list) \in Nat
        /\ \A i \in DOMAIN list : Hinted(list[i], Of(list[i]), m, u)
        /\ \A i, j \in DOMAIN list : i < j => Precedes(list[i], list[j], m % Numbers)
    BY DEF Hints
  <1>5. s \in Seq(Queued) /\ \E p : Places(s, list, ready, p)
    <2>1. ready \in SUBSET DOMAIN list
      OBVIOUS
    <2>. HIDE DEF ready
    <2>2. Pick(list, ready) \in Seq(Queued) /\ \E p : Places(Pick(list, ready), list, ready, p)
      BY <1>4, <2>1, PickPlaces
    <2>. QED
      BY <1>2, <1>3, <2>2
  <1>6. PICK l \in Nat : l = Len(s) /\ DOMAIN s = 1..l
    BY <1>5
  <1>7. PICK p : Places(s, list, ready, p)
    BY <1>5
  <1>8. /\ \A j \in 1..l : p[j] \in ready /\ s[j] = list[p[j]]
        /\ \A j, k \in 1..l : j < k => p[j] < p[k]
        /\ \A i \in ready : \E j \in 1..l : p[j] = i
    BY <1>6, <1>7 DEF Places
  <1>9. ASSUME NEW i \in DOMAIN list, list[i].seq = current
        PROVE  /\ Of(list[i]) \in DOMAIN packets /\ ~ packets[Of(list[i])].reliable
               /\ Ending(Of(list[i])) = n
               /\ list[i].unreliable = packets[Of(list[i])].number
               /\ list[i].unreliable \in 0..LastUnreliable /\ last < list[i].unreliable
    <2>1. PICK e : e = list[i]
      OBVIOUS
    <2>2. PICK o : o = Of(e)
      OBVIOUS
    <2>3. /\ o \in DOMAIN packets /\ ~ packets[o].reliable /\ m <= packets[o].after
          /\ Turn(packets[o].after) <= Turn(m) + (FreeWindows - 2)
          /\ packets[o].after = m => u < packets[o].number
          /\ e.seq = packets[o].after % Numbers /\ e.unreliable = packets[o].number
          /\ e \in Queued
      BY <1>4, <2>1, <2>2 DEF Hinted
    <2>4. PICK a \in Nat : a = packets[o].after
      BY <2>3, PacketIs
    <2>5. a < m + Numbers
      BY <2>3, <2>4, HintRange
    <2>6. a = n
      <3>1. a % Numbers = n % Numbers
        BY <1>9, <2>1, <2>3, <2>4
      <3>2. n < a + Numbers
        <4>1. PICK k \in Nat : k = FreeWindows - 1
          BY Sizes
        <4>2. n < m + k * WindowSize + WindowSize
          BY <4>1, TurnsApart
        <4>3. k * WindowSize + WindowSize <= Numbers
          <5>1. /\ Numbers = WindowSize * Windows /\ WindowSize \in Nat \ {0} /\ Windows \in Nat
                /\ k + 1 <= Windows
            BY <4>1, Sizes
          <5>2. WindowSize * (Windows - (k + 1)) >= 0
            BY <5>1
          <5>3. WindowSize * (Windows - (k + 1)) = Numbers - (k * WindowSize + WindowSize)
            BY <5>1
          <5>4. k * WindowSize \in Nat /\ Numbers \in Nat
            BY <5>1, Sizes
          <5>. QED
            BY <5>1, <5>2, <5>3, <5>4
        <4>4. k * WindowSize \in Nat /\ Numbers \in Nat /\ WindowSize \in Nat
          BY Sizes
        <4>. QED
          BY <2>3, <2>4, <4>2, <4>3, <4>4
      <3>3. a < n + Numbers
        BY <2>5, Sizes
      <3>. QED
        BY <3>1, <3>2, <3>3, SameNumber
    <2>7. Ending(o) = n /\ packets[o].number \in Nat /\ packets[o].number # 0
      BY <2>3, <2>4, <2>6, PacketIs
    <2>8. last < packets[o].number
      BY <2>3, <2>4, <2>6, <2>7
    <2>9. e.unreliable \in 0..LastUnreliable
      BY <2>3 DEF Queued
    <2>. QED
      BY <2>1, <2>2, <2>3, <2>7, <2>8, <2>9
  <1>10. PICK v : v = IF l = 0 THEN last ELSE s[l].unreliable
    OBVIOUS
  <1>11. /\ v \in 0..LastUnreliable /\ last <= v
         /\ l = 0 => ready = {}
         /\ l # 0 => passed = p[l] /\ v = list[p[l]].unreliable /\ p[l] \in ready
    <2>1. CASE l = 0
      <3>1. ready = {}
        <4>. HIDE DEF ready
        <4>. QED
          BY <1>8, <2>1
      <3>. QED
        BY <1>10, <2>1, <3>1, Sizes
    <2>2. CASE l # 0
      <3>1. l \in 1..l /\ p[l] \in ready /\ v = list[p[l]].unreliable
        BY <1>8, <1>10, <2>2
      <3>2. p[l] \in DOMAIN list /\ list[p[l]].seq = current
        BY <3>1
      <3>3. v \in 0..LastUnreliable /\ last < v
        BY <1>9, <3>1, <3>2
      <3>4. passed = p[l]
        <4>1. ready \cup {0} \in SUBSET (0..Len(list)) /\ ready \cup {0} # {}
          BY <1>4
        <4>2. \A i \in ready \cup {0} : i <= p[l]
          <5>1. p[l] \in Nat
            BY <1>4, <3>2
          <5>2. ASSUME NEW i \in ready PROVE i <= p[l]
            <6>1. PICK j \in 1..l : p[j] = i
              BY <1>8, <5>2
            <6>2. j < l \/ j = l
              OBVIOUS
            <6>3. i \in Nat
              BY <1>4, <5>2
            <6>. QED
              BY <1>8, <3>1, <5>1, <6>1, <6>2, <6>3
          <5>. QED
            BY <5>1, <5>2
        <4>3. PICK S : S = ready \cup {0}
          OBVIOUS
        <4>4. Max(S) \in S /\ \A x \in S : x <= Max(S)
          BY <4>1, <4>3, <1>4, MaxIs
        <4>5. p[l] \in S /\ \A x \in S : x <= p[l]
          BY <3>1, <4>2, <4>3
        <4>6. S \subseteq Nat
          BY <1>4, <4>1, <4>3
        <4>7. Max(S) <= p[l] /\ p[l] <= Max(S) /\ Max(S) \in Nat /\ p[l] \in Nat
          BY <4>4, <4>5, <4>6
        <4>. QED
          BY <4>3, <4>7
      <3>. QED
        BY <2>2, <3>1, <3>3, <3>4, Sizes
    <2>. QED
      BY <2>1, <2>2
  <1>12. Hints(queue.rest, n, v)
    <2>1. kept \in SUBSET DOMAIN list /\ \A i \in kept : InWindow(list[i].seq, n % Numbers)
      OBVIOUS
    <2>2. ASSUME NEW i \in kept, list[i].seq = n % Numbers PROVE v < list[i].unreliable
      <3>1. i \in DOMAIN list /\ list[i].seq = current /\ i > passed
        BY <2>2
      <3>2. last < list[i].unreliable
        BY <1>9, <3>1
      <3>3. CASE l = 0
        BY <1>10, <3>2, <3>3
      <3>4. CASE l # 0
        <4>1. p[l] \in ready /\ passed = p[l] /\ v = list[p[l]].unreliable
          BY <1>11, <3>4
        <4>2. p[l] \in DOMAIN list /\ list[p[l]].seq = current /\ p[l] < i
          BY <1>4, <3>1, <4>1
        <4>3. Precedes(list[p[l]], list[i], m % Numbers)
          BY <1>4, <3>1, <4>2
        <4>4. Away(current, m % Numbers) \in Nat
          <5>1. current \in Sequence
            BY Wraps
          <5>. QED
            BY <5>1, AwayIs
        <4>. QED
          BY <3>1, <4>1, <4>2, <4>3, <4>4 DEF Precedes
      <3>. QED
        BY <3>3, <3>4
    <2>. HIDE DEF kept
    <2>3. Hints(Pick(list, kept), n, v)
      BY <2>1, <2>2, HintsPicked
    <2>. QED
      BY <1>2, <2>3
  <1>13. PICK given : given = Packets(s)
    OBVIOUS
  <1>14. /\ DOMAIN given = 1..l
         /\ \A j \in 1..l : /\ p[j] \in DOMAIN list /\ list[p[j]].seq = current
                            /\ given[j] = Of(list[p[j]])
    <2>1. DOMAIN given = 1..l
      BY <1>6, <1>13 DEF Packets
    <2>2. ASSUME NEW j \in 1..l
          PROVE  /\ p[j] \in DOMAIN list /\ list[p[j]].seq = current
                 /\ given[j] = Of(list[p[j]])
      <3>1. p[j] \in DOMAIN list /\ list[p[j]].seq = current /\ Complete(list[p[j]])
        BY <1>8
      <3>2. PICK e : e = list[p[j]]
        OBVIOUS
      <3>3. PICK o : o = Of(e)
        OBVIOUS
      <3>4. Hinted(e, o, m, u) /\ Complete(e)
        BY <1>4, <3>1, <3>2, <3>3
      <3>5. Assembled(e) = o
        BY <3>4, HintFilled
      <3>6. given[j] = Assembled(s[j])
        BY <1>6, <1>13 DEF Packets
      <3>. QED
        BY <1>8, <3>1, <3>2, <3>3, <3>5, <3>6
    <2>. QED
      BY <2>1, <2>2
  <1>15. ASSUME NEW j \in 1..l
         PROVE  /\ given[j] \in DOMAIN packets /\ ~ packets[given[j]].reliable
                /\ Ending(given[j]) = n /\ last < packets[given[j]].number
                /\ packets[given[j]].number = list[p[j]].unreliable
                /\ packets[given[j]].number <= v
    <2>1. /\ given[j] \in DOMAIN packets /\ ~ packets[given[j]].reliable
          /\ Ending(given[j]) = n /\ last < packets[given[j]].number
          /\ packets[given[j]].number = list[p[j]].unreliable
          /\ list[p[j]].unreliable \in Nat
      BY <1>9, <1>14, Sizes
    <2>2. list[p[j]].unreliable <= v
      <3>1. l # 0 /\ l \in 1..l
        OBVIOUS
      <3>2. v = list[p[l]].unreliable
        BY <1>11, <3>1
      <3>3. CASE j = l
        BY <2>1, <3>2, <3>3
      <3>4. CASE j < l
        <4>1. p[j] < p[l] /\ p[j] \in DOMAIN list /\ p[l] \in DOMAIN list
              /\ list[p[j]].seq = current /\ list[p[l]].seq = current
          BY <1>8, <1>14, <3>1, <3>4
        <4>2. Precedes(list[p[j]], list[p[l]], m % Numbers)
          BY <1>4, <4>1
        <4>3. Away(current, m % Numbers) \in Nat
          <5>1. current \in Sequence
            BY Wraps
          <5>. QED
            BY <5>1, AwayIs
        <4>4. list[p[j]].unreliable < list[p[l]].unreliable
          BY <4>1, <4>2, <4>3 DEF Precedes
        <4>5. v \in Nat
          BY <1>11, Sizes
        <4>. QED
          BY <2>1, <3>2, <4>4, <4>5
      <3>. QED
        BY <3>3, <3>4
    <2>. QED
      BY <2>1, <2>2
  <1>16. ASSUME NEW i \in 1..l, NEW j \in 1..l, i < j PROVE given[i] < given[j]
    <2>1. p[i] < p[j] /\ p[i] \in DOMAIN list /\ p[j] \in DOMAIN list
          /\ list[p[i]].seq = current /\ list[p[j]].seq = current
      BY <1>8, <1>14, <1>16
    <2>2. Precedes(list[p[i]], list[p[j]], m % Numbers)
      BY <1>4, <2>1
    <2>3. Away(current, m % Numbers) \in Nat
      <3>1. current \in Sequence
        BY Wraps
      <3>. QED
        BY <3>1, AwayIs
    <2>4. list[p[i]].unreliable < list[p[j]].unreliable
      BY <2>1, <2>2, <2>3 DEF Precedes
    <2>5. Earlier(given[i], given[j])
      BY <1>15, <2>4 DEF Earlier
    <2>. QED
      BY <1>15, <2>5, EarlierIs
  <1>17. GivenInOrder(given, n, v)
    <2>1. given \in Seq(Nat)
      <3>1. given = [j \in 1..l |-> given[j]]
        BY <1>6, <1>13 DEF Packets
      <3>2. \A j \in 1..l : given[j] \in Nat
        BY <1>15, PacketIs
      <3>3. given \in [1..l -> Nat]
        BY <3>1, <3>2
      <3>. QED
        BY <3>3
    <2>. QED
      BY <1>14, <1>15, <1>16, <2>1 DEF GivenInOrder
  <1>18. /\ incomingUnreliableCommands' = queue.rest
         /\ incomingUnreliableSequenceNumber' = v
         /\ delivered' = delivered \o before \o given
    <2>. HIDE DEF ready, kept
    <2>. QED
      BY <1>1, <1>3, <1>6, <1>10, <1>13 DEF DispatchUnreliable
  <1>. QED
    BY <1>11, <1>12, <1>14, <1>15, <1>17, <1>18 DEF Overtakes

(* The packet of such an entry is that of any of its parts.                         *)
LEMMA HintOf ==
    ASSUME NEW e, NEW p, NEW m, NEW u, Hinted(e, p, m, u)
    PROVE  Of(e) = p
  <1>1. e.parts # {} /\ \A part \in e.parts : part[2] = p
    BY DEF Hinted
  <1>2. (CHOOSE part \in e.parts : TRUE) \in e.parts
    BY <1>1
  <1>. QED
    BY <1>1, <1>2 DEF Of

(* An unreliable command that the receiver takes for one it has not gone past is not,    *)
(* neither from a datagram that came late nor from one that overtook the reliable ones.  *)
LEMMA NewHint ==
    ASSUME PacketsInv, SenderInv, NothingAcknowledgedIsLost, NEW m \in Nat, ReceiverInv(m),
           NEW c, Legit(c), ~ c.reliable, LastSent - Absolute(c) <= Lifetime,
           Len(outgoing) <= MaxQueued, InWindow(c.seq, m % Numbers)
    PROVE  /\ m <= packets[c.packet].after
           /\ Turn(packets[c.packet].after) <= Turn(m) + (FreeWindows - 2)
  <1>1. PICK a \in Nat : a = Absolute(c)
    BY CommandIs
  <1>2. a = packets[c.packet].after /\ c.seq = a % Numbers /\ a <= Numbered
    BY <1>1, CommandIs
  <1>3. PICK L \in Nat : L = LastSent
    BY DEF SenderInv
  <1>4. PICK d \in Nat : d = Windows - FreeWindows
    BY Sizes
  <1>5. /\ WindowSize \in Nat \ {0} /\ FreeWindows \in Nat /\ Windows \in Nat
        /\ d * WindowSize \in Nat /\ FreeWindows * WindowSize \in Nat /\ Numbers \in Nat
        /\ Numbers = d * WindowSize + FreeWindows * WindowSize
    BY <1>4, Sizes
  <1>6. L - a <= d * WindowSize
    BY <1>1, <1>3, <1>4, <1>5, Sizes
  <1>7. m <= L
    BY <1>3 DEF ReceiverInv
  <1>8. ~(a < m)
    <2>1. SUFFICES ASSUME a < m PROVE FALSE
      OBVIOUS
    <2>2. m <= a + d * WindowSize
      BY <1>5, <1>6, <1>7
    <2>3. Turn(m) <= Turn(a) + d /\ Turn(m) \in Nat /\ Turn(a) \in Nat
      BY <1>4, <2>2, TurnsApart, TurnIs
    <2>4. m < a + Numbers
      <3>1. FreeWindows * WindowSize > 0
        BY <1>5, Sizes
      <3>. QED
        BY <1>5, <2>2, <3>1
    <2>5. Ahead(a % Numbers, m % Numbers) = Turn(a) - Turn(m) + Windows
      BY <2>1, <2>4, AheadIs
    <2>. QED
      BY <1>2, <1>4, <1>5, <2>3, <2>5 DEF InWindow
  <1>9. a < m + Numbers
    <2>1. L < m + d * WindowSize
      <3>1. PICK k \in Nat : k = Windows - FreeWindows - 1
        BY Sizes
      <3>2. Turn(L) <= Turn(m) + k
        BY <1>3, <3>1, Reach
      <3>3. L < m + k * WindowSize + WindowSize
        BY <3>2, TurnsApart
      <3>4. k * WindowSize + WindowSize = d * WindowSize
        BY <1>4, <1>5, <3>1
      <3>. QED
        BY <1>5, <3>1, <3>3, <3>4
    <2>2. a <= L + FreeWindows * WindowSize
      <3>1. Len(outgoing) \in Nat /\ Numbered \in Nat /\ L = Numbered - Len(outgoing)
        BY <1>3 DEF SenderInv, PacketsInv, LastSent
      <3>. QED
        BY <1>2, <1>5, <3>1, Sizes
    <2>. QED
      BY <1>5, <2>1, <2>2
  <1>10. Ahead(a % Numbers, m % Numbers) = Turn(a) - Turn(m)
    BY <1>8, <1>9, AheadIs
  <1>11. Turn(a) \in Nat /\ Turn(m) \in Nat
    BY TurnIs
  <1>12. Turn(a) <= Turn(m) + (FreeWindows - 2)
    BY <1>2, <1>5, <1>10, <1>11 DEF InWindow
  <1>. QED
    BY <1>2, <1>8, <1>12

(* And the queue with one more part of an unreliable packet.                  *)
LEMMA WithPartHints ==
    ASSUME PacketsInv, NEW m \in Nat, incomingReliableSequenceNumber = m % Numbers, NEW u,
           NEW list, Hints(list, m, u), NEW c, Legit(c), ~ c.reliable,
           m <= packets[c.packet].after,
           Turn(packets[c.packet].after) <= Turn(m) + (FreeWindows - 2),
           packets[c.packet].after = m => u < packets[c.packet].number
    PROVE  Hints(WithPart(list, c), m, u)
  <1>1. PICK n : n = m % Numbers
    OBVIOUS
  <1>2. /\ list \in Seq(Queued)
        /\ \A i \in DOMAIN list : Hinted(list[i], Of(list[i]), m, u)
        /\ \A i, j \in DOMAIN list : i < j => Precedes(list[i], list[j], n)
    BY <1>1 DEF Hints
  <1>3. PICK l \in Nat : l = Len(list) /\ DOMAIN list = 1..l
    BY <1>2
  <1>4. /\ c.packet \in DOMAIN packets /\ ~ packets[c.packet].reliable /\ c.packet \in Nat
        /\ c.part \in Nat /\ c.seq \in Sequence /\ c.unreliable \in 0..LastUnreliable
        /\ c.fragments \in Nat /\ c.fragments = packets[c.packet].fragments /\ Number(c) = c.seq
        /\ c.seq = packets[c.packet].after % Numbers /\ c.unreliable = packets[c.packet].number
    <2>1. /\ c.packet \in DOMAIN packets /\ c \in Command /\ c.reliable = packets[c.packet].reliable
          /\ c.part \in Nat /\ c.fragments = packets[c.packet].fragments
          /\ c.seq = packets[c.packet].after % Numbers /\ c.unreliable = packets[c.packet].number
      BY CommandIs
    <2>2. Number(c) = c.seq
      BY DEF Number
    <2>. QED
      BY <2>1, <2>2, PacketIs DEF Command
  <1>5. PICK z : z = WithPart(list, c)
    OBVIOUS
  <1>6. Part(c) = <<c.part, c.packet>>
    BY DEF Part
  <1>7. ASSUME NEW i \in Same(list, c), \A part \in list[i].parts : part[1] # c.part
        PROVE  /\ Hinted(Copy(list[i], c), c.packet, m, u)
               /\ Copy(list[i], c).seq = list[i].seq
               /\ Copy(list[i], c).unreliable = list[i].unreliable
    <2>1. PICK x : x = list[i]
      OBVIOUS
    <2>2. PICK o : o = Of(x)
      OBVIOUS
    <2>3. /\ Hinted(x, o, m, u) /\ x.seq = c.seq /\ x.unreliable = c.unreliable
          /\ \A part \in x.parts : part[1] # c.part
      BY <1>2, <1>4, <1>7, <2>1, <2>2 DEF Same
    <2>4. /\ o \in DOMAIN packets /\ ~ packets[o].reliable /\ m <= packets[o].after
          /\ Turn(packets[o].after) <= Turn(m) + (FreeWindows - 2)
          /\ x.seq = packets[o].after % Numbers /\ x.unreliable = packets[o].number
          /\ x \in Queued /\ x.fragments = packets[o].fragments
          /\ x.parts \subseteq {<<k, o>> : k \in 0..(x.fragments - 1)}
          /\ x.fragmentsRemaining = x.fragments - Cardinality(x.parts)
      BY <2>3 DEF Hinted
    <2>5. PICK p : p = c.packet
      OBVIOUS
    <2>6. o = p
      <3>1. PICK a \in Nat : a = packets[o].after
        BY <2>4, PacketIs
      <3>2. PICK b \in Nat : b = packets[p].after
        BY <1>4, <2>5, PacketIs
      <3>3. m <= a /\ a < m + Numbers /\ m <= b /\ b < m + Numbers /\ Numbers \in Nat
        BY <1>4, <2>4, <2>5, <3>1, <3>2, HintRange, Sizes
      <3>4. a = b
        <4>1. a % Numbers = b % Numbers
          BY <1>4, <2>3, <2>4, <2>5, <3>1, <3>2
        <4>2. a < b + Numbers /\ b < a + Numbers
          BY <3>3
        <4>. QED
          BY <4>1, <4>2, SameNumber
      <3>5. /\ Ending(o) = a /\ Ending(p) = b /\ o \in Nat /\ p \in Nat
            /\ packets[o].number = packets[p].number /\ packets[o].number \in Nat
        <4>1. Ending(o) = a /\ o \in Nat /\ packets[o].number \in Nat
          BY <2>4, <3>1, PacketIs
        <4>2. Ending(p) = b /\ p \in Nat
          BY <1>4, <2>5, <3>2, PacketIs
        <4>. QED
          BY <1>4, <2>3, <2>4, <2>5, <4>1, <4>2
      <3>6. ~ Earlier(o, p) /\ ~ Earlier(p, o)
        BY <3>4, <3>5 DEF Earlier
      <3>7. ~(o < p) /\ ~(p < o)
        BY <1>4, <2>4, <2>5, <3>6, EarlierIs
      <3>. QED
        BY <3>5, <3>7
    <2>7. <<c.part, p>> \notin x.parts
      BY <2>3
    <2>8. Hinted(Copy(x, c), p, m, u) /\ Copy(x, c).seq = x.seq /\ Copy(x, c).unreliable = x.unreliable
      <3>1. Gathers(x, c.packet) /\ <<c.part, c.packet>> \notin x.parts
        BY <2>4, <2>5, <2>6, <2>7 DEF Gathers
      <3>2. /\ Hinted(Copy(x, c), c.packet, m, u)
            /\ Copy(x, c).seq = x.seq /\ Copy(x, c).unreliable = x.unreliable
        BY <3>1, CopiedHint
      <3>. QED
        BY <2>5, <3>2
    <2>. QED
      BY <2>1, <2>5, <2>8
  <1>8. CASE Same(list, c) = {}
    <2>1. PICK e0 : e0 = Entry(c)
      OBVIOUS
    <2>2. PICK e : e = Copy(e0, c)
      OBVIOUS
    <2>3. /\ e0 \in Queued /\ e0.seq = c.seq /\ e0.unreliable = c.unreliable /\ e0.parts = {}
          /\ e0.fragments = c.fragments /\ e0.fragmentsRemaining = e0.fragments - Cardinality(e0.parts)
      <3>1. e0 = [seq |-> c.seq, unreliable |-> c.unreliable, fragments |-> c.fragments,
                  fragmentsRemaining |-> c.fragments, parts |-> {}]
        BY <1>4, <2>1 DEF Entry
      <3>2. c.fragments \in Int /\ Cardinality({}) = 0
        BY <1>4, FS_EmptySet
      <3>3. e0.fragmentsRemaining = e0.fragments - Cardinality(e0.parts)
        BY <3>1, <3>2
      <3>. QED
        BY <1>4, <3>1, <3>2, <3>3 DEF Queued
    <2>4. /\ e \in Queued /\ e.seq = c.seq /\ e.unreliable = c.unreliable
          /\ Hinted(e, c.packet, m, u) /\ Of(e) = c.packet
      <3>1. /\ Hinted(Copy(e0, c), c.packet, m, u)
            /\ Copy(e0, c).seq = e0.seq /\ Copy(e0, c).unreliable = e0.unreliable
        <4>1. Gathers(e0, c.packet) /\ <<c.part, c.packet>> \notin e0.parts
          BY <1>4, <2>3 DEF Gathers
        <4>. QED
          BY <4>1, CopiedHint
      <3>2. Hinted(e, c.packet, m, u)
        BY <2>2, <3>1
      <3>3. e \in Queued
        BY <3>2 DEF Hinted
      <3>. QED
        BY <2>2, <2>3, <3>1, <3>2, <3>3, HintOf
    <2>5. z = Insert(list, e)
      BY <1>5, <1>8, <2>1, <2>2 DEF WithPart
    <2>6. PICK place \in 0..l :
             /\ z \in Seq(Queued) /\ Len(z) = l + 1
             /\ \A i \in 1..place : z[i] = list[i]
             /\ z[place + 1] = e
             /\ \A i \in (place + 1)..l : z[i + 1] = list[i]
             /\ place > 0 => Before(list[place], e)
             /\ \A i \in DOMAIN list : Before(list[i], e) => i <= place
      <3>1. list \in Seq(Queued) /\ e \in Queued
        BY <1>2, <2>4
      <3>2. \E place \in 0..Len(list) :
             /\ Insert(list, e) \in Seq(Queued) /\ Len(Insert(list, e)) = Len(list) + 1
             /\ \A i \in 1..place : Insert(list, e)[i] = list[i]
             /\ Insert(list, e)[place + 1] = e
             /\ \A i \in (place + 1)..Len(list) : Insert(list, e)[i + 1] = list[i]
             /\ place > 0 => Before(list[place], e)
             /\ \A i \in DOMAIN list : Before(list[i], e) => i <= place
        BY <3>1, InsertIs
      <3>. QED
        BY <1>3, <2>5, <3>2
    <2>7. \A x : Before(x, e) <=> Precedes(x, e, n)
      BY <1>1 DEF Before, Precedes, Distance, Away
    <2>8. ASSUME NEW i \in 1..l
          PROVE  /\ list[i].seq \in Sequence /\ list[i].unreliable \in Nat
                 /\ Away(list[i].seq, n) \in Nat
                 /\ ~(list[i].seq = e.seq /\ list[i].unreliable = e.unreliable)
      <3>1. PICK x : x = list[i]
        OBVIOUS
      <3>2. x \in Queued
        BY <1>2, <1>3, <3>1
      <3>3. x.seq \in Sequence /\ x.unreliable \in Nat
        BY <3>2 DEF Queued
      <3>4. Away(x.seq, n) \in Nat
        BY <1>1, <3>3, AwayIs
      <3>5. ~(x.seq = e.seq /\ x.unreliable = e.unreliable)
        BY <1>3, <1>4, <1>8, <2>4, <3>1 DEF Same
      <3>. QED
        BY <3>1, <3>3, <3>4, <3>5
    <2>9. e.seq \in Sequence /\ e.unreliable \in Nat /\ Away(e.seq, n) \in Nat
      BY <1>1, <1>4, <2>4, AwayIs
    <2>10. \A i \in 1..place : i \in 1..l /\ Precedes(list[i], e, n)
      <3>. TAKE i \in 1..place
      <3>1. place \in 1..l /\ i \in 1..l /\ place > 0
        BY <2>6
      <3>2. PICK x : x = list[i]
        OBVIOUS
      <3>3. PICK y : y = list[place]
        OBVIOUS
      <3>4. Precedes(y, e, n)
        BY <2>6, <2>7, <3>1, <3>3
      <3>5. CASE i = place
        BY <3>1, <3>3, <3>4, <3>5
      <3>6. CASE i < place
        <4>1. Precedes(x, y, n)
          BY <1>2, <1>3, <3>1, <3>2, <3>3, <3>6
        <4>2. /\ Away(x.seq, n) \in Nat /\ x.unreliable \in Nat
              /\ Away(y.seq, n) \in Nat /\ y.unreliable \in Nat
          BY <2>8, <3>1, <3>2, <3>3
        <4>3. Precedes(x, e, n)
          BY <2>9, <3>4, <4>1, <4>2 DEF Precedes
        <4>. QED
          BY <3>1, <3>2, <4>3
      <3>. QED
        BY <3>1, <3>5, <3>6
    <2>11. \A i \in (place + 1)..l : i \in 1..l /\ Precedes(e, list[i], n)
      <3>. TAKE i \in (place + 1)..l
      <3>1. i \in 1..l /\ ~(i <= place)
        BY <2>6
      <3>2. PICK x : x = list[i]
        OBVIOUS
      <3>3. ~ Precedes(x, e, n)
        BY <1>3, <2>6, <2>7, <3>1, <3>2
      <3>4. /\ Away(x.seq, n) \in Nat /\ x.unreliable \in Nat /\ x.seq \in Sequence
            /\ ~(x.seq = e.seq /\ x.unreliable = e.unreliable)
        BY <2>8, <3>1, <3>2
      <3>5. Away(x.seq, n) = Away(e.seq, n) => x.seq = e.seq
        <4>1. /\ (m + Away(x.seq, n)) % Numbers = x.seq
              /\ (m + Away(e.seq, n)) % Numbers = e.seq
          BY <1>1, <2>9, <3>4, AwayIs
        <4>. QED
          BY <4>1
      <3>6. Precedes(e, x, n)
        BY <2>9, <3>3, <3>4, <3>5 DEF Precedes
      <3>. QED
        BY <3>1, <3>2, <3>6
    <2>12. \A i \in 1..place, j \in (place + 1)..l : i < j
      OBVIOUS
    <2>13. DOMAIN z = 1..(l + 1)
      BY <2>6
    <2>14. \A j \in 1..(l + 1) : \/ j \in 1..place /\ j \in 1..l /\ z[j] = list[j]
                                 \/ j = place + 1 /\ z[j] = e
                                 \/ /\ j - 1 \in (place + 1)..l /\ j - 1 \in 1..l
                                    /\ z[j] = list[j - 1]
      <3>. TAKE j \in 1..(l + 1)
      <3>1. CASE j <= place
        BY <2>6, <3>1
      <3>2. CASE j = place + 1
        BY <2>6, <3>2
      <3>3. CASE j > place + 1
        <4>1. j - 1 \in (place + 1)..l /\ (j - 1) + 1 = j
          BY <3>3
        <4>2. z[(j - 1) + 1] = list[j - 1]
          BY <2>6, <4>1
        <4>. QED
          BY <4>1, <4>2
      <3>. QED
        BY <3>1, <3>2, <3>3
    <2>15. ASSUME NEW i \in 1..(l + 1), NEW j \in 1..(l + 1), i < j
           PROVE  Precedes(z[i], z[j], n)
      <3>1. CASE j \in 1..place /\ j \in 1..l /\ z[j] = list[j]
        <4>1. i \in 1..place /\ i \in 1..l
          BY <2>15, <3>1
        <4>2. z[i] = list[i]
          BY <2>6, <4>1
        <4>. QED
          BY <1>2, <1>3, <2>15, <3>1, <4>1, <4>2
      <3>2. CASE j = place + 1 /\ z[j] = e
        <4>1. i \in 1..place
          BY <2>15, <3>2
        <4>2. z[i] = list[i]
          BY <2>6, <4>1
        <4>. QED
          BY <2>10, <3>2, <4>1, <4>2
      <3>3. CASE j - 1 \in (place + 1)..l /\ j - 1 \in 1..l /\ z[j] = list[j - 1]
        <4>1. CASE i \in 1..place /\ i \in 1..l /\ z[i] = list[i]
          <5>1. i < j - 1
            BY <3>3, <4>1
          <5>. QED
            BY <1>2, <1>3, <3>3, <4>1, <5>1
        <4>2. CASE i = place + 1 /\ z[i] = e
          BY <2>11, <3>3, <4>2
        <4>3. CASE i - 1 \in (place + 1)..l /\ i - 1 \in 1..l /\ z[i] = list[i - 1]
          <5>1. i - 1 < j - 1
            BY <2>15
          <5>. QED
            BY <1>2, <1>3, <3>3, <4>3, <5>1
        <4>. QED
          BY <2>14, <4>1, <4>2, <4>3
      <3>. QED
        BY <2>14, <3>1, <3>2, <3>3
    <2>16. Hinted(e, Of(e), m, u)
      BY <2>4
    <2>17. ASSUME NEW j \in 1..(l + 1) PROVE Hinted(z[j], Of(z[j]), m, u)
      BY <1>2, <1>3, <2>14, <2>16
    <2>18. Hints(z, m, u)
      BY <1>1, <2>6, <2>13, <2>15, <2>17 DEF Hints
    <2>. QED
      BY <1>5, <2>18
  <1>9. CASE Same(list, c) # {}
    <2>1. z = [i \in DOMAIN list |->
                 IF i \in Same(list, c) /\ \A part \in list[i].parts : part[1] # c.part
                 THEN Copy(list[i], c) ELSE list[i]]
      BY <1>5, <1>9 DEF WithPart
    <2>2. \A i \in 1..l :
             /\ z[i] \in Queued /\ z[i].seq = list[i].seq /\ z[i].unreliable = list[i].unreliable
             /\ Hinted(z[i], Of(z[i]), m, u)
      <3>. TAKE i \in 1..l
      <3>1. PICK x : x = list[i]
        OBVIOUS
      <3>2. x \in Queued /\ Hinted(x, Of(x), m, u)
        BY <1>2, <1>3, <3>1
      <3>3. CASE i \in Same(list, c) /\ \A part \in list[i].parts : part[1] # c.part
        <4>1. PICK y : y = Copy(x, c)
          OBVIOUS
        <4>2. z[i] = y
          BY <1>3, <2>1, <3>1, <3>3, <4>1
        <4>3. Hinted(y, c.packet, m, u) /\ y.seq = x.seq /\ y.unreliable = x.unreliable
          BY <1>7, <3>1, <3>3, <4>1
        <4>4. Of(y) = c.packet /\ y \in Queued
          BY <4>3, HintOf DEF Hinted
        <4>. QED
          BY <3>1, <4>2, <4>3, <4>4
      <3>4. CASE ~(i \in Same(list, c) /\ \A part \in list[i].parts : part[1] # c.part)
        <4>1. z[i] = x
          BY <1>3, <2>1, <3>1, <3>4
        <4>. QED
          BY <3>1, <3>2, <4>1
      <3>. QED
        BY <3>3, <3>4
    <2>3. z \in Seq(Queued) /\ DOMAIN z = 1..l
      <3>1. z = [i \in 1..l |-> z[i]]
        BY <1>3, <2>1
      <3>2. z \in [1..l -> Queued]
        BY <2>2, <3>1
      <3>. QED
        BY <3>1, <3>2
    <2>4. \A i, j \in 1..l : i < j => Precedes(z[i], z[j], n)
      BY <1>2, <1>3, <2>2 DEF Precedes
    <2>5. Hints(z, m, u)
      BY <1>1, <2>2, <2>3, <2>4 DEF Hints
    <2>. QED
      BY <1>5, <2>5
  <1>. QED
    BY <1>8, <1>9

--------------------------------------------------------------------------------
(* A command is received.                                                        *)

(* What the program is given, and what it is given then.                      *)
LEMMA AmongBoth ==
    ASSUME NEW s \in Seq(Nat), NEW t \in Seq(Nat)
    PROVE  /\ s \o t \in Seq(Nat)
           /\ \A p : Among(s \o t, p) <=> Among(s, p) \/ Among(t, p)
           /\ \A i \in DOMAIN s : i \in DOMAIN (s \o t) /\ (s \o t)[i] = s[i]
  <1>1. PICK z : z = s \o t
    OBVIOUS
  <1>2. PICK k \in Nat : k = Len(s) /\ DOMAIN s = 1..k
    OBVIOUS
  <1>3. PICK l \in Nat : l = Len(t) /\ DOMAIN t = 1..l
    OBVIOUS
  <1>4. /\ z \in Seq(Nat) /\ DOMAIN z = 1..(k + l)
        /\ \A i \in 1..k : z[i] = s[i]
        /\ \A i \in 1..l : z[k + i] = t[i]
    <2>1. /\ s \o t \in Seq(Nat) /\ Len(s \o t) = Len(s) + Len(t)
          /\ \A i \in 1..Len(s) : (s \o t)[i] = s[i]
          /\ \A i \in 1..Len(t) : (s \o t)[Len(s) + i] = t[i]
          /\ DOMAIN (s \o t) = 1..Len(s \o t)
      BY Joined
    <2>. QED
      BY <1>1, <1>2, <1>3, <2>1
  <1>5. \A i \in 1..(k + l) : (i \in 1..k /\ z[i] = s[i]) \/ (i - k \in 1..l /\ z[i] = t[i - k])
    <2>. TAKE i \in 1..(k + l)
    <2>1. CASE i <= k
      BY <1>4, <2>1
    <2>2. CASE i > k
      <3>1. i - k \in 1..l /\ k + (i - k) = i
        BY <2>2
      <3>. QED
        BY <1>4, <3>1
    <2>. QED
      BY <2>1, <2>2
  <1>6. \A i \in 1..l : k + i \in 1..(k + l)
    OBVIOUS
  <1>7. \A i \in 1..k : i \in 1..(k + l)
    OBVIOUS
  <1>8. \A p : Among(z, p) <=> Among(s, p) \/ Among(t, p)
    <2>. TAKE p
    <2>1. ASSUME NEW i \in DOMAIN z, z[i] = p PROVE Among(s, p) \/ Among(t, p)
      <3>1. i \in 1..(k + l)
        BY <1>4
      <3>2. CASE i \in 1..k /\ z[i] = s[i]
        BY <1>2, <2>1, <3>2 DEF Among
      <3>3. CASE i - k \in 1..l /\ z[i] = t[i - k]
        <4>1. i - k \in DOMAIN t /\ t[i - k] = p
          BY <1>3, <2>1, <3>3
        <4>. QED
          BY <4>1 DEF Among
      <3>. QED
        BY <1>5, <3>1, <3>2, <3>3
    <2>2. ASSUME NEW i \in DOMAIN s, s[i] = p PROVE Among(z, p)
      BY <1>2, <1>4, <1>7, <2>2 DEF Among
    <2>3. ASSUME NEW i \in DOMAIN t, t[i] = p PROVE Among(z, p)
      <3>1. k + i \in DOMAIN z /\ z[k + i] = p
        BY <1>3, <1>4, <1>6, <2>3
      <3>. QED
        BY <3>1 DEF Among
    <2>. QED
      BY <2>1, <2>2, <2>3 DEF Among
  <1>9. \A i \in DOMAIN s : i \in DOMAIN z /\ z[i] = s[i]
    BY <1>2, <1>4, <1>7
  <1>. QED
    BY <1>1, <1>4, <1>8, <1>9

(* What is given after packets up to number m, and to unreliable number u after it, comes    *)
(* behind them when all of it lies beyond.                                     *)
LEMMA GivenTogether ==
    ASSUME PacketsInv, NEW m \in Nat, NEW n \in Nat, NEW u \in Nat, NEW v \in Nat,
           m < n \/ (m = n /\ u <= v),
           NEW s, NEW t, GivenInOrder(s, m, u), GivenInOrder(t, n, v),
           \A j \in DOMAIN t : \/ m < Ending(t[j])
                               \/ m = Ending(t[j]) /\ u < packets[t[j]].number
    PROVE  GivenInOrder(s \o t, n, v)
  <1>1. PICK z : z = s \o t
    OBVIOUS
  <1>2. /\ s \in Seq(Nat) /\ t \in Seq(Nat)
        /\ \A i \in DOMAIN s :
              /\ s[i] \in DOMAIN packets
              /\ Ending(s[i]) < m \/ (Ending(s[i]) = m /\ packets[s[i]].number <= u)
        /\ \A i, j \in DOMAIN s : i < j => s[i] < s[j]
        /\ \A i \in DOMAIN t :
              /\ t[i] \in DOMAIN packets
              /\ Ending(t[i]) < n \/ (Ending(t[i]) = n /\ packets[t[i]].number <= v)
        /\ \A i, j \in DOMAIN t : i < j => t[i] < t[j]
    BY DEF GivenInOrder
  <1>3. PICK k \in Nat : k = Len(s) /\ DOMAIN s = 1..k
    BY <1>2
  <1>4. PICK l \in Nat : l = Len(t) /\ DOMAIN t = 1..l
    BY <1>2
  <1>5. /\ z \in Seq(Nat) /\ DOMAIN z = 1..(k + l)
        /\ \A i \in 1..k : z[i] = s[i]
        /\ \A i \in 1..l : z[k + i] = t[i]
    <2>1. /\ s \o t \in Seq(Nat) /\ Len(s \o t) = Len(s) + Len(t)
          /\ \A i \in 1..Len(s) : (s \o t)[i] = s[i]
          /\ \A i \in 1..Len(t) : (s \o t)[Len(s) + i] = t[i]
          /\ DOMAIN (s \o t) = 1..Len(s \o t)
      BY <1>2, Joined
    <2>. QED
      BY <1>1, <1>3, <1>4, <2>1
  <1>6. \A i \in 1..(k + l) : (i \in 1..k /\ z[i] = s[i]) \/ (i - k \in 1..l /\ z[i] = t[i - k])
    <2>. TAKE i \in 1..(k + l)
    <2>1. CASE i <= k
      BY <1>5, <2>1
    <2>2. CASE i > k
      <3>1. i - k \in 1..l /\ k + (i - k) = i
        BY <2>2
      <3>. QED
        BY <1>5, <3>1
    <2>. QED
      BY <2>1, <2>2
  <1>7. ASSUME NEW i \in 1..k
        PROVE  /\ s[i] \in DOMAIN packets
               /\ Ending(s[i]) < n \/ (Ending(s[i]) = n /\ packets[s[i]].number <= v)
    <2>1. PICK p : p = s[i]
      OBVIOUS
    <2>2. /\ p \in DOMAIN packets
          /\ Ending(p) < m \/ (Ending(p) = m /\ packets[p].number <= u)
      BY <1>2, <1>3, <2>1
    <2>3. Ending(p) \in Nat /\ packets[p].number \in Nat
      BY <2>2, PacketIs
    <2>4. Ending(p) < n \/ (Ending(p) = n /\ packets[p].number <= v)
      BY <2>2, <2>3
    <2>. QED
      BY <2>1, <2>2, <2>4
  <1>8. ASSUME NEW i \in 1..k, NEW j \in 1..l PROVE s[i] < t[j]
    <2>1. PICK p : p = s[i]
      OBVIOUS
    <2>2. PICK q : q = t[j]
      OBVIOUS
    <2>3. /\ p \in DOMAIN packets
          /\ Ending(p) < m \/ (Ending(p) = m /\ packets[p].number <= u)
      BY <1>2, <1>3, <2>1
    <2>4. /\ q \in DOMAIN packets
          /\ m < Ending(q) \/ (m = Ending(q) /\ u < packets[q].number)
      BY <1>2, <1>4, <2>2
    <2>5. /\ Ending(p) \in Nat /\ packets[p].number \in Nat
          /\ Ending(q) \in Nat /\ packets[q].number \in Nat
      BY <2>3, <2>4, PacketIs
    <2>6. Earlier(p, q)
      BY <2>3, <2>4, <2>5 DEF Earlier
    <2>7. p < q
      BY <2>3, <2>4, <2>6, EarlierIs
    <2>. QED
      BY <2>1, <2>2, <2>7
  <1>9. ASSUME NEW i \in 1..(k + l)
        PROVE  /\ z[i] \in DOMAIN packets
               /\ Ending(z[i]) < n \/ (Ending(z[i]) = n /\ packets[z[i]].number <= v)
    BY <1>2, <1>4, <1>6, <1>7
  <1>10. ASSUME NEW i \in 1..(k + l), NEW j \in 1..(k + l), i < j PROVE z[i] < z[j]
    <2>1. CASE j \in 1..k /\ z[j] = s[j]
      <3>1. i \in 1..k
        BY <1>10, <2>1
      <3>. QED
        BY <1>2, <1>3, <1>5, <1>10, <2>1, <3>1
    <2>2. CASE j - k \in 1..l /\ z[j] = t[j - k]
      <3>1. CASE i \in 1..k /\ z[i] = s[i]
        BY <1>8, <2>2, <3>1
      <3>2. CASE i - k \in 1..l /\ z[i] = t[i - k]
        <4>1. i - k < j - k
          BY <1>10
        <4>. QED
          BY <1>2, <1>4, <2>2, <3>2, <4>1
      <3>. QED
        BY <1>6, <3>1, <3>2
    <2>. QED
      BY <1>6, <2>1, <2>2
  <1>11. GivenInOrder(z, n, v)
    BY <1>5, <1>9, <1>10 DEF GivenInOrder
  <1>. QED
    BY <1>1, <1>11

(* What was given stays given.                                                   *)
DeliversOn == \A i \in DOMAIN delivered : i \in DOMAIN delivered' /\ delivered'[i] = delivered[i]

(* What a step of the receiver owes.                                             *)
LEMMA ReceiverMoves ==
    ASSUME UNCHANGED sender, NEW n \in Nat, n <= LastSent, Boundary(n),
           incomingReliableSequenceNumber' = n % Numbers,
           NEW u \in 0..LastUnreliable, incomingUnreliableSequenceNumber' = u,
           NEW given, delivered' = given, GivenInOrder(given, n, u),
           \A p \in DOMAIN packets : packets[p].reliable =>
              (Among(given, p) <=> packets[p].after < n),
           NEW row, incomingReliableCommands' = row, InRow(row, n), FirstWaits(row, n),
           NEW hints, incomingUnreliableCommands' = hints, Hints(hints, n, u)
    PROVE  ReceiverInv(n)'
  <1>1. /\ packets' = packets /\ outgoing' = outgoing
        /\ outgoingReliableSequenceNumber' = outgoingReliableSequenceNumber
    BY DEF sender
  <1>2. Numbered' = Numbered /\ LastSent' = LastSent
    BY <1>1, SameSent
  <1>3. n <= LastSent' /\ Boundary(n)'
    BY <1>1, <1>2 DEF Boundary
  <1>4. InRow(row, n)' /\ FirstWaits(row, n)'
    <2>1. \A e, p : Assembles(e, p, n) => Assembles(e, p, n)'
      BY <1>1, <1>2 DEF Assembles, Turn
    <2>2. InRow(row, n)'
      BY <2>1 DEF InRow, Of
    <2>3. FirstWaits(row, n)'
      BY <1>1 DEF FirstWaits, Complete, Of
    <2>. QED
      BY <2>2, <2>3
  <1>5. GivenInOrder(given, n, u)'
    BY <1>1 DEF GivenInOrder, Ending, Width
  <1>6. Hints(hints, n, u)'
    <2>1. \A e, p : Hinted(e, p, n, u) => Hinted(e, p, n, u)'
      BY <1>1 DEF Hinted, Turn
    <2>. QED
      BY <2>1 DEF Hints, Precedes, Away, Of
  <1>7. \A p \in DOMAIN packets' : packets'[p].reliable => (IsDelivered(p)' <=> packets'[p].after < n)
    BY <1>1 DEF IsDelivered, Among
  <1>8. InRow(incomingReliableCommands, n)' /\ FirstWaits(incomingReliableCommands, n)'
    BY <1>4
  <1>9. /\ Hints(incomingUnreliableCommands, n, incomingUnreliableSequenceNumber)'
        /\ GivenInOrder(delivered, n, incomingUnreliableSequenceNumber)'
    BY <1>5, <1>6
  <1>. QED
    BY <1>1, <1>3, <1>7, <1>8, <1>9 DEF ReceiverInv

(* A step of the receiver that owes nothing keeps the invariant.              *)
LEMMA ReceiveKeeps ==
    ASSUME IInv, UNCHANGED sender, Fresh', KeepsReceived, NEW n \in Nat, ReceiverInv(n)',
           \A d \in wire' : d \in wire \/ OnWire(d)'
    PROVE  IInv'
  <1>1. /\ PacketsInv /\ SenderInv /\ CountersInv /\ WireInv /\ NothingAcknowledgedIsLost
    BY DEF IInv
  <1>2. /\ UNCHANGED <<plan, packets, outgoingReliableSequenceNumber, outgoingUnreliableSequenceNumber>>
        /\ UNCHANGED <<resend, outgoing, sentReliableCommands, reliableWindows, reliableDataInTransit>>
    BY DEF sender
  <1>3. Unacknowledged' = Unacknowledged
    BY <1>2 DEF Unacknowledged
  <1>4. SenderInv' /\ LastSent \in Nat /\ LastSent' = LastSent /\ outgoing \in Seq(Command)
    <2>1. PICK list : list = Unacknowledged
      OBVIOUS
    <2>2. PICK queue : queue = outgoing
      OBVIOUS
    <2>3. Unanswered(list)' /\ Waiting(queue)' /\ LastSent' = LastSent /\ LastSent \in Nat
      BY <1>1, <1>2, <2>1, <2>2, SameSent DEF SenderInv
    <2>4. Unanswered(Unacknowledged)' /\ Waiting(outgoing)'
      BY <1>2, <1>3, <2>1, <2>2, <2>3
    <2>. QED
      BY <1>1, <1>2, <2>3, <2>4 DEF SenderInv
  <1>5. CountersInv'
    BY <1>1, <1>2, <1>3 DEF CountersInv, CountersMatch
  <1>6. PacketsInv' /\ Grows
    BY <1>1, <1>2, <1>4, SamePackets
  <1>7. WireInv'
    <2>1. \A d \in wire : OnWire(d)'
      BY <1>1, <1>6, DatagramStays DEF WireInv
    <2>. QED
      BY <2>1 DEF WireInv
  <1>8. NothingAcknowledgedIsLost'
    <2>. SUFFICES ASSUME NEW p \in DOMAIN packets, packets[p].reliable,
                         NEW k \in 0..(packets[p].fragments - 1)
                  PROVE  \/ Received(p, k)'
                         \/ \E s \in {Unacknowledged', outgoing'} : \E i \in DOMAIN s :
                               s[i].packet = p /\ s[i].part = k
      BY <1>2 DEF NothingAcknowledgedIsLost
    <2>1. k \in Nat
      BY <1>1, PacketIs
    <2>2. Received(p, k) => Received(p, k)'
      BY <2>1 DEF KeepsReceived
    <2>. QED
      BY <1>1, <1>2, <1>3, <2>2 DEF NothingAcknowledgedIsLost
  <1>. QED
    BY <1>4, <1>5, <1>6, <1>7, <1>8 DEF IInv

(* The answer to a command that was received.                                      *)
LEMMA AnswerIsRight ==
    ASSUME PacketsInv, WireInv, UNCHANGED sender, NEW c, Send(c) \in wire, c.reliable, Answer(c),
           Acknowledged(c.seq, incomingReliableSequenceNumber') => Received(c.packet, c.part)'
    PROVE  \A d \in wire' : d \in wire \/ OnWire(d)'
  <1>1. Legit(c) /\ Absolute(c) <= LastSent
    BY DEF WireInv, OnWire, Send
  <1>2. /\ UNCHANGED <<packets, outgoingReliableSequenceNumber, outgoing>>
    BY DEF sender
  <1>3. Legit(c)' /\ (Absolute(c) <= LastSent)'
    BY <1>1, <1>2, SameSent
  <1>4. CASE Acknowledged(c.seq, incomingReliableSequenceNumber')
    <2>1. OnWire(Acknowledge(c))'
      BY <1>3, <1>4 DEF OnWire, Acknowledge, Send
    <2>2. \A d \in wire' : d \in wire \/ d = Acknowledge(c)
      BY <1>4 DEF Answer
    <2>. QED
      BY <2>1, <2>2
  <1>5. CASE ~ Acknowledged(c.seq, incomingReliableSequenceNumber')
    BY <1>5 DEF Answer
  <1>. QED
    BY <1>4, <1>5

(* The packet the command belongs to is in the receiver's windows, and was not delivered.   *)
LEMMA ReceivedInRow ==
    ASSUME IInv, NEW m \in Nat, ReceiverInv(m), UNCHANGED sender,
           NEW c, Legit(c), c.reliable, Absolute(c) <= LastSent,
           m <= packets[c.packet].after,
           Turn(packets[c.packet].after + 1) <= Turn(m) + (FreeWindows - 2),
           DispatchReliable(WithPart(incomingReliableCommands, c))
    PROVE  /\ \E n \in Nat : ReceiverInv(n)'
           /\ KeepsReceived /\ DeliversOn /\ Received(c.packet, c.part)'
  <1>1. PacketsInv /\ SenderInv /\ LastSent \in Nat
    BY DEF IInv, SenderInv
  <1>0. PICK u \in 0..LastUnreliable : u = incomingUnreliableSequenceNumber
    BY DEF ReceiverInv
  <1>2. /\ m <= LastSent /\ Boundary(m) /\ incomingReliableSequenceNumber = m % Numbers
        /\ delivered \in Seq(Nat) /\ GivenInOrder(delivered, m, u)
        /\ \A p \in DOMAIN packets : packets[p].reliable => (Among(delivered, p) <=> packets[p].after < m)
        /\ Hints(incomingUnreliableCommands, m, u)
    BY <1>0 DEF ReceiverInv, IsDelivered, Among, GivenInOrder
  <1>3. PICK list : list = incomingReliableCommands
    OBVIOUS
  <1>4. InRow(list, m)
    BY <1>3 DEF ReceiverInv
  <1>5. PICK row : row = WithPart(list, c)
    OBVIOUS
  <1>6. /\ InRow(row, m) /\ InQueue(row, <<c.part, c.packet>>)
        /\ \A x : InQueue(list, x) => InQueue(row, x)
    <2>1. /\ InRow(WithPart(list, c), m)
          /\ \E j \in DOMAIN WithPart(list, c) : <<c.part, c.packet>> \in WithPart(list, c)[j].parts
          /\ \A i \in DOMAIN list : \E j \in DOMAIN WithPart(list, c) :
                list[i].parts \subseteq WithPart(list, c)[j].parts
      BY <1>1, <1>2, <1>4, WithPartInRow
    <2>. QED
      BY <1>5, <2>1 DEF InQueue
  <1>7. PICK k \in 0..Len(row), n \in Nat : k = InLine(row) /\ Passes(row, m, k, n)
    BY <1>1, <1>2, <1>6, RowDispatched
  <1>8. PICK rest : rest = SubSeq(row, k + 1, Len(row))
    OBVIOUS
  <1>9. PICK given : given = Packets(SubSeq(row, 1, k))
    OBVIOUS
  <1>10. /\ m <= n /\ n <= LastSent /\ Boundary(n) /\ Turn(n) <= Turn(m) + (FreeWindows - 1)
         /\ k = 0 => n = m
         /\ k # 0 => m < n /\ LastNumber(row[k]) = n % Numbers
         /\ InRow(rest, n) /\ FirstWaits(rest, n)
         /\ given \in Seq(Nat) /\ GivenInOrder(given, n, 0)
         /\ \A i \in DOMAIN given : m < Ending(given[i])
         /\ \A p \in DOMAIN packets : packets[p].reliable =>
               (Among(given, p) <=> m <= packets[p].after /\ packets[p].after < n)
         /\ \A x : InQueue(row, x) => Among(given, x[2]) \/ InQueue(rest, x)
    BY <1>7, <1>8, <1>9 DEF Passes, GivenInOrder
  <1>11. DispatchReliable(row)
    BY <1>3, <1>5
  <1>12. incomingReliableCommands' = rest
    BY <1>7, <1>8, <1>11 DEF DispatchReliable
  <1>13. \E hints, added, v :
            /\ incomingReliableSequenceNumber' = n % Numbers
            /\ v \in 0..LastUnreliable /\ incomingUnreliableSequenceNumber' = v
            /\ incomingUnreliableCommands' = hints /\ Hints(hints, n, v)
            /\ added \in Seq(Nat) /\ delivered' = (delivered \o given) \o added
            /\ GivenInOrder((delivered \o given) \o added, n, v)
            /\ \A i \in DOMAIN added : ~ packets[added[i]].reliable
    <2>1. CASE k = 0
      <3>1. UNCHANGED <<incomingReliableSequenceNumber, incomingUnreliableSequenceNumber,
                        incomingUnreliableCommands, delivered>>
        BY <1>7, <1>11, <2>1 DEF DispatchReliable
      <3>2. row \in Seq(Queued)
        BY <1>6 DEF InRow
      <3>3. given = <<>>
        <4>1. SubSeq(row, 1, k) \in Seq(Queued) /\ Len(SubSeq(row, 1, k)) = k
          BY <3>2, Parted
        <4>2. SubSeq(row, 1, k) = <<>>
          BY <2>1, <4>1
        <4>. QED
          BY <1>9, <4>2 DEF Packets
      <3>4. delivered = (delivered \o given) \o <<>>
        BY <1>2, <3>3
      <3>5. PICK old : old = incomingUnreliableCommands
        OBVIOUS
      <3>6. /\ incomingReliableSequenceNumber' = n % Numbers
            /\ incomingUnreliableSequenceNumber' = u
            /\ incomingUnreliableCommands' = old /\ Hints(old, n, u)
            /\ <<>> \in Seq(Nat) /\ delivered' = (delivered \o given) \o <<>>
        BY <1>0, <1>2, <1>10, <2>1, <3>1, <3>4, <3>5
      <3>7. GivenInOrder((delivered \o given) \o <<>>, n, u)
        BY <1>2, <1>10, <2>1, <3>4
      <3>8. \A i \in DOMAIN <<>> : ~ packets[<<>>[i]].reliable
        OBVIOUS
      <3>. QED
        BY <3>6, <3>7, <3>8
    <2>2. CASE k # 0
      <3>1. PICK current : current = LastNumber(row[k])
        OBVIOUS
      <3>2. PICK old : old = incomingUnreliableCommands
        OBVIOUS
      <3>3. /\ incomingReliableSequenceNumber' = current
            /\ DispatchUnreliable(old, current, 0, given, {})
        BY <1>7, <1>9, <1>11, <2>2, <3>1, <3>2 DEF DispatchReliable
      <3>4. /\ current = n % Numbers /\ 0 \in 0..LastUnreliable /\ Hints(old, m, u)
            /\ 0 = IF m = n THEN u ELSE 0
        BY <1>2, <1>10, <2>2, <3>1, <3>2, ChannelAssumption
      <3>5. Overtakes(n, 0, given)
        BY <1>1, <1>10, <3>3, <3>4, HintsDispatched
      <3>6. PICK hints, added, v :
               /\ v \in 0..LastUnreliable
               /\ incomingUnreliableCommands' = hints /\ Hints(hints, n, v)
               /\ incomingUnreliableSequenceNumber' = v
               /\ delivered' = delivered \o given \o added
               /\ GivenInOrder(added, n, v)
               /\ \A i \in DOMAIN added : /\ ~ packets[added[i]].reliable
                                          /\ Ending(added[i]) = n /\ 0 < packets[added[i]].number
        BY <3>5 DEF Overtakes
      <3>7. PICK s : s = delivered \o given
        OBVIOUS
      <3>8. u \in Nat /\ v \in Nat /\ 0 <= v /\ m < n
        BY <1>10, <2>2, <3>6, Sizes
      <3>9. GivenInOrder(s, n, 0)
        <4>1. 0 \in Nat /\ GivenInOrder(delivered, m, u) /\ GivenInOrder(given, n, 0)
          BY <1>2, <1>10
        <4>2. \A j \in DOMAIN given : m < Ending(given[j])
          BY <1>10
        <4>. QED
          BY <1>1, <3>7, <3>8, <4>1, <4>2, GivenTogether
      <3>10. GivenInOrder(s \o added, n, v)
        BY <1>1, <3>6, <3>8, <3>9, GivenTogether
      <3>11. added \in Seq(Nat)
        BY <3>6 DEF GivenInOrder
      <3>. QED
        BY <3>3, <3>4, <3>6, <3>7, <3>10, <3>11
    <2>. QED
      BY <1>10, <2>1, <2>2
  <1>14. PICK hints, added, v :
            /\ incomingReliableSequenceNumber' = n % Numbers
            /\ v \in 0..LastUnreliable /\ incomingUnreliableSequenceNumber' = v
            /\ incomingUnreliableCommands' = hints /\ Hints(hints, n, v)
            /\ added \in Seq(Nat) /\ delivered' = (delivered \o given) \o added
            /\ GivenInOrder((delivered \o given) \o added, n, v)
            /\ \A i \in DOMAIN added : ~ packets[added[i]].reliable
    BY <1>13
  <1>15. PICK all : all = (delivered \o given) \o added
    OBVIOUS
  <1>16. /\ \A p : Among(all, p) <=> Among(delivered, p) \/ Among(given, p) \/ Among(added, p)
         /\ \A i \in DOMAIN delivered : i \in DOMAIN all /\ all[i] = delivered[i]
    <2>1. PICK s : s = delivered \o given
      OBVIOUS
    <2>2. /\ s \in Seq(Nat)
          /\ \A p : Among(s, p) <=> Among(delivered, p) \/ Among(given, p)
          /\ \A i \in DOMAIN delivered : i \in DOMAIN s /\ s[i] = delivered[i]
      BY <1>2, <1>10, <2>1, AmongBoth
    <2>3. /\ \A p : Among(all, p) <=> Among(s, p) \/ Among(added, p)
          /\ \A i \in DOMAIN s : i \in DOMAIN all /\ all[i] = s[i]
      BY <1>14, <1>15, <2>1, <2>2, AmongBoth
    <2>. QED
      BY <2>2, <2>3
  <1>17. ASSUME NEW p \in DOMAIN packets, packets[p].reliable
         PROVE  Among(all, p) <=> packets[p].after < n
    <2>1. ~ Among(added, p)
      BY <1>14, <1>17 DEF Among
    <2>2. packets[p].after \in Nat
      BY <1>1, PacketIs
    <2>. QED
      BY <1>2, <1>10, <1>16, <1>17, <2>1, <2>2
  <1>18. ReceiverInv(n)'
    BY <1>10, <1>12, <1>14, <1>15, <1>17, ReceiverMoves
  <1>19. \A x : InQueue(row, x) => Among(all, x[2]) \/ InQueue(rest, x)
    BY <1>10, <1>16
  <1>20. ASSUME NEW p, NEW j, Among(delivered, p) \/ InQueue(row, <<j, p>>)
         PROVE  Received(p, j)'
    <2>1. Among(all, p) \/ InQueue(rest, <<j, p>>)
      BY <1>16, <1>19, <1>20
    <2>. QED
      BY <1>12, <1>14, <1>15, <2>1 DEF Received, Among, InQueue
  <1>21. KeepsReceived
    <2>1. ASSUME NEW p, NEW j, Received(p, j) PROVE Received(p, j)'
      <3>1. Among(delivered, p) \/ InQueue(list, <<j, p>>)
        BY <1>3, <2>1 DEF Received, Among, InQueue
      <3>. QED
        BY <1>6, <1>20, <3>1
    <2>. QED
      BY <2>1 DEF KeepsReceived
  <1>22. DeliversOn
    BY <1>14, <1>15, <1>16 DEF DeliversOn
  <1>. QED
    BY <1>6, <1>18, <1>20, <1>21, <1>22

(* enet_protocol_handle_send_reliable and _send_fragment.                              *)
LEMMA HandleReliableKeeps ==
    ASSUME IInv, NEW c, HandleReliable(c), Fresh'
    PROVE  IInv' /\ DeliversOn
  <1>1. /\ PacketsInv /\ SenderInv /\ WireInv /\ NothingAcknowledgedIsLost /\ LastSent \in Nat
    BY DEF IInv, SenderInv
  <1>2. PICK m \in Nat : ReceiverInv(m)
    BY DEF IInv
  <1>3. UNCHANGED sender /\ c.reliable /\ Send(c) \in wire /\ Answer(c)
    BY DEF HandleReliable
  <1>4. Legit(c) /\ Absolute(c) <= LastSent /\ LastSent - Absolute(c) <= Lifetime
    BY <1>1, <1>3 DEF WireInv, OnWire, Send, Fresh
  <1>5. PICK p : p = c.packet
    OBVIOUS
  <1>6. /\ p \in DOMAIN packets /\ packets[p].reliable /\ packets[p].after \in Nat
    BY <1>1, <1>3, <1>4, <1>5, CommandIs, PacketIs
  <1>7. incomingReliableSequenceNumber = m % Numbers
    BY <1>2 DEF ReceiverInv
  <1>8. ASSUME UNCHANGED receiver PROVE ReceiverInv(m)' /\ KeepsReceived /\ DeliversOn
    <2>1. UNCHANGED <<plan, packets, outgoingReliableSequenceNumber, outgoingUnreliableSequenceNumber>>
      BY <1>3 DEF sender
    <2>2. LastSent' = LastSent /\ outgoing \in Seq(Command)
      <3>1. UNCHANGED <<packets, outgoingReliableSequenceNumber, outgoing>>
        BY <1>3 DEF sender
      <3>. QED
        BY <1>1, <3>1, SameSent DEF SenderInv
    <2>3. Grows
      BY <1>1, <2>1, <2>2, SamePackets
    <2>4. DeliversOn
      BY <1>8 DEF receiver, DeliversOn
    <2>. QED
      BY <1>1, <1>2, <1>8, <2>3, <2>4, ReceiverStays
  <1>9. /\ \E n \in Nat : ReceiverInv(n)'
        /\ KeepsReceived /\ DeliversOn
        /\ Acknowledged(c.seq, incomingReliableSequenceNumber') => Received(c.packet, c.part)'
    <2>1. CASE packets[p].after < m
      <3>1. UNCHANGED receiver
        <4>1. Number(c) = m % Numbers \/ ~ InWindow(Number(c), m % Numbers)
          BY <1>1, <1>2, <1>3, <1>4, <1>5, <2>1, OldCommand
        <4>. QED
          BY <1>7, <4>1 DEF HandleReliable
      <3>2. IsDelivered(p) /\ delivered' = delivered
        BY <1>2, <1>6, <2>1, <3>1 DEF ReceiverInv, receiver
      <3>3. Received(c.packet, c.part)'
        BY <1>5, <3>2 DEF Received, IsDelivered
      <3>. QED
        BY <1>2, <1>8, <3>1, <3>3
    <2>2. CASE m <= packets[p].after /\ InWindow(Number(c), m % Numbers)
      <3>1. /\ Number(c) # m % Numbers
            /\ Turn(packets[c.packet].after + 1) <= Turn(m) + (FreeWindows - 2)
        BY <1>1, <1>2, <1>3, <1>4, <1>5, <2>2, NewCommand
      <3>2. DispatchReliable(WithPart(incomingReliableCommands, c))
        BY <1>7, <2>2, <3>1 DEF HandleReliable
      <3>. QED
        BY <1>2, <1>3, <1>4, <1>5, <2>2, <3>1, <3>2, ReceivedInRow
    <2>3. CASE m <= packets[p].after /\ ~ InWindow(Number(c), m % Numbers)
      <3>1. UNCHANGED receiver
        BY <1>7, <2>3 DEF HandleReliable
      <3>2. ~ Acknowledged(c.seq, m % Numbers)
        BY <1>1, <1>2, <1>3, <1>4, <1>5, <2>3, NewCommand
      <3>3. incomingReliableSequenceNumber' = m % Numbers
        BY <1>7, <3>1 DEF receiver
      <3>. QED
        BY <1>2, <1>8, <3>1, <3>2, <3>3
    <2>. QED
      BY <1>2, <1>6, <2>1, <2>2, <2>3
  <1>10. \A d \in wire' : d \in wire \/ OnWire(d)'
    BY <1>1, <1>3, <1>9, AnswerIsRight
  <1>. QED
    BY <1>3, <1>9, <1>10, ReceiveKeeps

(* A part that waits with the others overtakes nothing.                                *)
LEMMA NothingOvertakes ==
    ASSUME NEW m, NEW list, NEW u \in 0..LastUnreliable, Hints(list, m, u),
           incomingUnreliableCommands' = list, incomingUnreliableSequenceNumber' = u,
           delivered \in Seq(Nat), delivered' = delivered
    PROVE  Overtakes(m, u, <<>>)
  <1>1. u <= u
    BY Sizes
  <1>2. delivered' = delivered \o <<>> \o <<>>
    OBVIOUS
  <1>3. GivenInOrder(<<>>, m, u)
    BY DEF GivenInOrder
  <1>. QED
    BY <1>1, <1>2, <1>3 DEF Overtakes

(* enet_protocol_handle_send_unreliable and _send_unreliable_fragment.                   *)
LEMMA HandleUnreliableKeeps ==
    ASSUME IInv, NEW c, HandleUnreliable(c), Fresh'
    PROVE  IInv' /\ DeliversOn
  <1>1. /\ PacketsInv /\ SenderInv /\ WireInv /\ NothingAcknowledgedIsLost /\ LastSent \in Nat
    BY DEF IInv, SenderInv
  <1>2. PICK m \in Nat : ReceiverInv(m)
    BY DEF IInv
  <1>3. /\ UNCHANGED sender /\ ~ c.reliable /\ Send(c) \in wire /\ wire' \subseteq wire
    BY DEF HandleUnreliable, Arrives
  <1>4. Legit(c) /\ LastSent - Absolute(c) <= Lifetime /\ Len(outgoing) <= MaxQueued
    BY <1>1, <1>3 DEF WireInv, OnWire, Send, Fresh
  <1>0. PICK u \in 0..LastUnreliable : u = incomingUnreliableSequenceNumber
    BY <1>2 DEF ReceiverInv
  <1>5. /\ m <= LastSent /\ Boundary(m) /\ incomingReliableSequenceNumber = m % Numbers
        /\ delivered \in Seq(Nat) /\ GivenInOrder(delivered, m, u)
        /\ \A p \in DOMAIN packets : packets[p].reliable => (Among(delivered, p) <=> packets[p].after < m)
        /\ Hints(incomingUnreliableCommands, m, u)
        /\ InRow(incomingReliableCommands, m) /\ FirstWaits(incomingReliableCommands, m)
    BY <1>0, <1>2 DEF ReceiverInv, IsDelivered, Among, GivenInOrder
  <1>6. ReceiverInv(m)' /\ KeepsReceived /\ DeliversOn
    <2>1. CASE UNCHANGED receiver
      <3>1. UNCHANGED <<plan, packets, outgoingReliableSequenceNumber, outgoingUnreliableSequenceNumber>>
        BY <1>3 DEF sender
      <3>2. LastSent' = LastSent /\ outgoing \in Seq(Command)
        <4>1. UNCHANGED <<packets, outgoingReliableSequenceNumber, outgoing>>
          BY <1>3 DEF sender
        <4>. QED
          BY <1>1, <4>1, SameSent DEF SenderInv
      <3>3. Grows
        BY <1>1, <3>1, <3>2, SamePackets
      <3>4. DeliversOn
        BY <2>1 DEF receiver, DeliversOn
      <3>. QED
        BY <1>1, <1>2, <2>1, <3>3, <3>4, ReceiverStays
    <2>2. ASSUME InWindow(c.seq, incomingReliableSequenceNumber),
                 \/ c.seq # incomingReliableSequenceNumber
                 \/ c.unreliable > incomingUnreliableSequenceNumber,
                 QueueUnreliable(WithPart(incomingUnreliableCommands, c), c),
                 UNCHANGED <<incomingReliableSequenceNumber, incomingReliableCommands>>
          PROVE  ReceiverInv(m)' /\ KeepsReceived /\ DeliversOn
      <3>1. PICK old : old = incomingUnreliableCommands
        OBVIOUS
      <3>2. PICK list : list = WithPart(old, c)
        OBVIOUS
      <3>3. PICK current : current = incomingReliableSequenceNumber
        OBVIOUS
      <3>5. current = m % Numbers /\ Hints(old, m, u)
        BY <1>5, <3>1, <3>3
      <3>6. Hints(list, m, u)
        <4>1. InWindow(c.seq, m % Numbers)
          BY <1>5, <2>2
        <4>2. /\ m <= packets[c.packet].after
              /\ Turn(packets[c.packet].after) <= Turn(m) + (FreeWindows - 2)
          BY <1>1, <1>2, <1>3, <1>4, <4>1, NewHint
        <4>3. packets[c.packet].after = m => u < packets[c.packet].number
          <5>1. c.seq = packets[c.packet].after % Numbers /\ c.unreliable = packets[c.packet].number
            BY <1>1, <1>3, <1>4, CommandIs
          <5>. QED
            BY <1>0, <1>5, <2>2, <5>1
        <4>4. Hints(WithPart(old, c), m, u)
          BY <1>1, <1>3, <1>4, <1>5, <3>5, <4>2, <4>3, WithPartHints
        <4>. QED
          BY <3>2, <4>4
      <3>8. m <= m /\ Turn(m) <= Turn(m) + (FreeWindows - 1) /\ u = IF m = m THEN u ELSE 0
        <4>1. Turn(m) \in Nat /\ FreeWindows \in Nat /\ FreeWindows >= 3
          BY TurnIs, ChannelAssumption
        <4>. QED
          BY <4>1
      <3>9. Overtakes(m, u, <<>>)
        <4>1. CASE \E queued : DispatchUnreliable(list, current, u, <<>>, queued)
          BY <1>1, <3>5, <3>6, <3>8, <4>1, HintsDispatched
        <4>2. CASE /\ incomingUnreliableCommands' = list
                   /\ UNCHANGED <<incomingUnreliableSequenceNumber, delivered>>
          BY <1>0, <1>5, <3>6, <4>2, NothingOvertakes
        <4>. QED
          BY <1>0, <2>2, <3>1, <3>2, <3>3, <4>1, <4>2 DEF QueueUnreliable
      <3>10. PICK hints, added, v :
               /\ v \in 0..LastUnreliable /\ u <= v
               /\ incomingUnreliableCommands' = hints /\ Hints(hints, m, v)
               /\ incomingUnreliableSequenceNumber' = v
               /\ delivered' = delivered \o <<>> \o added
               /\ GivenInOrder(added, m, v)
               /\ \A i \in DOMAIN added : /\ ~ packets[added[i]].reliable
                                          /\ Ending(added[i]) = m /\ u < packets[added[i]].number
        BY <3>9 DEF Overtakes
      <3>11. PICK all : all = delivered \o added
        OBVIOUS
      <3>12. delivered' = all
        <4>1. delivered \o <<>> = delivered
          BY <1>5
        <4>. QED
          BY <3>10, <3>11, <4>1
      <3>13. /\ \A p : Among(all, p) <=> Among(delivered, p) \/ Among(added, p)
             /\ \A i \in DOMAIN delivered : i \in DOMAIN all /\ all[i] = delivered[i]
        <4>1. added \in Seq(Nat)
          BY <3>10 DEF GivenInOrder
        <4>. QED
          BY <1>5, <3>11, <4>1, AmongBoth
      <3>19. GivenInOrder(all, m, v)
        <4>1. u \in Nat /\ v \in Nat
          BY <3>10, Sizes
        <4>. QED
          BY <1>1, <1>5, <3>10, <3>11, <4>1, GivenTogether
      <3>14. ASSUME NEW p \in DOMAIN packets, packets[p].reliable
             PROVE  Among(all, p) <=> packets[p].after < m
        <4>1. ~ Among(added, p)
          BY <3>10, <3>14 DEF Among
        <4>. QED
          BY <1>5, <3>13, <3>14, <4>1
      <3>15. PICK row : row = incomingReliableCommands
        OBVIOUS
      <3>16. /\ incomingReliableCommands' = row /\ InRow(row, m) /\ FirstWaits(row, m)
             /\ incomingReliableSequenceNumber' = m % Numbers
        BY <1>5, <2>2, <3>15
      <3>17. ReceiverInv(m)'
        BY <1>3, <1>5, <3>10, <3>12, <3>14, <3>16, <3>19, ReceiverMoves
      <3>18. KeepsReceived
        <4>1. ASSUME NEW p, NEW j, Received(p, j) PROVE Received(p, j)'
          <5>1. Among(delivered, p) \/ InQueue(row, <<j, p>>)
            BY <3>15, <4>1 DEF Received, Among, InQueue
          <5>2. Among(all, p) \/ InQueue(row, <<j, p>>)
            BY <3>13, <5>1
          <5>. QED
            BY <3>12, <3>16, <5>2 DEF Received, Among, InQueue
        <4>. QED
          BY <4>1 DEF KeepsReceived
      <3>20. DeliversOn
        BY <3>12, <3>13 DEF DeliversOn
      <3>. QED
        BY <3>17, <3>18, <3>20
    <2>. QED
      BY <2>1, <2>2 DEF HandleUnreliable
  <1>. QED
    BY <1>3, <1>6, ReceiveKeeps

--------------------------------------------------------------------------------
(* The theorems.                                                                *)

(* Every step keeps the invariant.                                            *)
LEMMA StepKeeps ==
    ASSUME IInv, [ChannelNext]_channelVars
    PROVE  IInv'
  <1>1. CASE ChannelNext
    <2>1. Fresh'
      BY <1>1 DEF ChannelNext
    <2>2. CASE enet_peer_send
      BY <2>1, <2>2, SendKeeps
    <2>3. CASE SendAgain
      BY <2>1, <2>3, SendAgainKeeps
    <2>4. CASE SendFirst
      BY <2>1, <2>4, SendFirstKeeps
    <2>5. ASSUME NEW I \in SUBSET DOMAIN sentReliableCommands, TimeOutCommands(I) PROVE IInv'
      BY <2>1, <2>5, TimeOutKeeps
    <2>6. ASSUME NEW d \in wire, Lose(d) PROVE IInv'
      BY <2>1, <2>6, LoseKeeps
    <2>7. ASSUME NEW d \in wire, HandleAcknowledge(d.command) PROVE IInv'
      BY <2>1, <2>7, HandleAcknowledgeKeeps
    <2>8. ASSUME NEW d \in wire, HandleReliable(d.command) PROVE IInv'
      BY <2>1, <2>8, HandleReliableKeeps
    <2>9. ASSUME NEW d \in wire, HandleUnreliable(d.command) PROVE IInv'
      BY <2>1, <2>9, HandleUnreliableKeeps
    <2>. QED
      BY <1>1, <2>2, <2>3, <2>4, <2>5, <2>6, <2>7, <2>8, <2>9 DEF ChannelNext, CheckOutgoing
  <1>2. CASE UNCHANGED channelVars
    <2>1. UNCHANGED sender /\ UNCHANGED receiver /\ wire' = wire
      BY <1>2 DEF channelVars
    <2>2. Lose(CHOOSE d : d \notin wire)
      <3>1. (CHOOSE d : d \notin wire) \notin wire
        <4>1. \E d : d \notin wire
          <5>1. {d \in wire : d \notin d} \notin wire
            OBVIOUS
          <5>. QED
            BY <5>1
        <4>. QED
          BY <4>1
      <3>. QED
        BY <2>1, <3>1 DEF Lose
    <2>3. Fresh'
      <3>1. UNCHANGED <<packets, outgoingReliableSequenceNumber, outgoing>>
        BY <2>1 DEF sender
      <3>2. LastSent' = LastSent /\ \A x : Absolute(x)' = Absolute(x)
        BY <3>1, SameSent
      <3>3. Fresh
        BY DEF IInv, WireInv
      <3>. QED
        BY <2>1, <3>1, <3>2, <3>3 DEF Fresh
    <2>. QED
      BY <2>2, <2>3, LoseKeeps
  <1>. QED
    BY <1>1, <1>2

(* Of every channel whose network keeps no datagram too long, and whatever it sends, the       *)
(* numbers of the sender's queues, of the network and of the receiver's queues stay those     *)
(* of the packets the program sent, and the receiver is never so far behind the sender that  *)
(* one number could stand for two packets.                                         *)
THEOREM Invariance == ChannelSpec => []IInv
  <1>1. ChannelInit => IInv
    BY InitHolds
  <1>2. IInv /\ [ChannelNext]_channelVars => IInv'
    BY StepKeeps
  <1>. QED
    BY <1>1, <1>2, PTL DEF ChannelSpec

(* What the sender forgets when it handles an acknowledgement, the receiver has.               *)
THEOREM NothingIsLost == ChannelSpec => []NothingAcknowledgedIsLost
  <1>1. IInv => NothingAcknowledgedIsLost
    BY DEF IInv
  <1>. QED
    BY <1>1, Invariance, PTL

(* An unanswered command is less than a turn of the numbers behind.           *)
LEMMA ReachOfUnanswered ==
    ASSUME PacketsInv, SenderInv, NEW c, InReach(c)
    PROVE  /\ Absolute(c) \in Nat /\ Absolute(c) <= LastSent
           /\ LastSent < Absolute(c) + Numbers
  <1>1. PICK a \in Nat : a = Absolute(c)
    BY CommandIs DEF InReach
  <1>2. PICK L \in Nat : L = LastSent
    BY DEF SenderInv
  <1>3. PICK k \in Nat : k = Windows - FreeWindows - 2
    BY Sizes, ChannelAssumption
  <1>4. a <= L /\ Turn(L) <= Turn(a) + k
    BY <1>1, <1>2, <1>3 DEF InReach
  <1>5. L < a + k * WindowSize + WindowSize
    BY <1>4, TurnsApart
  <1>6. k * WindowSize + WindowSize <= Numbers
    <2>1. /\ Numbers = WindowSize * Windows /\ WindowSize \in Nat \ {0} /\ Windows \in Nat
          /\ k + 1 <= Windows
      BY <1>3, Sizes, ChannelAssumption
    <2>2. WindowSize * (Windows - (k + 1)) >= 0
      BY <2>1
    <2>3. WindowSize * (Windows - (k + 1)) = Numbers - (k * WindowSize + WindowSize)
      BY <2>1
    <2>4. k * WindowSize \in Nat /\ Numbers \in Nat
      BY <2>1, Sizes
    <2>. QED
      BY <2>1, <2>2, <2>3, <2>4
  <1>7. k * WindowSize \in Nat /\ WindowSize \in Nat /\ Numbers \in Nat
    BY <1>3, Sizes
  <1>8. L < a + Numbers
    BY <1>5, <1>6, <1>7
  <1>. QED
    BY <1>1, <1>2, <1>4, <1>8

(* No window is counted above its size.                                              *)
LEMMA WindowsFit ==
    ASSUME PacketsInv, SenderInv, CountersInv
    PROVE  reliableWindows \in [0..(Windows - 1) -> 0..WindowSize]
  <1>. SUFFICES ASSUME NEW w \in 0..(Windows - 1) PROVE reliableWindows[w] \in 0..WindowSize
    BY DEF CountersInv
  <1>1. PICK s : s = Unacknowledged
    OBVIOUS
  <1>2. Unanswered(s)
    BY <1>1 DEF SenderInv
  <1>3. PICK S : S = {i \in DOMAIN s : Window(s[i].seq) = w}
    OBVIOUS
  <1>4. reliableWindows[w] = Cardinality(S) /\ reliableWindows[w] \in Nat
    BY <1>1, <1>3 DEF CountersInv, CountersMatch
  <1>5. PICK T : T = (WindowSize * w)..(WindowSize * w + WindowSize - 1)
    OBVIOUS
  <1>6. IsFiniteSet(T) /\ Cardinality(T) = WindowSize
    <2>1. PICK f : f = WindowSize * w
      OBVIOUS
    <2>2. f \in Int /\ WindowSize \in Nat \ {0} /\ f + WindowSize - 1 \in Int
      BY <2>1, Sizes
    <2>3. T = f..(f + WindowSize - 1)
      BY <1>5, <2>1
    <2>4. IsFiniteSet(T) /\ Cardinality(T) = IF f > f + WindowSize - 1 THEN 0
                                             ELSE (f + WindowSize - 1) - f + 1
      BY <2>2, <2>3, FS_Interval
    <2>. QED
      BY <2>2, <2>4
  <1>7. PICK g : g = [i \in S |-> s[i].seq]
    OBVIOUS
  <1>8. \A i \in S : s[i].seq \in T
    <2>. TAKE i \in S
    <2>1. PICK q : q = s[i].seq
      OBVIOUS
    <2>2. q \in Nat
      <3>1. InReach(s[i])
        BY <1>2, <1>3 DEF Unanswered
      <3>2. s[i] \in Command
        BY <3>1 DEF InReach, Legit
      <3>. QED
        BY <2>1, <3>2, Sizes DEF Command
    <2>3. Turn(q) = w
      BY <1>3, <2>1 DEF Turn, Window
    <2>4. WindowSize * w <= q /\ q < WindowSize * w + WindowSize
      BY <2>2, <2>3, TurnIs
    <2>5. PICK f : f = WindowSize * w
      OBVIOUS
    <2>6. f \in Int /\ WindowSize \in Nat
      BY <2>5, Sizes
    <2>7. q \in f..(f + WindowSize - 1)
      BY <2>2, <2>4, <2>5, <2>6
    <2>. QED
      BY <1>5, <2>1, <2>5, <2>7
  <1>9. \A i, j \in S : s[i].seq = s[j].seq => i = j
    <2>. SUFFICES ASSUME NEW i \in S, NEW j \in S, s[i].seq = s[j].seq PROVE i = j
      OBVIOUS
    <2>1. PICK c : c = s[i]
      OBVIOUS
    <2>2. PICK d : d = s[j]
      OBVIOUS
    <2>3. InReach(c) /\ InReach(d) /\ c.seq = d.seq
      BY <1>2, <1>3, <2>1, <2>2 DEF Unanswered
    <2>4. PICK a \in Nat : a = Absolute(c) /\ a <= LastSent /\ LastSent < a + Numbers
      BY <2>3, ReachOfUnanswered
    <2>5. PICK b \in Nat : b = Absolute(d) /\ b <= LastSent /\ LastSent < b + Numbers
      BY <2>3, ReachOfUnanswered
    <2>6. LastSent \in Nat /\ Numbers \in Nat
      BY Sizes DEF SenderInv
    <2>7. a % Numbers = b % Numbers
      BY <2>3, <2>4, <2>5, CommandIs DEF InReach
    <2>8. a = b
      <3>1. a < b + Numbers /\ b < a + Numbers
        BY <2>4, <2>5, <2>6
      <3>. QED
        BY <2>7, <3>1, SameNumber
    <2>. QED
      BY <1>2, <1>3, <2>1, <2>2, <2>4, <2>5, <2>8 DEF Unanswered
  <1>10. g \in Injection(S, T)
    BY <1>7, <1>8, <1>9 DEF Injection, IsInjective
  <1>11. Cardinality(S) <= Cardinality(T)
    BY <1>6, <1>10, FS_Injection
  <1>. QED
    BY <1>4, <1>6, <1>11, Sizes

(* The receiver's queues are in the order its searches rely on.               *)
LEMMA QueuesInOrder ==
    ASSUME PacketsInv, NEW m \in Nat, ReceiverInv(m)
    PROVE  /\ InOrder(incomingReliableCommands) /\ InOrder(incomingUnreliableCommands)
           /\ \A i \in DOMAIN incomingReliableCommands :
                 InWindow(incomingReliableCommands[i].seq, incomingReliableSequenceNumber)
  <1>1. PICK list : list = incomingReliableCommands
    OBVIOUS
  <1>2. PICK hints : hints = incomingUnreliableCommands
    OBVIOUS
  <1>3. /\ incomingReliableSequenceNumber = m % Numbers
        /\ list \in Seq(Queued) /\ Len(list) \in Nat /\ DOMAIN list = 1..Len(list)
        /\ \A i \in DOMAIN list : Assembles(list[i], Of(list[i]), m)
        /\ \A i, j \in DOMAIN list : i < j => Of(list[i]) < Of(list[j])
        /\ hints \in Seq(Queued) /\ Len(hints) \in Nat /\ DOMAIN hints = 1..Len(hints)
        /\ \A i, j \in DOMAIN hints : i < j => Precedes(hints[i], hints[j], m % Numbers)
    BY <1>1, <1>2 DEF ReceiverInv, InRow, Hints
  <1>4. InOrder(list)
    <2>. SUFFICES ASSUME NEW i \in 1..(Len(list) - 1)
                  PROVE  Before(list[i], list[i + 1])
      BY DEF InOrder, Before
    <2>1. i \in DOMAIN list /\ i + 1 \in DOMAIN list /\ i < i + 1
      BY <1>3
    <2>2. PICK x : x = list[i]
      OBVIOUS
    <2>3. PICK y : y = list[i + 1]
      OBVIOUS
    <2>4. PICK o : o = Of(x)
      OBVIOUS
    <2>5. PICK p : p = Of(y)
      OBVIOUS
    <2>6. Assembles(x, o, m) /\ Assembles(y, p, m) /\ o < p
      BY <1>3, <2>1, <2>2, <2>3, <2>4, <2>5
    <2>7. /\ p \in DOMAIN packets /\ packets[p].reliable /\ m <= packets[p].after
          /\ Turn(packets[p].after + 1) <= Turn(m) + (FreeWindows - 2)
          /\ y.seq = (packets[p].after + 1) % Numbers /\ y.unreliable = 0
      BY <2>6 DEF Assembles
    <2>8. \A e : e.seq = (packets[p].after + 1) % Numbers /\ e.unreliable = 0 => (Before(x, e) <=> o < p)
      BY <1>3, <2>6, <2>7, RowCompares
    <2>. QED
      BY <2>2, <2>3, <2>6, <2>7, <2>8
  <1>5. InOrder(hints)
    <2>. SUFFICES ASSUME NEW i \in 1..(Len(hints) - 1)
                  PROVE  Precedes(hints[i], hints[i + 1], m % Numbers)
      BY <1>3 DEF InOrder, Precedes, Distance, Away
    <2>1. i \in DOMAIN hints /\ i + 1 \in DOMAIN hints /\ i < i + 1
      BY <1>3
    <2>. QED
      BY <1>3, <2>1
  <1>6. ASSUME NEW i \in DOMAIN list PROVE InWindow(list[i].seq, m % Numbers)
    <2>1. PICK o : o = Of(list[i])
      OBVIOUS
    <2>2. Assembles(list[i], o, m)
      BY <1>3, <2>1
    <2>3. /\ o \in DOMAIN packets /\ m <= packets[o].after
          /\ Turn(packets[o].after + 1) <= Turn(m) + (FreeWindows - 2)
          /\ list[i].seq = (packets[o].after + 1) % Numbers
      BY <2>2 DEF Assembles
    <2>4. PICK a \in Nat : a = packets[o].after + 1
      BY <2>3, PacketIs
    <2>5. m <= a /\ a < m + Numbers
      BY <2>3, <2>4, RowRange
    <2>6. Ahead(a % Numbers, m % Numbers) = Turn(a) - Turn(m)
      BY <2>5, AheadIs
    <2>7. Turn(m) <= Turn(a) /\ Turn(m) \in Nat /\ Turn(a) \in Nat
      BY <2>5, TurnGrows, TurnIs
    <2>. QED
      BY <2>3, <2>4, <2>6, <2>7, ChannelAssumption DEF InWindow
  <1>. QED
    BY <1>1, <1>2, <1>3, <1>4, <1>5, <1>6

(* What the runs check follows from the invariant.                            *)
LEMMA ChannelHolds ==
    ASSUME IInv
    PROVE  ChannelInv
  <1>1. PacketsInv /\ SenderInv /\ CountersInv
    BY DEF IInv
  <1>2. PICK m \in Nat : ReceiverInv(m)
    BY DEF IInv
  <1>3. plan \in Seq(Kind) /\ packets \in Seq(Kept)
    BY <1>1 DEF PacketsInv
  <1>4. {outgoingReliableSequenceNumber, incomingReliableSequenceNumber} \subseteq Sequence
    <2>1. Numbered \in Nat /\ outgoingReliableSequenceNumber = Numbered % Numbers
      BY <1>1 DEF PacketsInv
    <2>2. incomingReliableSequenceNumber = m % Numbers
      BY <1>2 DEF ReceiverInv
    <2>. QED
      BY <2>1, <2>2, Wraps
  <1>5. {outgoingUnreliableSequenceNumber, incomingUnreliableSequenceNumber} \subseteq 0..LastUnreliable
    BY <1>1, <1>2 DEF PacketsInv, ReceiverInv
  <1>6. reliableDataInTransit \in 0..MaxInTransit
    <2>1. sentReliableCommands \in Seq(Command)
      BY <1>1 DEF SenderInv
    <2>2. Len(sentReliableCommands) \in Nat
      BY <2>1
    <2>. QED
      BY <1>1, <2>2, ChannelAssumption DEF CountersInv, CountersMatch
  <1>7. reliableWindows \in [0..(Windows - 1) -> 0..WindowSize]
    BY <1>1, WindowsFit
  <1>8. /\ InOrder(incomingReliableCommands) /\ InOrder(incomingUnreliableCommands)
        /\ \A i \in DOMAIN incomingReliableCommands :
              InWindow(incomingReliableCommands[i].seq, incomingReliableSequenceNumber)
    BY <1>1, <1>2, QueuesInOrder
  <1>9. ChannelTypeOK
    BY <1>3, <1>4, <1>5, <1>6, <1>7, <1>8 DEF ChannelTypeOK, Kind, Kept
  <1>. QED
    BY <1>1, <1>9 DEF ChannelInv, CountersInv

(* A packet that was delivered ended before the receiver's number.                      *)
LEMMA DeliveredEnds ==
    ASSUME PacketsInv, NEW m \in Nat, Boundary(m),
           NEW p \in DOMAIN packets, packets[p].reliable, packets[p].after < m
    PROVE  Ending(p) <= m
  <1>1. Ending(p) <= Numbered /\ packets[p].after \in Nat /\ p \in Nat
    BY PacketIs
  <1>2. CASE m = Numbered
    BY <1>1, <1>2
  <1>3. ASSUME NEW q \in DOMAIN packets, packets[q].reliable, packets[q].after = m
        PROVE  Ending(p) <= m
    <2>1. q \in Nat /\ packets[q].after <= Ending(q) /\ Ending(q) \in Nat
      BY PacketIs
    <2>2. q < p => Ending(q) <= packets[p].after
      BY DEF PacketsInv
    <2>3. ~(q < p) /\ p # q
      BY <1>1, <1>3, <2>1, <2>2
    <2>4. p < q
      BY <1>1, <2>1, <2>3
    <2>. QED
      BY <1>3, <2>4 DEF PacketsInv
  <1>. QED
    BY <1>2, <1>3 DEF Boundary

(* The oldest command is part of the packet that the receiver waits for, or near it.      *)
LEMMA OldestIsNear ==
    ASSUME PacketsInv, SenderInv, NothingAcknowledgedIsLost, NEW m \in Nat, ReceiverInv(m),
           NEW c, InReach(c), IsOldest(c), m <= packets[c.packet].after
    PROVE  /\ m < Absolute(c) /\ Absolute(c) < m + Numbers
           /\ Turn(Absolute(c)) <= Turn(m) + 1
  <1>1. PICK a \in Nat : a = Absolute(c)
    BY CommandIs DEF InReach
  <1>2. PICK L \in Nat : L = LastSent
    BY DEF SenderInv
  <1>3. PICK p : p = c.packet
    OBVIOUS
  <1>4. /\ p \in DOMAIN packets /\ packets[p].reliable /\ c.part \in Nat
        /\ c.part < packets[p].fragments /\ packets[p].fragments \in Nat
        /\ a = packets[p].after + c.part + 1 /\ packets[p].after \in Nat /\ p \in Nat
        /\ a <= L /\ packets[p].fragments <= WindowSize
    BY <1>1, <1>2, <1>3, CommandIs, PacketIs DEF InReach
  <1>5. m < a /\ a < m + Numbers
    <2>1. L < m + Numbers /\ m <= packets[p].after
      BY <1>2, <1>3, Reach
    <2>. QED
      BY <1>4, <2>1, Sizes
  <1>6. m # Numbered
    <2>1. L <= Numbered /\ Numbered \in Nat
      <3>1. Len(outgoing) \in Nat /\ Numbered \in Nat
        BY DEF SenderInv, PacketsInv
      <3>. QED
        BY <1>2, <3>1 DEF LastSent
    <2>. QED
      BY <1>4, <1>5, <2>1
  <1>7. PICK o \in DOMAIN packets : \E k \in 0..(packets[o].fragments - 1) :
             /\ packets[o].reliable /\ packets[o].after = m
             /\ \E s \in {Unacknowledged, outgoing} : \E i \in DOMAIN s :
                   s[i].packet = o /\ s[i].part = k
    BY <1>6, MissingPart
  <1>8. PICK k \in 0..(packets[o].fragments - 1) :
             /\ packets[o].reliable /\ packets[o].after = m
             /\ \E s \in {Unacknowledged, outgoing} : \E i \in DOMAIN s :
                   s[i].packet = o /\ s[i].part = k
    BY <1>7
  <1>9. /\ k \in Nat /\ k + 1 <= WindowSize /\ o \in Nat /\ WindowSize \in Nat
        /\ Ending(o) = m + packets[o].fragments /\ packets[o].fragments \in Nat \ {0}
    <2>1. /\ packets[o].fragments \in Nat \ {0} /\ packets[o].fragments <= WindowSize
          /\ o \in Nat /\ Ending(o) = m + packets[o].fragments
      BY <1>8, PacketIs
    <2>2. k \in Nat /\ k + 1 <= packets[o].fragments
      BY <2>1
    <2>. QED
      BY <2>1, <2>2, Sizes
  <1>10. a <= m + WindowSize
    <2>1. ASSUME NEW i \in DOMAIN Unacknowledged, Unacknowledged[i].packet = o, Unacknowledged[i].part = k
          PROVE  a <= m + WindowSize
      <3>1. p < o \/ (p = o /\ c.part <= k)
        BY <1>3, <2>1 DEF IsOldest
      <3>2. ~(p < o)
        <4>1. p < o => Ending(p) <= packets[o].after
          BY <1>4 DEF PacketsInv
        <4>2. Ending(p) = packets[p].after + packets[p].fragments /\ packets[p].fragments \in Nat \ {0}
          BY <1>4, PacketIs
        <4>. QED
          BY <1>3, <1>4, <1>8, <4>1, <4>2
      <3>3. a = m + c.part + 1 /\ c.part <= k
        BY <1>4, <1>8, <3>1, <3>2
      <3>. QED
        BY <1>4, <1>9, <3>3
    <2>2. ASSUME NEW i \in DOMAIN outgoing, outgoing[i].packet = o, outgoing[i].part = k
          PROVE  a <= m + WindowSize
      <3>1. PICK d : d = outgoing[i]
        OBVIOUS
      <3>2. Legit(d) /\ d.reliable /\ Absolute(d) = L + i
        BY <1>2, <3>1 DEF SenderInv, Waiting
      <3>3. Absolute(d) = m + k + 1
        BY <1>8, <2>2, <3>1, <3>2, CommandIs
      <3>4. i \in Nat \ {0}
        BY DEF SenderInv
      <3>. QED
        BY <1>4, <1>9, <3>2, <3>3, <3>4
    <2>. QED
      BY <1>8, <2>1, <2>2
  <1>11. Turn(a) <= Turn(m) + 1
    <2>1. a <= m + 1 * WindowSize
      BY <1>9, <1>10
    <2>. QED
      BY <2>1, TurnsApart
  <1>. QED
    BY <1>1, <1>5, <1>11

(* The oldest command is taken, or acknowledged again.                        *)
LEMMA OldestHolds ==
    ASSUME IInv
    PROVE  OldestIsAnswered
  <1>1. PacketsInv /\ SenderInv /\ NothingAcknowledgedIsLost
    BY DEF IInv
  <1>2. PICK m \in Nat : ReceiverInv(m)
    BY DEF IInv
  <1>3. PICK s : s = Unacknowledged
    OBVIOUS
  <1>4. SUFFICES ASSUME NEW i \in DOMAIN s, IsOldest(s[i])
                 PROVE  IF Received(s[i].packet, s[i].part)
                        THEN Acknowledged(s[i].seq, incomingReliableSequenceNumber)
                        ELSE IsNew(s[i])
    BY <1>3 DEF OldestIsAnswered
  <1>5. PICK c : c = s[i]
    OBVIOUS
  <1>6. InReach(c) /\ IsOldest(c)
    BY <1>1, <1>3, <1>4, <1>5 DEF SenderInv, Unanswered
  <1>7. PICK p : p = c.packet
    OBVIOUS
  <1>8. PICK a \in Nat : a = Absolute(c)
    BY <1>1, <1>6, CommandIs DEF InReach
  <1>9. PICK L \in Nat : L = LastSent
    BY <1>1 DEF SenderInv
  <1>10. /\ Legit(c) /\ c.reliable /\ p \in DOMAIN packets /\ packets[p].reliable /\ c.part \in Nat
         /\ c.part < packets[p].fragments /\ packets[p].fragments \in Nat
         /\ a = packets[p].after + c.part + 1 /\ packets[p].after \in Nat
         /\ Ending(p) = packets[p].after + packets[p].fragments
         /\ c.seq = a % Numbers /\ a <= L /\ Turn(L) <= Turn(a) + (Windows - FreeWindows - 2)
    BY <1>1, <1>6, <1>7, <1>8, <1>9, CommandIs, PacketIs DEF InReach
  <1>11. /\ incomingReliableSequenceNumber = m % Numbers /\ m <= L /\ Boundary(m)
         /\ IsDelivered(p) <=> packets[p].after < m
    BY <1>2, <1>9, <1>10 DEF ReceiverInv
  <1>12. FreeWindows \in Nat /\ FreeWindows >= 3 /\ Windows \in Nat
    BY ChannelAssumption, Sizes
  <1>13. CASE packets[p].after < m
    <2>1. Ending(p) <= m
      BY <1>1, <1>10, <1>11, <1>13, DeliveredEnds
    <2>2. a <= m
      BY <1>10, <2>1
    <2>3. Received(p, c.part)
      BY <1>11, <1>13 DEF Received, IsDelivered
    <2>4. Turn(m) <= Turn(L) /\ Turn(m) \in Nat /\ Turn(a) \in Nat /\ Turn(L) \in Nat
      BY <1>11, TurnGrows, TurnIs
    <2>5. Ahead(a % Numbers, m % Numbers) \notin {FreeWindows - 1, FreeWindows}
      <3>1. CASE a = m
        <4>1. a < m + Numbers
          BY <3>1, Sizes
        <4>2. Ahead(a % Numbers, m % Numbers) = Turn(a) - Turn(m)
          BY <3>1, <4>1, AheadIs
        <4>. QED
          BY <1>12, <2>4, <3>1, <4>2
      <3>2. CASE a < m
        <4>1. L < a + Numbers
          BY <1>1, <1>6, <1>8, <1>9, ReachOfUnanswered
        <4>2. m < a + Numbers
          BY <1>11, <4>1, Sizes
        <4>3. Ahead(a % Numbers, m % Numbers) = Turn(a) - Turn(m) + Windows
          BY <3>2, <4>2, AheadIs
        <4>. QED
          BY <1>10, <1>12, <2>4, <4>3
      <3>. QED
        BY <2>2, <3>1, <3>2
    <2>. QED
      BY <1>5, <1>7, <1>10, <1>11, <2>3, <2>5 DEF Acknowledged
  <1>14. CASE m <= packets[p].after
    <2>1. m < a /\ a < m + Numbers /\ Turn(a) <= Turn(m) + 1
      BY <1>1, <1>2, <1>6, <1>7, <1>8, <1>14, OldestIsNear
    <2>2. Turn(m) <= Turn(a) /\ Turn(m) \in Nat /\ Turn(a) \in Nat
      BY <2>1, TurnGrows, TurnIs
    <2>3. CASE Received(p, c.part)
      <3>1. Ahead(a % Numbers, m % Numbers) = Turn(a) - Turn(m)
        BY <2>1, AheadIs
      <3>2. Acknowledged(c.seq, incomingReliableSequenceNumber)
        BY <1>10, <1>11, <1>12, <2>1, <2>2, <3>1 DEF Acknowledged
      <3>. QED
        BY <1>5, <1>7, <2>3, <3>2
    <2>4. CASE ~ Received(p, c.part)
      <3>1. PICK b \in Nat : b = packets[p].after
        BY <1>10
      <3>2. Turn(b + 1) <= Turn(m) + (FreeWindows - 2)
        <4>1. b + 1 <= a /\ b + 1 \in Nat
          BY <1>10, <3>1
        <4>2. Turn(b + 1) <= Turn(a) /\ Turn(b + 1) \in Nat
          BY <4>1, TurnGrows, TurnIs
        <4>. QED
          BY <1>12, <2>1, <2>2, <4>2
      <3>3. InWindow(Number(c), m % Numbers) /\ Number(c) # m % Numbers
        BY <1>1, <1>2, <1>7, <1>8, <1>9, <1>10, <1>14, <3>1, <3>2, NewCommand
      <3>4. \A j \in DOMAIN incomingReliableCommands : Part(c) \notin incomingReliableCommands[j].parts
        BY <1>7, <2>4 DEF Received, Part
      <3>5. IsNew(c)
        BY <1>10, <1>11, <3>3, <3>4 DEF IsNew, Same
      <3>. QED
        BY <1>5, <1>7, <2>4, <3>5
    <2>. QED
      BY <2>3, <2>4
  <1>. QED
    BY <1>2, <1>10, <1>13, <1>14

(* Both ends keep their types, the receiver's queues their order, and the counters by which     *)
(* the sender holds itself back count what they stand for, none of them above its limit.      *)
THEOREM CountersAreExact == ChannelSpec => []ChannelInv
  <1>1. IInv => ChannelInv
    BY ChannelHolds
  <1>. QED
    BY <1>1, Invariance, PTL

(* The oldest command that the sender keeps is one the receiver takes, or has and will            *)
(* acknowledge again: neither end waits for ever for what the other will not do.              *)
THEOREM TheOldestGetsAnAnswer == ChannelSpec => []OldestIsAnswered
  <1>1. IInv => OldestIsAnswered
    BY OldestHolds
  <1>. QED
    BY <1>1, Invariance, PTL

--------------------------------------------------------------------------------
(* The channel keeps the order.                                                 *)

(* What OrderedChannel sees of a packet, of those still to come and of those that came out.  *)
ItemOf(p) == [id |-> p, reliable |-> packets[p].reliable]
StillToCome == Numbering(LastDelivered + 1, Len(packets))
CameOut == [i \in DOMAIN delivered |->
              IF delivered[i] \in DOMAIN packets THEN Numbering(delivered[i], delivered[i])[1]
              ELSE [id |-> 0]]

(* What is delivered is in order, and up to the last of it no reliable packet is missing.   *)
View ==
    /\ Len(packets) \in Nat /\ DOMAIN packets = 1..Len(packets)
    /\ delivered \in Seq(Nat)
    /\ LastDelivered \in 0..Len(packets)
    /\ delivered # <<>> => LastDelivered = delivered[Len(delivered)]
    /\ delivered = <<>> => LastDelivered = 0
    /\ \A i \in DOMAIN delivered : delivered[i] \in DOMAIN packets
    /\ \A i, j \in DOMAIN delivered : i < j => delivered[i] < delivered[j]
    /\ \A q \in DOMAIN packets : packets[q].reliable /\ q <= LastDelivered => IsDelivered(q)
    /\ StillToCome = [i \in 1..(Len(packets) - LastDelivered) |-> ItemOf(LastDelivered + i)]
    /\ CameOut = [i \in 1..Len(delivered) |-> ItemOf(delivered[i])]

(* Up to the last packet given out every reliable one is, because the receiver's number has     *)
(* gone past them.                                                             *)
LEMMA ViewHolds == IInv => View
  <1>. SUFFICES ASSUME IInv PROVE View
    OBVIOUS
  <1>1. PacketsInv
    BY DEF IInv
  <1>2. PICK m \in Nat : ReceiverInv(m)
    BY DEF IInv
  <1>3. PICK u \in 0..LastUnreliable : u = incomingUnreliableSequenceNumber
    BY <1>2 DEF ReceiverInv
  <1>4. /\ delivered \in Seq(Nat)
        /\ \A i \in DOMAIN delivered :
              /\ delivered[i] \in DOMAIN packets
              /\ \/ Ending(delivered[i]) < m
                 \/ Ending(delivered[i]) = m /\ packets[delivered[i]].number <= u
        /\ \A i, j \in DOMAIN delivered : i < j => delivered[i] < delivered[j]
    BY <1>2, <1>3 DEF ReceiverInv, GivenInOrder
  <1>5. Len(packets) \in Nat /\ DOMAIN packets = 1..Len(packets)
    BY <1>1 DEF PacketsInv
  <1>6. PICK k \in Nat : k = Len(delivered) /\ DOMAIN delivered = 1..k
    BY <1>4
  <1>7. /\ delivered # <<>> => /\ k \in DOMAIN delivered /\ LastDelivered = delivered[k]
                               /\ LastDelivered \in DOMAIN packets
        /\ delivered = <<>> => LastDelivered = 0
    <2>1. delivered # <<>> => k # 0
      BY <1>4, <1>6
    <2>. QED
      BY <1>4, <1>6, <2>1 DEF LastDelivered
  <1>8. LastDelivered \in 0..Len(packets)
    BY <1>5, <1>7
  <1>9. ASSUME NEW q \in DOMAIN packets, packets[q].reliable, q <= LastDelivered
        PROVE  IsDelivered(q)
    <2>1. PICK p : p = LastDelivered
      OBVIOUS
    <2>2. p \in DOMAIN packets /\ k \in DOMAIN delivered /\ p = delivered[k]
      <3>1. q >= 1 /\ q \in Nat
        BY <1>5
      <3>. QED
        BY <1>7, <1>9, <2>1, <3>1
    <2>3. /\ Ending(p) \in Nat /\ p \in Nat /\ q \in Nat /\ Ending(q) \in Nat
          /\ packets[q].after \in Nat /\ packets[q].fragments \in Nat \ {0}
          /\ Ending(q) = packets[q].after + packets[q].fragments
      BY <1>1, <1>9, <2>2, PacketIs
    <2>4. Ending(p) <= m
      <3>1. Ending(p) < m \/ Ending(p) = m
        BY <1>4, <2>2
      <3>. QED
        BY <2>3, <3>1
    <2>5. Ending(q) <= Ending(p)
      <3>1. CASE q = p
        BY <2>3, <3>1
      <3>2. CASE q < p
        <4>1. Earlier(q, p)
          BY <1>1, <2>2, <3>2, EarlierIs
        <4>. QED
          BY <2>3, <4>1 DEF Earlier
      <3>. QED
        BY <1>9, <2>1, <2>3, <3>1, <3>2
    <2>6. packets[q].after < m
      BY <2>3, <2>4, <2>5
    <2>. QED
      BY <1>2, <1>9, <2>6 DEF ReceiverInv
  <1>10. PICK L \in Nat : L = LastDelivered /\ L <= Len(packets)
    BY <1>5, <1>8
  <1>11. StillToCome = [i \in 1..(Len(packets) - L) |-> ItemOf(L + i)]
    <2>1. Len(packets) - (L + 1) + 1 = Len(packets) - L
      BY <1>5
    <2>2. \A i \in 1..(Len(packets) - L) : (L + 1) + i - 1 = L + i
      BY <1>5
    <2>3. StillToCome = [i \in 1..(Len(packets) - (L + 1) + 1) |->
                           [id |-> (L + 1) + i - 1, reliable |-> packets[(L + 1) + i - 1].reliable]]
      BY <1>10 DEF StillToCome, Numbering
    <2>. QED
      BY <2>1, <2>2, <2>3 DEF ItemOf
  <1>12. CameOut = [i \in 1..k |-> ItemOf(delivered[i])]
    <2>1. ASSUME NEW i \in 1..k
          PROVE  Numbering(delivered[i], delivered[i])[1] = ItemOf(delivered[i])
      <3>1. PICK p \in Nat : p = delivered[i]
        BY <1>4, <1>6
      <3>2. p - p + 1 = 1 /\ p + 1 - 1 = p
        OBVIOUS
      <3>3. Numbering(p, p) = [j \in 1..(p - p + 1) |->
                                 [id |-> p + j - 1, reliable |-> packets[p + j - 1].reliable]]
        BY DEF Numbering
      <3>4. Numbering(p, p)[1] = [id |-> p + 1 - 1, reliable |-> packets[p + 1 - 1].reliable]
        BY <3>2, <3>3
      <3>. QED
        BY <3>1, <3>2, <3>4 DEF ItemOf
    <2>2. \A i \in 1..k : delivered[i] \in DOMAIN packets
      BY <1>4, <1>6
    <2>3. CameOut = [i \in 1..k |->
                       IF delivered[i] \in DOMAIN packets
                       THEN Numbering(delivered[i], delivered[i])[1] ELSE [id |-> 0]]
      BY <1>6 DEF CameOut
    <2>. QED
      BY <2>1, <2>2, <2>3
  <1>. QED
    BY <1>4, <1>5, <1>6, <1>7, <1>8, <1>9, <1>10, <1>11, <1>12 DEF View

(* So it is after every step.                                                   *)
LEMMA ViewHoldsNext == IInv' => View'
  BY ViewHolds, PTL

(* Where a packet that was just given out lay among those still to come.                     *)
LEMMA DeliversPlaces ==
    ASSUME View, View', packets' = packets, DeliversOn
    PROVE  [Ordered!Next]_<<StillToCome, CameOut>>
  <1>1. PICK P \in Nat : P = Len(packets) /\ DOMAIN packets = 1..P
    BY DEF View
  <1>2. PICK d : d = delivered
    OBVIOUS
  <1>3. PICK e : e = delivered'
    OBVIOUS
  <1>4. PICK L \in 0..P : L = LastDelivered
    BY <1>1 DEF View
  <1>5. PICK M \in 0..P : M = LastDelivered'
    BY <1>1 DEF View
  <1>6. \A p : ItemOf(p)' = ItemOf(p)
    BY DEF ItemOf
  <1>7. /\ d \in Seq(Nat) /\ \A i \in DOMAIN d : d[i] \in 1..P
        /\ d # <<>> => L = d[Len(d)]
        /\ d = <<>> => L = 0
        /\ \A i, j \in DOMAIN d : i < j => d[i] < d[j]
        /\ StillToCome = [i \in 1..(P - L) |-> ItemOf(L + i)]
        /\ CameOut = [i \in 1..Len(d) |-> ItemOf(d[i])]
    BY <1>1, <1>2, <1>4 DEF View
  <1>8. /\ e \in Seq(Nat) /\ \A i \in DOMAIN e : e[i] \in 1..P
        /\ e # <<>> => M = e[Len(e)]
        /\ e = <<>> => M = 0
        /\ \A i, j \in DOMAIN e : i < j => e[i] < e[j]
        /\ \A q \in 1..P : packets[q].reliable /\ q <= M => \E i \in DOMAIN e : e[i] = q
        /\ StillToCome' = [i \in 1..(P - M) |-> ItemOf(M + i)]
        /\ CameOut' = [i \in 1..Len(e) |-> ItemOf(e[i])]
    BY <1>1, <1>3, <1>5, <1>6 DEF View, IsDelivered
  <1>9. PICK k \in Nat : k = Len(d) /\ DOMAIN d = 1..k
    BY <1>7
  <1>10. PICK l \in Nat : l = Len(e) /\ DOMAIN e = 1..l
    BY <1>8
  <1>11. /\ k <= l
         /\ \A i \in 1..k : e[i] = d[i]
    <2>1. \A i \in 1..k : i \in 1..l /\ e[i] = d[i]
      BY <1>2, <1>3, <1>9, <1>10 DEF DeliversOn
    <2>2. k <= l
      <3>1. CASE k = 0
        BY <3>1
      <3>2. CASE k # 0
        BY <2>1, <3>2
      <3>. QED
        BY <3>1, <3>2
    <2>. QED
      BY <2>1, <2>2
  <1>12. CASE k = l
    <2>1. d = e
      <3>1. d = [i \in 1..k |-> d[i]] /\ e = [i \in 1..l |-> e[i]]
        BY <1>7, <1>8, <1>9, <1>10
      <3>. QED
        BY <1>11, <1>12, <3>1
    <2>2. L = M
      BY <1>7, <1>8, <2>1
    <2>. QED
      BY <1>7, <1>8, <2>1, <2>2
  <1>13. CASE k < l
    <2>1. PICK n \in Nat \ {0} : n = l - k
      BY <1>13
    <2>2. PICK places : places = [i \in 1..n |-> e[k + i] - L]
      OBVIOUS
    <2>3. ASSUME NEW i \in 1..n PROVE k + i \in 1..l /\ e[k + i] \in 1..P /\ L < e[k + i]
      <3>1. k + i \in 1..l
        BY <2>1
      <3>2. e[k + i] \in 1..P
        BY <1>8, <1>10, <3>1
      <3>3. CASE k = 0
        <4>1. d = <<>>
          BY <1>7, <1>9, <3>3
        <4>2. L = 0
          BY <1>7, <4>1
        <4>. QED
          BY <3>1, <3>2, <4>2
      <3>4. CASE k # 0
        <4>1. k \in 1..k /\ k \in 1..l /\ k < k + i
          BY <1>11, <3>4
        <4>2. L = d[k]
          BY <1>7, <1>9, <3>4
        <4>3. e[k] < e[k + i]
          BY <1>8, <1>10, <3>1, <4>1
        <4>4. L = e[k]
          BY <1>11, <4>1, <4>2
        <4>5. L < e[k + i]
          BY <4>3, <4>4
        <4>. QED
          BY <3>1, <3>2, <4>5
      <3>. QED
        BY <3>1, <3>2, <3>3, <3>4
    <2>4. /\ places \in [1..n -> 1..(P - L)] /\ Len(places) = n /\ DOMAIN places = 1..n
          /\ places # <<>>
      <3>1. \A i \in 1..n : e[k + i] - L \in 1..(P - L)
        BY <2>3
      <3>2. places \in [1..n -> 1..(P - L)]
        BY <2>2, <3>1
      <3>3. places \in Seq(1..(P - L)) /\ Len(places) = n
        BY <2>2, <3>2
      <3>4. 1 \in DOMAIN places
        BY <2>2
      <3>. QED
        BY <2>2, <3>2, <3>3, <3>4
    <2>5. PICK last : last = places[n]
      OBVIOUS
    <2>6. last = M - L /\ last \in 1..(P - L) /\ L + last = M
      <3>1. n \in 1..n /\ k + n = l
        BY <2>1
      <3>2. last = e[l] - L /\ last \in 1..(P - L)
        BY <2>2, <2>4, <2>5, <3>1
      <3>3. M = e[l]
        BY <1>8, <1>10, <1>13
      <3>. QED
        BY <3>2, <3>3
    <2>7. \A i, j \in DOMAIN places : i < j => places[i] < places[j]
      <3>. SUFFICES ASSUME NEW i \in 1..n, NEW j \in 1..n, i < j PROVE places[i] < places[j]
        BY <2>4
      <3>1. k + i \in 1..l /\ k + j \in 1..l /\ k + i < k + j
        BY <2>3
      <3>2. e[k + i] < e[k + j]
        BY <1>8, <1>10, <3>1
      <3>3. e[k + i] \in 1..P /\ e[k + j] \in 1..P
        BY <2>3
      <3>4. PICK a \in 1..P, b \in 1..P : a = e[k + i] /\ b = e[k + j]
        BY <3>3
      <3>5. places[i] = a - L /\ places[j] = b - L /\ a < b
        BY <2>2, <3>2, <3>4
      <3>. QED
        BY <3>5
    <2>8. \A q \in 1..last : StillToCome[q].reliable => \E i \in DOMAIN places : places[i] = q
      <3>. SUFFICES ASSUME NEW q \in 1..last, StillToCome[q].reliable
                    PROVE  \E i \in DOMAIN places : places[i] = q
        OBVIOUS
      <3>1. q \in 1..(P - L) /\ L + q \in 1..P /\ L + q <= M
        BY <2>6
      <3>2. packets[L + q].reliable
        BY <1>7, <3>1 DEF ItemOf
      <3>3. PICK j \in 1..l : e[j] = L + q
        BY <1>8, <1>10, <3>1, <3>2
      <3>4. ~(j <= k)
        <4>1. SUFFICES ASSUME j <= k PROVE FALSE
          OBVIOUS
        <4>2. j \in 1..k /\ k \in 1..k
          BY <4>1
        <4>3. d[j] = L + q /\ d[j] \in Nat /\ d[k] \in Nat /\ L = d[k]
          BY <1>7, <1>9, <1>11, <3>3, <4>2
        <4>4. j < k => d[j] < d[k]
          BY <1>7, <1>9, <4>2
        <4>. QED
          BY <4>2, <4>3, <4>4
      <3>5. j - k \in 1..n /\ k + (j - k) = j
        BY <2>1, <3>4
      <3>6. places[j - k] = q
        BY <2>2, <3>3, <3>5
      <3>. QED
        BY <2>4, <3>5, <3>6
    <2>9. StillToCome' = SubSeq(StillToCome, last + 1, Len(StillToCome))
      <3>1. PICK s : s = StillToCome
        OBVIOUS
      <3>2. P - L \in Nat /\ s = [i \in 1..(P - L) |-> ItemOf(L + i)]
        BY <1>7, <3>1
      <3>3. Len(s) = P - L
        BY <3>2
      <3>4. SubSeq(s, last + 1, P - L) = [i \in 1..(P - L - last) |-> s[last + i]]
        BY <2>6, <3>2
      <3>5. P - L - last = P - M
        BY <2>6
      <3>6. \A i \in 1..(P - M) : s[last + i] = ItemOf(M + i)
        <4>. TAKE i \in 1..(P - M)
        <4>1. last + i \in 1..(P - L) /\ L + (last + i) = M + i
          BY <2>6
        <4>. QED
          BY <3>2, <4>1
      <3>. QED
        BY <1>8, <3>1, <3>3, <3>4, <3>5, <3>6
    <2>10. CameOut' = CameOut \o [i \in DOMAIN places |-> StillToCome[places[i]]]
      <3>1. PICK s : s = CameOut
        OBVIOUS
      <3>2. PICK t : t = [i \in DOMAIN places |-> StillToCome[places[i]]]
        OBVIOUS
      <3>3. t = [i \in 1..n |-> ItemOf(e[k + i])]
        <4>1. \A i \in 1..n : StillToCome[places[i]] = ItemOf(e[k + i])
          <5>. TAKE i \in 1..n
          <5>1. PICK a \in 1..P : a = e[k + i] /\ L < a
            BY <2>3
          <5>2. places[i] = a - L
            BY <2>2, <5>1
          <5>3. places[i] \in 1..(P - L) /\ L + places[i] = a
            BY <5>1, <5>2
          <5>4. StillToCome[places[i]] = ItemOf(L + places[i])
            BY <1>7, <5>3
          <5>. QED
            BY <5>1, <5>3, <5>4
        <4>. QED
          BY <2>4, <3>2, <4>1
      <3>4. s = [i \in 1..k |-> ItemOf(d[i])]
        BY <1>7, <1>9, <3>1
      <3>5. Len(s) = k /\ Len(t) = n
        BY <3>3, <3>4
      <3>6. s \o t = [i \in 1..(k + n) |-> IF i <= k THEN s[i] ELSE t[i - k]]
        BY <3>3, <3>4, <3>5
      <3>7. \A i \in 1..l : (IF i <= k THEN s[i] ELSE t[i - k]) = ItemOf(e[i])
        <4>. TAKE i \in 1..l
        <4>1. CASE i <= k
          BY <1>11, <3>4, <4>1
        <4>2. CASE ~(i <= k)
          <5>1. i - k \in 1..n /\ k + (i - k) = i
            BY <2>1, <4>2
          <5>. QED
            BY <3>3, <4>2, <5>1
        <4>. QED
          BY <4>1, <4>2
      <3>8. k + n = l
        BY <2>1
      <3>9. CameOut' = [i \in 1..l |-> ItemOf(e[i])]
        BY <1>8, <1>10
      <3>10. s \o t = [i \in 1..l |-> ItemOf(e[i])]
        BY <3>6, <3>7, <3>8
      <3>. QED
        BY <3>1, <3>2, <3>9, <3>10
    <2>11. Ordered!Deliver(places)
      BY <2>4, <2>5, <2>7, <2>8, <2>9, <2>10 DEF Ordered!Deliver, StillToCome, CameOut
    <2>12. places \in [1..(Len(CameOut') - Len(CameOut)) -> 1..Len(StillToCome)]
      <3>1. Len(CameOut') = l /\ Len(CameOut) = k
        BY <1>7, <1>8, <1>9, <1>10
      <3>2. Len(StillToCome) = P - L
        <4>1. P - L \in Nat
          OBVIOUS
        <4>. QED
          BY <1>7, <4>1
      <3>. QED
        BY <2>1, <2>4, <3>1, <3>2
    <2>. QED
      BY <2>4, <2>11, <2>12 DEF Ordered!Next, StillToCome, CameOut
  <1>. QED
    BY <1>11, <1>12, <1>13

(* A packet that is sent comes behind those still to come.                                *)
LEMMA PutsBehind ==
    ASSUME PacketsInv, View, View', enet_peer_send
    PROVE  Ordered!Next
  <1>1. PICK x : packets' = Append(packets, x)
    BY DEF enet_peer_send
  <1>2. delivered' = delivered
    BY DEF enet_peer_send, receiver
  <1>3. PICK P \in Nat : P = Len(packets) /\ DOMAIN packets = 1..P /\ Len(packets') = P + 1
    <2>1. packets \in Seq(Kept)
      BY DEF PacketsInv
    <2>2. PICK S : S = Kept \cup {x}
      OBVIOUS
    <2>3. packets \in Seq(S) /\ x \in S
      BY <2>1, <2>2
    <2>4. Len(Append(packets, x)) = Len(packets) + 1
      BY <2>3
    <2>5. Len(packets) \in Nat /\ DOMAIN packets = 1..Len(packets)
      BY DEF View
    <2>. QED
      BY <1>1, <2>4, <2>5
  <1>4. PICK L \in 0..P : L = LastDelivered
    BY <1>3 DEF View
  <1>5. LastDelivered' = L
    BY <1>2, <1>4 DEF LastDelivered
  <1>6. \A p \in 1..P : ItemOf(p)' = ItemOf(p)
    <2>1. \A p \in 1..P : packets'[p] = packets[p]
      <3>1. packets \in Seq(Kept)
        BY DEF PacketsInv
      <3>. QED
        BY <1>1, <1>3, <3>1
    <2>. QED
      BY <2>1 DEF ItemOf
  <1>7. PICK s : s = StillToCome
    OBVIOUS
  <1>8. PICK t : t = StillToCome'
    OBVIOUS
  <1>9. P - L \in Nat /\ P + 1 - L \in Nat /\ P + 1 - L = (P - L) + 1
    OBVIOUS
  <1>10. s = [i \in 1..(P - L) |-> ItemOf(L + i)]
    BY <1>3, <1>4, <1>7 DEF View
  <1>11. t = [i \in 1..(P + 1 - L) |-> ItemOf(L + i)']
    BY <1>3, <1>5, <1>8 DEF View
  <1>12. Len(s) = P - L /\ Len(t) = P + 1 - L
    BY <1>9, <1>10, <1>11
  <1>13. t = Append(s, t[Len(t)])
    <2>1. \A i \in 1..(P - L) : t[i] = s[i]
      <3>. TAKE i \in 1..(P - L)
      <3>1. L + i \in 1..P /\ i \in 1..(P + 1 - L)
        BY <1>9
      <3>. QED
        BY <1>6, <1>10, <1>11, <3>1
    <2>2. PICK S : S = {s[i] : i \in DOMAIN s} \cup {t[Len(t)]}
      OBVIOUS
    <2>3. s \in Seq(S) /\ t[Len(t)] \in S
      <3>1. DOMAIN s = 1..(P - L) /\ t[Len(t)] \in S
        BY <1>10, <2>2
      <3>2. s \in [1..(P - L) -> S]
        <4>1. \A i \in 1..(P - L) : s[i] \in S
          BY <2>2, <3>1
        <4>2. s = [i \in 1..(P - L) |-> s[i]]
          BY <1>10
        <4>. QED
          BY <4>1, <4>2
      <3>. QED
        BY <1>9, <3>1, <3>2
    <2>4. Append(s, t[Len(t)]) = [i \in 1..((P - L) + 1) |->
                                    IF i <= P - L THEN s[i] ELSE t[Len(t)]]
      BY <1>9, <1>12, <2>3
    <2>5. \A i \in 1..((P - L) + 1) : t[i] = IF i <= P - L THEN s[i] ELSE t[Len(t)]
      <3>. TAKE i \in 1..((P - L) + 1)
      <3>1. i <= P - L => i \in 1..(P - L)
        BY <1>9
      <3>2. ~(i <= P - L) => i = Len(t)
        BY <1>9, <1>12
      <3>. QED
        BY <2>1, <3>1, <3>2
    <2>6. t = [i \in 1..((P - L) + 1) |-> t[i]]
      BY <1>9, <1>11
    <2>. QED
      BY <2>4, <2>5, <2>6
  <1>14. CameOut' = CameOut
    <2>1. PICK d : d = delivered
      OBVIOUS
    <2>2. CameOut = [i \in 1..Len(d) |-> ItemOf(d[i])]
      BY <2>1 DEF View
    <2>3. CameOut' = [i \in 1..Len(d) |-> ItemOf(d[i])']
      BY <1>2, <2>1 DEF View
    <2>4. \A i \in 1..Len(d) : d[i] \in 1..P
      BY <1>3, <2>1 DEF View
    <2>. QED
      BY <1>6, <2>2, <2>3, <2>4
  <1>15. Len(t) > Len(s)
    BY <1>9, <1>12
  <1>. QED
    BY <1>7, <1>8, <1>13, <1>14, <1>15 DEF Ordered!Next, Ordered!Put, StillToCome, CameOut

(* A packet is put behind the others, or is given out, or neither: every step of the        *)
(* channel is a step of OrderedChannel or none.                                       *)
LEMMA StepKeepsOrder ==
    ASSUME IInv, View, View', [ChannelNext]_channelVars
    PROVE  [Ordered!Next]_<<StillToCome, CameOut>>
  <1>1. DeliversOn /\ packets' = packets => [Ordered!Next]_<<StillToCome, CameOut>>
    BY DeliversPlaces
  <1>2. UNCHANGED receiver => DeliversOn
    BY DEF DeliversOn, receiver
  <1>3. CASE ChannelNext
    <2>1. Fresh'
      BY <1>3 DEF ChannelNext
    <2>2. CASE enet_peer_send
      <3>1. PacketsInv
        BY DEF IInv
      <3>. QED
        BY <2>2, <3>1, PutsBehind
    <2>3. CASE SendAgain
      BY <1>1, <1>2, <2>3 DEF SendAgain
    <2>4. CASE SendFirst
      BY <1>1, <1>2, <2>4 DEF SendFirst
    <2>5. ASSUME NEW I \in SUBSET DOMAIN sentReliableCommands, TimeOutCommands(I)
          PROVE  [Ordered!Next]_<<StillToCome, CameOut>>
      BY <1>1, <1>2, <2>5 DEF TimeOutCommands
    <2>6. ASSUME NEW d \in wire, Lose(d) PROVE [Ordered!Next]_<<StillToCome, CameOut>>
      BY <1>1, <1>2, <2>6 DEF Lose, sender
    <2>7. ASSUME NEW d \in wire, HandleAcknowledge(d.command)
          PROVE  [Ordered!Next]_<<StillToCome, CameOut>>
      BY <1>1, <1>2, <2>7 DEF HandleAcknowledge
    <2>8. ASSUME NEW d \in wire, HandleReliable(d.command)
          PROVE  [Ordered!Next]_<<StillToCome, CameOut>>
      <3>1. DeliversOn
        BY <2>1, <2>8, HandleReliableKeeps
      <3>. QED
        BY <1>1, <2>8, <3>1 DEF HandleReliable, sender
    <2>9. ASSUME NEW d \in wire, HandleUnreliable(d.command)
          PROVE  [Ordered!Next]_<<StillToCome, CameOut>>
      <3>1. DeliversOn
        BY <2>1, <2>9, HandleUnreliableKeeps
      <3>. QED
        BY <1>1, <2>9, <3>1 DEF HandleUnreliable, sender
    <2>. QED
      BY <1>3, <2>2, <2>3, <2>4, <2>5, <2>6, <2>7, <2>8, <2>9 DEF ChannelNext, CheckOutgoing
  <1>4. CASE UNCHANGED channelVars
    BY <1>1, <1>2, <1>4 DEF channelVars, sender
  <1>. QED
    BY <1>3, <1>4

(* Nothing is to come and nothing came out when the channel is new.                     *)
LEMMA OrderAtFirst == ChannelInit => Ordered!Init
  <1>. SUFFICES ASSUME ChannelInit PROVE Ordered!Init
    OBVIOUS
  <1>1. packets = <<>> /\ delivered = <<>>
    BY DEF ChannelInit
  <1>2. LastDelivered = 0 /\ Len(packets) = 0
    BY <1>1 DEF LastDelivered
  <1>3. Numbering(LastDelivered + 1, Len(packets)) = <<>>
    BY <1>2 DEF Numbering
  <1>. QED
    BY <1>1, <1>3 DEF Ordered!Init

(* Whatever is lost, repeated or overtaken, the packets come out in the order they were       *)
(* sent, each at most once, and none before a reliable one that was sent earlier.       *)
THEOREM ChannelKeepsOrder == ChannelSpec => ImplementsOrderedChannel
  <1>1. ChannelInit => Ordered!Init
    BY OrderAtFirst
  <1>2. IInv => View
    BY ViewHolds
  <1>3. IInv' => View'
    BY ViewHoldsNext
  <1>4. IInv /\ IInv' /\ [ChannelNext]_channelVars =>
           [Ordered!Next]_<<StillToCome, CameOut>>
    BY <1>2, <1>3, StepKeepsOrder
  <1>. QED
    BY <1>1, <1>4, Invariance, PTL
    DEF ChannelSpec, ImplementsOrderedChannel, Ordered!Spec, StillToCome, CameOut
================================================================================
