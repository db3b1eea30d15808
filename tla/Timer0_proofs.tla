--------------------------- MODULE Timer0_proofs ----------------------------
(***************************************************************************)
(* Proofs about the clock: that millis() and micros() are exact, and that  *)
(* delay() is not short, for every size of the timer and of the words and  *)
(* every ratio of ticks to milliseconds.  The times wrap around, so that   *)
(* most of what is proved is an equality modulo something.                 *)
(***************************************************************************)
EXTENDS Timer0, TLAPS

-----------------------------------------------------------------------------
(* Division and remainder *)

LEMMA DivMod ==
    ASSUME NEW a \in Int, NEW n \in Nat \ {0}
    PROVE  a % n \in 0 .. n - 1 /\ a \div n \in Int /\ a = (a \div n) * n + (a % n)
OBVIOUS

\* There is only one quotient and one remainder.
LEMMA DivModUnique ==
    ASSUME NEW n \in Nat \ {0}, NEW q \in Int, NEW r \in 0 .. n - 1
    PROVE  (q * n + r) % n = r /\ (q * n + r) \div n = q
OBVIOUS

\* What differs by a multiple has the same remainder.
LEMMA ModEqual ==
    ASSUME NEW n \in Nat \ {0}, NEW a \in Int, NEW b \in Int, NEW k \in Int, a = b + k * n
    PROVE  a % n = b % n
<1>1. b % n \in 0 .. n - 1 /\ b = (b \div n) * n + (b % n) /\ b \div n \in Int
  BY DivMod
<1>2. a = (b \div n + k) * n + (b % n) /\ b \div n + k \in Int
  BY <1>1
<1>3. QED
  BY <1>1, <1>2, DivModUnique

\* A remainder may be taken before or after adding.
LEMMA ModAdd ==
    ASSUME NEW n \in Nat \ {0}, NEW a \in Int, NEW b \in Int
    PROVE  ((a % n) + b) % n = (a + b) % n
<1> DEFINE q == a \div n
           r == a % n
<1>1. q \in Int /\ r \in Int /\ a = q * n + r
  BY DivMod
<1> HIDE DEF q, r
<1>2. r + b = (a + b) + (-q) * n /\ r + b \in Int /\ a + b \in Int /\ -q \in Int
  BY <1>1
<1>3. (r + b) % n = (a + b) % n
  BY <1>2, ModEqual
<1>4. QED
  BY <1>3 DEF r

\* It may be taken before or after multiplying.
LEMMA ModTimes ==
    ASSUME NEW n \in Nat \ {0}, NEW a \in Int, NEW b \in Int
    PROVE  ((a % n) * b) % n = (a * b) % n
<1> DEFINE q == a \div n
           r == a % n
<1>1. q \in Int /\ r \in Int /\ a = q * n + r
  BY DivMod
<1> HIDE DEF q, r
<1>2. r * b = a * b + (-(q * b)) * n
  BY <1>1
<1>3. r * b \in Int /\ a * b \in Int /\ -(q * b) \in Int
  BY <1>1
<1>4. (r * b) % n = (a * b) % n
  BY <1>2, <1>3, ModEqual
<1>5. QED
  BY <1>4 DEF r

\* A remainder modulo a multiple changes nothing.
LEMMA ModMultiple ==
    ASSUME NEW n \in Nat \ {0}, NEW j \in Nat \ {0}, NEW a \in Int
    PROVE  (a % (n * j)) % n = a % n
<1> DEFINE p == n * j
           q == a \div p
           r == a % p
<1>1. p \in Nat \ {0}
  OBVIOUS
<1> HIDE DEF p
<1>2. q \in Int /\ r \in Int /\ a = q * p + r
  BY <1>1, DivMod
<1> HIDE DEF q, r
<1>3. r = a + (-(q * j)) * n
  BY <1>2 DEF p
<1>4. -(q * j) \in Int
  BY <1>2
<1>5. r % n = a % n
  BY <1>2, <1>3, <1>4, ModEqual
<1>6. QED
  BY <1>5 DEF r, p

-----------------------------------------------------------------------------
(* The constants *)

\* The overflows after which the clock's variables repeat.
Round == WordMod * FRACT_MAX

\* A millisecond and the time of an overflow in units of the fraction.
PerOverflow == MILLIS_INC * FRACT_MAX + FRACT_INC

LEMMA Constants ==
    /\ WordMod \in Nat \ {0} /\ TimerMod \in Nat \ {0, 1} /\ UsPerTick \in Nat \ {0}
    /\ UsPerMs \in Nat \ {0} /\ FractUnit \in Nat \ {0} /\ MicrosPerOverflow \in Nat
    /\ FRACT_MAX \in Nat \ {0} /\ UsPerMs = FRACT_MAX * FractUnit
    /\ MILLIS_INC \in Nat /\ FRACT_INC \in 0 .. FRACT_MAX - 1
    /\ MicrosPerOverflow = TimerMod * UsPerTick
    /\ MicrosPerOverflow = MILLIS_INC * UsPerMs + FRACT_INC * FractUnit
    /\ PerOverflow \in Nat /\ MicrosPerOverflow = PerOverflow * FractUnit
    /\ Round \in Nat \ {0} /\ Cycle = Round * TimerMod /\ Cycle \in Nat \ {0}
    /\ Cycle \div TimerMod = Round
<1> DEFINE U == UsPerMs
           F == FractUnit
           P == MicrosPerOverflow
           R == P % U
<1>1. /\ WordMod \in Nat \ {0} /\ TimerMod \in Nat \ {0, 1} /\ UsPerTick \in Nat \ {0}
      /\ U \in Nat \ {0} /\ F \in Nat \ {0} /\ R % F = 0 /\ U % F = 0
  BY Timer0Assumption
<1>2. P = TimerMod * UsPerTick
  BY DEF MicrosPerOverflow
<1>3. P \in Nat
  BY <1>1, <1>2
<1> HIDE DEF P, U, F
<1>4. /\ R \in 0 .. U - 1 /\ P \div U \in Int /\ P = (P \div U) * U + R
  BY <1>1, <1>3, DivMod
<1> HIDE DEF R
<1>5. P \div U \in Nat
  BY <1>1, <1>3, <1>4
<1>6. U \div F \in Int /\ U = (U \div F) * F /\ R \div F \in Int /\ R = (R \div F) * F
  <2>1. U = (U \div F) * F + (U % F) /\ U \div F \in Int
    BY <1>1, DivMod
  <2>2. R = (R \div F) * F + (R % F) /\ R \div F \in Int
    <3>1. R \in Int
      BY <1>1, <1>4
    <3>2. QED
      BY <1>1, <3>1, DivMod
  <2>3. QED
    BY <1>1, <2>1, <2>2
<1>7. MILLIS_INC = P \div U /\ FRACT_INC = R \div F /\ FRACT_MAX = U \div F
  BY DEF MILLIS_INC, FRACT_INC, FRACT_MAX, P, R, U, F
<1>8. FRACT_MAX \in Nat \ {0} /\ FRACT_INC \in Nat /\ FRACT_INC < FRACT_MAX
  <2> DEFINE x == U \div F
             y == R \div F
  <2>1. x \in Int /\ y \in Int /\ U = x * F /\ R = y * F
    BY <1>6
  <2> HIDE DEF x, y
  <2>2. x > 0
    BY <1>1, <2>1
  <2>3. y >= 0
    BY <1>1, <1>4, <2>1
  <2>4. y < x
    BY <1>1, <1>4, <2>1
  <2>5. QED
    BY <1>7, <2>1, <2>2, <2>3, <2>4 DEF x, y
<1>9. UsPerMs = FRACT_MAX * FractUnit
  BY <1>6, <1>7 DEF U, F
<1>10. MicrosPerOverflow = MILLIS_INC * UsPerMs + FRACT_INC * FractUnit
  BY <1>4, <1>6, <1>7 DEF U, F, P
<1>11. MILLIS_INC \in Nat
  BY <1>5, <1>7
<1>12. PerOverflow \in Nat
  BY <1>8, <1>11 DEF PerOverflow
<1>13. MicrosPerOverflow = PerOverflow * FractUnit
  BY <1>1, <1>8, <1>9, <1>10, <1>11 DEF PerOverflow, F
<1>14. Round \in Nat \ {0}
  BY <1>1, <1>8 DEF Round
<1>15. Cycle = Round * TimerMod /\ Cycle \in Nat \ {0}
  BY <1>1, <1>8, <1>14 DEF Cycle, Round
<1>16. Cycle \div TimerMod = Round
  BY <1>1, <1>14, <1>15, DivModUnique
<1>17. QED
  BY <1>1, <1>2, <1>3, <1>8, <1>9, <1>10, <1>11, <1>12, <1>13, <1>14, <1>15, <1>16
     DEF P, U, F

-----------------------------------------------------------------------------
(* The invariant of the clock and of the two readings *)

Word == 0 .. WordMod - 1

TypeOK ==
    /\ TCNT0 \in 0 .. TimerMod - 1 /\ TOV0 \in BOOLEAN /\ interrupts \in BOOLEAN
    /\ timer0_overflow_count \in Word /\ timer0_millis \in Word
    /\ timer0_fract \in 0 .. FRACT_MAX - 1
    /\ now \in 0 .. Cycle - 1 /\ sampled \in 0 .. Cycle - 1 /\ lag \in Nat
    /\ pc \in {"idle", "millis", "micros", "count", "flag", "start", "wait"}
    /\ caller \in {"program", "start", "wait"}
    /\ m \in Nat /\ t \in 0 .. TimerMod - 1

\* The hardware counts the time, and the interrupt the overflows of the hardware.
CounterIsTime == TCNT0 = now % TimerMod
CountIsServed == timer0_overflow_count = Served % WordMod

\* Interrupts are off in the middle of a reading only, and not for long.
Uninterrupted ==
    /\ interrupts <=> pc \notin {"millis", "count", "flag"}
    /\ ~interrupts => lag <= 1

\* The half of a word that millis() has read is that of the word.
HalfRead == pc = "millis" => m = Low(timer0_millis)

\* An overflow that micros() has missed is so recent that the counter shows it.
CountRead ==
    pc = "count" => m = timer0_overflow_count /\ (TOV0 => TCNT0 = 0 /\ lag = 1)

\* With an overflow that was missed the count is that of the time sampled; one
\* that comes later is told by TCNT0, which was at its end.
CounterRead ==
    pc = "flag" =>
        /\ t = sampled % TimerMod /\ (lag = 0 => TCNT0 = t)
        /\ (m + IF OverflowMissed THEN 1 ELSE 0) % WordMod = (sampled \div TimerMod) % WordMod

Inv ==
    /\ TypeOK /\ CounterIsTime /\ CountIsServed /\ MillisIsTime
    /\ Uninterrupted /\ HalfRead /\ CountRead /\ CounterRead

-----------------------------------------------------------------------------
(* What the actions do to the clock *)

\* The overflows of the hardware, and those that the interrupt has yet to count.
Overflows == now \div TimerMod
Pending   == IF TOV0 THEN 1 ELSE 0

LEMMA OverflowsType ==
    ASSUME TypeOK, CounterIsTime
    PROVE  /\ Overflows \in 0 .. Round - 1 /\ Pending \in {0, 1}
           /\ now = Overflows * TimerMod + TCNT0
           /\ Served = (Overflows - Pending) % Round /\ Served \in 0 .. Round - 1
<1> DEFINE q == now \div TimerMod
           r == now % TimerMod
<1>1. now \in 0 .. Cycle - 1 /\ TCNT0 = r
  BY DEF TypeOK, CounterIsTime
<1>2. /\ TimerMod \in Nat \ {0} /\ Round \in Nat \ {0}
      /\ Cycle = Round * TimerMod /\ Cycle \in Nat
      /\ Cycle \div TimerMod = Round
  BY Constants
<1>3. now \in Int
  BY <1>1, <1>2
<1>4. r \in 0 .. TimerMod - 1 /\ q \in Int /\ now = q * TimerMod + r
  BY <1>2, <1>3, DivMod
<1> HIDE DEF q, r
<1>5. q >= 0
  BY <1>1, <1>2, <1>4
<1>6. q < Round
  BY <1>1, <1>2, <1>4
<1>7. Pending \in {0, 1}
  BY DEF Pending
<1>8. Overflows = q
  BY DEF q, Overflows
<1>9. Served = (Overflows - Pending) % Round
  BY <1>2 DEF Served, Overflows, Pending
<1>10. Overflows - Pending \in Int
  BY <1>2, <1>5, <1>4, <1>7, <1>8
<1>11. Served \in 0 .. Round - 1
  BY <1>2, <1>9, <1>10, DivMod
<1>12. QED
  BY <1>1, <1>2, <1>4, <1>5, <1>6, <1>7, <1>8, <1>9, <1>11

\* A tick sets the flag when it ends a round of the counter.
LEMMA TickServed ==
    ASSUME TypeOK, CounterIsTime, Tick
    PROVE  /\ TCNT0' \in 0 .. TimerMod - 1 /\ now' \in 0 .. Cycle - 1 /\ TOV0' \in BOOLEAN
           /\ CounterIsTime' /\ Served' = Served
<1> DEFINE q == Overflows
           r == TCNT0
           T == TimerMod
<1>1. /\ q \in 0 .. Round - 1 /\ now = q * T + r
      /\ Served = (q - Pending) % Round
  BY OverflowsType
<1>2. /\ T \in Nat \ {0, 1} /\ Round \in Nat \ {0} /\ Cycle = Round * T
      /\ Cycle \in Nat \ {0} /\ Cycle \div T = Round
  BY Constants
<1>3. r \in 0 .. T - 1 /\ TOV0 \in BOOLEAN
  BY DEF TypeOK
<1>4. /\ TCNT0' = (r + 1) % T /\ now' = (now + 1) % Cycle
      /\ TOV0' = (TOV0 \/ r = T - 1) /\ ~(TOV0 /\ r = T - 1)
  BY DEF Tick, MayTick
<1>5. TOV0' \in BOOLEAN
  BY <1>4
<1>6. Served' = ((now' \div T) - IF TOV0' THEN 1 ELSE 0) % Round
  BY <1>2 DEF Served
<1> HIDE DEF q, r, T
<1>7. CASE r # T - 1
  <2>1. r + 1 \in 0 .. T - 1 /\ (r + 1) = 0 * T + (r + 1)
    BY <1>2, <1>3, <1>7
  <2>2. (r + 1) % T = r + 1
    BY <1>2, <2>1, DivModUnique
  <2>3. now + 1 = q * T + (r + 1) /\ now + 1 \in 0 .. Cycle - 1
    <3>1. q * T + T <= Round * T
      BY <1>1, <1>2
    <3>2. q * T >= 0 /\ q * T \in Int
      BY <1>1, <1>2
    <3>3. QED
      BY <1>1, <1>2, <1>3, <2>1, <3>1, <3>2
  <2>4. (now + 1) % Cycle = now + 1
    <3>1. now + 1 = 0 * Cycle + (now + 1)
      BY <1>2, <2>3
    <3>2. QED
      BY <1>2, <2>3, <3>1, DivModUnique
  <2>5. now' \div T = q /\ now' % T = r + 1
    <3>1. now' = q * T + (r + 1) /\ q \in Int /\ T \in Nat \ {0}
      BY <1>1, <1>2, <1>4, <2>3, <2>4
    <3>2. QED
      BY <2>1, <3>1, DivModUnique
  <2>6. TOV0' = TOV0
    BY <1>3, <1>4, <1>7
  <2>7. Served' = Served
    BY <1>1, <1>6, <2>5, <2>6 DEF Pending
  <2>8. QED
    BY <1>4, <1>5, <2>1, <2>2, <2>3, <2>4, <2>5, <2>7 DEF CounterIsTime, T
<1>8. CASE r = T - 1
  <2>1. TOV0' /\ ~TOV0
    BY <1>4, <1>8
  <2>2. Served = q % Round
    BY <1>1, <2>1 DEF Pending
  <2>3. r + 1 = 1 * T + 0 /\ 0 \in 0 .. T - 1
    BY <1>2, <1>8
  <2>4. (r + 1) % T = 0
    BY <1>2, <2>3, DivModUnique
  <2>5. now + 1 = (q + 1) * T + 0
    BY <1>1, <1>2, <1>8
  <2>6. CASE q + 1 < Round
    <3>1. now + 1 \in 0 .. Cycle - 1
      <4>1. (q + 1) * T + T <= Round * T
        BY <1>1, <1>2, <2>6
      <4>2. (q + 1) * T >= 0 /\ (q + 1) * T \in Int
        BY <1>1, <1>2
      <4>3. QED
        BY <1>2, <2>5, <4>1, <4>2
    <3>2. (now + 1) % Cycle = now + 1
      <4>1. now + 1 = 0 * Cycle + (now + 1)
        BY <1>2, <3>1
      <4>2. QED
        BY <1>2, <3>1, <4>1, DivModUnique
    <3>3. now' \div T = q + 1 /\ now' % T = 0
      <4>1. now' = (q + 1) * T + 0 /\ q + 1 \in Int /\ T \in Nat \ {0}
        BY <1>1, <1>2, <1>4, <2>5, <3>2
      <4>2. QED
        BY <2>3, <4>1, DivModUnique
    <3>4. Served' = Served
      <4>1. (q + 1) - 1 = q
        BY <1>1
      <4>2. QED
        BY <1>6, <2>1, <2>2, <3>3, <4>1
    <3>5. QED
      BY <1>4, <1>5, <2>3, <2>4, <3>1, <3>2, <3>3, <3>4 DEF CounterIsTime, T
  <2>7. CASE q + 1 = Round
    <3>1. now + 1 = 1 * Cycle + 0 /\ 0 \in 0 .. Cycle - 1
      BY <1>2, <2>5, <2>7
    <3>2. now' = 0
      BY <1>2, <1>4, <3>1, DivModUnique
    <3>3. now' \div T = 0 /\ now' % T = 0
      <4>1. 0 = 0 * T + 0
        BY <1>2
      <4>2. QED
        BY <1>2, <2>3, <3>2, <4>1, DivModUnique
    <3>4. Served' = Served
      <4> DEFINE a == 0 - 1
                 k == 0 - 1
      <4>1. a = q + k * Round
        BY <1>1, <1>2, <2>7
      <4>2. a \in Int /\ q \in Int /\ k \in Int
        BY <1>1
      <4> HIDE DEF a, k
      <4>3. a % Round = q % Round
        BY <1>2, <4>1, <4>2, ModEqual
      <4>4. QED
        BY <1>6, <2>1, <2>2, <3>3, <4>3 DEF a
    <3>5. QED
      BY <1>4, <1>5, <2>3, <2>4, <3>1, <3>2, <3>3, <3>4 DEF CounterIsTime, T
  <2>8. QED
    BY <1>1, <1>2, <2>6, <2>7
<1>9. QED
  BY <1>7, <1>8

\* The interrupt counts the overflow that the flag tells of.
LEMMA OverflowServed ==
    ASSUME TypeOK, CounterIsTime, TIMER0_OVF
    PROVE  Served' = (Served + 1) % Round
<1> DEFINE q == Overflows
<1>1. q \in 0 .. Round - 1 /\ Served = (q - Pending) % Round
  BY OverflowsType
<1>2. Round \in Nat \ {0} /\ Cycle \div TimerMod = Round
  BY Constants
<1>3. TOV0 /\ TOV0' = FALSE /\ now' = now
  BY DEF TIMER0_OVF
<1>4. Served = (q - 1) % Round
  BY <1>1, <1>3 DEF Pending
<1>5. Served' = (q - 0) % Round
  BY <1>2, <1>3 DEF Served, Overflows
<1> HIDE DEF q
<1>6. q - 1 \in Int /\ 1 \in Int /\ (q - 1) + 1 = q - 0
  BY <1>1
<1>7. (((q - 1) % Round) + 1) % Round = ((q - 1) + 1) % Round
  BY <1>2, <1>6, ModAdd
<1>8. QED
  BY <1>4, <1>5, <1>6, <1>7

\* What the interrupt adds is the time of an overflow, less what wraps around.
LEMMA OverflowAdds ==
    ASSUME TypeOK, TIMER0_OVF
    PROVE  /\ timer0_millis' \in Word /\ timer0_fract' \in 0 .. FRACT_MAX - 1
           /\ \E i \in Int :
                 timer0_millis' * UsPerMs + timer0_fract' * FractUnit
                   = (timer0_millis * UsPerMs + timer0_fract * FractUnit)
                       + MicrosPerOverflow + (-i) * (WordMod * UsPerMs)
<1> DEFINE W == WordMod
           U == UsPerMs
           F == FractUnit
           M == FRACT_MAX
           inc == MILLIS_INC
           f == timer0_fract + FRACT_INC
           w == IF IsWholeMs(f) THEN 1 ELSE 0
           x == timer0_millis + MILLIS_INC + w
           i == x \div W
           y == x % W
           g == timer0_fract'
           fo == timer0_fract
           ml == timer0_millis
           fi == FRACT_INC
<1>1. /\ W \in Nat \ {0} /\ U \in Nat \ {0} /\ F \in Nat \ {0} /\ M \in Nat \ {0}
      /\ U = M * F /\ inc \in Nat /\ fi \in 0 .. M - 1
      /\ MicrosPerOverflow = inc * U + fi * F /\ MicrosPerOverflow \in Nat
  BY Constants
<1>2. ml \in 0 .. W - 1 /\ fo \in 0 .. M - 1
  BY DEF TypeOK, Word
<1>3. timer0_millis' = y /\ g = IF IsWholeMs(f) THEN f - M ELSE f
  BY DEF TIMER0_OVF
<1>4. f \in Nat /\ f = fo + fi
  BY <1>1, <1>2
<1>5. w \in {0, 1} /\ (w = 1 <=> f >= M) /\ g = f - w * M /\ g \in 0 .. M - 1
  <2>1. CASE f >= M
    BY <1>1, <1>2, <1>3, <1>4, <2>1 DEF IsWholeMs
  <2>2. CASE ~(f >= M)
    BY <1>1, <1>2, <1>3, <1>4, <2>2 DEF IsWholeMs
  <2>3. QED
    BY <2>1, <2>2
<1> HIDE DEF w, f
<1>6. x \in Int
  BY <1>1, <1>2, <1>5
<1> HIDE DEF W
<1>7. y \in 0 .. W - 1 /\ i \in Int /\ x = i * W + y
  BY <1>1, <1>6, DivMod
<1>8. x = ml + inc + w
  OBVIOUS
<1> HIDE DEF U, F, M, inc, x, i, y, g, fo, ml, fi
<1>9. y = ml + inc + w - i * W
  BY <1>1, <1>2, <1>5, <1>7, <1>8
<1>10. y * U + g * F = (ml * U + fo * F) + MicrosPerOverflow + (-i) * (W * U)
  <2>1. y * U = ml * U + inc * U + w * U - i * (W * U)
    BY <1>1, <1>2, <1>5, <1>7, <1>9
  <2>2. g * F = fo * F + fi * F - w * U
    BY <1>1, <1>2, <1>4, <1>5
  <2> DEFINE a == y * U
             b == ml * U
             c == inc * U
             d == w * U
             e == i * (W * U)
             h == g * F
             j == fo * F
             k == fi * F
  <2>3. (-i) * (W * U) = -e
    BY <1>1, <1>7
  <2>4. /\ a \in Int /\ b \in Int /\ c \in Int /\ d \in Int /\ e \in Int /\ h \in Int
        /\ j \in Int /\ k \in Int
    BY <1>1, <1>2, <1>5, <1>7
  <2>5. a = b + c + d - e /\ h = j + k - d /\ MicrosPerOverflow = c + k
    BY <1>1, <2>1, <2>2
  <2> HIDE DEF a, b, c, d, e, h, j, k
  <2>6. a + h = (b + j) + MicrosPerOverflow + (-e)
    BY <2>4, <2>5
  <2>7. QED
    BY <2>3, <2>6 DEF a, b, c, d, e, h, j, k
<1>11. QED
  BY <1>3, <1>5, <1>7, <1>10 DEF W, U, F, M, g, fo, ml, Word

LEMMA TimeFollows ==
    ASSUME TypeOK, CounterIsTime, MillisIsTime, TIMER0_OVF
    PROVE  MillisIsTime'
<1> DEFINE W == WordMod
           U == UsPerMs
           P == MicrosPerOverflow
           V == timer0_millis * UsPerMs + timer0_fract * FractUnit
           N == W * U
           s == Served
           z == Served + 1
           j == z \div Round
<1>1. /\ W \in Nat \ {0} /\ U \in Nat \ {0} /\ FractUnit \in Nat \ {0}
      /\ FRACT_MAX \in Nat \ {0} /\ U = FRACT_MAX * FractUnit /\ P \in Nat
      /\ PerOverflow \in Nat /\ P = PerOverflow * FractUnit
      /\ Round \in Nat \ {0}
  BY Constants
<1>2. s \in 0 .. Round - 1
  BY OverflowsType
<1>3. z \in Int
  BY <1>1, <1>2
<1>4. j \in Int /\ z % Round \in Int /\ z = j * Round + (z % Round)
  <2> HIDE DEF z
  <2>1. z % Round \in 0 .. Round - 1 /\ z \div Round \in Int /\ z = (z \div Round) * Round + (z % Round)
    BY <1>1, <1>3, DivMod
  <2>2. QED
    BY <1>1, <2>1
<1>5. Served' = z % Round
  BY OverflowServed
<1>6. V = (s * P) % N
  BY DEF MillisIsTime
<1>7. PICK i \in Int : V' = V + P + (-i) * N
  BY OverflowAdds
<1>8. V' \in 0 .. N - 1
  <2> DEFINE a == timer0_millis'
             b == timer0_fract'
  <2>1. a \in 0 .. W - 1 /\ b \in 0 .. FRACT_MAX - 1
    BY OverflowAdds DEF Word
  <2> HIDE DEF a, b
  <2>2. a * U \in Int /\ a * U >= 0 /\ a * U + U <= W * U
    BY <1>1, <2>1
  <2>3. b * FractUnit \in Int /\ b * FractUnit >= 0 /\ b * FractUnit < U
    BY <1>1, <2>1
  <2>4. a * U + b * FractUnit \in 0 .. W * U - 1
    BY <1>1, <2>2, <2>3
  <2>5. QED
    BY <2>4 DEF a, b
<1>9. N \in Nat \ {0}
  BY <1>1
<1>10. Round * P = PerOverflow * N
  BY <1>1 DEF Round
<1>11. V \in Int
  <2>1. s * P \in Int
    BY <1>1, <1>2
  <2> HIDE DEF N
  <2>2. QED
    BY <1>6, <1>9, <2>1, DivMod
<1>12. V' % N = V'
  <2> DEFINE a == V'
  <2>1. a \in 0 .. N - 1
    BY <1>8
  <2> HIDE DEF a, N
  <2>2. a = 0 * N + a
    BY <1>9, <2>1
  <2>3. QED
    BY <1>9, <2>1, <2>2, DivModUnique DEF a
<1>13. (Served' * P) % N = V' % N
  <2> DEFINE c == z % Round
             a == c * P
             b == s * P + P
             h == -(j * PerOverflow)
             q == (s * P) \div N
             v == V'
             o == V
  <2>1. c \in Int /\ c = z - j * Round
    BY <1>1, <1>3, <1>4
  <2> HIDE DEF c, j
  <2>2. a = b + h * N
    <3>1. c * P = z * P - j * (Round * P)
      BY <1>1, <1>3, <1>4, <2>1
    <3>2. z * P = s * P + P
      BY <1>1, <1>2
    <3>3. j * (Round * P) = (j * PerOverflow) * N
      <4> HIDE DEF N, P
      <4>1. QED
        BY <1>1, <1>4, <1>9, <1>10
    <3>4. h * N = -((j * PerOverflow) * N)
      <4> HIDE DEF N
      <4>1. QED
        BY <1>1, <1>4, <1>9
    <3>5. j * (Round * P) \in Int /\ s * P \in Int
      BY <1>1, <1>2, <1>4
    <3>6. QED
      BY <1>1, <3>1, <3>2, <3>3, <3>4, <3>5
  <2>3. a \in Int /\ b \in Int /\ h \in Int
    BY <1>1, <1>2, <1>4, <2>1
  <2>4. q \in Int /\ s * P = q * N + o
    <3>1. s * P \in Int
      BY <1>1, <1>2
    <3> HIDE DEF N, o
    <3>2. q \in Int /\ s * P = q * N + ((s * P) % N)
      BY <1>9, <3>1, DivMod
    <3>3. QED
      BY <1>6, <3>2 DEF o
  <2>5. v = o + P + (-i) * N /\ o \in Int
    BY <1>7, <1>11
  <2> HIDE DEF a, h, q, v, o, N, P
  <2>6. a % N = b % N
    BY <1>9, <2>2, <2>3, ModEqual
  <2>7. v = b + (-i - q) * N
    BY <1>7, <1>9, <1>1, <2>4, <2>5
  <2>8. v \in Int /\ -i - q \in Int
    BY <1>9, <1>1, <2>4, <2>5, <1>7
  <2>9. v % N = b % N
    BY <1>9, <2>3, <2>7, <2>8, ModEqual
  <2>10. QED
    BY <1>5, <2>6, <2>9 DEF a, c, v
<1>14. QED
  BY <1>12, <1>13 DEF MillisIsTime

-----------------------------------------------------------------------------
(* The invariant holds *)

Places == {"idle", "millis", "micros", "count", "flag", "start", "wait"}

\* The count lags behind the hardware by the overflow that is pending.
LEMMA CountIsOverflows ==
    ASSUME TypeOK, CounterIsTime, CountIsServed
    PROVE  timer0_overflow_count = (Overflows - Pending) % WordMod
<1> DEFINE a == Overflows - Pending
<1>1. Served = a % Round /\ Overflows \in 0 .. Round - 1 /\ Pending \in {0, 1}
  BY OverflowsType
<1>2. WordMod \in Nat \ {0} /\ FRACT_MAX \in Nat \ {0} /\ Round \in Nat \ {0}
  BY Constants
<1>3. a \in Int
  BY <1>1, <1>2
<1> HIDE DEF a
<1>4. (a % (WordMod * FRACT_MAX)) % WordMod = a % WordMod
  BY <1>2, <1>3, ModMultiple
<1>5. QED
  BY <1>1, <1>4 DEF CountIsServed, Round, a

LEMMA InitInv == Init => Inv
<1> SUFFICES ASSUME Init PROVE Inv
  OBVIOUS
<1>1. /\ WordMod \in Nat \ {0} /\ TimerMod \in Nat \ {0, 1} /\ FRACT_MAX \in Nat \ {0}
      /\ UsPerMs \in Nat \ {0} /\ FractUnit \in Nat \ {0} /\ MicrosPerOverflow \in Nat
      /\ Cycle \in Nat \ {0} /\ Round \in Nat \ {0} /\ Cycle \div TimerMod = Round
  BY Constants
<1>2. \A n \in Nat \ {0} : 0 % n = 0 /\ 0 \div n = 0
  <2> TAKE n \in Nat \ {0}
  <2>1. 0 = 0 * n + 0 /\ 0 \in 0 .. n - 1
    OBVIOUS
  <2>2. QED
    BY <2>1, DivModUnique
<1>3. TypeOK
  <2>1. TCNT0 = 0 /\ now = 0 /\ sampled = 0 /\ t = 0 /\ lag = 0 /\ m = 0
    BY DEF Init
  <2>2. timer0_overflow_count = 0 /\ timer0_millis = 0 /\ timer0_fract = 0
    BY DEF Init
  <2>3. TOV0 \in BOOLEAN /\ interrupts \in BOOLEAN /\ pc = "idle" /\ caller = "program"
    BY DEF Init
  <2>4. 0 \in Word /\ 0 \in 0 .. Cycle - 1 /\ 0 \in 0 .. FRACT_MAX - 1 /\ 0 \in 0 .. TimerMod - 1
    BY <1>1 DEF Word
  <2>5. QED
    BY <2>1, <2>2, <2>3, <2>4 DEF TypeOK
<1>4. CounterIsTime
  BY <1>1, <1>2 DEF Init, CounterIsTime
<1>5. Served = 0
  <2>1. now \div TimerMod = 0 /\ TOV0 = FALSE
    BY <1>1, <1>2 DEF Init
  <2>2. Served = 0 % Round
    BY <1>1, <2>1 DEF Served
  <2>3. QED
    BY <1>1, <1>2, <2>2
<1>6. CountIsServed
  BY <1>1, <1>2, <1>5 DEF Init, CountIsServed
<1>7. MillisIsTime
  <2>1. WordMod * UsPerMs \in Nat \ {0} /\ Served * MicrosPerOverflow = 0
    BY <1>1, <1>5
  <2>2. timer0_millis * UsPerMs + timer0_fract * FractUnit = 0
    BY <1>1 DEF Init
  <2> HIDE DEF Served
  <2>3. QED
    BY <1>2, <2>1, <2>2 DEF MillisIsTime
<1>8. QED
  BY <1>3, <1>4, <1>6, <1>7
     DEF Init, Inv, Uninterrupted, HalfRead, CountRead, CounterRead

LEMMA TickInv ==
    ASSUME Inv, Tick
    PROVE  Inv'
<1>1. TypeOK /\ CounterIsTime /\ CountIsServed /\ MillisIsTime
  BY DEF Inv
<1>2. /\ TCNT0' \in 0 .. TimerMod - 1 /\ now' \in 0 .. Cycle - 1 /\ TOV0' \in BOOLEAN
      /\ CounterIsTime' /\ Served' = Served
  BY <1>1, TickServed
<1>3. /\ UNCHANGED <<timer0_overflow_count, timer0_millis, timer0_fract, interrupts, pc>>
      /\ UNCHANGED <<caller, m, t, sampled>>
      /\ TCNT0' = (TCNT0 + 1) % TimerMod
      /\ TOV0' = (TOV0 \/ TCNT0 = TimerMod - 1)
      /\ lag' = IF pc = "idle" THEN 0 ELSE lag + 1
  BY DEF Tick, time, locals
<1>4. pc = "idle" \/ lag < IF interrupts THEN MaxLag ELSE 1
  BY DEF Tick, MayTick
<1>5. TimerMod \in Nat \ {0, 1}
  BY Constants
<1>6. lag \in Nat /\ lag' \in Nat
  BY <1>1, <1>3 DEF TypeOK
<1>7. TypeOK'
  BY <1>1, <1>2, <1>3, <1>6 DEF TypeOK
<1>8. CountIsServed' /\ MillisIsTime'
  <2>1. CountIsServed'
    BY <1>1, <1>2, <1>3 DEF CountIsServed
  <2>2. MillisIsTime'
    BY <1>1, <1>2, <1>3 DEF MillisIsTime
  <2>3. QED
    BY <2>1, <2>2
<1>9. pc \in {"millis", "count", "flag"} => lag = 0 /\ lag' = 1
  <2> SUFFICES ASSUME pc \in {"millis", "count", "flag"} PROVE lag = 0 /\ lag' = 1
    OBVIOUS
  <2>1. ~interrupts /\ pc # "idle"
    BY DEF Inv, Uninterrupted
  <2>2. lag < 1
    BY <1>4, <2>1
  <2>3. QED
    BY <1>3, <1>6, <2>1, <2>2
<1>10. Uninterrupted'
  <2>1. interrupts' <=> pc' \notin {"millis", "count", "flag"}
    BY <1>3 DEF Inv, Uninterrupted
  <2>2. ~interrupts' => pc \in {"millis", "count", "flag"}
    BY <1>1, <1>3 DEF Inv, Uninterrupted
  <2>3. ~interrupts' => lag' <= 1
    BY <1>9, <2>2
  <2>4. QED
    BY <2>1, <2>3 DEF Uninterrupted
<1>11. HalfRead'
  BY <1>3 DEF Inv, HalfRead, Low
<1>12. CountRead'
  <2> SUFFICES ASSUME pc = "count"
               PROVE  m' = timer0_overflow_count' /\ (TOV0' => TCNT0' = 0 /\ lag' = 1)
    BY <1>3 DEF CountRead
  <2>1. lag = 0 /\ lag' = 1
    BY <1>9
  <2>2. m = timer0_overflow_count /\ (TOV0 => lag = 1)
    BY DEF Inv, CountRead
  <2>3. ~TOV0
    BY <2>1, <2>2
  <2>4. TOV0' => TCNT0' = 0
    <3> SUFFICES ASSUME TOV0' PROVE TCNT0' = 0
      OBVIOUS
    <3>1. TCNT0 = TimerMod - 1
      BY <1>3, <2>3
    <3>2. TCNT0 + 1 = 1 * TimerMod + 0 /\ 0 \in 0 .. TimerMod - 1
      BY <1>5, <3>1
    <3>3. QED
      BY <1>3, <1>5, <3>2, DivModUnique
  <2>5. QED
    BY <1>3, <2>1, <2>2, <2>4
<1>13. CounterRead'
  <2> SUFFICES ASSUME pc = "flag"
               PROVE  /\ t = sampled % TimerMod /\ lag' # 0
                      /\ (m + IF OverflowMissed' THEN 1 ELSE 0) % WordMod
                             = (sampled \div TimerMod) % WordMod
    BY <1>3 DEF CounterRead
  <2>1. lag = 0 /\ lag' = 1
    BY <1>9
  <2>2. /\ t = sampled % TimerMod /\ TCNT0 = t
        /\ (m + IF OverflowMissed THEN 1 ELSE 0) % WordMod = (sampled \div TimerMod) % WordMod
    BY <2>1 DEF Inv, CounterRead
  <2>3. OverflowMissed' <=> OverflowMissed
    <3>1. t' = t /\ (t < TimerMod - 1 => TCNT0 # TimerMod - 1)
      BY <1>3, <1>5, <2>2
    <3>2. t < TimerMod - 1 => (TOV0' <=> TOV0)
      BY <1>3, <3>1
    <3>3. QED
      BY <3>1, <3>2 DEF OverflowMissed
  <2>4. QED
    BY <2>1, <2>2, <2>3
<1>14. QED
  BY <1>2, <1>7, <1>8, <1>10, <1>11, <1>12, <1>13 DEF Inv

LEMMA OverflowInv ==
    ASSUME Inv, TIMER0_OVF
    PROVE  Inv'
<1>1. TypeOK /\ CounterIsTime /\ CountIsServed /\ MillisIsTime
  BY DEF Inv
<1>2. /\ UNCHANGED <<TCNT0, now, interrupts, pc, caller, m, t, sampled, lag>>
      /\ TOV0' = FALSE /\ interrupts
      /\ timer0_overflow_count' = (timer0_overflow_count + 1) % WordMod
  BY DEF TIMER0_OVF, locals
<1>3. timer0_millis' \in Word /\ timer0_fract' \in 0 .. FRACT_MAX - 1
  BY <1>1, OverflowAdds
<1>4. /\ WordMod \in Nat \ {0} /\ FRACT_MAX \in Nat \ {0} /\ Round \in Nat \ {0}
  BY Constants
<1>5. TypeOK'
  <2>1. timer0_overflow_count + 1 \in Int
    BY <1>1, <1>4 DEF TypeOK, Word
  <2>2. timer0_overflow_count' \in Word
    BY <1>2, <1>4, <2>1, DivMod DEF Word
  <2>3. QED
    BY <1>1, <1>2, <1>3, <2>2 DEF TypeOK
<1>6. CountIsServed'
  <2> DEFINE a == Served + 1
             c == timer0_overflow_count
             s == Served
  <2>1. Served' = a % Round
    BY <1>1, OverflowServed
  <2>2. s \in 0 .. Round - 1
    BY <1>1, OverflowsType
  <2>3. a \in Int
    BY <1>4, <2>2
  <2>4. (a % (WordMod * FRACT_MAX)) % WordMod = a % WordMod
    <3> HIDE DEF a
    <3>1. QED
      BY <1>4, <2>3, ModMultiple
  <2>5. c = s % WordMod
    BY <1>1 DEF CountIsServed
  <2>6. s \in Int /\ 1 \in Int
    BY <1>4, <2>2
  <2> HIDE DEF c, s
  <2>7. (c + 1) % WordMod = (s + 1) % WordMod
    BY <1>4, <2>5, <2>6, ModAdd
  <2>8. QED
    BY <1>2, <2>1, <2>4, <2>7 DEF CountIsServed, Round, s, c
<1>7. CounterIsTime'
  BY <1>1, <1>2 DEF CounterIsTime
<1>8. MillisIsTime'
  BY <1>1, TimeFollows
<1>9. pc' \notin {"millis", "count", "flag"}
  BY <1>2 DEF Inv, Uninterrupted
<1>10. QED
  BY <1>2, <1>5, <1>6, <1>7, <1>8, <1>9
     DEF Inv, Uninterrupted, HalfRead, CountRead, CounterRead

\* A step of the program leaves the clock alone, and starts anew the time within
\* which it must take the next one.
LEMMA ProgramFrame ==
    ASSUME Inv, NEW place, Runs(place)
    PROVE  /\ pc = place /\ lag' = 0 /\ (interrupts => ~TOV0)
           /\ TCNT0' = TCNT0 /\ TOV0' = TOV0 /\ now' = now
           /\ timer0_overflow_count' = timer0_overflow_count
           /\ timer0_millis' = timer0_millis /\ timer0_fract' = timer0_fract
           /\ CounterIsTime' /\ CountIsServed' /\ MillisIsTime'
<1>1. /\ pc = place /\ lag' = 0 /\ (interrupts => ~TOV0)
      /\ TCNT0' = TCNT0 /\ TOV0' = TOV0 /\ now' = now
      /\ timer0_overflow_count' = timer0_overflow_count
      /\ timer0_millis' = timer0_millis /\ timer0_fract' = timer0_fract
  BY DEF Runs, clock, time
<1>2. Served' = Served
  BY <1>1 DEF Served
<1>3. CounterIsTime'
  BY <1>1 DEF Inv, CounterIsTime
<1>4. CountIsServed'
  BY <1>1, <1>2 DEF Inv, CountIsServed
<1>5. MillisIsTime'
  BY <1>1, <1>2 DEF Inv, MillisIsTime
<1>6. QED
  BY <1>1, <1>3, <1>4, <1>5

LEMMA MillisInv ==
    ASSUME Inv, millis
    PROVE  Inv'
<1>1. Runs("idle")
  BY DEF millis
<1>2. /\ lag' = 0 /\ TCNT0' = TCNT0 /\ TOV0' = TOV0 /\ now' = now
      /\ timer0_overflow_count' = timer0_overflow_count
      /\ timer0_millis' = timer0_millis /\ timer0_fract' = timer0_fract
      /\ CounterIsTime' /\ CountIsServed' /\ MillisIsTime'
  BY <1>1, ProgramFrame
<1>3. /\ interrupts' = FALSE /\ m' = Low(timer0_millis) /\ pc' = "millis"
      /\ caller' = caller /\ t' = t /\ sampled' = sampled
  BY DEF millis, cli
<1>4. m' \in Nat
  <2>1. timer0_millis \in Int /\ LowMod \in Nat \ {0}
    BY Constants, Timer0Assumption DEF Inv, TypeOK, Word
  <2>2. timer0_millis % LowMod \in 0 .. LowMod - 1
    BY <2>1, DivMod
  <2>3. QED
    BY <1>3, <2>1, <2>2 DEF Low
<1>5. TypeOK'
  BY <1>2, <1>3, <1>4 DEF Inv, TypeOK
<1>6. HalfRead'
  BY <1>2, <1>3 DEF HalfRead, Low
<1>7. QED
  BY <1>2, <1>3, <1>5, <1>6 DEF Inv, Uninterrupted, CountRead, CounterRead

LEMMA MillisReturnsInv ==
    ASSUME Inv, MillisReturns
    PROVE  Inv'
<1>1. Runs("millis")
  BY DEF MillisReturns
<1>2. /\ lag' = 0 /\ TCNT0' = TCNT0 /\ TOV0' = TOV0 /\ now' = now
      /\ timer0_overflow_count' = timer0_overflow_count
      /\ timer0_millis' = timer0_millis /\ timer0_fract' = timer0_fract
      /\ CounterIsTime' /\ CountIsServed' /\ MillisIsTime'
  BY <1>1, ProgramFrame
<1>3. /\ interrupts' = TRUE /\ m' = 0 /\ pc' = "idle"
      /\ caller' = caller /\ t' = t /\ sampled' = sampled
  BY DEF MillisReturns
<1>4. TypeOK'
  BY <1>2, <1>3 DEF Inv, TypeOK
<1>5. QED
  BY <1>2, <1>3, <1>4 DEF Inv, Uninterrupted, HalfRead, CountRead, CounterRead

LEMMA MicrosInv ==
    ASSUME Inv, micros
    PROVE  Inv'
<1>1. Runs("micros")
  BY DEF micros
<1>2. /\ lag' = 0 /\ TCNT0' = TCNT0 /\ TOV0' = TOV0 /\ now' = now
      /\ timer0_overflow_count' = timer0_overflow_count
      /\ timer0_millis' = timer0_millis /\ timer0_fract' = timer0_fract
      /\ CounterIsTime' /\ CountIsServed' /\ MillisIsTime'
      /\ pc = "micros" /\ (interrupts => ~TOV0)
  BY <1>1, ProgramFrame
<1>3. /\ interrupts' = FALSE /\ m' = timer0_overflow_count /\ pc' = "count"
      /\ caller' = caller /\ t' = t /\ sampled' = sampled
  BY DEF micros, cli
<1>4. ~TOV0
  BY <1>2 DEF Inv, Uninterrupted
<1>5. TypeOK'
  <2>1. m' \in Nat
    BY <1>3, Constants DEF Inv, TypeOK, Word
  <2>2. QED
    BY <1>2, <1>3, <2>1 DEF Inv, TypeOK
<1>6. CountRead'
  BY <1>2, <1>3, <1>4 DEF CountRead
<1>7. QED
  BY <1>2, <1>3, <1>5, <1>6 DEF Inv, Uninterrupted, HalfRead, CounterRead

LEMMA ReadTCNT0Inv ==
    ASSUME Inv, ReadTCNT0
    PROVE  Inv'
<1>1. Runs("count")
  BY DEF ReadTCNT0
<1>2. /\ lag' = 0 /\ TCNT0' = TCNT0 /\ TOV0' = TOV0 /\ now' = now
      /\ timer0_overflow_count' = timer0_overflow_count
      /\ timer0_millis' = timer0_millis /\ timer0_fract' = timer0_fract
      /\ CounterIsTime' /\ CountIsServed' /\ MillisIsTime'
      /\ pc = "count"
  BY <1>1, ProgramFrame
<1>3. /\ interrupts' = interrupts /\ m' = m /\ pc' = "flag"
      /\ caller' = caller /\ t' = TCNT0 /\ sampled' = now
  BY DEF ReadTCNT0
<1>4. TypeOK /\ CounterIsTime /\ CountIsServed
  BY DEF Inv
<1>5. TypeOK'
  BY <1>2, <1>3, <1>4 DEF TypeOK
<1>6. m = timer0_overflow_count /\ (TOV0 => TCNT0 = 0) /\ interrupts = FALSE
  BY <1>2, <1>4 DEF Inv, CountRead, Uninterrupted, TypeOK
<1>7. OverflowMissed' <=> TOV0
  <2>1. TimerMod \in Nat \ {0, 1}
    BY Constants
  <2>2. TOV0 => TCNT0 < TimerMod - 1
    BY <1>6, <2>1
  <2>3. QED
    BY <1>2, <1>3, <2>2 DEF OverflowMissed
<1>8. (m + Pending) % WordMod = Overflows % WordMod
  <2> DEFINE a == Overflows - Pending
             b == Pending
             q == Overflows
  <2>1. m = a % WordMod
    BY <1>4, <1>6, CountIsOverflows
  <2>2. q \in 0 .. Round - 1 /\ b \in {0, 1}
    BY <1>4, OverflowsType
  <2>3. WordMod \in Nat \ {0} /\ Round \in Nat \ {0}
    BY Constants
  <2>4. a = q - b
    OBVIOUS
  <2> HIDE DEF a, b, q
  <2>5. a \in Int /\ b \in Int /\ a + b = q
    BY <2>2, <2>3, <2>4
  <2>6. ((a % WordMod) + b) % WordMod = (a + b) % WordMod
    BY <2>3, <2>5, ModAdd
  <2>7. QED
    BY <2>1, <2>5, <2>6 DEF b, q
<1>9. CounterRead'
  <2>1. t' = sampled' % TimerMod
    BY <1>3, <1>4 DEF CounterIsTime
  <2>2. (m' + IF OverflowMissed' THEN 1 ELSE 0) % WordMod = (sampled' \div TimerMod) % WordMod
    BY <1>3, <1>7, <1>8 DEF Pending, Overflows
  <2>3. QED
    BY <1>2, <1>3, <2>1, <2>2 DEF CounterRead
<1>10. QED
  BY <1>2, <1>3, <1>5, <1>6, <1>9 DEF Inv, Uninterrupted, HalfRead, CountRead

LEMMA MicrosReturnsInv ==
    ASSUME Inv, MicrosReturns
    PROVE  Inv'
<1>1. Runs("flag")
  BY DEF MicrosReturns
<1>2. /\ lag' = 0 /\ TCNT0' = TCNT0 /\ TOV0' = TOV0 /\ now' = now
      /\ timer0_overflow_count' = timer0_overflow_count
      /\ timer0_millis' = timer0_millis /\ timer0_fract' = timer0_fract
      /\ CounterIsTime' /\ CountIsServed' /\ MillisIsTime'
  BY <1>1, ProgramFrame
<1>3. /\ interrupts' = TRUE /\ m' = 0 /\ t' = 0 /\ sampled' = 0
      /\ pc' = IF caller = "program" THEN "idle" ELSE caller
      /\ caller' = caller
  BY DEF MicrosReturns
<1>4. pc' \in {"idle", "start", "wait"}
  BY <1>3 DEF Inv, TypeOK
<1>5. 0 \in 0 .. TimerMod - 1 /\ 0 \in 0 .. Cycle - 1
  BY Constants
<1>6. TypeOK'
  <2>1. m' \in Nat /\ t' \in 0 .. TimerMod - 1 /\ sampled' \in 0 .. Cycle - 1
    BY <1>3, <1>5
  <2>2. QED
    BY <1>2, <1>3, <1>4, <2>1 DEF Inv, TypeOK
<1>7. QED
  BY <1>2, <1>3, <1>4, <1>6 DEF Inv, Uninterrupted, HalfRead, CountRead, CounterRead

\* The calls of delay() and micros() that read no register.
LEMMA CallsInv ==
    ASSUME Inv, NEW place \in {"idle", "start", "wait"}, Runs(place),
           pc' \in {"idle", "micros"}, caller' \in {"program", "start", "wait"},
           UNCHANGED <<interrupts, m, t, sampled>>
    PROVE  Inv'
<1>1. /\ lag' = 0 /\ TCNT0' = TCNT0 /\ TOV0' = TOV0 /\ now' = now
      /\ timer0_overflow_count' = timer0_overflow_count
      /\ timer0_millis' = timer0_millis /\ timer0_fract' = timer0_fract
      /\ CounterIsTime' /\ CountIsServed' /\ MillisIsTime'
      /\ pc = place
  BY ProgramFrame
<1>2. TypeOK'
  BY <1>1 DEF Inv, TypeOK
<1>3. interrupts
  BY <1>1 DEF Inv, Uninterrupted
<1>4. QED
  BY <1>1, <1>2, <1>3 DEF Inv, Uninterrupted, HalfRead, CountRead, CounterRead

LEMMA StutterInv ==
    ASSUME Inv, UNCHANGED vars
    PROVE  Inv'
<1>1. UNCHANGED <<TCNT0, TOV0, now, timer0_overflow_count, timer0_millis, timer0_fract,
                  interrupts, pc, caller, m, t, sampled, lag>>
  BY DEF vars, clock, time, locals
<1>2. Served' = Served
  BY <1>1 DEF Served
<1>3. QED
  BY <1>1, <1>2 DEF Inv, TypeOK, CounterIsTime, CountIsServed, MillisIsTime, Uninterrupted,
                    HalfRead, CountRead, CounterRead, OverflowMissed, Low

LEMMA NextInv == Inv /\ [Next]_vars => Inv'
<1> SUFFICES ASSUME Inv, [Next]_vars PROVE Inv'
  OBVIOUS
<1>1. CASE Tick
  BY <1>1, TickInv
<1>2. CASE TIMER0_OVF
  BY <1>2, OverflowInv
<1>3. CASE millis
  BY <1>3, MillisInv
<1>4. CASE ProgramMicros
  BY <1>4, CallsInv DEF ProgramMicros, CallMicros
<1>5. ASSUME NEW time_ms \in 0 .. MaxDelay, delay(time_ms) PROVE Inv'
  BY <1>5, CallsInv DEF delay, CallMicros
<1>6. CASE MillisReturns
  BY <1>6, MillisReturnsInv
<1>7. CASE micros
  BY <1>7, MicrosInv
<1>8. CASE ReadTCNT0
  BY <1>8, ReadTCNT0Inv
<1>9. CASE MicrosReturns
  BY <1>9, MicrosReturnsInv
<1>10. CASE DelayStarts
  BY <1>10, CallsInv DEF DelayStarts, Wait, CallMicros
<1>11. CASE DelayWaits
  BY <1>11, CallsInv DEF DelayWaits, Wait, CallMicros
<1>12. CASE UNCHANGED vars
  BY <1>12, StutterInv
<1>13. QED
  BY <1>1, <1>2, <1>3, <1>4, <1>5, <1>6, <1>7, <1>8, <1>9, <1>10, <1>11, <1>12
     DEF Next, Return

\* The clock's invariant: the registers, the variables of the interrupt and the
\* half of a reading that is under way are of one time, whenever the timer
\* overflows (wiring.c).
THEOREM Invariance == Spec => []Inv
<1>1. Init => Inv
  BY InitInv
<1>2. Inv /\ [Next]_vars => Inv'
  BY NextInv
<1>3. QED
  BY <1>1, <1>2, PTL DEF Spec

\* timer0_millis and timer0_fract are the time of all overflows that the
\* interrupt has served: the increments of TIMER0_OVF lose nothing to rounding,
\* nor when the words wrap around.
THEOREM MillisExact == Spec => []MillisIsTime
<1>1. Inv => MillisIsTime
  BY DEF Inv
<1>2. QED
  BY <1>1, Invariance, PTL

-----------------------------------------------------------------------------
(* What millis() and micros() return *)

\* The words of a sum of products may wrap around at every step.
LEMMA MicrosResult ==
    ASSUME Inv, MicrosReturns
    PROVE  result' = (sampled * UsPerTick) % WordMod
<1> DEFINE W == WordMod
           T == TimerMod
           q == sampled \div T
           m1 == (m + IF OverflowMissed THEN 1 ELSE 0) % W
           a == m1 * T
           b == q * T
           c == a + t
<1>1. W \in Nat \ {0} /\ T \in Nat \ {0, 1} /\ UsPerTick \in Nat \ {0} /\ Cycle \in Nat
  BY Constants
<1>2. result' = ((c % W) * UsPerTick) % W
  BY DEF MicrosReturns
<1>3. pc = "flag" /\ lag' = 0
  BY DEF MicrosReturns, Runs
<1>4. t = sampled % T /\ m1 = q % W
  BY <1>3 DEF Inv, CounterRead
<1>5. sampled \in Int /\ t \in Int
  BY <1>1 DEF Inv, TypeOK
<1>6. q \in Int /\ sampled = q * T + t
  BY <1>1, <1>4, <1>5, DivMod
<1> HIDE DEF q, m1, W, T
<1>7. m1 \in Int /\ a \in Int /\ b \in Int /\ c \in Int /\ sampled = b + t
  <2>1. m1 \in Int
    BY <1>1, <1>4, <1>6, DivMod
  <2>2. QED
    BY <1>1, <1>5, <1>6, <2>1
<1>8. a % W = b % W
  <2>1. T \in Int
    BY <1>1
  <2>2. ((q % W) * T) % W = (q * T) % W
    BY <1>1, <1>6, <2>1, ModTimes
  <2>3. QED
    BY <1>4, <2>2
<1> HIDE DEF a, b
<1>9. c % W = sampled % W
  <2>1. ((a % W) + t) % W = (a + t) % W /\ ((b % W) + t) % W = (b + t) % W
    BY <1>1, <1>5, <1>7, ModAdd
  <2>2. QED
    BY <1>7, <1>8, <2>1
<1> HIDE DEF c
<1>10. ((sampled % W) * UsPerTick) % W = (sampled * UsPerTick) % W
  <2>1. UsPerTick \in Int
    BY <1>1
  <2>2. QED
    BY <1>1, <1>5, <2>1, ModTimes
<1>11. QED
  BY <1>2, <1>9, <1>10 DEF W

\* The two halves are of one word, and its milliseconds are what is whole of the
\* time of the overflows.
LEMMA MillisResult ==
    ASSUME Inv, MillisReturns
    PROVE  result' = ((Served * MicrosPerOverflow) \div UsPerMs) % WordMod
<1> DEFINE W == WordMod
           U == UsPerMs
           x == timer0_millis
           g == timer0_fract * FractUnit
           z == Served * MicrosPerOverflow
           k == z \div (W * U)
<1>1. /\ W \in Nat \ {0} /\ U \in Nat \ {0} /\ FractUnit \in Nat \ {0}
      /\ FRACT_MAX \in Nat \ {0} /\ U = FRACT_MAX * FractUnit
      /\ MicrosPerOverflow \in Nat /\ Round \in Nat \ {0}
  BY Constants
<1>2. x \in 0 .. W - 1 /\ timer0_fract \in 0 .. FRACT_MAX - 1
  BY DEF Inv, TypeOK, Word
<1>3. result' = x
  <2>1. pc = "millis"
    BY DEF MillisReturns, Runs
  <2>2. m = x % LowMod /\ result' = (x - (x % LowMod)) + m
    BY <2>1 DEF Inv, HalfRead, MillisReturns, Low, High
  <2>3. x % LowMod \in Int
    <3>1. LowMod \in Nat \ {0} /\ x \in Int
      BY <1>1, <1>2, Timer0Assumption
    <3>2. QED
      BY <3>1, DivMod
  <2>4. QED
    BY <1>1, <1>2, <2>2, <2>3
<1>4. g \in 0 .. U - 1
  <2> DEFINE y == timer0_fract
  <2>1. y \in 0 .. FRACT_MAX - 1
    BY <1>2
  <2> HIDE DEF y
  <2>2. y * FractUnit \in Nat /\ y * FractUnit + FractUnit <= FRACT_MAX * FractUnit
    BY <1>1, <2>1
  <2> HIDE DEF U
  <2>3. y * FractUnit \in 0 .. U - 1
    BY <1>1, <2>2
  <2>4. QED
    BY <2>3 DEF y
<1>5. z \in Int
  <2>1. Served \in 0 .. Round - 1
    BY OverflowsType DEF Inv
  <2>2. QED
    BY <1>1, <2>1
<1>6. x * U + g = z % (W * U)
  BY DEF Inv, MillisIsTime
<1> HIDE DEF U, x, g, z, W
<1>7. k \in Int /\ z = k * (W * U) + (x * U + g)
  <2>1. W * U \in Nat \ {0}
    BY <1>1
  <2>2. QED
    BY <1>5, <1>6, <2>1, DivMod
<1> HIDE DEF k
<1>8. z = (k * W + x) * U + g /\ k * W + x \in Int
  BY <1>1, <1>2, <1>4, <1>7
<1>9. z \div U = k * W + x
  BY <1>1, <1>4, <1>8, DivModUnique
<1>10. (k * W + x) % W = x
  BY <1>1, <1>2, <1>7, DivModUnique
<1>11. QED
  BY <1>3, <1>9, <1>10 DEF x, z, U, W

\* micros() returns the time at which it read the counter, whenever the timer
\* overflows in the call, and millis() the time that the interrupt keeps, never
\* the halves of two times (wiring.c).
THEOREM ReadingsExact == Spec => ReadingsAreExact
<1>1. Inv /\ [Next]_vars =>
         [/\ (pc = "flag" /\ pc' # "flag") => result' = (sampled * UsPerTick) % WordMod
          /\ (pc = "millis" /\ pc' = "idle") =>
                result' = ((Served * MicrosPerOverflow) \div UsPerMs) % WordMod]_vars
  <2> SUFFICES ASSUME Inv, Next
               PROVE  /\ (pc = "flag" /\ pc' # "flag") =>
                            result' = (sampled * UsPerTick) % WordMod
                      /\ (pc = "millis" /\ pc' = "idle") =>
                            result' = ((Served * MicrosPerOverflow) \div UsPerMs) % WordMod
    OBVIOUS
  <2>1. MicrosReturns => result' = (sampled * UsPerTick) % WordMod /\ pc # "millis"
    BY MicrosResult DEF MicrosReturns, Runs
  <2>2. MillisReturns =>
            result' = ((Served * MicrosPerOverflow) \div UsPerMs) % WordMod /\ pc # "flag"
    BY MillisResult DEF MillisReturns, Runs
  <2>3. Tick \/ TIMER0_OVF => pc' = pc
    BY DEF Tick, TIMER0_OVF
  <2>4. millis \/ ProgramMicros \/ micros \/ ReadTCNT0 => pc \in {"idle", "micros", "count"}
    BY DEF millis, ProgramMicros, micros, ReadTCNT0, Runs
  <2>5. DelayStarts \/ DelayWaits \/ (\E time_ms \in 0 .. MaxDelay : delay(time_ms))
            => pc \in {"idle", "start", "wait"}
    BY DEF DelayStarts, DelayWaits, delay, Runs
  <2>6. QED
    BY <2>1, <2>2, <2>3, <2>4, <2>5 DEF Next, Return
<1>2. QED
  BY <1>1, Invariance, PTL DEF Spec, ReadingsAreExact

-----------------------------------------------------------------------------
(* delay() *)

Same(x, y) == x % WordMod = y % WordMod

\* In microseconds: the time that delay() began at, what it has counted so far,
\* and what has passed at least.
Began   == (now - since) * UsPerTick
Waited  == (asked - ms) * UsPerMs
Passed  == since * UsPerTick
LongAgo == since = MaxSince

DelayType ==
    /\ ms \in Nat /\ asked \in 0 .. MaxDelay /\ ms <= asked
    /\ start \in Word /\ since \in 0 .. MaxSince
    /\ pc \in {"idle", "millis"} => caller = "program"
    /\ pc \in {"start", "wait"} => caller = pc

FirstReading ==
    caller = "start" =>
        /\ ms = asked
        /\ pc = "flag" => LongAgo \/ (since = lag /\ now = (sampled + lag) % Cycle)
        /\ pc = "start" => result \in Word /\ (LongAgo \/ Same(result, Began))

LaterReadings ==
    caller = "wait" =>
        /\ ms > 0 /\ Waited <= Passed
        /\ LongAgo \/ Same(start, Began + Waited)
        /\ pc = "flag" =>
              \/ LongAgo
              \/ Waited <= (since - lag) * UsPerTick /\ now = (sampled + lag) % Cycle
        /\ pc = "wait" =>
              /\ result \in Word
              /\ LongAgo \/ \E e \in Waited .. Passed : Same(result, Began + e)

DelayInv == DelayType /\ FirstReading /\ LaterReadings

LEMMA SameAdd ==
    ASSUME NEW a \in Int, NEW b \in Int, NEW c \in Int, Same(a, b)
    PROVE  Same(a + c, b + c)
<1>1. WordMod \in Nat \ {0}
  BY Constants
<1>2. ((a % WordMod) + c) % WordMod = (a + c) % WordMod
  BY <1>1, ModAdd
<1>3. ((b % WordMod) + c) % WordMod = (b + c) % WordMod
  BY <1>1, ModAdd
<1>4. QED
  BY <1>2, <1>3 DEF Same

\* The same time of the clock is the same number of microseconds.
LEMMA TimeWraps ==
    ASSUME NEW a \in Int, NEW b \in Int, a % Cycle = b % Cycle
    PROVE  Same(a * UsPerTick, b * UsPerTick)
<1> DEFINE C == Cycle
           W == WordMod
           u == UsPerTick
           j == FRACT_MAX * TimerMod
           p == a \div C
           q == b \div C
           r == a % C
           k == (p - q) * (j * u)
<1>1. /\ C \in Nat \ {0} /\ W \in Nat \ {0} /\ u \in Nat /\ j \in Nat
      /\ C = (W * FRACT_MAX) * TimerMod /\ FRACT_MAX \in Nat /\ TimerMod \in Nat
  BY Constants DEF Round
<1>2. C = W * j
  BY <1>1
<1> HIDE DEF C, W, j
<1>3. p \in Int /\ r \in Int /\ a = p * C + r
  <2>1. a % C \in 0 .. C - 1 /\ a \div C \in Int /\ a = (a \div C) * C + (a % C)
    BY <1>1, DivMod
  <2>2. QED
    BY <1>1, <2>1
<1>4. q \in Int /\ b = q * C + r
  <2>1. b % C = r
    BY DEF C
  <2> HIDE DEF r
  <2>2. QED
    BY <1>1, <2>1, DivMod
<1> HIDE DEF p, q, r, u
<1>5. a * u = b * u + k * W
  <2>1. a = b + (p - q) * C
    BY <1>1, <1>3, <1>4
  <2>2. a * u = b * u + ((p - q) * C) * u
    BY <1>1, <1>3, <1>4, <2>1
  <2>3. ((p - q) * C) * u = k * W
    BY <1>1, <1>2, <1>3, <1>4
  <2>4. QED
    BY <2>2, <2>3
<1>6. a * u \in Int /\ b * u \in Int /\ k \in Int
  BY <1>1, <1>3, <1>4
<1> HIDE DEF k
<1>7. (a * u) % W = (b * u) % W
  <2> DEFINE x == a * u
             y == b * u
  <2>1. x = y + k * W /\ x \in Int /\ y \in Int
    BY <1>5, <1>6
  <2> HIDE DEF x, y
  <2>2. x % W = y % W
    BY <1>1, <1>6, <2>1, ModEqual
  <2>3. QED
    BY <2>2 DEF x, y
<1>8. QED
  BY <1>7 DEF Same, W, u

LEMMA DelayConstants ==
    /\ UsPerTick \in Nat \ {0} /\ UsPerMs \in Nat \ {0} /\ Cycle \in Nat \ {0}
    /\ WordMod \in Nat \ {0} /\ MaxDelay \in Nat /\ MaxSince \in Nat
    /\ MaxSince = MaxDelay * UsPerMs
BY Constants, Timer0Assumption DEF MaxSince

\* Where the count of the ticks ends, any delay that is asked for is over.
LEMMA LongEnough ==
    ASSUME LongAgo, NEW a \in 0 .. MaxDelay
    PROVE  a * UsPerMs <= Passed
<1>1. a * UsPerMs <= MaxDelay * UsPerMs
  BY DelayConstants
<1>2. MaxSince <= MaxSince * UsPerTick
  BY DelayConstants
<1>3. a * UsPerMs \in Int /\ MaxSince * UsPerTick \in Int
  BY DelayConstants
<1>4. QED
  BY <1>1, <1>2, <1>3, DelayConstants DEF LongAgo, Passed

\* The types of the arithmetic below.
LEMMA DelayNumbers ==
    ASSUME Inv, DelayType
    PROVE  /\ now \in Int /\ since \in Nat /\ lag \in Nat /\ sampled \in Int
           /\ Began \in Int /\ Waited \in Int /\ Passed \in Nat /\ start \in Nat
           /\ ms \in Nat /\ asked \in Nat
<1>1. now \in Int /\ since \in Nat /\ lag \in Nat /\ sampled \in Int /\ ms \in Nat
  BY DelayConstants DEF Inv, TypeOK, DelayType
<1>2. asked \in Nat /\ start \in Nat
  BY DelayConstants DEF DelayType, Word
<1>3. Began \in Int
  BY <1>1, DelayConstants DEF Began
<1>4. Waited \in Int
  BY <1>1, <1>2, DelayConstants DEF Waited
<1>5. Passed \in Nat
  BY <1>1, DelayConstants DEF Passed
<1>6. QED
  BY <1>1, <1>2, <1>3, <1>4, <1>5

LEMMA DelayInit == Init => DelayInv
<1>1. 0 \in Word /\ 0 \in 0 .. MaxSince /\ 0 \in 0 .. MaxDelay
  BY DelayConstants DEF Word
<1>2. QED
  BY <1>1 DEF Init, DelayInv, DelayType, FirstReading, LaterReadings

\* As long as delay() waits, a tick adds to both times.
LEMMA DelayTick ==
    ASSUME Inv, DelayInv, Tick
    PROVE  DelayInv'
<1>1. /\ UNCHANGED <<pc, caller, ms, asked, start, result, sampled>>
      /\ now' = (now + 1) % Cycle
      /\ since' = IF caller # "program" /\ since < MaxSince THEN since + 1 ELSE since
      /\ lag' = IF pc = "idle" THEN 0 ELSE lag + 1
  BY DEF Tick, locals
<1>2. /\ now \in Int /\ since \in Nat /\ lag \in Nat /\ sampled \in Int
      /\ Began \in Int /\ Waited \in Int /\ Passed \in Nat
  BY DelayNumbers DEF DelayInv
<1>3. since \in 0 .. MaxSince
  BY DEF DelayInv, DelayType
<1>4. since' \in 0 .. MaxSince /\ since <= since'
  BY <1>1, <1>3, DelayConstants
<1>5. DelayType'
  BY <1>1, <1>4 DEF DelayInv, DelayType
<1>6. Waited' = Waited
  BY <1>1 DEF Waited
<1>7. Passed' \in Nat /\ Passed <= Passed'
  <2> DEFINE s == since
             z == since'
             u == UsPerTick
  <2>1. s \in Nat /\ z \in Nat /\ s <= z /\ u \in Nat
    BY <1>2, <1>3, <1>4, DelayConstants
  <2> HIDE DEF s, z, u
  <2>2. z * u \in Nat /\ s * u <= z * u
    BY <2>1
  <2>3. QED
    BY <2>2 DEF Passed, s, z, u
<1>8. ASSUME caller # "program", ~LongAgo'
      PROVE  ~LongAgo /\ since' = since + 1
  <2>1. ~(since = MaxSince)
    BY <1>1, <1>8, DelayConstants DEF LongAgo
  <2>2. since < MaxSince
    BY <1>3, <2>1, DelayConstants
  <2>3. QED
    BY <1>1, <1>8, <2>1, <2>2 DEF LongAgo
<1>9. ASSUME caller # "program", ~LongAgo'
      PROVE  Same(Began', Began) /\ Began' \in Int
  <2>1. since' = since + 1
    BY <1>8, <1>9
  <2> DEFINE a == now + 1
             b == -(since + 1)
             x == now' - since'
             y == now - since
  <2>2. a \in Int /\ b \in Int /\ a + b = y /\ x \in Int /\ y \in Int /\ x = (a % Cycle) + b
    <3>1. (now + 1) % Cycle \in Int
      <4>1. now + 1 \in Int
        BY <1>2
      <4>2. QED
        BY <4>1, DelayConstants, DivMod
    <3>2. QED
      BY <1>1, <1>2, <2>1, <3>1
  <2> HIDE DEF a, b, x, y
  <2>3. x % Cycle = y % Cycle
    <3>1. ((a % Cycle) + b) % Cycle = (a + b) % Cycle
      BY <2>2, DelayConstants, ModAdd
    <3>2. QED
      BY <2>2, <3>1
  <2>4. Same(x * UsPerTick, y * UsPerTick)
    BY <2>2, <2>3, TimeWraps
  <2>5. x * UsPerTick \in Int
    BY <2>2, DelayConstants
  <2>6. QED
    BY <2>4, <2>5 DEF Began, x, y
<1>10. ASSUME caller # "program", ~LongAgo', pc = "flag", now = (sampled + lag) % Cycle
       PROVE  now' = (sampled' + lag') % Cycle
  <2>1. lag' = lag + 1
    BY <1>1, <1>10
  <2> DEFINE a == sampled + lag
  <2>2. a \in Int /\ a + 1 = sampled + (lag + 1)
    BY <1>2
  <2> HIDE DEF a
  <2>3. ((a % Cycle) + 1) % Cycle = (a + 1) % Cycle
    <3> DEFINE b == 1
    <3>1. b \in Int
      OBVIOUS
    <3> HIDE DEF b
    <3>2. ((a % Cycle) + b) % Cycle = (a + b) % Cycle
      BY <2>2, <3>1, DelayConstants, ModAdd
    <3>3. QED
      BY <3>2 DEF b
  <2>4. now = a % Cycle
    BY <1>10 DEF a
  <2>5. QED
    BY <1>1, <2>1, <2>2, <2>3, <2>4
<1>11. FirstReading'
  <2> SUFFICES ASSUME caller = "start"
               PROVE  /\ ms = asked
                      /\ pc = "flag" =>
                            LongAgo' \/ (since' = lag' /\ now' = (sampled' + lag') % Cycle)
                      /\ pc = "start" => result \in Word /\ (LongAgo' \/ Same(result, Began'))
    BY <1>1 DEF FirstReading
  <2>1. /\ ms = asked
        /\ pc = "flag" => LongAgo \/ (since = lag /\ now = (sampled + lag) % Cycle)
        /\ pc = "start" => result \in Word /\ (LongAgo \/ Same(result, Began))
    BY DEF DelayInv, FirstReading
  <2>2. ASSUME pc = "flag", ~LongAgo'
        PROVE  since' = lag' /\ now' = (sampled' + lag') % Cycle
    <3>1. ~LongAgo /\ since' = since + 1
      BY <1>8, <2>2
    <3>2. since = lag /\ now = (sampled + lag) % Cycle
      BY <2>1, <2>2, <3>1
    <3>3. lag' = lag + 1
      BY <1>1, <2>2
    <3>4. QED
      BY <1>10, <2>2, <3>1, <3>2, <3>3
  <2>3. ASSUME pc = "start", ~LongAgo'
        PROVE  Same(result, Began')
    BY <1>8, <1>9, <2>1, <2>3 DEF Same
  <2>4. QED
    BY <2>1, <2>2, <2>3
<1>12. LaterReadings'
  <2> SUFFICES ASSUME caller = "wait"
               PROVE  /\ ms > 0 /\ Waited' <= Passed'
                      /\ LongAgo' \/ Same(start, Began' + Waited')
                      /\ pc = "flag" =>
                            \/ LongAgo'
                            \/ /\ Waited' <= (since' - lag') * UsPerTick
                               /\ now' = (sampled' + lag') % Cycle
                      /\ pc = "wait" =>
                            /\ result \in Word
                            /\ LongAgo' \/ \E e \in Waited' .. Passed' : Same(result, Began' + e)
    BY <1>1 DEF LaterReadings
  <2>1. /\ ms > 0 /\ Waited <= Passed
        /\ LongAgo \/ Same(start, Began + Waited)
        /\ pc = "flag" =>
              \/ LongAgo
              \/ Waited <= (since - lag) * UsPerTick /\ now = (sampled + lag) % Cycle
        /\ pc = "wait" =>
              /\ result \in Word
              /\ LongAgo \/ \E e \in Waited .. Passed : Same(result, Began + e)
    BY DEF DelayInv, LaterReadings
  <2>2. Waited' <= Passed'
    BY <1>2, <1>6, <1>7, <2>1
  <2>3. ASSUME ~LongAgo'
        PROVE  Same(start, Began' + Waited')
    <3>1. Same(start, Began + Waited)
      BY <1>8, <2>1, <2>3
    <3>2. Same(Began' + Waited, Began + Waited)
      BY <1>2, <1>9, <2>3, SameAdd
    <3>3. QED
      BY <1>6, <3>1, <3>2 DEF Same
  <2>4. ASSUME pc = "flag", ~LongAgo'
        PROVE  Waited' <= (since' - lag') * UsPerTick /\ now' = (sampled' + lag') % Cycle
    <3>1. ~LongAgo /\ since' = since + 1 /\ lag' = lag + 1
      BY <1>1, <1>8, <2>4
    <3>2. Waited <= (since - lag) * UsPerTick /\ now = (sampled + lag) % Cycle
      BY <2>1, <2>4, <3>1
    <3>3. since' - lag' = since - lag
      BY <1>2, <3>1
    <3>4. QED
      BY <1>6, <1>10, <2>4, <3>2, <3>3
  <2>5. ASSUME pc = "wait", ~LongAgo'
        PROVE  \E e \in Waited' .. Passed' : Same(result, Began' + e)
    <3>1. PICK e \in Waited .. Passed : Same(result, Began + e)
      BY <1>8, <2>1, <2>5
    <3>2. e \in Int /\ e \in Waited' .. Passed'
      BY <1>2, <1>6, <1>7
    <3>3. Same(Began' + e, Began + e)
      BY <1>2, <1>9, <2>5, <3>2, SameAdd
    <3>4. Same(result, Began' + e)
      BY <3>1, <3>3 DEF Same
    <3>5. QED
      BY <3>2, <3>4
  <2>6. QED
    BY <2>1, <2>2, <2>3, <2>4, <2>5
<1>13. QED
  BY <1>5, <1>11, <1>12 DEF DelayInv

\* The counter is sampled; delay() begins at its first sample.
LEMMA DelayReadTCNT0 ==
    ASSUME Inv, DelayInv, ReadTCNT0
    PROVE  DelayInv'
<1>1. /\ pc = "count" /\ pc' = "flag" /\ lag' = 0 /\ now' = now /\ sampled' = now
      /\ UNCHANGED <<caller, ms, asked, start>>
      /\ since' = IF caller = "start" THEN 0 ELSE since
  BY DEF ReadTCNT0, Runs, clock
<1>2. /\ now \in Int /\ since \in Nat /\ Began \in Int /\ Waited \in Int /\ Passed \in Nat
  BY DelayNumbers DEF DelayInv
<1>3. DelayType'
  <2>1. since' \in 0 .. MaxSince
    BY <1>1, DelayConstants DEF DelayInv, DelayType
  <2>2. QED
    BY <1>1, <2>1 DEF DelayInv, DelayType
<1>4. now' = (sampled' + lag') % Cycle
  <2>1. now \in 0 .. Cycle - 1 /\ now + 0 = now
    BY <1>2 DEF Inv, TypeOK
  <2>2. now = 0 * Cycle + now
    BY <2>1, DelayConstants
  <2>3. now % Cycle = now
    BY <2>1, <2>2, DelayConstants, DivModUnique
  <2>4. QED
    BY <1>1, <2>1, <2>3
<1>5. FirstReading'
  <2>1. caller = "start" => since' = lag' /\ ms = asked
    BY <1>1 DEF DelayInv, FirstReading
  <2>2. QED
    BY <1>1, <1>4, <2>1 DEF FirstReading
<1>6. LaterReadings'
  <2> SUFFICES ASSUME caller = "wait" PROVE LaterReadings'
    BY <1>1 DEF LaterReadings
  <2>1. since' = since
    BY <1>1
  <2>2. Waited' = Waited /\ Began' = Began /\ Passed' = Passed /\ LongAgo' = LongAgo
    BY <1>1, <2>1 DEF Waited, Began, Passed, LongAgo
  <2>3. ms > 0 /\ Waited <= Passed /\ (LongAgo \/ Same(start, Began + Waited))
    BY DEF DelayInv, LaterReadings
  <2>4. Waited' <= (since' - lag') * UsPerTick
    <3>1. since' - lag' = since
      BY <1>1, <1>2, <2>1
    <3>2. QED
      BY <2>2, <2>3, <3>1 DEF Passed
  <2>5. LongAgo' \/ Same(start', Began' + Waited')
    BY <1>1, <2>2, <2>3 DEF Same
  <2>6. QED
    BY <1>1, <1>4, <2>2, <2>3, <2>4, <2>5 DEF LaterReadings
<1>7. QED
  BY <1>3, <1>5, <1>6 DEF DelayInv

\* What micros() returns is the time of the sample.
LEMMA DelayMicrosReturns ==
    ASSUME Inv, DelayInv, MicrosReturns
    PROVE  DelayInv'
<1>1. /\ pc = "flag" /\ lag' = 0 /\ now' = now
      /\ pc' = IF caller = "program" THEN "idle" ELSE caller
      /\ UNCHANGED <<caller, ms, asked, start, since>>
  BY DEF MicrosReturns, Runs, clock
<1>2. /\ now \in Int /\ since \in Nat /\ lag \in Nat /\ sampled \in Int
      /\ Began \in Int /\ Waited \in Int /\ Passed \in Nat
  BY DelayNumbers DEF DelayInv
<1>3. result' = (sampled * UsPerTick) % WordMod
  BY MicrosResult
<1>4. caller \in {"program", "start", "wait"}
  BY DEF Inv, TypeOK
<1>5. DelayType'
  <2>1. pc' \in {"idle", "start", "wait"} /\ (pc' = "idle" => caller = "program")
    BY <1>1, <1>4
  <2>2. pc' \in {"start", "wait"} => caller = pc'
    BY <1>1, <1>4
  <2>3. QED
    BY <1>1, <2>1, <2>2 DEF DelayInv, DelayType
<1>6. result' \in Word /\ Same(result', sampled * UsPerTick)
  <2> DEFINE a == sampled * UsPerTick
             r == a % WordMod
  <2>1. a \in Int
    BY <1>2, DelayConstants
  <2> HIDE DEF a
  <2>2. r \in 0 .. WordMod - 1
    BY <2>1, DelayConstants, DivMod
  <2>3. r = 0 * WordMod + r
    BY <2>2, DelayConstants
  <2>4. r % WordMod = r
    <3> HIDE DEF r
    <3>1. QED
      BY <2>2, <2>3, DelayConstants, DivModUnique
  <2>5. QED
    BY <1>3, <2>2, <2>4 DEF Word, Same, a
<1>7. /\ Waited' = Waited /\ Began' = Began /\ Passed' = Passed /\ (LongAgo' <=> LongAgo)
  BY <1>1 DEF Waited, Began, Passed, LongAgo
<1>8. ASSUME now = (sampled + lag) % Cycle, NEW d \in Int,
             d * UsPerTick + Began = (now - lag) * UsPerTick
      PROVE  Same(result', Began + d * UsPerTick)
  <2> DEFINE a == sampled + lag
             b == -lag
             x == now - lag
  <2>1. a \in Int /\ b \in Int /\ a + b = sampled /\ x \in Int
    BY <1>2
  <2>2. x = (a % Cycle) + b
    BY <1>2, <1>8
  <2> HIDE DEF a, b
  <2>3. ((a % Cycle) + b) % Cycle = (a + b) % Cycle
    BY <2>1, DelayConstants, ModAdd
  <2>4. x % Cycle = sampled % Cycle
    BY <2>1, <2>2, <2>3
  <2> HIDE DEF x
  <2>5. Same(x * UsPerTick, sampled * UsPerTick)
    BY <1>2, <2>1, <2>4, TimeWraps
  <2>6. Began + d * UsPerTick = x * UsPerTick
    <3>1. d * UsPerTick \in Int
      BY <1>8, DelayConstants
    <3>2. QED
      BY <1>2, <1>8, <3>1 DEF x
  <2>7. QED
    BY <1>6, <2>5, <2>6 DEF Same
<1>9. FirstReading'
  <2> SUFFICES ASSUME caller = "start"
               PROVE  ms = asked /\ (LongAgo \/ Same(result', Began'))
    BY <1>1, <1>6, <1>7 DEF FirstReading
  <2>1. ms = asked /\ (LongAgo \/ (since = lag /\ now = (sampled + lag) % Cycle))
    BY <1>1 DEF DelayInv, FirstReading
  <2>2. ASSUME since = lag, now = (sampled + lag) % Cycle
        PROVE  Same(result', Began)
    <3> DEFINE z == 0
    <3>1. z \in Int /\ z * UsPerTick = 0 /\ Began = (now - lag) * UsPerTick
      BY <2>2, DelayConstants DEF Began
    <3>2. z * UsPerTick + Began = (now - lag) * UsPerTick /\ Began + z * UsPerTick = Began
      BY <1>2, <3>1
    <3> HIDE DEF z
    <3>3. Same(result', Began + z * UsPerTick)
      BY <1>8, <2>2, <3>1, <3>2
    <3>4. QED
      BY <3>2, <3>3
  <2>3. QED
    BY <1>7, <2>1, <2>2
<1>10. LaterReadings'
  <2> SUFFICES ASSUME caller = "wait"
               PROVE  /\ ms > 0 /\ Waited <= Passed
                      /\ LongAgo \/ Same(start, Began + Waited)
                      /\ LongAgo \/ \E e \in Waited .. Passed : Same(result', Began + e)
    <3>1. pc' = "wait" \/ caller # "wait"
      BY <1>1
    <3>2. LongAgo' \/ ~LongAgo
      BY <1>7
    <3>3. QED
      BY <1>1, <1>6, <1>7, <3>1 DEF LaterReadings, Same
  <2>1. /\ ms > 0 /\ Waited <= Passed /\ (LongAgo \/ Same(start, Began + Waited))
        /\ \/ LongAgo
           \/ Waited <= (since - lag) * UsPerTick /\ now = (sampled + lag) % Cycle
    BY <1>1 DEF DelayInv, LaterReadings
  <2>2. ASSUME Waited <= (since - lag) * UsPerTick, now = (sampled + lag) % Cycle
        PROVE  \E e \in Waited .. Passed : Same(result', Began + e)
    <3> DEFINE d == since - lag
               e == d * UsPerTick
    <3>1. d \in Int /\ e \in Int /\ e <= Passed /\ e + Began = (now - lag) * UsPerTick
      <4>1. d \in Int /\ e \in Int
        BY <1>2, DelayConstants
      <4>2. e = since * UsPerTick - lag * UsPerTick /\ lag * UsPerTick >= 0
        BY <1>2, DelayConstants
      <4>3. Began = now * UsPerTick - since * UsPerTick
        BY <1>2, DelayConstants DEF Began
      <4>4. (now - lag) * UsPerTick = now * UsPerTick - lag * UsPerTick
        BY <1>2, DelayConstants
      <4>5. /\ since * UsPerTick \in Int /\ lag * UsPerTick \in Int /\ now * UsPerTick \in Int
        BY <1>2, DelayConstants
      <4> HIDE DEF e
      <4>6. e <= Passed
        BY <4>1, <4>2, <4>5 DEF Passed
      <4>7. e + Began = (now - lag) * UsPerTick
        BY <4>1, <4>2, <4>3, <4>4, <4>5
      <4>8. QED
        BY <4>1, <4>6, <4>7
    <3>2. Waited <= e
      BY <2>2
    <3> HIDE DEF d
    <3>3. Same(result', Began + e)
      BY <1>8, <2>2, <3>1
    <3> HIDE DEF e
    <3>4. e \in Waited .. Passed
      BY <1>2, <3>1, <3>2
    <3>5. QED
      BY <3>3, <3>4
  <2>3. QED
    BY <2>1, <2>2
<1>11. QED
  BY <1>5, <1>9, <1>10 DEF DelayInv

LEMMA DelayUnchanged ==
    ASSUME DelayInv,
           UNCHANGED <<now, ms, asked, start, since, caller, pc, result, sampled, lag>>
    PROVE  DelayInv'
<1>1. UNCHANGED <<now, ms, asked, start, since, caller, pc, result, sampled, lag>>
  OBVIOUS
<1>2. /\ Waited' = Waited /\ Began' = Began /\ Passed' = Passed /\ (LongAgo' <=> LongAgo)
  BY <1>1 DEF Waited, Began, Passed, LongAgo
<1>3. DelayType'
  BY <1>1 DEF DelayInv, DelayType
<1>4. FirstReading'
  BY <1>1, <1>2 DEF DelayInv, FirstReading, Same
<1>5. LaterReadings'
  BY <1>1, <1>2 DEF DelayInv, LaterReadings, Same
<1>6. QED
  BY <1>3, <1>4, <1>5 DEF DelayInv

\* The calls that no delay() is waiting for, and the first of a delay().
LEMMA DelayCalls ==
    ASSUME DelayInv,
           \/ millis \/ MillisReturns \/ ProgramMicros
           \/ \E time_ms \in 0 .. MaxDelay : delay(time_ms)
    PROVE  DelayInv'
<1>1. CASE millis \/ MillisReturns
  <2>1. /\ caller = "program" /\ caller' = caller /\ pc' \in {"idle", "millis"}
        /\ UNCHANGED <<ms, asked, start, since>>
    BY <1>1 DEF DelayInv, DelayType, millis, MillisReturns, Runs
  <2>2. QED
    BY <2>1 DEF DelayInv, DelayType, FirstReading, LaterReadings
<1>2. CASE ProgramMicros
  <2>1. caller' = "program" /\ pc' = "micros" /\ UNCHANGED <<ms, asked, start, since>>
    BY <1>2 DEF ProgramMicros, CallMicros
  <2>2. QED
    BY <2>1 DEF DelayInv, DelayType, FirstReading, LaterReadings
<1>3. ASSUME NEW time_ms \in 0 .. MaxDelay, delay(time_ms)
      PROVE  DelayInv'
  <2>1. /\ caller' = "start" /\ pc' = "micros" /\ ms' = time_ms /\ asked' = time_ms
        /\ UNCHANGED <<start, since>>
    BY <1>3 DEF delay, CallMicros
  <2>2. ms' \in Nat /\ asked' \in 0 .. MaxDelay /\ ms' <= asked'
    BY <2>1, DelayConstants
  <2>3. QED
    BY <2>1, <2>2 DEF DelayInv, DelayType, FirstReading, LaterReadings
<1>4. QED
  BY <1>1, <1>2, <1>3

LEMMA DelayMicros ==
    ASSUME DelayInv, micros
    PROVE  DelayInv'
<1>1. pc' = "count" /\ now' = now /\ UNCHANGED <<ms, asked, start, since, caller>>
  BY DEF micros, Runs, clock
<1>2. /\ Waited' = Waited /\ Began' = Began /\ Passed' = Passed /\ (LongAgo' <=> LongAgo)
  BY <1>1 DEF Waited, Began, Passed, LongAgo
<1>3. DelayType' /\ FirstReading'
  BY <1>1 DEF DelayInv, DelayType, FirstReading
<1>4. LaterReadings'
  BY <1>1, <1>2 DEF DelayInv, LaterReadings, Same
<1>5. QED
  BY <1>3, <1>4 DEF DelayInv

LEMMA DelayStartsInv ==
    ASSUME Inv, DelayInv, DelayStarts
    PROVE  /\ DelayInv'
           /\ pc' = "idle" => asked * UsPerMs <= Passed
<1>1. /\ pc = "start" /\ now' = now /\ Wait(ms, result)
  BY DEF DelayStarts, Runs, clock
<1>2. /\ since \in Nat /\ Began \in Int /\ Passed \in Nat /\ ms \in Nat /\ asked \in Nat
  BY DelayNumbers DEF DelayInv
<1>3. /\ ms = asked /\ result \in Word /\ (LongAgo \/ Same(result, Began))
  BY <1>1 DEF DelayInv, DelayType, FirstReading
<1>4. CASE ms > 0
  <2>1. /\ pc' = "micros" /\ caller' = "wait" /\ ms' = ms /\ start' = result
        /\ asked' = asked /\ since' = since
    BY <1>1, <1>4 DEF Wait, CallMicros
  <2>2. DelayType'
    BY <1>3, <2>1 DEF DelayInv, DelayType
  <2>3. /\ Waited' = 0 /\ Began' = Began /\ Passed' = Passed /\ (LongAgo' <=> LongAgo)
    <3>1. ms - ms = 0 /\ 0 * UsPerMs = 0
      BY <1>2, DelayConstants
    <3>2. QED
      BY <1>1, <1>3, <2>1, <3>1 DEF Waited, Began, Passed, LongAgo
  <2>4. Waited' <= Passed' /\ Began' + Waited' = Began
    BY <1>2, <2>3
  <2>5. LongAgo' \/ Same(start', Began' + Waited')
    BY <1>3, <2>1, <2>3, <2>4 DEF Same
  <2>6. QED
    BY <1>4, <2>1, <2>2, <2>4, <2>5 DEF DelayInv, FirstReading, LaterReadings
<1>5. CASE ms = 0
  <2>1. /\ pc' = "idle" /\ caller' = "program" /\ ms' = 0 /\ start' = 0 /\ asked' = 0
        /\ since' = 0
    BY <1>1, <1>5 DEF Wait
  <2>2. 0 \in Word /\ 0 \in 0 .. MaxSince /\ 0 \in 0 .. MaxDelay /\ asked * UsPerMs = 0
    BY <1>3, <1>5, DelayConstants DEF Word
  <2>3. asked * UsPerMs <= Passed
    BY <1>2, <2>2
  <2>4. QED
    BY <2>1, <2>2, <2>3 DEF DelayInv, DelayType, FirstReading, LaterReadings
<1>6. QED
  BY <1>2, <1>4, <1>5

\* The difference of two readings is at most the time between them, whether
\* micros() has wrapped around in it or not.
LEMMA ElapsedHasPassed ==
    ASSUME Inv, DelayInv, pc = "wait", Elapsed
    PROVE  Waited + UsPerMs <= Passed
<1>1. /\ since \in Nat /\ Began \in Int /\ Passed \in Nat /\ ms \in Nat /\ asked \in Nat
      /\ Waited \in Int /\ start \in Nat
  BY DelayNumbers DEF DelayInv
<1>2. /\ caller = "wait" /\ ms > 0 /\ Waited <= Passed /\ asked \in 0 .. MaxDelay
      /\ ms <= asked
  BY DEF DelayInv, DelayType, LaterReadings
<1>3. /\ result \in Word
      /\ LongAgo \/ Same(start, Began + Waited)
      /\ LongAgo \/ \E e \in Waited .. Passed : Same(result, Began + e)
  BY <1>2 DEF DelayInv, LaterReadings
<1>4. CASE LongAgo
  <2>1. asked * UsPerMs <= Passed
    BY <1>2, <1>4, LongEnough
  <2>2. Waited + UsPerMs <= asked * UsPerMs
    <3>1. Waited + UsPerMs = (asked - ms + 1) * UsPerMs
      BY <1>1, DelayConstants DEF Waited
    <3>2. asked - ms + 1 <= asked /\ asked - ms + 1 \in Int
      BY <1>1, <1>2
    <3> DEFINE a == asked - ms + 1
               u == UsPerMs
    <3>3. a \in Int /\ a <= asked /\ u \in Nat
      BY <3>2, DelayConstants
    <3> HIDE DEF a, u
    <3>4. a * u <= asked * u
      BY <1>1, <3>3
    <3>5. QED
      BY <3>1, <3>4 DEF a, u
  <2>3. asked * UsPerMs \in Int
    BY <1>1, DelayConstants
  <2>4. QED
    BY <1>1, <2>1, <2>2, <2>3, DelayConstants
<1>5. CASE ~LongAgo
  <2>1. PICK e \in Waited .. Passed : Same(result, Began + e)
    BY <1>3, <1>5
  <2>2. e \in Int /\ Waited <= e /\ e <= Passed
    BY <1>1
  <2> DEFINE b == -start
             c == e - Waited
             W == WordMod
             d == result - start
  <2>3. result \in Int /\ b \in Int /\ c \in Nat /\ W \in Nat \ {0} /\ d \in Int /\ d = result + b
    BY <1>1, <1>3, <2>2, DelayConstants DEF Word
  <2>4. Same(result + b, (Began + e) + b)
    <3> HIDE DEF b
    <3>1. Began + e \in Int
      BY <1>1, <2>2
    <3>2. QED
      BY <2>1, <2>3, <3>1, SameAdd
  <2>5. Same(start + (b + c), (Began + Waited) + (b + c))
    <3>1. Same(start, Began + Waited)
      BY <1>3, <1>5
    <3> HIDE DEF b, c
    <3> DEFINE x == Began + Waited
               y == b + c
    <3>2. x \in Int /\ y \in Int /\ start \in Int
      BY <1>1, <2>3
    <3> HIDE DEF x, y
    <3>3. Same(start + y, x + y)
      BY <3>1, <3>2, SameAdd DEF x
    <3>4. QED
      BY <3>3 DEF x, y
  <2>6. start + (b + c) = c /\ (Began + Waited) + (b + c) = (Began + e) + b
    BY <1>1, <2>2
  <2>7. d % W = c % W
    <3> HIDE DEF b, c, d
    <3>1. Same(d, (Began + e) + b) /\ Same(c, (Began + e) + b)
      BY <2>3, <2>4, <2>5, <2>6
    <3>2. QED
      BY <3>1 DEF Same
  <2>8. c % W <= c
    <3> DEFINE q == c \div W
               r == c % W
    <3>1. /\ r \in 0 .. W - 1 /\ q \in Int /\ c = q * W + r
      <4> HIDE DEF c, W
      <4>1. QED
        BY <2>3, DivMod
    <3> HIDE DEF q, r, c, W
    <3>2. q >= 0
      BY <2>3, <3>1
    <3>3. q * W \in Int /\ q * W >= 0
      BY <2>3, <3>1, <3>2
    <3>4. r <= c
      BY <2>3, <3>1, <3>3
    <3>5. QED
      BY <3>4 DEF r
  <2>9. UsPerMs <= d % W
    BY DEF Elapsed
  <2>10. UsPerMs <= c
    <3>1. c % W \in Int /\ UsPerMs \in Int
      <4> HIDE DEF c, W
      <4>1. c \in Int
        BY <2>3
      <4>2. c % W \in 0 .. W - 1
        BY <2>3, <4>1, DivMod
      <4>3. QED
        BY <2>3, <4>2, DelayConstants
    <3> HIDE DEF c, d, W
    <3>2. QED
      BY <2>3, <2>7, <2>8, <2>9, <3>1
  <2>11. QED
    BY <1>1, <2>2, <2>10, DelayConstants
<1>6. QED
  BY <1>4, <1>5

LEMMA DelayWaitsInv ==
    ASSUME Inv, DelayInv, DelayWaits
    PROVE  /\ DelayInv'
           /\ pc' = "idle" => asked * UsPerMs <= Passed
<1>1. /\ pc = "wait" /\ now' = now
      /\ IF Elapsed THEN Wait(ms - 1, (start + UsPerMs) % WordMod) ELSE Wait(ms, start)
  BY DEF DelayWaits, Runs, clock
<1>2. /\ since \in Nat /\ Began \in Int /\ Passed \in Nat /\ ms \in Nat /\ asked \in Nat
      /\ Waited \in Int /\ start \in Nat
  BY DelayNumbers DEF DelayInv
<1>3. /\ caller = "wait" /\ ms > 0 /\ Waited <= Passed /\ start \in Word
      /\ (LongAgo \/ Same(start, Began + Waited))
  BY <1>1 DEF DelayInv, DelayType, LaterReadings
<1>4. CASE ~Elapsed
  <2>1. /\ pc' = "micros" /\ caller' = "wait" /\ ms' = ms /\ start' = start
        /\ asked' = asked /\ since' = since
    BY <1>1, <1>2, <1>3, <1>4 DEF Wait, CallMicros
  <2>2. /\ Waited' = Waited /\ Began' = Began /\ Passed' = Passed /\ (LongAgo' <=> LongAgo)
    BY <1>1, <2>1 DEF Waited, Began, Passed, LongAgo
  <2>3. QED
    BY <1>3, <2>1, <2>2 DEF DelayInv, DelayType, FirstReading, LaterReadings, Same
<1>5. CASE Elapsed /\ ms - 1 > 0
  <2> DEFINE z == start + UsPerMs
  <2>1. /\ pc' = "micros" /\ caller' = "wait" /\ ms' = ms - 1 /\ start' = z % WordMod
        /\ asked' = asked /\ since' = since
    BY <1>1, <1>2, <1>5 DEF Wait, CallMicros
  <2>2. z \in Int
    BY <1>2, DelayConstants
  <2> HIDE DEF z
  <2>3. start' \in Word /\ Same(start', z)
    <3> DEFINE r == z % WordMod
    <3>1. r \in 0 .. WordMod - 1
      BY <2>2, DelayConstants, DivMod
    <3>2. r = 0 * WordMod + r
      BY <3>1, DelayConstants
    <3>3. r % WordMod = r
      <4> HIDE DEF r
      <4>1. QED
        BY <3>1, <3>2, DelayConstants, DivModUnique
    <3>4. QED
      BY <2>1, <3>1, <3>3 DEF Word, Same
  <2>4. ms' \in Nat /\ ms' <= asked'
    BY <1>2, <1>5, <2>1 DEF DelayInv, DelayType
  <2>5. DelayType'
    BY <2>1, <2>3, <2>4 DEF DelayInv, DelayType
  <2>6. /\ Waited' = Waited + UsPerMs /\ Began' = Began /\ Passed' = Passed
        /\ (LongAgo' <=> LongAgo)
    <3> DEFINE u == UsPerMs
    <3>1. (asked - (ms - 1)) * u = (asked - ms) * u + u
      <4>1. u \in Nat
        BY DelayConstants
      <4> HIDE DEF u
      <4>2. QED
        BY <1>2, <4>1
    <3>2. QED
      BY <1>1, <2>1, <3>1 DEF Waited, Began, Passed, LongAgo
  <2>7. Waited' <= Passed'
    BY <1>1, <1>5, <2>6, ElapsedHasPassed
  <2>8. LongAgo' \/ Same(start', Began' + Waited')
    <3> SUFFICES ASSUME ~LongAgo PROVE Same(start', Began' + Waited')
      BY <2>6
    <3> DEFINE x == Began + Waited
               u == UsPerMs
    <3>1. x \in Int /\ u \in Int /\ start \in Int
      BY <1>2, DelayConstants
    <3>2. Same(start, x)
      BY <1>3
    <3>3. x + u = Began + (Waited + u)
      BY <1>2, <3>1
    <3>4. z = start + u
      BY DEF z
    <3> HIDE DEF x, u
    <3>5. Same(start + u, x + u)
      BY <3>1, <3>2, SameAdd
    <3>6. QED
      BY <2>3, <2>6, <3>3, <3>4, <3>5 DEF Same, u
  <2>9. ms' > 0
    BY <1>5, <2>1
  <2>10. QED
    BY <2>1, <2>5, <2>7, <2>8, <2>9 DEF DelayInv, FirstReading, LaterReadings
<1>6. CASE Elapsed /\ ms - 1 = 0
  <2>1. /\ pc' = "idle" /\ caller' = "program" /\ ms' = 0 /\ start' = 0 /\ asked' = 0
        /\ since' = 0
    BY <1>1, <1>6 DEF Wait
  <2>2. 0 \in Word /\ 0 \in 0 .. MaxSince /\ 0 \in 0 .. MaxDelay
    BY DelayConstants DEF Word
  <2>3. Waited + UsPerMs <= Passed
    BY <1>1, <1>6, ElapsedHasPassed
  <2>4. asked * UsPerMs = Waited + UsPerMs
    <3> DEFINE u == UsPerMs
    <3>1. u \in Nat /\ ms = 1
      BY <1>2, <1>6, DelayConstants
    <3> HIDE DEF u
    <3>2. asked * u = (asked - ms) * u + u
      BY <1>2, <3>1
    <3>3. QED
      BY <3>2 DEF u, Waited
  <2>5. QED
    BY <2>1, <2>2, <2>3, <2>4 DEF DelayInv, DelayType, FirstReading, LaterReadings
<1>7. QED
  <2>1. ms - 1 > 0 \/ ms - 1 = 0
    BY <1>2, <1>3
  <2>2. QED
    BY <1>4, <1>5, <1>6, <2>1

LEMMA DelayNext == Inv /\ DelayInv /\ [Next]_vars => DelayInv'
<1> SUFFICES ASSUME Inv, DelayInv, [Next]_vars PROVE DelayInv'
  OBVIOUS
<1>1. CASE Tick
  BY <1>1, DelayTick
<1>2. CASE TIMER0_OVF
  BY <1>2, DelayUnchanged DEF TIMER0_OVF, locals
<1>3. CASE \/ millis \/ MillisReturns \/ ProgramMicros
           \/ \E time_ms \in 0 .. MaxDelay : delay(time_ms)
  BY <1>3, DelayCalls
<1>4. CASE micros
  BY <1>4, DelayMicros
<1>5. CASE ReadTCNT0
  BY <1>5, DelayReadTCNT0
<1>6. CASE MicrosReturns
  BY <1>6, DelayMicrosReturns
<1>7. CASE DelayStarts
  BY <1>7, DelayStartsInv
<1>8. CASE DelayWaits
  BY <1>8, DelayWaitsInv
<1>9. CASE UNCHANGED vars
  BY <1>9, DelayUnchanged DEF vars, clock, time, locals
<1>10. QED
  BY <1>1, <1>2, <1>3, <1>4, <1>5, <1>6, <1>7, <1>8, <1>9 DEF Next, Return

\* delay() does not return before the time that it was asked for has passed,
\* also when micros() wraps around while it waits (wiring.c).
THEOREM DelayNotShort == Spec => DelayIsNotShort
<1>1. Init => Inv /\ DelayInv
  BY InitInv, DelayInit
<1>2. (Inv /\ DelayInv) /\ [Next]_vars => (Inv /\ DelayInv)'
  BY NextInv, DelayNext
<1>3. Inv /\ DelayInv /\ [Next]_vars =>
         [(pc \in {"start", "wait"} /\ pc' = "idle") => since * UsPerTick >= asked * UsPerMs]_vars
  <2> SUFFICES ASSUME Inv, DelayInv, Next, pc \in {"start", "wait"}, pc' = "idle"
               PROVE  since * UsPerTick >= asked * UsPerMs
    OBVIOUS
  <2>1. ~(Tick \/ TIMER0_OVF)
    BY DEF Tick, TIMER0_OVF
  <2>2. ~(millis \/ ProgramMicros \/ micros \/ ReadTCNT0 \/ MillisReturns \/ MicrosReturns)
    BY DEF millis, ProgramMicros, micros, ReadTCNT0, MillisReturns, MicrosReturns, Runs
  <2>3. ~(\E time_ms \in 0 .. MaxDelay : delay(time_ms))
    BY DEF delay, Runs
  <2>4. DelayStarts \/ DelayWaits
    BY <2>1, <2>2, <2>3 DEF Next, Return
  <2>5. asked * UsPerMs <= Passed
    BY <2>4, DelayStartsInv, DelayWaitsInv
  <2>6. asked * UsPerMs \in Int /\ Passed \in Int
    BY DelayNumbers, DelayConstants DEF DelayInv
  <2>7. QED
    BY <2>5, <2>6 DEF Passed
<1>4. QED
  BY <1>1, <1>2, <1>3, PTL DEF Spec, DelayIsNotShort
=============================================================================
