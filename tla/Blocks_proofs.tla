--------------------------- MODULE Blocks_proofs ---------------------------
(***************************************************************************)
(* Facts about blocks of numbers: the windows and pages that the driver    *)
(* and the editors cut addresses into.                                     *)
(***************************************************************************)
EXTENDS Integers, TLAPS

\* Multiples of m are at least m apart.
LEMMA Multiples ==
    ASSUME NEW m \in Nat \ {0}, NEW a \in Nat, NEW b \in Nat,
           a % m = 0, b % m = 0, a < b
    PROVE  a + m <= b
<1> DEFINE x == a \div m
           y == b \div m
<1>1. x \in Nat /\ y \in Nat /\ a = m * x /\ b = m * y
  <2>1. \A u \in Nat : u \div m \in Nat /\ u = m * (u \div m) + (u % m) OBVIOUS
  <2> QED BY <2>1
<1> HIDE DEF x, y
<1>2. \A u, d \in Nat : m * u <= m * (u + d)
  <2>1. \A u, d \in Nat : m * (u + d) = m * u + m * d /\ m * d \in Nat OBVIOUS
  <2>2. \A u \in Nat : m * u \in Nat OBVIOUS
  <2> QED BY <2>1, <2>2
<1>3. x < y
  <2> SUFFICES ASSUME y <= x PROVE FALSE BY <1>1
  <2>1. x - y \in Nat /\ x = y + (x - y) BY <1>1
  <2>2. m * y <= m * x BY <1>1, <1>2, <2>1
  <2> QED BY <1>1, <2>2
<1>4. m * (x + 1) <= m * y
  <2>1. y - (x + 1) \in Nat /\ y = (x + 1) + (y - (x + 1)) BY <1>1, <1>3
  <2> QED BY <1>1, <1>2, <2>1
<1>5. m * (x + 1) = m * x + m BY <1>1
<1> QED BY <1>1, <1>4, <1>5

\* A multiple of a multiple of four is a multiple of four.
LEMMA FourDivides ==
    ASSUME NEW m \in Nat \ {0}, m % 4 = 0, NEW a \in Nat, a % m = 0
    PROVE  a % 4 = 0
<1> DEFINE x == a \div m
           t == m \div 4
<1>1. x \in Nat /\ a = m * x
  <2>1. \A u \in Nat : u \div m \in Nat /\ u = m * (u \div m) + (u % m) OBVIOUS
  <2> QED BY <2>1
<1>2. t \in Nat /\ m = 4 * t OBVIOUS
<1> HIDE DEF x, t
<1>3. t * x \in Nat /\ (4 * t) * x = 4 * (t * x) BY <1>1, <1>2
<1>4. \A z \in Nat : (4 * z) % 4 = 0 OBVIOUS
<1> QED BY <1>1, <1>2, <1>3, <1>4

\* The start of the block of m that a is in.
LEMMA BlockStart ==
    ASSUME NEW m \in Nat \ {0}, NEW a \in Nat
    PROVE  /\ a - (a % m) \in Nat
           /\ (a - (a % m)) % m = 0
           /\ a - (a % m) <= a /\ a < a - (a % m) + m
<1> DEFINE x == a \div m
           r == a % m
<1>1. x \in Nat /\ r \in 0 .. m - 1 /\ a = m * x + r OBVIOUS
<1>2. m * x \in Nat /\ (m * x) % m = 0
  <2>1. \A z \in Nat : m * z \in Nat /\ (m * z) % m = 0 OBVIOUS
  <2> QED BY <2>1
<1> HIDE DEF x, r
<1>3. a - r = m * x BY <1>1, <1>2
<1> QED BY <1>1, <1>2, <1>3 DEF r

\* A number that is a whole block behind a lies at the same place of its block.
LEMMA SameLane ==
    ASSUME NEW a \in Nat, NEW w \in Nat, w % 4 = 0, w <= a
    PROVE  w + ((a - w) - ((a - w) % 4)) = a - (a % 4)
<1>1. PICK x \in Nat : w = 4 * x BY w = 4 * (w \div 4)
<1>2. PICK y \in Nat : a - w = 4 * y + ((a - w) % 4) 
  <2>1. a - w \in Nat OBVIOUS
  <2>2. \A z \in Nat : z = 4 * (z \div 4) + (z % 4) /\ z \div 4 \in Nat OBVIOUS
  <2> QED BY <2>1, <2>2
<1> QED BY <1>1, <1>2

\* Shifting a digit into a value of a whole number of digits keeps it below
\* the number of values there are.
LEMMA ShiftBelow ==
    ASSUME NEW radix \in Nat \ {0}, NEW n \in Nat \ {0}, n % radix = 0,
           NEW w \in Nat, NEW d \in Nat, d < radix
    PROVE  ((w * radix) % n) + d \in 0 .. n - 1
<1> DEFINE t == n \div radix
           u == w * radix
           q == u \div n
           r == u % n
<1>1. t \in Nat /\ n = radix * t
  <2>1. \A z \in Nat : z \div radix \in Nat /\ z = radix * (z \div radix) + (z % radix)
    OBVIOUS
  <2> QED BY <2>1
<1>2. u \in Nat
  <2>1. \A z \in Nat : z * radix \in Nat OBVIOUS
  <2> QED BY <2>1
<1> HIDE DEF u
<1>3. q \in Nat /\ r \in 0 .. n - 1 /\ u = n * q + r BY <1>2
<1> HIDE DEF t, q, r
<1>4. n * q = radix * (t * q) /\ t * q \in Nat
  <2>1. \A a, b \in Nat : (radix * a) * b = radix * (a * b) /\ a * b \in Nat OBVIOUS
  <2> QED BY <1>1, <1>3, <2>1
<1>5. r = radix * (w - t * q)
  <2>1. \A a, b \in Nat : radix * (a - b) = a * radix - radix * b OBVIOUS
  <2>2. radix * (t * q) \in Nat /\ n * q \in Nat BY <1>3, <1>4
  <2>3. radix * (w - t * q) = u - radix * (t * q) BY <1>4, <2>1 DEF u
  <2> QED BY <1>2, <1>3, <1>4, <2>2, <2>3
<1>6. r % radix = 0
  <2>1. \A z \in Int : radix * z >= 0 => (radix * z) % radix = 0 OBVIOUS
  <2> DEFINE z == w - t * q
  <2>2. z \in Int /\ r = radix * z BY <1>4, <1>5
  <2> HIDE DEF z
  <2>3. radix * z >= 0 BY <1>3, <2>2
  <2> QED BY <2>1, <2>2, <2>3
<1>7. r + radix <= n
  <2>1. r \in Nat /\ r < n BY <1>3
  <2> QED BY <1>6, <2>1, Multiples
<1> QED BY <1>3, <1>7 DEF r, u

\* Taking the last digit away does not make a value larger.
LEMMA DropBelow ==
    ASSUME NEW radix \in Nat \ {0}, NEW w \in Nat
    PROVE  w \div radix \in 0 .. w
<1> DEFINE q == w \div radix
           r == w % radix
<1>1. q \in Nat /\ r \in Nat /\ w = radix * q + r OBVIOUS
<1> HIDE DEF q, r
<1>2. radix - 1 \in Nat /\ (radix - 1) * q \in Nat /\ radix * q = q + (radix - 1) * q
  BY <1>1
<1> QED BY <1>1, <1>2 DEF q

\* Two, four or eight digits have more values than one, a multiple of them.
LEMMA DigitPowers ==
    ASSUME NEW R \in Nat \ {0},
           NEW n \in {R * R, (R * R) * (R * R), ((R * R) * (R * R)) * ((R * R) * (R * R))}
    PROVE  n \in Nat \ {0} /\ n % R = 0 /\ R <= n
<1> DEFINE B == R * R
<1>1. \A a, b \in Nat \ {0} : a * b \in Nat \ {0} /\ a <= a * b
  <2>1. \A a, c \in Nat : a * (c + 1) = a * c + a /\ a * c \in Nat OBVIOUS
  <2> SUFFICES ASSUME NEW a \in Nat \ {0}, NEW b \in Nat \ {0}
               PROVE  a * b \in Nat \ {0} /\ a <= a * b
    OBVIOUS
  <2>2. PICK c \in Nat : b = c + 1 BY b - 1 \in Nat
  <2> QED BY <2>1, <2>2
<1>2. \A a \in Nat \ {0} : (R * a) % R = 0 OBVIOUS
<1>3. \A a, b, c \in Nat \ {0} : (a * b) * c = a * (b * c) OBVIOUS
<1>4. B \in Nat \ {0} /\ R <= B /\ B % R = 0 BY <1>1, <1>2
<1>5. \A a \in Nat \ {0} : B * a \in Nat \ {0} /\ R <= B * a /\ (B * a) % R = 0
  <2> SUFFICES ASSUME NEW a \in Nat \ {0}
               PROVE  B * a \in Nat \ {0} /\ R <= B * a /\ (B * a) % R = 0
    OBVIOUS
  <2>1. B * a = R * (R * a) BY <1>3
  <2>2. R * a \in Nat \ {0} BY <1>1
  <2> HIDE DEF B
  <2> QED BY <1>1, <1>2, <2>1, <2>2
<1> HIDE DEF B
<1>6. B * B \in Nat \ {0} BY <1>4, <1>5
<1>7. /\ B * B \in Nat \ {0} /\ R <= B * B /\ (B * B) % R = 0
  BY <1>4, <1>5
<1>8. /\ (B * B) * (B * B) \in Nat \ {0} /\ R <= (B * B) * (B * B)
       /\ ((B * B) * (B * B)) % R = 0
  <2> DEFINE C == B * B
  <2>1. (B * B) * (B * B) = B * (B * (B * B))
    <3>1. C \in Nat \ {0} BY <1>6
    <3> HIDE DEF C
    <3>2. (B * B) * C = B * (B * C) BY <1>3, <1>4, <3>1
    <3> QED BY <3>2 DEF C
  <2>2. B * C \in Nat \ {0}
    <3> HIDE DEF C
    <3> QED BY <1>5, <1>6 DEF C
  <2> DEFINE D == B * C
  <2>3. B * D \in Nat \ {0} /\ R <= B * D /\ (B * D) % R = 0
    <3> HIDE DEF D
    <3> QED BY <1>5, <2>2 DEF D
  <2> QED BY <2>1, <2>3
<1> QED BY <1>4, <1>7, <1>8 DEF B

\* Cells of one, two or four bytes: the cursor moves in whole cells of the line.
LEMMA CellMoves ==
    ASSUME NEW c \in {1, 2, 4}, NEW line \in Nat \ {0}, line % 4 = 0,
           NEW x \in 0 .. line - 1
    PROVE  /\ x % c = 0 => x + c <= line
           /\ x % c = 0 /\ ~(x < c) => x - c \in 0 .. line - 1 /\ (x - c) % c = 0
           /\ x % c = 0 /\ ~(x + c >= line) => x + c \in 0 .. line - 1 /\ (x + c) % c = 0
           /\ x - (x % c) \in 0 .. line - 1 /\ (x - (x % c)) % c = 0
<1>1. CASE c = 1 BY <1>1
<1>2. CASE c = 2
  <2>1. line % 2 = 0 OBVIOUS
  <2> QED BY <1>2, <2>1
<1>3. CASE c = 4 BY <1>3
<1> QED BY <1>1, <1>2, <1>3

\* A grid of lines of so many bytes.
LEMMA GridFacts ==
    ASSUME NEW line \in Nat \ {0}, NEW rows \in Nat, NEW y \in 0 .. rows - 1,
           NEW x \in Nat, NEW c \in Nat, x + c <= line
    PROVE  y * line + x \in Nat /\ y * line + x + c <= rows * line
<1>1. \A a, b \in Nat : a * line \in Nat /\ (a + b) * line = a * line + b * line OBVIOUS
<1>2. PICK d \in Nat : rows = (y + 1) + d BY rows - (y + 1) \in Nat
<1>3. rows * line = (y * line + 1 * line) + d * line BY <1>1, <1>2
<1>4. y * line \in Nat /\ d * line \in Nat /\ 1 * line = line BY <1>1
<1> QED BY <1>3, <1>4

\* The block after the one at b.
LEMMA NextBlock ==
    ASSUME NEW m \in Nat \ {0}, NEW b \in Nat, b % m = 0
    PROVE  b + m \in Nat /\ (b + m) % m = 0
<1> DEFINE q == b \div m
<1>1. q \in Nat /\ b = m * q
  <2>1. \A u \in Nat : u \div m \in Nat /\ u = m * (u \div m) + (u % m) OBVIOUS
  <2> QED BY <2>1
<1> HIDE DEF q
<1>2. \A z \in Nat : m * (z + 1) = m * z + m OBVIOUS
<1>3. \A z \in Nat : (m * z) % m = 0 OBVIOUS
<1>4. b + m = m * (q + 1) /\ q + 1 \in Nat BY <1>1, <1>2
<1>5. (m * (q + 1)) % m = 0 BY <1>3, <1>4
<1> QED BY <1>4, <1>5

\* The pages of m next to the page b in a space of n, on a number line that
\* wraps at n and on one that does not.
LEMMA NextPages ==
    ASSUME NEW m \in Nat \ {0}, NEW n \in Nat \ {0}, n % m = 0,
           NEW b \in 0 .. n - m, b % m = 0
    PROVE  /\ b + m < n => b + m \in 0 .. n - m /\ (b + m) % m = 0
           /\ b + m >= n => b + m = n
           /\ b - m >= 0 => b - m \in 0 .. n - m /\ (b - m) % m = 0
           /\ b - m < 0 => b = 0
           /\ (b + n - m) % n = IF b - m >= 0 THEN b - m ELSE n - m
           /\ (b + m) % n = IF b + m < n THEN b + m ELSE 0
<1> DEFINE q == b \div m
<1>1. b \in Nat /\ m <= n /\ q \in Nat /\ b = m * q
  <2>1. \A u \in Nat : u \div m \in Nat /\ u = m * (u \div m) + (u % m) OBVIOUS
  <2> QED BY <2>1
<1> HIDE DEF q
<1>2. \A z \in Int : m * z >= 0 => (m * z) % m = 0 OBVIOUS
<1>3. b + m = m * (q + 1) /\ b - m = m * (q - 1)
  <2>1. \A z \in Nat : m * (z + 1) = m * z + m /\ m * (z - 1) = m * z - m OBVIOUS
  <2> QED BY <1>1, <2>1
<1>4. (b + m) % m = 0 /\ (b - m >= 0 => (b - m) % m = 0)
  <2>1. q + 1 \in Int /\ q - 1 \in Int BY <1>1
  <2>2. m * (q + 1) >= 0 BY <1>1, <1>3
  <2> QED BY <1>2, <1>3, <2>1, <2>2
<1>5. b - m < 0 => b = 0
  <2> SUFFICES ASSUME b - m < 0, 0 < b PROVE FALSE BY <1>1
  <2>1. 0 \in Nat /\ 0 % m = 0 OBVIOUS
  <2>2. 0 + m <= b BY <1>1, <2>1, Multiples
  <2> QED BY <1>1, <2>2
<1>6. b + m < n => b + m + m <= n
  <2> SUFFICES ASSUME b + m < n PROVE b + m + m <= n OBVIOUS
  <2>1. b + m \in Nat BY <1>1
  <2> QED BY <1>4, <2>1, Multiples
<1>7. \A z \in Nat : z < n => z % n = z /\ (z + n) % n = z OBVIOUS
<1>8. (b + n - m) % n = IF b - m >= 0 THEN b - m ELSE n - m
  <2>1. CASE b - m >= 0
    <3>1. b - m \in Nat /\ b - m < n /\ b + n - m = (b - m) + n BY <1>1, <2>1
    <3> QED BY <1>7, <2>1, <3>1
  <2>2. CASE b - m < 0
    <3>1. b = 0 BY <1>5, <2>2
    <3>2. b + n - m \in Nat /\ b + n - m < n /\ b + n - m = n - m BY <1>1, <3>1
    <3> QED BY <1>7, <2>2, <3>2
  <2> QED BY <1>1, <2>1, <2>2
<1>9. (b + m) % n = IF b + m < n THEN b + m ELSE 0
  <2>1. CASE b + m < n
    <3>1. b + m \in Nat BY <1>1
    <3> QED BY <1>7, <2>1, <3>1
  <2>2. CASE b + m >= n
    <3>1. b + m = 0 + n BY <1>1, <2>2
    <3>2. (0 + n) % n = 0 BY <1>7
    <3> QED BY <2>2, <3>1, <3>2
  <2> QED BY <1>1, <2>1, <2>2
<1> QED BY <1>1, <1>4, <1>5, <1>6, <1>8, <1>9

=============================================================================
