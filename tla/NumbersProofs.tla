------------------------- MODULE NumbersProofs -------------------------
(***************************************************************************)
(* Theorems about Numbers, for every width of the integers and all moduli: *)
(* mult_and_mod() does not overflow, and a Modulo that is not divided is   *)
(* the residue of what was computed.  What carries them is that a residue  *)
(* is the only number below the modulus that is a multiple of it away.     *)
(***************************************************************************)
EXTENDS Numbers, FiniteSetTheorems, SequenceTheorems, TLAPS

----------------------------------------------------------------------------
(* Residues *)

\* A number is its quotient times the modulus, and its residue.
LEMMA DivMod ==
  ASSUME NEW n \in Nat \ {0}, NEW x \in Int
  PROVE  x \div n \in Int /\ x % n \in 0 .. n - 1 /\ x = n * (x \div n) + (x % n)
BY SMT

\* A multiple of n which is less than n apart from 0 is 0.
LEMMA SmallMultiple ==
  ASSUME NEW n \in Nat \ {0}, NEW k \in Int, -n < n * k, n * k < n
  PROVE  k = 0
<1>1. CASE k >= 1
  <2>1. n * k >= n
    BY <1>1, SMT
  <2> QED BY <2>1, SMT
<1>2. CASE k <= -1
  <2>1. n * k <= -n
    BY <1>2, SMT
  <2> QED BY <2>1, SMT
<1> QED BY <1>1, <1>2, SMT

\* The residue is the only number below n that is a multiple of n away.
LEMMA ResidueUnique ==
  ASSUME NEW n \in Nat \ {0}, NEW x \in Int, NEW q \in Int, NEW r \in 0 .. n - 1, x = n * q + r
  PROVE  x % n = r
<1> DEFINE k == x \div n
           s == x % n
<1>1. k \in Int /\ s \in 0 .. n - 1 /\ x = n * k + s
  BY DivMod
<1> HIDE DEF k, s
<1>2. n * (q - k) = s - r
  BY <1>1, SMT
<1>3. q - k = 0
  BY <1>1, <1>2, SmallMultiple, SMT
<1>4. s = r
  BY <1>1, <1>2, <1>3, SMT
<1> QED BY <1>4 DEF s

\* Multiples of n do not change the residue.
LEMMA ResidueShift ==
  ASSUME NEW n \in Nat \ {0}, NEW x \in Int, NEW k \in Int
  PROVE  (x + n * k) % n = x % n
<1>1. x \div n \in Int /\ x % n \in 0 .. n - 1 /\ x = n * (x \div n) + (x % n)
  BY DivMod
<1> DEFINE q == x \div n
           r == x % n
<1>2. q \in Int /\ r \in 0 .. n - 1 /\ x = n * q + r
  BY <1>1
<1> HIDE DEF q, r
<1>3. x + n * k = n * (q + k) + r
  BY <1>2, SMT
<1>4. (x + n * k) % n = r
  BY <1>2, <1>3, ResidueUnique, SMT
<1> QED BY <1>4 DEF r

\* Numbers below n are their own residues.
LEMMA ResidueSmall ==
  ASSUME NEW n \in Nat \ {0}, NEW r \in 0 .. n - 1
  PROVE  r % n = r
<1>1. r = n * 0 + r
  BY SMT
<1> QED BY <1>1, ResidueUnique, SMT

\* The residue of a product is that of the product of the residues.
LEMMA ResidueTimes ==
  ASSUME NEW n \in Nat \ {0}, NEW a \in Int, NEW b \in Int
  PROVE  ((a % n) * (b % n)) % n = (a * b) % n
<1> DEFINE p == a \div n
           q == b \div n
           x == a % n
           y == b % n
<1>1. /\ p \in Int /\ q \in Int /\ x \in 0 .. n - 1 /\ y \in 0 .. n - 1
      /\ a = n * p + x /\ b = n * q + y
  BY DivMod
<1> HIDE DEF p, q, x, y
<1>2. a * b = x * y + n * (p * b + x * q)
  BY <1>1, SMT
<1>3. (a * b) % n = (x * y) % n
  <2> DEFINE k == p * b + x * q
             z == x * y
  <2>1. k \in Int /\ z \in Int /\ a * b = z + n * k
    BY <1>1, <1>2, SMT
  <2> HIDE DEF k, z
  <2>2. (a * b) % n = z % n
    BY <2>1, ResidueShift
  <2> QED BY <2>2 DEF z
<1> QED BY <1>3 DEF x, y

\* Half of the range, and the range.
LEMMA Range2 ==
  /\ 2 ^ (Width - 1) \in Nat \ {0} /\ 2 ^ Width \in Nat \ {0}
  /\ 2 ^ Width = 2 * 2 ^ (Width - 1)
<1> DEFINE h == 2 ^ (Width - 1)
           w == 2 ^ Width
<1>1. h \in Nat \ {0} /\ w = 2 * h
  BY PowersAssumption
<1> HIDE DEF h, w
<1>2. h \in Nat \ {0} /\ w \in Nat \ {0} /\ w = 2 * h
  BY <1>1, SMT
<1> QED BY <1>2 DEF h, w

\* What fits does not wrap.
LEMMA WrapFits == \A x \in H : Wrap(x) = x
BY ResidueSmall, Range2 DEF H, Wrap

\* Nothing reduced twice.
LEMMA ReducedExact ==
  ASSUME NEW n \in Nat \ {0}, NEW x \in 0 .. 2 * n - 1
  PROVE  Reduced(x, n) = x % n
<1>1. CASE x >= n
  <2>1. x - n \in 0 .. n - 1 /\ x = n * 1 + (x - n)
    BY <1>1, SMT
  <2>2. x % n = x - n
    BY <2>1, ResidueUnique, SMT
  <2> QED BY <1>1, <2>2 DEF Reduced
<1>2. CASE ~(x >= n)
  <2>1. x % n = x
    BY <1>2, ResidueSmall, SMT
  <2> QED BY <1>2, <2>1 DEF Reduced
<1> QED BY <1>1, <1>2

----------------------------------------------------------------------------
(* mult_and_mod() *)

\* Neither branch of the loop lets a sum wrap: it is the residue of the sum.
LEMMA SumModuloExact ==
  ASSUME NEW n \in H \ {0}, NEW a \in 0 .. n - 1, NEW b \in 0 .. n - 1
  PROVE  SumModulo(a, b, n) = (a + b) % n
<1> DEFINE h == 2 ^ (Width - 1)
           w == 2 ^ Width
<1>1. h \in Nat \ {0} /\ w \in Nat \ {0} /\ w = 2 * h /\ n \in 1 .. w - 1
  BY Range2, SMT DEF H
<1>2. \A x \in 0 .. w - 1 : Wrap(x) = x
  BY WrapFits DEF H
<1>3. n \in Nat \ {0} /\ a \in Int /\ b \in Int /\ a + b \in 0 .. 2 * n - 2
  BY <1>1, SMT
<1>4. SumModulo(a, b, n) = IF n <= h THEN Reduced(Wrap(a + b), n)
                           ELSE IF n - a > b THEN Wrap(a + b) ELSE Wrap(a + b - n)
  BY DEF SumModulo
<1> HIDE DEF h, w
<1>5. CASE n <= h
  <2>1. a + b \in 0 .. w - 1 /\ a + b \in 0 .. 2 * n - 1
    BY <1>1, <1>3, <1>5, SMT
  <2>2. Wrap(a + b) = a + b
    BY <1>2, <2>1
  <2>3. Reduced(a + b, n) = (a + b) % n
    BY <1>3, <2>1, ReducedExact
  <2> QED BY <1>4, <1>5, <2>2, <2>3
<1>6. CASE ~(n <= h) /\ n - a > b
  <2>1. a + b \in 0 .. n - 1 /\ a + b \in 0 .. w - 1
    BY <1>1, <1>3, <1>6, SMT
  <2>2. Wrap(a + b) = a + b
    BY <1>2, <2>1
  <2>3. (a + b) % n = a + b
    BY <1>3, <2>1, ResidueSmall
  <2> QED BY <1>4, <1>6, <2>2, <2>3
<1>7. CASE ~(n <= h) /\ ~(n - a > b)
  <2>1. a + b - n \in 0 .. n - 1 /\ a + b - n \in 0 .. w - 1 /\ a + b = n * 1 + (a + b - n)
    BY <1>1, <1>3, <1>7, SMT
  <2>2. Wrap(a + b - n) = a + b - n
    BY <1>2, <2>1
  <2>3. (a + b) % n = a + b - n
    BY <1>3, <2>1, ResidueUnique, SMT
  <2> QED BY <1>4, <1>7, <2>2, <2>3
<1> QED BY <1>5, <1>6, <1>7

\* The factors and the result are residues.
ProductShape ==
  /\ product \in [a : Nat, b : Nat, r : Nat, n : H \ {0}, exact : Int]
  /\ product.a < product.n /\ product.r < product.n

ProductInv == ProductShape /\ ProductExact

\* What mult_and_mod() starts from.
LEMMA NewProductInv ==
  ASSUME NEW a \in H, NEW b \in H, NEW n \in H \ {0}, product = NewProduct(a, b, n)
  PROVE  ProductInv
<1> DEFINE x == a % n
           y == b % n
<1>1. n \in Nat \ {0} /\ a \in Int /\ b \in Int
  BY Range2, SMT DEF H
<1>2. x \in 0 .. n - 1 /\ y \in 0 .. n - 1 /\ (x * y) % n = (a * b) % n
  BY <1>1, DivMod, ResidueTimes
<1>3. (a * b) % n \in 0 .. n - 1
  <2>1. a * b \in Int
    BY <1>1, SMT
  <2> QED BY <1>1, <2>1, DivMod
<1> DEFINE e == (a * b) % n
           xy == x * y
           small == x < 2 ^ (Width \div 2) /\ y < 2 ^ (Width \div 2)
<1>4. product = [a |-> IF x < y THEN y ELSE x,
                 b |-> IF small THEN 0 ELSE IF x < y THEN x ELSE y,
                 r |-> IF small THEN xy % n ELSE 0, n |-> n, exact |-> e]
  BY DEF NewProduct
<1>5. e \in 0 .. n - 1 /\ xy = x * y /\ xy % n = e /\ x \in 0 .. n - 1 /\ y \in 0 .. n - 1
  BY <1>2, <1>3
<1> HIDE DEF x, y, e, xy, small
<1>6. CASE small
  <2>1. product.a \in 0 .. n - 1 /\ product.b = 0 /\ product.r = e /\ product.n = n
    BY <1>4, <1>5, <1>6
  <2>2. product.r + product.a * product.b = e
    BY <1>1, <1>5, <2>1, SMT
  <2>3. e % n = e
    BY <1>1, <1>5, ResidueSmall
  <2>4. ProductExact
    <3>1. product.exact = e /\ product.r < n
      BY <1>1, <1>4, <1>5, <2>1, SMT
    <3> QED BY <2>1, <2>2, <2>3, <3>1 DEF ProductExact
  <2>5. ProductShape
    BY <1>1, <1>4, <1>5, <2>1, <1>6, SMT DEF ProductShape
  <2> QED BY <2>4, <2>5 DEF ProductInv
<1>7. CASE ~small
  <2>1. product.a \in 0 .. n - 1 /\ product.b \in 0 .. n - 1 /\ product.r = 0 /\ product.n = n
    BY <1>4, <1>5, <1>7
  <2>2. product.r + product.a * product.b = xy
    <3>1. CASE x < y
      BY <1>1, <1>4, <1>5, <1>7, <3>1, SMT
    <3>2. CASE ~(x < y)
      BY <1>1, <1>4, <1>5, <1>7, <3>2, SMT
    <3> QED BY <3>1, <3>2
  <2>3. ProductExact
    BY <1>1, <1>4, <1>5, <2>1, <2>2, SMT DEF ProductExact
  <2>4. ProductShape
    BY <1>1, <1>4, <1>5, <2>1, <1>7, SMT DEF ProductShape
  <2> QED BY <2>3, <2>4 DEF ProductInv
<1> QED BY <1>6, <1>7

\* A turn moves the last bit of b's share of the product to r.
LEMMA ProductTurnKeeps ==
  ASSUME ProductInv, ProductTurn
  PROVE  ProductInv'
<1> DEFINE a == product.a
           b == product.b
           r == product.r
           n == product.n
           half == b \div 2
           sum == SumModulo(r, a, n)
           twice == SumModulo(a, a, n)
<1>1. /\ n \in H \ {0} /\ n \in Nat \ {0} /\ a \in 0 .. n - 1 /\ r \in 0 .. n - 1 /\ b \in Nat \ {0}
      /\ (r + a * b) % n = product.exact
  BY Range2, SMT DEF ProductInv, ProductShape, ProductExact, H, ProductTurn
<1>2. sum = (r + a) % n /\ twice = (a + a) % n
  BY <1>1, SumModuloExact
<1>3. product' = [product EXCEPT !.r = IF b % 2 = 1 THEN sum ELSE r,
                                 !.a = IF b > 1 THEN twice ELSE a,
                                 !.b = half]
  BY DEF ProductTurn
<1>4. product \in [a : Nat, b : Nat, r : Nat, n : H \ {0}, exact : Int]
  BY DEF ProductInv, ProductShape
<1>5. /\ (r + a) \div n \in Int /\ sum \in 0 .. n - 1 /\ r + a = n * ((r + a) \div n) + sum
      /\ (a + a) \div n \in Int /\ twice \in 0 .. n - 1 /\ a + a = n * ((a + a) \div n) + twice
  <2>1. r + a \in Int /\ a + a \in Int
    BY <1>1, SMT
  <2> QED BY <1>1, <1>2, <2>1, DivMod
<1>6. PICK i \in Int, j \in Int : r + a = n * i + sum /\ a + a = n * j + twice
  BY <1>5
<1>7. sum \in 0 .. n - 1 /\ twice \in 0 .. n - 1
  BY <1>5
<1>8. half \in Nat /\ b % 2 \in {0, 1} /\ b = 2 * half + (b % 2) /\ (b > 1 <=> half # 0)
  <2>1. 2 \in Nat \ {0} /\ b \in Int
    BY <1>1
  <2>2. half \in Int /\ b % 2 \in 0 .. 2 - 1 /\ b = 2 * half + (b % 2)
    BY <2>1, DivMod
  <2> HIDE DEF half, b
  <2> QED BY <1>1, <2>2, SMT
<1> DEFINE rr == IF b % 2 = 1 THEN sum ELSE r
           aa == IF b > 1 THEN twice ELSE a
           bit == b % 2
<1>9. /\ product'.r = rr /\ product'.a = aa /\ product'.b = half /\ product'.n = n
      /\ product'.exact = product.exact
  BY <1>3, <1>4
<1>10. product' \in [a : Nat, b : Nat, r : Nat, n : H \ {0}, exact : Int]
  <2>1. rr \in Nat /\ aa \in Nat
    BY <1>1, <1>7, SMT
  <2> HIDE DEF rr, aa, half
  <2>2. product' = [product EXCEPT !.r = rr, !.a = aa, !.b = half]
    BY <1>3 DEF rr, aa, half
  <2> QED BY <1>4, <1>8, <2>1, <2>2
<1>11. rr \in 0 .. n - 1 /\ aa \in 0 .. n - 1
  BY <1>1, <1>7
<1> HIDE DEF a, b, r, n, half, sum, twice
<1>12. \E k \in Int : rr + aa * half = (r + a * b) + n * k
  <2>1. \E i1 \in Int : rr = r + a * bit - n * i1
    <3>1. CASE bit = 1
      <4>1. rr = sum
        BY <3>1
      <4> HIDE DEF rr, bit
      <4>2. rr = r + a * bit - n * i
        BY <1>1, <1>6, <1>7, <3>1, <4>1, SMT
      <4> QED BY <1>6, <4>2
    <3>2. CASE bit = 0
      <4>1. rr = r + a * bit - n * 0
        BY <1>1, <3>2, SMT
      <4> QED BY <4>1
    <3> QED BY <1>8, <3>1, <3>2
  <2>2. \E j1 \in Int : aa * half = (a + a) * half - n * (j1 * half)
    <3>1. CASE b > 1
      <4>1. aa = (a + a) - n * j
        BY <1>1, <1>6, <1>7, <3>1, SMT
      <4> HIDE DEF aa
      <4>2. aa * half = (a + a) * half - n * (j * half)
        BY <1>1, <1>6, <1>7, <1>8, <4>1, SMT
      <4> QED BY <1>6, <4>2
    <3>2. CASE ~(b > 1)
      <4>1. half = 0
        BY <1>8, <3>2
      <4> HIDE DEF aa
      <4>2. aa * half = (a + a) * half - n * (0 * half)
        BY <1>1, <1>11, <4>1, SMT
      <4> QED BY <4>2
    <3> QED BY <3>1, <3>2
  <2>3. PICK i1 \in Int : rr = r + a * bit - n * i1
    BY <2>1
  <2>4. PICK j1 \in Int : aa * half = (a + a) * half - n * (j1 * half)
    BY <2>2
  <2> HIDE DEF rr, aa, bit
  <2>5. a * b = (a + a) * half + a * bit
    BY <1>1, <1>8, SMT DEF bit
  <2> DEFINE u == aa * half
             k == -i1 - j1 * half
  <2>6. k \in Int /\ rr + u = (r + a * b) + n * k
    BY <1>1, <1>8, <2>3, <2>4, <2>5, SMT DEF bit
  <2> QED BY <2>6
<1>13. (rr + aa * half) % n = product.exact
  <2>1. PICK k \in Int : rr + aa * half = (r + a * b) + n * k
    BY <1>12
  <2> DEFINE p == r + a * b
  <2>2. p \in Int /\ p % n = product.exact
    BY <1>1, SMT
  <2> HIDE DEF p
  <2>3. (p + n * k) % n = p % n
    BY <1>1, <2>2, ResidueShift
  <2> QED BY <2>1, <2>2, <2>3 DEF p
<1>14. ProductShape'
  BY <1>1, <1>9, <1>10, <1>11, SMT DEF ProductShape
<1>15. ProductExact'
  BY <1>1, <1>9, <1>11, <1>13, SMT DEF ProductExact
<1> QED BY <1>14, <1>15 DEF ProductInv

\* Nothing but mult_and_mod() touches its variables.
LEMMA OthersKeepProduct ==
  ASSUME Next
  PROVE  ProductTurn \/ UNCHANGED product
<1>1. ModuloNext => UNCHANGED product
  BY DEF ModuloNext, PushContext, PopContext, Construct, Assign, Add, Subtract, Multiply, Divide,
         Increment, Decrement, Becomes
<1>2. HashNext => UNCHANGED product
  BY DEF HashNext, HashConstruct, HashAdd, HashSubtract, HashMultiply, HashDivide, Hashed
<1>3. BinomialNext => UNCHANGED product
  BY DEF BinomialNext, Ask, MoveL, MoveU, MoveD, MoveR, Moved
<1>4. NextNumber => UNCHANGED product
  BY DEF NextNumber
<1> QED BY <1>1, <1>2, <1>3, <1>4 DEF Next

\* mult_and_mod() keeps the residue of the product, and r below the modulus, in
\* each turn and in both branches, whatever the width of its integers: no sum
\* of its loop overflows.
THEOREM ProductsStayExact == Spec => []ProductExact
<1>1. Init => ProductInv
  <2> SUFFICES ASSUME Init PROVE ProductInv
    OBVIOUS
  <2>1. 0 \in H /\ 1 \in H \ {0}
    BY Range2, SMT DEF H
  <2>2. CASE product = NewProduct(0, 0, 1)
    BY <2>1, <2>2, NewProductInv
  <2>3. CASE \E a, b \in H, n \in H \ {0} : product = NewProduct(a, b, n)
    BY <2>3, NewProductInv
  <2> QED BY <2>2, <2>3 DEF Init
<1>2. ProductInv /\ [Next]_vars => ProductInv'
  <2> SUFFICES ASSUME ProductInv, [Next]_vars PROVE ProductInv'
    OBVIOUS
  <2>1. CASE ProductTurn
    BY <2>1, ProductTurnKeeps
  <2>2. CASE UNCHANGED product
    BY <2>2 DEF ProductInv, ProductShape, ProductExact
  <2> QED BY <2>1, <2>2, OthersKeepProduct DEF vars
<1>3. ProductInv => ProductExact
  BY DEF ProductInv
<1> QED BY <1>1, <1>2, <1>3, PTL DEF Spec

----------------------------------------------------------------------------
(* Modulo *)

\* A modulus is any number but 0.
LEMMA ModuliFit ==
  ASSUME NEW m \in 1 .. 2 ^ Width - 1
  PROVE  m \in Nat \ {0} /\ m < 2 ^ Width
<1> DEFINE w == 2 ^ Width
<1>1. w \in Nat \ {0} /\ m \in 1 .. w - 1
  BY Range2
<1> HIDE DEF w
<1>2. m \in Nat \ {0} /\ m < w
  BY <1>1, SMT
<1> QED BY <1>2 DEF w

\* A sum of two residues that is formed in H and reduced once is their residue, and
\* below the modulus if it has wrapped, which it does only above half of the range.
LEMMA SumExact ==
  ASSUME NEW m \in 1 .. 2 ^ Width - 1, NEW s \in 0 .. 2 * m - 1
  PROVE  /\ Reduced(Wrap(s), m) \in 0 .. m - 1
         /\ s \in H => Reduced(Wrap(s), m) = s % m
         /\ s \notin H => m > 2 ^ (Width - 1)
<1> DEFINE h == 2 ^ (Width - 1)
           w == 2 ^ Width
<1>1. h \in Nat \ {0} /\ w \in Nat \ {0} /\ w = 2 * h /\ m \in Nat \ {0} /\ m < w
  BY Range2, ModuliFit
<1>2. H = 0 .. w - 1
  BY DEF H
<1>3. CASE s \in H
  <2>1. Wrap(s) = s
    BY <1>3, WrapFits
  <2>2. Reduced(s, m) = s % m
    BY <1>1, ReducedExact
  <2>3. s % m \in 0 .. m - 1
    <3>1. s \in Int
      OBVIOUS
    <3> QED BY <1>1, <3>1, DivMod
  <2> QED BY <1>3, <2>1, <2>2, <2>3
<1>4. CASE s \notin H
  <2> HIDE DEF h, w
  <2>1. s >= w /\ s \in Int /\ s = w * 1 + (s - w) /\ s - w \in 0 .. w - 1 /\ s - w \in 0 .. m - 1
    BY <1>1, <1>2, <1>4, SMT
  <2>2. s % w = s - w
    BY <1>1, <2>1, ResidueUnique, SMT
  <2>3. Reduced(s - w, m) = s - w
    BY <1>1, <2>1, SMT DEF Reduced
  <2>4. m > h
    BY <1>1, <2>1, SMT
  <2> QED BY <1>4, <2>1, <2>2, <2>3, <2>4 DEF Wrap, h, w
<1> QED BY <1>3, <1>4

\* _fix_range() finds the residue, of negative numbers too.
LEMMA FixRangeExact ==
  ASSUME NEW m \in 1 .. 2 ^ Width - 1, NEW x \in Int
  PROVE  FixRange(x, m) = x % m
<1> DEFINE w == 2 ^ Width
<1>1. m \in Nat \ {0} /\ w \in Nat \ {0} /\ m < w
  BY ModuliFit, Range2
<1>2. CASE x >= m /\ x - m < m
  <2>1. x - m \in 0 .. m - 1 /\ x = m * 1 + (x - m)
    BY <1>1, <1>2, SMT
  <2>2. x % m = x - m
    BY <1>1, <2>1, ResidueUnique, SMT
  <2> QED BY <1>2, <2>2 DEF FixRange
<1>3. CASE x >= m /\ ~(x - m < m)
  <2> DEFINE z == x - m
             k == -1
  <2>1. z = x + m * k /\ k \in Int
    BY <1>1, SMT
  <2> HIDE DEF z, k
  <2>2. z % m = x % m
    BY <1>1, <2>1, ResidueShift
  <2> QED BY <1>3, <2>2 DEF FixRange, z
<1>4. CASE ~(x >= m) /\ x >= 0
  <2>1. x % m = x
    BY <1>1, <1>4, ResidueSmall, SMT
  <2> QED BY <1>4, <2>1 DEF FixRange
<1>5. CASE ~(x >= 0) /\ x + m >= 0
  <2>1. x + m \in 0 .. m - 1 /\ x = m * (-1) + (x + m) /\ ~(x >= m)
    BY <1>1, <1>5, SMT
  <2>2. x % m = x + m
    BY <1>1, <2>1, ResidueUnique, SMT
  <2> QED BY <1>5, <2>1, <2>2 DEF FixRange
<1>6. CASE ~(x >= 0) /\ ~(x + m >= 0)
  <2> DEFINE y == -(x + m)
             q == y \div m
             c == y % m
             r == Wrap(-c)
  <2>1. FixRange(x, m) = IF r # 0 THEN Wrap(m + r) ELSE 0
    <3>1. ~(x >= m)
      BY <1>1, <1>6, SMT
    <3> QED BY <1>6, <3>1 DEF FixRange
  <2>2. y \in Int /\ q \in Int /\ c \in 0 .. m - 1 /\ y = m * q + c
    <3>1. y \in Int
      BY <1>1
    <3> QED BY <1>1, <3>1, DivMod
  <2> HIDE DEF q, c
  <2>3. CASE c = 0
    <3>1. r = 0
      <4>1. 0 \in H
        BY Range2, SMT DEF H
      <4>2. Wrap(0) = 0
        BY <4>1, WrapFits
      <4> DEFINE z == -c
      <4>3. z = 0 - c
        BY <2>2
      <4> HIDE DEF z
      <4>4. z = 0
        BY <2>3, <4>3
      <4> QED BY <4>2, <4>4 DEF z
    <3>2. x = m * (-1 - q) + 0
      BY <1>1, <2>2, <2>3, SMT
    <3>3. -1 - q \in Int /\ 0 \in 0 .. m - 1
      BY <1>1, <2>2, SMT
    <3>4. x % m = 0
      BY <1>1, <3>2, <3>3, ResidueUnique
    <3> QED BY <2>1, <3>1, <3>4
  <2>4. CASE c # 0
    <3>1. -c = w * (-1) + (w - c) /\ w - c \in 0 .. w - 1 /\ -c \in Int /\ w - c # 0
      BY <1>1, <2>2, <2>4, SMT
    <3>2. r = w - c
      BY <1>1, <3>1, ResidueUnique, SMT DEF Wrap
    <3>3. m + (w - c) = w * 1 + (m - c) /\ m - c \in 0 .. w - 1 /\ m + (w - c) \in Int
      BY <1>1, <2>2, <2>4, SMT
    <3>4. Wrap(m + (w - c)) = m - c
      <4> DEFINE z == m + (w - c)
      <4>1. z \in Int /\ 1 \in Int /\ z = w * 1 + (m - c)
        BY <3>3
      <4> HIDE DEF w, z
      <4>2. z % w = m - c
        BY <1>1, <3>3, <4>1, ResidueUnique
      <4> QED BY <4>2 DEF Wrap, w, z
    <3>5. x = m * (-2 - q) + (m - c) /\ m - c \in 0 .. m - 1 /\ -2 - q \in Int
      BY <1>1, <2>2, <2>4, SMT
    <3>6. x % m = m - c
      BY <1>1, <3>5, ResidueUnique
    <3> QED BY <2>1, <3>1, <3>2, <3>4, <3>6
  <2> QED BY <2>3, <2>4
<1> QED BY <1>1, <1>2, <1>3, <1>4, <1>5, <1>6, SMT

\* The types of contexts, of which the others say more.
Contexts == [mod : 1 .. 2 ^ Width - 1, totient : Nat, h : Nat, exact : Nat \cup {Lost}]

ModuloInv == contexts \in Seq(Contexts) /\ ModuloExact

\* What a value may stand for.
StandsFor(h, exact) ==
  /\ h \in 0 .. Top.mod - 1
  /\ exact = h \/ (exact = Lost /\ Top.mod > 2 ^ (Width - 1))

\* The innermost context.
LEMMA TopIs ==
  ASSUME ModuloInv, Depth > 0
  PROVE  /\ Depth \in 1 .. Len(contexts) /\ Top \in Contexts /\ Top = contexts[Depth]
         /\ Top.mod \in 1 .. 2 ^ Width - 1 /\ StandsFor(Top.h, Top.exact)
<1>1. Depth \in 1 .. Len(contexts) /\ Top = contexts[Depth] /\ Top \in Contexts
  BY DEF ModuloInv, Depth, Top
<1>2. Depth \in 1 .. Depth
  BY <1>1
<1> QED BY <1>1, <1>2 DEF ModuloInv, ModuloExact, StandsFor, Contexts

\* It becomes what stands for that.
LEMMA BecomesKeeps ==
  ASSUME ModuloInv, Depth > 0, NEW e, NEW x, StandsFor(e, x), Becomes(e, x)
  PROVE  ModuloInv'
<1>1. /\ Depth \in 1 .. Len(contexts) /\ Len(contexts) \in Nat /\ Depth = Len(contexts)
      /\ Top \in Contexts /\ Top = contexts[Depth]
  BY TopIs DEF ModuloInv, Depth
<1>2. contexts' = [contexts EXCEPT ![Depth].h = e, ![Depth].exact = x]
  BY DEF Becomes
<1>3. e \in Nat /\ x \in Nat \cup {Lost} /\ e \in 0 .. Top.mod - 1
  BY <1>1, SMT DEF StandsFor
<1> DEFINE new == [Top EXCEPT !.h = e, !.exact = x]
<1>4. new \in Contexts /\ new.h = e /\ new.exact = x /\ new.mod = Top.mod
  BY <1>1, <1>3 DEF Contexts
<1>5. contexts' = [contexts EXCEPT ![Depth] = new]
  BY <1>1, <1>2 DEF ModuloInv
<1> HIDE DEF new
<1>6. contexts' \in Seq(Contexts) /\ Len(contexts') = Len(contexts)
  BY <1>1, <1>4, <1>5 DEF ModuloInv
<1>7. ASSUME NEW d \in 1 .. Len(contexts)
      PROVE  /\ contexts'[d].h \in 0 .. contexts'[d].mod - 1
             /\ contexts'[d].exact \in {contexts'[d].h, Lost}
             /\ contexts'[d].exact = Lost => contexts'[d].mod > 2 ^ (Width - 1)
  <2>1. CASE d = Depth
    <3>1. contexts'[d] = new
      BY <1>1, <1>5, <1>7, <2>1 DEF ModuloInv
    <3>2. x = Lost => Top.mod > 2 ^ (Width - 1)
      <4>1. Lost \notin Nat
        BY SMT DEF Lost
      <4> QED BY <1>3, <4>1 DEF StandsFor
    <3>3. x \in {e, Lost} /\ e \in 0 .. Top.mod - 1
      BY DEF StandsFor
    <3> QED BY <1>4, <3>1, <3>2, <3>3
  <2>2. CASE d # Depth
    <3>1. contexts'[d] = contexts[d]
      BY <1>1, <1>5, <1>7, <2>2 DEF ModuloInv
    <3> QED BY <1>1, <1>7, <3>1 DEF ModuloInv, ModuloExact
  <2> QED BY <2>1, <2>2
<1> QED BY <1>1, <1>6, <1>7 DEF ModuloInv, ModuloExact, Depth

\* Every operation but division computes what stands for its exact result.
LEMMA OperationsKeep ==
  ASSUME ModuloInv, Depth > 0
  PROVE  /\ \A x \in Int : Construct(x) \/ Assign(x) => ModuloInv'
         /\ \A o \in 0 .. Top.mod - 1 : Add(o) \/ Subtract(o) \/ Multiply(o) => ModuloInv'
         /\ Increment \/ Decrement => ModuloInv'
<1> DEFINE m == Top.mod
           h == Top.h
<1>1. /\ m \in 1 .. 2 ^ Width - 1 /\ h \in 0 .. m - 1 /\ m \in Nat \ {0}
      /\ Top.exact # Lost => Top.exact = h
      /\ Top.exact = Lost => m > 2 ^ (Width - 1)
  <2>1. m \in 1 .. 2 ^ Width - 1 /\ StandsFor(Top.h, Top.exact)
    BY TopIs
  <2>2. m \in Nat \ {0}
    BY <2>1, ModuliFit
  <2> HIDE DEF m, h
  <2>3. h # Lost
    BY <2>1, <2>2, SMT DEF StandsFor, Lost, m, h
  <2> QED BY <2>1, <2>2, <2>3 DEF StandsFor, m, h
<1>2. \A x \in Int : x % m \in 0 .. m - 1
  BY <1>1, DivMod
<1>3. \A e, x : StandsFor(e, x) /\ Becomes(e, x) => ModuloInv'
  BY BecomesKeeps
<1>4. ASSUME NEW e \in 0 .. m - 1, NEW x \in Int, Top.exact = h => e = x % m
      PROVE  StandsFor(e, Residue(x))
  BY <1>1, <1>4 DEF StandsFor, Residue
<1>5. ASSUME NEW s \in 0 .. 2 * m - 1, NEW x \in Int, Top.exact = h => s % m = x % m
      PROVE  StandsFor(Reduced(Wrap(s), m), SumResidue(s, x))
  <2> DEFINE e == Reduced(Wrap(s), m)
  <2>1. e \in 0 .. m - 1 /\ (s \in H => e = s % m) /\ (s \notin H => m > 2 ^ (Width - 1))
    BY <1>1, SumExact
  <2> HIDE DEF e
  <2>2. s \in H => StandsFor(e, SumResidue(s, x))
    <3>1. s \in H => SumResidue(s, x) = Residue(x)
      BY DEF SumResidue
    <3> QED BY <1>4, <1>5, <2>1, <3>1
  <2>3. s \notin H => StandsFor(e, SumResidue(s, x))
    BY <2>1 DEF SumResidue, StandsFor
  <2> QED BY <2>2, <2>3 DEF e
<1>6. ASSUME NEW x \in Int, Construct(x) \/ Assign(x) PROVE ModuloInv'
  <2>1. ASSUME NEW y \in Int, Becomes(FixRange(y, m), y % m) PROVE ModuloInv'
    <3>1. FixRange(y, m) = y % m
      BY <1>1, FixRangeExact
    <3>2. StandsFor(FixRange(y, m), y % m)
      BY <1>2, <3>1 DEF StandsFor
    <3> QED BY <1>3, <2>1, <3>2
  <2>2. Wrap(x) \in Int
    BY Range2, DivMod, SMT DEF Wrap
  <2> QED BY <1>6, <2>1, <2>2 DEF Construct, Assign
<1>7. ASSUME NEW o \in 0 .. m - 1, Add(o) PROVE ModuloInv'
  <2> DEFINE s == h + o
             x == Top.exact + o
  <2>1. Becomes(Reduced(Wrap(s), m), SumResidue(s, x))
    BY <1>7 DEF Add
  <2>2. s \in 0 .. 2 * m - 1 /\ x \in Int /\ (Top.exact = h => s = x)
    <3>1. Top.exact \in Int
      BY <1>1, SMT DEF Lost
    <3> HIDE DEF m, h
    <3> QED BY <1>1, <3>1, SMT
  <2> HIDE DEF s, x
  <2>3. StandsFor(Reduced(Wrap(s), m), SumResidue(s, x))
    <3>1. Top.exact = h => s % m = x % m
      BY <2>2
    <3> HIDE DEF m, h
    <3> QED BY <1>5, <2>2, <3>1
  <2> QED BY <1>3, <2>1, <2>3
<1>8. ASSUME NEW o \in 0 .. m - 1, Subtract(o) PROVE ModuloInv'
  <2> DEFINE s == m + h - o
             x == Top.exact - o
  <2>1. Becomes(Reduced(Wrap(s), m), SumResidue(s, x))
    BY <1>8 DEF Subtract
  <2>2. s \in 0 .. 2 * m - 1 /\ s \in Int /\ x \in Int /\ (Top.exact = h => s = x + m * 1)
    <3>1. Top.exact \in Int
      BY <1>1, SMT DEF Lost
    <3> HIDE DEF m, h
    <3> QED BY <1>1, <3>1, SMT
  <2> HIDE DEF s, x
  <2>3. Top.exact = h => s % m = x % m
    <3>1. 1 \in Int
      OBVIOUS
    <3> QED BY <1>1, <2>2, <3>1, ResidueShift
  <2>4. StandsFor(Reduced(Wrap(s), m), SumResidue(s, x))
    <3> HIDE DEF m, h
    <3> QED BY <1>5, <2>2, <2>3
  <2> QED BY <1>3, <2>1, <2>4
<1>9. ASSUME NEW o \in 0 .. m - 1, Multiply(o) PROVE ModuloInv'
  <2> DEFINE x == Top.exact * o
  <2>1. Becomes((h * o) % m, Residue(x))
    BY <1>9 DEF Multiply
  <2>2. h * o \in Int /\ x \in Int /\ (Top.exact = h => h * o = x)
    <3>1. Top.exact \in Int
      BY <1>1, SMT DEF Lost
    <3> HIDE DEF m, h
    <3> QED BY <1>1, <3>1, SMT
  <2>3. (h * o) % m \in 0 .. m - 1
    BY <1>2, <2>2
  <2> HIDE DEF x
  <2>4. StandsFor((h * o) % m, Residue(x))
    BY <1>4, <2>2, <2>3
  <2> QED BY <1>3, <2>1, <2>4
<1>10. ASSUME Increment PROVE ModuloInv'
  <2> DEFINE e == IF h + 1 = m THEN 0 ELSE h + 1
             x == Top.exact + 1
  <2>1. Becomes(e, Residue(x))
    BY <1>10 DEF Increment
  <2>2. e \in 0 .. m - 1 /\ x \in Int /\ h + 1 \in Int /\ (Top.exact = h => x = h + 1)
    <3>1. Top.exact \in Int
      BY <1>1, SMT DEF Lost
    <3> HIDE DEF m, h
    <3> QED BY <1>1, <3>1, SMT
  <2>3. (h + 1) % m = e
    <3> HIDE DEF m, h
    <3>1. CASE h + 1 = m
      <4>1. h + 1 = m * 1 + 0 /\ 0 \in 0 .. m - 1
        BY <1>1, <3>1, SMT
      <4> QED BY <1>1, <2>2, <3>1, <4>1, ResidueUnique, SMT
    <3>2. CASE h + 1 # m
      BY <1>1, <2>2, <3>2, ResidueSmall
    <3> QED BY <3>1, <3>2
  <2> HIDE DEF e, x
  <2>4. StandsFor(e, Residue(x))
    BY <1>4, <2>2, <2>3
  <2> QED BY <1>3, <2>1, <2>4
<1>11. ASSUME Decrement PROVE ModuloInv'
  <2> DEFINE e == (IF h = 0 THEN m ELSE h) - 1
             x == Top.exact - 1
  <2>1. Becomes(e, Residue(x))
    BY <1>11 DEF Decrement
  <2>2. e \in 0 .. m - 1 /\ x \in Int /\ h - 1 \in Int /\ (Top.exact = h => x = h - 1)
    <3>1. Top.exact \in Int
      BY <1>1, SMT DEF Lost
    <3> HIDE DEF m, h
    <3> QED BY <1>1, <3>1, SMT
  <2>3. (h - 1) % m = e
    <3> HIDE DEF m, h
    <3>1. CASE h = 0
      <4>1. h - 1 = m * (-1) + (m - 1) /\ m - 1 \in 0 .. m - 1 /\ e = m - 1
        BY <1>1, <3>1, SMT
      <4> QED BY <1>1, <2>2, <4>1, ResidueUnique, SMT
    <3>2. CASE h # 0
      BY <1>1, <2>2, <3>2, ResidueSmall
    <3> QED BY <3>1, <3>2
  <2> HIDE DEF e, x
  <2>4. StandsFor(e, Residue(x))
    BY <1>4, <2>2, <2>3
  <2> QED BY <1>3, <2>1, <2>4
<1> QED BY <1>6, <1>7, <1>8, <1>9, <1>10, <1>11

\* A context begins with 0, and one that ends leaves the others as they were.
LEMMA ContextsKeep ==
  ASSUME ModuloInv
  PROVE  /\ \A m \in Moduli : PushContext(m) => ModuloInv'
         /\ Depth > 0 /\ PopContext => ModuloInv'
<1>1. ASSUME NEW m \in Moduli, PushContext(m) PROVE ModuloInv'
  <2>1. PICK t \in {Totient(m), m - 1} :
          contexts' = Append(contexts, [mod |-> m, totient |-> t, h |-> 0, exact |-> 0])
    BY <1>1 DEF PushContext
  <2>2. m \in 1 .. 2 ^ Width - 1
    BY ModuliAssumption
  <2>3. m \in Nat /\ 0 < m /\ m - 1 \in Nat /\ 0 \in 0 .. m - 1
    BY <2>2, ModuliFit, SMT
  <2>4. Totient(m) \in Nat
    <3>1. IsFiniteSet(1 .. m)
      BY <2>3, FS_Interval
    <3>2. IsFiniteSet({a \in 1 .. m : Coprime(a, m)})
      BY <3>1, FS_Subset
    <3> QED BY <3>2, FS_CardinalityType DEF Totient
  <2> DEFINE new == [mod |-> m, totient |-> t, h |-> 0, exact |-> 0]
  <2>5. new \in Contexts /\ new.h \in 0 .. new.mod - 1 /\ new.exact = new.h /\ new.exact # Lost
    BY <2>1, <2>2, <2>3, <2>4, SMT DEF Contexts, Lost
  <2> HIDE DEF new
  <2>6. contexts' = Append(contexts, new)
    BY <2>1 DEF new
  <2>7. /\ contexts' \in Seq(Contexts) /\ Len(contexts') = Len(contexts) + 1
        /\ \A d \in 1 .. Len(contexts) : contexts'[d] = contexts[d]
        /\ contexts'[Len(contexts) + 1] = new /\ Len(contexts) \in Nat
    BY <2>5, <2>6 DEF ModuloInv
  <2> QED BY <2>5, <2>7 DEF ModuloInv, ModuloExact, Depth
<1>2. ASSUME Depth > 0, PopContext PROVE ModuloInv'
  <2>1. contexts' = SubSeq(contexts, 1, Len(contexts) - 1) /\ Len(contexts) \in Nat \ {0}
    BY <1>2 DEF PopContext, Front, Depth, ModuloInv
  <2>2. /\ contexts' \in Seq(Contexts) /\ Len(contexts') = Len(contexts) - 1
        /\ \A d \in 1 .. Len(contexts) - 1 : contexts'[d] = contexts[d]
    <3>1. \A d \in 1 .. Len(contexts) - 1 : contexts[d] \in Contexts
      BY <2>1 DEF ModuloInv
    <3> DEFINE l == Len(contexts) - 1
    <3>2. l \in Nat /\ 1 \in Int /\ l \in Int
      BY <2>1
    <3> HIDE DEF l
    <3>3. /\ SubSeq(contexts, 1, l) \in Seq(Contexts)
          /\ Len(SubSeq(contexts, 1, l)) = IF 1 <= l THEN l - 1 + 1 ELSE 0
          /\ \A d \in 1 .. l - 1 + 1 : SubSeq(contexts, 1, l)[d] = contexts[1 + d - 1]
      BY <3>1, <3>2, SubSeqProperties DEF l
    <3>4. Len(SubSeq(contexts, 1, l)) = l /\ l - 1 + 1 = l /\ \A d \in 1 .. l : 1 + d - 1 = d
      BY <3>2, <3>3, SMT
    <3>5. contexts' = SubSeq(contexts, 1, l)
      BY <2>1 DEF l
    <3> QED BY <3>3, <3>4, <3>5 DEF l
  <2> QED BY <2>1, <2>2 DEF ModuloInv, ModuloExact, Depth
<1> QED BY <1>1, <1>2

\* What a client does that never divides.
ModuloUndivided ==
  \/ \E m \in Moduli : PushContext(m)
  \/ /\ Depth > 0
     /\ \/ PopContext
        \/ \E x \in Wide : Construct(x) \/ Assign(x)
        \/ \E o \in 0 .. Top.mod - 1 : Add(o) \/ Subtract(o) \/ Multiply(o)
        \/ Increment \/ Decrement

NextUndivided == Next /\ (user = "modulo" => ModuloUndivided)

\* As long as no value is divided, a Modulo is the residue of what was computed, in
\* nested contexts too, whatever the width of the integers and the modulus; only a
\* sum may end that, and only under a modulus above half of the range.
THEOREM ModuloStaysExact == Init /\ [][NextUndivided]_vars => []ModuloExact
<1>1. Init => ModuloInv
  BY DEF Init, ModuloInv, ModuloExact, Depth
<1>2. ModuloInv /\ [NextUndivided]_vars => ModuloInv'
  <2> SUFFICES ASSUME ModuloInv, [NextUndivided]_vars PROVE ModuloInv'
    OBVIOUS
  <2>1. CASE ModuloUndivided
    <3>1. Wide \subseteq Int
      BY DEF Wide
    <3> QED BY <2>1, <3>1, ContextsKeep, OperationsKeep DEF ModuloUndivided
  <2>2. CASE UNCHANGED contexts
    BY <2>2 DEF ModuloInv, ModuloExact, Depth
  <2>3. ASSUME Next, user # "modulo" PROVE UNCHANGED contexts
    <3>1. HashNext => UNCHANGED contexts
      BY DEF HashNext, HashConstruct, HashAdd, HashSubtract, HashMultiply, HashDivide, Hashed
    <3>2. BinomialNext => UNCHANGED contexts
      BY DEF BinomialNext, Ask, MoveL, MoveU, MoveD, MoveR, Moved
    <3>3. ProductTurn \/ NextNumber => UNCHANGED contexts
      BY DEF ProductTurn, NextNumber
    <3> QED BY <2>3, <3>1, <3>2, <3>3 DEF Next
  <2> QED BY <2>1, <2>2, <2>3 DEF NextUndivided, vars
<1>3. ModuloInv => ModuloExact
  BY DEF ModuloInv
<1> QED BY <1>1, <1>2, <1>3, PTL
====
