----------------------------- MODULE Numbers -----------------------------
(***************************************************************************)
(* The number theory of discr/: Modulo values in nested Modulo_Contexts,   *)
(* Modulo_Hash, which computes modulo several primes at once, Binomial,    *)
(* over integers and over a Modulo, the loop of mult_and_mod(), and        *)
(* is_prime().  Unsigned integers have Width bits, and H is one.           *)
(*                                                                         *)
(* The client uses a value under the context that it was made in, has no   *)
(* modulus 0, and divides only where the check of the totient passes: not  *)
(* modulo 2, which is_prime() takes for composite.                         *)
(***************************************************************************)
EXTENDS Integers, FiniteSets, SequencesExt, Combinatorics

CONSTANTS
  Width,     \* the bits of H: 32 in the code
  NumHashes, \* how many primes a Modulo_Hash has
  IntWidth,  \* the bits of the integers of Binomial, without the sign
  Moduli,    \* the moduli of the client's contexts
  MaxDepth,  \* bound: how deep contexts are nested
  MaxN,      \* bound: the rows that Binomial is asked for
  MaxNumber  \* bound: the numbers that is_prime() is asked for

ASSUME BoundsAssumption == {Width, NumHashes, IntWidth, MaxDepth, MaxN, MaxNumber} \subseteq Nat
ASSUME ModuliAssumption == Moduli \subseteq 1 .. 2 ^ Width - 1

\* Each power of two is twice the one before.
ASSUME PowersAssumption == 2 ^ (Width - 1) \in Nat \ {0} /\ 2 ^ Width = 2 * 2 ^ (Width - 1)

VARIABLES
  user,      \* which of them is used
  contexts,  \* g_contexts, each with the value that is computed under it, and
             \* the residue that this value stands for, or Lost
  hash,      \* a Modulo_Hash: the residues, and the integer they stand for
  binomial,  \* a Binomial: n, k, val, the entry asked for, and its modulus or 0
  product,   \* a mult_and_mod() under way: a, b, n, r, and what it was asked for
  number     \* the number that is_prime() is asked for

vars == <<user, contexts, hash, binomial, product, number>>

H == 0 .. 2 ^ Width - 1
Wrap(x) == x % 2 ^ Width

\* Integers of other types, some too large for H and some negative.
Wide == -(2 ^ Width) .. 2 ^ (Width + 1) - 1

\* What a value stands for once a sum has wrapped.
Lost == -1

----------------------------------------------------------------------------
(* Primes *)

\* int_pow() and _mr_pow(): a turn multiplies, or squares and halves.
Power(base, exponent, mod) ==
  LET turn[r \in Nat, a \in Nat, exp \in Nat] ==
        IF exp = 0 THEN r
        ELSE IF exp % 2 = 1 THEN turn[(r * a) % mod, a, exp - 1]
        ELSE turn[r, (a * a) % mod, exp \div 2]
  IN  turn[1, base, exponent]

\* The exponent of 2 in x: __builtin_ctz().
Twos(x) == CHOOSE r \in 0 .. 31 : x % 2 ^ r = 0 /\ x % 2 ^ (r + 1) # 0

\* _mr_check(): squaring x comes to p - 1 before it comes to 1.
MrCheck(x, r, p) ==
  \E j \in 1 .. r - 1 : /\ Power(x, 2 ^ j, p) = p - 1
                        /\ \A i \in 1 .. j - 1 : Power(x, 2 ^ i, p) \notin {1, p - 1}

\* Mutant: 2 is the only test prime.
IsPrimeByTwo(p) ==
  /\ p % 2 # 0 /\ p >= 2
  /\ LET r == Twos(p - 1)
         x == Power(2, (p - 1) \div 2 ^ r, p)
     IN  x \in {1, p - 1} \/ MrCheck(x, r, p)

\* miller_rabin(), with the test primes of is_prime(unsigned).
IsPrime(p) ==
  /\ p % 2 # 0 /\ p >= 2
  /\ LET r == Twos(p - 1)
     IN  \A t \in {2, 7, 61} :
           t < p => LET x == Power(t, (p - 1) \div 2 ^ r, p)
                    IN  x \in {1, p - 1} \/ MrCheck(x, r, p)

\* prev_big_prime()
PrevBigPrime(x) == CHOOSE p \in 3 .. x - 1 : IsPrime(p) /\ \A q \in p + 1 .. x - 1 : ~IsPrime(q)

----------------------------------------------------------------------------
(* Modulo *)

\* _fix_range() of an unsigned or a signed x; % of C has the sign of x.
FixRange(x, mod) ==
  IF x >= mod THEN IF x - mod < mod THEN x - mod ELSE (x - mod) % mod
  ELSE IF x >= 0 THEN x
  ELSE IF x + mod >= 0 THEN x + mod
  ELSE LET r == Wrap(-((-(x + mod)) % mod)) IN IF r # 0 THEN Wrap(mod + r) ELSE 0

\* operator/=() multiplies with a power of o, after it has checked the totient.
TotientFits(c) == IF IsPrime(c.mod) THEN c.totient = c.mod - 1 ELSE c.totient < c.mod - 1
Quotient(h, o, c) == (h * Power(o, c.totient - 1, c.mod)) % c.mod

Depth == Len(contexts)
Top == contexts[Depth]

\* The value under the innermost context becomes h, which stands for exact.
Becomes(h, exact) ==
  /\ contexts' = [contexts EXCEPT ![Depth].h = h, ![Depth].exact = exact]
  /\ UNCHANGED <<user, hash, binomial, product, number>>

Coprime(a, b) == \A d \in 2 .. b : ~(a % d = 0 /\ b % d = 0)
Totient(m) == Cardinality({a \in 1 .. m : Coprime(a, m)})

\* Modulo_Dynamic_Context_RAII, with the totient, or with m - 1 in its place.
PushContext(m) ==
  /\ Depth < MaxDepth
  /\ \E totient \in {Totient(m), m - 1} :
       contexts' = Append(contexts, [mod |-> m, totient |-> totient, h |-> 0, exact |-> 0])
  /\ UNCHANGED <<user, hash, binomial, product, number>>

PopContext ==
  /\ contexts' = Front(contexts)
  /\ UNCHANGED <<user, hash, binomial, product, number>>

\* Modulo(x): x is converted to H before it is reduced.
Construct(x) == Becomes(FixRange(Wrap(x), Top.mod), Wrap(x) % Top.mod)

\* operator=() of an x whose type the modulus fits: it is reduced as it is.
Assign(x) == Becomes(FixRange(x, Top.mod), x % Top.mod)

\* The residue of what is computed from one that is not lost.
Residue(x) == IF Top.exact = Lost THEN Lost ELSE x % Top.mod

\* That of a sum, which is formed in H.
SumResidue(sum, x) == IF sum \in H THEN Residue(x) ELSE Lost

\* Mutant: the sum is reduced if it is above the modulus.
ReducedAbove(h, mod) == IF h > mod THEN h - mod ELSE h

Reduced(h, mod) == IF h >= mod THEN h - mod ELSE h

Add(o) ==
  LET sum == Top.h + o
  IN  Becomes(Reduced(Wrap(sum), Top.mod), SumResidue(sum, Top.exact + o))

Subtract(o) ==
  LET sum == Top.mod + Top.h - o
  IN  Becomes(Reduced(Wrap(sum), Top.mod), SumResidue(sum, Top.exact - o))

Multiply(o) == Becomes((Top.h * o) % Top.mod, Residue(Top.exact * o))

\* What is divided by is invertible.  A totient that does not fit fails a DCHECK,
\* and the client does not divide under it.
Divide(o) ==
  /\ Coprime(o, Top.mod) /\ o # 0
  /\ TotientFits(Top)
  /\ Becomes(Quotient(Top.h, o, Top),
             IF Top.exact = Lost THEN Lost
             ELSE CHOOSE e \in 0 .. Top.mod - 1 : (e * o) % Top.mod = Top.exact)

Increment == Becomes(IF Top.h + 1 = Top.mod THEN 0 ELSE Top.h + 1, Residue(Top.exact + 1))
Decrement == Becomes((IF Top.h = 0 THEN Top.mod ELSE Top.h) - 1, Residue(Top.exact - 1))

ModuloNext ==
  \/ \E m \in Moduli : PushContext(m)
  \/ /\ Depth > 0
     /\ \/ PopContext
        \/ \E x \in Wide : Construct(x) \/ Assign(x)
        \/ \E o \in 0 .. Top.mod - 1 : Add(o) \/ Subtract(o) \/ Multiply(o) \/ Divide(o)
        \/ Increment \/ Decrement

----------------------------------------------------------------------------
(* Modulo_Hash *)

Hashes == 1 .. NumHashes

\* The largest primes below the largest integer with a sign.
HashMod[i \in Hashes] == PrevBigPrime(IF i = 1 THEN 2 ^ (Width - 1) - 1 ELSE HashMod[i - 1])

\* Modulo_Hash(x): x is converted to H.
HashOf(x) == [i \in Hashes |-> FixRange(Wrap(x), HashMod[i])]

\* The integers that the residues tell apart.
Span == ProductSet({HashMod[i] : i \in Hashes})

\* The hash that stands for t.
Residues(t) == [i \in Hashes |-> t % HashMod[i]]

Hashed(m, exact) ==
  /\ hash' = [m |-> m, exact |-> exact]
  /\ UNCHANGED <<user, contexts, binomial, product, number>>

HashConstruct(x) == Hashed(HashOf(x), Wrap(x))


\* The operators with a hash o, which stands for t: residue by residue.
HashAdd(o, t) ==
  Hashed([i \in Hashes |-> Reduced(Wrap(hash.m[i] + o[i]), HashMod[i])], (hash.exact + t) % Span)

HashSubtract(o, t) ==
  Hashed([i \in Hashes |-> Reduced(Wrap(HashMod[i] + hash.m[i] - o[i]), HashMod[i])],
         (hash.exact - t) % Span)

HashMultiply(o, t) ==
  Hashed([i \in Hashes |-> (hash.m[i] * o[i]) % HashMod[i]], (hash.exact * t) % Span)

HashDivide(o, t) ==
  /\ \A i \in Hashes : o[i] # 0
  /\ Hashed([i \in Hashes |-> Quotient(hash.m[i], o[i],
                [mod |-> HashMod[i], totient |-> HashMod[i] - 1])],
            CHOOSE e \in 0 .. Span - 1 : (e * t) % Span = hash.exact)

HashNext ==
  \/ \E x \in Wide : HashConstruct(x)
  \/ \E t \in 0 .. Span - 1 :
       \/ HashAdd(Residues(t), t) \/ HashSubtract(Residues(t), t)
       \/ HashMultiply(Residues(t), t) \/ HashDivide(Residues(t), t)

----------------------------------------------------------------------------
(* Binomial *)

\* val *= a; val /= b, of an int or of a Modulo.
Scaled(val, a, b) ==
  IF binomial.mod = 0 THEN ((val * a) % 2 ^ IntWidth) \div b
  ELSE Quotient((val * a) % binomial.mod, b,
                [mod |-> binomial.mod, totient |-> binomial.mod - 1])

Moved(n, k, a, b) ==
  /\ binomial' = [binomial EXCEPT !.n = n, !.k = k, !.val = Scaled(@, a, b)]
  /\ UNCHANGED <<user, contexts, hash, product, number>>

\* operator() of an entry inside of the triangle; it moves left, up, down and
\* right to get there.
Ask(nn, kk) ==
  /\ binomial.ask = <<binomial.n, binomial.k>>
  /\ binomial' = [binomial EXCEPT !.ask = <<nn, kk>>]
  /\ UNCHANGED <<user, contexts, hash, product, number>>

MoveL ==
  /\ binomial.k > binomial.ask[2]
  /\ LET k == binomial.k - 1 IN Moved(binomial.n, k, k + 1, binomial.n - k)

MoveU ==
  /\ binomial.k <= binomial.ask[2] /\ binomial.n > binomial.ask[1]
  /\ LET n == binomial.n - 1 IN Moved(n, binomial.k, n - binomial.k + 1, n + 1)

MoveD ==
  /\ binomial.k <= binomial.ask[2] /\ binomial.n < binomial.ask[1]
  /\ LET n == binomial.n + 1 IN Moved(n, binomial.k, n, n - binomial.k)


MoveR ==
  /\ binomial.n = binomial.ask[1] /\ binomial.k < binomial.ask[2]
  /\ LET k == binomial.k + 1 IN Moved(binomial.n, k, binomial.n - k + 1, k)

BinomialNext ==
  \/ \E nn \in 0 .. MaxN : \E kk \in 0 .. nn : Ask(nn, kk)
  \/ MoveL \/ MoveU \/ MoveD \/ MoveR

----------------------------------------------------------------------------
(* mult_and_mod() without 128-bit integers *)

\* Below half of the range, and above it, where a sum may not be formed.
SumModulo(a, b, n) ==
  IF n <= 2 ^ (Width - 1) THEN Reduced(Wrap(a + b), n)
  ELSE IF n - a > b THEN Wrap(a + b) ELSE Wrap(a + b - n)

\* A turn of the loop; small factors are multiplied at once.
ProductTurn ==
  /\ product.b > 0
  /\ product' = [product EXCEPT
       !.r = IF product.b % 2 = 1 THEN SumModulo(@, product.a, product.n) ELSE @,
       !.a = IF product.b > 1 THEN SumModulo(@, @, product.n) ELSE @,
       !.b = @ \div 2]
  /\ UNCHANGED <<user, contexts, hash, binomial, number>>

----------------------------------------------------------------------------
NextNumber ==
  /\ number < MaxNumber
  /\ number' = number + 1
  /\ UNCHANGED <<user, contexts, hash, binomial, product>>

NewProduct(a, b, n) ==
  LET x == a % n
      y == b % n
      small == x < 2 ^ (Width \div 2) /\ y < 2 ^ (Width \div 2)
  IN  [a |-> IF x < y THEN y ELSE x,
       b |-> IF small THEN 0 ELSE IF x < y THEN x ELSE y,
       r |-> IF small THEN (x * y) % n ELSE 0,
       n |-> n, exact |-> (a * b) % n]

Init ==
  /\ contexts = <<>> /\ number = 0
  /\ hash = [m |-> HashOf(0), exact |-> 0]
  /\ \/ /\ user \in {"modulo", "hash", "prime"}
        /\ binomial = [n |-> 0, k |-> 0, val |-> 1, ask |-> <<0, 0>>, mod |-> 0]
        /\ product = NewProduct(0, 0, 1)
     \/ /\ user = "binomial"
        /\ \E mod \in {0} \cup {p \in Moduli : p > MaxN /\ IsPrime(p)} :
             binomial = [n |-> 0, k |-> 0, val |-> 1, ask |-> <<0, 0>>, mod |-> mod]
        /\ product = NewProduct(0, 0, 1)
     \/ /\ user = "product"
        /\ binomial = [n |-> 0, k |-> 0, val |-> 1, ask |-> <<0, 0>>, mod |-> 0]
        /\ \E a, b \in H, n \in H \ {0} : product = NewProduct(a, b, n)

Next ==
  \/ user = "modulo" /\ ModuloNext
  \/ user = "hash" /\ HashNext
  \/ user = "binomial" /\ BinomialNext
  \/ user = "product" /\ ProductTurn
  \/ user = "prime" /\ NextNumber

Spec == Init /\ [][Next]_vars

----------------------------------------------------------------------------
(* Properties *)

\* A Modulo is below its modulus, and the residue of what was computed, after any
\* sequence of operations, under its own context and after others inside of it, from
\* negative and wide integers assigned and from those constructed from as converted
\* to H; division is the inverse of multiplication.  That ends only where a sum wraps,
\* under a modulus above half of H's range.
ModuloExact ==
  \A d \in 1 .. Depth :
    LET c == contexts[d]
    IN  /\ c.h \in 0 .. c.mod - 1
        /\ c.exact \in {c.h, Lost}
        /\ c.exact = Lost => c.mod > 2 ^ (Width - 1)

\* Hashes are equal if what they stand for is, and only then: Span tells how far,
\* and what is constructed from stands for what it is converted to.
HashExact == user = "hash" => \A t \in 0 .. Span - 1 : hash.m = Residues(t) <=> t = hash.exact

\* mult_and_mod() keeps the residue of the product in each turn of its loop, in
\* either branch.
ProductExact ==
  /\ (product.r + product.a * product.b) % product.n = product.exact
  /\ product.r < product.n



\* is_prime() knows the odd primes, and prev_big_prime() finds the one before.
PrimesFound ==
  LET prime(p) == p >= 2 /\ \A d \in 2 .. p - 1 : p % d # 0
  IN  /\ number # 2 => IsPrime(number) = prime(number)
      /\ number > 3 => LET p == PrevBigPrime(number)
                       IN  prime(p) /\ \A q \in p + 1 .. number - 1 : ~prime(q)
==========================================================================
