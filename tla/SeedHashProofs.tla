--------------------------- MODULE SeedHashProofs ---------------------------
(***************************************************************************)
(* Theorems about SeedHash: for seeds of every length, in words of 64      *)
(* bits.                                                                   *)
(***************************************************************************)
EXTENDS SeedHash, TLAPS

-----------------------------------------------------------------------------
(***************************************************************************)
(* Arithmetic of words.                                                    *)
(***************************************************************************)

Half == Word \div 2
Values == -Half .. Half - 1

\* What is used of the numbers of the program.  No two digits are congruent
\* modulo the multiplier, as "an" and "c0" show letters to be: those two have
\* one hash.
LEMMA TheWord == Word \in Nat \ {0} /\ Word % 2 = 0 /\ Word % 31 # 0
BY SMT DEF Word

LEMMA TheSource ==
  /\ Modulus \in Nat /\ Modulus <= Word \div 2
  /\ DefaultSeed \in Nat \ {0} /\ 2 * DefaultSeed <= Modulus
BY SMT DEF Word, Modulus, DefaultSeed

LEMMA TheCharacters == \A c \in Characters : c \in Nat /\ c < Word \div 2
BY SMT DEF Word, Characters

LEMMA TheNumerals == \A c, d \in Numerals : c # d => (c - d) % 31 # 0
BY SMT DEF Numerals

\* A word has two halves, and is not divided by the multiplier.
LEMMA Words == Word = 2 * Half /\ Half \in Nat \ {0} /\ Word % 31 # 0
BY TheWord DEF Half

\* A number is so many words and a rest.
LEMMA Division ==
  ASSUME NEW a \in Int, NEW w \in Nat \ {0}
  PROVE  a \div w \in Int /\ a % w \in 0..w - 1 /\ a = w * (a \div w) + (a % w)
OBVIOUS

\* Wrapping around is adding some words.
LEMMA Wrapped ==
  ASSUME NEW n \in Int
  PROVE  Wrap(n) \in Values /\ \E k \in Int : n = Wrap(n) + k * Word
<1> DEFINE a == n + Half
<1>1. Word \in Nat \ {0} /\ Half \in Nat \ {0} /\ Word = 2 * Half
  BY Words, TheWord
<1>2. a \in Int
  BY <1>1
<1>3. /\ a % Word \in 0..Word - 1 /\ a \div Word \in Int
      /\ a = Word * (a \div Word) + (a % Word)
  <2> HIDE DEF a
  <2> QED
    BY <1>1, <1>2, Division
<1>4. Wrap(n) = (a % Word) - Half
  BY DEF Wrap, Half
<1>5. Wrap(n) \in Values
  <2> HIDE DEF a
  <2> QED
    BY <1>1, <1>3, <1>4 DEF Values
<1>6. n = Wrap(n) + (a \div Word) * Word
  <2>1. n = a - Half
    BY <1>1
  <2> HIDE DEF a
  <2> QED
    BY <1>1, <1>2, <1>3, <1>4, <2>1
<1> QED
  BY <1>3, <1>5, <1>6

\* Numbers whose difference is not zero are not the same.
LEMMA Apart ==
  ASSUME NEW a \in Int, NEW b \in Int, a - b # 0
  PROVE  a # b
OBVIOUS

\* Products distribute over differences.
LEMMA Products ==
  ASSUME NEW i \in Int, NEW j \in Int, NEW w \in Int
  PROVE  i * w \in Int /\ (j - i) * w = j * w - i * w
OBVIOUS

\* So does a sign.
LEMMA Negated ==
  ASSUME NEW i \in Int, NEW w \in Int
  PROVE  i * w \in Int /\ (-i) * w = -(i * w)
OBVIOUS

\* Hashes differ by as much as the numbers they are of, and some words.
LEMMA WrappedBoth ==
  ASSUME NEW n \in Int, NEW m \in Int
  PROVE  \E k \in Int : Wrap(n) - Wrap(m) = (n - m) + k * Word
<1>1. PICK i \in Int : n = Wrap(n) + i * Word
  BY Wrapped
<1>2. PICK j \in Int : m = Wrap(m) + j * Word
  BY Wrapped
<1>3. Wrap(n) \in Int /\ Wrap(m) \in Int /\ Word \in Int
  BY Wrapped, Words DEF Values
<1> DEFINE iw == i * Word
           jw == j * Word
<1>4. iw \in Int /\ jw \in Int /\ (j - i) * Word = jw - iw
  BY <1>3, Products
<1>5. n = Wrap(n) + iw /\ m = Wrap(m) + jw
  BY <1>1, <1>2
<1>6. Wrap(n) - Wrap(m) = (n - m) + (j - i) * Word
  <2> HIDE DEF iw, jw
  <2> QED
    BY <1>3, <1>4, <1>5
<1>7. j - i \in Int
  OBVIOUS
<1> QED
  BY <1>6, <1>7

\* No multiple of a word that is not zero is less than a word.
LEMMA WithinAWord ==
  ASSUME NEW k \in Int, NEW d \in Int, d = k * Word, -Word < d, d < Word
  PROVE  d = 0
<1>1. Word \in Nat \ {0}
  BY TheWord
<1>2. CASE k >= 1
  BY <1>1, <1>2
<1>3. CASE k <= -1
  BY <1>1, <1>3
<1>4. CASE k = 0
  BY <1>1, <1>4
<1> QED
  BY <1>2, <1>3, <1>4

\* The multiplier is prime: it divides no product of a word and a number that
\* is less than itself.
LEMMA NoMultiple ==
  ASSUME NEW k \in 1..30, NEW d \in Int, 31 * d = k * Word
  PROVE  FALSE
<1>1. Word \in Int /\ Word % 31 # 0
  BY TheWord
<1>2. \/ k \in {1, 2, 3, 4, 5, 6, 7, 8, 9, 10, 11, 12, 13, 14, 15}
      \/ k \in {16, 17, 18, 19, 20, 21, 22, 23, 24, 25, 26, 27, 28, 29, 30}
  OBVIOUS
<1> QED
  BY <1>1, <1>2

\* Multiplication keeps the difference of two values in the word.
LEMMA MultiplierKeeps ==
  ASSUME NEW a \in Values, NEW b \in Values, NEW k \in Int, 31 * a - 31 * b = k * Word
  PROVE  a = b
<1>1. Word = 2 * Half /\ Half \in Nat \ {0} /\ Word \in Nat \ {0}
  BY Words, TheWord
<1>2. a \in Int /\ b \in Int /\ -Word < a - b /\ a - b < Word
  BY <1>1 DEF Values
<1>3. 31 * (a - b) = k * Word
  BY <1>2
<1>4. k < 31
  <2> SUFFICES ASSUME k >= 31
               PROVE  FALSE
    OBVIOUS
  <2>1. k * Word >= 31 * Word
    BY <1>1
  <2> QED
    BY <1>1, <1>2, <1>3, <2>1
<1>5. k > -31
  <2> SUFFICES ASSUME k <= -31
               PROVE  FALSE
    OBVIOUS
  <2>1. k * Word <= -31 * Word
    BY <1>1
  <2> QED
    BY <1>1, <1>2, <1>3, <2>1
<1>6. CASE k \in 1..30
  BY <1>2, <1>3, <1>6, NoMultiple
<1>7. CASE -k \in 1..30
  <2>1. 31 * (b - a) = (-k) * Word
    BY <1>1, <1>2, <1>3
  <2>2. b - a \in Int
    BY <1>2
  <2> QED
    BY <1>7, <2>1, <2>2, NoMultiple
<1>8. CASE k = 0
  BY <1>1, <1>2, <1>3, <1>8
<1> QED
  BY <1>4, <1>5, <1>6, <1>7, <1>8

-----------------------------------------------------------------------------
(***************************************************************************)
(* Two seeds of one length.                                                *)
(***************************************************************************)

TypeOK ==
  /\ h \in Values /\ g \in Values
  /\ length \in Nat
  /\ differ \in 0..2
  /\ numbered \in BOOLEAN
  /\ spread \in Int /\ gap \in Int

\* Seeds that are the same have one hash, and those that differ in a character
\* do not.  Hashes differ by the spread and some words; while all differences
\* are between numerals the spread is not zero, and a gap that is less than a
\* word keeps the hashes apart.
PairInv ==
  /\ differ = 0 => h = g
  /\ differ = 1 => h # g
  /\ \E k \in Int : h - g = spread + k * Word
  /\ numbered /\ differ > 0 => spread # 0
  /\ numbered /\ differ > 0 /\ Within(gap, Word) => h # g

\* Characters are numbers that do not fill half a word.
LEMMA CharacterType ==
  ASSUME NEW c \in Characters
  PROVE  c \in Nat /\ c < Half
BY TheCharacters DEF Half

\* What the loop makes of a value.
LEMMA NextValueType ==
  ASSUME NEW v \in Values, NEW c \in Characters
  PROVE  NextValue(v, c) \in Int /\ NextValue(v, c) = 31 * v + c
BY CharacterType, Words DEF NextValue, Values

\* Reading keeps the types: a hash stays within its word.
LEMMA TypeStep ==
  ASSUME TypeOK, [Next]_vars
  PROVE  TypeOK'
<1>1. ASSUME NEW c \in Characters, NEW d \in Characters, Read(c, d)
      PROVE  TypeOK'
  <2>1. h' \in Values /\ g' \in Values
    BY <1>1, NextValueType, Wrapped DEF Read, TypeOK
  <2>2. c \in Int /\ d \in Int
    BY CharacterType
  <2>3. spread' \in Int /\ gap' \in Int
    BY <1>1, <2>2 DEF Read, TypeOK
  <2>4. numbered' \in BOOLEAN
    BY <1>1 DEF Read
  <2> QED
    BY <1>1, <2>1, <2>3, <2>4 DEF Read, TypeOK
<1>2. CASE UNCHANGED vars
  BY <1>2 DEF vars, TypeOK
<1> QED
  BY <1>1, <1>2 DEF Next

\* Equal characters leave different hashes different.
LEMMA KeptApart ==
  ASSUME NEW a \in Values, NEW b \in Values, a # b, NEW c \in Characters
  PROVE  Wrap(NextValue(a, c)) # Wrap(NextValue(b, c))
<1> SUFFICES ASSUME Wrap(NextValue(a, c)) = Wrap(NextValue(b, c))
             PROVE  FALSE
  OBVIOUS
<1>1. /\ NextValue(a, c) \in Int /\ NextValue(a, c) = 31 * a + c
      /\ NextValue(b, c) \in Int /\ NextValue(b, c) = 31 * b + c
  BY NextValueType
<1>2. PICK k \in Int :
        Wrap(NextValue(a, c)) - Wrap(NextValue(b, c))
          = (NextValue(a, c) - NextValue(b, c)) + k * Word
  BY <1>1, WrappedBoth
<1>3. /\ a \in Int /\ b \in Int /\ c \in Int /\ Word \in Int
      /\ Wrap(NextValue(a, c)) \in Int
  BY <1>1, CharacterType, Words, Wrapped DEF Values
<1>4. 31 * a - 31 * b = (-k) * Word
  BY <1>1, <1>2, <1>3
<1> QED
  BY <1>4, MultiplierKeeps

\* Reading keeps what is known of a pair.
LEMMA PairStep ==
  ASSUME TypeOK, PairInv, [Next]_vars
  PROVE  PairInv'
<1>1. ASSUME NEW c \in Characters, NEW d \in Characters, Read(c, d)
      PROVE  PairInv'
  <2>1. /\ h' = Wrap(NextValue(h, c)) /\ g' = Wrap(NextValue(g, d))
        /\ differ' = IF c # d /\ differ < 2 THEN differ + 1 ELSE differ
        /\ numbered' = (numbered /\ (c # d => {c, d} \subseteq Numerals))
        /\ spread' = 31 * spread + (c - d)
        /\ gap' = IF c # d THEN spread' ELSE gap
    BY <1>1 DEF Read
  <2>2. /\ h \in Values /\ g \in Values /\ h \in Int /\ g \in Int /\ differ \in 0..2
        /\ c \in Nat /\ d \in Nat /\ c < Half /\ d < Half
        /\ NextValue(h, c) \in Int /\ NextValue(h, c) = 31 * h + c
        /\ NextValue(g, d) \in Int /\ NextValue(g, d) = 31 * g + d
        /\ spread \in Int /\ spread' \in Int
        /\ h' \in Int /\ g' \in Int /\ Word \in Int
    BY <2>1, NextValueType, CharacterType, Wrapped, Words DEF TypeOK, Values
  <2>3. PICK k \in Int : h' - g' = (NextValue(h, c) - NextValue(g, d)) + k * Word
    <3>1. \E k \in Int : Wrap(NextValue(h, c)) - Wrap(NextValue(g, d))
                           = (NextValue(h, c) - NextValue(g, d)) + k * Word
      BY <2>2, WrappedBoth
    <3> QED
      BY <2>1, <3>1
  <2>4. \E j \in Int : h' - g' = spread' + j * Word
    <3>1. PICK i \in Int : h - g = spread + i * Word
      BY DEF PairInv
    <3>2. NextValue(h, c) - NextValue(g, d) = 31 * (h - g) + (c - d)
      BY <2>2
    <3>3. 31 * (h - g) = 31 * spread + (31 * i) * Word
      BY <2>2, <3>1
    <3>4. h' - g' = spread' + (31 * i + k) * Word
      BY <2>1, <2>2, <2>3, <3>2, <3>3
    <3> QED
      BY <3>4
  <2>5. differ' = 0 => h' = g'
    BY <2>1, <2>2 DEF PairInv
  <2>6. ASSUME differ' = 1
        PROVE  h' # g'
    <3>1. CASE c # d
      <4>1. differ = 0 /\ h = g
        BY <2>1, <2>2, <2>6, <3>1 DEF PairInv
      <4>2. h' - g' = (c - d) + k * Word
        <5>1. NextValue(h, c) - NextValue(g, d) = c - d
          BY <2>2, <4>1
        <5> QED
          BY <2>3, <5>1
      <4>3. c - d \in Int /\ -Word < c - d /\ c - d < Word
        BY <2>2, Words
      <4>4. ASSUME (c - d) + k * Word = 0
            PROVE  FALSE
        <5>1. k * Word \in Int /\ (-k) * Word = -(k * Word)
          BY <2>2, <2>3, Negated
        <5>2. c - d = (-k) * Word
          BY <4>3, <4>4, <5>1
        <5>3. -k \in Int
          OBVIOUS
        <5>4. c - d = 0
          BY <4>3, <5>2, <5>3, WithinAWord
        <5> QED
          BY <2>2, <3>1, <5>4
      <4>5. h' - g' # 0
        BY <4>2, <4>4
      <4> QED
        BY <2>2, <4>5, Apart
    <3>2. CASE c = d
      <4>1. h # g
        BY <2>1, <2>2, <2>6, <3>2 DEF PairInv
      <4> QED
        BY <2>1, <2>2, <3>2, <4>1, KeptApart
    <3> QED
      BY <3>1, <3>2
  <2>7. ASSUME numbered', differ' > 0
        PROVE  spread' # 0
    <3>1. CASE c # d
      <4>1. (c - d) % 31 # 0
        BY <2>1, <2>7, <3>1, TheNumerals
      <4> QED
        BY <2>1, <2>2, <4>1
    <3>2. CASE c = d
      <4>1. spread # 0
        BY <2>1, <2>2, <2>7, <3>2 DEF PairInv
      <4> QED
        BY <2>1, <2>2, <3>2, <4>1
    <3> QED
      BY <3>1, <3>2
  <2>8. ASSUME numbered', differ' > 0, Within(gap', Word)
        PROVE  h' # g'
    <3>1. CASE c # d
      <4>1. spread' # 0 /\ -Word < spread' /\ spread' < Word
        BY <2>1, <2>7, <2>8, <3>1 DEF Within
      <4>2. PICK j \in Int : h' - g' = spread' + j * Word
        BY <2>4
      <4>3. ASSUME h' = g'
            PROVE  FALSE
        <5>1. spread' = (-j) * Word
          BY <2>2, <4>2, <4>3
        <5> QED
          BY <2>2, <4>1, <5>1, WithinAWord
      <4> QED
        BY <4>3
    <3>2. CASE c = d
      <4>1. h # g
        BY <2>1, <2>2, <2>8, <3>2 DEF PairInv
      <4> QED
        BY <2>1, <2>2, <3>2, <4>1, KeptApart
    <3> QED
      BY <3>1, <3>2
  <2>9. Within(gap, Word)' = Within(gap', Word)
    BY DEF Within
  <2> QED
    BY <2>4, <2>5, <2>6, <2>7, <2>8, <2>9 DEF PairInv
<1>2. CASE UNCHANGED vars
  BY <1>2 DEF vars, PairInv, Within
<1> QED
  BY <1>1, <1>2 DEF Next

\* Types and PairInv hold to begin with, and every step keeps them.
LEMMA HashInductive == Spec => [](TypeOK /\ PairInv)
<1>1. Init => TypeOK /\ PairInv
  <2>1. 0 \in Values
    <3>1. Half \in Nat \ {0}
      BY Words
    <3> QED
      BY <3>1 DEF Values
  <2>2. ASSUME Init
        PROVE  TypeOK
    <3>1. h \in Values /\ g \in Values
      BY <2>1, <2>2, Zenon DEF Init
    <3>2. length \in Nat /\ differ \in 0..2 /\ spread \in Int /\ gap \in Int
      BY <2>2 DEF Init
    <3>3. numbered \in BOOLEAN
      BY <2>2 DEF Init
    <3> QED
      BY <3>1, <3>2, <3>3 DEF TypeOK
  <2>3. ASSUME Init
        PROVE  PairInv
    <3>1. h = 0 /\ g = 0 /\ differ = 0 /\ spread = 0
      BY <2>3 DEF Init
    <3>2. h - g = spread + 0 * Word
      BY <3>1, Words
    <3> QED
      BY <3>1, <3>2 DEF PairInv
  <2> QED
    BY <2>2, <2>3
<1>2. TypeOK /\ PairInv /\ [Next]_vars => (TypeOK /\ PairInv)'
  BY TypeStep, PairStep
<1> QED
  BY <1>1, <1>2, PTL DEF Spec

\* Seeds that differ in one character never have one hash, however long they
\* are and however often the hash overflows.
THEOREM OneCharacterAlwaysCounts == Spec => []OneCharacterCounts
<1>1. TypeOK /\ PairInv => OneCharacterCounts
  BY DEF PairInv, OneCharacterCounts
<1> QED
  BY <1>1, HashInductive, PTL

\* Names that differ in a number of one length never have one hash, however
\* long they are: at most as many digits count as a word has room for.
THEOREM NumbersAlwaysCount == Spec => []NumbersCount
<1>1. TypeOK /\ PairInv => NumbersCount
  BY DEF PairInv, NumbersCount
<1> QED
  BY <1>1, HashInductive, PTL

-----------------------------------------------------------------------------
(***************************************************************************)
(* The sources of math/rand.                                               *)
(***************************************************************************)

\* No multiple of a number that is not zero is less than the number.
LEMMA NoSmallMultiple ==
  ASSUME NEW m \in Nat \ {0}, NEW k \in Int, NEW d \in Int, d = k * m, -m < d, d < m
  PROVE  d = 0
<1>1. CASE k >= 1
  BY <1>1
<1>2. CASE k <= -1
  BY <1>2
<1>3. CASE k = 0
  BY <1>3
<1> QED
  BY <1>1, <1>2, <1>3

\* Hashes that are not far from each other, and not the same, have sources of
\* their own: the one that has none takes the default seed from no other.
LEMMA SourcesApart ==
  ASSUME NEW a \in Int, NEW b \in Int, a # b, Within(a - b, DefaultSeed)
  PROVE  Source(a) # Source(b)
<1>1. /\ Modulus \in Nat \ {0} /\ DefaultSeed \in Nat \ {0} /\ 2 * DefaultSeed <= Modulus
      /\ -DefaultSeed < a - b /\ a - b < DefaultSeed
  BY TheSource DEF Within
<1> DEFINE p == a \div Modulus
           q == b \div Modulus
           x == a % Modulus
           y == b % Modulus
<1>2. p \in Int /\ x \in 0..Modulus - 1 /\ a = Modulus * p + x
  BY <1>1, Division
<1>3. q \in Int /\ y \in 0..Modulus - 1 /\ b = Modulus * q + y
  BY <1>1, Division
<1>4. Source(a) = (IF x = 0 THEN DefaultSeed ELSE x) /\ Source(b) = (IF y = 0 THEN DefaultSeed ELSE y)
  BY DEF Source
<1> HIDE DEF p, q, x, y
<1>5. Modulus * p - Modulus * q = (p - q) * Modulus
  BY <1>1, <1>2, <1>3
<1>6. a - b = (p - q) * Modulus + (x - y)
  BY <1>1, <1>2, <1>3, <1>5
<1>7. CASE x = y
  <2>1. a - b = (p - q) * Modulus
    BY <1>1, <1>2, <1>3, <1>6, <1>7
  <2>2. -Modulus < a - b /\ a - b < Modulus
    BY <1>1
  <2>3. a - b = 0
    BY <1>1, <1>2, <1>3, <2>1, <2>2, NoSmallMultiple
  <2> QED
    BY <2>3
<1>8. ASSUME x = 0, y = DefaultSeed
      PROVE  FALSE
  <2>1. (a - b) + DefaultSeed = (p - q) * Modulus
    BY <1>1, <1>2, <1>3, <1>6, <1>8
  <2>2. 0 < (a - b) + DefaultSeed /\ (a - b) + DefaultSeed < Modulus
    BY <1>1
  <2>3. (a - b) + DefaultSeed = 0
    BY <1>1, <1>2, <1>3, <2>1, <2>2, NoSmallMultiple
  <2> QED
    BY <2>2, <2>3
<1>9. ASSUME y = 0, x = DefaultSeed
      PROVE  FALSE
  <2>1. (a - b) - DefaultSeed = (p - q) * Modulus
    BY <1>1, <1>2, <1>3, <1>6, <1>9
  <2>2. -Modulus < (a - b) - DefaultSeed /\ (a - b) - DefaultSeed < 0
    BY <1>1
  <2>3. (a - b) - DefaultSeed = 0
    BY <1>1, <1>2, <1>3, <2>1, <2>2, NoSmallMultiple
  <2> QED
    BY <2>2, <2>3
<1> QED
  BY <1>1, <1>2, <1>3, <1>4, <1>7, <1>8, <1>9

\* Names that end in numbers have sources of their own, whatever comes before
\* the numbers and however often it overflows.
THEOREM NamesAlwaysHaveSources == Spec => []NamesHaveSources
<1>1. TypeOK /\ PairInv => NamesHaveSources
  <2> SUFFICES ASSUME TypeOK, PairInv, numbered, differ > 0,
                      Within(spread, DefaultSeed), Within(h - g, Half)
               PROVE  Source(h) # Source(g)
    BY DEF NamesHaveSources, Half
  <2>1. PICK k \in Int : h - g = spread + k * Word
    BY DEF PairInv
  <2>2. /\ h \in Int /\ g \in Int /\ spread \in Int /\ spread # 0
        /\ Word = 2 * Half /\ Half \in Nat \ {0}
    BY Words DEF TypeOK, PairInv, Values
  <2>3. /\ DefaultSeed \in Nat /\ 2 * DefaultSeed <= Modulus
        /\ Modulus \in Nat /\ Modulus <= Half
    BY TheSource DEF Half
  <2>4. /\ -DefaultSeed < spread /\ spread < DefaultSeed
        /\ -Half < h - g /\ h - g < Half
    BY DEF Within
  <2> DEFINE d == (h - g) - spread
  <2>5. d \in Int /\ d = k * Word /\ -Word < d /\ d < Word
    BY <2>1, <2>2, <2>3, <2>4
  <2>6. d = 0
    <3> HIDE DEF d
    <3> QED
      BY <2>5, WithinAWord
  <2>7. h - g = spread
    BY <2>2, <2>6
  <2>8. h # g /\ Within(h - g, DefaultSeed)
    BY <2>2, <2>7
  <2> QED
    BY <2>2, <2>8, SourcesApart
<1> QED
  BY <1>1, HashInductive, PTL
=============================================================================
