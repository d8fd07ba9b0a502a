------------------------------ MODULE SeedHash ------------------------------
(***************************************************************************)
(* The hash from which UUIDs and the model of a node are generated         *)
(* (emulator.go:62-92): the node's name is the seed of its devices, the    *)
(* UUID of a device that of its parts.  Seeds that leave math/rand in one  *)
(* state have one list of UUIDs.                                           *)
(*                                                                         *)
(* Two seeds of one length are read side by side, so that their hashes can *)
(* be compared at any length; a seed is nothing but the characters read so *)
(* far.  The numbers are those of the program, which TLC's integers of 32  *)
(* bits have no room for: what holds is proved, in SeedHashProofs.         *)
(***************************************************************************)
EXTENDS Integers

Word == 18446744073709551616        \* 2^64, the number of values of an int64
Modulus == 2147483647               \* 2^31 - 1, which math/rand reduces seeds by
DefaultSeed == 89482311             \* what math/rand takes for 0
Characters == {c \in Nat : c < 1114112}   \* runes
Numerals == 48..57                  \* "0" to "9", in which numbered names differ

VARIABLES
  h, g,       \* the hashes of the two seeds
  length,     \* their length
  differ,     \* the number of characters in which they differ, up to 2
  numbered,   \* history: they differ in numerals only
  spread,     \* history: by how much the hashes would differ in an endless word
  gap         \* history: the spread at the last character that differs

vars == <<h, g, length, differ, numbered, spread, gap>>

Init ==
  /\ h = 0 /\ g = 0
  /\ length = 0
  /\ differ = 0
  /\ numbered = TRUE
  /\ spread = 0 /\ gap = 0

\* The int64 that an integer wraps around to.
Wrap(n) == ((n + Word \div 2) % Word) - (Word \div 2)

\* The body of the loop, before it wraps around.
NextValue(value, c) == 31 * value + c

\* One more character of each seed.
Read(c, d) ==
  /\ length' = length + 1
  /\ h' = Wrap(NextValue(h, c))
  /\ g' = Wrap(NextValue(g, d))
  /\ differ' = IF c # d /\ differ < 2 THEN differ + 1 ELSE differ
  /\ numbered' = (numbered /\ (c # d => {c, d} \subseteq Numerals))
  /\ spread' = 31 * spread + (c - d)
  /\ gap' = IF c # d THEN spread' ELSE gap

Next == \E c, d \in Characters : Read(c, d)

Spec == Init /\ [][Next]_vars

\* What rand.NewSource makes of a hash: the state that everything it generates
\* follows from.
Source(hash) ==
  IF hash % Modulus = 0 THEN DefaultSeed ELSE hash % Modulus

-----------------------------------------------------------------------------
(***************************************************************************)
(* Properties.                                                             *)
(***************************************************************************)

\* Numbers between -bound and bound, both excluded.
Within(n, bound) == -bound < n /\ n < bound

\* Seeds that differ in one character, as the nodes of a numbered pool do, have
\* different hashes at any length: 31 is odd, so that no difference is shifted
\* out of the word when the hash overflows (emulator.go:89).
OneCharacterCounts == differ = 1 => h # g

\* So have names of one length that differ in a number, wherever it stands and
\* however long the names are: "pool-017-a" and "pool-123-a".  The number may
\* have 13 digits, for all of which the gap is less than a word.
NumbersCount == numbered /\ differ > 0 /\ Within(gap, Word) => h # g

\* But math/rand keeps less of a hash than the hash says: 31 bits.  Names that
\* end in a number of up to five digits, for which the spread is less than the
\* default seed, still have UUIDs of their own, at any length and however often
\* the hashes overflow, unless an overflow has come between the two hashes: one
\* is then near the largest int64 and the other near the smallest.
NamesHaveSources ==
  numbered /\ differ > 0 /\ Within(spread, DefaultSeed) /\ Within(h - g, Word \div 2) =>
    Source(h) # Source(g)
=============================================================================
