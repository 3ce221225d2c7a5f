------------------------------- MODULE Hashes -------------------------------
(***************************************************************************)
(* The digests of src/hash, and the generators of src/rand at the end.     *)
(*                                                                         *)
(* The digests that take a byte at a time (crc, fletcher, adler, bsdsum,   *)
(* fnv1a) are calculated on data that grows byte by byte, on words as wide *)
(* as the constants say.  The digests that take blocks (murmur, fasthash,  *)
(* xxhash) are modelled by what they read: for data of a given length, the *)
(* sequence of words that are mixed in, each word the sequence of the      *)
(* indices of its bytes, lowest byte first.                                *)
(***************************************************************************)
EXTENDS Integers, Sequences, FiniteSets, Bitwise
LOCAL INSTANCE SequencesExt

CONSTANTS ByteBits,     \* the width of a byte
          DigestBits,   \* the width of a digest
          DataBytes,    \* the values of bytes
          MaxData,      \* bound on the data of the byte digests
          Divisors,     \* polynomials of the crc, without the leading bit
          Initials,     \* what the crc begins with
          Modulus,      \* of the fletcher sums
          Prime,        \* of fnv1a
          Bias,
          MaxLength     \* bound on the data of the block digests

VARIABLES data, length

Wrap(v) == v % 2^DigestBits
Word == 0 .. 2^DigestBits - 1
Bit(v, i) == (v \div 2^i) % 2
Mirror(v, w) == FoldLeft(LAMBDA acc, i : 2 * acc + Bit(v, i - 1), 0, [i \in 1 .. w |-> i])

(***************************************************************************)
(* Byte digests.                                                           *)
(***************************************************************************)
\* One entry of the table: ByteBits turns of a shift, with the generator
\* taken off when a bit falls out.
Turns(c, Turn(_)) == FoldLeft(LAMBDA acc, i : Turn(acc), c, [i \in 1 .. ByteBits |-> i])
table(gen, ReflectIn) ==
    [idx \in 0 .. 2^ByteBits - 1 |->
        IF ReflectIn
        THEN Turns(idx, LAMBDA c :
                IF c % 2 = 1 THEN Mirror(gen, DigestBits) ^^ (c \div 2) ELSE c \div 2)
        ELSE Turns(idx * 2^(DigestBits - ByteBits), LAMBDA c :
                IF Bit(c, DigestBits - 1) = 1 THEN Wrap(c * 2) ^^ gen ELSE Wrap(c * 2))]

crc(gen, initial, final, ReflectIn, ReflectOut, s) ==
    LET s_table == table(gen, ReflectIn)
        Take(accum, i) ==
            IF ReflectIn
            THEN s_table[i ^^ (accum % 2^ByteBits)] ^^ (accum \div 2^ByteBits)
            ELSE Wrap(accum * 2^ByteBits) ^^ s_table[(accum \div 2^(DigestBits - ByteBits)) ^^ i]
        accum == FoldLeft(Take, initial, s)
    IN  (IF ReflectIn # ReflectOut THEN Mirror(accum, DigestBits) ELSE accum) ^^ final

fletcher(modulus, a, b, s) ==
    LET Take(accum, i) ==
            LET na == (accum[1] + i) % modulus IN <<na, (na + accum[2]) % modulus>>
        accum == FoldLeft(Take, <<a, b>>, s)
    IN  accum[2] * 2^(DigestBits \div 2) + accum[1]
adler32(s) == fletcher(Modulus, 1, 0, s)

rotater(v) == (v \div 2) + (v % 2) * 2^(DigestBits - 1)
bsdsum(s) == FoldLeft(LAMBDA accum, i : Wrap(rotater(accum) + i), 0, s)
fnv1a(s) == FoldLeft(LAMBDA result, i : Wrap((result ^^ i) * Prime), Bias, s)

(***************************************************************************)
(* Block digests.  T is the size of the word in bytes; cursor counts the   *)
(* words before the next one.                                              *)
(***************************************************************************)
Lane(cursor, T) == [k \in 1 .. T |-> cursor * T + k]
Lanes(n, T) == [i \in 1 .. n |-> Lane(i - 1, T)]
\* Mutant: one byte behind.
tail_Behind(cursor, len, T) == [k \in 1 .. len % T |-> cursor * T + k - 1]

\* tail: the bytes past the last word, as many as the length leaves over.
tail(cursor, len, T) == [k \in 1 .. len % T |-> cursor * T + k]

murmur1(len) ==
    Lanes(len \div 4, 4) \o (IF len % 4 # 0 THEN <<tail(len \div 4, len, 4)>> ELSE <<>>)
murmur2(len, T) ==
    Lanes(len \div T, T) \o (IF len % T # 0 THEN <<tail(len \div T, len, T)>> ELSE <<>>)
fasthash(len) ==
    Lanes(len \div 8, 8)
    \o (IF len % 8 # 0 THEN <<[i \in 1 .. len % 8 |-> (len \div 8) * 8 + i]>> ELSE <<>>)
murmur3_32(len) ==
    LET nblocks == len \div 4
    IN  Lanes(nblocks, 4) \o (IF len % 4 # 0 THEN <<tail(nblocks, len, 4)>> ELSE <<>>)

\* A block of 16 bytes is a row of words.  The cursor moves by words, and so
\* does the end of the body, which is counted in blocks.
tail_array(cursor, len, T) ==
    LET rest == len % 16
        Count(c) == IF rest >= c * T THEN T ELSE IF rest <= (c - 1) * T THEN 0 ELSE rest - (c - 1) * T
    IN  [c \in 1 .. 16 \div T |-> [k \in 1 .. Count(c) |-> (cursor + c - 1) * T + k]]
hash_128(len, T) ==
    LET components == 16 \div T
        last == len \div 16
        Turn[cursor \in Nat] ==
            IF cursor < last
            THEN [c \in 1 .. components |-> Lane(cursor + c - 1, T)] \o Turn[cursor + components]
            ELSE IF len % 16 # 0 THEN tail_array(cursor, len, T) ELSE <<>>
    IN  Turn[0]

\* What xxhash mixes in chunk by chunk, and what it leaves in its buffer.
xxhash_body(len, T) ==
    LET CHUNK == 4 * T
        Turn[p \in Nat] ==
            IF p <= len - CHUNK
            THEN [i \in 1 .. 4 |-> [k \in 1 .. T |-> p + T * (i - 1) + k]] \o Turn[p + CHUNK]
            ELSE <<>>
    IN  IF len >= CHUNK /\ len >= CHUNK * T THEN Turn[0] ELSE <<>>
\* The buffer, mem32, holds 16 bytes whatever the word is.
xxhash_memsize(len, T) == len - T * Len(xxhash_body(len, T))
xxhash_fits(len, T) == xxhash_memsize(len, T) <= 16
xxhash_digest(len, T) ==
    LET first == len - xxhash_memsize(len, T)
        Turn[p \in Nat] ==
            IF p + T <= len THEN <<[k \in 1 .. T |-> p + k]>> \o Turn[p + 4]
            ELSE IF p < len THEN << <<p + 1>> >> \o Turn[p + 1] ELSE <<>>
    IN  Turn[first]
xxhash(len, T) == xxhash_body(len, T) \o xxhash_digest(len, T)

-----------------------------------------------------------------------------
HashInit == data = <<>> /\ length = 0
Feed == /\ length = 0 /\ Len(data) < MaxData
        /\ \E b \in DataBytes : data' = Append(data, b)
        /\ UNCHANGED length
Lengthen == data = <<>> /\ length < MaxLength /\ length' = length + 1 /\ UNCHANGED data
HashNext == Feed \/ Lengthen

-----------------------------------------------------------------------------
\* Polynomials over bits, as the sets of their exponents.
Poly(v, up) == {i + up : i \in {j \in 0 .. DigestBits - 1 : Bit(v, j) = 1}}
Modulo(p, g) ==
    LET Divide[d \in Nat, rest \in SUBSET Nat] ==
            IF d < DigestBits THEN rest
            ELSE Divide[d - 1, IF d \in rest
                               THEN SymDiff(rest, {e + (d - DigestBits) : e \in g}) ELSE rest]
    IN  Divide[DigestBits + ByteBits * MaxData, p]
ValueOf(p) == FoldLeft(LAMBDA acc, i : acc + (IF i - 1 \in p THEN 2^(i - 1) ELSE 0), 0,
                       [i \in 1 .. DigestBits |-> i])

\* The data as a polynomial, the first byte highest; the initial value is
\* added to the front of the data, and the digest is the remainder.
Remainder(gen, initial, s) ==
    LET n == ByteBits * Len(s)
        message == UNION {Poly(s[i], ByteBits * (Len(s) - i) + DigestBits) : i \in DOMAIN s}
        generator == Poly(gen, 0) \union {DigestBits}
    IN  ValueOf(Modulo(SymDiff(message, Poly(initial, n)), generator))

(***************************************************************************)
(* The table-driven crc is the remainder of the division of the data by    *)
(* the generator polynomial, in the four combinations of reflection        *)
(* (src/hash/crc.cpp).                                                     *)
(***************************************************************************)
CrcIsRemainder ==
    \A gen \in Divisors, init \in Initials, in \in BOOLEAN, out \in BOOLEAN :
        LET bytes == IF in THEN [i \in DOMAIN data |-> Mirror(data[i], ByteBits)] ELSE data
            start == IF in THEN Mirror(init, DigestBits) ELSE init
            r == Remainder(gen, start, bytes)
        IN  crc(gen, init, 2^DigestBits - 1, in, out, data)
                = (IF out THEN Mirror(r, DigestBits) ELSE r) ^^ (2^DigestBits - 1)

(***************************************************************************)
(* The two sums of fletcher are the sum of the bytes and the sum weighted  *)
(* by their distance from the end, in the modulus, never more than a half  *)
(* of the digest; adler begins at 1 (src/hash/fletcher.cpp, adler.cpp).    *)
(***************************************************************************)
SumsWeighted ==
    LET n == Len(data)
        Sum(Term(_)) == FoldLeft(LAMBDA acc, i : acc + Term(i), 0, [i \in DOMAIN data |-> i])
        low == Sum(LAMBDA i : data[i])
        high == Sum(LAMBDA i : (n + 1 - i) * data[i])
    IN  /\ fletcher(Modulus, 0, 0, data)
                = (high % Modulus) * 2^(DigestBits \div 2) + (low % Modulus)
        /\ adler32(data)
                = ((high + n) % Modulus) * 2^(DigestBits \div 2) + ((low + 1) % Modulus)

\* bsdsum and fnv1a lose nothing as they go: from the digest and the last
\* byte follows the digest of the bytes before (bsdsum.cpp, fnv1a.cpp).
StepsCanBeUndone ==
    data # <<>> =>
        LET s == Front(data)
            b == Last(data)
            Unrotate(v) == Wrap(2 * v) + Bit(v, DigestBits - 1)
            undo == CHOOSE k \in Word : Wrap(k * Prime) = 1
        IN  /\ Unrotate(Wrap(bsdsum(data) - b)) = bsdsum(s)
            /\ Wrap(fnv1a(data) * undo) ^^ b = fnv1a(s)

(***************************************************************************)
(* Every byte of the data is read once, in order, and weighs in its word   *)
(* as its place in the data says, in murmur1, murmur2, fasthash and        *)
(* murmur3 of 32 bits for every length; in murmur3 of 128 bits below its   *)
(* second block, 32 bytes, and in xxhash32 below a chunk, 16 bytes, and    *)
(* from four chunks on; in xxhash64 below a word, 8 bytes.  Of the other   *)
(* lengths this says nothing: the code then skips bytes, or reads some     *)
(* twice, or writes past its buffer (src/hash/murmur, fasthash.cpp,        *)
(* xxhash.cpp).                                                            *)
(***************************************************************************)
ReadOnce(lanes) == FlattenSeq(lanes) = [i \in 1 .. length |-> i]
WordsAligned(lanes, T) ==
    \A i \in DOMAIN lanes : lanes[i] # <<>> => lanes[i][1] % T = 1
Whole(lanes, T) == ReadOnce(lanes) /\ WordsAligned(lanes, T)
AllBytesRead ==
    /\ Whole(murmur1(length), 4)
    /\ Whole(murmur2(length, 4), 4) /\ Whole(murmur2(length, 8), 8)
    /\ Whole(fasthash(length), 8)
    /\ Whole(murmur3_32(length), 4)
    /\ length < 32 => \A T \in {4, 8} : Whole(hash_128(length, T), T)
    /\ (length < 16 \/ length >= 64) => ReadOnce(xxhash(length, 4)) /\ xxhash_fits(length, 4)
    /\ length < 8 => ReadOnce(xxhash(length, 8)) /\ xxhash_fits(length, 8)

\* The digests are what they are named for, the block digests for the lengths
\* AllBytesRead names.
DigestsSound == CrcIsRemainder /\ SumsWeighted /\ StepsCanBeUndone /\ AllBytesRead

-----------------------------------------------------------------------------
(***************************************************************************)
(* The pseudo random number generators of src/rand, on words of Bits bits: *)
(* lcg (linear congruential), mwc64x (multiply with carry) and xorshift.   *)
(* A generator is a record of its kind and its constants.                  *)
(***************************************************************************)

CONSTANTS Bits,        \* the width of a result
          Kinds,       \* the generators to run
          Seeds,       \* what they are seeded with
          MaxDraws     \* bound on the numbers drawn

VARIABLES generator, seed, state, visited, drawn

WrapBits(v) == v % 2^Bits

\* M = 0 stands for the modulus of the type.
lcg(g, x) == LET y == WrapBits(g.A * x + g.C) IN IF g.M # 0 THEN y % g.M ELSE y
lcg_allowed(g) ==
    g.M = 0 \/ \A d \in 2 .. g.M : ~(g.M % d = 0 /\ g.C % d = 0)

\* Mutant: the carry is lost.
mwc64x_NoCarry(g, s) == (s % 2^Bits) * g.A

\* The carry is the high half of the state.
mwc64x(g, s) == (s % 2^Bits) * g.A + s \div 2^Bits
mwc64x_result(s) == (s % 2^Bits) ^^ (s \div 2^Bits)

xorshift(g, s) ==
    LET s1 == s ^^ (s \div 2^g.a)
        s2 == s1 ^^ WrapBits(s1 * 2^g.b)
    IN  s2 ^^ (s2 \div 2^g.c)

Step(g, s) == CASE g.kind = "lcg" -> lcg(g, s)
                [] g.kind = "mwc64x" -> mwc64x(g, s)
                [] g.kind = "xorshift" -> xorshift(g, s)

\* xorshift throws for a seed of zero, and mwc64x checks.
seed_allowed(g, s) == g.kind \in {"mwc64x", "xorshift"} => s # 0

\* The carry of a multiply with carry generator is below its multiplier from
\* the first number on; a seed is taken from there.
Settled(g, s) == g.kind = "mwc64x" => s \div 2^Bits < g.A
InRange(g, s) == /\ g.kind # "mwc64x" => s < 2^Bits
                 /\ g.kind = "lcg" /\ g.M # 0 => s < g.M

GeneratorInit ==
    /\ \E g \in Kinds, s \in Seeds :
          /\ g.kind = "lcg" => lcg_allowed(g)
          /\ seed_allowed(g, s) /\ Settled(g, s) /\ InRange(g, s)
          /\ generator = g /\ seed = s
    /\ state = seed /\ visited = {} /\ drawn = 0

\* discard throws away the numbers of as many steps.
discard(g, s, count) == FoldLeft(LAMBDA t, i : Step(g, t), s, [i \in 1 .. count |-> i])

Draw == /\ drawn < MaxDraws
        /\ state' = Step(generator, state)
        /\ visited' = visited \union {state} /\ drawn' = drawn + 1
        /\ UNCHANGED <<generator, seed>>
Discard(count) ==
        /\ drawn + count < MaxDraws
        /\ state' = discard(generator, state, count)
        /\ visited' = visited \union {discard(generator, state, i) : i \in 0 .. count - 1}
        /\ drawn' = drawn + count
        /\ UNCHANGED <<generator, seed>>

GeneratorNext == Draw \/ Discard(2)

(***************************************************************************)
(* A generator that comes back to a state it was in has come back to its   *)
(* seed first and repeats itself from there, whatever was discarded on the *)
(* way: no number is lost to a tail that is never visited again.  The      *)
(* states of mwc64x and xorshift are never zero, so the checks of src/rand *)
(* cannot fire, and a full lcg visits every value of its type.             *)
(***************************************************************************)
CyclesWhole ==
    /\ state \in visited => state = discard(generator, seed, drawn % Cardinality(visited))
    /\ generator.kind \in {"mwc64x", "xorshift"} => state # 0
    /\ generator.kind = "mwc64x" => mwc64x_result(state) < 2^Bits
    /\ generator.kind = "lcg" /\ state \in visited =>
        Cardinality(visited) = IF generator.M = 0 THEN 2^Bits ELSE generator.M
=============================================================================
