------------------------------- MODULE Codecs -------------------------------
(***************************************************************************)
(* The encodings of text: base16, base32 and base64 (src/encode/base.hpp), *)
(* the utf8 decoder (src/utf8.cpp) and the tests on ASCII characters       *)
(* (src/ascii.hpp), over octets that arrive one at a time.  A character is *)
(* its code, and a number too wide for TLC is the sequence of its bits.    *)
(***************************************************************************)
EXTENDS Integers, Sequences, FiniteSets

CONSTANTS Sources,     \* << the octets of a text, bound on its length >>
          Codepoints   \* the codepoints the utf8 decoder is tried on

Octets == 0 .. 255

ASSUME CodecAssumption ==
    /\ \A s \in Sources : s[1] \subseteq Octets
    /\ \A c \in Codepoints : c \in Nat /\ c < 2097152

VARIABLES octets, source

\* The worth of the bits of an octet, and the number that digits are the rest of.
Worth == <<128, 64, 32, 16, 8, 4, 2, 1>>
BitsOf(v, w) == [i \in 1 .. w |-> (v \div Worth[8 - w + i]) % 2]
Positional(first, digits, base) ==
    LET N[i \in 0 .. Len(digits)] == IF i = 0 THEN first ELSE N[i - 1] * base + digits[i]
    IN  N[Len(digits)]
Number(b) == Positional(0, b, 2)
Chop(b, n) == [i \in 1 .. Len(b) \div n |-> SubSeq(b, (n * (i - 1)) + 1, n * i)]
Zeroes(n) == [i \in 1 .. n |-> 0]

\* The bits of numbers of n bits, one after the other.
Spread(s, n) == [i \in 1 .. n * Len(s) |-> BitsOf(s[((i - 1) \div n) + 1], n)[((i - 1) % n) + 1]]
(***************************************************************************)
(* Characters.                                                             *)
(***************************************************************************)
is_digit(c) == c \in 48 .. 57
is_upper(c) == c \in 65 .. 90
is_lower(c) == c \in 97 .. 122
is_hex(c) == is_digit(c) \/ c \in 97 .. 102 \/ c \in 65 .. 70
is_space(c) == c \in {32, 12, 10, 13, 9, 11}
Throws == -1
to_integer(c) == IF is_digit(c) THEN c - 48 ELSE Throws
from_hex(c) == IF is_digit(c) THEN c - 48
               ELSE IF c \in 97 .. 102 THEN c - 97 + 10
               ELSE IF c \in 65 .. 70 THEN c - 65 + 10 ELSE Throws
to_upper(c) == (c - 97 + 65) % 256
to_lower(c) == (c - 65 + 97) % 256

(***************************************************************************)
(* Base16, base32 and base64.                                              *)
(***************************************************************************)
Pad == 61    \* '='
enc64 == [i \in 0 .. 63 |-> IF i < 26 THEN 65 + i ELSE IF i < 52 THEN 97 + (i - 26)
                            ELSE IF i < 62 THEN 48 + (i - 52) ELSE IF i = 62 THEN 43 ELSE 47]
enc32 == [i \in 0 .. 31 |-> IF i < 26 THEN 65 + i ELSE 50 + (i - 26)]
enc16 == [i \in 0 .. 15 |-> IF i < 10 THEN 48 + i ELSE 65 + (i - 10)]
dec64 == [c \in Octets |-> IF c = 43 THEN 62 ELSE IF c = 47 THEN 63
                           ELSE IF c \in 48 .. 57 THEN 52 + (c - 48)
                           ELSE IF c \in 65 .. 90 THEN c - 65
                           ELSE IF c \in 97 .. 122 THEN 26 + (c - 97) ELSE 0]
dec32 == [c \in Octets |-> IF c \in 50 .. 55 THEN 26 + (c - 50)
                           ELSE IF c \in 65 .. 90 THEN c - 65 ELSE 0]
dec16 == [c \in Octets |-> IF c \in 48 .. 57 THEN c - 48
                           ELSE IF c \in 65 .. 70 THEN 10 + (c - 65) ELSE 0]
enc(Size) == CASE Size = 64 -> enc64 [] Size = 32 -> enc32 [] Size = 16 -> enc16
dec(Size) == CASE Size = 64 -> dec64 [] Size = 32 -> dec32 [] Size = 16 -> dec16

symbol_bits(Size) == CASE Size = 64 -> 6 [] Size = 32 -> 5 [] Size = 16 -> 4
group_bits(Size) == CASE Size = 64 -> 24 [] Size = 32 -> 40 [] Size = 16 -> 8
group_symbols(Size) == group_bits(Size) \div symbol_bits(Size)
group_bytes(Size) == group_bits(Size) \div 8

\* The bits of the bytes, the first highest, as the symbols they are cut into.
Tally(s) == Spread(s, 8)
Symbols(Size, b) == LET cut == Chop(b, symbol_bits(Size))
                    IN  [i \in DOMAIN cut |-> enc(Size)[Number(cut[i])]]

\* Mutant: the last symbol is filled as if the bytes were symbols.
encode_Misaligned(Size, s) ==
    LET whole == (Len(s) \div group_bytes(Size)) * group_bytes(Size)
        rest == Len(s) - whole
        tally == Tally(SubSeq(s, whole + 1, Len(s))) \o Zeroes(symbol_bits(Size) - (rest % symbol_bits(Size)))
        fill == ((group_bytes(Size) - rest) * 8) \div symbol_bits(Size)
    IN  Symbols(Size, Tally(SubSeq(s, 1, whole)))
        \o IF rest = 0 THEN <<>> ELSE Symbols(Size, tally) \o [i \in 1 .. fill |-> Pad]

encode(Size, s) ==
    LET whole == (Len(s) \div group_bytes(Size)) * group_bytes(Size)
        rest == Len(s) - whole
        tally == Tally(SubSeq(s, whole + 1, Len(s)))
                     \o Zeroes(symbol_bits(Size) - ((rest * 8) % symbol_bits(Size)))
        fill == ((group_bytes(Size) - rest) * 8) \div symbol_bits(Size)
    IN  Symbols(Size, Tally(SubSeq(s, 1, whole)))
        \o IF rest = 0 THEN <<>> ELSE Symbols(Size, tally) \o [i \in 1 .. fill |-> Pad]

\* num has 64 bits and shares its bytes with a union of as many or fewer.
num(Size, s) ==
    LET b == Spread([i \in DOMAIN s |-> dec(Size)[s[i]]], symbol_bits(Size))
    IN  IF Len(b) <= 64 THEN Zeroes(64 - Len(b)) \o b ELSE SubSeq(b, Len(b) - 63, Len(b))
LowBytes(b, n) == LET low == SubSeq(b, Len(b) - (8 * n) + 1, Len(b))
                  IN  [i \in 1 .. n |-> Number(Chop(low, 8)[i])]

\* The number of whole groups is lost in last, which is 0 or 1: what follows
\* the first group is taken in one piece, whatever its length.
decode(Size, s) ==
    LET gs == group_symbols(Size)
        padded == IF s[Len(s)] = Pad THEN 1 ELSE 0
        last == IF Len(s) \div gs - padded # 0 THEN 1 ELSE 0
        first == IF last = 1 THEN LowBytes(num(Size, SubSeq(s, 1, gs)), group_bytes(Size)) ELSE <<>>
        rest == SubSeq(s, last * gs + 1, Len(s))
        end == CHOOSE e \in 1 .. Len(rest) + 1 :
                   (e = Len(rest) + 1 \/ rest[e] = Pad) /\ \A i \in 1 .. e - 1 : rest[i] # Pad
        symbols == SubSeq(rest, 1, end - 1)
        bits == Len(symbols) * symbol_bits(Size)
        register == num(Size, symbols)
        shifted == Zeroes(bits % 8) \o SubSeq(register, 1, 64 - (bits % 8))
    IN  IF s = <<>> THEN <<>>
        ELSE IF Len(s) % gs # 0 THEN <<Throws>>
        ELSE first \o IF bits \div 8 > 8 THEN <<Throws>> ELSE LowBytes(shifted, bits \div 8)

(***************************************************************************)
(* utf8.                                                                   *)
(***************************************************************************)
\* The prefixes 0xxxxxxx, 110xxxxx, 1110xxxx and 11110xxx, by the number of
\* bytes that follow.
sequence_length(c) ==
    CASE c < 128 -> 0 [] c \div 32 = 6 -> 1 [] c \div 16 = 14 -> 2 [] c \div 8 = 30 -> 3 [] OTHER -> Throws
prefix_value(c, len) == CASE len = 0 -> c [] len = 1 -> c % 32 [] len = 2 -> c % 16 [] len = 3 -> c % 8
continuation(c) == c \div 64 = 2
\* The bits of a codepoint that only a sequence of this length can hold.
uses_level(accum, len) ==
    CASE len = 0 -> accum % 128 # 0
      [] len = 1 -> (accum \div 128) % 16 # 0
      [] len = 2 -> (accum \div 2048) % 32 # 0
      [] len = 3 -> (accum \div 65536) % 32 # 0
Illegal == 55296 .. 57343 \union {65534, 65535}

\* One turn of the loop, unless there was an error or the text is at its end.
turn(s, at) ==
    LET c == s[at.cursor]
        len == sequence_length(c)
        rest == SubSeq(s, at.cursor + 1, IF at.cursor + len > Len(s) THEN Len(s) ELSE at.cursor + len)
        accum == Positional(prefix_value(c, len), [i \in DOMAIN rest |-> rest[i] % 64], 64)
        Stop(how) == [at EXCEPT !.how = how]
        Decoded(v) == [how |-> at.how, cursor |-> at.cursor + len + 1, out |-> Append(at.out, v)]
    IN  IF at.how # "done" \/ at.cursor > Len(s) THEN at
        ELSE IF len = Throws THEN Stop("malformed")
        ELSE IF len = 0 THEN Decoded(c)
        ELSE IF Len(rest) < len \/ \E i \in DOMAIN rest : ~continuation(rest[i]) THEN Stop("malformed")
        ELSE IF ~uses_level(accum, len) THEN Stop("overlong")
        ELSE IF accum \in Illegal THEN Stop("illegal")
        ELSE Decoded(accum)

\* There are no more turns than octets.
decode_utf8(s) ==
    LET After[n \in 0 .. Len(s)] ==
            IF n = 0 THEN [how |-> "done", cursor |-> 1, out |-> <<>>] ELSE turn(s, After[n - 1])
    IN  After[Len(s)]

-----------------------------------------------------------------------------
CodecInit == octets = <<>> /\ source \in Sources
Receive(c) == Len(octets) < source[2] /\ octets' = Append(octets, c) /\ UNCHANGED source
CodecNext == \E c \in source[1] : Receive(c)
CodecSpec == CodecInit /\ [][CodecNext]_<<octets, source>>

-----------------------------------------------------------------------------
Sizes == {16, 32, 64}
\* The register of decode holds what follows the first group.
Fits(Size, s) ==
    LET groups == Len(s) \div group_symbols(Size)
        padding == Cardinality({i \in DOMAIN s : s[i] = Pad})
        tail == IF groups = 1 /\ padding > 0 THEN 0 ELSE 1
    IN  (Len(s) - padding - tail * group_symbols(Size)) * symbol_bits(Size) <= 64

(***************************************************************************)
(* The bytes filled up with zeroes to whole symbols, and the symbols with  *)
(* '=' to whole groups, as rfc4648 says; what was encoded is decoded as    *)
(* long as it fits the register, and no symbol is taken for another        *)
(* (src/encode/base.hpp).                                                  *)
(***************************************************************************)
BasesSound ==
    \A Size \in Sizes :
        LET text == encode(Size, octets)
            n == symbol_bits(Size)
            b == Tally(octets) \o Zeroes((n - ((8 * Len(octets)) % n)) % n)
            symbols == Len(b) \div n
        IN  /\ Len(text) % group_symbols(Size) = 0 /\ Len(text) - symbols < group_symbols(Size)
            /\ \A i \in DOMAIN text :
                  text[i] = IF i <= symbols THEN enc(Size)[Number(SubSeq(b, (n * (i - 1)) + 1, n * i))] ELSE Pad
            /\ Fits(Size, text) => decode(Size, text) = octets
            /\ octets = <<>> => \A i \in DOMAIN enc(Size) :
                  dec(Size)[enc(Size)[i]] = i /\ enc(Size)[i] # Pad

\* A codepoint in the fewest bytes that hold it, and some of them.
Canonical(c) ==
    LET C(v) == 128 + (v % 64)
    IN  CASE c < 128 -> <<c>>
          [] c >= 128 /\ c < 2048 -> <<192 + (c \div 64), C(c)>>
          [] c >= 2048 /\ c < 65536 -> <<224 + (c \div 4096), C(c \div 64), C(c)>>
          [] c >= 65536 -> <<240 + (c \div 262144), C(c \div 4096), C(c \div 64), C(c)>>
Encoded(out) ==
    LET E[i \in 0 .. Len(out)] == IF i = 0 THEN <<>> ELSE E[i - 1] \o Canonical(out[i]) IN E[Len(out)]
Legal(c) == c \notin Illegal

(***************************************************************************)
(* The decoder takes exactly the codepoints in their shortest form, but    *)
(* for the surrogates and the two that are no characters, and what it took *)
(* in front of an error stands in the text (src/utf8.cpp).                 *)
(***************************************************************************)
Utf8Sound ==
    LET r == decode_utf8(octets)
        read == Encoded(r.out)
    IN  /\ IF r.how = "done" THEN read = octets
           ELSE Len(read) < Len(octets) /\ read = SubSeq(octets, 1, Len(read))
        /\ \A i \in DOMAIN r.out : Legal(r.out[i])
        /\ octets = <<>> => \A c \in Codepoints, d \in Codepoints :
              LET both == decode_utf8(Canonical(c) \o Canonical(d))
              IN  both.how = "done" /\ both.out = <<c, d>> <=> Legal(c) /\ Legal(d)
        /\ \A c \in {c \in Codepoints : Legal(c)} :
              decode_utf8(octets \o Canonical(c)).how = "done" <=> r.how = "done"

\* The characters fall into classes, the digits mean what base16 makes of
\* them, and a letter changes its case and back (src/ascii.hpp).
AsciiSound ==
    octets = <<>> => \A c \in Octets :
        /\ Cardinality({f \in 1 .. 4 : <<is_digit(c), is_upper(c), is_lower(c), is_space(c)>>[f]}) <= 1
        /\ is_hex(c) <=> from_hex(c) # Throws
        /\ is_hex(c) => from_hex(c) = dec16[IF is_lower(c) THEN to_upper(c) ELSE c]
        /\ is_digit(c) => to_integer(c) = from_hex(c)
        /\ is_upper(c) => is_lower(to_lower(c)) /\ to_upper(to_lower(c)) = c

\* The encodings are the ones their names promise.
CodecsSound == source \in Sources => BasesSound /\ Utf8Sound /\ AsciiSound
=============================================================================
