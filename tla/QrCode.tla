------------------------------- MODULE QrCode -------------------------------
(***************************************************************************)
(* The QR encoder (qr.py) that turns a customer's configuration or link    *)
(* into a symbol. A module of the symbol is a pair <<x, y>>; bits, bytes   *)
(* and codewords are polynomials over the field of two elements, that is   *)
(* sets of exponents, so that exclusive or is symmetric difference. A      *)
(* character is its ASCII code. Which of the eight masks has the lowest    *)
(* penalty is left open: any of them has to do.                            *)
(***************************************************************************)
EXTENDS Integers, Sequences, SequencesExt

CONSTANT QrText \* the texts to encode

VARIABLES
  qrAt,   \* how far the encoder is
  qrText, \* the text
  symbol  \* version, level, data codewords, function modules, dark modules

qrVars == <<qrAt, qrText, symbol>>

(* The sequence as a tuple, evaluated once; a fold whose steps are evaluated
   in their order; the concatenation of a sequence of sequences. *)
Tuple(s) == SubSeq(s, 1, Len(s))
Fold(op(_, _), base, s) ==
  LET f[i \in 0..Len(s)] == IF i = 0 THEN base ELSE CHOOSE r \in {op(a, s[i]) : a \in {f[i - 1]}} : TRUE
  IN f[Len(s)]

RECURSIVE Join(_)
Join(seqs) ==
  LET half == Len(seqs) \div 2
  IN CASE seqs = <<>> -> <<>>
       [] Len(seqs) = 1 -> seqs[1]
       [] OTHER -> Join(SubSeq(seqs, 1, half)) \o Join(SubSeq(seqs, half + 1, Len(seqs)))

Upto(n) == [i \in 1..n |-> i]
Bits(n, width) == [k \in 1..width |-> (n \div 2^(width - k)) % 2]
Terms(n) == {i \in 0..15 : (n \div 2^i) % 2 = 1}

-----------------------------------------------------------------------------
(* Tables by level (low, medium, quartile, high) and version. *)

EccPerBlock == <<
    <<7, 10, 15, 20, 26, 18, 20, 24, 30, 18, 20, 24, 26, 30, 22, 24, 28, 30, 28, 28,
      28, 28, 30, 30, 26, 28, 30, 30, 30, 30, 30, 30, 30, 30, 30, 30, 30, 30, 30, 30>>,
    <<10, 16, 26, 18, 24, 16, 18, 22, 22, 26, 30, 22, 22, 24, 24, 28, 28, 26, 26, 26,
      26, 28, 28, 28, 28, 28, 28, 28, 28, 28, 28, 28, 28, 28, 28, 28, 28, 28, 28, 28>>,
    <<13, 22, 18, 26, 18, 24, 18, 22, 20, 24, 28, 26, 24, 20, 30, 24, 28, 28, 26, 30,
      28, 30, 30, 30, 30, 28, 30, 30, 30, 30, 30, 30, 30, 30, 30, 30, 30, 30, 30, 30>>,
    <<17, 28, 22, 16, 22, 28, 26, 26, 24, 28, 24, 28, 22, 24, 24, 30, 28, 28, 26, 28,
      30, 24, 30, 30, 30, 30, 30, 30, 30, 30, 30, 30, 30, 30, 30, 30, 30, 30, 30, 30>>
>>

NumBlocks == <<
    <<1, 1, 1, 1, 1, 2, 2, 2, 2, 4, 4, 4, 4, 4, 6, 6, 6, 6, 7, 8,
      8, 9, 9, 10, 12, 12, 12, 13, 14, 15, 16, 17, 18, 19, 19, 20, 21, 22, 24, 25>>,
    <<1, 1, 1, 2, 2, 4, 4, 4, 5, 5, 5, 8, 9, 9, 10, 10, 11, 13, 14, 16,
      17, 17, 18, 20, 21, 23, 25, 26, 28, 29, 31, 33, 35, 37, 38, 40, 43, 45, 47, 49>>,
    <<1, 1, 2, 2, 4, 4, 6, 6, 8, 8, 8, 10, 12, 16, 12, 17, 16, 18, 21, 20,
      23, 23, 25, 27, 29, 34, 34, 35, 38, 40, 43, 45, 48, 51, 53, 56, 59, 62, 65, 68>>,
    <<1, 1, 2, 4, 4, 4, 5, 6, 8, 8, 11, 11, 16, 16, 18, 16, 19, 21, 25, 25,
      25, 34, 30, 32, 35, 37, 40, 42, 45, 48, 51, 54, 57, 60, 63, 66, 70, 74, 77, 81>>
>>

FormatLevel == <<1, 0, 3, 2>>

(* Modules left for codewords: all of them without the function patterns. *)
RawModules(v) ==
  LET align == v \div 7 + 2 IN
  (16 * v + 128) * v + 64
    - (IF v >= 2 THEN (25 * align - 10) * align - 55 ELSE 0)
    - (IF v >= 7 THEN 36 ELSE 0)

RawCodewords(v) == RawModules(v) \div 8
DataCodewords(v, l) == RawCodewords(v) - EccPerBlock[l][v] * NumBlocks[l][v]

-----------------------------------------------------------------------------
(* A text as one segment: digits in threes, the alphanumeric set in pairs,
   anything else as bytes. *)

Alphabet == [i \in 1..10 |-> 47 + i] \o [i \in 1..26 |-> 64 + i] \o <<32, 36, 37, 42, 43, 45, 46, 47, 58>>
Rank(c) == SelectInSeq(Alphabet, LAMBDA a : a = c) - 1

Numeric == [bits |-> 1, count |-> <<10, 12, 14>>, group |-> 3, base |-> 10, width |-> <<4, 7, 10>>]
Alphanumeric == [bits |-> 2, count |-> <<9, 11, 13>>, group |-> 2, base |-> 45, width |-> <<6, 11>>]
Bytes == [bits |-> 4, count |-> <<8, 16, 16>>, group |-> 1, base |-> 256, width |-> <<8>>]

ModeOf(text) ==
  IF ToSet(text) \subseteq 48..57 THEN Numeric
  ELSE IF ToSet(text) \subseteq ToSet(Alphabet) THEN Alphanumeric ELSE Bytes

Groups(text, n) ==
  [g \in 1..((Len(text) + n - 1) \div n) |-> SubSeq(text, (g - 1) * n + 1, Min({g * n, Len(text)}))]

GroupBits(mode, group) ==
  LET value(c) == IF mode = Bytes THEN c ELSE Rank(c)
  IN Bits(Fold(LAMBDA sum, c : sum * mode.base + value(c), 0, group), mode.width[Len(group)])

CountBits(mode, v) == mode.count[(v + 7) \div 17 + 1]

(* The bits of the text in a symbol of version v; no segment for no text. *)
SegmentBits(text, v) ==
  LET mode == ModeOf(text) IN
  IF text = <<>> THEN <<>>
  ELSE Bits(mode.bits, 4) \o Bits(Len(text), CountBits(mode, v))
         \o Join([g \in DOMAIN Groups(text, mode.group) |-> GroupBits(mode, Groups(text, mode.group)[g])])

Fits(text, v, l) ==
  /\ text # <<>> => Len(text) < 2^CountBits(ModeOf(text), v)
  /\ Len(SegmentBits(text, v)) <= 8 * DataCodewords(v, l)

(* Terminator, zeros up to a byte, then two bytes in turn. *)
Padded(bits, capacity) ==
  LET ended == bits \o Bits(0, Min({4, capacity - Len(bits)}))
      whole == ended \o Bits(0, (-Len(ended)) % 8)
  IN whole \o Join([k \in 1..((capacity - Len(whole)) \div 8) |-> Bits(IF k % 2 = 1 THEN 236 ELSE 17, 8)])

Codewords(bits) == [k \in 1..(Len(bits) \div 8) |-> {i \in 0..7 : bits[8 * k - i] = 1}]

-----------------------------------------------------------------------------
(* Error correction. *)

(* p times x, modulo the polynomial g of degree n. *)
TimesX(p, g, n) ==
  LET shifted == {i + 1 : i \in p} IN IF n \in shifted THEN SymDiff(shifted, g) ELSE shifted

(* The product in the field of 256 elements. *)
FieldTimes(x, y) ==
  Fold(LAMBDA z, i : SymDiff(TimesX(z, {8, 4, 3, 2, 0}, 8), IF i \in y THEN x ELSE {}),
           {}, <<7, 6, 5, 4, 3, 2, 1, 0>>)

Plus(p, q) == Tuple([j \in DOMAIN p |-> SymDiff(p[j], q[j])])
Scaled(p, c) == Tuple([j \in DOMAIN p |-> FieldTimes(p[j], c)])

(* The coefficients after the first of (x - 2^0)(x - 2^1)...: *)
Divisor(degree) ==
  Fold(LAMBDA acc, i : [poly |-> Plus(Scaled(acc.poly, acc.root), Append(Tail(acc.poly), {})),
                            root |-> FieldTimes(acc.root, {1})],
           [poly |-> Tuple([j \in 1..degree |-> IF j = degree THEN {0} ELSE {}]), root |-> {0}],
           Upto(degree)).poly

Remainder(data, divisor) ==
  Fold(LAMBDA rem, b : Plus(Append(Tail(rem), {}), Scaled(divisor, SymDiff(b, rem[1]))),
           Tuple([j \in DOMAIN divisor |-> {}]), data)

(* As a faulty variant: the longer blocks come first. *)
_BlockData(data, v, l, i) ==
  LET n == NumBlocks[l][v]
      short == n - (RawCodewords(v) % n)
      len == RawCodewords(v) \div n - EccPerBlock[l][v]
  IN SubSeq(data, (i - 1) * len + Min({n - short, i - 1}) + 1, i * len + Min({n - short, i}))

(* The data of the i-th block; the last ones have a codeword more. *)
BlockData(data, v, l, i) ==
  LET n == NumBlocks[l][v]
      short == n - (RawCodewords(v) % n)
      len == RawCodewords(v) \div n - EccPerBlock[l][v]
  IN SubSeq(data, (i - 1) * len + Max({0, i - 1 - short}) + 1, i * len + Max({0, i - short}))

(* The blocks with their remainders, column by column; a short block has a
   gap where the others have one more codeword. *)
AddEccAndInterleave(data, v, l) ==
  LET n == NumBlocks[l][v]
      length == RawCodewords(v) \div n
      gap == {8}
      divisor == Tuple(Divisor(EccPerBlock[l][v]))
      block(i) == LET d == BlockData(data, v, l, i)
                  IN d \o (IF Len(d) = length - EccPerBlock[l][v] THEN <<gap>> ELSE <<>>) \o Remainder(d, divisor)
      blocks == Tuple([i \in 1..n |-> block(i)])
  IN SelectSeq(Join([k \in 1..(length + 1) |-> [i \in 1..n |-> blocks[i][k]]]), LAMBDA b : b # gap)

-----------------------------------------------------------------------------
(* The function patterns: an area and the modules of it that are dark. *)

Size(v) == 4 * v + 17
Abs(n) == IF n < 0 THEN -n ELSE n
Ring(c, m) == Max({Abs(m[1] - c[1]), Abs(m[2] - c[2])})
Square(c, r, light, size) ==
  LET area == {m \in ((c[1] - r)..(c[1] + r)) \X ((c[2] - r)..(c[2] + r)) : \A i \in 1..2 : m[i] \in 0..(size - 1)}
  IN [area |-> area, dark |-> {m \in area : Ring(c, m) \notin light}]

Timing(size) ==
  [area |-> {<<6, i>> : i \in 0..(size - 1)} \cup {<<i, 6>> : i \in 0..(size - 1)},
   dark |-> {<<6, i>> : i \in {i \in 0..(size - 1) : i % 2 = 0}} \cup {<<i, 6>> : i \in {i \in 0..(size - 1) : i % 2 = 0}}]

(* Patterns that do not touch, as one. *)
Together(patterns) ==
  [area |-> UNION {p.area : p \in patterns}, dark |-> UNION {p.dark : p \in patterns}]

Finders(size) ==
  Together({Square(c, 4, {2, 4}, size) : c \in {<<3, 3>>, <<size - 4, 3>>, <<3, size - 4>>}})

AlignmentPositions(v) ==
  LET align == v \div 7 + 2
      step == ((v * 8 + align * 3 + 5) \div (align * 4 - 4)) * 2
  IN IF v = 1 THEN {} ELSE {6} \cup {Size(v) - 7 - i * step : i \in 0..(align - 2)}

Alignments(v) ==
  LET at == AlignmentPositions(v)
      far == Size(v) - 7
  IN Together({Square(c, 2, {1}, Size(v)) : c \in (at \X at) \ {<<6, 6>>, <<6, far>>, <<far, 6>>}})

(* Five bits and ten, or six and twelve, that check them. *)
Checked(data, g, n) ==
  {i + n : i \in data} \cup Fold(LAMBDA p, i : TimesX(p, g, n), data, Upto(n))

FormatBits(l, m) ==
  SymDiff(Checked(Terms(8 * FormatLevel[l] + m), {10, 8, 5, 4, 2, 1, 0}, 10), {14, 12, 10, 4, 1})
VersionBits(v) == Checked(Terms(v), {12, 11, 10, 9, 8, 5, 2, 0}, 12)

FormatPlaces(size) ==
  << [i \in 0..14 |-> IF i <= 5 THEN <<8, i>> ELSE IF i <= 7 THEN <<8, i + 1>>
                      ELSE IF i = 8 THEN <<7, 8>> ELSE <<14 - i, 8>>],
     [i \in 0..14 |-> IF i <= 7 THEN <<size - 1 - i, 8>> ELSE <<8, size - 15 + i>>] >>
VersionPlaces(size) ==
  << [i \in 0..17 |-> <<size - 11 + (i % 3), i \div 3>>], [i \in 0..17 |-> <<i \div 3, size - 11 + (i % 3)>>] >>

Written(places, bits) ==
  [area |-> UNION {{p[i] : i \in DOMAIN p} : p \in ToSet(places)},
   dark |-> UNION {{p[i] : i \in bits} : p \in ToSet(places)}]

DrawFormat(l, m, size) ==
  LET bits == Written(FormatPlaces(size), FormatBits(l, m))
  IN [area |-> bits.area \cup {<<8, size - 8>>}, dark |-> bits.dark \cup {<<8, size - 8>>}]
DrawVersion(v) ==
  IF v < 7 THEN [area |-> {}, dark |-> {}] ELSE Written(VersionPlaces(Size(v)), VersionBits(v))

(* What is drawn later covers what was there. *)
Over(below, above) ==
  [area |-> below.area \cup above.area, dark |-> (below.dark \ above.area) \cup above.dark]

FunctionPatterns(v, l) ==
  Fold(Over, Timing(Size(v)),
       <<Finders(Size(v)), Alignments(v), DrawFormat(l, 0, Size(v)), DrawVersion(v)>>)

-----------------------------------------------------------------------------
(* The codewords and the mask. *)

(* Pairs of columns from the right, without the timing column, up and down. *)
ZigZag(size) ==
  [k \in 1..(size * (size - 1)) |->
     LET pair == size - 1 - 2 * ((k - 1) \div (2 * size))
         right == IF pair <= 6 THEN pair - 1 ELSE pair
         vert == ((k - 1) % (2 * size)) \div 2
     IN <<right - ((k - 1) % 2), IF (right + 1) % 4 < 2 THEN size - 1 - vert ELSE vert>>]

FreeModules(size, area) == SelectSeq(ZigZag(size), LAMBDA m : m \notin area)

Masks(m, x, y) ==
  0 = CASE m = 0 -> (x + y) % 2
        [] m = 1 -> y % 2
        [] m = 2 -> x % 3
        [] m = 3 -> (x + y) % 3
        [] m = 4 -> (x \div 3 + y \div 2) % 2
        [] m = 5 -> ((x * y) % 2) + ((x * y) % 3)
        [] m = 6 -> (((x * y) % 2) + ((x * y) % 3)) % 2
        [] m = 7 -> (((x + y) % 2) + ((x * y) % 3)) % 2

Masked(size, area, m) ==
  {p \in (0..(size - 1)) \X (0..(size - 1)) : p \notin area /\ Masks(m, p[1], p[2])}

NoSymbol == [version |-> 0, level |-> 0, data |-> <<>>, area |-> {}, dark |-> {}]
QrInit == qrAt = "text" /\ qrText \in QrText /\ symbol = NoSymbol

(* encode_segments: the smallest version at the lowest level, then the
   highest level that still fits. *)
EncodeText ==
  /\ qrAt = "text" /\ qrAt' = "encoded"
  /\ \E v \in {Min({v \in 1..40 : Fits(qrText, v, 1)})} :
     \E l \in {Max({l \in 1..4 : l = 1 \/ Fits(qrText, v, l)})} :
     \E bits \in {Tuple(Padded(SegmentBits(qrText, v), 8 * DataCodewords(v, l)))} :
       symbol' = [symbol EXCEPT !.version = v, !.level = l, !.data = Codewords(bits)]
  /\ UNCHANGED qrText

DrawFunctionPatterns ==
  /\ qrAt = "encoded" /\ qrAt' = "drawn"
  /\ LET drawn == FunctionPatterns(symbol.version, symbol.level)
     IN symbol' = [symbol EXCEPT !.area = drawn.area, !.dark = drawn.dark]
  /\ UNCHANGED qrText

DrawCodewords ==
  /\ qrAt = "drawn" /\ qrAt' = "filled"
  /\ \E code \in {AddEccAndInterleave(symbol.data, symbol.version, symbol.level)},
        free \in {FreeModules(Size(symbol.version), symbol.area)} :
       symbol' = [symbol EXCEPT !.dark = @ \cup
                    {free[i] : i \in {i \in 1..(8 * Len(code)) : 7 - ((i - 1) % 8) \in code[(i - 1) \div 8 + 1]}}]
  /\ UNCHANGED qrText

(* The mask changes all modules but the function patterns, and the format
   bits come to name it. *)
ApplyMask(m) ==
  LET size == Size(symbol.version)
      masked == SymDiff(symbol.dark, Masked(size, symbol.area, m))
  IN
  /\ qrAt = "filled" /\ qrAt' = "finished"
  /\ symbol' = [symbol EXCEPT !.dark = Over([area |-> symbol.area, dark |-> masked],
                                            DrawFormat(symbol.level, m, size)).dark]
  /\ UNCHANGED qrText

QrNext == EncodeText \/ DrawFunctionPatterns \/ DrawCodewords \/ \E m \in 0..7 : ApplyMask(m)
QrSpec == QrInit /\ [][QrNext]_qrVars

QrTypeOK ==
  /\ qrAt \in {"text", "encoded", "drawn", "filled", "finished"} /\ qrText \in QrText
  /\ symbol.version \in 0..40 /\ symbol.level \in 0..4
  /\ \A k \in DOMAIN symbol.data : symbol.data[k] \subseteq 0..7
  /\ symbol.dark \cup symbol.area \subseteq (0..Size(symbol.version)) \X (0..Size(symbol.version))

-----------------------------------------------------------------------------
(* A reader, after ISO/IEC 18004: it sees the dark modules only, divides
   where the encoder multiplies, and deals codewords out by counting. *)

Modulo(p, g, n) ==
  Fold(LAMBDA rem, i : SymDiff(TimesX(rem, g, n), IF i \in p THEN {0} ELSE {}), {}, [k \in 1..18 |-> 18 - k])
Integer(bits) == Fold(LAMBDA n, b : 2 * n + b, 0, bits)
ReadAt(places) == {i \in DOMAIN places : places[i] \in symbol.dark}

(* Both copies of the format are the same code word of the format's code. *)
ReadFormat ==
  LET copies == {SymDiff(ReadAt(p), {14, 12, 10, 4, 1}) : p \in ToSet(FormatPlaces(Size(symbol.version)))}
      word == CHOOSE c \in copies : TRUE
      number == Integer([k \in 1..5 |-> IF 15 - k \in word THEN 1 ELSE 0])
  IN IF copies # {word} \/ Modulo(word, {10, 8, 5, 4, 2, 1, 0}, 10) # {} THEN [level |-> 0, mask |-> 0]
     ELSE [level |-> SelectInSeq(FormatLevel, LAMBDA f : f = number \div 8), mask |-> number % 8]

ReadVersion(size) ==
  LET copies == {ReadAt(p) : p \in ToSet(VersionPlaces(size))}
      word == CHOOSE c \in copies : TRUE
  IN IF size < 45 THEN (size - 17) \div 4
     ELSE IF copies # {word} \/ Modulo(word, {12, 11, 10, 9, 8, 5, 2, 0}, 12) # {} THEN 0
     ELSE Integer([k \in 1..6 |-> IF 18 - k \in word THEN 1 ELSE 0])

ReadCodewords(v, mask) ==
  LET free == FreeModules(Size(v), symbol.area)
      bit(i) == (free[i] \in symbol.dark) # Masks(mask, free[i][1], free[i][2])
  IN Tuple([k \in 1..(Len(free) \div 8) |-> {i \in 0..7 : bit(8 * k - i)}])

(* The number of the k-th codeword of block j, among those dealt out in turn
   to blocks of these lengths. *)
Dealt(lengths, k, j) ==
  Fold(LAMBDA sum, i : sum + Min({lengths[i], k - 1}), 0, [i \in DOMAIN lengths |-> i])
    + Cardinality({i \in 1..j : lengths[i] >= k})

(* The data of every block; <<>> for a block that is not a code word, whose
   value at a root 2^i of the divisor is not 0. *)
ReadBlocks(code, v, l) ==
  LET n == NumBlocks[l][v]
      total == DataCodewords(v, l)
      lengths == [j \in 1..n |-> total \div n + (IF j > n - (total % n) THEN 1 ELSE 0)]
      ecc == EccPerBlock[l][v]
      data(j) == Tuple([k \in 1..lengths[j] |-> code[Dealt(lengths, k, j)]])
      rest(j) == [k \in 1..ecc |-> code[total + (k - 1) * n + j]]
      value(word, root) == Fold(LAMBDA sum, b : SymDiff(FieldTimes(sum, root), b), {}, word)
      roots == Fold(LAMBDA s, i : Append(s, FieldTimes(Last(s), {1})), <<{0}>>, Upto(ecc - 1))
      sound(j) == LET word == data(j) \o rest(j) IN \A r \in ToSet(roots) : value(word, r) = {}
  IN [j \in 1..n |-> IF sound(j) THEN data(j) ELSE <<>>]

(* The text that the bits of the data codewords stand for. *)
ReadText(data, v) ==
  LET bit == [i \in 1..(8 * Len(data)) |-> IF 7 - ((i - 1) % 8) \in data[(i - 1) \div 8 + 1] THEN 1 ELSE 0]
      number(from, width) == Integer([k \in 1..width |-> bit[from + k - 1]])
      mode == number(1, 4)
      field == CASE mode = 1 -> IF v < 10 THEN 10 ELSE IF v < 27 THEN 12 ELSE 14
                 [] mode = 2 -> IF v < 10 THEN 9 ELSE IF v < 27 THEN 11 ELSE 13
                 [] OTHER -> IF v < 10 THEN 8 ELSE 16
      count == number(5, field)
      digit(i) == LET g == (i - 1) \div 3
                      n == Min({3, count - 3 * g})
                  IN 48 + ((number(5 + field + 10 * g, 3 * n + 1) \div 10^(n - 1 - ((i - 1) % 3))) % 10)
      letter(i) == LET g == (i - 1) \div 2
                       n == Min({2, count - 2 * g})
                   IN Alphabet[((number(5 + field + 11 * g, 5 * n + 1) \div 45^(n - 1 - ((i - 1) % 2))) % 45) + 1]
  IN CASE mode = 0 -> <<>>
       [] mode = 1 -> [i \in 1..count |-> digit(i)]
       [] mode = 2 -> [i \in 1..count |-> letter(i)]
       [] mode = 4 -> [i \in 1..count |-> number(5 + field + 8 * (i - 1), 8)]

(* A finished symbol can be read: the function patterns leave exactly the
   modules that the codewords need (and at most seven more), version and format
   say what was used, every block is a code word, so that the promised number
   of errors can be corrected, and the data give the text back. *)
QrReadable ==
  qrAt = "finished" =>
    LET v == ReadVersion(Size(symbol.version))
        format == ReadFormat
        code == ReadCodewords(v, format.mask)
        blocks == Tuple(ReadBlocks(code, v, format.level))
    IN
    /\ v = symbol.version /\ format.level = symbol.level
    /\ Len(FreeModules(Size(v), symbol.area)) - 8 * Len(code) \in 0..7
    /\ Len(code) = RawCodewords(v)
    /\ <<>> \notin ToSet(blocks)
    /\ ReadText(Tuple(Join(blocks)), v) = qrText
=============================================================================
