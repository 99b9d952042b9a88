------------------------------- MODULE Gorilla -------------------------------
(***************************************************************************)
(* gorilla_writer and gorilla_reader on bit_writer and bit_reader: samples *)
(* of a timestamp and a value as a stream of bits, timestamps as the       *)
(* change of the step between two of them, in one of several widths, and   *)
(* values as the nibbles in which they differ from the one before.         *)
(*                                                                         *)
(* Bits are sequences of 0 and 1, the highest first.  Widths are constants *)
(* so that small words show what the words of 64 bits do.                  *)
(***************************************************************************)
EXTENDS Integers, Sequences, SequencesExt, FiniteSetsExt, Bitwise

CONSTANTS
    Word,           \* bits in a word: 64
    Nibble,         \* bits in a nibble: 4
    ClzBits,        \* bits for a number of leading nibbles: 4
    SizeBits,       \* bits for a number of nibbles: 5
    Codes,          \* widths of the codes for steps: <<7, 9, 12, 32>>
    Timestamps,     \* inputs
    Values,
    WideSteps,      \* whether a step may change by more than the last code holds
    MaxSamples      \* bound: number of samples

Nibbles == Word \div Nibble

ASSUME WidthAssumption ==
    /\ Word % Nibble = 0
    /\ Nibbles <= 2^ClzBits /\ Nibbles < 2^SizeBits
    /\ Timestamps \cup Values \subseteq 0..2^Word - 1

VARIABLES
    writer,         \* the state of gorilla_writer with its bit_writer
    reader,         \* the state of gorilla_reader with its bit_reader
    reading,        \* whether the writer is flushed and the reader at work
    samples,        \* ghost: the samples written
    aborted         \* an assertion of the reader failed

gorillaVars == <<writer, reader, reading, samples, aborted>>

Unset == Nibbles + 1        \* static_cast<uint32_t>(-1), more than any count

BitsOf(value, n) == [i \in 1..n |-> (value \div 2^(n - i)) % 2]
ValueOf(bits) == FoldLeft(LAMBDA a, b : 2 * a + b, 0, bits)
Signed(value) == ((value + 2^(Word - 1)) % 2^Word) - 2^(Word - 1)

-----------------------------------------------------------------------------
(* bit_writer and bit_reader *)

flush(w) ==
    IF w.bits = <<>> THEN w
    ELSE [w EXCEPT !.words = Append(@, w.bits \o BitsOf(0, Word - Len(w.bits))), !.bits = <<>>]

RECURSIVE write(_, _)
write(w, bits) ==
    IF bits = <<>> THEN w
    ELSE LET f == IF Len(w.bits) = Word THEN flush(w) ELSE w
             part == Min({Word - Len(f.bits), Len(bits)})
         IN write([f EXCEPT !.bits = @ \o SubSeq(bits, 1, part)],
                  SubSeq(bits, part + 1, Len(bits)))

\* The next n bits; a word is loaded when the last one is used up.
RECURSIVE read(_, _)
read(r, n) ==
    IF n = 0 THEN [r |-> r, bits |-> <<>>]
    ELSE LET l == IF r.bits # <<>> THEN r ELSE [r EXCEPT !.bits = Head(r.words), !.words = Tail(@)]
             part == Min({Len(l.bits), n})
             rest == read([l EXCEPT !.bits = SubSeq(@, part + 1, Len(@))], n - part)
         IN [r |-> rest.r, bits |-> SubSeq(l.bits, 1, part) \o rest.bits]

-----------------------------------------------------------------------------
(* gorilla_writer *)

Prefix(i) == [j \in 1..i |-> 1] \o IF i = Len(Codes) THEN <<>> ELSE <<0>>

\* What is added to a step so that the code of a width has no sign.
Bias(width) == 2^(width - 1) - 1

Holds(width, value) == value >= -Bias(width) /\ value <= 2^(width - 1)

\* Whatever no code holds goes into the last one.  Its assertion tests the bits
\* of ~(0xffffffffU), which has none, and always holds.
write_encoded(value) ==
    IF value = 0 THEN <<0>>
    ELSE LET i == Min({j \in 1..Len(Codes) : Holds(Codes[j], value) \/ j = Len(Codes)})
         IN Prefix(i) \o BitsOf(value + Bias(Codes[i]), Codes[i])

write_timestamp(w, timestamp) ==
    LET delta == Signed(timestamp - w.timestamp)
    IN IF w.samples = 0
       THEN [write(w, BitsOf(timestamp, Word)) EXCEPT !.timestamp = timestamp]
       ELSE [write(w, write_encoded(IF w.samples = 1 THEN delta ELSE Signed(delta - w.delta)))
                EXCEPT !.timestamp = timestamp, !.delta = delta]

\* Zero nibbles at the two ends of a word that is not 0.
clz(x) == Min({n \in 0..Nibbles - 1 : x \div 2^(Word - Nibble * (n + 1)) # 0})
ctz(x) == Max({n \in 0..Nibbles - 1 : x % 2^(Nibble * n) = 0})

\* Mutant: the window of the value before is used if only its left end fits.
SameWindow_Left(w, x) == w.clz <= clz(x) /\ w.ctz # Unset

SameWindow(w, x) == w.clz <= clz(x) /\ w.ctz <= ctz(x)

Field(x, left, right) == BitsOf(x \div 2^(Nibble * right), Nibble * (Nibbles - (left + right)))

Repeated(w) == [write(w, <<0>>) EXCEPT !.clz = Unset, !.ctz = Unset]

write_value(w, value) ==
    LET x == value ^^ w.value
        size == Nibbles - (clz(x) + ctz(x))
        new == IF w.samples = 0 THEN write(w, BitsOf(value, Word))
               ELSE IF x = 0 THEN Repeated(w)
               ELSE IF SameWindow(w, x) THEN write(w, <<1, 0>> \o Field(x, w.clz, w.ctz))
               ELSE [write(w, <<1, 1>> \o BitsOf(clz(x), ClzBits) \o BitsOf(size, SizeBits)
                                \o Field(x, clz(x), ctz(x)))
                        EXCEPT !.clz = clz(x), !.ctz = ctz(x)]
    IN [new EXCEPT !.value = value]

GorillaInit ==
    /\ writer = [words |-> <<>>, bits |-> <<>>, samples |-> 0, timestamp |-> 0, delta |-> 0,
                 value |-> 0, clz |-> Unset, ctz |-> Unset]
    /\ reader = [words |-> <<>>, bits |-> <<>>, ndx |-> 0, timestamp |-> 0, delta |-> 0,
                 value |-> 0, size |-> Unset, ctz |-> Unset]
    /\ reading = FALSE
    /\ samples = <<>>
    /\ aborted = FALSE

StepFits(timestamp) ==
    LET delta == timestamp - writer.timestamp
    IN writer.samples = 0 \/ Holds(Codes[Len(Codes)], delta - writer.delta)

Write(timestamp, value) ==
    /\ ~reading /\ writer.samples < MaxSamples
    /\ timestamp >= writer.timestamp
    /\ WideSteps \/ StepFits(timestamp)
    /\ writer' = [write_value(write_timestamp(writer, timestamp), value) EXCEPT !.samples = @ + 1]
    /\ samples' = Append(samples, <<timestamp, value>>)
    /\ UNCHANGED <<reader, reading, aborted>>

Flush ==
    /\ ~reading
    /\ reading' = TRUE
    /\ writer' = flush(writer)
    /\ reader' = [reader EXCEPT !.words = writer'.words]
    /\ UNCHANGED <<samples, aborted>>

-----------------------------------------------------------------------------
(* gorilla_reader *)

\* The code after i ones of its prefix, and the step that it holds.
RECURSIVE read_code(_, _)
read_code(r, i) ==
    LET bit == read(r, 1)
        number == read(IF i = Len(Codes) THEN r ELSE bit.r, Codes[i])
    IN IF i < Len(Codes) /\ bit.bits = <<1>> THEN read_code(bit.r, i + 1)
       ELSE [r |-> number.r, step |-> ValueOf(number.bits) - Bias(Codes[i])]

load_next_timestamp(r) ==
    LET first == read(r, Word)
        bit == read(r, 1)
        code == IF bit.bits = <<0>> THEN [r |-> bit.r, step |-> 0] ELSE read_code(bit.r, 1)
        delta == (r.delta + code.step) % 2^Word
    IN IF r.ndx = 0 THEN [first.r EXCEPT !.timestamp = ValueOf(first.bits)]
       ELSE [code.r EXCEPT !.delta = delta, !.timestamp = (r.timestamp + delta) % 2^Word]

\* The window of the next value, after a bit that says that it has changed.
Window(r) ==
    LET same == read(r, 1)
        left == read(same.r, ClzBits)
        size == read(left.r, SizeBits)
    IN IF same.bits = <<0>> THEN same.r
       ELSE [size.r EXCEPT !.size = ValueOf(size.bits),
                           !.ctz = Nibbles - (ValueOf(left.bits) + ValueOf(size.bits))]

load_next_value(r) ==
    LET first == read(r, Word)
        bit == read(r, 1)
        window == Window(bit.r)
        field == read(window, Nibble * window.size)
    IN IF r.ndx = 0 THEN [first.r EXCEPT !.value = ValueOf(first.bits)]
       ELSE IF bit.bits = <<0>> THEN [bit.r EXCEPT !.size = Unset, !.ctz = Unset]
       ELSE IF window.size = Unset THEN window
       ELSE [field.r EXCEPT !.value = @ ^^ (ValueOf(field.bits) * 2^(Nibble * window.ctz))]

ReadNext ==
    /\ reading /\ reader.ndx < writer.samples /\ ~aborted
    /\ LET timed == load_next_timestamp(reader)
           new == load_next_value(timed)
           bit == read(timed, 1)
       IN /\ aborted' = (/\ timed.ndx # 0 /\ bit.bits = <<1>>
                         /\ Window(bit.r).size = Unset)
          /\ reader' = [new EXCEPT !.ndx = @ + 1]
    /\ UNCHANGED <<writer, reading, samples>>

GorillaNext ==
    \/ \E t \in Timestamps, v \in Values : Write(t, v)
    \/ Flush
    \/ ReadNext

GorillaSpec == GorillaInit /\ [][GorillaNext]_gorillaVars

-----------------------------------------------------------------------------
(* Properties *)

\* gorilla_reader gives back every sample as it was written, whatever words the
\* codes are spread over, whichever code a step takes and whichever window a
\* value shares with those before it; its assertions on the window hold.
SamplesReadBack ==
    /\ ~aborted
    /\ reading /\ reader.ndx > 0 => samples[reader.ndx] = <<reader.timestamp, reader.value>>

=============================================================================
