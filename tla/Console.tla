--------------------------------- MODULE Console ---------------------------------
(***************************************************************************)
(* dbg_printf (dbg_printf.c) over the conversions of my_utils.c and the    *)
(* transmitter that my_uart.c polls.  A format is the sequence of its      *)
(* literals and directives, a character its code.  The device is a process *)
(* of its own: it takes one byte at a time and is busy until it is sent.   *)
(***************************************************************************)
EXTENDS Integers, Sequences, SequencesExt

CONSTANTS
    WordBits,     \* 32
    FloatUnits,   \* a float is a multiple of 1 / FloatUnits
    Messages(_),  \* what the n-th call may print
    Levels,       \* arguments of setDebugLevel
    MaxPrints     \* bound on the number of calls

VARIABLES
    S_uiDebugLevel,
    print_pc,
    format, args,  \* what dbg_printf has still to read of its arguments
    item,          \* the directive that it has read, with its argument
    out, cp,       \* its characters, and the next to be sent
    uart, data,    \* the device: its status and the byte that it is sending
    line,          \* what has come out of it
    asked,         \* what has been asked for
    prints         \* calls so far

print_vars == <<S_uiDebugLevel, print_pc, format, args, item, out, cp, uart, data,
                line, asked, prints>>

DEBUG_LEVEL_2 == 2
DEBUG_LEVEL_6 == 6

-------------------------------------------------------------------------------
(* my_utils.c, on the numbers that Fits allows below. *)

Zero == 48
Minus == 45
Space == 32
Dot == 46
LetterA == 65

Abs(n) == IF n < 0 THEN -n ELSE n
Repeat(c, n) == [k \in 1..n |-> c]

(* The powers of a base, by which a number is divided digit by digit. *)
Power(base) ==
    LET to[n \in Nat] == IF n = 0 THEN 1 ELSE base * to[n - 1]
    IN  to

(* The last len digits of a number. *)
Numeral(digit) == IF digit < 10 THEN Zero + digit ELSE LetterA + digit - 10
Numerals(value, base, len) ==
    [c \in 1..len |-> Numeral((value \div Power(base)[len - c]) % base)]

(* The number of times that temp can be divided by ten. *)
Length10(temp) ==
    LET len[t \in Nat] == IF t = 0 THEN 0 ELSE 1 + len[t \div 10]
    IN  len[Abs(temp)]

(* The characters that the sign takes, before the first digit. *)
FirstDigit_NoSign(iNumber) == 0
FirstDigit(iNumber) == IF iNumber < 0 THEN 1 ELSE 0

IntToString(iNumber) ==
    IF iNumber = 0 THEN <<Zero>>
    ELSE Repeat(Minus, FirstDigit(iNumber))
         \o Numerals(Abs(iNumber), 10, Length10(iNumber))

IntToHexString(value, bits) == Numerals(value, 16, bits \div 4)

(* floatToString on a value that is not negative. *)
FloatToString(value, width, precision) ==
    LET digits == IntToString(value \div FloatUnits)
        fracPart == ((value % FloatUnits) * Power(10)[precision] + FloatUnits \div 2)
                        \div FloatUnits
    IN  Repeat(Space, width - Len(digits) - precision - 1)
        \o digits \o <<Dot>> \o Numerals(fracPart, 10, precision)

-------------------------------------------------------------------------------
(* The directives: arguments that each takes, and characters that it sends. *)

Width == 8
Precision == 4

ArgsTaken(d) ==
    CASE d.conv = "llx" -> 2
      [] d.conv \in {"d", "0x", "s", "float"} -> 1
      [] OTHER -> 0

Text(d, as) ==
    CASE d.conv = "d" ->
           LET buf == IntToString(as[1])
           IN  buf \o Repeat(Space, d.width - Len(buf))
      [] d.conv = "0x" ->
           LET buf == IntToHexString(as[1], WordBits)
           IN  Repeat(Zero, d.width - Len(buf)) \o buf
      [] d.conv = "llx" ->
           IntToHexString(as[1] * Power(2)[WordBits] + as[2], 2 * WordBits)
      [] d.conv = "s" -> as[1] \o Repeat(Space, d.width - Len(as[1]))
      [] d.conv = "float" -> FloatToString(as[1], Width, Precision)
      [] d.conv \in {"0", "l"} -> <<>>  \* "%0" without its x, "%l" without "lx"
      [] OTHER -> <<d.char>>  \* a literal, or "%" before any other character

(* A message is a level and a sequence of directives with their arguments.  *)
Directives(items) == [n \in DOMAIN items |-> items[n].directive]
Arguments(items) == FlattenSeq([n \in DOMAIN items |-> items[n].args])
Texts(items) == FlattenSeq([n \in DOMAIN items |-> Text(items[n].directive, items[n].args)])

NoItem == [directive |-> [conv |-> "none"], args |-> <<>>]

(* What may be printed: every directive has an argument of its kind, and the *)
(* format does not end within one, where dbg_printf would read on.  The ints *)
(* are those that have a negative: "iNumber = -iNumber" overflows for the    *)
(* most negative one, of which dbg_printf sends no digits.                   *)
Words == 0..(Power(2)[WordBits] - 1)
Ints == (1 - Power(2)[WordBits - 1])..(Power(2)[WordBits - 1] - 1)

Fits(d, as) ==
    /\ as = [n \in 1..ArgsTaken(d) |-> as[n]]
    /\ d.conv = "d" => as[1] \in Ints
    /\ d.conv \in {"d", "0x", "s"} => d.width \in Nat
    /\ d.conv \in {"0x", "llx"} => as[1] \in Words
    /\ d.conv = "llx" => as[2] \in Words
    /\ d.conv = "s" => as[1] \in Seq(1..255)
    /\ d.conv = "float" => as[1] \in Nat
    /\ d.conv \notin {"d", "0x", "llx", "s", "float", "0", "l"} => d.char \in 1..255

AreItems(items) ==
    /\ Len(items) \in Nat
    /\ items = [n \in 1..Len(items) |-> items[n]]
    /\ \A n \in 1..Len(items) : Fits(items[n].directive, items[n].args)

ASSUME MessagesAssumption ==
    \A n \in 1..MaxPrints : \A m \in Messages(n) : AreItems(m.items)

ASSUME WordAssumption ==
    /\ WordBits \in Nat \ {0} /\ WordBits % 4 = 0
    /\ FloatUnits \in Nat \ {0}
    /\ MaxPrints \in Nat

-------------------------------------------------------------------------------
PrintInit ==
    /\ S_uiDebugLevel = DEBUG_LEVEL_2
    /\ print_pc = "idle"
    /\ format = <<>> /\ args = <<>>
    /\ item = NoItem
    /\ out = <<>> /\ cp = 1
    /\ uart = "done"
    /\ data = 0
    /\ line = <<>> /\ asked = <<>>
    /\ prints = 0

SetDebugLevel(n) ==
    /\ print_pc = "idle"
    /\ prints = 0
    /\ S_uiDebugLevel' = IF n > DEBUG_LEVEL_6 THEN DEBUG_LEVEL_6 ELSE n
    /\ UNCHANGED <<print_pc, format, args, item, out, cp, uart, data, line, asked, prints>>

(* dbg_printf, or printFloat if the message is a float. *)
Dbg_printf(m) ==
    /\ print_pc = "idle"
    /\ prints < MaxPrints
    /\ prints' = prints + 1
    /\ IF m.level <= S_uiDebugLevel
       THEN /\ format' = Directives(m.items)
            /\ args' = Arguments(m.items)
            /\ asked' = asked \o Texts(m.items)
            /\ print_pc' = "format"
       ELSE UNCHANGED <<format, args, asked, print_pc>>
    /\ UNCHANGED <<S_uiDebugLevel, item, out, cp, uart, data, line>>

ReadFormat ==
    /\ print_pc = "format"
    /\ format # <<>>
    /\ LET d == Head(format)
           n == ArgsTaken(d)
       IN  /\ item' = [directive |-> d, args |-> SubSeq(args, 1, n)]
           /\ args' = SubSeq(args, n + 1, Len(args))
           /\ out' = Text(d, item'.args)
    /\ format' = Tail(format)
    /\ cp' = 1
    /\ print_pc' = IF out' = <<>> THEN "format" ELSE "poll"
    /\ UNCHANGED <<S_uiDebugLevel, uart, data, line, asked, prints>>

Return ==
    /\ print_pc = "format"
    /\ format = <<>>
    /\ print_pc' = "idle"
    /\ item' = NoItem /\ out' = <<>> /\ cp' = 1
    /\ UNCHANGED <<S_uiDebugLevel, format, args, uart, data, line, asked, prints>>

(* "wait until transmitter ready": the loop is left once the status is not busy. *)
Waits_Never(status) == FALSE
Waits_Inverted(status) == status # "busy"
Waits(status) == status = "busy"

Poll ==
    /\ print_pc = "poll"
    /\ ~Waits(uart)
    /\ print_pc' = "write"
    /\ UNCHANGED <<S_uiDebugLevel, format, args, item, out, cp, uart, data, line,
                   asked, prints>>

(* A byte that is written while another is being sent takes its place. *)
WriteByte ==
    /\ print_pc = "write"
    /\ data' = out[cp]
    /\ uart' = "busy"
    /\ cp' = cp + 1
    /\ print_pc' = IF cp = Len(out) THEN "format" ELSE "poll"
    /\ UNCHANGED <<S_uiDebugLevel, format, args, item, out, line, asked, prints>>

(* The device. *)
Transmit ==
    /\ uart = "busy"
    /\ uart' = "done"
    /\ line' = Append(line, data)
    /\ UNCHANGED <<S_uiDebugLevel, print_pc, format, args, item, out, cp, data,
                   asked, prints>>

Printer == ReadFormat \/ Return \/ Poll \/ WriteByte

PrintNext ==
    \/ \E n \in Levels : SetDebugLevel(n)
    \/ \E m \in Messages(prints + 1) : Dbg_printf(m)
    \/ Printer
    \/ Transmit

(* The program is one thread, and the device sends what it has been given. *)
PrintSpec ==
    PrintInit /\ [][PrintNext]_print_vars /\ WF_print_vars(Printer) /\ WF_print_vars(Transmit)

-------------------------------------------------------------------------------
(* What comes out of the line is what the calls asked for, byte for byte and *)
(* argument for argument: none is lost while the device is busy, and a call  *)
(* has handed over its last when it returns.                                 *)
Out == IF uart = "busy" THEN Append(line, data) ELSE line

LineAsPrinted ==
    /\ IsPrefix(Out, asked)
    /\ print_pc = "idle" => Out = asked

(* The number that a string of numerals spells. *)
Digit(c) == IF c < LetterA THEN c - Zero ELSE c - LetterA + 10
Spelled(s, base) ==
    LET v[k \in 0..Len(s)] == IF k = 0 THEN 0 ELSE base * v[k - 1] + Digit(s[k])
    IN  v[Len(s)]
IsNumeral(s, base) ==
    \A c \in DOMAIN s : s[c] \in Zero..(Zero + 9) \cup LetterA..(LetterA + base - 11)

(* The first len characters of s spell n, with a sign if it is negative and  *)
(* no zero before the digits.                                                *)
SpellsInt(s, n, len) ==
    LET sign == IF n < 0 THEN 1 ELSE 0
        digits == SubSeq(s, sign + 1, len)
    IN  /\ len > sign
        /\ n < 0 => s[1] = Minus
        /\ IsNumeral(digits, 10) /\ Spelled(digits, 10) = Abs(n)
        /\ n # 0 => digits[1] # Zero

(* The characters from first on are a number with Precision digits after its *)
(* point: that which is nearest to the value.                                *)
SpellsFloat(s, value, first) ==
    LET point == Len(s) - Precision
        digits == SubSeq(s, first, point - 1) \o SubSeq(s, point + 1, Len(s))
    IN  /\ first < point
        /\ s[point] = Dot
        /\ IsNumeral(digits, 10)
        /\ Abs(Spelled(digits, 10) * FloatUnits - value * Power(10)[Precision])
               <= FloatUnits \div 2

(* A fraction that rounds up to one: the carry into the digits before the    *)
(* point is lost.                                                            *)
FractionCarries(value) ==
    (value % FloatUnits) * Power(10)[Precision] + FloatUnits \div 2
        >= FloatUnits * Power(10)[Precision]

(* What is sent of a number spells it: its sign, its digits with no zero     *)
(* before them, blanks up to the width; all the digits of a word or of two;  *)
(* the ten-thousandth that is nearest to a float, but for a lost carry.      *)
NumbersSpell ==
    out # <<>> =>
        LET d == item.directive
        IN  /\ d.conv = "d" =>
                  /\ Len(out) >= d.width
                  /\ \E len \in 1..Len(out) :
                        /\ SpellsInt(out, item.args[1], len)
                        /\ \A c \in (len + 1)..Len(out) : out[c] = Space
            /\ d.conv = "0x" =>
                  /\ Len(out) >= d.width
                  /\ IsNumeral(out, 16) /\ Spelled(out, 16) = item.args[1]
            /\ d.conv = "llx" =>
                  /\ Len(out) = 2 * (WordBits \div 4)
                  /\ IsNumeral(out, 16)
                  /\ Spelled(SubSeq(out, 1, WordBits \div 4), 16) = item.args[1]
                  /\ Spelled(SubSeq(out, WordBits \div 4 + 1, Len(out)), 16) = item.args[2]
            /\ d.conv = "float" /\ ~FractionCarries(item.args[1]) =>
                  /\ Len(out) >= Width
                  /\ \E first \in 1..Len(out) :
                        /\ SpellsFloat(out, item.args[1], first)
                        /\ \A c \in 1..(first - 1) : out[c] = Space

(* Every call returns, however long the device takes for a byte. *)
PrintReturns == print_pc # "idle" ~> print_pc = "idle"
===============================================================================
