------------------------------ MODULE SignedMessage ------------------------------
(***************************************************************************)
(* crypto_sign and crypto_sign_open (sign.c): signature and message in one *)
(* buffer.  The caller opens sm into a buffer of its own or, as            *)
(* test/spx.c does, in place; between two calls it may flip a bit of sm    *)
(* or pass a shorter smlen.  What crypto_sign_verify accepts is a parameter *)
(* of this module that module Sphincs justifies: a signature of the        *)
(* message, in all its cells.                                              *)
(***************************************************************************)
EXTENDS Integers, Sequences

CONSTANTS
    SpxBytes,  \* SPX_BYTES, the cells of a signature
    MaxLen,    \* bound on the length of messages
    Messages   \* the messages that are signed, sequences of bytes

VARIABLES
    m,          \* the message that was signed last
    sm, smlen,
    mout, mlen, \* the buffer of the caller, and the length that open returned
    ret,        \* what the last call returned
    last        \* the last call

vars == <<m, sm, smlen, mout, mlen, ret, last>>

ASSUME SizesAssumption == SpxBytes \in Nat \ {0} /\ MaxLen \in Nat

Room == SpxBytes + MaxLen

(* A cell of a buffer: a byte of a message, of a signature, or what malloc *)
(* returned.                                                               *)
Byte(b) == <<b>>
SigCell(msg, k) == <<"signature", msg, k>>
Garbage == <<"garbage", 0, 0>>
Bytes == {Byte(0), Byte(1)}

ASSUME MessagesAssumption ==
    \A msg \in Messages : msg \in Seq(Bytes) /\ Len(msg) <= MaxLen

Signature(msg) == [k \in 1..SpxBytes |-> SigCell(msg, k)]
Verifies(sig, msg) == sig = Signature(msg)

-------------------------------------------------------------------------------
(* memset, and memmove of n cells to the start of dst from src at from.  A  *)
(* copy in descending order would read what it has written already, if dst *)
(* is src.                                                                 *)
Zeroed(dst, n) == [k \in 1..Room |-> IF k <= n THEN Byte(0) ELSE dst[k]]

Moved_Down(dst, src, from, n) ==
    LET r[j \in 0..n] ==
            IF j = 0 THEN dst
            ELSE LET k == n - j + 1
                     s == IF dst = src THEN r[j - 1] ELSE src
                 IN  [r[j - 1] EXCEPT ![k] = s[from + k]]
    IN  r[n]
Moved(dst, src, from, n) ==
    [k \in 1..Room |-> IF k <= n THEN src[from + k] ELSE dst[k]]

Init ==
    /\ m = <<>>
    /\ sm = [k \in 1..Room |-> Garbage]
    /\ smlen = 0
    /\ mout = [k \in 1..Room |-> Garbage]
    /\ mlen = 0
    /\ ret = 0
    /\ last = "none"

CryptoSign(msg) ==
    /\ m' = msg
    /\ sm' = [k \in 1..Room |->
                IF k <= SpxBytes THEN Signature(msg)[k]
                ELSE IF k <= SpxBytes + Len(msg) THEN msg[k - SpxBytes]
                ELSE sm[k]]
    /\ smlen' = SpxBytes + Len(msg)
    /\ ret' = 0
    /\ last' = "sign"
    /\ UNCHANGED <<mout, mlen>>

TooShort_OrEmpty(len) == len <= SpxBytes
TooShort(len) == len < SpxBytes

(* What open clears when it fails: as much as it was given. *)
Cleared_Message(len) == len - SpxBytes
Cleared(len) == len

(* crypto_sign_open writing to dst. *)
OpenInto(dst) ==
    LET len == smlen - SpxBytes
    IN  IF TooShort(smlen)
           \/ ~Verifies(SubSeq(sm, 1, SpxBytes), SubSeq(sm, SpxBytes + 1, smlen))
        THEN [buffer |-> Zeroed(dst, Cleared(smlen)), len |-> 0, ret |-> -1]
        ELSE [buffer |-> Moved(dst, sm, SpxBytes, len), len |-> len, ret |-> 0]

CryptoSignOpen ==
    /\ last # "none"
    /\ LET o == OpenInto(mout)
       IN  mout' = o.buffer /\ mlen' = o.len /\ ret' = o.ret
    /\ last' = "open"
    /\ UNCHANGED <<m, sm, smlen>>

CryptoSignOpenInPlace ==
    /\ last # "none"
    /\ LET o == OpenInto(sm)
       IN  sm' = o.buffer /\ mlen' = o.len /\ ret' = o.ret
    /\ last' = "open_in_place"
    /\ UNCHANGED <<m, smlen, mout>>

(* The caller: "sm[j] ^= 1", and a message that lost its end. *)
FlipBit(cell) ==
    CASE Len(cell) = 1 -> Byte(1 - cell[1])
      [] Len(cell) = 2 -> cell[2]
      [] OTHER -> <<"flipped", cell>>

Flip ==
    /\ last # "none"
    /\ \E k \in 1..smlen : sm' = [sm EXCEPT ![k] = FlipBit(@)]
    /\ last' = "flip"
    /\ UNCHANGED <<m, smlen, mout, mlen, ret>>

Cut ==
    /\ last # "none"
    /\ smlen > 0
    /\ smlen' \in 0..(smlen - 1)
    /\ last' = "cut"
    /\ UNCHANGED <<m, sm, mout, mlen, ret>>

Next ==
    \/ \E msg \in Messages : CryptoSign(msg)
    \/ CryptoSignOpen \/ CryptoSignOpenInPlace \/ Flip \/ Cut

Spec == Init /\ [][Next]_vars

-------------------------------------------------------------------------------
Opened == IF last = "open_in_place" THEN sm ELSE mout
IsOpen == last \in {"open", "open_in_place"}

(* What crypto_sign wrote, of all that sm holds. *)
Intact == SubSeq(sm, 1, smlen) = Signature(m) \o m

(* crypto_sign_open gives back the message that was signed, and its length, *)
(* also when it moves it within sm over its own start.                     *)
OpenedAsSigned ==
    IsOpen /\ ret = 0 => mlen = Len(m) /\ SubSeq(Opened, 1, mlen) = m

(* When it fails, it leaves nothing of what it was given in the buffer of   *)
(* the message, even if that is sm itself.                                 *)
NothingOnFailure ==
    IsOpen /\ ret = -1 =>
        mlen = 0 /\ \A k \in 1..smlen : Opened[k] = Byte(0)

(* It succeeds on what crypto_sign returned, the empty message included, and *)
(* on nothing else: not after a flip of any cell, nor after a cut, nor after *)
(* an open in place; and again after the flip is undone.                    *)
OpensIffIntact ==
    [][last' \in {"open", "open_in_place"} => (ret' = 0 <=> Intact)]_vars
===============================================================================
