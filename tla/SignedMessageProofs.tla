--------------------------- MODULE SignedMessageProofs ---------------------------
(***************************************************************************)
(* crypto_sign_open succeeds on what crypto_sign wrote and on nothing else, *)
(* gives back the message, and clears what it was given if it fails: for   *)
(* signatures and messages of every length, in place or not, after any     *)
(* number of calls, flips and cuts.                                        *)
(***************************************************************************)
EXTENDS SignedMessage, SequenceTheorems, TLAPS

-------------------------------------------------------------------------------
(* What sm may hold, up to smlen, since msg was signed. *)
Cells(msg) ==
    Bytes \cup {SigCell(msg, k) : k \in 1..SpxBytes}
          \cup {<<"flipped", SigCell(msg, k)>> : k \in 1..SpxBytes}

Buffer(b) == b = [k \in 1..Room |-> b[k]]

TypeOK ==
    /\ m \in Seq(Bytes)
    /\ Len(m) <= MaxLen
    /\ Buffer(sm) /\ Buffer(mout)
    /\ smlen \in 0..Room
    /\ mlen \in 0..Room

HoldsSigned == \A k \in 1..smlen : sm[k] \in Cells(m)

IInv == TypeOK /\ HoldsSigned /\ OpenedAsSigned /\ NothingOnFailure

(* What crypto_sign_open tests. *)
Accepts ==
    /\ ~TooShort(smlen)
    /\ Verifies(SubSeq(sm, 1, SpxBytes), SubSeq(sm, SpxBytes + 1, smlen))

(* The buffer is what crypto_sign wrote, cell by cell. *)
AsSigned ==
    /\ smlen = SpxBytes + Len(m)
    /\ \A k \in 1..SpxBytes : sm[k] = SigCell(m, k)
    /\ \A k \in 1..Len(m) : sm[SpxBytes + k] = m[k]

-------------------------------------------------------------------------------
LEMMA RoomType == Room \in Nat /\ SpxBytes <= Room
BY SizesAssumption DEF Room

(* Cells of different kinds differ, and a cell of a signature tells its message. *)
LEMMA CellKinds ==
    ASSUME NEW msg, NEW other, NEW k \in Int, SigCell(other, k) \in Cells(msg)
    PROVE  other = msg
<1>1. \A b : SigCell(other, k) # Byte(b)
  <2> SUFFICES ASSUME NEW b, SigCell(other, k) = Byte(b) PROVE FALSE
    OBVIOUS
  <2>1. DOMAIN SigCell(other, k) = 1..3 /\ DOMAIN Byte(b) = 1..1
    BY DEF SigCell, Byte
  <2>2. 3 \in 1..3 /\ ~(3 \in 1..1)
    OBVIOUS
  <2> QED
    BY <2>1, <2>2
<1>2. \A c : SigCell(other, k) # <<"flipped", c>>
  BY DEF SigCell
<1>3. \A j : SigCell(other, k) = SigCell(msg, j) => other = msg
  BY DEF SigCell
<1> QED
  BY <1>1, <1>2, <1>3 DEF Cells, Bytes

LEMMA Slice ==
    ASSUME NEW b, Buffer(b), NEW i \in 1..(Room + 1), NEW j \in (i - 1)..Room
    PROVE  /\ Len(SubSeq(b, i, j)) = j - i + 1
           /\ \A k \in 1..(j - i + 1) : SubSeq(b, i, j)[k] = b[i + k - 1]
           /\ SubSeq(b, i, j) = [k \in 1..(j - i + 1) |-> b[i + k - 1]]
<1> DEFINE S == {b[k] : k \in 1..Room}
<1>1. Room \in Nat
  BY SizesAssumption DEF Room
<1>2. b \in Seq(S) /\ Len(b) = Room
  BY <1>1 DEF Buffer
<1> HIDE DEF S
<1>3. i \in 1..(Len(b) + 1) /\ j \in (i - 1)..Len(b)
  BY <1>2
<1>4. /\ SubSeq(b, i, j) \in Seq(S)
      /\ Len(SubSeq(b, i, j)) = j - i + 1
      /\ \A k \in 1..(j - i + 1) : SubSeq(b, i, j)[k] = b[i + k - 1]
  BY <1>2, <1>3, SubSeqProperties
<1>5. SubSeq(b, i, j) = [k \in 1..(j - i + 1) |-> SubSeq(b, i, j)[k]]
  BY <1>4
<1> QED
  BY <1>4, <1>5

(* What open accepts is what was signed, and the converse. *)
LEMMA AcceptsIffSigned ==
    ASSUME TypeOK, HoldsSigned
    PROVE  Accepts <=> AsSigned
<1> USE SizesAssumption DEF TypeOK
<1> DEFINE msg == SubSeq(sm, SpxBytes + 1, smlen)
           sig == SubSeq(sm, 1, SpxBytes)
<1>0. Room \in Nat /\ SpxBytes <= Room
  BY DEF Room
<1>1. ASSUME smlen >= SpxBytes
      PROVE  /\ Len(msg) = smlen - SpxBytes
             /\ msg = [k \in 1..(smlen - SpxBytes) |-> sm[SpxBytes + k]]
             /\ sig = [k \in 1..SpxBytes |-> sm[k]]
  <2>1. /\ SpxBytes + 1 \in 1..(Room + 1) /\ smlen \in ((SpxBytes + 1) - 1)..Room
        /\ 1 \in 1..(Room + 1) /\ SpxBytes \in (1 - 1)..Room
        /\ smlen - (SpxBytes + 1) + 1 = smlen - SpxBytes
        /\ SpxBytes - 1 + 1 = SpxBytes
    BY <1>0, <1>1
  <2>2. Buffer(sm)
    OBVIOUS
  <2>3. /\ Len(msg) = smlen - (SpxBytes + 1) + 1
        /\ msg = [k \in 1..(smlen - (SpxBytes + 1) + 1) |-> sm[(SpxBytes + 1) + k - 1]]
    <3> DEFINE first == SpxBytes + 1
    <3>1. first \in 1..(Room + 1) /\ smlen \in (first - 1)..Room
      BY <2>1
    <3> HIDE DEF first
    <3>2. /\ Len(SubSeq(sm, first, smlen)) = smlen - first + 1
          /\ SubSeq(sm, first, smlen) = [k \in 1..(smlen - first + 1) |-> sm[first + k - 1]]
      BY <2>2, <3>1, Slice
    <3> QED
      BY <3>2 DEF first
  <2>4. sig = [k \in 1..(SpxBytes - 1 + 1) |-> sm[1 + k - 1]]
    BY <2>1, <2>2, Slice
  <2>5. \A k \in Int : (SpxBytes + 1) + k - 1 = SpxBytes + k /\ 1 + k - 1 = k
    OBVIOUS
  <2> HIDE DEF msg, sig
  <2>6. Len(msg) = smlen - SpxBytes
    BY <2>1, <2>3
  <2>7. msg = [k \in 1..(smlen - SpxBytes) |-> sm[SpxBytes + k]]
    BY <2>1, <2>3, <2>5
  <2>8. sig = [k \in 1..SpxBytes |-> sm[k]]
    BY <2>1, <2>4, <2>5
  <2> QED
    BY <2>6, <2>7, <2>8
<1> HIDE DEF msg, sig
<1>2. ASSUME Accepts PROVE AsSigned
  <2>1. smlen >= SpxBytes /\ sig = Signature(msg)
    BY <1>2 DEF Accepts, TooShort, Verifies, msg, sig
  <2>2. \A k \in 1..SpxBytes : sm[k] = SigCell(msg, k)
    BY <1>1, <2>1 DEF Signature
  <2>3. SigCell(msg, 1) \in Cells(m)
    BY <2>1, <2>2 DEF HoldsSigned
  <2>4. msg = m
    BY <2>3, CellKinds, 1 \in Int
  <2>5. Len(m) = smlen - SpxBytes
    BY <1>1, <2>1, <2>4
  <2>6. \A k \in 1..Len(m) : sm[SpxBytes + k] = m[k]
    BY <1>1, <2>1, <2>4, <2>5
  <2> QED
    BY <2>2, <2>4, <2>5, <2>6 DEF AsSigned
<1>3. ASSUME AsSigned PROVE Accepts
  <2>1. smlen = SpxBytes + Len(m) /\ Len(m) \in Nat
    BY <1>3 DEF AsSigned
  <2>2. smlen >= SpxBytes /\ smlen - SpxBytes = Len(m)
    BY <2>1
  <2>3. /\ msg = [k \in 1..Len(m) |-> sm[SpxBytes + k]]
        /\ sig = [k \in 1..SpxBytes |-> sm[k]]
    BY <1>1, <2>2
  <2>4. /\ \A k \in 1..Len(m) : sm[SpxBytes + k] = m[k]
        /\ \A k \in 1..SpxBytes : sm[k] = SigCell(m, k)
    BY <1>3 DEF AsSigned
  <2>5. msg = m
    <3>1. m = [k \in 1..Len(m) |-> m[k]]
      OBVIOUS
    <3>2. msg = [k \in 1..Len(m) |-> m[k]]
      BY <2>3, <2>4
    <3> QED
      BY <3>1, <3>2
  <2>6. sig = Signature(m)
    BY <2>3, <2>4 DEF Signature
  <2>7. sig = Signature(msg)
    BY <2>5, <2>6
  <2>8. ~TooShort(smlen)
    BY <2>2 DEF TooShort
  <2> QED
    BY <2>7, <2>8 DEF Accepts, Verifies, msg, sig
<1> QED
  BY <1>2, <1>3

LEMMA IntactIffSigned ==
    ASSUME TypeOK
    PROVE  Intact <=> AsSigned
<1> USE SizesAssumption DEF TypeOK
<1>1. Room \in Nat
  BY DEF Room
<1> DEFINE S == Bytes \cup {SigCell(m, k) : k \in 1..SpxBytes}
           whole == Signature(m) \o m
           held == SubSeq(sm, 1, smlen)
<1>2. Signature(m) \in Seq(S) /\ Len(Signature(m)) = SpxBytes /\ m \in Seq(S)
  BY DEF Signature
<1>3. /\ whole \in Seq(S) /\ Len(whole) = SpxBytes + Len(m)
      /\ \A k \in 1..SpxBytes : whole[k] = SigCell(m, k)
      /\ \A k \in 1..Len(m) : whole[SpxBytes + k] = m[k]
  BY <1>2 DEF Signature
<1>4. Len(held) = smlen /\ held = [k \in 1..smlen |-> sm[k]]
  <2>1. 1 \in 1..(Room + 1) /\ smlen \in (1 - 1)..Room /\ smlen - 1 + 1 = smlen
    BY <1>1
  <2>2. /\ Len(held) = smlen - 1 + 1
        /\ held = [k \in 1..(smlen - 1 + 1) |-> sm[1 + k - 1]]
    BY <2>1, Slice
  <2>3. \A k \in Int : 1 + k - 1 = k
    OBVIOUS
  <2> QED
    BY <2>1, <2>2, <2>3
<1>5. ASSUME held = whole PROVE AsSigned
  <2>1. smlen = SpxBytes + Len(m) /\ Len(m) \in Nat
    BY <1>3, <1>4, <1>5
  <2>2. \A k \in 1..smlen : sm[k] = whole[k]
    BY <1>4, <1>5
  <2> HIDE DEF whole, held
  <2> QED
    BY <1>3, <2>1, <2>2 DEF AsSigned
<1>6. ASSUME AsSigned PROVE held = whole
  <2>1. smlen = SpxBytes + Len(m) /\ Len(m) \in Nat
    BY <1>6 DEF AsSigned
  <2>2. ASSUME NEW k \in 1..smlen PROVE sm[k] = whole[k]
    <3> HIDE DEF whole
    <3>1. CASE k <= SpxBytes
      BY <1>3, <1>6, <2>1, <3>1 DEF AsSigned
    <3>2. CASE k > SpxBytes
      <4>1. k - SpxBytes \in 1..Len(m) /\ SpxBytes + (k - SpxBytes) = k
        BY <2>1, <3>2
      <4> QED
        BY <1>3, <1>6, <4>1 DEF AsSigned
    <3> QED
      BY <3>1, <3>2
  <2> HIDE DEF whole
  <2>3. whole = [k \in 1..smlen |-> whole[k]]
    BY <1>3, <2>1
  <2> QED
    BY <1>4, <2>2, <2>3
<1> QED
  BY <1>5, <1>6 DEF Intact

-------------------------------------------------------------------------------
(* What open does: all or nothing. *)
LEMMA OpenResult ==
    ASSUME TypeOK, HoldsSigned, NEW dst
    PROVE  OpenInto(dst) =
               IF AsSigned
               THEN [buffer |-> Moved(dst, sm, SpxBytes, Len(m)), len |-> Len(m), ret |-> 0]
               ELSE [buffer |-> Zeroed(dst, smlen), len |-> 0, ret |-> -1]
<1>1. CASE AsSigned
  <2>1. Accepts /\ smlen - SpxBytes = Len(m)
    BY <1>1, AcceptsIffSigned, SizesAssumption DEF AsSigned, TypeOK
  <2> QED
    BY <1>1, <2>1 DEF OpenInto, Accepts
<1>2. CASE ~AsSigned
  <2>1. ~Accepts
    BY <1>2, AcceptsIffSigned
  <2> QED
    BY <1>2, <2>1 DEF OpenInto, Accepts, Cleared
<1> QED
  BY <1>1, <1>2

(* A buffer to which open has moved the message, and one that it cleared. *)
LEMMA MovedTo ==
    ASSUME TypeOK, AsSigned, NEW dst, NEW b, b = Moved(dst, sm, SpxBytes, Len(m))
    PROVE  /\ Buffer(b) /\ SubSeq(b, 1, Len(m)) = m
           /\ \A k \in 1..Room : b[k] = IF k <= Len(m) THEN sm[SpxBytes + k] ELSE dst[k]
<1>1. Room \in Nat /\ Len(m) \in Nat /\ Len(m) <= Room /\ m \in Seq(Bytes)
  BY SizesAssumption DEF TypeOK, Room
<1>2. b = [k \in 1..Room |-> IF k <= Len(m) THEN sm[SpxBytes + k] ELSE dst[k]]
  BY DEF Moved
<1>3. Buffer(b)
  BY <1>2 DEF Buffer
<1>4. \A k \in 1..Len(m) : b[k] = m[k]
  BY <1>1, <1>2 DEF AsSigned
<1>5. SubSeq(b, 1, Len(m)) = [k \in 1..Len(m) |-> b[k]]
  <2>1. 1 \in 1..(Room + 1) /\ Len(m) \in (1 - 1)..Room /\ Len(m) - 1 + 1 = Len(m)
    BY <1>1
  <2>2. SubSeq(b, 1, Len(m)) = [k \in 1..(Len(m) - 1 + 1) |-> b[1 + k - 1]]
    BY <1>3, <2>1, Slice
  <2>3. \A k \in Int : 1 + k - 1 = k
    OBVIOUS
  <2> QED
    BY <2>1, <2>2, <2>3
<1>6. m = [k \in 1..Len(m) |-> m[k]]
  BY <1>1
<1>7. SubSeq(b, 1, Len(m)) = [k \in 1..Len(m) |-> m[k]]
  BY <1>4, <1>5
<1> QED
  BY <1>2, <1>3, <1>6, <1>7

LEMMA ZeroedTo ==
    ASSUME TypeOK, NEW dst, NEW b, b = Zeroed(dst, smlen)
    PROVE  /\ Buffer(b)
           /\ \A k \in 1..smlen : b[k] = Byte(0)
<1>1. b = [k \in 1..Room |-> IF k <= smlen THEN Byte(0) ELSE dst[k]]
  BY DEF Zeroed
<1>2. \A k \in 1..smlen : k \in 1..Room /\ k <= smlen
  BY RoomType DEF TypeOK
<1> QED
  BY <1>1, <1>2 DEF Buffer

-------------------------------------------------------------------------------
LEMMA InitStep == Init => IInv
<1> SUFFICES ASSUME Init PROVE IInv
  OBVIOUS
<1> USE SizesAssumption
<1>1. Room \in Nat
  BY DEF Room
<1>2. TypeOK
  BY <1>1 DEF Init, TypeOK, Buffer
<1>3. HoldsSigned /\ OpenedAsSigned /\ NothingOnFailure
  BY DEF Init, HoldsSigned, OpenedAsSigned, NothingOnFailure, IsOpen
<1> QED
  BY <1>2, <1>3 DEF IInv

LEMMA SignStep ==
    ASSUME IInv, NEW msg \in Messages, CryptoSign(msg)
    PROVE  IInv'
<1> USE SizesAssumption
<1>1. msg \in Seq(Bytes) /\ Len(msg) \in Nat /\ Len(msg) <= MaxLen
  BY MessagesAssumption
<1>2. TypeOK'
  BY <1>1 DEF CryptoSign, IInv, TypeOK, Buffer, Room
<1>3. HoldsSigned'
  <2> SUFFICES ASSUME NEW k \in 1..smlen' PROVE sm'[k] \in Cells(m')
    BY DEF HoldsSigned, Cells
  <2>1. k \in 1..Room /\ k <= SpxBytes + Len(msg) /\ m' = msg
    BY <1>1 DEF CryptoSign, Room
  <2>2. CASE k <= SpxBytes
    BY <2>1, <2>2 DEF CryptoSign, Signature, Cells
  <2>3. CASE k > SpxBytes
    <3>1. k - SpxBytes \in 1..Len(msg) /\ ~(k <= SpxBytes)
      BY <1>1, <2>1, <2>3
    <3>2. msg[k - SpxBytes] \in Bytes
      BY <1>1, <3>1
    <3> QED
      BY <2>1, <3>1, <3>2 DEF CryptoSign, Cells
  <2> QED
    BY <1>1, <2>1, <2>2, <2>3
<1>4. OpenedAsSigned' /\ NothingOnFailure'
  BY DEF CryptoSign, OpenedAsSigned, NothingOnFailure, IsOpen
<1> QED
  BY <1>2, <1>3, <1>4 DEF IInv

LEMMA OpenStep == IInv /\ CryptoSignOpen => IInv'
<1> SUFFICES ASSUME IInv, CryptoSignOpen PROVE IInv'
  OBVIOUS
<1> USE SizesAssumption DEF IInv
<1>1. /\ mout' = OpenInto(mout).buffer /\ mlen' = OpenInto(mout).len
      /\ ret' = OpenInto(mout).ret /\ last' = "open"
      /\ UNCHANGED <<m, sm, smlen>>
  BY DEF CryptoSignOpen
<1>2. HoldsSigned' /\ IsOpen' /\ Opened' = mout'
  BY <1>1 DEF HoldsSigned, IsOpen, Opened
<1>3. CASE AsSigned
  <2>1. mout' = Moved(mout, sm, SpxBytes, Len(m)) /\ mlen' = Len(m) /\ ret' = 0
    BY <1>1, <1>3, OpenResult
  <2>2. Buffer(mout') /\ SubSeq(mout', 1, Len(m)) = m
    BY <1>3, <2>1, MovedTo
  <2>3. TypeOK'
    BY <1>1, <2>1, <2>2 DEF TypeOK, Buffer, Room
  <2> QED
    BY <1>1, <1>2, <2>1, <2>2, <2>3 DEF OpenedAsSigned, NothingOnFailure
<1>4. CASE ~AsSigned
  <2>1. mout' = Zeroed(mout, smlen) /\ mlen' = 0 /\ ret' = -1
    BY <1>1, <1>4, OpenResult
  <2>2. Buffer(mout') /\ \A k \in 1..smlen : mout'[k] = Byte(0)
    BY <2>1, ZeroedTo
  <2>3. TypeOK'
    BY <1>1, <2>1, <2>2 DEF TypeOK, Buffer, Room
  <2> QED
    BY <1>1, <1>2, <2>1, <2>2, <2>3 DEF OpenedAsSigned, NothingOnFailure
<1> QED
  BY <1>3, <1>4

LEMMA OpenInPlaceStep == IInv /\ CryptoSignOpenInPlace => IInv'
<1> SUFFICES ASSUME IInv, CryptoSignOpenInPlace PROVE IInv'
  OBVIOUS
<1> USE SizesAssumption DEF IInv
<1>1. /\ sm' = OpenInto(sm).buffer /\ mlen' = OpenInto(sm).len
      /\ ret' = OpenInto(sm).ret /\ last' = "open_in_place"
      /\ UNCHANGED <<m, smlen, mout>>
  BY DEF CryptoSignOpenInPlace
<1>2. IsOpen' /\ Opened' = sm'
  BY <1>1 DEF IsOpen, Opened
<1>3. CASE AsSigned
  <2>1. sm' = Moved(sm, sm, SpxBytes, Len(m)) /\ mlen' = Len(m) /\ ret' = 0
    BY <1>1, <1>3, OpenResult
  <2>2. /\ Buffer(sm') /\ SubSeq(sm', 1, Len(m)) = m
        /\ \A k \in 1..Room : sm'[k] = IF k <= Len(m) THEN sm[SpxBytes + k] ELSE sm[k]
    BY <1>3, <2>1, MovedTo
  <2>3. TypeOK'
    BY <1>1, <2>1, <2>2 DEF TypeOK, Buffer, Room
  <2>4. HoldsSigned'
    <3> SUFFICES ASSUME NEW k \in 1..smlen PROVE sm'[k] \in Cells(m)
      BY <1>1 DEF HoldsSigned, Cells
    <3>1. k \in 1..Room /\ Len(m) \in Nat /\ smlen = SpxBytes + Len(m)
      BY <1>3 DEF TypeOK, AsSigned, Room
    <3>2. k <= Len(m) => SpxBytes + k \in 1..smlen
      BY <3>1
    <3> QED
      BY <2>2, <3>1, <3>2 DEF HoldsSigned
  <2> QED
    BY <1>1, <1>2, <2>1, <2>2, <2>3, <2>4 DEF OpenedAsSigned, NothingOnFailure
<1>4. CASE ~AsSigned
  <2>1. sm' = Zeroed(sm, smlen) /\ mlen' = 0 /\ ret' = -1
    BY <1>1, <1>4, OpenResult
  <2>2. Buffer(sm') /\ \A k \in 1..smlen : sm'[k] = Byte(0)
    BY <2>1, ZeroedTo
  <2>3. TypeOK'
    BY <1>1, <2>1, <2>2 DEF TypeOK, Buffer, Room
  <2>4. HoldsSigned'
    BY <1>1, <2>2 DEF HoldsSigned, Cells, Bytes
  <2> QED
    BY <1>1, <1>2, <2>1, <2>2, <2>3, <2>4 DEF OpenedAsSigned, NothingOnFailure
<1> QED
  BY <1>3, <1>4

(* A flip takes a cell of the signature to its damaged form and back. *)
LEMMA FlippedCell ==
    ASSUME NEW msg, NEW cell \in Cells(msg)
    PROVE  FlipBit(cell) \in Cells(msg)
<1>1. CASE cell \in Bytes
  <2>1. PICK b \in {0, 1} : cell = Byte(b)
    BY <1>1 DEF Bytes
  <2>2. Len(cell) = 1 /\ cell[1] = b
    BY <2>1 DEF Byte
  <2>3. FlipBit(cell) = Byte(1 - cell[1])
    BY <2>2 DEF FlipBit
  <2>4. 1 - b \in {0, 1}
    BY <2>1
  <2> QED
    BY <2>2, <2>3, <2>4 DEF Cells, Bytes
<1>2. CASE \E k \in 1..SpxBytes : cell = SigCell(msg, k)
  <2>1. PICK k \in 1..SpxBytes : cell = SigCell(msg, k)
    BY <1>2
  <2>2. Len(cell) = 3
    BY <2>1 DEF SigCell
  <2>3. FlipBit(cell) = <<"flipped", cell>>
    BY <2>2 DEF FlipBit
  <2> QED
    BY <2>1, <2>3 DEF Cells
<1>3. CASE \E k \in 1..SpxBytes : cell = <<"flipped", SigCell(msg, k)>>
  <2>1. PICK k \in 1..SpxBytes : cell = <<"flipped", SigCell(msg, k)>>
    BY <1>3
  <2>2. Len(cell) = 2 /\ cell[2] = SigCell(msg, k)
    BY <2>1
  <2>3. FlipBit(cell) = cell[2]
    <3>1. Len(cell) # 1
      BY <2>2
    <3> QED
      BY <2>2, <3>1 DEF FlipBit
  <2> QED
    BY <2>2, <2>3 DEF Cells
<1> QED
  BY <1>1, <1>2, <1>3 DEF Cells

LEMMA FlipStep == IInv /\ Flip => IInv'
<1> SUFFICES ASSUME IInv, Flip PROVE IInv'
  OBVIOUS
<1> USE SizesAssumption DEF IInv
<1>1. PICK k \in 1..smlen : sm' = [sm EXCEPT ![k] = FlipBit(sm[k])]
  BY DEF Flip
<1>2. last' = "flip" /\ UNCHANGED <<m, smlen, mout, mlen, ret>>
  BY DEF Flip
<1>3. k \in 1..Room /\ DOMAIN sm = 1..Room
  <2>1. k \in 1..Room
    BY RoomType DEF TypeOK
  <2>2. DOMAIN sm = 1..Room
    BY DEF TypeOK, Buffer
  <2> QED
    BY <2>1, <2>2
<1>4. sm' = [j \in 1..Room |-> IF j = k THEN FlipBit(sm[k]) ELSE sm[j]]
  BY <1>1, <1>3
<1>5. TypeOK'
  BY <1>2, <1>4 DEF TypeOK, Buffer
<1>6. HoldsSigned'
  <2> SUFFICES ASSUME NEW j \in 1..smlen PROVE sm'[j] \in Cells(m)
    BY <1>2 DEF HoldsSigned, Cells
  <2>1. sm[k] \in Cells(m) /\ sm[j] \in Cells(m)
    BY DEF HoldsSigned
  <2>2. j \in 1..Room
    BY RoomType DEF TypeOK
  <2>3. FlipBit(sm[k]) \in Cells(m)
    BY <2>1, FlippedCell
  <2> QED
    BY <1>4, <2>1, <2>2, <2>3
<1>7. OpenedAsSigned' /\ NothingOnFailure'
  BY <1>2 DEF OpenedAsSigned, NothingOnFailure, IsOpen
<1> QED
  BY <1>5, <1>6, <1>7

LEMMA CutStep == IInv /\ Cut => IInv'
<1> SUFFICES ASSUME IInv, Cut PROVE IInv'
  OBVIOUS
<1> USE DEF IInv
<1>1. smlen' \in 0..(smlen - 1) /\ last' = "cut" /\ UNCHANGED <<m, sm, mout, mlen, ret>>
  BY DEF Cut
<1>2. smlen' \in 0..Room /\ \A k \in 1..smlen' : k \in 1..smlen
  BY <1>1, RoomType DEF TypeOK
<1>3. TypeOK'
  BY <1>1, <1>2 DEF TypeOK, Buffer
<1>4. HoldsSigned'
  BY <1>1, <1>2 DEF HoldsSigned, Cells
<1>5. OpenedAsSigned' /\ NothingOnFailure'
  BY <1>1 DEF OpenedAsSigned, NothingOnFailure, IsOpen
<1> QED
  BY <1>3, <1>4, <1>5

LEMMA Invariance == IInv /\ [Next]_vars => IInv'
<1> SUFFICES ASSUME IInv, [Next]_vars PROVE IInv'
  OBVIOUS
<1>1. CASE UNCHANGED vars
  BY <1>1 DEF vars, IInv, TypeOK, Buffer, HoldsSigned, Cells, OpenedAsSigned,
     NothingOnFailure, IsOpen, Opened
<1> QED
  BY <1>1, SignStep, OpenStep, OpenInPlaceStep, FlipStep, CutStep DEF Next

LEMMA Inductive == Spec => []IInv
BY InitStep, Invariance, PTL DEF Spec

(* What open returns is the message that was signed and its length, for     *)
(* messages and signatures of every length, also where they overlap.        *)
THEOREM OpensMessage == Spec => []OpenedAsSigned
<1>1. IInv => OpenedAsSigned
  BY DEF IInv
<1> QED
  BY <1>1, Inductive, PTL

(* An open that fails leaves zeros in all it was given room for. *)
THEOREM ClearsOnFailure == Spec => []NothingOnFailure
<1>1. IInv => NothingOnFailure
  BY DEF IInv
<1> QED
  BY <1>1, Inductive, PTL

(* Open succeeds exactly on the buffer that crypto_sign filled, whatever    *)
(* was flipped, cut off, or opened in place since.                          *)
THEOREM Accepted == Spec => OpensIffIntact
<1>1. ASSUME IInv, CryptoSignOpen \/ CryptoSignOpenInPlace PROVE ret' = 0 <=> Intact
  <2>1. TypeOK /\ HoldsSigned
    BY <1>1 DEF IInv
  <2>2. PICK dst : ret' = OpenInto(dst).ret
    BY <1>1 DEF CryptoSignOpen, CryptoSignOpenInPlace
  <2>3. ret' = IF AsSigned THEN 0 ELSE -1
    BY <2>1, <2>2, OpenResult
  <2> QED
    BY <2>1, <2>3, IntactIffSigned
<1>2. ASSUME IInv, Next, last' \in {"open", "open_in_place"} PROVE ret' = 0 <=> Intact
  BY <1>1, <1>2 DEF Next, CryptoSign, Flip, Cut
<1>3. IInv /\ [Next]_vars =>
        [last' \in {"open", "open_in_place"} => (ret' = 0 <=> Intact)]_vars
  BY <1>2
<1> QED
  BY <1>3, Inductive, PTL DEF Spec, OpensIffIntact
===============================================================================
