------------------------- MODULE ImageHeaderProofs --------------------------
(***************************************************************************)
(* Theorems about ImageHeader.  For any bytes whatever: an accepted image  *)
(* has a size within the limits, and the JPEG walk goes forward through    *)
(* the file.  For bytes that are a prefix of a file described as ImageFiles*)
(* says: the verdict is the one the file's contents call for.              *)
(***************************************************************************)
EXTENDS ImageFiles, SequenceTheorems, TLAPS

\* A verdict is a refusal or a size within the limits.
Fits(v) ==
  v.reason = "ok" => v.width \in 1..MaxWidth /\ v.height \in 1..MaxHeight

\* A size read from a header, before the limits are looked at.
Positive(v) ==
  v.reason = "ok" => v.width \in Nat \ {0} /\ v.height \in Nat \ {0}

(* Every turn of the walk that does not end it starts two bytes or more    *)
(* before the end of the file and moves on by two bytes or more            *)
(* (image-dimensions.ts:98-117): the turns are no more than half the       *)
(* file's bytes, whatever lengths it declares.                             *)
WalkGoesForward ==
  [][step = "walking" /\ step' = "walking" => off + 2 <= Len(bytes) /\ off' >= off + 2]_vars

IInv ==
  /\ bytes \in Seq(0..255)
  /\ off \in Nat
  /\ Fits(verdict)

-----------------------------------------------------------------------------
LEMMA RefusalsFit == \A reason : Rejected(reason).reason = reason
BY DEF Rejected

LEMMA JudgedFits ==
  ASSUME NEW v, Positive(v)
  PROVE  Fits(Judged(v))
<1>1. CASE v.width > MaxWidth \/ v.height > MaxHeight
  <2>1. Judged(v).reason = "dimensions-too-large"
    BY <1>1, RefusalsFit DEF Judged
  <2> QED
    BY <2>1 DEF Fits
<1>2. CASE ~(v.width > MaxWidth \/ v.height > MaxHeight)
  <2>1. Judged(v) = v
    BY <1>2 DEF Judged
  <2> QED
    BY <1>2, <2>1, HeaderAssumption DEF Positive, Fits
<1> QED
  BY <1>1, <1>2

LEMMA NonZeroIsPositive ==
  ASSUME NEW w \in Nat, NEW h \in Nat
  PROVE  Positive(NonZero(Found(w, h)))
<1>1. Found(w, h).width = w /\ Found(w, h).height = h /\ Found(w, h).reason = "ok"
  BY DEF Found
<1>2. CASE w = 0 \/ h = 0
  BY <1>1, <1>2, RefusalsFit DEF NonZero, Positive
<1>3. CASE w # 0 /\ h # 0
  BY <1>1, <1>3 DEF NonZero, Positive
<1> QED
  BY <1>2, <1>3

LEMMA FoundIsPositive ==
  ASSUME NEW w \in Nat, NEW h \in Nat
  PROVE  Positive(Found(w + 1, h + 1))
BY DEF Found, Positive

\* A byte that is there is a number.
LEMMA BytesAreNumbers ==
  ASSUME bytes \in Seq(0..255), NEW i \in Nat, i + 1 <= Len(bytes)
  PROVE  At(i) \in Nat
<1>1. i + 1 \in 1..Len(bytes)
  OBVIOUS
<1>2. bytes[i + 1] \in 0..255
  BY <1>1, ElementOfSeq
<1> DEFINE byte == bytes[i + 1]
<1>3. byte \in 0..255
  BY <1>2
<1> HIDE DEF byte
<1>4. byte \in Nat
  BY <1>3
<1> QED
  BY <1>4 DEF At, byte

LEMMA WordsAreNumbers ==
  ASSUME bytes \in Seq(0..255), NEW i \in Nat, i + 2 <= Len(bytes)
  PROVE  U16(i) \in Nat
<1>1. Len(bytes) \in Nat
  OBVIOUS
<1>2. At(i) \in Nat
  BY <1>1, BytesAreNumbers
<1> DEFINE next == i + 1
<1>3. next \in Nat /\ next + 1 <= Len(bytes)
  BY <1>1
<1> HIDE DEF next
<1>4. At(next) \in Nat
  BY <1>3, BytesAreNumbers
<1> QED
  BY <1>2, <1>4 DEF U16, next

LEMMA PngIsPositive ==
  ASSUME bytes \in Seq(0..255)
  PROVE  Positive(PngDimensions)
<1>1. CASE Has(24) /\ Reads(12, <<73, 72, 68, 82>>)
  <2>1. 16 + 2 <= Len(bytes) /\ 18 + 2 <= Len(bytes) /\ 20 + 2 <= Len(bytes) /\ 22 + 2 <= Len(bytes)
    BY <1>1 DEF Has
  <2>2. U16(16) \in Nat /\ U16(18) \in Nat /\ U16(20) \in Nat /\ U16(22) \in Nat
    BY <2>1, WordsAreNumbers
  <2>3. U32(16) \in Nat /\ U32(20) \in Nat
    BY <2>2 DEF U32
  <2>4. PngDimensions = NonZero(Found(U32(16), U32(20)))
    BY <1>1 DEF PngDimensions
  <2> HIDE DEF PngDimensions
  <2> QED
    BY <2>3, <2>4, NonZeroIsPositive
<1>2. CASE ~(Has(24) /\ Reads(12, <<73, 72, 68, 82>>))
  BY <1>2, RefusalsFit DEF PngDimensions, Positive
<1> QED
  BY <1>1, <1>2

LEMMA Remainders ==
  /\ \A n \in Nat : n % 16384 \in Nat
  /\ \A n \in Nat : n \div 64 \in Nat
OBVIOUS

LEMMA WebpIsPositive ==
  ASSUME bytes \in Seq(0..255)
  PROVE  Positive(WebpDimensions)
<1> DEFINE chunk(last) == Reads(12, <<86, 80, 56, last>>)
<1>0. Has(30) => \A i \in 0..29 : At(i) \in Nat
  BY BytesAreNumbers DEF Has
<1>00. Has(25) => \A i \in 0..24 : At(i) \in Nat
  BY BytesAreNumbers DEF Has
<1>1. CASE chunk(32) /\ Has(30)
  <2>2. At(26) \in Nat /\ At(27) \in Nat /\ At(28) \in Nat /\ At(29) \in Nat
    BY <1>0, <1>1
  <2>3. At(26) + At(27) * 256 \in Nat /\ At(28) + At(29) * 256 \in Nat
    BY <2>2
  <2>4. U14LE(26) \in Nat /\ U14LE(28) \in Nat
    BY <2>3, Remainders DEF U14LE
  <2>5. WebpDimensions = NonZero(Found(U14LE(26), U14LE(28)))
    BY <1>1 DEF WebpDimensions
  <2> QED
    BY <2>4, <2>5, NonZeroIsPositive
<1>2. CASE ~(chunk(32) /\ Has(30)) /\ chunk(76) /\ Has(25) /\ At(20) = 47
  <2>2. At(21) \in Nat /\ At(22) \in Nat /\ At(23) \in Nat /\ At(24) \in Nat
    BY <1>00, <1>2
  <2>3. At(21) + At(22) * 256 \in Nat
    BY <2>2
  <2> DEFINE high == At(22) \div 64
  <2>4. high \in Nat
    BY <2>2, Remainders
  <2> HIDE DEF high
  <2>5. high + At(23) * 4 + At(24) * 1024 \in Nat
    BY <2>2, <2>4, SMTT(20)
  <2>6. U14LE(21) \in Nat /\ U14Next(22) \in Nat
    BY <2>3, <2>5, Remainders DEF U14LE, U14Next, high
  <2>7. WebpDimensions = Found(U14LE(21) + 1, U14Next(22) + 1)
    BY <1>2 DEF WebpDimensions
  <2> QED
    BY <2>6, <2>7, FoundIsPositive
<1>3. CASE /\ ~(chunk(32) /\ Has(30)) /\ ~(chunk(76) /\ Has(25) /\ At(20) = 47)
           /\ chunk(88) /\ Has(30)
  <2>1. At(24) \in Nat /\ At(25) \in Nat /\ At(26) \in Nat
    BY <1>0, <1>3
  <2>2. At(27) \in Nat /\ At(28) \in Nat /\ At(29) \in Nat
    BY <1>0, <1>3
  <2>3. U24LE(24) \in Nat /\ U24LE(27) \in Nat
    <3>1. U24LE(24) = At(24) + At(25) * 256 + At(26) * 65536
      BY DEF U24LE
    <3>2. U24LE(24) \in Nat
      BY <2>1, <3>1
    <3>3. U24LE(27) = At(27) + At(28) * 256 + At(29) * 65536
      BY DEF U24LE
    <3>4. U24LE(27) \in Nat
      BY <2>2, <3>3
    <3> QED
      BY <3>2, <3>4
  <2>4. WebpDimensions = Found(U24LE(24) + 1, U24LE(27) + 1)
    BY <1>3 DEF WebpDimensions
  <2> QED
    BY <2>3, <2>4, FoundIsPositive
<1>4. CASE WebpDimensions = Rejected("malformed-header")
  BY <1>4, RefusalsFit DEF Positive
<1> QED
  BY <1>1, <1>2, <1>3, <1>4 DEF WebpDimensions

-----------------------------------------------------------------------------
LEMMA InitOK == Init => IInv
<1> SUFFICES ASSUME Init PROVE IInv
  OBVIOUS
<1>1. PICK cut \in 0..Len(file.bytes) : bytes = SubSeq(file.bytes, 1, cut)
  BY DEF Init
<1>2. file.bytes \in Seq(0..255)
  BY HeaderAssumption DEF Init
<1>3. bytes \in Seq(0..255)
  <2>1. \A i \in 1..cut : i \in 1..Len(file.bytes)
    BY <1>1, <1>2, LenProperties
  <2> QED
    BY <1>1, <1>2, <2>1, SubSeqProperties, ElementOfSeq
<1>4. Fits(verdict)
  BY RefusalsFit DEF Init, Fits
<1> QED
  BY <1>3, <1>4 DEF IInv, Init

LEMMA ValidateKeeps == ASSUME IInv, Validate PROVE IInv'
<1>1. bytes \in Seq(0..255) /\ bytes' = bytes
  BY DEF IInv, Validate
<1>2. Positive(PngDimensions) /\ Positive(WebpDimensions)
  BY <1>1, PngIsPositive, WebpIsPositive
<1>3. Fits(Judged(PngDimensions)) /\ Fits(Judged(WebpDimensions))
  BY <1>2, JudgedFits
<1>4. \A reason : reason # "ok" => Fits(Rejected(reason))
  BY RefusalsFit DEF Fits
<1>5. CASE \E v : Fits(v) /\ Over(v)
  BY <1>1, <1>5 DEF IInv, Over, Fits
<1>6. CASE off' = 2 /\ UNCHANGED verdict
  BY <1>1, <1>6 DEF IInv, Fits
<1> QED
  BY <1>3, <1>4, <1>5, <1>6 DEF Validate

\* One turn: it ends with a verdict that fits, or goes on further ahead.
LEMMA WalkTurn ==
  ASSUME IInv, Walk
  PROVE  \/ step' = "over" /\ off' = off /\ Fits(verdict')
         \/ /\ step' = "walking" /\ verdict' = verdict
            /\ off + 2 <= Len(bytes) /\ off' \in Nat /\ off' >= off + 2
<1>1. bytes \in Seq(0..255) /\ off \in Nat /\ Len(bytes) \in Nat
  BY DEF IInv
<1> DEFINE malformed == Rejected("malformed-header")
<1>2. Fits(malformed)
  BY RefusalsFit DEF Fits
<1>3. CASE Over(malformed)
  BY <1>2, <1>3 DEF Over
<1>4. CASE Has(off + 2) /\ off' = PastStandalone /\ UNCHANGED <<step, verdict>>
  BY <1>1, <1>4 DEF Has, PastStandalone, Walk
<1>5. CASE Has(off + 4) /\ Has(off + 9) /\ Over(Judged(NonZero(Found(U16(off + 7), U16(off + 5)))))
  <2>1. off + 7 \in Nat /\ off + 5 \in Nat /\ (off + 7) + 2 <= Len(bytes) /\ (off + 5) + 2 <= Len(bytes)
    BY <1>1, <1>5 DEF Has
  <2>2. U16(off + 7) \in Nat /\ U16(off + 5) \in Nat
    <3> DEFINE i == off + 7
               j == off + 5
    <3>1. i \in Nat /\ i + 2 <= Len(bytes) /\ j \in Nat /\ j + 2 <= Len(bytes)
      BY <2>1
    <3> HIDE DEF i, j
    <3>2. U16(i) \in Nat /\ U16(j) \in Nat
      BY <1>1, <3>1, WordsAreNumbers
    <3> QED
      BY <3>2 DEF i, j
  <2>3. Fits(Judged(NonZero(Found(U16(off + 7), U16(off + 5)))))
    BY <2>2, NonZeroIsPositive, JudgedFits
  <2> QED
    BY <1>5, <2>3 DEF Over
<1>6. CASE Has(off + 4) /\ ~(U16(off + 2) < 2) /\ off' = PastSegment /\ UNCHANGED <<step, verdict>>
  <2>1. off + 2 \in Nat /\ (off + 2) + 2 <= Len(bytes) /\ off + 2 <= Len(bytes)
    BY <1>1, <1>6 DEF Has
  <2>2. U16(off + 2) \in Nat
    <3> DEFINE i == off + 2
    <3>1. i \in Nat /\ i + 2 <= Len(bytes)
      BY <2>1
    <3> HIDE DEF i
    <3>2. U16(i) \in Nat
      BY <1>1, <3>1, WordsAreNumbers
    <3> QED
      BY <3>2 DEF i
  <2> QED
    BY <1>1, <1>6, <2>1, <2>2 DEF PastSegment, Walk
<1> QED
  BY <1>3, <1>4, <1>5, <1>6 DEF Walk

LEMMA NextOK == IInv /\ [Next]_vars => IInv'
<1> SUFFICES ASSUME IInv, [Next]_vars PROVE IInv'
  OBVIOUS
<1>1. CASE Validate
  BY <1>1, ValidateKeeps
<1>2. CASE Walk
  <2>1. bytes' = bytes
    BY <1>2 DEF Walk
  <2> QED
    BY <1>2, <2>1, WalkTurn DEF IInv, Fits
<1>3. CASE UNCHANGED vars
  BY <1>3 DEF vars, IInv, Fits
<1> QED
  BY <1>1, <1>2, <1>3 DEF Next

LEMMA IInvHolds == Spec => []IInv
BY InitOK, NextOK, PTL DEF Spec

-----------------------------------------------------------------------------
(* An image is accepted only with a width and a height of at least one     *)
(* pixel and within the limits (image-validation.ts:117-128), whatever its *)
(* bytes are.                                                              *)
THEOREM AcceptedImagesFit == Spec => []Fits(verdict)
<1>1. IInv => Fits(verdict)
  BY DEF IInv
<1> QED
  BY IInvHolds, <1>1, PTL

(* The JPEG walk goes forward through the file, two bytes a turn at least, *)
(* and so takes no more turns than the file has bytes.                     *)
THEOREM TheWalkGoesForward == Spec => WalkGoesForward
<1>1. IInv /\ [Next]_vars =>
        [step = "walking" /\ step' = "walking" => off + 2 <= Len(bytes) /\ off' >= off + 2]_vars
  <2> SUFFICES ASSUME IInv, Next, step = "walking", step' = "walking"
               PROVE  off + 2 <= Len(bytes) /\ off' >= off + 2
    OBVIOUS
  <2>1. Walk
    BY DEF Next, Validate
  <2> QED
    BY <2>1, WalkTurn
<1> QED
  BY IInvHolds, <1>1, PTL DEF Spec, WalkGoesForward

-----------------------------------------------------------------------------
(* The verdict is the one the file's contents call for.                    *)

\* The bytes are a prefix of the file's.
Cut ==
  /\ bytes \in Seq(0..255) /\ file.bytes \in Seq(0..255)
  /\ Len(bytes) <= Len(file.bytes)
  /\ \A i \in 1..Len(bytes) : bytes[i] = file.bytes[i]

\* What the header of the file should be found to hold.
Size ==
  IF Len(bytes) < file.needs \/ file.width = 0 \/ file.height = 0
  THEN Rejected("malformed-header") ELSE Found(file.width, file.height)

LEMMA ByteThere ==
  ASSUME Cut, NEW i \in Nat, i + 1 <= Len(bytes)
  PROVE  At(i) = file.bytes[i + 1] /\ file.bytes[i + 1] \in 0..255
<1>1. i + 1 \in 1..Len(bytes) /\ i + 1 \in 1..Len(file.bytes)
  BY DEF Cut
<1>2. At(i) = file.bytes[i + 1]
  BY <1>1 DEF Cut, At
<1>3. file.bytes[i + 1] \in 0..255
  BY <1>1, ElementOfSeq DEF Cut
<1> QED
  BY <1>2, <1>3

\* What is read from a prefix is what was written, if it is there.
LEMMA ReadsWhatWasWritten ==
  ASSUME Cut, NEW i \in Nat, NEW values, NEW n \in Nat, Len(values) = n, DOMAIN values = 1..n
  PROVE  Reads(i, values) <=> Has(i + n) /\ Writes(file, i, values)
<1>1. Len(bytes) \in Nat /\ Len(file.bytes) \in Nat /\ Len(bytes) <= Len(file.bytes)
  BY LenProperties DEF Cut
<1>2. CASE ~Has(i + n)
  BY <1>2 DEF Reads
<1>3. CASE Has(i + n)
  <2>1. \A j \in 1..n : bytes[i + j] = file.bytes[i + j]
    BY <1>1, <1>3 DEF Cut, Has
  <2>2. Len(file.bytes) >= i + n
    BY <1>1, <1>3 DEF Has
  <2> QED
    BY <1>3, <2>1, <2>2 DEF Reads, Writes
<1> QED
  BY <1>2, <1>3

LEMMA Signatures ==
  ASSUME Cut
  PROVE  /\ Reads(0, <<137, 80, 78, 71, 13, 10, 26, 10>>) <=> Has(8) /\ SignedPng(file)
         /\ Reads(0, <<255, 216, 255>>) <=> Has(3) /\ SignedJpeg(file)
         /\ Reads(0, <<82, 73, 70, 70>>) /\ Reads(8, <<87, 69, 66, 80>>) <=> Has(12) /\ SignedWebp(file)
<1> DEFINE png == <<137, 80, 78, 71, 13, 10, 26, 10>>
           jpeg == <<255, 216, 255>>
           riff == <<82, 73, 70, 70>>
           webp == <<87, 69, 66, 80>>
<1>1. /\ Len(png) = 8 /\ DOMAIN png = 1..8
      /\ Len(jpeg) = 3 /\ DOMAIN jpeg = 1..3
      /\ Len(riff) = 4 /\ DOMAIN riff = 1..4
      /\ Len(webp) = 4 /\ DOMAIN webp = 1..4
  OBVIOUS
<1> HIDE DEF png, jpeg, riff, webp
<1>2. Reads(0, png) <=> Has(0 + 8) /\ Writes(file, 0, png)
  BY <1>1, ReadsWhatWasWritten
<1>3. Reads(0, jpeg) <=> Has(0 + 3) /\ Writes(file, 0, jpeg)
  BY <1>1, ReadsWhatWasWritten
<1>4. Reads(0, riff) <=> Has(0 + 4) /\ Writes(file, 0, riff)
  BY <1>1, ReadsWhatWasWritten
<1>5. Reads(8, webp) <=> Has(8 + 4) /\ Writes(file, 8, webp)
  BY <1>1, ReadsWhatWasWritten
<1>6. Has(0 + 8) <=> Has(8)
  OBVIOUS
<1>7. Has(0 + 3) <=> Has(3)
  OBVIOUS
<1>8. (Has(8 + 4) <=> Has(12)) /\ (Has(12) => Has(0 + 4))
  BY LenProperties DEF Cut, Has
<1> USE DEF png, jpeg, riff, webp
<1> QED
  BY <1>2, <1>3, <1>4, <1>5, <1>6, <1>7, <1>8 DEF SignedPng, SignedJpeg, SignedWebp

LEMMA FirstBytes ==
  ASSUME NEW f
  PROVE  /\ SignedPng(f) => f.bytes[1] = 137
         /\ SignedJpeg(f) => f.bytes[1] = 255
         /\ SignedWebp(f) => f.bytes[1] = 82
<1>1. SignedPng(f) => f.bytes[0 + 1] = <<137, 80, 78, 71, 13, 10, 26, 10>>[1]
  BY DEF SignedPng, Writes
<1>2. SignedJpeg(f) => f.bytes[0 + 1] = <<255, 216, 255>>[1]
  BY DEF SignedJpeg, Writes
<1>3. SignedWebp(f) => f.bytes[0 + 1] = <<82, 73, 70, 70>>[1]
  BY DEF SignedWebp, Writes
<1> QED
  BY <1>1, <1>2, <1>3

\* The format is told from a prefix long enough, and no other is.
LEMMA SniffsTheFormat ==
  ASSUME Cut, file \in Files, Described(file), Len(bytes) <= MaxBytes
  PROVE  SniffFormat = IF Len(bytes) < file.magic THEN "unknown" ELSE file.format
<1>1. Len(bytes) \in Nat /\ MaxBytes \in Nat /\ file.magic \in Nat
  BY LenProperties, HeaderAssumption DEF Cut
<1> DEFINE png == Has(8) /\ SignedPng(file)
           jpeg == Has(3) /\ SignedJpeg(file)
           webp == Has(12) /\ SignedWebp(file)
<1>2. SniffFormat = IF png THEN "png" ELSE IF jpeg THEN "jpeg" ELSE IF webp THEN "webp" ELSE "unknown"
  BY Signatures, Zenon DEF SniffFormat
<1>3. /\ ~(SignedPng(file) /\ SignedJpeg(file)) /\ ~(SignedPng(file) /\ SignedWebp(file))
      /\ ~(SignedJpeg(file) /\ SignedWebp(file))
  BY FirstBytes
<1>4. CASE Unsigned(file)
  <2>1. ~png /\ ~jpeg /\ ~webp /\ Len(bytes) < file.magic
    BY <1>1, <1>4 DEF Unsigned
  <2> QED
    BY <1>2, <2>1
<1>5. CASE Png(file)
  BY <1>1, <1>2, <1>3, <1>5 DEF Png, Has
<1>6. CASE Webp(file)
  BY <1>1, <1>2, <1>3, <1>6 DEF Webp, Has
<1>7. CASE Jpeg(file)
  BY <1>1, <1>2, <1>3, <1>7 DEF Jpeg, Has
<1> QED
  BY <1>4, <1>5, <1>6, <1>7 DEF Described

-----------------------------------------------------------------------------
\* Numbers read back as they were written.

LEMMA HighLowReads == \A n \in Nat : (n \div 256) * 256 + (n % 256) = n
BY SMT

LEMMA BigEndianReads ==
  \A n \in Nat : ((n \div 16777216) * 256 + ((n \div 65536) % 256)) * 65536
                   + (((n \div 256) % 256) * 256 + (n % 256)) = n
BY SMT

LEMMA LittleEndianReads ==
  \A n \in Nat : (n % 256) + ((n \div 256) % 256) * 256 + (n \div 65536) * 65536 = n
BY SMT

LEMMA WordsReadBack ==
  ASSUME Cut, NEW i \in Nat, NEW n \in Nat, Writes(file, i, HighLow(n)), i + 2 <= Len(bytes)
  PROVE  U16(i) = n
<1>1. file.bytes[i + 1] = n \div 256 /\ file.bytes[i + 2] = n % 256
  BY DEF Writes, HighLow
<1>2. Len(bytes) \in Nat
  BY LenProperties DEF Cut
<1>3. At(i) = n \div 256
  BY <1>1, <1>2, ByteThere
<1>4. At(i + 1) = n % 256
  <2> DEFINE j == i + 1
  <2>1. j \in Nat /\ j + 1 <= Len(bytes) /\ j + 1 = i + 2
    BY <1>2
  <2> HIDE DEF j
  <2>2. At(j) = file.bytes[j + 1]
    BY <2>1, ByteThere
  <2> QED
    BY <1>1, <2>1, <2>2 DEF j
<1> QED
  BY <1>3, <1>4, HighLowReads DEF U16

LEMMA LongsReadBack ==
  ASSUME Cut, NEW i \in Nat, NEW n \in Nat, Writes(file, i, BigEndian(n)), i + 4 <= Len(bytes)
  PROVE  U32(i) = n
<1> DEFINE a == n \div 16777216
           b == (n \div 65536) % 256
           c == (n \div 256) % 256
           d == n % 256
<1>1. BigEndian(n) = <<a, b, c, d>>
  BY DEF BigEndian
<1>2. (a * 256 + b) * 65536 + (c * 256 + d) = n
  BY BigEndianReads
<1> HIDE DEF a, b, c, d
<1>3. /\ file.bytes[i + 1] = a /\ file.bytes[i + 2] = b
      /\ file.bytes[i + 3] = c /\ file.bytes[i + 4] = d
  <2> DEFINE values == <<a, b, c, d>>
  <2>1. values[1] = a /\ values[2] = b /\ values[3] = c /\ values[4] = d /\ DOMAIN values = 1..4
    OBVIOUS
  <2> HIDE DEF values
  <2>2. \A j \in 1..4 : file.bytes[i + j] = values[j]
    BY <1>1, <2>1 DEF Writes, values
  <2> QED
    BY <2>1, <2>2
<1>4. Len(bytes) \in Nat
  BY LenProperties DEF Cut
<1>5. \A k \in 0..3 : bytes[i + k + 1] = file.bytes[i + k + 1]
  BY <1>4 DEF Cut
<1>6. bytes[i + 1] = a /\ bytes[i + 1 + 1] = b /\ bytes[i + 2 + 1] = c /\ bytes[i + 2 + 1 + 1] = d
  BY <1>3, <1>5
<1> QED
  BY <1>2, <1>6 DEF U32, U16, At

-----------------------------------------------------------------------------
LEMMA PngSized ==
  ASSUME Cut, Png(file), file.width \in Nat, file.height \in Nat
  PROVE  PngDimensions = Size
<1>0. Len(bytes) \in Nat /\ Len(file.bytes) \in Nat /\ Len(bytes) <= Len(file.bytes)
  BY LenProperties DEF Cut
<1>1. Reads(12, <<73, 72, 68, 82>>) <=> Has(16) /\ Headed(file)
  <2> DEFINE header == <<73, 72, 68, 82>>
  <2>1. Len(header) = 4 /\ DOMAIN header = 1..4
    OBVIOUS
  <2> HIDE DEF header
  <2>2. Reads(12, header) <=> Has(12 + 4) /\ Writes(file, 12, header)
    BY <2>1, ReadsWhatWasWritten
  <2>3. Has(12 + 4) <=> Has(16)
    OBVIOUS
  <2> QED
    BY <2>2, <2>3 DEF Headed, header
<1>2. CASE ~Has(24)
  <2>1. PngDimensions = Rejected("malformed-header")
    BY <1>2 DEF PngDimensions
  <2>2. Len(bytes) < file.needs \/ file.width = 0
    BY <1>0, <1>2 DEF Png, Has, Sizeless
  <2> QED
    BY <2>1, <2>2 DEF Size
<1>3. CASE Has(24) /\ ~Headed(file)
  <2>1. PngDimensions = Rejected("malformed-header")
    BY <1>1, <1>3 DEF PngDimensions
  <2>2. file.width = 0
    BY <1>3 DEF Png, Sizeless
  <2> QED
    BY <2>1, <2>2 DEF Size
<1>4. CASE Has(24) /\ Headed(file)
  <2>1. Len(bytes) >= 24 /\ file.needs = 24
    BY <1>0, <1>4 DEF Png, Has
  <2>2. Writes(file, 16, BigEndian(file.width)) /\ Writes(file, 20, BigEndian(file.height))
    BY <1>0, <1>4, <2>1 DEF Png
  <2>3. U32(16) = file.width /\ U32(20) = file.height
    BY <2>1, <2>2, LongsReadBack
  <2>4. PngDimensions = NonZero(Found(file.width, file.height))
    BY <1>1, <1>4, <2>1, <2>3 DEF PngDimensions, Has
  <2>5. Found(file.width, file.height).width = file.width /\ Found(file.width, file.height).height = file.height
    BY DEF Found
  <2> QED
    BY <2>1, <2>4, <2>5 DEF Size, NonZero
<1> QED
  BY <1>2, <1>3, <1>4

-----------------------------------------------------------------------------
LEMMA ChunksAreTold ==
  ASSUME Cut
  PROVE  /\ Reads(12, <<86, 80, 56, 32>>) <=> Has(16) /\ Chunk(file, 32)
         /\ Reads(12, <<86, 80, 56, 76>>) <=> Has(16) /\ Chunk(file, 76)
         /\ Reads(12, <<86, 80, 56, 88>>) <=> Has(16) /\ Chunk(file, 88)
<1>1. ASSUME NEW last
      PROVE  Reads(12, <<86, 80, 56, last>>) <=> Has(16) /\ Chunk(file, last)
  <2> DEFINE values == <<86, 80, 56, last>>
  <2>1. Len(values) = 4 /\ DOMAIN values = 1..4
    OBVIOUS
  <2> HIDE DEF values
  <2>2. Reads(12, values) <=> Has(12 + 4) /\ Writes(file, 12, values)
    BY <2>1, ReadsWhatWasWritten
  <2>3. Has(12 + 4) <=> Has(16)
    OBVIOUS
  <2> QED
    BY <2>2, <2>3 DEF Chunk, values
<1> QED
  BY <1>1

LEMMA OneChunk ==
  ASSUME NEW f, NEW last, Chunk(f, last)
  PROVE  f.bytes[16] = last
<1>1. f.bytes[12 + 4] = last
  BY DEF Chunk, Writes
<1> QED
  BY <1>1

LEMMA FoundSize == \A w, h : Found(w, h).width = w /\ Found(w, h).height = h
BY DEF Found

LEMMA ScaledReadsBack ==
  ASSUME Cut, NEW i \in Nat, NEW n \in Nat, n < 16384, NEW scale \in Nat,
         Writes(file, i, Scaled(n, scale)), i + 2 <= Len(bytes)
  PROVE  U14LE(i) = n
<1> DEFINE a == n % 256
           b == (n \div 256) + 64 * scale
<1>1. (a + b * 256) % 16384 = n
  BY SMT
<1>2. Scaled(n, scale) = <<a, b>>
  BY DEF Scaled
<1> HIDE DEF a, b
<1>3. file.bytes[i + 1] = a /\ file.bytes[i + 2] = b
  BY <1>2 DEF Writes
<1>4. bytes[i + 1] = a /\ bytes[i + 1 + 1] = b
  BY <1>3, LenProperties DEF Cut
<1> QED
  BY <1>1, <1>4 DEF U14LE, At

LEMMA Vp8Sized ==
  ASSUME Cut, Vp8(file), file.width \in Nat, file.height \in Nat
  PROVE  WebpDimensions = Size
<1> DEFINE w == file.width
           h == file.height
<1>0. Len(bytes) \in Nat
  BY LenProperties DEF Cut
<1>01. Chunk(file, 32) /\ file.needs = 30
  BY DEF Vp8
<1>1. Chunk(file, 32) /\ ~Chunk(file, 76) /\ ~Chunk(file, 88) /\ file.needs = 30
  BY <1>01, OneChunk
<1>2. CASE ~Has(30)
  <2>1. WebpDimensions = Rejected("malformed-header")
    BY <1>1, <1>2, ChunksAreTold DEF WebpDimensions
  <2> QED
    BY <1>0, <1>1, <1>2, <2>1 DEF Size, Has
<1>3. CASE Has(30)
  <2>1. PICK scale \in 0..3 : Writes(file, 26, Scaled(w, scale))
    BY DEF Vp8
  <2>2. PICK other \in 0..3 : Writes(file, 28, Scaled(h, other))
    BY DEF Vp8
  <2>3. w \in Nat /\ h \in Nat /\ w < 16384 /\ h < 16384 /\ scale \in Nat /\ other \in Nat
    BY DEF Vp8
  <2>4. 26 + 2 <= Len(bytes) /\ 28 + 2 <= Len(bytes) /\ Has(16)
    BY <1>0, <1>3 DEF Has
  <2> HIDE DEF w, h
  <2>5. U14LE(26) = w
    BY <2>1, <2>3, <2>4, ScaledReadsBack
  <2>6. U14LE(28) = h
    BY <2>2, <2>3, <2>4, ScaledReadsBack
  <2>7. WebpDimensions = NonZero(Found(w, h))
    BY <1>1, <1>3, <2>4, <2>5, <2>6, ChunksAreTold DEF WebpDimensions
  <2> QED
    BY <1>0, <1>1, <1>3, <2>7, FoundSize DEF Size, NonZero, Has, w, h
<1> QED
  BY <1>2, <1>3

LEMMA RemainderOfSum ==
  ASSUME NEW n \in Nat, n < 16384, NEW above \in Nat
  PROVE  (n + 16384 * above) % 16384 = n
BY SMT

LEMMA PackedReadsBack ==
  ASSUME Cut, NEW w \in Nat, NEW h \in Nat, w < 16384, h < 16384, NEW above \in Nat,
         Writes(file, 20, Packed(w, h, above)), 25 <= Len(bytes)
  PROVE  /\ At(20) = 47
         /\ U14LE(21) = w
         /\ U14Next(22) = h
<1> DEFINE a == w % 256
           b == (w \div 256) + 64 * (h % 4)
           c == (h \div 4) % 256
           d == (h \div 1024) + 16 * above
           values == <<47, a, b, c, d>>
<1>1. (a + b * 256) % 16384 = w
  <2> SUFFICES ASSUME NEW scale \in Nat
               PROVE  ((w % 256) + ((w \div 256) + 64 * scale) * 256) % 16384 = w
    <3>1. h % 4 \in Nat
      BY SMT
    <3> QED
      BY <3>1
  <2> QED
    BY SMT
<1>2. ((b \div 64) + c * 4 + d * 1024) % 16384 = h
  <2>1. b \div 64 = h % 4
    BY SMT
  <2>2. (h % 4) + c * 4 + d * 1024 = h + 16384 * above
    BY SMT
  <2> HIDE DEF b, c, d
  <2>3. (b \div 64) + c * 4 + d * 1024 = h + 16384 * above
    BY <2>1, <2>2
  <2> QED
    BY <2>3, RemainderOfSum
<1>3. Packed(w, h, above) = values
  BY DEF Packed
<1> HIDE DEF a, b, c, d
<1>4. /\ DOMAIN values = 1..5
      /\ values[1] = 47 /\ values[2] = a /\ values[3] = b /\ values[4] = c /\ values[5] = d
  OBVIOUS
<1> HIDE DEF values
<1>5. \A j \in 1..5 : file.bytes[20 + j] = values[j]
  BY <1>3, <1>4, SMTT(20) DEF Writes
<1>6. \A j \in 1..5 : bytes[20 + j] = file.bytes[20 + j]
  BY LenProperties DEF Cut
<1>7. /\ bytes[20 + 1] = 47 /\ bytes[21 + 1] = a /\ bytes[22 + 1] = b
      /\ bytes[23 + 1] = c /\ bytes[24 + 1] = d
  BY <1>4, <1>5, <1>6
<1>8. At(20) = 47 /\ At(21) = a /\ At(22) = b /\ At(23) = c /\ At(24) = d
  BY <1>7 DEF At
<1>9. U14LE(21) = (At(21) + At(22) * 256) % 16384
  BY DEF U14LE
<1>10. U14Next(22) = ((At(22) \div 64) + At(23) * 4 + At(24) * 1024) % 16384
  BY DEF U14Next
<1> QED
  BY <1>1, <1>2, <1>8, <1>9, <1>10

LEMMA Vp8LSized ==
  ASSUME Cut, Vp8L(file), file.width \in Nat, file.height \in Nat
  PROVE  WebpDimensions = Size
<1> DEFINE w == file.width - 1
           h == file.height - 1
<1>0. Len(bytes) \in Nat
  BY LenProperties DEF Cut
<1>1. Chunk(file, 76) /\ ~Chunk(file, 32) /\ ~Chunk(file, 88) /\ file.needs = 25
  BY OneChunk DEF Vp8L
<1>2. CASE ~Has(25)
  <2>1. WebpDimensions = Rejected("malformed-header")
    BY <1>1, <1>2, ChunksAreTold DEF WebpDimensions
  <2> QED
    BY <1>0, <1>1, <1>2, <2>1 DEF Size, Has
<1>3. CASE Has(25)
  <2>1. PICK above \in 0..15 : Writes(file, 20, Packed(w, h, above))
    BY DEF Vp8L
  <2>2. w \in Nat /\ h \in Nat /\ w < 16384 /\ h < 16384 /\ above \in Nat
    BY DEF Vp8L
  <2>3. w + 1 = file.width /\ h + 1 = file.height
    OBVIOUS
  <2>4. 25 <= Len(bytes) /\ Has(16)
    BY <1>0, <1>3 DEF Has
  <2> HIDE DEF w, h
  <2>5. /\ At(20) = 47
        /\ U14LE(21) = w
        /\ U14Next(22) = h
    BY <2>1, <2>2, <2>4, PackedReadsBack
  <2>6. WebpDimensions = Found(w + 1, h + 1)
    BY <1>1, <1>3, <2>4, <2>5, ChunksAreTold DEF WebpDimensions
  <2> QED
    BY <1>0, <1>1, <1>3, <2>2, <2>3, <2>6 DEF Size, Has
<1> QED
  BY <1>2, <1>3

LEMMA LittleReadsBack ==
  ASSUME Cut, NEW i \in Nat, NEW n \in Nat, Writes(file, i, LittleEndian(n)), i + 3 <= Len(bytes)
  PROVE  U24LE(i) = n
<1> DEFINE a == n % 256
           b == (n \div 256) % 256
           c == n \div 65536
<1>1. a + b * 256 + c * 65536 = n
  BY LittleEndianReads
<1>2. LittleEndian(n) = <<a, b, c>>
  BY DEF LittleEndian
<1> HIDE DEF a, b, c
<1>3. file.bytes[i + 1] = a /\ file.bytes[i + 2] = b /\ file.bytes[i + 3] = c
  BY <1>2 DEF Writes
<1>4. bytes[i + 1] = a /\ bytes[i + 1 + 1] = b /\ bytes[i + 2 + 1] = c
  BY <1>3, LenProperties DEF Cut
<1> QED
  BY <1>1, <1>4 DEF U24LE, At

LEMMA Vp8XSized ==
  ASSUME Cut, Vp8X(file), file.width \in Nat, file.height \in Nat
  PROVE  WebpDimensions = Size
<1>0. Len(bytes) \in Nat
  BY LenProperties DEF Cut
<1>1. Chunk(file, 88) /\ ~Chunk(file, 32) /\ ~Chunk(file, 76) /\ file.needs = 30
  BY OneChunk DEF Vp8X
<1>2. CASE ~Has(30)
  <2>1. WebpDimensions = Rejected("malformed-header")
    BY <1>1, <1>2, ChunksAreTold DEF WebpDimensions
  <2> QED
    BY <1>0, <1>1, <1>2, <2>1 DEF Size, Has
<1>3. CASE Has(30)
  <2> DEFINE w == file.width - 1
             h == file.height - 1
  <2>1. /\ w \in Nat /\ h \in Nat /\ w + 1 = file.width /\ h + 1 = file.height
        /\ Writes(file, 24, LittleEndian(w)) /\ Writes(file, 27, LittleEndian(h))
    BY DEF Vp8X
  <2> HIDE DEF w, h
  <2>2. 24 + 3 <= Len(bytes) /\ 27 + 3 <= Len(bytes) /\ Has(16)
    BY <1>0, <1>3 DEF Has
  <2>3. U24LE(24) = w /\ U24LE(27) = h
    BY <2>1, <2>2, LittleReadsBack
  <2>4. WebpDimensions = Found(w + 1, h + 1)
    BY <1>1, <1>3, <2>2, <2>3, ChunksAreTold DEF WebpDimensions
  <2> QED
    BY <1>0, <1>1, <1>3, <2>1, <2>4 DEF Size, Has
<1> QED
  BY <1>2, <1>3

LEMMA NoSizeFound ==
  ASSUME Cut, NoSize(file)
  PROVE  WebpDimensions = Size
<1>0. Len(bytes) \in Nat /\ Len(file.bytes) \in Nat /\ Len(bytes) <= Len(file.bytes)
  BY LenProperties DEF Cut
<1>1. Chunk(file, 32) => ~Has(30)
  BY <1>0 DEF NoSize, Has
<1>2. Chunk(file, 88) => ~Has(30)
  BY <1>0 DEF NoSize, Has
<1>3. Chunk(file, 76) => ~(Has(25) /\ At(20) = 47)
  <2> SUFFICES ASSUME Chunk(file, 76), Has(25) PROVE At(20) # 47
    OBVIOUS
  <2>1. At(20) = file.bytes[20 + 1]
    BY <1>0, ByteThere DEF Has
  <2>2. Len(bytes) >= 25
    BY DEF Has
  <2> QED
    BY <1>0, <2>1, <2>2 DEF NoSize
<1>4. WebpDimensions = Rejected("malformed-header")
  BY <1>1, <1>2, <1>3, ChunksAreTold DEF WebpDimensions
<1> QED
  BY <1>4 DEF Size, NoSize, Sizeless

LEMMA WebpSized ==
  ASSUME Cut, Webp(file), file.width \in Nat, file.height \in Nat
  PROVE  WebpDimensions = Size
BY Vp8Sized, Vp8LSized, Vp8XSized, NoSizeFound DEF Webp

-----------------------------------------------------------------------------
\* One turn of the walk, from where a segment is said to begin.

LEMMA MarkersAreRead ==
  ASSUME Cut, NEW o \in Nat, Has(o + 2)
  PROVE  /\ At(o) = file.bytes[o + 1] /\ At(o + 1) = file.bytes[o + 2]
         /\ \A markers : Marker(file, o, markers) <=> At(o) = 255 /\ At(o + 1) \in markers
<1>0. Len(bytes) \in Nat /\ Len(file.bytes) \in Nat /\ o + 2 <= Len(bytes) /\ Len(bytes) <= Len(file.bytes)
  BY LenProperties DEF Cut, Has
<1>1. At(o) = file.bytes[o + 1]
  BY <1>0, ByteThere
<1>2. At(o + 1) = file.bytes[o + 2]
  <2>1. bytes[o + 2] = file.bytes[o + 2]
    BY <1>0 DEF Cut
  <2> QED
    BY <2>1 DEF At
<1>3. ASSUME NEW marker
      PROVE  Writes(file, o, <<255, marker>>) <=> file.bytes[o + 1] = 255 /\ file.bytes[o + 2] = marker
  <2> DEFINE values == <<255, marker>>
  <2>1. Len(values) = 2 /\ DOMAIN values = 1..2 /\ values[1] = 255 /\ values[2] = marker
    OBVIOUS
  <2> HIDE DEF values
  <2>2. Writes(file, o, values) <=> file.bytes[o + 1] = 255 /\ file.bytes[o + 2] = marker
    BY <1>0, <2>1 DEF Writes
  <2> QED
    BY <2>2 DEF values
<1>4. ASSUME NEW markers
      PROVE  Marker(file, o, markers) <=> file.bytes[o + 1] = 255 /\ file.bytes[o + 2] \in markers
  <2>1. ASSUME Marker(file, o, markers)
        PROVE  file.bytes[o + 1] = 255 /\ file.bytes[o + 2] \in markers
    <3>1. PICK marker \in markers : Writes(file, o, <<255, marker>>)
      BY <2>1 DEF Marker
    <3> QED
      BY <3>1, <1>3
  <2>2. ASSUME file.bytes[o + 1] = 255, file.bytes[o + 2] \in markers
        PROVE  Marker(file, o, markers)
    <3> DEFINE marker == file.bytes[o + 2]
    <3>1. Writes(file, o, <<255, marker>>)
      BY <2>2, <1>3
    <3> QED
      BY <2>2, <3>1 DEF Marker
  <2> QED
    BY <2>1, <2>2
<1> QED
  BY <1>1, <1>2, <1>4, Zenon

LEMMA LengthsAreRead ==
  ASSUME Cut, NEW o \in Nat, Has(o + 4)
  PROVE  /\ U16(o + 2) \in Nat
         /\ \A n \in Nat : Length(file, o, n) => U16(o + 2) = n
         /\ U16(o + 2) < 2 => TooShort(file, o)
<1>0. Len(bytes) \in Nat /\ Len(file.bytes) \in Nat /\ o + 4 <= Len(bytes) /\ Len(bytes) <= Len(file.bytes)
  BY LenProperties DEF Cut, Has
<1> DEFINE i == o + 2
           a == file.bytes[i + 1]
           b == file.bytes[i + 2]
<1>1. i \in Nat /\ i + 2 <= Len(bytes) /\ i + 1 <= Len(bytes)
  BY <1>0
<1> HIDE DEF i
<1>2. At(i) = a /\ a \in 0..255
  BY <1>0, <1>1, ByteThere
<1>3. At(i + 1) = b /\ b \in 0..255
  <2> DEFINE j == i + 1
  <2>1. j \in Nat /\ j + 1 <= Len(bytes) /\ j + 1 = i + 2
    BY <1>0, <1>1
  <2> HIDE DEF j
  <2>2. At(j) = file.bytes[j + 1] /\ file.bytes[j + 1] \in 0..255
    BY <2>1, ByteThere
  <2> QED
    BY <2>1, <2>2 DEF j
<1> HIDE DEF a, b
<1>4. U16(i) = a * 256 + b /\ a \in Nat /\ b \in Nat
  BY <1>2, <1>3 DEF U16
<1>5. \A n \in Nat : Writes(file, i, HighLow(n)) => U16(i) = n
  BY <1>1, WordsReadBack
<1>6. ASSUME U16(i) < 2 PROVE Writes(file, i, HighLow(0)) \/ Writes(file, i, HighLow(1))
  <2>1. a = 0 /\ b \in {0, 1}
    BY <1>4, <1>6
  <2> DEFINE values == <<0, b>>
  <2>2. Len(values) = 2 /\ DOMAIN values = 1..2 /\ values[1] = 0 /\ values[2] = b
    OBVIOUS
  <2>3. HighLow(0) = <<0, 0>> /\ HighLow(1) = <<0, 1>>
    BY SMT DEF HighLow
  <2> HIDE DEF values
  <2>4. Len(file.bytes) >= i + 2
    BY <1>0, <1>1
  <2>5. Writes(file, i, values)
    <3>1. file.bytes[i + 1] = values[1] /\ file.bytes[i + 2] = values[2]
      BY <2>1, <2>2 DEF a, b
    <3> QED
      BY <2>2, <2>4, <3>1 DEF Writes
  <2>6. values = HighLow(0) \/ values = HighLow(1)
    BY <2>1, <2>3 DEF values
  <2> QED
    BY <2>5, <2>6
<1> QED
  BY <1>4, <1>5, <1>6 DEF Length, TooShort, i

LEMMA TheSizeIsJudged ==
  ASSUME file \in Files, file.width \in Nat, file.height \in Nat, Len(bytes) \in Nat,
         Len(bytes) <= MaxBytes, Len(bytes) >= file.magic, declared \in {Undeclared, file.format}
  PROVE  Judged(Size) = Expected
<1>1. MaxWidth \in Nat /\ MaxHeight \in Nat /\ file.magic \in Nat /\ file.needs \in Nat /\ MaxBytes \in Nat
  BY HeaderAssumption
<1> DEFINE none == Len(bytes) < file.needs \/ file.width = 0 \/ file.height = 0
<1>2. CASE none
  <2>1. Size = Rejected("malformed-header") /\ Expected = Rejected("malformed-header")
    BY <1>1, <1>2 DEF Size, Expected
  <2>2. Rejected("malformed-header").width = 0 /\ Rejected("malformed-header").height = 0
    BY DEF Rejected
  <2> QED
    BY <1>1, <2>1, <2>2 DEF Judged
<1>3. CASE ~none
  <2>1. Size = Found(file.width, file.height)
    BY <1>3 DEF Size
  <2> QED
    BY <1>1, <1>3, <2>1, FoundSize DEF Judged, Expected
<1> QED
  BY <1>2, <1>3

-----------------------------------------------------------------------------
(* What the induction carries besides the verdict: a walk still going on   *)
(* stands where the file has a segment begin.                              *)
VInv ==
  /\ file \in Files /\ Cut
  /\ step \in {"new", "walking", "over"}
  /\ step = "walking" => /\ Jpeg(file) /\ off \in file.path
                         /\ 3 <= Len(bytes) /\ Len(bytes) <= MaxBytes
                         /\ declared \in {Undeclared, "jpeg"}
  /\ step = "over" => verdict = Expected

LEMMA VInitOK == Init => VInv
<1> SUFFICES ASSUME Init PROVE VInv
  OBVIOUS
<1>1. file.bytes \in Seq(0..255) /\ Len(file.bytes) \in Nat
  BY HeaderAssumption, LenProperties DEF Init
<1>2. PICK cut \in 0..Len(file.bytes) : bytes = SubSeq(file.bytes, 1, cut)
  BY DEF Init
<1>3. \A i \in 1..cut : i \in 1..Len(file.bytes)
  BY <1>1
<1>4. bytes \in Seq(0..255) /\ Len(bytes) = cut /\ \A i \in 1..cut : bytes[i] = file.bytes[1 + i - 1]
  BY <1>1, <1>2, <1>3, SubSeqProperties, ElementOfSeq
<1>5. \A i \in 1..cut : bytes[i] = file.bytes[i]
  BY <1>4
<1> QED
  BY <1>1, <1>4, <1>5 DEF VInv, Cut, Init

LEMMA VValidateKeeps ==
  ASSUME AllDescribed, VInv, Validate
  PROVE  VInv'
<1>0. /\ file' = file /\ bytes' = bytes /\ declared' = declared /\ step = "new"
      /\ file \in Files /\ Cut
  BY DEF VInv, Validate
<1>1. Described(file) /\ file.width \in Nat /\ file.height \in Nat
  BY <1>0 DEF AllDescribed, Described
<1>2. Len(bytes) \in Nat /\ MaxBytes \in Nat /\ file.magic \in Nat /\ file.format \in Formats
  BY <1>0, LenProperties, HeaderAssumption DEF Cut
<1>3. Cut' /\ Expected' = Expected
  BY <1>0 DEF Cut, Expected
<1>4. ASSUME Over(Expected) PROVE VInv'
  BY <1>0, <1>3, <1>4 DEF Over, VInv
<1>5. CASE Len(bytes) > MaxBytes
  <2>1. Over(Rejected("too-large"))
    BY <1>5 DEF Validate
  <2>2. Expected = Rejected("too-large")
    BY <1>5 DEF Expected
  <2> QED
    BY <1>4, <2>1, <2>2
<1>6. CASE ~(Len(bytes) > MaxBytes)
  <2>0. Len(bytes) <= MaxBytes
    BY <1>2, <1>6
  <2>1. SniffFormat = IF Len(bytes) < file.magic THEN "unknown" ELSE file.format
    BY <1>0, <1>1, <2>0, SniffsTheFormat
  <2>2. CASE Len(bytes) < file.magic
    <3>1. Over(Rejected("unrecognised-format"))
      BY <1>6, <2>1, <2>2 DEF Validate
    <3>2. Expected = Rejected("unrecognised-format")
      BY <1>6, <2>2 DEF Expected
    <3> QED
      BY <1>4, <3>1, <3>2
  <2>3. CASE ~(Len(bytes) < file.magic) /\ declared \notin {Undeclared, file.format}
    <3>0. file.format # "unknown"
      BY <1>2 DEF Formats
    <3>1. Over(Rejected("mime-mismatch"))
      BY <1>6, <2>1, <2>3, <3>0 DEF Validate
    <3>2. Expected = Rejected("mime-mismatch")
      BY <1>6, <2>3 DEF Expected
    <3> QED
      BY <1>4, <3>1, <3>2
  <2>4. CASE ~(Len(bytes) < file.magic) /\ declared \in {Undeclared, file.format}
    <3>0. SniffFormat = file.format /\ file.format # "unknown" /\ Len(bytes) >= file.magic
      BY <1>2, <2>1, <2>4 DEF Formats
    <3>1. Judged(Size) = Expected
      BY <1>0, <1>1, <1>2, <2>0, <2>4, <3>0, TheSizeIsJudged
    <3>2. CASE Png(file)
      <4>1. Over(Judged(PngDimensions))
        BY <1>6, <2>4, <3>0, <3>2 DEF Validate, Png
      <4>2. PngDimensions = Size
        BY <1>0, <1>1, <3>2, PngSized
      <4> QED
        BY <1>4, <3>1, <4>1, <4>2
    <3>3. CASE Webp(file)
      <4>1. Over(Judged(WebpDimensions))
        BY <1>6, <2>4, <3>0, <3>3 DEF Validate, Webp
      <4>2. WebpDimensions = Size
        BY <1>0, <1>1, <3>3, WebpSized
      <4> QED
        BY <1>4, <3>1, <4>1, <4>2
    <3>4. CASE Jpeg(file)
      <4>1. file.format = "jpeg" /\ file.magic = 3 /\ 2 \in file.path
        BY <3>4 DEF Jpeg
      <4>2. step' = "walking" /\ off' = 2
        BY <1>6, <2>4, <3>0, <4>1 DEF Validate
      <4>3. Jpeg(file)'
        BY <1>0, <3>4
      <4> QED
        BY <1>0, <1>2, <1>3, <2>0, <2>4, <3>0, <4>1, <4>2, <4>3 DEF VInv
    <3>5. CASE Unsigned(file)
      BY <1>2, <2>0, <2>4, <3>5 DEF Unsigned
    <3> QED
      BY <1>1, <3>2, <3>3, <3>4, <3>5 DEF Described
  <2> QED
    BY <2>2, <2>3, <2>4
<1> QED
  BY <1>5, <1>6

LEMMA VWalkKeeps ==
  ASSUME AllDescribed, VInv, Walk
  PROVE  VInv'
<1> DEFINE marker == At(off + 1)
           malformed == Rejected("malformed-header")
<1>0. /\ file' = file /\ bytes' = bytes /\ declared' = declared /\ step = "walking"
      /\ file \in Files /\ Cut /\ Jpeg(file) /\ off \in file.path
      /\ 3 <= Len(bytes) /\ Len(bytes) <= MaxBytes /\ declared \in {Undeclared, "jpeg"}
  BY DEF VInv, Walk
<1>1. file.width \in Nat /\ file.height \in Nat
  BY <1>0 DEF AllDescribed, Described
<1>2. off \in Nat /\ Len(bytes) \in Nat /\ Len(file.bytes) \in Nat /\ Len(bytes) <= Len(file.bytes)
      /\ file.needs \in Nat
  BY <1>0, LenProperties, HeaderAssumption DEF Cut, Jpeg
<1>3. Cut' /\ Expected' = Expected /\ Jpeg(file)'
  BY <1>0 DEF Cut, Expected
<1>4. ASSUME Over(Judged(Size)) PROVE VInv'
  <2>1. file.magic = 3 /\ file.format = "jpeg"
    BY <1>0 DEF Jpeg
  <2>2. Judged(Size) = Expected
    BY <1>0, <1>1, <1>2, <2>1, TheSizeIsJudged
  <2> QED
    BY <1>0, <1>3, <1>4, <2>2 DEF Over, VInv
<1>5. ASSUME NEW next \in file.path, step' = "walking", off' = next PROVE VInv'
  BY <1>0, <1>3, <1>5 DEF VInv
<1>6. ASSUME Over(malformed), Sizeless(file) \/ Len(bytes) < off + 9 PROVE VInv'
  <2>1. Sizeless(file) \/ off + 9 <= file.needs
    BY <1>0 DEF Jpeg
  <2>2. Size = malformed
    BY <1>2, <1>6, <2>1 DEF Size, Sizeless
  <2>3. MaxWidth \in Nat /\ MaxHeight \in Nat /\ malformed.width = 0 /\ malformed.height = 0
    BY HeaderAssumption DEF Rejected
  <2>4. Judged(malformed) = malformed
    BY <2>3 DEF Judged
  <2> QED
    BY <1>4, <1>6, <2>2, <2>4
<1>7. CASE ~Has(off + 2)
  <2>1. Over(malformed)
    BY <1>7 DEF Walk
  <2>2. Len(bytes) < off + 9
    BY <1>2, <1>7 DEF Has
  <2> QED
    BY <1>6, <2>1, <2>2
<1>8. CASE Has(off + 2)
  <2>1. At(off) = file.bytes[off + 1] /\ marker = file.bytes[off + 2]
    BY <1>0, <1>2, <1>8, MarkersAreRead
  <2>2. \A markers : Marker(file, off, markers) <=> At(off) = 255 /\ marker \in markers
    BY <1>0, <1>2, <1>8, MarkersAreRead
  <2>3. CASE Sizeless(file) /\ (At(off) # 255 \/ (marker \notin Standalone /\ (~Has(off + 4) \/ U16(off + 2) < 2)))
    <3>1. Over(malformed)
      BY <1>8, <2>3 DEF Walk
    <3> QED
      BY <1>6, <2>3, <3>1
  <2>4. CASE ~Has(off + 4) /\ At(off) = 255 /\ marker \notin Standalone
    <3>1. Over(malformed)
      BY <1>8, <2>4 DEF Walk
    <3>2. Len(bytes) < off + 9
      BY <1>2, <2>4 DEF Has
    <3> QED
      BY <1>6, <3>1, <3>2
  <2>5. ASSUME NEW next \in file.path, Leads(file, off, next) PROVE VInv'
    <3>1. CASE Marker(file, off, Standalone) /\ next = off + 2
      <4>1. At(off) = 255 /\ marker \in Standalone
        BY <2>2, <3>1
      <4>2. off' = PastStandalone /\ step' = step
        BY <1>8, <4>1 DEF Walk
      <4> QED
        BY <1>0, <1>5, <3>1, <4>2 DEF PastStandalone
    <3>2. CASE /\ Marker(file, off, (0..255) \ (Standalone \cup FrameMarkers))
               /\ next >= off + 4 /\ Length(file, off, next - (off + 2))
      <4>1. At(off) = 255 /\ marker \notin Standalone /\ marker \notin FrameMarkers
        BY <2>2, <3>2
      <4>2. CASE Has(off + 4)
        <5> DEFINE n == next - (off + 2)
        <5>1. next \in Nat /\ n \in Nat /\ n >= 2 /\ off + 2 + n = next
          BY <1>0, <1>2, <3>2 DEF Jpeg
        <5> HIDE DEF n
        <5>2. U16(off + 2) = n
          BY <1>0, <1>2, <3>2, <4>2, <5>1, LengthsAreRead DEF n
        <5>3. ~(U16(off + 2) < 2)
          BY <5>1, <5>2
        <5>4. off' = PastSegment /\ step' = step
          BY <1>8, <4>1, <4>2, <5>3 DEF Walk
        <5>5. off' = next
          BY <5>1, <5>2, <5>4 DEF PastSegment
        <5> QED
          BY <1>0, <1>5, <5>4, <5>5
      <4>3. CASE ~Has(off + 4)
        BY <2>4, <4>1, <4>3
      <4> QED
        BY <4>2, <4>3
    <3> QED
      BY <2>5, <3>1, <3>2 DEF Leads
  <2>6. ASSUME Frame(file, off) PROVE VInv'
    <3>1. At(off) = 255 /\ marker \in FrameMarkers /\ marker \notin Standalone
      <4>1. At(off) = 255 /\ marker \in FrameMarkers
        BY <2>2, <2>6 DEF Frame
      <4> QED
        BY <4>1 DEF FrameMarkers, Standalone
    <3>2. CASE Has(off + 4)
      <4>1. ~(U16(off + 2) < 2)
        BY <1>0, <1>2, <2>6, <3>2, LengthsAreRead DEF Frame
      <4>2. CASE ~Has(off + 9)
        <5>1. Over(malformed)
          BY <1>8, <3>1, <3>2, <4>1, <4>2 DEF Walk
        <5>2. Len(bytes) < off + 9
          BY <1>2, <4>2 DEF Has
        <5> QED
          BY <1>6, <5>1, <5>2
      <4>3. CASE Has(off + 9)
        <5> DEFINE i == off + 7
                   j == off + 5
        <5>1. /\ i \in Nat /\ j \in Nat /\ i + 2 <= Len(bytes) /\ j + 2 <= Len(bytes)
              /\ Writes(file, j, HighLow(file.height)) /\ Writes(file, i, HighLow(file.width))
          BY <1>2, <2>6, <4>3 DEF Frame, Has
        <5> HIDE DEF i, j
        <5>2. U16(i) = file.width /\ U16(j) = file.height
          BY <1>0, <1>1, <5>1, WordsReadBack
        <5>3. Over(Judged(NonZero(Found(U16(off + 7), U16(off + 5)))))
          BY <1>8, <3>1, <3>2, <4>1, <4>3 DEF Walk
        <5>4. U16(off + 7) = file.width /\ U16(off + 5) = file.height
          BY <5>2 DEF i, j
        <5>5. ~(Len(bytes) < file.needs)
          BY <1>2, <2>6, <4>3 DEF Frame, Has
        <5>6. NonZero(Found(file.width, file.height)) = Size
          BY <5>5, FoundSize DEF Size, NonZero
        <5> QED
          BY <1>4, <5>3, <5>4, <5>6
      <4> QED
        BY <4>2, <4>3
    <3>3. CASE ~Has(off + 4)
      BY <2>4, <3>1, <3>3
    <3> QED
      BY <3>2, <3>3
  <2>7. ASSUME Breaks(file, off) PROVE VInv'
    <3>0. Sizeless(file) /\ ~(Len(file.bytes) < off + 2)
      BY <1>2, <1>8, <2>7 DEF Breaks, Has
    <3>1. CASE file.bytes[off + 1] # 255
      BY <2>1, <2>3, <3>0, <3>1
    <3>2. CASE ~Marker(file, off, Standalone) /\ (Len(file.bytes) < off + 4 \/ TooShort(file, off))
      <4>1. At(off) # 255 \/ marker \notin Standalone
        BY <2>2, <3>2
      <4>2. ~Has(off + 4) \/ U16(off + 2) < 2
        <5>1. CASE ~Has(off + 4)
          BY <5>1
        <5>2. CASE Has(off + 4)
          <6>1. TooShort(file, off)
            BY <1>2, <3>2, <5>2 DEF Has
          <6>2. U16(off + 2) = 0 \/ U16(off + 2) = 1
            BY <1>0, <1>2, <5>2, <6>1, LengthsAreRead DEF TooShort
          <6> QED
            BY <6>2
        <5> QED
          BY <5>1, <5>2
      <4> QED
        BY <2>3, <3>0, <4>1, <4>2
    <3>3. CASE Marker(file, off, FrameMarkers) /\ Len(file.bytes) < off + 9
      <4>1. At(off) = 255 /\ marker \in FrameMarkers
        BY <2>2, <3>3
      <4>2. marker \notin Standalone
        BY <4>1 DEF FrameMarkers, Standalone
      <4>3. ~Has(off + 9)
        BY <1>2, <3>3 DEF Has
      <4>4. Over(malformed)
        BY <1>8, <4>1, <4>2, <4>3 DEF Walk
      <4> QED
        BY <1>6, <3>0, <4>4
    <3> QED
      BY <2>7, <3>0, <3>1, <3>2, <3>3 DEF Breaks
  <2> QED
    BY <1>0, <2>5, <2>6, <2>7 DEF Jpeg
<1> QED
  BY <1>7, <1>8

LEMMA VNextOK ==
  ASSUME AllDescribed, VInv, [Next]_vars
  PROVE  VInv'
<1>1. CASE UNCHANGED vars
  BY <1>1 DEF vars, VInv, Cut, Expected
<1> QED
  BY <1>1, VValidateKeeps, VWalkKeeps DEF Next

(* Whatever the files are, as long as each is described by what was        *)
(* written into it, the verdict on every prefix of it is the one its       *)
(* contents call for (image-dimensions.ts:4-11).                           *)
THEOREM VerdictsAreRight == AllDescribed => (Spec => []VerdictFitsTheFile)
<1> SUFFICES ASSUME AllDescribed PROVE Spec => []VerdictFitsTheFile
  OBVIOUS
<1>1. Init => VInv
  BY VInitOK
<1>2. VInv /\ [Next]_vars => VInv'
  BY VNextOK
<1>3. VInv => VerdictFitsTheFile
  BY DEF VInv, VerdictFitsTheFile
<1> QED
  BY <1>1, <1>2, <1>3, PTL DEF Spec
=============================================================================
