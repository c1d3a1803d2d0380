---------------------------- MODULE ImageHeader -----------------------------
(***************************************************************************)
(* validateImageRef and validateImageBytes of packages/security: the size, *)
(* the format by its magic bytes, the declared type, the dimensions read   *)
(* from the header, the limits.  The walk over a JPEG's segments takes one *)
(* segment a step; everything else is one step.                            *)
(*                                                                         *)
(* A file is given with what was put into it, so that the verdict on any   *)
(* prefix of it can be told without parsing:                               *)
(*   bytes, format,                                                        *)
(*   magic   how many bytes must be there to tell the format,              *)
(*   needs   how many must be there to tell the dimensions,                *)
(*   width and height, 0 when the header holds none, and                   *)
(*   path    where the segments of a JPEG begin, up to its first frame or  *)
(*           to where no segment begins (ImageFiles says what these mean). *)
(***************************************************************************)
EXTENDS Integers, Sequences

CONSTANTS Files, MaxBytes, MaxWidth, MaxHeight,
          Undeclared \* no declared type, or a reference without bytes

Formats == {"jpeg", "png", "webp"}

ASSUME HeaderAssumption ==
  /\ MaxBytes \in Nat /\ MaxWidth \in Nat /\ MaxHeight \in Nat
  /\ \A f \in Files : /\ f.bytes \in Seq(0..255) /\ f.format \in Formats
                      /\ f.magic \in Nat /\ f.needs \in Nat

VARIABLES
  file,     \* the file the caller's bytes are a prefix of
  bytes,    \* the bytes to validate
  declared, \* the declared MIME type
  step,     \* "new", "walking" or "over"
  off,      \* where the walk stands
  verdict   \* the outcome: a reason, and the dimensions if it is "ok"

vars == <<file, bytes, declared, step, off, verdict>>

Rejected(reason) == [reason |-> reason, width |-> 0, height |-> 0]

Init ==
  /\ file \in Files
  /\ \E cut \in 0..Len(file.bytes) : bytes = SubSeq(file.bytes, 1, cut)
  /\ declared \in Formats \cup {Undeclared}
  /\ step = "new"
  /\ off = 0
  /\ verdict = Rejected("none")

-----------------------------------------------------------------------------
(* Reading the header; offsets count from 0 as in the code *)

At(i) == bytes[i + 1]
Has(n) == Len(bytes) >= n
Reads(i, values) == Has(i + Len(values)) /\ \A j \in DOMAIN values : bytes[i + j] = values[j]

SniffFormat ==
  IF Reads(0, <<137, 80, 78, 71, 13, 10, 26, 10>>) THEN "png"
  ELSE IF Reads(0, <<255, 216, 255>>) THEN "jpeg"
  ELSE IF Reads(0, <<82, 73, 70, 70>>) /\ Reads(8, <<87, 69, 66, 80>>) THEN "webp"
  ELSE "unknown"

\* Mutant: the bytes of a number are taken in the other order.
U16Swapped(i) == At(i + 1) * 256 + At(i)

U16(i) == At(i) * 256 + At(i + 1)
U32(i) == U16(i) * 65536 + U16(i + 2)
U24LE(i) == At(i) + At(i + 1) * 256 + At(i + 2) * 65536
\* 14 bits from the first of byte i, and the 14 that follow the first six of it.
U14LE(i) == (At(i) + At(i + 1) * 256) % 16384
U14Next(i) == ((At(i) \div 64) + At(i + 1) * 4 + At(i + 2) * 1024) % 16384

Found(width, height) == [reason |-> "ok", width |-> width, height |-> height]
NonZero(dims) == IF dims.width = 0 \/ dims.height = 0 THEN Rejected("malformed-header") ELSE dims

PngDimensions ==
  IF Has(24) /\ Reads(12, <<73, 72, 68, 82>>)
  THEN NonZero(Found(U32(16), U32(20)))
  ELSE Rejected("malformed-header")

\* The scale bits above the 14 bits of a VP8 size are cut off.
WebpDimensions ==
  LET chunk(last) == Reads(12, <<86, 80, 56, last>>) IN
  IF chunk(32) /\ Has(30)
  THEN NonZero(Found(U14LE(26), U14LE(28)))
  ELSE IF chunk(76) /\ Has(25) /\ At(20) = 47
  THEN Found(U14LE(21) + 1, U14Next(22) + 1)
  ELSE IF chunk(88) /\ Has(30)
  THEN Found(U24LE(24) + 1, U24LE(27) + 1)
  ELSE Rejected("malformed-header")

-----------------------------------------------------------------------------
\* The limits are inclusive.
Judged(dims) ==
  IF dims.width > MaxWidth \/ dims.height > MaxHeight
  THEN Rejected("dimensions-too-large") ELSE dims

Over(v) == step' = "over" /\ verdict' = v /\ UNCHANGED off

Validate ==
  LET format == SniffFormat IN
  /\ step = "new"
  /\ IF Len(bytes) > MaxBytes THEN Over(Rejected("too-large"))
     ELSE IF format = "unknown" THEN Over(Rejected("unrecognised-format"))
     ELSE IF declared \notin {Undeclared, format} THEN Over(Rejected("mime-mismatch"))
     ELSE IF format = "png" THEN Over(Judged(PngDimensions))
     ELSE IF format = "webp" THEN Over(Judged(WebpDimensions))
     ELSE step' = "walking" /\ off' = 2 /\ UNCHANGED verdict
  /\ UNCHANGED <<file, bytes, declared>>

Standalone == {1} \cup 208..217
FrameMarkers == (192..207) \ {196, 200, 204}

\* Mutant: a marker is not stepped over.
PastStandaloneNot == off

PastSegment == off + 2 + U16(off + 2)
PastStandalone == off + 2

\* parseJpegDimensions, one turn of its loop.
Walk ==
  LET marker == At(off + 1)
      malformed == Rejected("malformed-header")
  IN
  /\ step = "walking"
  /\ IF ~Has(off + 2) \/ At(off) # 255 THEN Over(malformed)
     ELSE IF marker \in Standalone
     THEN off' = PastStandalone /\ UNCHANGED <<step, verdict>>
     ELSE IF ~Has(off + 4) \/ U16(off + 2) < 2 THEN Over(malformed)
     ELSE IF marker \in FrameMarkers
     THEN Over(IF Has(off + 9) THEN Judged(NonZero(Found(U16(off + 7), U16(off + 5)))) ELSE malformed)
     ELSE off' = PastSegment /\ UNCHANGED <<step, verdict>>
  /\ UNCHANGED <<file, bytes, declared>>

Next == Validate \/ Walk

Spec == Init /\ [][Next]_vars /\ WF_vars(Next)

-----------------------------------------------------------------------------
Expected ==
  IF Len(bytes) > MaxBytes THEN Rejected("too-large")
  ELSE IF Len(bytes) < file.magic THEN Rejected("unrecognised-format")
  ELSE IF declared \notin {Undeclared, file.format} THEN Rejected("mime-mismatch")
  ELSE IF Len(bytes) < file.needs \/ file.width = 0 \/ file.height = 0
  THEN Rejected("malformed-header")
  ELSE IF file.width > MaxWidth \/ file.height > MaxHeight
  THEN Rejected("dimensions-too-large") ELSE Found(file.width, file.height)

(* The verdict on every prefix of every file is the one its contents call  *)
(* for: dimensions come from the first frame header the segments lead to,  *)
(* not from bytes inside a segment that look like one, and a file cut      *)
(* before them is rejected (image-dimensions.ts:4-11).                     *)
VerdictFitsTheFile == step = "over" => verdict = Expected

(* The walk ends on every input, by lengths read from the file itself.     *)
ValidationEnds == <>(step = "over")
=============================================================================
