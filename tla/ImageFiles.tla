----------------------------- MODULE ImageFiles -----------------------------
(***************************************************************************)
(* What it means that a file of ImageHeader is described as it was         *)
(* written: the layouts of the three formats that image-dimensions.ts      *)
(* reads, from the writer's side.                                          *)
(***************************************************************************)
EXTENDS ImageHeader

\* The file holds these values after its first i bytes.
Writes(f, i, values) ==
  Len(f.bytes) >= i + Len(values) /\ \A j \in DOMAIN values : f.bytes[i + j] = values[j]

HighLow(n) == <<n \div 256, n % 256>>
BigEndian(n) == <<n \div 16777216, (n \div 65536) % 256, (n \div 256) % 256, n % 256>>
LittleEndian(n) == <<n % 256, (n \div 256) % 256, n \div 65536>>

SignedPng(f) == Writes(f, 0, <<137, 80, 78, 71, 13, 10, 26, 10>>)
SignedJpeg(f) == Writes(f, 0, <<255, 216, 255>>)
SignedWebp(f) == Writes(f, 0, <<82, 73, 70, 70>>) /\ Writes(f, 8, <<87, 69, 66, 80>>)

\* No prefix that may be validated is long enough to tell a format.
Unsigned(f) == f.magic > MaxBytes /\ ~SignedPng(f) /\ ~SignedJpeg(f) /\ ~SignedWebp(f)

Sizeless(f) == f.width = 0 /\ f.height = 0

-----------------------------------------------------------------------------
Headed(f) == Writes(f, 12, <<73, 72, 68, 82>>)

Png(f) ==
  /\ f.format = "png" /\ f.magic = 8 /\ SignedPng(f)
  /\ \/ /\ f.needs = 24 /\ Headed(f)
        /\ Writes(f, 16, BigEndian(f.width)) /\ Writes(f, 20, BigEndian(f.height))
     \/ Sizeless(f) /\ (Len(f.bytes) < 24 \/ ~Headed(f))

Chunk(f, last) == Writes(f, 12, <<86, 80, 56, last>>)

\* Lossy: 14 bits of each size, with two bits of scale above them.
Scaled(n, scale) == <<n % 256, (n \div 256) + 64 * scale>>

Vp8(f) ==
  /\ Chunk(f, 32) /\ f.needs = 30
  /\ f.width < 16384 /\ f.height < 16384
  /\ \E scale \in 0..3 : Writes(f, 26, Scaled(f.width, scale))
  /\ \E scale \in 0..3 : Writes(f, 28, Scaled(f.height, scale))

\* Lossless: each size less one in 14 bits, one after the other.
Packed(w, h, above) ==
  <<47, w % 256, (w \div 256) + 64 * (h % 4), (h \div 4) % 256, (h \div 1024) + 16 * above>>

Vp8L(f) ==
  /\ Chunk(f, 76) /\ f.needs = 25
  /\ f.width # 0 /\ f.width <= 16384 /\ f.height # 0 /\ f.height <= 16384
  /\ \E above \in 0..15 : Writes(f, 20, Packed(f.width - 1, f.height - 1, above))

\* Extended: each size less one in 24 bits.
Vp8X(f) ==
  /\ Chunk(f, 88) /\ f.needs = 30 /\ f.width # 0 /\ f.height # 0
  /\ Writes(f, 24, LittleEndian(f.width - 1)) /\ Writes(f, 27, LittleEndian(f.height - 1))

\* No chunk that tells a size, or one that ends before it does.
NoSize(f) ==
  /\ Sizeless(f)
  /\ Chunk(f, 32) => Len(f.bytes) < 30
  /\ Chunk(f, 76) => (Len(f.bytes) < 25 \/ f.bytes[21] # 47)
  /\ Chunk(f, 88) => Len(f.bytes) < 30

Webp(f) ==
  /\ f.format = "webp" /\ f.magic = 12 /\ SignedWebp(f)
  /\ Vp8(f) \/ Vp8L(f) \/ Vp8X(f) \/ NoSize(f)

-----------------------------------------------------------------------------
\* A marker at o; the length that follows it includes its own two bytes.
Marker(f, o, markers) == \E marker \in markers : Writes(f, o, <<255, marker>>)
Length(f, o, n) == Writes(f, o + 2, HighLow(n))
TooShort(f, o) == Length(f, o, 0) \/ Length(f, o, 1)

Leads(f, o, next) ==
  \/ Marker(f, o, Standalone) /\ next = o + 2
  \/ /\ Marker(f, o, (0..255) \ (Standalone \cup FrameMarkers))
     /\ next >= o + 4 /\ Length(f, o, next - (o + 2))

Frame(f, o) ==
  /\ Marker(f, o, FrameMarkers) /\ ~TooShort(f, o)
  /\ f.needs = o + 9
  /\ Writes(f, o + 5, HighLow(f.height)) /\ Writes(f, o + 7, HighLow(f.width))

\* No segment begins at o, or a frame ends before its size.
Breaks(f, o) ==
  /\ Sizeless(f)
  /\ \/ Len(f.bytes) < o + 2
     \/ f.bytes[o + 1] # 255
     \/ ~Marker(f, o, Standalone) /\ (Len(f.bytes) < o + 4 \/ TooShort(f, o))
     \/ Marker(f, o, FrameMarkers) /\ Len(f.bytes) < o + 9

Jpeg(f) ==
  /\ f.format = "jpeg" /\ f.magic = 3 /\ SignedJpeg(f)
  /\ f.path \subseteq Nat /\ 2 \in f.path
  /\ \A o \in f.path :
       /\ Sizeless(f) \/ o + 9 <= f.needs
       /\ (\E next \in f.path : Leads(f, o, next)) \/ Frame(f, o) \/ Breaks(f, o)

-----------------------------------------------------------------------------
\* A description fits the bytes.
Described(f) ==
  /\ f.width \in Nat /\ f.height \in Nat
  /\ Unsigned(f) \/ Png(f) \/ Webp(f) \/ Jpeg(f)

AllDescribed == \A f \in Files : Described(f)
=============================================================================
