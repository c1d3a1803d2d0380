--------------------------- MODULE MCImageHeader ----------------------------
(***************************************************************************)
(* Every prefix of: JPEGs of up to three segments, PNGs and the three      *)
(* kinds of WebP, at, above and below the limits.                          *)
(***************************************************************************)
EXTENDS ImageFiles, SequencesExt

\* A piece of a JPEG: its bytes, and what it means for the walk.
Piece(content, kind, width, height) ==
  [bytes |-> content, kind |-> kind, width |-> width, height |-> height]
FrameSegment(marker, width, height) ==
  Piece(<<255, marker, 0, 8, 8>> \o HighLow(height) \o HighLow(width) \o <<1>>, "frame", width, height)
\* An application segment whose payload looks like a frame header.
Decoy == Piece(<<255, 224, 0, 11, 255, 192, 0, 8, 8, 0, 9, 0, 9>>, "skip", 0, 0)
Segments ==
  {FrameSegment(192, 640, 4096), FrameSegment(207, 4097, 2), FrameSegment(194, 0, 5), Decoy,
   Piece(<<255, 196, 0, 2>>, "skip", 0, 0), Piece(<<255, 208>>, "skip", 0, 0),
   Piece(<<255, 216>>, "skip", 0, 0), Piece(<<0, 192>>, "garbage", 0, 0),
   Piece(<<255, 225, 0, 1>>, "garbage", 0, 0)}

JpegFile(segments) ==
  LET stops == {i \in DOMAIN segments : segments[i].kind # "skip"}
      first == IF stops = {} THEN Len(segments) + 1 ELSE CHOOSE i \in stops : \A j \in stops : i <= j
      start(i) == FoldLeft(LAMBDA n, s : n + Len(s.bytes), 2, SubSeq(segments, 1, i - 1))
      framed == stops # {} /\ segments[first].kind = "frame"
  IN [bytes  |-> <<255, 216>> \o FlattenSeq([i \in DOMAIN segments |-> segments[i].bytes]),
      format |-> "jpeg",
      magic  |-> IF segments[1].bytes[1] = 255 THEN 3 ELSE MaxBytes + 1,
      needs  |-> IF framed THEN start(first) + 9 ELSE 0,
      width  |-> IF framed THEN segments[first].width ELSE 0,
      height |-> IF framed THEN segments[first].height ELSE 0,
      path   |-> {start(i) : i \in 1..first}]

File(content, format, magic, needs, width, height) ==
  [bytes |-> content, format |-> format, magic |-> magic, needs |-> needs, width |-> width, height |-> height,
   path |-> {}]

PngFile(width, height) ==
  File(<<137, 80, 78, 71, 13, 10, 26, 10, 0, 0, 0, 13, 73, 72, 68, 82>>
         \o BigEndian(width) \o BigEndian(height) \o <<8>>,
       "png", 8, 24, width, height)

Riff(chunk) == <<82, 73, 70, 70, 0, 0, 0, 0, 87, 69, 66, 80, 86, 80, 56, chunk, 0, 0, 0, 0>>

Vp8File(width, height, scale) ==
  File(Riff(32) \o <<0, 0, 0, 157, 1, 42>> \o Scaled(width, scale) \o Scaled(height, scale) \o <<0>>,
       "webp", 12, 30, width, height)

Vp8LFile(width, height) ==
  File(Riff(76) \o Packed(width - 1, height - 1, 1) \o <<0>>, "webp", 12, 25, width, height)

Vp8XFile(width, height) ==
  File(Riff(88) \o <<0, 0, 0, 0>> \o LittleEndian(width - 1) \o LittleEndian(height - 1) \o <<0>>,
       "webp", 12, 30, width, height)

Sizes == {1, 300, 4096, 4097}

MCFiles ==
  {JpegFile(s) : s \in UNION {[1..n -> Segments] : n \in 1..3}}
  \cup {PngFile(w, h) : w \in Sizes \cup {0, 16777217}, h \in {0, 2, 65536 + 7}}
  \cup {Vp8File(w, h, k) : w \in Sizes \cup {0, 16383}, h \in {0, 4096}, k \in {0, 3}}
  \cup {Vp8LFile(w, h) : w \in Sizes \cup {16384}, h \in Sizes \cup {16384}}
  \cup {Vp8XFile(w, h) : w \in Sizes \cup {16777216}, h \in Sizes \cup {16777216}}

\* What the files are said to hold is what was written into them.
ASSUME MCFilesAreDescribed == AllDescribed
=============================================================================
