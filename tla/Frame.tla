-------------------------------- MODULE Frame --------------------------------
(***************************************************************************)
(* The frames of src/qrspec.c and src/mqrspec.c: which modules <<x, y>> of *)
(* a symbol hold function patterns (finders, separators, format and version*)
(* information, timing, alignment), those with bit 0x80 set in the code,   *)
(* and which of them are dark (bit 1).  The others are free for data.      *)
(***************************************************************************)
EXTENDS QRSpec

\* The w by h rectangle of modules whose upper left one is (x, y).
Box(x, y, w, h) == (x..(x + w - 1)) \X (y..(y + h - 1))

alignmentPattern == <<
  << 0,  0>>, <<18,  0>>, <<22,  0>>, <<26,  0>>, <<30,  0>>, \*  1- 5
  <<34,  0>>, <<22, 38>>, <<24, 42>>, <<26, 46>>, <<28, 50>>, \*  6-10
  <<30, 54>>, <<32, 58>>, <<34, 62>>, <<26, 46>>, <<26, 48>>, \* 11-15
  <<26, 50>>, <<30, 54>>, <<30, 56>>, <<30, 58>>, <<34, 62>>, \* 16-20
  <<28, 50>>, <<26, 50>>, <<30, 54>>, <<28, 54>>, <<32, 58>>, \* 21-25
  <<30, 58>>, <<34, 62>>, <<26, 50>>, <<30, 54>>, <<26, 52>>, \* 26-30
  <<30, 56>>, <<34, 60>>, <<30, 58>>, <<34, 62>>, <<30, 54>>, \* 31-35
  <<24, 50>>, <<28, 54>>, <<32, 58>>, <<26, 54>>, <<30, 58>>>> \* 36-40

\* The border of a square of n by n modules.
Ring(x, y, n) == {m \in Box(x, y, n, n) : m[1] \in {x, x + n - 1} \/ m[2] \in {y, y + n - 1}}

\* The dark modules of a finder pattern and of an alignment pattern.
putFinderPattern(ox, oy) == Ring(ox, oy, 7) \cup Box(ox + 2, oy + 2, 3, 3)
QRspec_putAlignmentMarker(ox, oy) == Ring(ox - 2, oy - 2, 5) \cup {<<ox, oy>>}

\* The centres lie on a grid of pitch d, without the corners at the finders.
QRspec_putAlignmentPattern(version, width) ==
  LET first == alignmentPattern[version][1]
      d     == alignmentPattern[version][2] - first
      w     == IF d < 0 THEN 2 ELSE (width - first) \div d + 2
      c(k)  == first + k * d
      edge  == {c(k) : k \in 0..(w - 3)}
  IN  IF version < 2 THEN {}
      ELSE IF w = 2 THEN {<<first, first>>}
      ELSE {<<6, cx>> : cx \in edge} \cup {<<cx, 6>> : cx \in edge}
             \cup {<<c(n), c(k)>> : n, k \in 0..(w - 2)}

versionPattern == <<
  \h07c94, \h085bc, \h09a99, \h0a4d3, \h0bbf6, \h0c762, \h0d847, \h0e60d,
  \h0f928, \h10b78, \h1145d, \h12a17, \h13532, \h149a6, \h15683, \h168c9,
  \h177ec, \h18ec4, \h191e1, \h1afab, \h1b08e, \h1cc1a, \h1d33f, \h1ed75,
  \h1f250, \h209d5, \h216f0, \h228ba, \h2379f, \h24b0b, \h2542e, \h26a64,
  \h27541, \h28c69>>
QRspec_getVersionPattern(version) ==
  IF version < 7 \/ version > QRSPEC_VERSION_MAX THEN 0 ELSE versionPattern[version - 6]

QRspec_createFrame(version) ==
  LET w       == QRspec_getWidth(version)
      markers == QRspec_putAlignmentPattern(version, w)
      aligned == UNION {Box(m[1] - 2, m[2] - 2, 5, 5) : m \in markers}
      timing  == Box(8, 6, w - 16, 1) \cup Box(6, 8, 1, w - 16)
      info    == IF version >= 7 THEN Box(0, w - 11, 6, 3) \cup Box(w - 11, 0, 3, 6) ELSE {}
      verinfo == QRspec_getVersionPattern(version)
  IN  [functions |->
         \* finder patterns and separators
         Box(0, 0, 8, 8) \cup Box(w - 8, 0, 8, 8) \cup Box(0, w - 8, 8, 8)
         \* format information, and the dark module over it
         \cup Box(0, 8, 9, 1) \cup Box(w - 8, 8, 8, 1)
         \cup Box(8, 0, 1, 8) \cup Box(8, w - 7, 1, 7) \cup {<<8, w - 8>>}
         \cup timing \cup aligned \cup info,
       dark |->
         putFinderPattern(0, 0) \cup putFinderPattern(w - 7, 0) \cup putFinderPattern(0, w - 7)
         \cup {m \in timing \ aligned : (m[1] + m[2]) % 2 = 0}
         \cup UNION {QRspec_putAlignmentMarker(m[1], m[2]) : m \in markers}
         \cup {m \in info : BitAt(verinfo, IF m[1] < 6 THEN 3 * m[1] + m[2] - (w - 11)
                                          ELSE 3 * m[2] + m[1] - (w - 11)) = 1}
         \cup {<<8, w - 8>>}]

MQRspec_createFrame(version) ==
  LET w == MQRspec_getWidth(version)
      timing == Box(8, 0, w - 8, 1) \cup Box(0, 8, 1, w - 8)
  IN  [functions |->
         Box(0, 0, 8, 8)                            \* finder pattern and separator
         \cup Box(1, 8, 8, 1) \cup Box(8, 1, 1, 7)  \* format information
         \cup timing,
       dark |-> putFinderPattern(0, 0) \cup {m \in timing : (m[1] + m[2]) % 2 = 0}]
=============================================================================
