---------------------------- MODULE MCAlgorithms ----------------------------
EXTENDS Algorithms

\* The keys and blocks of the examples of FIPS 197, and the extremes.
FipsKey   == <<43, 126, 21, 22, 40, 174, 210, 166, 171, 247, 21, 136, 9, 207, 79, 60>>
FipsPlain == <<50, 67, 246, 168, 136, 90, 48, 141, 49, 49, 152, 162, 224, 55, 7, 52>>
UpTo15    == <<0, 1, 2, 3, 4, 5, 6, 7, 8, 9, 10, 11, 12, 13, 14, 15>>
Ones      == <<255, 255, 255, 255, 255, 255, 255, 255,
               255, 255, 255, 255, 255, 255, 255, 255>>

KeySet   == {FipsKey, UpTo15, Ones}
PlainSet == {<<FipsPlain>>, <<UpTo15, Ones>>, <<Ones, UpTo15>>}

\* FIPS 197, appendix B.
ExampleSet ==
  {[key |-> FipsKey, plain |-> <<FipsPlain>>,
    cipher |-> <<<<57, 37, 132, 29, 2, 220, 9, 251, 220, 17, 133, 151, 25, 106, 11, 50>>>>]}

TextSet == UNION {[1..n -> Char] : n \in 0..6}

\* The example of pos_net.h, a full message, each limit passed, a field empty,
\* fields that just do not reach the last block, and fields that fill the body.
FieldSet ==
  {<<1, 1, 5, 1, 1, 14>>, <<8, 20, 10, 16, 8, 14>>, <<9, 20, 10, 16, 8, 14>>,
   <<8, 21, 10, 16, 8, 14>>, <<8, 20, 10, 17, 8, 14>>, <<8, 20, 10, 16, 9, 14>>,
   <<1, 1, 0, 1, 1, 14>>, <<8, 20, 40, 16, 8, 14>>, <<8, 20, 41, 16, 8, 14>>,
   <<8, 20, 56, 16, 8, 14>>}

MessageSet ==
  [dpos : BOOLEAN, a : {1, 3}, b : {0, 2}, fields : FieldSet, tail : {0, 2}]

FrameSet == {[w |-> w, h |-> h] : w \in {16, 352, 1920}, h \in {288, 1081}}

GapSet == {[w |-> w, h |-> h] : w \in (-1..22) \cup (94..98), h \in -1..5}

\* Canvases of one and of three columns, pens on and off them, and texts that
\* leave the canvas at each of its sides.
CanvasSet == {[w |-> w, h |-> h] : w \in {1, 3}, h \in {1, 4}}

PenSet == {[x |-> x, y |-> y] : x \in -3..3, y \in -5..4}

GlyphSet ==
  LET narrow == [w |-> 1, h |-> 3, x |-> 0, upper |-> 14, advance |-> 1]
      wide   == [w |-> 3, h |-> 2, x |-> -1, upper |-> 17, advance |-> 2]
      blank  == [w |-> 0, h |-> 0, x |-> 0, upper |-> 0, advance |-> 1]
  IN {<<narrow>>, <<wide>>, <<wide, narrow>>, <<narrow, blank, wide>>}

\* A cleared pixel and one of every bit; the colour of the rows, one below the
\* grey and one whose channels differ in every bit.
PixelSet == {0, 65535}

ColourSet ==
  {[r |-> 255, g |-> 255, b |-> 0], [r |-> 0, g |-> 16, b |-> 40], [r |-> 170, g |-> 87, b |-> 204]}
=============================================================================
