-------------------------------- MODULE Canvas --------------------------------
(***************************************************************************)
(* The pixels of a Canvas: SolidFill as Clear calls it, and DrawText.      *)
(*                                                                         *)
(* A pixel is 16 bits: one of alpha and five each of red, green and blue.  *)
(* Addresses count from the beginning of the buffer.  A glyph is the size  *)
(* of its bitmap and how it stands to the pen; the coverage of one of its  *)
(* pixels is a byte.                                                       *)
(***************************************************************************)
EXTENDS Integers, Sequences

Octet == 0..255

LineLength(canvas) == 2 * canvas.w

\* The addresses of the bytes that Clear sets to zero, from the first of a row to
\* the first of the next one.
SolidFill(canvas) ==
  UNION {LineLength(canvas) * row .. LineLength(canvas) * (row + 1) - 1 : row \in 0..canvas.h - 1}

-----------------------------------------------------------------------------
(***************************************************************************)
(* One pixel of text over the one that is there, mem.                      *)
(***************************************************************************)
Bytes(low, high) == low + 256 * high

SolidPixel(c) ==
  Bytes((c.g \div 8 % 8) * 32 + c.b \div 8, 128 + (c.r \div 8) * 4 + c.g \div 64)

\* Two channels of five bits, mixed by a coverage.
Mixed(below, above, a) == (256 * below + (above - below) * a) \div 256

AlphaPixel(mem, a, c) ==
  LET blue  == Mixed(mem % 32, c.b \div 8, a)
      green == Mixed(mem \div 32 % 32, c.g \div 8, a)
      red   == Mixed(mem \div 1024 % 32, c.r \div 8, a)
  IN Bytes((green % 8) * 32 + blue, 128 * (mem \div 32768) + red * 4 + green \div 8)

\* What the edges of the glyphs are mixed with.
Grey == [r |-> 45, g |-> 45, b |-> 45]

DrawPixel(mem, a, c) ==
  CASE a = 0   -> mem
    [] a = 255 -> SolidPixel(c)
    [] OTHER   -> AlphaPixel(SolidPixel(Grey), a, c)

-----------------------------------------------------------------------------
(***************************************************************************)
(* A text: each glyph is put at the pen, which then moves on.              *)
(***************************************************************************)
\* Variant for a mutant run: the pixel behind the end of a row is drawn.
InClipRectLate(canvas, px, py) == px \in 0..canvas.w /\ py \in 0..canvas.h - 1

InClipRect(canvas, px, py) == px \in 0..canvas.w - 1 /\ py \in 0..canvas.h - 1

\* The addresses of the pixels of a glyph at the pen x, y.
DrawGlyph(canvas, x, y, glyph) ==
  LET curX == x + glyph.x
      curY == y + 16 - glyph.upper
      addr == curY * LineLength(canvas) + curX * 2
      shown == {p \in (0..glyph.w - 1) \X (0..glyph.h - 1) :
                  InClipRect(canvas, curX + p[1], curY + p[2])}
  IN {addr + p[2] * LineLength(canvas) + p[1] * 2 : p \in shown}

\* The same for each glyph of a text.
DrawText(canvas, x, y, text) ==
  LET pen[i \in 0..Len(text)] == IF i = 0 THEN x ELSE pen[i - 1] + text[i].advance
  IN [i \in 1..Len(text) |-> DrawGlyph(canvas, pen[i - 1], y, text[i])]
=============================================================================
