---------------------------- MODULE OverlayPlace ----------------------------
(***************************************************************************)
(* Where ComposingThread puts the rows of an overlay in a captured frame:  *)
(* nine positions, with a margin of 5% of the width at the right.          *)
(***************************************************************************)
EXTENDS Integers

\* A shift to the right and back: down to an even number, also below zero.
Even(n) == 2 * (n \div 2)

\* A quotient as the conversion to int leaves it, rounded towards zero.
Truncated(a, b) == IF a >= 0 THEN a \div b ELSE -((-a) \div b)

\* The frames that an overlay is drawn in.
Fits(frame, osd) == osd.w <= frame.w /\ osd.h <= frame.h

\* W - w - 50 * (W / 1000) + 1, in twentieths.
RightX(frame, osd) == Even(Truncated(20 * (frame.w - osd.w + 1) - frame.w, 20))

CentreX(frame, osd) == Even((frame.w - osd.w) \div 2)

MiddleY(frame, osd) == Even((frame.h - osd.h) \div 2)

\* Variant for a mutant run: rounded up before the division.
MiddleYLate(frame, osd) == Even((frame.h - osd.h) + 1)

\* The middle as positions 4 and above 8 have it.
MiddleYUp(frame, osd) == Even((frame.h - osd.h) \div 2 + 1)

BottomY(frame, osd) == Even(frame.h - osd.h)

PlaceX(position, frame, osd) ==
  CASE position \in {1, 3, 7} -> CentreX(frame, osd)
    [] position \in {2, 5, 8} -> 0
    [] OTHER                  -> RightX(frame, osd)

PlaceY(position, frame, osd) ==
  CASE position \in {0, 1, 2} -> 0
    [] position \in {3, 5}    -> MiddleY(frame, osd)
    [] position \in {6, 7, 8} -> BottomY(frame, osd)
    [] OTHER                  -> MiddleYUp(frame, osd)

\* The place of an overlay that is drawn; nothing when it is skipped.
Place(position, frame, osd) ==
  IF Fits(frame, osd)
  THEN <<[x |-> PlaceX(position, frame, osd), y |-> PlaceY(position, frame, osd)]>>
  ELSE <<>>

-----------------------------------------------------------------------------
\* An overlay that lies at even coordinates in its frame.  It is left of it only
\* where the margin of 5% does not fit.
InFrame(at, frame, osd) ==
  /\ at.x % 2 = 0 /\ at.y % 2 = 0
  /\ at.y >= 0 /\ at.y + osd.h <= frame.h
  /\ at.x + osd.w <= frame.w
  /\ at.x < 0 => frame.w > 20 * (frame.w - osd.w + 1)
=============================================================================
