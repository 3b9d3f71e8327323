------------------------------ MODULE Routines ------------------------------
(***************************************************************************)
(* The sequential parts of the program but for the decryption, each called *)
(* once with any of its inputs: the spaces of plain text (PlainText), the  *)
(* item of a terminal message (TerminalMessage), the place of an overlay   *)
(* (OverlayPlace) and the pixels of it (Canvas).                           *)
(***************************************************************************)
EXTENDS PlainText, TerminalMessage, OverlayPlace, Canvas

CONSTANTS
  Texts,      \* plain texts
  Messages,   \* terminal messages
  Missing,    \* the bytes that the first read of a message may lack
  Encodings,  \* "UTF-8" and other encodings of the messages
  Frames,     \* sizes of captured frames
  Gaps,       \* how much smaller an overlay is than its frame
  Canvases,   \* sizes of canvases
  Pens,       \* where a text begins
  Glyphs,     \* texts, as sequences of glyphs
  Pixels,     \* pixels that are drawn over
  Colours     \* colours of a text

ASSUME TextAssumption == Texts \subseteq Seq(Char)

ASSUME MessageAssumption == (\A m \in Messages : IsMessage(m)) /\ Missing \subseteq Int

ASSUME SizeAssumption ==
  /\ Frames \cup Canvases \subseteq [w : Nat, h : Nat]
  /\ \A gap \in Gaps : gap.w \in Int /\ gap.h \in Int

\* A bitmap, how it stands to the pen, and how far it moves it.
Glyph == [w : Nat, h : Nat, x : Int, upper : Int, advance : Int]

ASSUME GlyphAssumption == Pens \subseteq [x : Int, y : Int] /\ Glyphs \subseteq Seq(Glyph)

ASSUME ColourAssumption == \A c \in Colours : {c.r, c.g, c.b} \subseteq Octet

VARIABLES
  call,  \* the function that is called and its arguments
  out    \* empty until it returns, then what it did

RoutineNames == {"plaintext", "terminal", "place", "clear", "text", "pixel"}

\* An overlay has a size.
HasSize(frame, gap) == gap.w <= frame.w /\ gap.h <= frame.h

RoutineCalls ==
  [name : {"plaintext"}, line : {"net", "serial"}, text : Texts]
    \cup [name : {"terminal"}, message : Messages, missing : Missing, encoding : Encodings]
    \cup {c \in [name : {"place"}, position : 0..9, frame : Frames, gap : Gaps] :
            HasSize(c.frame, c.gap)}
    \cup [name : {"clear"}, canvas : Canvases]
    \cup [name : {"text"}, canvas : Canvases, pen : Pens, glyphs : Glyphs]
    \cup [name : {"pixel"}, mem : Pixels, coverage : Octet, colour : Colours]

Returned == Len(out) = 1

Result == out[1]

\* One return of the function that was called.
Return(name, value) ==
  /\ call.name = name
  /\ ~Returned
  /\ out' = <<value>>
  /\ UNCHANGED call

OnPlaintext ==
  /\ call.name = "plaintext"
  /\ Return("plaintext",
            IF call.line = "net" THEN OnDataPlaintext(call.text) ELSE Pos485Plain(call.text))

\* The bytes of the first read.
ReadSize == Size(call.message) - call.missing

\* The converter of an encoding other than UTF-8 may not open.
OnTerminal ==
  /\ call.name = "terminal"
  /\ \E converts \in {FALSE, call.encoding # "UTF-8"} :
       \E items \in OnDataTerminal(call.message, ReadSize, converts) : Return("terminal", items)

Osd == [w |-> call.frame.w - call.gap.w, h |-> call.frame.h - call.gap.h]

Places == call.name = "place" /\ Return("place", Place(call.position, call.frame, Osd))

ClearsCanvas == call.name = "clear" /\ Return("clear", SolidFill(call.canvas))

DrawsText ==
  /\ call.name = "text"
  /\ Return("text", DrawText(call.canvas, call.pen.x, call.pen.y, call.glyphs))

DrawsPixel ==
  call.name = "pixel" /\ Return("pixel", DrawPixel(call.mem, call.coverage, call.colour))

Routine == OnPlaintext \/ OnTerminal \/ Places \/ ClearsCanvas \/ DrawsText \/ DrawsPixel

\* A call of one of these functions, or of another, of which nothing is said but
\* that it stays what it is.
RoutineSpec ==
  /\ call \in RoutineCalls \/ call.name \notin RoutineNames
  /\ out = <<>>
  /\ [][Routine \/ (call.name \notin RoutineNames /\ UNCHANGED call)]_<<call, out>>

-----------------------------------------------------------------------------
\* Plain text loses the spaces at the end of its lines and nothing else, and is
\* handed on unless the serial line had nothing but such spaces
\* (pos_net.cpp:80-88 and 153-191, posdevice.cpp:199-237 and 282-292).
SpacesRemoved ==
  (Returned /\ call.name = "plaintext") =>
    LET rest == WithoutExtraSpace(call.text)
    IN Result = IF call.line = "serial" /\ rest = <<>> THEN <<>> ELSE <<rest>>

\* A message that comes whole in one read is shown and stored, and what is shown
\* and stored is the six fields that the terminal sent, each under its name, in a
\* text that fits itemtext (pos_net.h:21, pos_terminal_parser.cpp:235-302,
\* posdevice.cpp:321-374).  One case is left out: a read that lacks the last byte
\* is taken for whole, and a field that reaches into its last block may have any
\* length, as may the text, which is put together before the limits are tested.
ItemWhole ==
  (Returned /\ call.name = "terminal") =>
    LET m        == call.message
        tooShort == ReadSize = HeaderLen(m) + BodyLen - 1
    IN /\ HasItem(m, ReadSize) => Len(Result) = 1
       /\ ~tooShort =>
            \A n \in 1..Len(Result) : /\ \A i \in 1..6 : Result[n][Field[i]] = m.fields[i]
                                      /\ TextLen(Result[n]) < TextSize

OverlayInFrame ==
  (Returned /\ call.name = "place") =>
    \A n \in 1..Len(Result) : InFrame(Result[n], call.frame, Osd)

\* The place of the i-th glyph on an unbounded canvas.
Box(i) ==
  LET before == SubSeq(call.glyphs, 1, i - 1)
      x == call.pen.x + Total([n \in DOMAIN before |-> before[n].advance]) + call.glyphs[i].x
      y == call.pen.y + 16 - call.glyphs[i].upper
  IN (x .. x + call.glyphs[i].w - 1) \X (y .. y + call.glyphs[i].h - 1)

TextInCanvas ==
  (Returned /\ call.name = "text") =>
    LET line == 2 * call.canvas.w
    IN \A i \in DOMAIN call.glyphs :
         {<<(a % line) \div 2, a \div line>> : a \in Result[i]}
           = Box(i) \cap ((0..call.canvas.w - 1) \X (0..call.canvas.h - 1))

\* A channel that lies between that of the grey edge and that of the colour.
MixedChannel(channel, colour, a) ==
  LET exact == (256 - a) * (45 \div 8) + a * (colour \div 8)
  IN 256 * channel <= exact /\ exact < 256 * (channel + 1)

\* The pixels whose bit of alpha is set.
Opaque == 32768 .. 2 * 32768 - 1

\* A pixel that a coverage of a has drawn over mem.
HasColour(pixel, mem, a, colour) ==
  LET blue  == pixel % 32
      green == pixel \div 32 % 32
      red   == pixel \div 1024 % 32
  IN CASE a = 0   -> pixel = mem
       [] a = 255 -> <<red, green, blue>> = <<colour.r \div 8, colour.g \div 8, colour.b \div 8>>
       [] OTHER   -> /\ pixel \in Opaque
                     /\ MixedChannel(red, colour.r, a)
                     /\ MixedChannel(green, colour.g, a)
                     /\ MixedChannel(blue, colour.b, a)

TextHasColour ==
  (Returned /\ call.name = "pixel") => HasColour(Result, call.mem, call.coverage, call.colour)

\* What is drawn lies where it should.  An overlay lies at even coordinates in
\* its frame; it is left of it only where the margin of 5% does not fit
\* (textstreamqueue.cpp:434-499).  A text covers the part of its glyphs that is
\* on the canvas, each where the ones before it have moved the pen, and Clear
\* all of the canvas and no byte of its neighbours; the edges of the glyphs are
\* between the grey and the colour, in all three channels (canvas.cpp:12-33,
\* 163-242 and 244-302).
DrawnInPlace ==
  /\ OverlayInFrame
  /\ TextInCanvas
  /\ TextHasColour
  /\ (Returned /\ call.name = "clear") =>
       Result = 0 .. 2 * call.canvas.w * call.canvas.h - 1
=============================================================================
