--------------------------------- MODULE Aes ---------------------------------
(***************************************************************************)
(* The decryption of terminal messages: AES with a key of 128 bits, as     *)
(* pos_terminal_parser.cpp writes it out.                                  *)
(*                                                                         *)
(* A block, the state it is turned into, and a round key are sequences of  *)
(* 16 bytes, the element of row r and column c (from 0) at 4 c + r + 1:    *)
(* the order of the bytes of a message.                                    *)
(***************************************************************************)
EXTENDS Integers, Sequences, SequencesExt, Bitwise

Byte == 0..255

At(s, r, c) == s[4 * c + r + 1]

\* The block with e(r, c) in row r and column c.
Make(e(_, _)) == <<e(0, 0), e(1, 0), e(2, 0), e(3, 0), e(0, 1), e(1, 1), e(2, 1), e(3, 1),
                   e(0, 2), e(1, 2), e(2, 2), e(3, 2), e(0, 3), e(1, 3), e(2, 3), e(3, 3)>>

-----------------------------------------------------------------------------
SboxBytes == <<
     99, 124, 119, 123, 242, 107, 111, 197,  48,   1, 103,  43, 254, 215, 171, 118,
    202, 130, 201, 125, 250,  89,  71, 240, 173, 212, 162, 175, 156, 164, 114, 192,
    183, 253, 147,  38,  54,  63, 247, 204,  52, 165, 229, 241, 113, 216,  49,  21,
      4, 199,  35, 195,  24, 150,   5, 154,   7,  18, 128, 226, 235,  39, 178, 117,
      9, 131,  44,  26,  27, 110,  90, 160,  82,  59, 214, 179,  41, 227,  47, 132,
     83, 209,   0, 237,  32, 252, 177,  91, 106, 203, 190,  57,  74,  76,  88, 207,
    208, 239, 170, 251,  67,  77,  51, 133,  69, 249,   2, 127,  80,  60, 159, 168,
     81, 163,  64, 143, 146, 157,  56, 245, 188, 182, 218,  33,  16, 255, 243, 210,
    205,  12,  19, 236,  95, 151,  68,  23, 196, 167, 126,  61, 100,  93,  25, 115,
     96, 129,  79, 220,  34,  42, 144, 136,  70, 238, 184,  20, 222,  94,  11, 219,
    224,  50,  58,  10,  73,   6,  36,  92, 194, 211, 172,  98, 145, 149, 228, 121,
    231, 200,  55, 109, 141, 213,  78, 169, 108,  86, 244, 234, 101, 122, 174,   8,
    186, 120,  37,  46,  28, 166, 180, 198, 232, 221, 116,  31,  75, 189, 139, 138,
    112,  62, 181, 102,  72,   3, 246,  14,  97,  53,  87, 185, 134, 193,  29, 158,
    225, 248, 152,  17, 105, 217, 142, 148, 155,  30, 135, 233, 206,  85,  40, 223,
    140, 161, 137,  13, 191, 230,  66, 104,  65, 153,  45,  15, 176,  84, 187,  22>>

Sbox(b) == SboxBytes[b + 1]

InvSboxBytes == <<
     82,   9, 106, 213,  48,  54, 165,  56, 191,  64, 163, 158, 129, 243, 215, 251,
    124, 227,  57, 130, 155,  47, 255, 135,  52, 142,  67,  68, 196, 222, 233, 203,
     84, 123, 148,  50, 166, 194,  35,  61, 238,  76, 149,  11,  66, 250, 195,  78,
      8,  46, 161, 102,  40, 217,  36, 178, 118,  91, 162,  73, 109, 139, 209,  37,
    114, 248, 246, 100, 134, 104, 152,  22, 212, 164,  92, 204,  93, 101, 182, 146,
    108, 112,  72,  80, 253, 237, 185, 218,  94,  21,  70,  87, 167, 141, 157, 132,
    144, 216, 171,   0, 140, 188, 211,  10, 247, 228,  88,   5, 184, 179,  69,   6,
    208,  44,  30, 143, 202,  63,  15,   2, 193, 175, 189,   3,   1,  19, 138, 107,
     58, 145,  17,  65,  79, 103, 220, 234, 151, 242, 207, 206, 240, 180, 230, 115,
    150, 172, 116,  34, 231, 173,  53, 133, 226, 249,  55, 232,  28, 117, 223, 110,
     71, 241,  26, 113,  29,  41, 197, 137, 111, 183,  98,  14, 170,  24, 190,  27,
    252,  86,  62,  75, 198, 210, 121,  32, 154, 219, 192, 254, 120, 205,  90, 244,
     31, 221, 168,  51, 136,   7, 199,  49, 177,  18,  16,  89,  39, 128, 236,  95,
     96,  81, 127, 169,  25, 181,  74,  13,  45, 229, 122, 159, 147, 201, 156, 239,
    160, 224,  59,  77, 174,  42, 245, 176, 200, 235, 187,  60, 131,  83, 153,  97,
     23,  43,   4, 126, 186, 119, 214,  38, 225, 105,  20,  99,  85,  33,  12, 125>>

InvSbox(b) == InvSboxBytes[b + 1]

-----------------------------------------------------------------------------
(***************************************************************************)
(* KeyExpansion makes the ten round keys behind the key itself, each from  *)
(* the one before it, column by column.                                    *)
(***************************************************************************)
RoundConstants == <<1, 2, 4, 8, 16, 32, 64, 128, 27, 54>>

Column(s, c) == SubSeq(s, 4 * c + 1, 4 * c + 4)

Xor4(a, b, c, d) == (a ^^ b) ^^ (c ^^ d)

XorColumns(a, b) == <<a[1] ^^ b[1], a[2] ^^ b[2], a[3] ^^ b[3], a[4] ^^ b[4]>>

\* The last column, rotated and substituted, with the round's constant.
Turned(t, rc) == <<Sbox(t[2]) ^^ rc, Sbox(t[3]), Sbox(t[4]), Sbox(t[1])>>

NextKey(key, rc) ==
  LET c0 == XorColumns(Column(key, 0), Turned(Column(key, 3), rc))
      c1 == XorColumns(Column(key, 1), c0)
      c2 == XorColumns(Column(key, 2), c1)
      c3 == XorColumns(Column(key, 3), c2)
  IN c0 \o c1 \o c2 \o c3

-----------------------------------------------------------------------------
(***************************************************************************)
(* InvCipher_t: one block, with the round keys s_w.                        *)
(***************************************************************************)
Doubled(b) == IF b >= 128 THEN ((2 * b) % 256) ^^ 27 ELSE 2 * b

Bit(a, i) == (a \div 2 ^ i) % 2

\* FFmul: the product in the field, for a below 16.
FFmul(a, b) ==
  LET bw == <<b, Doubled(b), Doubled(Doubled(b)), Doubled(Doubled(Doubled(b)))>>
  IN FoldLeft(LAMBDA res, i : IF Bit(a, i - 1) = 1 THEN res ^^ bw[i] ELSE res, 0, <<1, 2, 3, 4>>)

AddRoundKey(s, key) == Make(LAMBDA r, c : At(s, r, c) ^^ At(key, r, c))

InvSubBytes(s) == Make(LAMBDA r, c : InvSbox(At(s, r, c)))

\* Variant for a mutant run: the rows are shifted the other way.
ShiftRowsBack(s) == Make(LAMBDA r, c : At(s, r, (c + r) % 4))

InvShiftRows(s) == Make(LAMBDA r, c : At(s, r, (c - r + 4) % 4))

InvMixColumns(s) ==
  Make(LAMBDA r, c : Xor4(FFmul(14, At(s, r, c)), FFmul(11, At(s, (r + 1) % 4, c)),
                          FFmul(13, At(s, (r + 2) % 4, c)), FFmul(9, At(s, (r + 3) % 4, c))))

InvRound(s, keys, i) ==
  LET added == AddRoundKey(InvSubBytes(InvShiftRows(s)), keys[i + 1])
  IN IF i = 0 THEN added ELSE InvMixColumns(added)

-----------------------------------------------------------------------------
(***************************************************************************)
(* The reference: the cipher of FIPS 197, from its definition over the     *)
(* field of 256 elements; the tables of the source are compared with it.   *)
(***************************************************************************)
XTime(b) == IF b < 128 THEN 2 * b ELSE (2 * b) ^^ 283

\* The product in the field, from the highest bit of a to the lowest.
Product(a, b) ==
  FoldLeft(LAMBDA p, i : XTime(p) ^^ (IF Bit(a, i) = 1 THEN b ELSE 0), 0,
           <<7, 6, 5, 4, 3, 2, 1, 0>>)

Inverted(b) == IF b = 0 THEN 0 ELSE CHOOSE x \in Byte : Product(x, b) = 1

\* The affine map of the inverse.
FipsSbox(b) ==
  LET v == Inverted(b)
      out(i) == (Bit(v, i) + Bit(v, (i + 4) % 8) + Bit(v, (i + 5) % 8)
                   + Bit(v, (i + 6) % 8) + Bit(v, (i + 7) % 8) + Bit(99, i)) % 2
  IN out(0) + 2 * out(1) + 4 * out(2) + 8 * out(3)
       + 16 * out(4) + 32 * out(5) + 64 * out(6) + 128 * out(7)

FipsRound(s, key, mixes) ==
  LET sub == Make(LAMBDA r, c : Sbox(At(s, r, (c + r) % 4)))
      mix == Make(LAMBDA r, c : Xor4(Product(2, At(sub, r, c)), Product(3, At(sub, (r + 1) % 4, c)),
                                     At(sub, (r + 2) % 4, c), At(sub, (r + 3) % 4, c)))
  IN Make(LAMBDA r, c : At(IF mixes THEN mix ELSE sub, r, c) ^^ At(key, r, c))

-----------------------------------------------------------------------------
(***************************************************************************)
(* The work on a body, a round at a time: the keys are expanded, before    *)
(* the program starts, the terminal encrypts each block by the standard,   *)
(* and aes_dec decrypts block after block.  block is 0 until the body is   *)
(* received, then the block that is decrypted; round counts down.          *)
(***************************************************************************)
Work0(key, blocks) == [keys |-> <<key>>, data |-> blocks, block |-> 0, round |-> 0]

KeyExpansion(w) ==
  [w EXCEPT !.keys = Append(@, NextKey(Last(@), RoundConstants[Len(@)]))]

\* One round of the terminal on every block; the last one sends the body.
FipsStep(w) ==
  LET key == w.keys[w.round + 1]
      data == [n \in DOMAIN w.data |->
                 IF w.round = 0 THEN AddRoundKey(w.data[n], key)
                 ELSE FipsRound(w.data[n], key, w.round # 10)]
  IN IF w.round = 10 THEN [w EXCEPT !.data = data, !.block = 1]
     ELSE [w EXCEPT !.data = data, !.round = @ + 1]

\* One round of InvCipher_t on the current block; the last one goes to the next.
InvCipherStep(w) ==
  LET s == w.data[w.block]
      done == IF w.round = 10 THEN AddRoundKey(s, w.keys[11]) ELSE InvRound(s, w.keys, w.round)
      rest == [w EXCEPT !.data[w.block] = done]
  IN IF w.round = 0 THEN [rest EXCEPT !.block = @ + 1, !.round = 10]
     ELSE [rest EXCEPT !.round = @ - 1]

AesStep(w) ==
  IF Len(w.keys) < 11 THEN KeyExpansion(w)
  ELSE IF w.block = 0 THEN FipsStep(w)
  ELSE InvCipherStep(w)

Decrypted(w) == w.block > Len(w.data)
=============================================================================
