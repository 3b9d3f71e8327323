----------------------------- MODULE Algorithms -----------------------------
(***************************************************************************)
(* The sequential parts of the program, each called once with any of its   *)
(* inputs: those of Routines, and the decryption of a body (Aes).          *)
(***************************************************************************)
EXTENDS Routines, Aes, SequencesExt

CONSTANTS
  Keys,       \* AES keys
  Plains,     \* bodies before their encryption, as sequences of blocks
  Examples    \* keys, bodies and their ciphers, from the standard

ASSUME BlockAssumption ==
  \A k \in Keys \cup UNION {ToSet(p) : p \in Plains} : k \in Seq(Byte) /\ Len(k) = 16

VARIABLE work  \* of aes_dec: the keys and the body, round by round (Aes)

vars == <<call, work, out>>

Calls ==
  RoutineCalls
    \cup [name : {"aes_dec"}, key : Keys, plain : Plains]
    \cup [name : {"sbox"}, byte : Byte]

NoWork == "no work"

Init ==
  /\ call \in Calls
  /\ work = IF call.name = "aes_dec" THEN Work0(call.key, call.plain) ELSE NoWork
  /\ out = <<>>

AesRound ==
  /\ call.name = "aes_dec" /\ ~Returned /\ ~Decrypted(work)
  /\ work' = AesStep(work)
  /\ UNCHANGED <<call, out>>

AesReturns ==
  /\ call.name = "aes_dec" /\ Decrypted(work)
  /\ Return("aes_dec", work.data)
  /\ UNCHANGED work

Substitutes ==
  /\ call.name = "sbox"
  /\ Return("sbox", <<Sbox(call.byte), InvSbox(call.byte)>>)
  /\ UNCHANGED work

Next == AesRound \/ AesReturns \/ Substitutes \/ (Routine /\ UNCHANGED work)

Spec == Init /\ [][Next]_vars

-----------------------------------------------------------------------------
\* aes_dec undoes the cipher of FIPS 197, block after block, and the two tables
\* of the source are the standard's (pos_terminal_parser.cpp:11-224); so is the
\* reference, as far as the standard's example tells.
DecryptsCipher ==
  /\ call.name = "aes_dec" =>
       /\ Returned => Result = call.plain
       /\ (work.block = 1 /\ work.round = 10) =>
            \A e \in Examples : (e.key = call.key /\ e.plain = call.plain)
                                  => e.cipher = work.data
  /\ (call.name = "sbox" /\ Returned) =>
       Result[1] = FipsSbox(call.byte) /\ FipsSbox(Result[2]) = call.byte
=============================================================================
