------------------------------- MODULE Coders -------------------------------
(***************************************************************************)
(* `uppm util base16-encode', `base64-encode', `base64-decode' and          *)
(* `zlib-inflate' between two pipes.  The first three call read() and code  *)
(* each piece it returns by itself; a pipe returns what is there, be it     *)
(* less than the buffer.  The last one calls fread(), which goes on until   *)
(* the buffer is full or the input ends.                                    *)
(*                                                                         *)
(* What is coded are the bytes 1, 2, 3, ...: a byte is known by its place.  *)
(***************************************************************************)
EXTENDS Integers, Sequences, SequencesExt, FiniteSets

CONSTANTS
  MaxBytes,     \* bytes of input (bound)
  BufferSize,   \* BufferSize[verb]: 1024, 1023, 1024 and 16384 in the code
  MaxNewlines   \* newlines a base64 text may end in (bound)

Verb == {"base16-encode", "base64-encode", "base64-decode", "zlib-inflate"}

\* EVP_EncodeBlock writes a NUL after its output, and outputBuf has no room for
\* it; a buffer that is no multiple of three would break the code up.
ASSUME BufferAssumption ==
  /\ BufferSize \in [Verb -> Nat \ {0}]
  /\ BufferSize["base64-encode"] % 3 = 0 /\ BufferSize["base64-decode"] % 4 = 0

VARIABLES
  verb,
  input,   \* what comes through the pipe
  pos,     \* how much of it has been read
  reads,   \* the sizes of the pieces so far
  out,     \* what has been written to stdout
  exit     \* "none" while it runs

util == <<verb, input, pos, reads, out, exit>>

Bytes(n) == [i \in 1 .. n |-> i]

\* What else may stand in a text or an output, as numbers that are no bytes.
Pad     == 0     \* '=' in a base64 text, and the zero byte it decodes to
Newline == -1
Stale   == -2    \* a byte of outputBuf nobody wrote
End     == -3    \* the end mark of a zlib stream
Rest    == -4    \* the character of a group that no whole byte is left for

\* The groups of three bytes that base64 turns into four characters each; a
\* shorter last group is padded.
Groups(s) ==
  [g \in 1 .. (Len(s) + 2) \div 3 |->
     SubSeq(s, 3 * g - 2, IF 3 * g <= Len(s) THEN 3 * g ELSE Len(s))]

\* A base64 text of n bytes: four characters per group, and newlines.  The
\* characters of a group stand for its bytes, a pad for a missing one.
Characters(group) ==
  CASE Len(group) = 3 -> <<group[1], group[2], group[3], Rest>>
    [] Len(group) = 2 -> <<group[1], group[2], Rest, Pad>>
    [] Len(group) = 1 -> <<group[1], Rest, Pad, Pad>>

Base64Text(n, newlines) ==
  LET groups == Groups(Bytes(n))
  IN  FlattenSeq([g \in DOMAIN groups |-> Characters(groups[g])])
        \o [i \in 1 .. newlines |-> Newline]

(***************************************************************************)
(* The libraries.                                                          *)
(***************************************************************************)
\* EVP_DecodeBlock strips newlines at the end while more than three characters
\* are left; then the length must be a multiple of four and no newline inside.
Stripped64(piece) ==
  LET Kept == {i \in DOMAIN piece : i <= 3 \/ \E j \in i .. Len(piece) : piece[j] # Newline}
  IN  SubSeq(piece, 1, Cardinality(Kept))

Decodable(piece) ==
  LET s == Stripped64(piece)
  IN  Len(s) % 4 = 0 /\ \A i \in DOMAIN s : s[i] # Newline

\* Three bytes for every four characters, padded ones too.
Decoded(piece) ==
  LET s         == Stripped64(piece)
      triple(g) == SelectSeq(SubSeq(s, 4 * g - 3, 4 * g), LAMBDA c : c # Rest)
  IN  FlattenSeq([g \in 1 .. Len(s) \div 4 |-> triple(g)])

(***************************************************************************)
(* uppm_util                                                               *)
(***************************************************************************)
Init ==
  /\ verb \in Verb
  /\ \E n \in 0 .. MaxBytes :
       input \in CASE verb \in {"base16-encode", "base64-encode"} -> {Bytes(n)}
                   [] verb = "base64-decode" -> {Base64Text(n, k) : k \in 0 .. MaxNewlines}
                   [] verb = "zlib-inflate" -> {Bytes(n), Bytes(n) \o <<End>>,
                                                Bytes(n) \o <<End, Stale>>}
  /\ pos = 0 /\ reads = <<>> /\ out = <<>> /\ exit = "none"

Left == Len(input) - pos

\* How much one call may return: read() anything, fread() a full buffer.
Sizes ==
  LET most == IF Left < BufferSize[verb] THEN Left ELSE BufferSize[verb]
  IN  IF verb = "zlib-inflate" THEN {most} ELSE 1 .. most

\* Mutant: the bytes of the buffer are written, not those that were read.
Base16Whole(piece) == piece \o [i \in 1 .. BufferSize[verb] - Len(piece) |-> Stale]

Base16(piece) == piece

\* What is written for a piece; for base64-decode as many bytes as the piece has
\* groups of four characters, whatever the library made of them.
Coded(piece) ==
  CASE verb = "base16-encode" -> Base16(piece)
    [] verb = "base64-encode" -> Groups(piece)
    [] verb = "base64-decode" ->
         LET size == (Len(piece) \div 4) * 3
         IN  Decoded(piece) \o [i \in 1 .. size - Len(Decoded(piece)) |-> Stale]
    [] verb = "zlib-inflate" ->
         SubSeq(piece, 1, SelectInSeq(Append(piece, End), LAMBDA x : x = End) - 1)

Error(piece) == verb = "base64-decode" /\ ~Decodable(piece)

\* One turn of the loop: a piece is read, coded and written.
CodePiece ==
  /\ exit = "none" /\ Left > 0
  /\ \E n \in Sizes :
       LET piece == SubSeq(input, pos + 1, pos + n)
       IN  /\ pos' = pos + n /\ reads' = Append(reads, n)
           /\ IF Error(piece)
                THEN exit' = "error" /\ UNCHANGED out
                ELSE /\ out' = out \o Coded(piece)
                     /\ exit' = IF verb = "zlib-inflate" /\ Contains(piece, End)
                                  THEN "ok" ELSE "none"
  /\ UNCHANGED <<verb, input>>

\* The input ends; inflate has not seen the end mark then.
NoMore ==
  /\ exit = "none" /\ Left = 0
  /\ exit' = IF verb = "zlib-inflate" THEN "error" ELSE "ok"
  /\ UNCHANGED <<verb, input, pos, reads, out>>

\* write() fails or is not complete; inflate finds the stream damaged.
WriteFails ==
  /\ exit = "none" /\ Left > 0 /\ exit' = "error"
  /\ UNCHANGED <<verb, input, pos, reads, out>>

Next == CodePiece \/ NoMore \/ WriteFails

Spec == Init /\ [][Next]_util

(***************************************************************************)
(* After a success stdout holds the whole input, coded, whatever the sizes  *)
(* of the pieces: base16 always; base64 exactly if every piece but the last *)
(* is a multiple of three bytes, because each piece is padded by itself     *)
(* (util.c:177); a decoded text with a zero byte for every pad (util.c:258) *)
(* and, exactly if a piece ends in so many newlines that they count as      *)
(* groups, with bytes nobody wrote; an inflated stream up to its end mark,  *)
(* which must be there.                                                     *)
(***************************************************************************)
CodedIsWhole ==
  LET data == SelectSeq(input, LAMBDA x : x \in 1 .. MaxBytes)
      Whole == {i \in DOMAIN reads : i < Len(reads)}
      Start(i) == FoldLeft(LAMBDA x, y : x + y, 0, SubSeq(reads, 1, i - 1))
      piece(i) == SubSeq(input, Start(i) + 1, Start(i) + reads[i])
  IN  exit = "ok" =>
        CASE verb = "base16-encode" -> out = data
          [] verb = "base64-encode" ->
               (out = Groups(data)) <=> (\A i \in Whole : reads[i] % 3 = 0)
          [] verb = "base64-decode" ->
               /\ SelectSeq(out, LAMBDA x : x \in 1 .. MaxBytes) = data
               /\ (Stale \in Range(out)) <=>
                    \E i \in DOMAIN reads :
                      Len(piece(i)) \div 4 > Len(SelectSeq(piece(i), LAMBDA x : x # Newline)) \div 4
          [] verb = "zlib-inflate" -> out = data /\ End \in Range(input)
=============================================================================
