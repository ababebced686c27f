----------------------------- MODULE UrlVersion -----------------------------
(***************************************************************************)
(* The version uppm_formula_check takes from the file name at the end of   *)
(* bin-url when the formula has no `version' line.  A character stands for *)
(* its class: "1" a digit; "v" and "r" those letters in lower case, "V"    *)
(* and "R" in upper case, "x" any other lower-case letter; "." and "-"     *)
(* themselves ('_' and '@' are turned into '-' first); "?" anything else.  *)
(* A file name is a stem and one of the endings the code knows, or one it  *)
(* does not know.                                                          *)
(***************************************************************************)
EXTENDS Integers, Sequences, SequencesExt

Lower == {"v", "r", "x"}

\* The endings, as characters.  ".tar.xx" stands for .tar.gz, .tar.xz and
\* .tar.lz, ".txx" for .tgz, .txz, .tlz and .zip; ".1x" (as .7z) is unknown.
Ending ==
  [none |-> <<>>,
   tar_bz2 |-> <<".", "x", "x", "r", ".", "x", "x", "1">>,
   tar_gz |-> <<".", "x", "x", "r", ".", "x", "x">>,
   tbz2 |-> <<".", "x", "x", "x", "1">>,
   tgz |-> <<".", "x", "x", "x">>,
   unknown |-> <<".", "1", "x">>]

Archive == {"tar_bz2", "tar_gz", "tbz2", "tgz"}

\* Mutant: the branches for short names are tried for long ones too, and the
\* first that fits in length wins.
StrippedShort(length, ending) == length < 9 /\ ending \in Archive

\* Which ending is cut off depends on the length of the whole name: each branch
\* of the code tries the endings that are shorter than its limit, but only the
\* first branch tries them all.
Stripped(length, ending) ==
  \/ length > 8 /\ ending \in Archive
  \/ length = 8 /\ ending = "tar_gz"
  \/ length \in 6 .. 7 /\ ending = "tbz2"
  \/ length = 5 /\ ending = "tgz"

\* strtok(name, "-"): the non-empty pieces, in order.
Pieces(name) ==
  LET cut(done, c) == IF c = "-" THEN Append(done, <<>>)
                                 ELSE Append(Front(done), Append(Last(done), c))
  IN  SelectSeq(FoldLeft(cut, << <<>> >>, name), LAMBDA s : s # <<>>)

Digits(s) == s # <<>> /\ \A i \in DOMAIN s : s[i] = "1"

\* s without the one lower-case letter it may end in: [a-z]?$
Bodies(s) == {s} \cup (IF s # <<>> /\ Last(s) \in Lower THEN {Front(s)} ELSE {})

\* ^[0-9]+(\.[0-9]+)+[a-z]?$
Dotted(s) ==
  \E b \in Bodies(s) :
    /\ b # <<>> /\ b[1] = "1" /\ Last(b) = "1"
    /\ \A i \in DOMAIN b : b[i] \in {"1", "."}
    /\ \E i \in DOMAIN b : b[i] = "."
    /\ \A i \in 1 .. Len(b) - 1 : b[i] = "1" \/ b[i + 1] = "1"

\* The version a piece tells, or <<>>: the four patterns, in their order.
VersionOfPiece(s) ==
  IF Dotted(s) THEN s
  ELSE IF s[1] \in {"v", "V"} /\ Dotted(Tail(s)) THEN Tail(s)
  ELSE IF Digits(s) /\ Len(s) \in 3 .. 8 THEN s
  ELSE IF /\ s[1] \in {"v", "r", "R"}
          /\ \E b \in Bodies(Tail(s)) : Digits(b) /\ Len(b) \in 2 .. 8
    THEN Tail(s)
  ELSE <<>>

FirstVersion(pieces) ==
  LET hits == SelectSeq(pieces, LAMBDA s : VersionOfPiece(s) # <<>>)
  IN  IF hits = <<>> THEN <<>> ELSE VersionOfPiece(hits[1])

\* The version of a file name, or <<>> when none is found.
VersionOf(stem, ending) ==
  LET length == Len(stem) + Len(Ending[ending])
      name   == IF Stripped(length, ending) THEN stem ELSE stem \o Ending[ending]
  IN  FirstVersion(Pieces(name))

VARIABLES stem, ending    \* the file name at hand

\* Another formula is read: its URL ends in another file name.
LookAt(s, e) == stem' = s /\ ending' = e

\* The stretches of the stem between dashes that look like a version.
Candidates ==
  {s \in {SubSeq(stem, i, j) : i, j \in DOMAIN stem} :
     s # <<>> /\ "-" \notin Range(s) /\ VersionOfPiece(s) # <<>>}

\* The earliest of them, whole.
Earliest ==
  LET Whole == {<<i, j>> \in (DOMAIN stem) \X (DOMAIN stem) :
                  /\ SubSeq(stem, i, j) \in Candidates
                  /\ i = 1 \/ stem[i - 1] = "-"
                  /\ j = Len(stem) \/ stem[j + 1] = "-"}
  IN  IF Whole = {} THEN <<>>
      ELSE LET w == CHOOSE w \in Whole : \A v \in Whole : w[1] <= v[1]
           IN  VersionOfPiece(SubSeq(stem, w[1], w[2]))

(***************************************************************************)
(* The ending of an archive never finds its way into the version: the      *)
(* version is the earliest piece of the stem that looks like one.  Names of *)
(* at most eight characters may keep their ending (formula-parse.c:346 to  *)
(* 376 try some endings only), and then the version may be missing, but it *)
(* is never a wrong one.                                                   *)
(***************************************************************************)
NameTellsVersion ==
  ending \in Archive =>
    LET got == VersionOf(stem, ending)
    IN  \/ got = Earliest
        \/ got = <<>> /\ Len(stem) + Len(Ending[ending]) <= 8
=============================================================================
