------------------------------- MODULE MCTexts -------------------------------
(***************************************************************************)
(* The texts uppm reads and writes: one file of each kind, edited up to    *)
(* MaxEdits times; the file name a URL ends in; what `uppm util' codes.     *)
(* A behaviour is about one of the three, the other two stay where they are. *)
(***************************************************************************)
EXTENDS KeyedText, UrlVersion, Coders

CONSTANTS MaxEdits, MaxStem

VARIABLES
  about,   \* which of the three
  edits    \* hand edits so far

\* The version in a URL: the one in its last name.
MCVersionIn == [t \in UNION {[1 .. n -> {"x", "1", " ", "H", "#"}] : n \in 1 .. 3} |->
                  VersionOf(t, "none")]

MCStamp == <<"1", "0">>
MCSignature == <<"1">>

Texts == {<<"x">>, <<"1", "1">>, <<"1", "1", "1">>, <<" ", "x">>, <<"H", "x", "x">>, <<" ">>}

Whole ==
  <<Scalar("summary", <<"x">>), Scalar("version", <<"1">>), Scalar("webpage", <<"x">>),
    Scalar("bin-url", <<"1", "1", "1">>), Scalar("bin-sha", <<"x", "1">>)>>

Keys == {"summary", "version", "bin-url", "bin-sha", "res-url", "res-sha", "timestamp", "remark"}

NewEntries ==
  {Scalar(k, t) : k \in Keys, t \in Texts} \cup {E(k, "none", <<>>, "") : k \in Keys}
    \cup {E(k, s, <<"x">>, "") : k \in {"version", "bin-url"}, s \in {"list", "tagged"}}
    \cup {E(k, "nested", <<"1", "1">>, i) : k \in {"remark", "version"}, i \in Keys}
    \cup {E("remark", "broken", <<>>, "")}

NewRepoEntries ==
  {Scalar(k, t) : k \in {"url", "pinned", "enabled", "created", "updated"},
                  t \in {<<"0">>, <<"1">>, <<"1", "1">>, <<"x", "x">>, <<"H", "x">>}}
    \cup {E(k, "none", <<>>, "") : k \in {"url", "enabled"}}

UrlTexts == UNION {[1 .. n -> {"x", " ", "#", "H", ":", "-", "@", "{"}] : n \in 0 .. 3}
Branches == {<<"x">>, <<>>, <<"x", " ">>, <<"{", "x">>}

Config(url, branch, pinned, updated) ==
  [url |-> url, branch |-> branch, pinned |-> pinned, enabled |-> <<"1">>,
   created |-> <<"1", "0">>, updated |-> updated]

Written == {Config(u, b, p, t) : u \in UrlTexts, b \in Branches,
                                 p \in {<<"0">>, <<"1">>}, t \in {<<>>, <<"1", "1">>}}

MCBufferSize == [v \in Verb |-> IF v = "base64-encode" THEN 6 ELSE 8]

MCInit ==
  /\ about \in {"files", "names", "pipes"}
  /\ edits = 0 /\ written = <<>> /\ stem = <<>> /\ ending = "none"
  /\ IF about = "files"
       THEN \/ kind \in {"formula", "formula_musl"} /\ file = Whole
            \/ kind = "repo" /\ file \in ConfigText(Config(<<"x">>, <<"x">>, <<"0">>, <<>>))
       ELSE kind = "repo" /\ file = <<>>
  /\ Init /\ (about # "pipes" => verb = "zlib-inflate" /\ input = <<>>)

Edit ==
  /\ edits < MaxEdits /\ written = <<>> /\ edits' = edits + 1
  /\ \/ \E e \in IF kind = "repo" THEN NewRepoEntries ELSE NewEntries : AddEntry(e)
     \/ \E i \in DOMAIN file : DropEntry(i)

Rewrite ==
  /\ edits = 0 /\ written = <<>> /\ UNCHANGED edits
  /\ \E v \in Written : WriteConfig(v)

Name ==
  /\ Len(stem) < MaxStem
  /\ \/ \E c \in {"1", "v", "x", ".", "-"} : LookAt(Append(stem, c), ending)
     \/ ending = "none" /\ \E e \in DOMAIN Ending : LookAt(stem, e)

MCNext ==
  /\ UNCHANGED about
  /\ \/ about = "files" /\ (Edit \/ Rewrite) /\ UNCHANGED <<stem, ending, util>>
     \/ about = "names" /\ Name /\ UNCHANGED <<edits, text, util>>
     \/ about = "pipes" /\ Next /\ UNCHANGED <<edits, text, stem, ending>>

MCSpec == MCInit /\ [][MCNext]_<<about, edits, stem, ending, text, util>>
=============================================================================
