------------------------------ MODULE KeyedText ------------------------------
(***************************************************************************)
(* The three YAML files uppm reads: a formula, the receipt of an installed *)
(* package and the config of a formula repository.  None of them is parsed *)
(* as a tree: the readers walk over the tokens of libyaml and remember the *)
(* type of the last token and the last key.  The receipt is written by     *)
(* copying the formula text between two lines, the config by formatting    *)
(* its fields without quotes.                                              *)
(*                                                                         *)
(* A file is a sequence of entries, one top-level line with what is below  *)
(* it.  A text is a sequence of characters, each standing for its class:   *)
(* " " a blank, "H" a byte of 128 or more (of a character outside ASCII),  *)
(* "0" and "1" digits, "#" and ":" themselves, "-" a hyphen or a question   *)
(* mark, "@" what no token of YAML begins with (@ ` %), "{" what begins a   *)
(* tag, an anchor, an alias, a collection, a quoted or a block scalar       *)
(* (! & * [ ] { } , ' " | >), "x" anything else.                            *)
(***************************************************************************)
EXTENDS Integers, Sequences, SequencesExt

CONSTANTS
  ShaLength,   \* 64 in the code
  TimeLength,  \* 10 in the code
  VersionIn,   \* VersionIn[t]: the version told by the file name of URL t
  Stamp,       \* the time an installation writes
  Signature    \* the version of uppm it writes

Blank  == " "
High   == "H"
Digit  == {"0", "1"}
Unset  == <<>>   \* a field no entry has set: C strings that are set are not empty

\* A value is a plain scalar, nothing at all, a list, a scalar with a tag or an
\* anchor, a mapping with the one entry inner: text, or something that is not
\* YAML.
Shape == {"scalar", "none", "list", "tagged", "nested", "broken"}

E(key, shape, text, inner) == [key |-> key, shape |-> shape, text |-> text, inner |-> inner]

Scalar(key, text) == E(key, "scalar", text, "")

(***************************************************************************)
(* libyaml, as the readers see it.                                         *)
(***************************************************************************)
Mark(type) == [type |-> type, text |-> <<>>]

Word(text) == [type |-> "scalar", text |-> text]

Tokens(e) ==
  LET Key == <<Mark("key"), Word(e.key), Mark("value")>>
  IN  CASE e.shape = "scalar" -> Append(Key, Word(e.text))
        [] e.shape = "none"   -> Key
        [] e.shape \in {"list", "tagged"} -> Key \o <<Mark("other"), Word(e.text)>>
        [] e.shape = "nested" -> Key \o <<Mark("other"), Mark("key"), Word(e.inner),
                                           Mark("value"), Word(e.text), Mark("other")>>
        [] e.shape = "broken" -> <<Mark("bad")>>

Stream(file) == <<Mark("other")>> \o FlattenSeq([i \in DOMAIN file |-> Tokens(file[i])])
                  \o <<Mark("other")>>

(***************************************************************************)
(* The readers: [field]_key_code_from_key_name, [field]_set_value.         *)
(***************************************************************************)
Field(kind) ==
  CASE kind \in {"formula", "formula_musl"} ->
         {"summary", "version", "license", "webpage", "bin-url", "bin-sha", "dep-pkg", "unpackd",
          "install"}
    [] kind = "receipt" ->
         {"summary", "version", "license", "webpage", "bin-url", "bin-sha", "dep-pkg", "install",
          "timestamp", "signature"}
    [] kind = "repo" -> {"url", "branch", "pinned", "enabled", "created", "updated"}

\* The field a key sets; on Linux with musl two names stand for others.
FieldOf(kind, key) ==
  IF kind = "formula_musl" /\ key = "res-url" THEN "bin-url"
  ELSE IF kind = "formula_musl" /\ key = "res-sha" THEN "bin-sha"
  ELSE IF key \in Field(kind) THEN key
  ELSE "unknown"

\* value[0] <= 32 with a signed char: blanks and bytes of 128 and more.
Trimmed(text) ==
  LET Kept == {i \in DOMAIN text : text[i] \notin {Blank, High}}
  IN  IF Kept = {} THEN <<>>
      ELSE SubSeq(text, CHOOSE i \in Kept : \A j \in Kept : i <= j, Len(text))

Flag(kind, field) == kind = "repo" /\ field \in {"pinned", "enabled"}

NewFields(kind) ==
  [f \in Field(kind) |-> IF Flag(kind, f) THEN IF f = "enabled" THEN <<"1">> ELSE <<"0">>
                         ELSE Unset]

\* What is known while the tokens go by.  `made': the record is allocated at
\* the first scalar that is a value.
Reader(kind) ==
  [last |-> 0, field |-> "unknown", made |-> FALSE, fields |-> NewFields(kind), error |-> "none"]

\* Mutant: the first of two values of a key wins.
SetValueOnce(kind, r, text) ==
  IF r.field = "unknown" \/ Trimmed(text) = <<>> \/ r.fields[r.field] # Unset
    THEN [r EXCEPT !.made = TRUE]
    ELSE [r EXCEPT !.made = TRUE, !.fields[r.field] = Trimmed(text)]

SetValue(kind, r, text) ==
  LET value == Trimmed(text)
      new   == [r EXCEPT !.made = TRUE]
  IN  IF r.field = "unknown" \/ value = <<>> THEN new
      ELSE IF Flag(kind, r.field) /\ value \notin {<<"0">>, <<"1">>}
        THEN [new EXCEPT !.error = "scheme"]
      ELSE [new EXCEPT !.fields[r.field] = value]

Scan(kind, r, token) ==
  IF r.error # "none" THEN r
  ELSE CASE token.type = "bad"    -> [r EXCEPT !.error = "syntax"]
         [] token.type = "key"    -> [r EXCEPT !.last = 1]
         [] token.type = "value"  -> [r EXCEPT !.last = 2]
         [] token.type = "other"  -> [r EXCEPT !.last = 0]
         [] token.type = "scalar" ->
              IF r.last = 1 THEN [r EXCEPT !.field = FieldOf(kind, token.text)]
              ELSE IF r.last = 2 THEN SetValue(kind, r, token.text)
              ELSE r

(***************************************************************************)
(* [file]_check                                                            *)
(***************************************************************************)
Stamped(text) == Len(text) = TimeLength /\ \A i \in DOMAIN text : text[i] \in Digit

Required(kind) ==
  CASE kind \in {"formula", "formula_musl"} -> {"summary", "webpage", "bin-url", "bin-sha"}
    [] kind = "receipt" ->
         {"summary", "version", "webpage", "bin-url", "bin-sha", "signature", "timestamp"}
    [] kind = "repo" -> {"url", "branch", "created"}

\* The check completes a formula that tells no version.
Completed(kind, v) ==
  IF kind \in {"formula", "formula_musl"} /\ v.version = Unset
    THEN [v EXCEPT !.version = VersionIn[v["bin-url"]]]
    ELSE v

Checked(kind, v) ==
  /\ \A f \in Required(kind) : v[f] # Unset
  /\ kind # "repo" => Len(v["bin-sha"]) = ShaLength
  /\ kind = "receipt" => Stamped(v.timestamp)
  /\ kind = "repo" => /\ Stamped(v.created)
                      /\ v.updated # Unset => Stamped(v.updated)
  /\ kind \in {"formula", "formula_musl"} => Completed(kind, v).version # Unset

Answer(error, fields) == [error |-> error, fields |-> fields]

After(kind, file) ==
  LET step(r, token) == Scan(kind, r, token)
  IN  FoldLeft(step, Reader(kind), Stream(file))

\* A file without a single value leaves no record, and the check looks into it
\* all the same: the program ends with a segmentation fault.
Read(kind, file) ==
  LET r == After(kind, file)
  IN  IF r.error # "none" THEN Answer(r.error, NewFields(kind))
      ELSE IF ~r.made THEN Answer("crash", NewFields(kind))
      ELSE IF ~Checked(kind, r.fields) THEN Answer("scheme", NewFields(kind))
      ELSE Answer("none", Completed(kind, r.fields))

(***************************************************************************)
(* The writers.                                                            *)
(***************************************************************************)
\* Mutant: the formula text comes last.
ReceiptTextLast(file) ==
  <<Scalar("pkgname", <<"x">>), Scalar("signature", Signature), Scalar("timestamp", Stamp)>> \o file

ReceiptText(file) ==
  <<Scalar("pkgname", <<"x">>)>> \o file
    \o <<Scalar("signature", Signature), Scalar("timestamp", Stamp)>>

\* What libyaml takes for text after "key: " on a line of its own: blanks around
\* it are not part of the value, and a blank and "#" begin a comment.
Plain(text) ==
  LET Shown == {i \in DOMAIN text : text[i] # Blank}
      first == CHOOSE i \in Shown : \A j \in Shown : i <= j
      Stop  == {i \in DOMAIN text : text[i] = "#" /\ (i = 1 \/ text[i - 1] = Blank)}
      End   == {i \in Shown : \A k \in Stop : i < k}
      last  == CHOOSE i \in End : \A j \in End : j <= i
  IN  IF Shown = {} \/ End = {} THEN <<>> ELSE SubSeq(text, first, last)

\* A colon before a blank begins a value where none may be, a hyphen before a blank a
\* list entry.
Refused(t) ==
  LET Alone(i) == i = Len(t) \/ t[i + 1] = Blank
  IN  \/ t[1] = "@"
      \/ t[1] = "-" /\ Alone(1)
      \/ \E i \in DOMAIN t : t[i] = ":" /\ Alone(i)

\* The entries that the unquoted text may turn into: what begins another kind of node
\* is refused, is no value, or is a shorter text.
Unquoted(key, text) ==
  LET t == Plain(text)
  IN  IF t = <<>> THEN {E(key, "none", <<>>, "")}
      ELSE IF t[1] = "{"
        THEN {E(key, "broken", <<>>, ""), E(key, "list", t, "")}
               \cup {Scalar(key, SubSeq(t, 2, n)) : n \in 2 .. Len(t)}
      ELSE IF Refused(t) THEN {E(key, "broken", <<>>, "")}
      ELSE {Scalar(key, t)}

ConfigText(v) ==
  {<<url, branch, Scalar("pinned", v.pinned), Scalar("enabled", v.enabled),
     Scalar("created", v.created), updated>> :
       url \in Unquoted("url", v.url), branch \in Unquoted("branch", v.branch),
       updated \in Unquoted("updated", v.updated)}

(***************************************************************************)
(* A file on the disk, edited by hand or written by uppm.                  *)
(***************************************************************************)
VARIABLES
  kind,     \* which file it is; "formula_musl": a formula read on musl
  file,     \* its entries
  written   \* the settings uppm wrote it from, <<>> after an edit

text == <<kind, file, written>>

FileKind == {"formula", "formula_musl", "repo"}

AddEntry(e) == file' = Append(file, e) /\ written' = <<>> /\ UNCHANGED kind

DropEntry(i) == file' = RemoveAt(file, i) /\ written' = <<>> /\ UNCHANGED kind

\* formula-repo-add, -init, -conf and -sync.
WriteConfig(v) ==
  /\ kind = "repo"
  /\ file' \in ConfigText(v) /\ written' = v /\ UNCHANGED kind

(***************************************************************************)
(* In a file of plain lines a key means the last of its lines that has a   *)
(* value: a reader that accepts the file has every field from there        *)
(* (formula-parse.c:500 to 547 replaces what an earlier line set, and skips *)
(* blank ones), whatever other keys, repetitions and empty lines it holds. *)
(***************************************************************************)
LastLineWins ==
  LET Names(e, f)  == FieldOf(kind, e.key) = f /\ e.shape = "scalar"
      Lines(f)     == {i \in DOMAIN file : Names(file[i], f)}
      Meant(f)     == file[CHOOSE i \in Lines(f) : \A j \in Lines(f) : j <= i].text
      plain        == \A i \in DOMAIN file : /\ file[i].shape \in {"scalar", "none"}
                                             /\ file[i].shape = "scalar" =>
                                                  file[i].text[1] \notin {Blank, High}
      answer       == Read(kind, file)
  IN  plain => /\ answer.error # "syntax"
               /\ answer.error = "crash" => \A i \in DOMAIN file : file[i].shape = "none"
               /\ answer.error = "none" =>
                    \A f \in Field(kind) : Lines(f) # {} => answer.fields[f] = Meant(f)

(***************************************************************************)
(* What uppm writes it reads back.  A receipt (install.c:606 to 642) says   *)
(* what the formula said exactly when the formula has a version of its own *)
(* and does not rest on the names that only count on musl; a repository    *)
(* config (formula-repo-config-write.c:29, no quotes) exactly when URL and *)
(* branch neither begin nor end with a blank, nor begin with a byte        *)
(* outside ASCII or with what begins something else in YAML (`- ', '@',    *)
(* '!', '"' and so on), nor hold a blank and '#', or a colon before a      *)
(* blank or the end.                                                       *)
(***************************************************************************)
ReceiptReadsBack ==
  LET formula == Read(kind, file)
      receipt == Read("receipt", ReceiptText(file))
      same    == \A f \in Field(kind) \ {"unpackd"} : receipt.fields[f] = formula.fields[f]
      itself  == /\ After(kind, file).fields.version # Unset
                 /\ After(kind, file).fields = After("formula", file).fields
  IN  kind # "repo" /\ formula.error = "none" =>
        ((receipt.error = "none" /\ same) <=> itself)

ConfigReadsBack ==
  LET Pair(t)     == {<<t[i], t[i + 1]>> : i \in 1 .. Len(t) - 1}
      Survives(t) == /\ t # <<>>
                     /\ t[1] \notin {Blank, High, "#", "@", "{"} /\ Last(t) \notin {Blank, ":"}
                     /\ <<Blank, "#">> \notin Pair(t) /\ <<":", Blank>> \notin Pair(t)
                     /\ t[1] = "-" => Len(t) > 1 /\ t[2] # Blank
  IN  written # <<>> =>
        (Read("repo", file) = Answer("none", written)
           <=> Survives(written.url) /\ Survives(written.branch))

WrittenReadsBack == ReceiptReadsBack /\ ConfigReadsBack
=============================================================================
