--------------------------- MODULE DownloadProofs ---------------------------
(***************************************************************************)
(* For any processes, files and texts: a download puts nothing in place    *)
(* but the file that was asked for, and the url is the line the program    *)
(* printed, in whatever pieces it came through the pipe.                   *)
(***************************************************************************)
EXTENDS Download, SequenceTheorems, TLAPS

-----------------------------------------------------------------------------
(***************************************************************************)
(* The inductive invariant.                                                *)
(***************************************************************************)
\* The url has yet to be made; it has been made.
Before(p) == pc[p] \in {"idle", "stat", "url"} \/ (pc[p] = "mkdir" /\ IsDownload(p))
After(p)  == \/ pc[p] \in {"open", "transfer", "check", "rename", "copy"}
             \/ pc[p] = "mkdir" /\ ~IsDownload(p)

Steps == {"idle", "stat", "mkdir", "url", "read", "wait", "open", "transfer", "check",
          "rename", "copy", "done"}

DownloadTypes ==
  /\ command \in [Pid -> CommandLine \cup {None}]
  /\ pc \in [Pid -> Steps]
  /\ child \in [Pid -> {"none", "running", "ok", "failed"}]
  /\ rest \in [Pid -> Seq(Character)] /\ printed \in [Pid -> Seq(Character)]
  /\ pipe \in [Pid -> Seq(Character)] /\ url \in [Pid -> Seq(Character)]
  /\ tmp \in [Pid -> Content \cup {Cut, None}]
  /\ file \in [Output -> Content \cup {Cut, None, "directory"}]
  /\ exit \in [Pid -> {"none", "ok", "error", "mismatch", "killed"}]

\* A process that has begun has a command.
CommandOK(p) == pc[p] # "idle" => command[p] \in CommandLine

\* A download has no temporary file before the transfer, and the one that was asked
\* for when it renames it; only a script is copied.
TmpOK(p) ==
  /\ Before(p) \/ pc[p] \in {"read", "wait", "open"} => tmp[p] = None
  /\ pc[p] = "rename" /\ IsDownload(p) => tmp[p] = command[p].sha
  /\ pc[p] = "stat" => IsDownload(p)
  /\ pc[p] = "copy" => ~IsDownload(p)

\* What has been read is a part of what the program prints; the pipe holds what follows,
\* and then comes what has yet to be printed.  The url is what has been read.
Flow(p, taken) ==
  /\ printed[p] = taken \o (pipe[p] \o rest[p])
  /\ IsLine(printed[p]) => url[p] = First(Line(taken), UrlSize)

\* The reading goes on while there is room and stops when there is none or nothing more
\* to be read; a program that ends well has printed everything.
PipeOK(p) ==
  /\ Before(p) => child[p] = "none" /\ pipe[p] = <<>> /\ url[p] = <<>>
  /\ child[p] = "ok" => rest[p] = <<>>
  /\ pc[p] \in {"read", "wait"} =>
       /\ command[p].transform /\ child[p] # "none"
       /\ \E taken \in Seq(Character) : Flow(p, taken)
  /\ pc[p] = "read" => Len(url[p]) < UrlSize
  /\ pc[p] = "wait" => Len(url[p]) = UrlSize \/ (pipe[p] = <<>> /\ child[p] # "running")
  /\ After(p) /\ command[p].transform =>
       /\ child[p] = "ok"
       /\ IsLine(printed[p]) => url[p] = First(Line(printed[p]), UrlSize)

DownloadInv ==
  /\ DownloadTypes
  /\ \A p \in Pid : CommandOK(p) /\ TmpOK(p) /\ PipeOK(p)

-----------------------------------------------------------------------------
(***************************************************************************)
(* Texts and their beginnings.                                             *)
(***************************************************************************)
LEMMA FirstProperties ==
  ASSUME NEW text \in Seq(Character), NEW n \in Nat
  PROVE  /\ First(text, n) \in Seq(Character)
         /\ Len(First(text, n)) = IF Len(text) < n THEN Len(text) ELSE n
         /\ \A i \in 1 .. Len(First(text, n)) : First(text, n)[i] = text[i]
<1> DEFINE m == IF Len(text) < n THEN Len(text) ELSE n
<1>1. m \in Nat /\ m <= Len(text) /\ First(text, n) = SubSeq(text, 1, m)
  BY LenProperties DEF First
<1> HIDE DEF m
<1>2. \A i \in 1 .. m : text[i] \in Character
  BY <1>1, ElementOfSeq, LenProperties
<1>3. /\ SubSeq(text, 1, m) \in Seq(Character) /\ Len(SubSeq(text, 1, m)) = m
      /\ \A i \in 1 .. m : SubSeq(text, 1, m)[i] = text[i]
  BY <1>1, <1>2, SubSeqProperties
<1> QED BY <1>1, <1>3 DEF m

LEMMA LineProperties ==
  ASSUME NEW text \in Seq(Character)
  PROVE  /\ Line(text) \in Seq(Character)
         /\ Len(Line(text)) = IF Len(text) > 0 /\ text[Len(text)] = Newline THEN Len(text) - 1 ELSE Len(text)
         /\ \A i \in 1 .. Len(Line(text)) : Line(text)[i] = text[i]
<1>1. CASE Len(text) > 0 /\ text[Len(text)] = Newline
  <2>1. Line(text) = First(text, Len(text) - 1) /\ Len(text) - 1 \in Nat
    BY <1>1, LenProperties DEF Line, First
  <2> QED BY <1>1, <2>1, FirstProperties, LenProperties
<1>2. CASE ~(Len(text) > 0 /\ text[Len(text)] = Newline)
  BY <1>2 DEF Line
<1> QED BY <1>1, <1>2

\* What is kept of a piece is its line, as far as there is room.
LEMMA KeepIsFirstOfLine ==
  ASSUME NEW text \in Seq(Character), NEW room \in Nat
  PROVE  Keep(text, room) = First(Line(text), room)
  BY LenProperties, EmptySeq DEF Keep, Line, Last, Front

\* To read a piece more is to have the line of all that has been read.
LEMMA ReadingGoesOn ==
  ASSUME NEW taken \in Seq(Character), NEW piece \in Seq(Character), NEW left \in Seq(Character),
         piece # <<>>, IsLine(taken \o (piece \o left)),
         NEW u \in Seq(Character), u = First(Line(taken), UrlSize), Len(u) < UrlSize
  PROVE  u \o Keep(piece, UrlSize - Len(u)) = First(Line(taken \o piece), UrlSize)
<1> DEFINE m == Len(taken)
           k == Len(piece)
           both == taken \o piece
           all == taken \o (piece \o left)
           kept == First(Line(piece), UrlSize - Len(u))
           whole == First(Line(both), UrlSize)
<1>1. /\ m \in Nat /\ k \in Nat /\ k > 0 /\ UrlSize \in Nat /\ Len(u) \in Nat
      /\ UrlSize - Len(u) \in Nat /\ Len(left) \in Nat
  BY LenProperties, EmptySeq, DownloadAssumption
<1>2. /\ both \in Seq(Character) /\ Len(both) = m + k
      /\ \A i \in 1 .. m : both[i] = taken[i]
      /\ \A i \in 1 .. k : both[m + i] = piece[i]
  <2>1. \A i \in 1 .. k : both[m + i] = both[Len(taken) + i]
    OBVIOUS
  <2> QED BY <1>1, ConcatProperties, LenProperties
<1>3. /\ all \in Seq(Character) /\ Len(all) = m + (k + Len(left))
      /\ \A i \in 1 .. m : all[i] = taken[i]
      /\ \A i \in 1 .. k : all[m + i] = piece[i]
  BY <1>1, ConcatProperties, LenProperties
<1>4. \A i \in 1 .. m : taken[i] # Newline
  BY <1>1, <1>3 DEF IsLine
<1>5. Line(taken) = taken
  BY <1>1, <1>4 DEF Line
<1>6. Len(u) = m /\ \A i \in 1 .. m : u[i] = taken[i]
  BY <1>1, <1>5, FirstProperties
<1> HIDE DEF both, all
<1>7. /\ Line(piece) \in Seq(Character)
      /\ Len(Line(piece)) = IF piece[k] = Newline THEN k - 1 ELSE k
      /\ \A i \in 1 .. Len(Line(piece)) : Line(piece)[i] = piece[i]
  BY <1>1, LineProperties
<1>8. /\ Line(both) \in Seq(Character)
      /\ Len(Line(both)) = m + Len(Line(piece))
      /\ \A i \in 1 .. Len(Line(both)) : Line(both)[i] = both[i]
  <2>1. both[m + k] = piece[k] /\ m + k > 0
    BY <1>1, <1>2
  <2>2. /\ Line(both) \in Seq(Character)
        /\ Len(Line(both)) = IF Len(both) > 0 /\ both[Len(both)] = Newline THEN Len(both) - 1 ELSE Len(both)
        /\ \A i \in 1 .. Len(Line(both)) : Line(both)[i] = both[i]
    BY <1>2, LineProperties
  <2>3. Len(Line(both)) = IF piece[k] = Newline THEN m + k - 1 ELSE m + k
    BY <1>2, <2>1, <2>2
  <2>4. Len(Line(both)) = m + Len(Line(piece))
    BY <1>1, <1>7, <2>3
  <2> QED BY <2>2, <2>4
<1>9. /\ kept \in Seq(Character)
      /\ Len(kept) = IF Len(Line(piece)) < UrlSize - m THEN Len(Line(piece)) ELSE UrlSize - m
      /\ \A i \in 1 .. Len(kept) : kept[i] = Line(piece)[i]
  BY <1>1, <1>6, <1>7, FirstProperties
<1>10. /\ whole \in Seq(Character)
       /\ Len(whole) = IF Len(Line(both)) < UrlSize THEN Len(Line(both)) ELSE UrlSize
       /\ \A i \in 1 .. Len(whole) : whole[i] = Line(both)[i]
  BY <1>1, <1>8, FirstProperties
<1> HIDE DEF kept, whole
<1>11. /\ u \o kept \in Seq(Character) /\ Len(u \o kept) = m + Len(kept)
       /\ \A i \in 1 .. m : (u \o kept)[i] = u[i]
       /\ \A i \in 1 .. Len(kept) : (u \o kept)[m + i] = kept[i]
  <2>1. Len(kept) \in Nat /\ Len(u \o kept) = m + Len(kept) /\ u \o kept \in Seq(Character)
    <3>1. Len(u \o kept) = Len(u) + Len(kept) /\ u \o kept \in Seq(Character)
      BY <1>9, ConcatProperties
    <3> QED BY <1>6, <1>9, <3>1, LenProperties
  <2>2. \A i \in 1 .. m + Len(kept) : (u \o kept)[i] = IF i <= m THEN u[i] ELSE kept[i - m]
    BY <1>6, <1>9, ConcatProperties
  <2>3. ASSUME NEW i \in 1 .. Len(kept)
        PROVE  (u \o kept)[m + i] = kept[i]
    <3>1. m + i \in 1 .. m + Len(kept) /\ ~(m + i <= m) /\ (m + i) - m = i
      BY <1>1, <2>1
    <3> QED BY <2>2, <3>1
  <2>4. \A i \in 1 .. m : (u \o kept)[i] = u[i]
    BY <1>1, <2>1, <2>2
  <2> QED BY <2>1, <2>3, <2>4
<1>12. Len(u \o kept) = Len(whole)
  BY <1>1, <1>7, <1>8, <1>9, <1>10, <1>11, LenProperties
<1>13. ASSUME NEW i \in 1 .. Len(whole)
       PROVE  (u \o kept)[i] = whole[i]
  <2>1. whole[i] = both[i]
    BY <1>8, <1>10, <1>13, <1>1, LenProperties
  <2>2. CASE i <= m
    BY <1>1, <1>2, <1>6, <1>11, <2>1, <2>2
  <2>3. CASE i > m
    <3>1. PICK j \in 1 .. Len(kept) : i = m + j
      <4>1. i - m \in 1 .. Len(kept) /\ i = m + (i - m)
        BY <1>1, <1>9, <1>10, <1>11, <1>12, <1>13, <2>3, LenProperties
      <4> QED BY <4>1
    <3>2. j \in 1 .. Len(Line(piece)) /\ j \in 1 .. k
      BY <1>1, <1>7, <1>9, <3>1, LenProperties
    <3>3. (u \o kept)[m + j] = kept[j] /\ kept[j] = Line(piece)[j] /\ Line(piece)[j] = piece[j]
      BY <1>7, <1>9, <1>11, <3>1, <3>2
    <3>4. both[m + j] = piece[j]
      BY <1>2, <3>2
    <3> QED BY <2>1, <3>1, <3>3, <3>4
  <2>4. i \in Nat
    BY <1>10, <1>13, LenProperties
  <2>5. i <= m \/ i > m
    BY <1>1, <2>4
  <2> QED BY <2>2, <2>3, <2>5
<1>14. Keep(piece, UrlSize - Len(u)) = kept
  BY <1>1, KeepIsFirstOfLine DEF kept
<1>15. u \o kept = whole
  BY <1>10, <1>11, <1>12, <1>13, SeqEqual
<1> QED BY <1>14, <1>15 DEF both, whole

\* Once there is no room left, what comes makes no difference.
LEMMA FullIsFull ==
  ASSUME NEW taken \in Seq(Character), NEW left \in Seq(Character), IsLine(taken \o left),
         Len(First(Line(taken), UrlSize)) = UrlSize
  PROVE  First(Line(taken), UrlSize) = First(Line(taken \o left), UrlSize)
<1> DEFINE all == taken \o left
           a == First(Line(taken), UrlSize)
           b == First(Line(all), UrlSize)
<1>1. UrlSize \in Nat /\ Len(taken) \in Nat /\ Len(left) \in Nat
  BY DownloadAssumption, LenProperties
<1>2. /\ all \in Seq(Character) /\ Len(all) = Len(taken) + Len(left)
      /\ \A i \in 1 .. Len(taken) : all[i] = taken[i]
  BY ConcatProperties, LenProperties
<1> HIDE DEF all
<1>3. /\ Line(taken) \in Seq(Character) /\ Len(Line(taken)) \in Nat
      /\ Len(Line(taken)) = IF Len(taken) > 0 /\ taken[Len(taken)] = Newline THEN Len(taken) - 1 ELSE Len(taken)
      /\ \A i \in 1 .. Len(Line(taken)) : Line(taken)[i] = taken[i]
  BY LineProperties, LenProperties
<1>4. /\ a \in Seq(Character) /\ Len(a) = UrlSize /\ UrlSize <= Len(Line(taken))
      /\ \A i \in 1 .. UrlSize : a[i] = taken[i]
  <2>1. /\ a \in Seq(Character) /\ \A i \in 1 .. Len(a) : a[i] = Line(taken)[i]
        /\ Len(a) = IF Len(Line(taken)) < UrlSize THEN Len(Line(taken)) ELSE UrlSize
    BY <1>1, <1>3, FirstProperties
  <2>2. Len(a) = UrlSize /\ UrlSize <= Len(Line(taken))
    BY <1>1, <1>3, <2>1
  <2>3. ASSUME NEW i \in 1 .. UrlSize PROVE a[i] = taken[i]
    <3>1. i \in 1 .. Len(a) /\ i \in 1 .. Len(Line(taken))
      BY <1>1, <1>3, <2>2
    <3>2. a[i] = Line(taken)[i]
      BY <2>1, <3>1
    <3>3. Line(taken)[i] = taken[i]
      BY <1>3, <3>1
    <3> QED BY <3>2, <3>3
  <2> QED BY <2>1, <2>2, <2>3
<1>5. /\ Line(all) \in Seq(Character) /\ Len(Line(all)) \in Nat
      /\ Len(Line(all)) = IF Len(all) > 0 /\ all[Len(all)] = Newline THEN Len(all) - 1 ELSE Len(all)
      /\ \A i \in 1 .. Len(Line(all)) : Line(all)[i] = all[i]
  BY <1>2, LineProperties, LenProperties
<1>6. Len(Line(all)) >= UrlSize
  <2>1. CASE Len(taken) < Len(all)
    BY <1>1, <1>2, <1>3, <1>4, <1>5, <2>1
  <2>2. CASE Len(taken) = Len(all)
    <3>1. Len(taken) > 0 => all[Len(all)] = taken[Len(taken)]
      BY <1>1, <1>2, <2>2
    <3> QED BY <1>1, <1>2, <1>3, <1>4, <1>5, <2>2, <3>1
  <2> QED BY <1>1, <1>2, <2>1, <2>2
<1>7. /\ b \in Seq(Character) /\ Len(b) = UrlSize
      /\ \A i \in 1 .. UrlSize : b[i] = all[i]
  <2>1. /\ b \in Seq(Character) /\ \A i \in 1 .. Len(b) : b[i] = Line(all)[i]
        /\ Len(b) = IF Len(Line(all)) < UrlSize THEN Len(Line(all)) ELSE UrlSize
    BY <1>1, <1>5, FirstProperties
  <2> QED BY <1>1, <1>5, <1>6, <2>1
<1> HIDE DEF a, b
<1>8. ASSUME NEW i \in 1 .. UrlSize
      PROVE  a[i] = b[i]
  <2>1. i \in 1 .. Len(taken)
    BY <1>1, <1>3, <1>4
  <2> QED BY <1>2, <1>4, <1>7, <2>1
<1>9. a = b
  BY <1>4, <1>7, <1>8, SeqEqual
<1> QED BY <1>9 DEF a, b, all

\* A character that is printed goes from what is to be printed to the end of the pipe.
LEMMA PrintedInOrder ==
  ASSUME NEW held \in Seq(Character), NEW left \in Seq(Character), left # <<>>
  PROVE  Append(held, Head(left)) \o Tail(left) = held \o left
<1>1. /\ Head(left) \in Character /\ Tail(left) \in Seq(Character)
      /\ left = <<Head(left)>> \o Tail(left)
  BY HeadTailProperties, ConcatProperties
<1>2. <<Head(left)>> \in Seq(Character) /\ Append(held, Head(left)) = held \o <<Head(left)>>
  BY <1>1, AppendIsConcat
<1> QED BY <1>1, <1>2, ConcatAssociative

\* A piece that is read goes from the pipe to what has been read.
LEMMA ReadInOrder ==
  ASSUME NEW taken \in Seq(Character), NEW piece \in Seq(Character), NEW left \in Seq(Character)
  PROVE  /\ taken \o piece \in Seq(Character)
         /\ taken \o (piece \o left) = (taken \o piece) \o (<<>> \o left)
<1>1. <<>> \o left = left
  BY ConcatEmptySeq
<1>2. (taken \o piece) \o left = taken \o (piece \o left)
  BY ConcatAssociative
<1> QED BY <1>1, <1>2, ConcatProperties

\* The url never outgrows its buffer.
LEMMA RoomIsKept ==
  ASSUME NEW piece \in Seq(Character), NEW u \in Seq(Character), Len(u) < UrlSize
  PROVE  LET v == u \o Keep(piece, UrlSize - Len(u))
         IN  v \in Seq(Character) /\ Len(v) <= UrlSize
<1> DEFINE kept == First(Line(piece), UrlSize - Len(u))
<1>1. UrlSize \in Nat /\ Len(u) \in Nat /\ UrlSize - Len(u) \in Nat
  BY DownloadAssumption, LenProperties
<1>2. Keep(piece, UrlSize - Len(u)) = kept
  BY <1>1, KeepIsFirstOfLine
<1>3. /\ kept \in Seq(Character) /\ Len(Line(piece)) \in Nat
      /\ Len(kept) = IF Len(Line(piece)) < UrlSize - Len(u) THEN Len(Line(piece)) ELSE UrlSize - Len(u)
  BY <1>1, LineProperties, FirstProperties, LenProperties
<1> HIDE DEF kept
<1>4. u \o kept \in Seq(Character) /\ Len(u \o kept) = Len(u) + Len(kept)
  BY <1>3, ConcatProperties
<1> QED BY <1>1, <1>2, <1>3, <1>4

-----------------------------------------------------------------------------
(***************************************************************************)
(* The invariant is kept.                                                  *)
(***************************************************************************)
\* A step of one process and its program leaves the variables of the others alone.
Others(p) ==
  \A q \in Pid \ {p} :
    /\ command'[q] = command[q] /\ pc'[q] = pc[q] /\ child'[q] = child[q] /\ rest'[q] = rest[q]
    /\ printed'[q] = printed[q] /\ pipe'[q] = pipe[q] /\ url'[q] = url[q] /\ tmp'[q] = tmp[q]

OneOK(p) == CommandOK(p) /\ TmpOK(p) /\ PipeOK(p)

LEMMA OthersStayOK ==
  ASSUME DownloadInv, NEW p \in Pid, Others(p), DownloadTypes', OneOK(p)'
  PROVE  DownloadInv'
<1>1. ASSUME NEW q \in Pid, q # p
      PROVE  OneOK(q)'
  <2>1. /\ command'[q] = command[q] /\ pc'[q] = pc[q] /\ child'[q] = child[q] /\ rest'[q] = rest[q]
        /\ printed'[q] = printed[q] /\ pipe'[q] = pipe[q] /\ url'[q] = url[q] /\ tmp'[q] = tmp[q]
    BY <1>1 DEF Others
  <2>2. OneOK(q)
    BY DEF DownloadInv, OneOK
  <2>3. CommandOK(q)' /\ TmpOK(q)'
    BY <2>1, <2>2 DEF OneOK, CommandOK, TmpOK, Before, IsDownload
  <2>4. PipeOK(q)'
    BY <2>1, <2>2 DEF OneOK, PipeOK, Flow, Before, After, IsDownload
  <2> QED BY <2>3, <2>4 DEF OneOK
<1> QED BY <1>1 DEF DownloadInv, OneOK

LEMMA InitInv == Init => DownloadInv
  BY DownloadAssumption, EmptySeq
     DEF Init, DownloadInv, DownloadTypes, Steps, CommandOK, TmpOK, PipeOK, Before, After, IsDownload

\* A step that touches neither the program nor its pipe.
LEMMA QuietStep ==
  ASSUME DownloadInv, NEW p \in Pid, UNCHANGED script,
         \/ \E line \in CommandLine : Invoke(p, line)
         \/ StatOutput(p) \/ MakeParent(p) \/ OpenTmp(p) \/ \E c \in Content \cup {Cut} : Transfer(p, c)
         \/ Check(p) \/ Rename(p) \/ Copy(p) \/ Wait(p)
         \/ \E r \in {"error", "killed"} : Stop(p, r)
  PROVE  DownloadInv'
<1> USE DEF DownloadInv
<1>1. DownloadTypes' /\ Others(p)
  <2>1. ASSUME NEW line \in CommandLine, Invoke(p, line)
        PROVE  DownloadTypes' /\ Others(p)
    BY <2>1 DEF DownloadTypes, Others, Invoke, Goto, Steps, script, disk
  <2>2. CASE StatOutput(p) \/ MakeParent(p) \/ Check(p) \/ Wait(p)
    BY <2>2 DEF DownloadTypes, Others, StatOutput, MakeParent, Check, Wait, Goto, Exit, Steps, script, disk
  <2>3. ASSUME NEW c \in Content \cup {Cut}, OpenTmp(p) \/ Transfer(p, c)
        PROVE  DownloadTypes' /\ Others(p)
    <3>1. PICK t \in Content \cup {Cut}, s \in {"transfer", "check", "mkdir"} :
            tmp' = [tmp EXCEPT ![p] = t] /\ pc' = [pc EXCEPT ![p] = s]
      BY <2>3 DEF OpenTmp, Transfer, Goto
    <3>2. UNCHANGED <<command, script, file, exit>>
      BY <2>3 DEF OpenTmp, Transfer, Goto
    <3> QED BY <3>1, <3>2 DEF DownloadTypes, Others, Steps, script
  <2>4. CASE Rename(p) \/ Copy(p)
    <3>1. PICK s \in {"copy", "done"} : pc' = [pc EXCEPT ![p] = s]
      BY <2>4 DEF Rename, Copy, Goto, Exit
    <3>2. PICK r \in {"ok", "error", exit[p]} : exit' = [exit EXCEPT ![p] = r]
      BY <2>4 DEF Rename, Copy, Goto, Exit, DownloadTypes
    <3>3. file' \in [Output -> Content \cup {Cut, None, "directory"}]
      BY <2>4 DEF Rename, Copy, DownloadTypes
    <3>4. tmp' = tmp \/ tmp' = [tmp EXCEPT ![p] = None]
      BY <2>4 DEF Rename, Copy
    <3>5. UNCHANGED <<command, script>>
      BY <2>4 DEF Rename, Copy
    <3> QED BY <3>1, <3>2, <3>3, <3>4, <3>5 DEF DownloadTypes, Others, Steps, script
  <2>5. CASE \E r \in {"error", "killed"} : Stop(p, r)
    BY <2>5 DEF DownloadTypes, Others, Stop, Exit, Steps, script, disk
  <2> QED BY <2>1, <2>2, <2>3, <2>4, <2>5
<1>2. /\ pc[p] \in Steps /\ CommandOK(p) /\ TmpOK(p) /\ PipeOK(p)
      /\ child'[p] = child[p] /\ rest'[p] = rest[p] /\ printed'[p] = printed[p]
      /\ pipe'[p] = pipe[p] /\ url'[p] = url[p]
  BY DEF DownloadTypes, script
<1>3. ASSUME NEW line \in CommandLine, Invoke(p, line)
      PROVE  OneOK(p)'
  <2>1. /\ pc[p] = "idle" /\ command'[p] = line /\ tmp'[p] = tmp[p]
        /\ pc'[p] = IF line.verb = "download" THEN "stat" ELSE "url"
    BY <1>3 DEF Invoke, Goto, disk, DownloadTypes
  <2> QED BY <1>2, <2>1 DEF OneOK, CommandOK, TmpOK, PipeOK, Before, After, IsDownload
<1>4. ASSUME StatOutput(p) \/ MakeParent(p)
      PROVE  OneOK(p)'
  <2>1. /\ command'[p] = command[p] /\ tmp'[p] = tmp[p]
        /\ \/ pc[p] = "stat" /\ pc'[p] \in {"done", "mkdir"}
           \/ pc[p] = "mkdir" /\ pc'[p] = "done"
           \/ pc[p] = "mkdir" /\ pc'[p] = IF IsDownload(p) THEN "url" ELSE "rename"
    <3>1. CASE StatOutput(p)
      <4>1. PICK s \in {"done", "mkdir"} : pc' = [pc EXCEPT ![p] = s]
        BY <3>1 DEF StatOutput, Goto, Exit
      <4> QED BY <3>1, <4>1 DEF StatOutput, disk, DownloadTypes
    <3>2. CASE MakeParent(p)
      <4>1. pc[p] = "mkdir" /\ command' = command /\ tmp' = tmp
        BY <3>2 DEF MakeParent
      <4>2. CASE parent = "file"
        <5>1. pc' = [pc EXCEPT ![p] = "done"]
          BY <3>2, <4>2 DEF MakeParent, Exit
        <5> QED BY <4>1, <5>1 DEF DownloadTypes
      <4>3. CASE parent # "file"
        <5>1. PICK s : s = (IF IsDownload(p) THEN "url" ELSE "rename") /\ pc' = [pc EXCEPT ![p] = s]
          BY <3>2, <4>3 DEF MakeParent, Goto
        <5>2. pc'[p] = s
          BY <5>1 DEF DownloadTypes
        <5> QED BY <4>1, <5>1, <5>2
      <4> QED BY <4>2, <4>3
    <3> QED BY <1>4, <3>1, <3>2
  <2> QED BY <1>2, <2>1 DEF OneOK, CommandOK, TmpOK, PipeOK, Before, After, IsDownload
<1>5. ASSUME OpenTmp(p) \/ \E c \in Content \cup {Cut} : Transfer(p, c)
      PROVE  OneOK(p)'
  <2>1. /\ command'[p] = command[p]
        /\ \/ pc[p] = "open" /\ pc'[p] = "transfer"
           \/ pc[p] = "transfer" /\ pc'[p] = IF IsDownload(p) THEN "check" ELSE "mkdir"
    BY <1>5 DEF OpenTmp, Transfer, Goto, DownloadTypes
  <2> QED BY <1>2, <2>1 DEF OneOK, CommandOK, TmpOK, PipeOK, Before, After, IsDownload
<1>6. ASSUME Check(p)
      PROVE  OneOK(p)'
  <2>1. /\ pc[p] = "check" /\ command'[p] = command[p] /\ tmp'[p] = tmp[p]
        /\ \/ pc'[p] = "done"
           \/ pc'[p] = "rename" /\ tmp[p] = command[p].sha
    BY <1>6 DEF Check, Goto, Exit, disk, DownloadTypes
  <2> QED BY <1>2, <2>1 DEF OneOK, CommandOK, TmpOK, PipeOK, Before, After, IsDownload
<1>7. ASSUME Rename(p) \/ Copy(p)
      PROVE  OneOK(p)'
  <2>1. /\ pc[p] \in {"rename", "copy"} /\ command'[p] = command[p]
        /\ pc'[p] = "done" \/ (pc'[p] = "copy" /\ ~IsDownload(p))
    BY <1>7 DEF Rename, Copy, Goto, Exit, DownloadTypes
  <2> QED BY <1>2, <2>1 DEF OneOK, CommandOK, TmpOK, PipeOK, Before, After, IsDownload
<1>8. ASSUME \E r \in {"error", "killed"} : Stop(p, r)
      PROVE  OneOK(p)'
  <2>1. pc[p] # "idle" /\ pc'[p] = "done" /\ command'[p] = command[p]
    BY <1>8 DEF Stop, Exit, DownloadTypes
  <2> QED BY <1>2, <2>1 DEF OneOK, CommandOK, TmpOK, PipeOK, Before, After, IsDownload
<1>9. ASSUME Wait(p)
      PROVE  OneOK(p)'
  <2>1. /\ pc[p] = "wait" /\ child[p] # "running" /\ command'[p] = command[p] /\ tmp'[p] = tmp[p]
        /\ pc'[p] = "done" \/ (pc'[p] = "open" /\ child[p] # "failed" /\ url[p] # <<>>)
    BY <1>9 DEF Wait, Goto, Exit, disk, DownloadTypes
  <2>2. CASE pc'[p] = "done"
    BY <1>2, <2>1, <2>2 DEF OneOK, CommandOK, TmpOK, PipeOK, Before, After
  <2>3. CASE pc'[p] = "open"
    <3>1. PICK taken \in Seq(Character) : Flow(p, taken)
      BY <1>2, <2>1 DEF PipeOK
    <3>2. pipe[p] \in Seq(Character) /\ rest[p] \in Seq(Character) /\ printed[p] \in Seq(Character)
      BY DEF DownloadTypes
    <3>3. ASSUME IsLine(printed[p])
          PROVE  url[p] = First(Line(printed[p]), UrlSize)
      <4>1. CASE Len(url[p]) = UrlSize
        <5>1. pipe[p] \o rest[p] \in Seq(Character)
          BY <3>2, ConcatProperties
        <5>2. printed[p] = taken \o (pipe[p] \o rest[p]) /\ url[p] = First(Line(taken), UrlSize)
          BY <3>1, <3>3 DEF Flow
        <5> QED BY <3>3, <4>1, <5>1, <5>2, FullIsFull
      <4>2. CASE pipe[p] = <<>> /\ child[p] = "ok"
        <5>1. rest[p] = <<>>
          BY <1>2, <4>2 DEF PipeOK
        <5>2. printed[p] = taken \o (<<>> \o <<>>)
          BY <3>1, <4>2, <5>1 DEF Flow
        <5>3. <<>> \o <<>> = <<>> /\ taken \o <<>> = taken
          BY ConcatEmptySeq, EmptySeq
        <5> QED BY <3>1, <3>3, <5>2, <5>3 DEF Flow
      <4> QED BY <1>2, <2>1, <2>3, <4>1, <4>2 DEF PipeOK, DownloadTypes
    <3>4. child[p] = "ok"
      BY <1>2, <2>1, <2>3 DEF PipeOK, DownloadTypes
    <3> QED BY <1>2, <2>1, <2>3, <3>3, <3>4 DEF OneOK, CommandOK, TmpOK, PipeOK, Before, After
  <2> QED BY <2>1, <2>2, <2>3
<1> QED BY <1>1, <1>3, <1>4, <1>5, <1>6, <1>7, <1>8, <1>9, OthersStayOK

\* The program is started and prints, ends or fails; its parent reads.
LEMMA ScriptStep ==
  ASSUME DownloadInv, NEW p \in Pid,
         \/ \E text \in Printed : Transform(p, text)
         \/ ChildPrints(p) \/ ChildEnds(p) \/ ChildFails(p) \/ ReadPipe(p)
  PROVE  DownloadInv'
<1> USE DEF DownloadInv
<1>1. /\ pc[p] \in Steps /\ CommandOK(p) /\ TmpOK(p) /\ PipeOK(p)
      /\ rest[p] \in Seq(Character) /\ printed[p] \in Seq(Character)
      /\ pipe[p] \in Seq(Character) /\ url[p] \in Seq(Character)
  BY DEF DownloadTypes
<1>2. ASSUME NEW text \in Printed, Transform(p, text)
      PROVE  DownloadInv'
  <2>1. /\ pc[p] = "url" /\ text \in Seq(Character) /\ Before(p)
        /\ UNCHANGED <<command, tmp, file, exit, pipe, url>>
    BY <1>2, DownloadAssumption DEF Transform, Goto, script, disk, Before
  <2>2. CASE ~command[p].transform
    <3>1. pc' = [pc EXCEPT ![p] = "open"] /\ UNCHANGED <<child, rest, printed>>
      BY <1>2, <2>2 DEF Transform, Goto, script
    <3>2. DownloadTypes' /\ Others(p)
      BY <2>1, <3>1 DEF DownloadTypes, Others, Steps
    <3>3. pc'[p] = "open" /\ command'[p] = command[p] /\ tmp'[p] = tmp[p] /\ child'[p] = child[p]
      BY <2>1, <3>1 DEF DownloadTypes
    <3> QED BY <1>1, <2>1, <2>2, <3>2, <3>3, OthersStayOK
           DEF OneOK, CommandOK, TmpOK, PipeOK, Before, After
  <2>3. CASE command[p].transform
    <3>1. /\ pc' = [pc EXCEPT ![p] = "read"] /\ child' = [child EXCEPT ![p] = "running"]
          /\ rest' = [rest EXCEPT ![p] = text] /\ printed' = [printed EXCEPT ![p] = text]
      BY <1>2, <2>3 DEF Transform, Goto
    <3>2. DownloadTypes' /\ Others(p)
      BY <2>1, <3>1 DEF DownloadTypes, Others, Steps
    <3>3. /\ pc'[p] = "read" /\ command'[p] = command[p] /\ tmp'[p] = tmp[p] /\ child'[p] = "running"
          /\ rest'[p] = text /\ printed'[p] = text /\ pipe'[p] = <<>> /\ url'[p] = <<>>
      BY <1>1, <2>1, <3>1 DEF DownloadTypes, PipeOK
    <3>4. /\ text = <<>> \o (<<>> \o text) /\ First(Line(<<>>), UrlSize) = <<>>
          /\ <<>> \in Seq(Character) /\ Len(<<>>) < UrlSize
      <4>1. Line(<<>>) = <<>> /\ UrlSize \in Nat /\ Len(<<>>) < UrlSize /\ <<>> \in Seq(Character)
        BY EmptySeq, DownloadAssumption DEF Line
      <4>2. First(<<>>, UrlSize) = <<>>
        BY <4>1, FirstProperties, EmptySeq
      <4> QED BY <2>1, <4>1, <4>2, ConcatEmptySeq
    <3>5. Flow(p, <<>>)'
      BY <3>3, <3>4 DEF Flow
    <3> QED BY <1>1, <2>1, <2>3, <3>2, <3>3, <3>4, <3>5, OthersStayOK
           DEF OneOK, CommandOK, TmpOK, PipeOK, Before, After
  <2> QED BY <2>2, <2>3
<1>3. ASSUME ChildPrints(p)
      PROVE  DownloadInv'
  <2> DEFINE c == Head(rest[p])
  <2>1. /\ child[p] = "running" /\ rest[p] # <<>>
        /\ rest' = [rest EXCEPT ![p] = Tail(rest[p])] /\ pipe' = [pipe EXCEPT ![p] = Append(pipe[p], c)]
        /\ UNCHANGED <<command, pc, child, printed, url, tmp, file, exit>>
    <3>1. PICK s, t : s = rest[p] /\ t = pipe[p]
      OBVIOUS
    <3> QED BY <1>3, <3>1 DEF ChildPrints, disk
  <2>2. c \in Character /\ Tail(rest[p]) \in Seq(Character) /\ Append(pipe[p], c) \in Seq(Character)
    BY <1>1, <2>1, HeadTailProperties, AppendProperties
  <2>3. DownloadTypes' /\ Others(p)
    BY <2>1, <2>2 DEF DownloadTypes, Others
  <2>4. /\ pc'[p] = pc[p] /\ command'[p] = command[p] /\ tmp'[p] = tmp[p] /\ child'[p] = child[p]
        /\ printed'[p] = printed[p] /\ url'[p] = url[p]
        /\ rest'[p] = Tail(rest[p]) /\ pipe'[p] = Append(pipe[p], c)
    BY <2>1 DEF DownloadTypes
  <2>5. Append(pipe[p], c) \o Tail(rest[p]) = pipe[p] \o rest[p]
    BY <1>1, <2>1, <2>2, PrintedInOrder
  <2>6. ASSUME NEW taken \in Seq(Character), Flow(p, taken)
        PROVE  Flow(p, taken)'
    BY <2>4, <2>5, <2>6 DEF Flow
  <2>7. CommandOK(p)' /\ TmpOK(p)'
    BY <1>1, <2>4 DEF CommandOK, TmpOK, Before, IsDownload
  <2>8. PipeOK(p)'
    BY <1>1, <2>1, <2>4, <2>6 DEF PipeOK, Before, After, IsDownload
  <2> QED BY <2>3, <2>7, <2>8, OthersStayOK DEF OneOK
<1>4. ASSUME ChildEnds(p) \/ ChildFails(p)
      PROVE  DownloadInv'
  <2>1. PICK s \in {"ok", "failed"} : child' = [child EXCEPT ![p] = s] /\ (s = "ok" => rest[p] = <<>>)
    BY <1>4 DEF ChildEnds, ChildFails
  <2>2. child[p] = "running" /\ UNCHANGED <<command, pc, rest, printed, pipe, url, tmp, file, exit>>
    BY <1>4 DEF ChildEnds, ChildFails, disk
  <2>3. DownloadTypes' /\ Others(p)
    BY <2>1, <2>2 DEF DownloadTypes, Others
  <2>4. child'[p] = s
    BY <2>1 DEF DownloadTypes
  <2>5. CommandOK(p)' /\ TmpOK(p)'
    BY <1>1, <2>2 DEF CommandOK, TmpOK, Before, IsDownload
  <2>6. PipeOK(p)'
    BY <1>1, <2>1, <2>2, <2>4 DEF PipeOK, Flow, Before, After, IsDownload
  <2> QED BY <2>3, <2>5, <2>6, OthersStayOK DEF OneOK
<1>5. ASSUME ReadPipe(p)
      PROVE  DownloadInv'
  <2>1. /\ pc[p] = "read" /\ UNCHANGED <<command, child, rest, printed, tmp, file>>
    BY <1>5 DEF ReadPipe, disk
  <2>2. PICK taken \in Seq(Character) : Flow(p, taken)
    BY <1>1, <2>1 DEF PipeOK
  <2>3. CASE pipe[p] # <<>>
    <3> DEFINE u == url[p] \o Keep(pipe[p], UrlSize - Len(url[p]))
    <3>1. /\ url' = [url EXCEPT ![p] = u] /\ pipe' = [pipe EXCEPT ![p] = <<>>] /\ exit' = exit
          /\ pc' = [pc EXCEPT ![p] = IF Len(url'[p]) = UrlSize THEN "wait" ELSE "read"]
      <4>1. PICK v : v = url[p]
        OBVIOUS
      <4> QED BY <1>5, <2>3, <4>1 DEF ReadPipe, Goto
    <3>2. u \in Seq(Character) /\ Len(u) <= UrlSize
      BY <1>1, <2>1, <2>3, RoomIsKept DEF PipeOK
    <3> HIDE DEF u
    <3>3. DownloadTypes' /\ Others(p)
      BY <2>1, <3>1, <3>2, EmptySeq DEF DownloadTypes, Others, Steps
    <3>4. /\ command'[p] = command[p] /\ tmp'[p] = tmp[p] /\ child'[p] = child[p]
          /\ printed'[p] = printed[p] /\ rest'[p] = rest[p] /\ url'[p] = u /\ pipe'[p] = <<>>
          /\ pc'[p] = IF Len(u) = UrlSize THEN "wait" ELSE "read"
      BY <2>1, <3>1 DEF DownloadTypes
    <3>5. PICK more : more = taken \o pipe[p]
      OBVIOUS
    <3>6. more \in Seq(Character) /\ Flow(p, more)'
      <4>1. /\ more \in Seq(Character)
            /\ taken \o (pipe[p] \o rest[p]) = more \o (<<>> \o rest[p])
        BY <1>1, <3>5, ReadInOrder
      <4>2. ASSUME IsLine(printed[p])
            PROVE  u = First(Line(more), UrlSize)
        <5>1. /\ printed[p] = taken \o (pipe[p] \o rest[p]) /\ url[p] = First(Line(taken), UrlSize)
              /\ Len(url[p]) < UrlSize
          BY <1>1, <2>1, <2>2, <4>2 DEF Flow, PipeOK
        <5>2. IsLine(taken \o (pipe[p] \o rest[p]))
          BY <4>2, <5>1
        <5>3. url[p] \o Keep(pipe[p], UrlSize - Len(url[p])) = First(Line(taken \o pipe[p]), UrlSize)
          BY <1>1, <2>3, <5>1, <5>2, ReadingGoesOn
        <5> QED BY <3>5, <5>3 DEF u
      <4> QED BY <2>2, <3>4, <4>1, <4>2 DEF Flow
    <3>7. Len(u) \in Nat
      BY <3>2, LenProperties
    <3>8. PipeOK(p)'
      BY <1>1, <2>1, <3>2, <3>4, <3>6, <3>7, DownloadAssumption DEF PipeOK, Before, After
    <3>9. CommandOK(p)' /\ TmpOK(p)'
      BY <1>1, <2>1, <3>4 DEF CommandOK, TmpOK, Before
    <3> QED BY <3>3, <3>8, <3>9, OthersStayOK DEF OneOK
  <2>4. CASE pipe[p] = <<>>
    <3>1. /\ pc' = [pc EXCEPT ![p] = "wait"] /\ child[p] # "running" /\ UNCHANGED <<url, pipe, exit>>
      BY <1>5, <2>4 DEF ReadPipe, Goto
    <3>2. DownloadTypes' /\ Others(p)
      BY <2>1, <3>1 DEF DownloadTypes, Others, Steps
    <3>3. pc'[p] = "wait"
      BY <3>1 DEF DownloadTypes
    <3>4. Flow(p, taken)'
      BY <2>1, <2>2, <3>1 DEF Flow
    <3>5. PipeOK(p)'
      BY <1>1, <2>1, <2>4, <3>1, <3>3, <3>4 DEF PipeOK, Before, After
    <3>6. CommandOK(p)' /\ TmpOK(p)'
      BY <1>1, <2>1, <3>3 DEF CommandOK, TmpOK, Before
    <3> QED BY <3>2, <3>5, <3>6, OthersStayOK DEF OneOK
  <2> QED BY <2>3, <2>4
<1> QED BY <1>2, <1>3, <1>4, <1>5

LEMMA NextInv == DownloadInv /\ [Next]_vars => DownloadInv'
<1> SUFFICES ASSUME DownloadInv, [Next]_vars
             PROVE  DownloadInv'
  OBVIOUS
<1>1. CASE UNCHANGED vars
  BY <1>1 DEF DownloadInv, DownloadTypes, CommandOK, TmpOK, PipeOK, Flow, Before, After, IsDownload, vars
<1>2. ASSUME NEW p \in Pid,
             \/ \E line \in CommandLine : Invoke(p, line)
             \/ Step(p) \/ ChildStep(p) \/ ChildFails(p)
             \/ Stop(p, "error") \/ Stop(p, "killed")
      PROVE  DownloadInv'
  <2>1. CASE \/ \E text \in Printed : Transform(p, text)
             \/ ChildPrints(p) \/ ChildEnds(p) \/ ChildFails(p) \/ ReadPipe(p)
    BY <2>1, ScriptStep
  <2>2. CASE \/ \E line \in CommandLine : Invoke(p, line)
             \/ StatOutput(p) \/ MakeParent(p) \/ OpenTmp(p)
             \/ \E c \in Content \cup {Cut} : Transfer(p, c)
             \/ Check(p) \/ Rename(p) \/ Copy(p) \/ Wait(p)
             \/ \E r \in {"error", "killed"} : Stop(p, r)
    <3>1. UNCHANGED script
      BY <2>2 DEF Invoke, StatOutput, MakeParent, OpenTmp, Transfer, Check, Rename, Copy, Wait, Stop
    <3> QED BY <2>2, <3>1, QuietStep
  <2> QED BY <1>2, <2>1, <2>2 DEF Step, ChildStep
<1> QED BY <1>1, <1>2 DEF Next

\* The inductive invariant holds.
THEOREM DownloadInvHolds == Spec => []DownloadInv
  BY InitInv, NextInv, PTL DEF Spec

\* However the line comes through the pipe, the url is that line as far as there is
\* room, and is used only after the program has ended well.
THEOREM UrlIsTheLine == Spec => []UrlIsLine
<1>1. DownloadInv => UrlIsLine
  BY DEF DownloadInv, PipeOK, After, UrlIsLine
<1> QED BY <1>1, DownloadInvHolds, PTL

\* A download that succeeds has the file that was asked for in place, and no download
\* ever puts another one there.
THEOREM OnlyVerifiedFiles == Spec => OnlyVerified
<1> DEFINE P(p) == exit[p] = "none" /\ pc[p] # "idle" /\ IsDownload(p) =>
             LET f == command[p].out
             IN  /\ exit'[p] = "ok" => file'[f] = command[p].sha /\ tmp'[p] = None
                 /\ pc[p] # pc'[p] /\ file'[f] # file[f] => file'[f] = command[p].sha
<1>1. ASSUME DownloadInv, [Next]_vars, NEW p \in Pid
      PROVE  P(p)
  <2> SUFFICES ASSUME exit[p] = "none", pc[p] # "idle", IsDownload(p)
               PROVE  /\ exit'[p] = "ok" => file'[command[p].out] = command[p].sha /\ tmp'[p] = None
                      /\ pc[p] # pc'[p] /\ file'[command[p].out] # file[command[p].out] =>
                           file'[command[p].out] = command[p].sha
    OBVIOUS
  <2>1. /\ pc[p] \in Steps /\ CommandOK(p) /\ TmpOK(p) /\ command[p].out \in Output
        /\ pc \in [Pid -> Steps] /\ exit \in [Pid -> {"none", "ok", "error", "mismatch", "killed"}]
        /\ tmp \in [Pid -> Content \cup {Cut, None}]
        /\ file \in [Output -> Content \cup {Cut, None, "directory"}]
    BY <1>1, DownloadAssumption DEF DownloadInv, DownloadTypes, CommandOK
  <2>2. CASE exit'[p] = exit[p] /\ (pc'[p] = pc[p] \/ UNCHANGED file)
    BY <2>2
  <2>3. CASE Rename(p)
    <3>1. pc[p] = "rename" /\ tmp[p] = command[p].sha
      BY <2>1, <2>3 DEF Rename, TmpOK
    <3>2. CASE file[command[p].out] = "directory"
      BY <2>1, <2>3, <3>2 DEF Rename, Exit
    <3>3. CASE file[command[p].out] # "directory"
      BY <2>1, <2>3, <3>1, <3>3 DEF Rename, Exit
    <3> QED BY <3>2, <3>3
  <2>4. CASE StatOutput(p)
    <3>1. pc[p] = "stat" /\ tmp[p] = None /\ UNCHANGED <<tmp, file>>
      BY <2>1, <2>4 DEF StatOutput, TmpOK, Before, disk
    <3>2. exit'[p] = "ok" => file[command[p].out] = command[p].sha
      <4>1. CASE file[command[p].out] = "directory"
        BY <2>1, <2>4, <4>1 DEF StatOutput, Exit
      <4>2. CASE file[command[p].out] # "directory" /\ file[command[p].out] # command[p].sha
        BY <2>1, <2>4, <4>2 DEF StatOutput, Goto
      <4> QED BY <4>1, <4>2
    <3> QED BY <3>1, <3>2
  <2>5. CASE Copy(p)
    BY <2>1, <2>5 DEF Copy, TmpOK
  <2>6. ASSUME NEW q \in Pid, q # p,
               \/ \E line \in CommandLine : Invoke(q, line)
               \/ Step(q) \/ ChildStep(q) \/ ChildFails(q)
               \/ Stop(q, "error") \/ Stop(q, "killed")
        PROVE  exit'[p] = exit[p] /\ pc'[p] = pc[p]
    BY <2>1, <2>6 DEF Invoke, Step, ChildStep, ChildFails, Stop, StatOutput, MakeParent, Transform, ReadPipe,
         Wait, OpenTmp, Transfer, Check, Rename, Copy, ChildPrints, ChildEnds, Goto, Exit
  <2>7. CASE \/ \E line \in CommandLine : Invoke(p, line)
             \/ MakeParent(p) \/ Wait(p) \/ Check(p) \/ OpenTmp(p)
             \/ \E text \in Printed : Transform(p, text)
             \/ \E c \in Content \cup {Cut} : Transfer(p, c)
             \/ ReadPipe(p) \/ ChildStep(p) \/ ChildFails(p) \/ Stop(p, "error") \/ Stop(p, "killed")
    <3>1. UNCHANGED file
      BY <2>7 DEF Invoke, MakeParent, Wait, Check, OpenTmp, Transform, Transfer, ReadPipe, ChildStep,
           ChildPrints, ChildEnds, ChildFails, Stop, disk
    <3>2. exit'[p] # "ok"
      BY <2>1, <2>7 DEF Invoke, MakeParent, Wait, Check, OpenTmp, Transform, Transfer, ReadPipe, ChildStep,
           ChildPrints, ChildEnds, ChildFails, Stop, Goto, Exit
    <3> QED BY <3>1, <3>2
  <2>8. CASE UNCHANGED vars
    BY <2>8 DEF vars
  <2> QED BY <1>1, <2>3, <2>4, <2>5, <2>2, <2>6, <2>7, <2>8 DEF Next, Step
<1>2. DownloadInv /\ [Next]_vars => [\A p \in Pid : P(p)]_vars
  BY <1>1
<1> QED BY <1>2, DownloadInvHolds, PTL DEF Spec, OnlyVerified
=============================================================================
