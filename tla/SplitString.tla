----------------------------- MODULE SplitString -----------------------------
(***************************************************************************)
(* src/split.c: a string is cut into chunks, each of one mode, choosing    *)
(* between modes by what the switch of mode costs, and each chunk is       *)
(* appended to an input.  A string is a sequence of bytes (1..255); reading*)
(* past its end gives the terminating 0, as in C.                          *)
(***************************************************************************)
EXTENDS BitCounts

CONSTANTS Strings, Versions

ASSUME StringsAssumption == Strings \subseteq Seq(1..255) /\ Versions \subseteq 0..QRSPEC_VERSION_MAX

VARIABLES string,         \* as the caller gave it
          hint, casesensitive, version,
          text, pos,      \* the copy being cut, and the next byte to cut
          list,           \* the chunks appended to the input: [mode, data]
          from,           \* history: where each was cut
          status

vars == <<string, hint, casesensitive, version, text, pos, list, from, status>>

At(s, p) == IF p <= Len(s) THEN s[p] ELSE 0

Digits == 48..57
Alnums == Digits \cup 65..90 \cup {32, 36, 37, 42, 43, 45, 46, 47, 58}  \* A..Z space $%*+-./:
IsDigit(c) == c \in Digits
IsAlnum(c) == c \in Alnums
IsLower(c) == c \in 97..122
IsKanji(word) == word \in 33088..40956 \/ word \in 57408..60351

\* Faulty variant: half a character at the end of the string counts as one.
IdentifyHalf(s, p, hnt) ==
  IF At(s, p) = 0 THEN "NUL"
  ELSE IF IsDigit(At(s, p)) THEN "NUM"
  ELSE IF IsAlnum(At(s, p)) THEN "AN"
  ELSE IF hnt = "KANJI" /\ At(s, p) \in 129..235 THEN "KANJI" ELSE "B8"

Split_identifyMode(s, p, hnt) ==
  LET c == At(s, p)  d == At(s, p + 1)
  IN  IF c = 0 THEN "NUL"
      ELSE IF IsDigit(c) THEN "NUM"
      ELSE IF IsAlnum(c) THEN "AN"
      ELSE IF hnt = "KANJI" /\ d # 0 /\ IsKanji(c * 256 + d) THEN "KANJI" ELSE "B8"

(* A loop with a pointer: next[p] is where a turn at p leads, p itself when  *)
(* the loop ends there.  A pointer stays within `Places': the bytes, the 0  *)
(* and (in a faulty variant) the place behind it.                           *)
Places(s, start) == start..(Len(s) + 2)

Visited(next, start) ==
  LET path[p \in DOMAIN next] == IF next[p] = p THEN {p} ELSE {p} \cup path[next[p]]
  IN  path[start]
LoopEnd(next, start) == CHOOSE p \in Visited(next, start) : next[p] = p

ClassTurn(s, start, class) == [p \in Places(s, start) |-> IF At(s, p) \in class THEN p + 1 ELSE p]
DigitsEnd(s, p) == LoopEnd(ClassTurn(s, p, Digits), p)
AlnumEnd(s, p)  == LoopEnd(ClassTurn(s, p, Alnums), p)

Num(n)  == QRinput_estimateBitsModeNum(n)
An(n)   == QRinput_estimateBitsModeAn(n)
Byte(n) == QRinput_estimateBitsMode8(n)
HeadBits(mode, ver) == 4 + QRspec_lengthIndicator(mode, ver)

Piece(mode, run) == [mode |-> mode, run |-> run]
-----------------------------------------------------------------------------
(* The four eaters: the chunk each appends when called at p.                *)

\* What leaving byte mode for the bytes from p to q costs the bytes after.
SwitchCost(s, q, hnt, ver) ==
  IF Split_identifyMode(s, q, hnt) = "B8" THEN HeadBits("B8", ver) ELSE 0

\* A run up to q in another mode stays in byte mode when that is no dearer.
StaysInBytes(s, start, p, q, payload, mode, hnt, ver) ==
  Byte(p - start) + payload + HeadBits(mode, ver) + SwitchCost(s, q, hnt, ver) - Byte(q - start) >= 0

\* The first byte is not looked at.
BytesTurn(s, start, hnt, ver) ==
  [p \in Places(s, start) |->
     LET mode == Split_identifyMode(s, p, hnt)
         n    == DigitsEnd(s, p)
         a    == AlnumEnd(s, p)
     IN  CASE p = start -> p + 1
           [] p # start /\ mode \in {"NUL", "KANJI"} -> p
           [] p # start /\ mode = "NUM" ->
                IF StaysInBytes(s, start, p, n, Num(n - p), "NUM", hnt, ver) THEN n ELSE p
           [] p # start /\ mode = "AN" ->
                IF StaysInBytes(s, start, p, a, An(a - p), "AN", hnt, ver) THEN a ELSE p
           [] p # start /\ mode = "B8" -> p + 1]

\* Where byte mode, started at p, ends.  Faulty variant: Kanji is not seen.
BytesEndNoKanji(s, start, hnt, ver) == Len(s) + 1
BytesEnd(s, start, hnt, ver) == LoopEnd(BytesTurn(s, start, hnt, ver), start)

Split_eat8(s, p, hnt, ver) == Piece("B8", BytesEnd(s, p, hnt, ver) - p)

\* A run of digits up to q leaves alphanumeric mode when that is cheaper.
LeavesAn(s, start, p, q, ver) ==
  An(p - start) + Num(q - p) + HeadBits("NUM", ver)
    + (IF IsAlnum(At(s, q)) THEN HeadBits("NUM", ver) ELSE 0) - An(q - start) < 0

AnTurn(s, start, ver) ==
  [p \in Places(s, start) |->
     LET q == DigitsEnd(s, p)
     IN  IF ~IsAlnum(At(s, p)) THEN p
         ELSE IF ~IsDigit(At(s, p)) THEN p + 1
         ELSE IF LeavesAn(s, start, p, q, ver) THEN p ELSE q]

\* Where alphanumeric mode, started at p, ends.  Faulty variant: the switch
\* to numeric mode is free.
AnEndFree(s, start, ver) ==
  LoopEnd([p \in Places(s, start) |->
             IF IsAlnum(At(s, p)) /\ ~IsDigit(At(s, p)) THEN p + 1 ELSE p], start)
AnEnd(s, start, ver) == LoopEnd(AnTurn(s, start, ver), start)

Split_eatAn(s, p, hnt, ver) ==
  LET q   == AnEnd(s, p, ver)
      run == q - p
      dif == An(run) + HeadBits("AN", ver) + Byte(1) - Byte(run + 1)
  IN  IF At(s, q) # 0 /\ ~IsAlnum(At(s, q)) /\ dif > 0
        THEN Split_eat8(s, p, hnt, ver) ELSE Piece("AN", run)

Split_eatNum(s, p, hnt, ver) ==
  LET run  == DigitsEnd(s, p) - p
      mode == Split_identifyMode(s, p + run, hnt)
      dif8 == Num(run) + HeadBits("NUM", ver) + Byte(1) - Byte(run + 1)
      difA == Num(run) + HeadBits("NUM", ver) + An(1) - An(run + 1)
  IN  IF mode = "B8" /\ dif8 > 0 THEN Split_eat8(s, p, hnt, ver)
      ELSE IF mode = "AN" /\ difA > 0 THEN Split_eatAn(s, p, hnt, ver)
      ELSE Piece("NUM", run)

\* Faulty variant of the next: one character a chunk.
EatOneKanji(s, p, hnt) == Piece("KANJI", 2)
KanjiTurn(s, start, hnt) ==
  [p \in Places(s, start) |-> IF Split_identifyMode(s, p, hnt) = "KANJI" THEN p + 2 ELSE p]
Split_eatKanji(s, p, hnt) == Piece("KANJI", LoopEnd(KanjiTurn(s, p, hnt), p) - p)
-----------------------------------------------------------------------------
(* dupAndToUpper: lower-case letters become upper-case, but a Kanji         *)
(* character is stepped over.  Faulty variant: byte by byte.                *)
UpperByte(c) == IF IsLower(c) THEN c - 32 ELSE c
UpperEverywhere(s, hnt) == [i \in DOMAIN s |-> UpperByte(s[i])]
\* A reader from the left, and the bytes it finds to begin a Kanji character.
ReadTurn(s, hnt) ==
  [p \in Places(s, 1) |-> CASE Split_identifyMode(s, p, hnt) = "NUL"   -> p
                            [] Split_identifyMode(s, p, hnt) = "KANJI" -> p + 2
                            [] OTHER                                   -> p + 1]
Leads(s, hnt) == {p \in Visited(ReadTurn(s, hnt), 1) : Split_identifyMode(s, p, hnt) = "KANJI"}
dupAndToUpper(s, hnt) ==
  LET leads == Leads(s, hnt)
  IN  [i \in DOMAIN s |-> IF {i, i - 1} \cap leads # {} THEN s[i] ELSE UpperByte(s[i])]

(* Split_splitStringToQRinput up to the loop; an empty string is refused.   *)
Init ==
  /\ string \in Strings /\ hint \in {"B8", "KANJI"}
  /\ casesensitive \in BOOLEAN /\ version \in Versions
  /\ text = IF casesensitive THEN string ELSE dupAndToUpper(string, hint)
  /\ pos = 1 /\ list = <<>> /\ from = <<>>
  /\ status = IF string = <<>> THEN "invalid" ELSE "splitting"

(* QRinput_check: what QRinput_append accepts.                              *)
QRinput_check(mode, data) ==
  /\ data # <<>>
  /\ CASE mode = "NUM"   -> \A i \in DOMAIN data : IsDigit(data[i])
       [] mode = "AN"    -> \A i \in DOMAIN data : IsAlnum(data[i])
       [] mode = "KANJI" -> /\ Len(data) % 2 = 0
                            /\ \A i \in 1..(Len(data) \div 2) :
                                 IsKanji(data[2 * i - 1] * 256 + data[2 * i])
       [] mode = "B8"    -> TRUE

(* The bytes of text from p; a run that passes the end takes the 0 as well. *)
Taken(p, run) == [i \in 1..run |-> At(text, p + i - 1)]

Unchanged == UNCHANGED <<string, hint, casesensitive, version, text>>

(* One turn of the loop: the run of the eater is appended and skipped.      *)
Eaten(piece) ==
  LET data == Taken(pos, piece.run)
  IN  /\ IF QRinput_check(piece.mode, data)
           THEN /\ list' = Append(list, [mode |-> piece.mode, data |-> data])
                /\ from' = Append(from, pos)
                /\ pos' = pos + piece.run
                /\ status' = "splitting"
           ELSE status' = "refused" /\ UNCHANGED <<list, from, pos>>
      /\ Unchanged

Mode == Split_identifyMode(text, pos, hint)

EatNum == status = "splitting" /\ Mode = "NUM" /\ Eaten(Split_eatNum(text, pos, hint, version))
EatAn  == status = "splitting" /\ Mode = "AN" /\ Eaten(Split_eatAn(text, pos, hint, version))
EatKanji == status = "splitting" /\ Mode = "KANJI" /\ Eaten(Split_eatKanji(text, pos, hint))
Eat8   == status = "splitting" /\ Mode = "B8" /\ Eaten(Split_eat8(text, pos, hint, version))
Return == status = "splitting" /\ Mode = "NUL" /\ status' = "done" /\ UNCHANGED <<pos, list, from>> /\ Unchanged

Next == EatNum \/ EatAn \/ EatKanji \/ Eat8 \/ Return

Spec == Init /\ [][Next]_vars
-----------------------------------------------------------------------------
(* The chunks, end to end, are the bytes of the text before `pos', all of   *)
(* them when the function returns: whichever eater handed its work to       *)
(* another, the run that is skipped is the run that was appended.  None is  *)
(* empty, which QRinput_append would refuse.                                *)
End(k) == from[k] + Len(list[k].data)
TextKept ==
  /\ Len(from) = Len(list) /\ pos <= Len(text) + 1
  /\ \A k \in DOMAIN list :
       /\ list[k].data # <<>>
       /\ from[k] = IF k = 1 THEN 1 ELSE End(k - 1)
       /\ \A i \in DOMAIN list[k].data : list[k].data[i] = text[from[k] + i - 1]
  /\ pos = IF list = <<>> THEN 1 ELSE End(Len(list))
  /\ status = "done" => pos = Len(text) + 1

(* QRinput_append never refuses a chunk, so a non-empty string is always    *)
(* split: no eater, nor the one it hands over to, takes no byte, a byte its *)
(* mode cannot encode or half a Kanji character.                            *)
NeverRefused == status # "refused"

(* The Kanji characters are those a reader from the left finds, whichever   *)
(* chunks come before: each is encoded in Kanji mode, none is cut in two or *)
(* taken as bytes, and nothing else is in Kanji mode.                       *)
Pairs(k) == {p \in from[k]..(End(k) - 1) : (p - from[k]) % 2 = 0}
PairsWhole ==
  UNION {Pairs(k) : k \in {k \in DOMAIN list : list[k].mode = "KANJI"}}
    = {p \in Leads(text, hint) : p < pos}

(* Changing case does not change how the string reads: its Kanji characters *)
(* stay where and what they were, and only letters outside them change.     *)
CaseOnly ==
  /\ Leads(text, hint) = Leads(string, hint)
  /\ \A i \in DOMAIN string : text[i] # string[i] =>
       IsLower(string[i]) /\ {i, i - 1} \cap Leads(string, hint) = {}

(* The modes' costs agree between the eater that stops and the one called   *)
(* next: two chunks in a row have different modes, unless both are bytes.   *)
NoRepeatedHead ==
  \A k \in 1..(Len(list) - 1) : list[k].mode = list[k + 1].mode => list[k].mode = "B8"
=============================================================================
