---------------------------- MODULE MCSplitString ----------------------------
(* SplitString for strings made of a few runs: digits, letters, lower-case  *)
(* letters, bytes that start no Kanji character, and bytes that do before   *)
(* all or some of the others (129 before 64 and up, 235 before 191 and      *)
(* down, 130 before anything).  The lengths lie on both sides of those at   *)
(* which a change of mode pays.                                             *)
EXTENDS SplitString

CONSTANTS Runs, MaxRuns

Digit    == 48
Letter   == 65
Lower    == 97
Latin    == 200
Lead     == 130
LowLead  == 129
HighLead == 235

Lengths(b, ns) == {<<b, n>> : n \in ns}
AllRuns == Lengths(Digit, {1, 4, 7}) \cup Lengths(Letter, {1, 8})
             \cup {<<Lower, 1>>, <<Latin, 1>>, <<Lead, 1>>, <<LowLead, 1>>, <<HighLead, 1>>}

MCStrings ==
  {FlattenSeq([i \in DOMAIN w |-> [j \in 1..w[i][2] |-> w[i][1]]]) : w \in SeqOf(Runs, MaxRuns)}
=============================================================================
