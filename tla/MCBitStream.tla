----------------------------- MODULE MCBitStream -----------------------------
(* BitStream with a buffer of four bits, so that appends need none, one or  *)
(* several doublings.                                                       *)
EXTENDS BitStream

MCNums        == {<<0, 0>>, <<1, 1>>, <<3, 13>>}
MCByteStrings == {<<>>, <<180>>}
MCArgs        == {<<>>, <<1, 0, 0, 1>>}
=============================================================================
