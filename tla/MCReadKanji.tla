------------------------------ MODULE MCReadKanji ------------------------------
(* One Kanji in a Micro QR symbol of version 2, which the library encodes    *)
(* although the standard has no Kanji mode there.                            *)
EXTENDS MaskedSymbol

MCJobs ==
  {[mqr |-> TRUE, version |-> 2, level |-> 0, chunks |-> <<Chunk("KANJI", <<138, 191>>)>>]}
MCSymbols  == {SymbolOf(j) : j \in Jobs}
MCRequests == {Automatic}
=============================================================================
