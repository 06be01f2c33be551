------------------------------- MODULE MCReadECI -------------------------------
(* An ECI header with the least number that needs the designator of three    *)
(* bytes, and a text.                                                        *)
EXTENDS MaskedSymbol

MCJobs ==
  {[mqr |-> FALSE, version |-> 1, level |-> 0,
    chunks |-> <<Chunk("ECI", <<16384>>), Chunk("B8", <<97, 98>>)>>]}
MCSymbols  == {SymbolOf(j) : j \in Jobs}
MCRequests == {Automatic}
=============================================================================
