---------------------------- MODULE SymbolLayout ----------------------------
(***************************************************************************)
(* What placing a message in a symbol promises: the modules that are free  *)
(* for data take the bits of the message, one each, in the order in which  *)
(* the standard (JIS X0510:2004, 8.7) lays them out, until all are taken.  *)
(***************************************************************************)
EXTENDS Integers, FiniteSets

CONSTANTS Symbols,
          Free,     \* what a module holds that is free for data
          Frames,   \* of a symbol, before: its modules
          OrderOf,  \* of a symbol: of a module, how many free ones up to it
          Message   \* the bits to place, in order, as many

VARIABLES symbol, frame,
          n         \* how many bits are placed

Init == symbol \in Symbols /\ frame = Frames[symbol] /\ n = 0

PutBit ==
  LET start == Frames[symbol]
      order == OrderOf[symbol]
  IN  \E p \in DOMAIN frame :
        /\ order[p] = n + 1 /\ start[p] = Free
        /\ frame' = [frame EXCEPT ![p] = Message[symbol][n + 1]]
        /\ n' = n + 1
        /\ symbol' = symbol

Spec == Init /\ [][PutBit]_<<symbol, frame, n>>
=============================================================================
