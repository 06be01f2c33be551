--------------------------------- MODULE Mask ---------------------------------
(***************************************************************************)
(* Mask_mask and Mask_makeMask of src/mask.c, MMask_mask and MMask_makeMask*)
(* of src/mmask.c: the filled frame of a symbol is masked with the mask    *)
(* asked for, or with every mask in turn, and the one with the best score  *)
(* is kept.  Mask_mask copies a better symbol into a second buffer;        *)
(* MMask_mask keeps the buffer itself and allocates another to go on with. *)
(* A block of memory holds the number of the mask its symbol was made with.*)
(***************************************************************************)
EXTENDS Integers, FiniteSets

CONSTANTS Jobs,           \* the frames to mask, records with a field mqr
          Requests,       \* what is asked for: Automatic, or a mask
          Evaluate(_, _), \* the score the code computes of a job and a mask
          Demerit(_, _)   \* the demerit of the standard; less is better

Automatic == -1
INT_MAX   == 2147483647
maskNumber(job) == IF job.mqr THEN 4 ELSE 8
Masks(job) == 0..(maskNumber(job) - 1)

\* The code's scores are the standard's: for a QR symbol its demerit, for a
\* Micro QR symbol the opposite of it, which some mask has below zero.
ASSUME ScoresAssumption ==
  \A job \in Jobs :
    /\ job.mqr \in BOOLEAN
    /\ \A m \in Masks(job) :
         /\ Evaluate(job, m) \in Nat /\ Evaluate(job, m) < INT_MAX
         /\ Demerit(job, m) = IF job.mqr THEN -Evaluate(job, m) ELSE Evaluate(job, m)
    /\ job.mqr => \E m \in Masks(job) : Evaluate(job, m) > 0
ASSUME RequestsAssumption == Requests \subseteq Int

VARIABLES job, request,
          heap,      \* the live blocks, and what each holds
          mask, bestMask, \* pointers
          score,     \* minDemerit or maxScore
          turn,      \* i, the next mask
          pc, result,
          starved    \* some malloc failed

vars == <<job, request, heap, mask, bestMask, score, turn, pc, result, starved>>

NULL  == 0
Empty == -1   \* what a fresh block holds
Blocks == 1..3

\* malloc gives a block that is not in use; free of NULL does nothing.
Allocated(h, b, content) == [c \in DOMAIN h \cup {b} |-> IF c = b THEN content ELSE h[c]]
Freed(h, b) == [c \in DOMAIN h \ {b} |-> h[c]]
Write(b, content) == [heap EXCEPT ![b] = content]

Init ==
  /\ job \in Jobs /\ request \in Requests
  /\ heap = [b \in {} |-> Empty] /\ mask = NULL /\ bestMask = NULL
  /\ score = (IF job.mqr THEN 0 ELSE INT_MAX)
  /\ turn = 0 /\ pc = "call" /\ result = NULL /\ starved = FALSE

Return(p) == pc' = "returned" /\ result' = p
-----------------------------------------------------------------------------
(* makeMask: the mask asked for.                                            *)
MakeMask ==
  /\ pc = "call" /\ request # Automatic
  /\ \/ request \notin Masks(job) /\ Return(NULL) /\ UNCHANGED <<heap, mask, starved>>  \* EINVAL
     \/ request \in Masks(job) /\ Return(NULL) /\ starved' = TRUE /\ UNCHANGED <<heap, mask>>
     \/ \E b \in Blocks \ DOMAIN heap :
          /\ request \in Masks(job)
          /\ heap' = Allocated(heap, b, request) /\ mask' = b /\ Return(b) /\ UNCHANGED starved
  /\ UNCHANGED <<job, request, bestMask, score, turn>>

(* The buffers: one, and for Mask_mask a second one.                        *)
NewMask ==
  /\ pc = "call" /\ request = Automatic
  /\ \/ Return(NULL) /\ starved' = TRUE /\ UNCHANGED <<heap, mask>>
     \/ \E b \in Blocks \ DOMAIN heap :
          /\ heap' = Allocated(heap, b, Empty) /\ mask' = b
          /\ pc' = (IF job.mqr THEN "try" ELSE "second") /\ UNCHANGED <<result, starved>>
  /\ UNCHANGED <<job, request, bestMask, score, turn>>

NewBestMask ==
  /\ pc = "second"
  /\ \/ Return(NULL) /\ starved' = TRUE /\ heap' = Freed(heap, mask) /\ UNCHANGED bestMask
     \/ \E b \in Blocks \ DOMAIN heap :
          /\ heap' = Allocated(heap, b, Empty) /\ bestMask' = b
          /\ pc' = "try" /\ UNCHANGED <<result, starved>>
  /\ UNCHANGED <<job, request, mask, score, turn>>

(* One turn of the loop: mask i is applied and its score compared.          *)
\* Faulty variant: one comparison for both kinds of score.
AnyLess     == Evaluate(job, turn) < score
Better      == IF job.mqr THEN Evaluate(job, turn) > score ELSE Evaluate(job, turn) < score
InTurn      == pc = "try" /\ turn < maskNumber(job)

TryWorse ==
  /\ InTurn /\ ~Better
  /\ heap' = Write(mask, turn) /\ turn' = turn + 1
  /\ UNCHANGED <<job, request, mask, bestMask, score, pc, result, starved>>

(* Mask_mask copies a better symbol.                                        *)
\* Faulty variant: the least demerit so far is not remembered.
CopyForgetting ==
  /\ InTurn /\ Better /\ ~job.mqr
  /\ heap' = [heap EXCEPT ![mask] = turn, ![bestMask] = turn] /\ turn' = turn + 1
  /\ UNCHANGED <<job, request, mask, bestMask, score, pc, result, starved>>
CopyBetter ==
  /\ InTurn /\ Better /\ ~job.mqr
  /\ heap' = [heap EXCEPT ![mask] = turn, ![bestMask] = turn] /\ turn' = turn + 1
  /\ score' = Evaluate(job, turn)
  /\ UNCHANGED <<job, request, mask, bestMask, pc, result, starved>>

(* MMask_mask keeps the buffer of a better symbol, frees the former best one*)
(* and takes a new one to go on with; without one the loop ends.            *)
KeepFreeing(former) ==
  /\ InTurn /\ Better /\ job.mqr
  /\ score' = Evaluate(job, turn) /\ bestMask' = mask /\ turn' = turn + 1
  /\ LET kept == Freed(Write(mask, turn), former)
     IN  \/ mask' = NULL /\ heap' = kept /\ starved' = TRUE /\ pc' = "done"
         \/ \E b \in Blocks \ DOMAIN kept :
              mask' = b /\ heap' = Allocated(kept, b, Empty) /\ UNCHANGED <<starved, pc>>
  /\ UNCHANGED <<job, request, result>>
\* Faulty variant: the former best one is not freed.
KeepBoth   == KeepFreeing(NULL)
KeepBetter == KeepFreeing(bestMask)

Finish ==
  /\ pc = "done" \/ (pc = "try" /\ turn = maskNumber(job))
  /\ heap' = Freed(heap, mask)
  /\ Return(bestMask)
  /\ UNCHANGED <<job, request, mask, bestMask, score, turn, starved>>

Next == \/ MakeMask \/ NewMask \/ NewBestMask
        \/ TryWorse \/ CopyBetter \/ KeepBetter \/ Finish

Spec == Init /\ [][Next]_vars
-----------------------------------------------------------------------------
(* The masks tried so far.                                                  *)
Tried == 0..(turn - 1)

(* The symbol returned is, of all that were tried, one with the least       *)
(* demerit of the standard; and all masks were tried, unless the memory for *)
(* going on was refused to MMask_mask (mmask.c:167).                        *)
BestOfTried ==
  pc = "returned" /\ result # NULL /\ request = Automatic =>
    /\ heap[result] \in Tried
    /\ \A m \in Tried : Demerit(job, heap[result]) <= Demerit(job, m)
    /\ Tried = Masks(job) \/ (job.mqr /\ starved)

(* No buffer is lost, freed twice or used after it was freed: until the     *)
(* return the two pointers are all that is live, and then the result alone. *)
BuffersKept ==
  DOMAIN heap = IF pc = "returned" THEN {result} \ {NULL} ELSE {mask, bestMask} \ {NULL}

(* A symbol is refused only for want of memory, or for a mask that does not *)
(* exist: the search never ends without any mask being good enough.         *)
RefusedOnlyWhenStarved ==
  pc = "returned" /\ result = NULL => starved \/ request \notin Masks(job) \cup {Automatic}
=============================================================================
