------------------------------ MODULE MaskProofs ------------------------------
(***************************************************************************)
(* The choice of a mask, for every set of jobs and requests and every      *)
(* score that meets ScoresAssumption, and what a reader finds in the       *)
(* symbol: the format and version information, codewords in blocks without *)
(* an error, and the chunks of the input.                                  *)
(***************************************************************************)
EXTENDS MaskedSymbol, FiniteSetTheorems, NaturalsInduction, WellFoundedInduction,
        SequenceTheorems, TLAPS

(* What holds at every moment, and what more at each place of the code.     *)
Shape ==
  /\ job \in Jobs /\ request \in Requests
  /\ turn \in 0..maskNumber(job) /\ score \in Int
  /\ pc \in {"call", "second", "try", "done", "returned"}
  /\ DOMAIN heap \subseteq Blocks

AtCall   == pc = "call" => /\ mask = NULL /\ bestMask = NULL /\ result = NULL
                           /\ turn = 0 /\ score = IF job.mqr THEN 0 ELSE INT_MAX
AtSecond == pc = "second" => /\ ~job.mqr /\ request = Automatic
                             /\ mask \in Blocks /\ bestMask = NULL /\ result = NULL
                             /\ turn = 0 /\ score = INT_MAX
AtTry    == pc = "try" => /\ request = Automatic /\ result = NULL
                          /\ mask \in Blocks /\ bestMask \in Blocks \cup {NULL}
                          /\ mask # bestMask
AtDone   == pc = "done" => /\ job.mqr /\ request = Automatic /\ starved
                           /\ mask = NULL /\ bestMask \in Blocks

(* The score kept is that of the best mask tried so far, and the block it   *)
(* belongs to holds that mask.                                              *)
Kept      == heap[bestMask] \in Tried /\ score = Evaluate(job, heap[bestMask])
BestSoFar ==
  pc \in {"try", "done"} =>
    IF job.mqr
      THEN /\ IF bestMask = NULL THEN score = 0 ELSE Kept
           /\ \A m \in Tried : Evaluate(job, m) <= score
      ELSE /\ bestMask \in Blocks
           /\ IF turn = 0 THEN score = INT_MAX ELSE Kept
           /\ \A m \in Tried : score <= Evaluate(job, m)

IInv == /\ Shape /\ AtCall /\ AtSecond /\ AtTry /\ AtDone /\ BestSoFar
        /\ BuffersKept /\ BestOfTried /\ RefusedOnlyWhenStarved
-----------------------------------------------------------------------------
LEMMA Scored ==
  ASSUME NEW j \in Jobs, NEW m \in Masks(j)
  PROVE  /\ j.mqr \in BOOLEAN /\ maskNumber(j) \in {4, 8}
         /\ Evaluate(j, m) \in Nat /\ Evaluate(j, m) < INT_MAX
         /\ Demerit(j, m) = IF j.mqr THEN -Evaluate(j, m) ELSE Evaluate(j, m)
BY ScoresAssumption DEF maskNumber

(* Some mask of a Micro QR symbol has a score, so that one is chosen.       *)
LEMMA SomeScored ==
  ASSUME NEW j \in Jobs, j.mqr
  PROVE  \E m \in Masks(j) : Evaluate(j, m) > 0
BY ScoresAssumption

LEMMA TriedGrows ==
  ASSUME turn \in Nat, turn' = turn + 1
  PROVE  Tried' = Tried \cup {turn}
BY DEF Tried

LEMMA InitIInv == Init => IInv
<1>1. SUFFICES ASSUME Init PROVE IInv
  OBVIOUS
<1>2. maskNumber(job) \in {4, 8} /\ job.mqr \in BOOLEAN
  BY <1>1, ScoresAssumption DEF Init, maskNumber
<1>3. Shape
  BY <1>1, <1>2 DEF Init, Shape, INT_MAX
<1>4. AtCall /\ AtSecond /\ AtTry /\ AtDone /\ BestSoFar
  BY <1>1 DEF Init, AtCall, AtSecond, AtTry, AtDone, BestSoFar
<1>5. BuffersKept /\ BestOfTried /\ RefusedOnlyWhenStarved
  BY <1>1 DEF Init, BuffersKept, BestOfTried, RefusedOnlyWhenStarved
<1>6. QED
  BY <1>3, <1>4, <1>5 DEF IInv
-----------------------------------------------------------------------------
LEMMA MakeMaskKeeps == IInv /\ MakeMask => IInv'
<1>1. SUFFICES ASSUME IInv, MakeMask PROVE IInv'
  OBVIOUS
<1>2. pc = "call" /\ pc' = "returned" /\ request # Automatic
  BY <1>1 DEF MakeMask, Return
<1>3. DOMAIN heap = {} /\ mask = NULL
  BY <1>1, <1>2 DEF IInv, AtCall, BuffersKept
<1>4. DOMAIN heap' = {result'} \ {NULL} /\ DOMAIN heap' \subseteq Blocks
  <2>1. CASE result' = NULL /\ UNCHANGED heap
    BY <1>3, <2>1
  <2>2. CASE \E b \in Blocks : heap' = Allocated(heap, b, request) /\ result' = b
    BY <1>3, <2>2 DEF Allocated, Blocks, NULL
  <2>3. QED
    BY <1>1, <2>1, <2>2 DEF MakeMask, Return
<1>5. (AtCall /\ AtSecond /\ AtTry /\ AtDone /\ BestSoFar)'
  BY <1>2 DEF AtCall, AtSecond, AtTry, AtDone, BestSoFar
<1>6. Shape' /\ BuffersKept'
  BY <1>1, <1>2, <1>4 DEF IInv, Shape, MakeMask, BuffersKept, maskNumber
<1>7. (BestOfTried /\ RefusedOnlyWhenStarved)'
  BY <1>1, <1>2 DEF MakeMask, Return, BestOfTried, RefusedOnlyWhenStarved, Blocks, NULL
<1>8. QED
  BY <1>5, <1>6, <1>7 DEF IInv

LEMMA NewMaskKeeps == IInv /\ NewMask => IInv'
<1>1. SUFFICES ASSUME IInv, NewMask PROVE IInv'
  OBVIOUS
<1>2. pc = "call" /\ pc' \in {"returned", "try", "second"} /\ request' = Automatic
  BY <1>1 DEF NewMask, Return
<1>3. /\ DOMAIN heap = {} /\ mask = NULL /\ bestMask = NULL /\ result = NULL
      /\ turn = 0 /\ score = IF job.mqr THEN 0 ELSE INT_MAX
  BY <1>1, <1>2 DEF IInv, AtCall, BuffersKept
<1>4. /\ \/ pc' = "returned" /\ result' = NULL /\ starved' = TRUE /\ UNCHANGED <<heap, mask>>
         \/ /\ pc' = (IF job.mqr THEN "try" ELSE "second") /\ mask' \in Blocks
            /\ DOMAIN heap' = {mask'} /\ UNCHANGED result
      /\ UNCHANGED <<job, request, bestMask, score, turn>>
  <2>1. CASE Return(NULL) /\ starved' = TRUE /\ UNCHANGED <<heap, mask>>
    BY <1>1, <2>1 DEF NewMask, Return
  <2>2. CASE \E b \in Blocks : /\ heap' = Allocated(heap, b, Empty) /\ mask' = b
                               /\ pc' = (IF job.mqr THEN "try" ELSE "second") /\ UNCHANGED result
    BY <1>1, <1>3, <2>2 DEF NewMask, Allocated
  <2>3. QED
    BY <1>1, <2>1, <2>2 DEF NewMask
<1>5. Shape'
  BY <1>1, <1>2, <1>3, <1>4 DEF IInv, Shape, maskNumber
<1>6. (AtCall /\ AtSecond /\ AtTry /\ AtDone)'
  BY <1>2, <1>3, <1>4 DEF AtCall, AtSecond, AtTry, AtDone, Blocks, NULL
<1>7. BestSoFar'
  BY <1>2, <1>3, <1>4 DEF BestSoFar, Tried
<1>8. BuffersKept'
  <2>1. CASE pc' = "returned"
    BY <1>3, <1>4, <2>1 DEF BuffersKept
  <2>2. CASE pc' # "returned"
    <3>1. DOMAIN heap' = {mask'} /\ mask' # NULL /\ bestMask' = NULL
      BY <1>3, <1>4, <2>2 DEF Blocks, NULL
    <3>2. QED
      BY <2>2, <3>1 DEF BuffersKept
  <2>3. QED
    BY <2>1, <2>2
<1>9. (BestOfTried /\ RefusedOnlyWhenStarved)'
  BY <1>2, <1>4 DEF BestOfTried, RefusedOnlyWhenStarved
<1>10. QED
  BY <1>5, <1>6, <1>7, <1>8, <1>9 DEF IInv

LEMMA NewBestMaskKeeps == IInv /\ NewBestMask => IInv'
<1>1. SUFFICES ASSUME IInv, NewBestMask PROVE IInv'
  OBVIOUS
<1>2. pc = "second" /\ pc' \in {"returned", "try"}
  BY <1>1 DEF NewBestMask, Return
<1>3. /\ DOMAIN heap = {mask} /\ mask \in Blocks /\ bestMask = NULL /\ result = NULL
      /\ ~job.mqr /\ request = Automatic /\ turn = 0 /\ score = INT_MAX
  BY <1>1, <1>2 DEF IInv, AtSecond, BuffersKept, Blocks, NULL
<1>4. /\ \/ /\ pc' = "returned" /\ result' = NULL /\ starved' = TRUE /\ DOMAIN heap' = {}
            /\ UNCHANGED bestMask
         \/ /\ pc' = "try" /\ bestMask' \in Blocks /\ bestMask' # mask
            /\ DOMAIN heap' = {mask, bestMask'} /\ UNCHANGED result
      /\ UNCHANGED <<job, request, mask, score, turn>>
  <2>1. CASE Return(NULL) /\ starved' = TRUE /\ heap' = Freed(heap, mask) /\ UNCHANGED bestMask
    BY <1>1, <1>3, <2>1 DEF NewBestMask, Return, Freed
  <2>2. CASE \E b \in Blocks \ DOMAIN heap :
               /\ heap' = Allocated(heap, b, Empty) /\ bestMask' = b
               /\ pc' = "try" /\ UNCHANGED result
    BY <1>1, <1>3, <2>2 DEF NewBestMask, Allocated
  <2>3. QED
    BY <1>1, <2>1, <2>2 DEF NewBestMask
<1>5. Shape'
  BY <1>1, <1>2, <1>3, <1>4 DEF IInv, Shape, maskNumber
<1>6. (AtCall /\ AtSecond /\ AtTry /\ AtDone)'
  BY <1>2, <1>3, <1>4 DEF AtCall, AtSecond, AtTry, AtDone, Blocks, NULL
<1>7. BestSoFar'
  BY <1>2, <1>3, <1>4 DEF BestSoFar, Tried
<1>8. BuffersKept'
  <2>1. CASE pc' = "returned"
    BY <1>4, <2>1 DEF BuffersKept
  <2>2. CASE pc' # "returned"
    <3>1. DOMAIN heap' = {mask', bestMask'} /\ mask' # NULL /\ bestMask' # NULL
      BY <1>3, <1>4, <2>2 DEF Blocks, NULL
    <3>2. QED
      BY <2>2, <3>1 DEF BuffersKept
  <2>3. QED
    BY <2>1, <2>2
<1>9. (BestOfTried /\ RefusedOnlyWhenStarved)'
  BY <1>2, <1>4 DEF BestOfTried, RefusedOnlyWhenStarved
<1>10. QED
  BY <1>5, <1>6, <1>7, <1>8, <1>9 DEF IInv
-----------------------------------------------------------------------------
(* What a turn of the loop starts from.                                     *)
LEMMA Turning ==
  ASSUME IInv, InTurn
  PROVE  /\ pc = "try" /\ request = Automatic /\ result = NULL
         /\ turn \in Nat /\ turn \in Masks(job) /\ turn + 1 \in 0..maskNumber(job)
         /\ job \in Jobs /\ score \in Int /\ Evaluate(job, turn) \in Nat
         /\ mask \in Blocks /\ bestMask \in Blocks \cup {NULL} /\ mask # bestMask
         /\ DOMAIN heap = {mask, bestMask} \ {NULL}
<1>1. pc = "try" /\ turn < maskNumber(job) /\ job \in Jobs /\ turn \in 0..maskNumber(job)
  BY DEF IInv, InTurn, Shape
<1>2. maskNumber(job) \in {4, 8}
  BY <1>1 DEF maskNumber
<1>3. turn \in Nat /\ turn \in Masks(job) /\ turn + 1 \in 0..maskNumber(job)
  BY <1>1, <1>2 DEF Masks
<1>4. Evaluate(job, turn) \in Nat
  BY <1>1, <1>3, Scored
<1>5. QED
  BY <1>1, <1>3, <1>4 DEF IInv, Shape, AtTry, BuffersKept

LEMMA TryWorseKeeps == IInv /\ TryWorse => IInv'
<1>1. SUFFICES ASSUME IInv, TryWorse PROVE IInv'
  OBVIOUS
<1>2. InTurn /\ ~Better
  BY <1>1 DEF TryWorse
<1>3. /\ UNCHANGED <<job, request, mask, bestMask, score, pc, result, starved>>
      /\ turn' = turn + 1 /\ heap' = [heap EXCEPT ![mask] = turn]
  BY <1>1 DEF TryWorse, Write
<1>4. Tried' = Tried \cup {turn}
  BY <1>1, <1>2, <1>3, Turning, TriedGrows
<1>5. Shape'
  BY <1>1, <1>2, <1>3, Turning DEF IInv, Shape, maskNumber
<1>6. (AtCall /\ AtSecond /\ AtTry /\ AtDone)'
  BY <1>1, <1>2, <1>3, Turning DEF AtCall, AtSecond, AtTry, AtDone
<1>7. BestSoFar'
  <2>1. CASE job.mqr
    <3>1. bestMask # NULL => Kept'
      BY <1>1, <1>2, <1>3, <1>4, <2>1, Turning DEF IInv, BestSoFar, Kept
    <3>2. \A m \in Tried' : Evaluate(job, m) <= score
      BY <1>1, <1>2, <1>4, <2>1, Turning DEF IInv, BestSoFar, Better
    <3>3. QED
      BY <1>1, <1>2, <1>3, <2>1, <3>1, <3>2, Turning DEF IInv, BestSoFar
  <2>2. CASE ~job.mqr
    <3>1. Evaluate(job, turn) < INT_MAX
      BY <1>1, <1>2, Turning, Scored
    <3>2. turn # 0
      BY <1>1, <1>2, <2>2, <3>1, Turning DEF IInv, BestSoFar, Better
    <3>3. Kept' /\ bestMask \in Blocks
      BY <1>1, <1>2, <1>3, <1>4, <2>2, <3>2, Turning DEF IInv, BestSoFar, Kept, Blocks, NULL
    <3>4. \A m \in Tried' : score <= Evaluate(job, m)
      BY <1>1, <1>2, <1>4, <2>2, Turning DEF IInv, BestSoFar, Better
    <3>5. turn' # 0
      BY <1>1, <1>2, <1>3, Turning
    <3>6. QED
      BY <1>3, <2>2, <3>3, <3>4, <3>5 DEF BestSoFar
  <2>3. QED
    BY <2>1, <2>2
<1>8. (BuffersKept /\ BestOfTried /\ RefusedOnlyWhenStarved)'
  BY <1>1, <1>2, <1>3, Turning DEF BuffersKept, BestOfTried, RefusedOnlyWhenStarved
<1>9. QED
  BY <1>5, <1>6, <1>7, <1>8 DEF IInv
-----------------------------------------------------------------------------
LEMMA CopyBetterKeeps == IInv /\ CopyBetter => IInv'
<1>1. SUFFICES ASSUME IInv, CopyBetter PROVE IInv'
  OBVIOUS
<1>2. InTurn /\ Better /\ ~job.mqr
  BY <1>1 DEF CopyBetter
<1>3. /\ UNCHANGED <<job, request, mask, bestMask, pc, result, starved>>
      /\ turn' = turn + 1 /\ score' = Evaluate(job, turn)
      /\ heap' = [heap EXCEPT ![mask] = turn, ![bestMask] = turn]
  BY <1>1 DEF CopyBetter
<1>4. Tried' = Tried \cup {turn} /\ bestMask \in Blocks /\ bestMask # NULL
  BY <1>1, <1>2, <1>3, Turning, TriedGrows DEF IInv, BestSoFar, Blocks, NULL
<1>5. Shape'
  BY <1>1, <1>2, <1>3, Turning DEF IInv, Shape, maskNumber
<1>6. (AtCall /\ AtSecond /\ AtTry /\ AtDone)'
  BY <1>1, <1>2, <1>3, Turning DEF AtCall, AtSecond, AtTry, AtDone
<1>7. BestSoFar'
  <2>1. Kept'
    BY <1>1, <1>2, <1>3, <1>4, Turning DEF Kept
  <2>2. \A m \in Tried : Evaluate(job, turn) <= Evaluate(job, m)
    <3>1. SUFFICES ASSUME NEW m \in Tried PROVE Evaluate(job, turn) <= Evaluate(job, m)
      OBVIOUS
    <3>2. score <= Evaluate(job, m) /\ Evaluate(job, turn) < score
      BY <1>1, <1>2, Turning DEF IInv, BestSoFar, Better
    <3>3. m \in Masks(job)
      BY <1>1, <1>2, Turning DEF Tried, Masks, maskNumber
    <3>4. Evaluate(job, m) \in Nat
      BY <1>1, <1>2, <3>3, Turning, Scored
    <3>5. QED
      BY <1>1, <1>2, <3>2, <3>4, Turning
  <2>3. \A m \in Tried' : score' <= Evaluate(job, m)
    BY <1>1, <1>2, <1>3, <1>4, <2>2, Turning
  <2>4. turn' # 0
    BY <1>1, <1>2, <1>3, Turning
  <2>5. QED
    BY <1>2, <1>3, <1>4, <2>1, <2>3, <2>4 DEF BestSoFar
<1>8. (BuffersKept /\ BestOfTried /\ RefusedOnlyWhenStarved)'
  BY <1>1, <1>2, <1>3, Turning DEF BuffersKept, BestOfTried, RefusedOnlyWhenStarved
<1>9. QED
  BY <1>5, <1>6, <1>7, <1>8 DEF IInv
-----------------------------------------------------------------------------
LEMMA KeepBetterKeeps == IInv /\ KeepBetter => IInv'
<1>1. SUFFICES ASSUME IInv, KeepBetter PROVE IInv'
  OBVIOUS
<1> DEFINE kept == Freed(Write(mask, turn), bestMask)
<1>2. InTurn /\ Better /\ job.mqr
  BY <1>1 DEF KeepBetter, KeepFreeing
<1>3. /\ UNCHANGED <<job, request, result>>
      /\ turn' = turn + 1 /\ score' = Evaluate(job, turn) /\ bestMask' = mask
  BY <1>1 DEF KeepBetter, KeepFreeing
<1>4. \/ mask' = NULL /\ heap' = kept /\ starved' = TRUE /\ pc' = "done"
      \/ \E b \in Blocks \ DOMAIN kept :
           mask' = b /\ heap' = Allocated(kept, b, Empty) /\ UNCHANGED <<starved, pc>>
  BY <1>1 DEF KeepBetter, KeepFreeing
<1>5. Tried' = Tried \cup {turn}
  BY <1>1, <1>2, <1>3, Turning, TriedGrows
<1>6. DOMAIN kept = {mask} /\ kept[mask] = turn
  <2>1. DOMAIN Write(mask, turn) = {mask, bestMask} \ {NULL} /\ Write(mask, turn)[mask] = turn
    BY <1>1, <1>2, Turning DEF Write, Blocks, NULL
  <2>2. QED
    BY <1>1, <1>2, <2>1, Turning DEF Freed, Blocks, NULL
<1>7. pc = "try" /\ pc' \in {"try", "done"}
  BY <1>1, <1>2, <1>4, Turning
<1>8. mask' # mask /\ mask # NULL /\ mask \in Blocks /\ mask' \in Blocks \cup {NULL}
  BY <1>1, <1>2, <1>4, <1>6, Turning DEF Blocks, NULL
<1>9. heap'[mask] = turn /\ DOMAIN heap' = {mask, mask'} \ {NULL}
  <2>1. CASE mask' = NULL /\ heap' = kept
    BY <1>6, <1>8, <2>1
  <2>2. CASE \E b \in Blocks \ DOMAIN kept : mask' = b /\ heap' = Allocated(kept, b, Empty)
    <3> HIDE DEF kept
    <3>1. QED
      BY <1>6, <1>8, <2>2 DEF Allocated, Blocks, NULL
  <2>3. QED
    BY <1>4, <2>1, <2>2
<1>10. Shape'
  BY <1>1, <1>2, <1>3, <1>4, <1>7, <1>8, <1>9, Turning DEF IInv, Shape, maskNumber,
     Blocks, NULL
<1>11. (AtCall /\ AtSecond /\ AtTry /\ AtDone)'
  BY <1>1, <1>2, <1>3, <1>4, <1>7, <1>8, Turning DEF AtCall, AtSecond, AtTry, AtDone,
     Blocks, NULL
<1>12. BestSoFar'
  <2>1. Kept'
    BY <1>1, <1>2, <1>3, <1>5, <1>9, Turning DEF Kept
  <2>2. \A m \in Tried : Evaluate(job, m) <= Evaluate(job, turn)
    <3>1. SUFFICES ASSUME NEW m \in Tried PROVE Evaluate(job, m) <= Evaluate(job, turn)
      OBVIOUS
    <3>2. Evaluate(job, m) <= score /\ score < Evaluate(job, turn)
      BY <1>1, <1>2, Turning DEF IInv, BestSoFar, Better
    <3>3. m \in Masks(job)
      BY <1>1, <1>2, Turning DEF Tried, Masks, maskNumber
    <3>4. Evaluate(job, m) \in Nat
      BY <1>1, <1>2, <3>3, Turning, Scored
    <3>5. QED
      BY <1>1, <1>2, <3>2, <3>4, Turning
  <2>3. \A m \in Tried' : Evaluate(job, m) <= score'
    BY <1>1, <1>2, <1>3, <1>5, <2>2, Turning
  <2>4. QED
    BY <1>2, <1>3, <1>8, <2>1, <2>3 DEF BestSoFar
<1>13. (BuffersKept /\ BestOfTried /\ RefusedOnlyWhenStarved)'
  BY <1>3, <1>7, <1>9 DEF BuffersKept, BestOfTried, RefusedOnlyWhenStarved
<1>14. QED
  BY <1>10, <1>11, <1>12, <1>13 DEF IInv
-----------------------------------------------------------------------------
LEMMA FinishKeeps == IInv /\ Finish => IInv'
<1>1. SUFFICES ASSUME IInv, Finish PROVE IInv'
  OBVIOUS
<1>2. /\ UNCHANGED <<job, request, mask, bestMask, score, turn, starved>>
      /\ heap' = Freed(heap, mask) /\ pc' = "returned" /\ result' = bestMask
  BY <1>1 DEF Finish, Return
<1>3. /\ job \in Jobs /\ request = Automatic /\ mask # bestMask
      /\ DOMAIN heap = {mask, bestMask} \ {NULL} /\ turn \in 0..maskNumber(job)
      /\ job.mqr \in BOOLEAN /\ maskNumber(job) \in {4, 8}
  BY <1>1, ScoresAssumption
  DEF IInv, Finish, Shape, AtTry, AtDone, BuffersKept, Blocks, NULL, maskNumber
<1>4. Tried' = Tried /\ Tried \subseteq Masks(job)
  BY <1>2, <1>3 DEF Tried, Masks
<1>5. Tried = Masks(job) \/ (job.mqr /\ starved)
  BY <1>1, <1>3 DEF IInv, AtDone, Finish, Tried, Masks
(* Some mask was better than the score the loop began with.                 *)
<1>6. bestMask # NULL /\ Kept
  <2>1. CASE job.mqr
    <3>1. CASE pc = "done"
      BY <1>1, <2>1, <3>1 DEF IInv, AtDone, BestSoFar, Blocks, NULL
    <3>2. CASE pc = "try" /\ turn = maskNumber(job)
      <4>1. PICK m \in Masks(job) : Evaluate(job, m) > 0
        BY <1>3, <2>1, SomeScored
      <4>2. m \in Tried /\ Evaluate(job, m) \in Nat
        BY <1>3, <3>2, <4>1, Scored DEF Tried, Masks
      <4>3. score \in Int /\ Evaluate(job, m) <= score
        BY <1>1, <2>1, <3>2, <4>2 DEF IInv, Shape, BestSoFar
      <4>4. score # 0
        BY <4>1, <4>2, <4>3
      <4>5. QED
        BY <1>1, <2>1, <3>2, <4>4 DEF IInv, BestSoFar
    <3>3. QED
      BY <1>1, <3>1, <3>2 DEF Finish
  <2>2. CASE ~job.mqr
    <3>1. pc = "try" /\ turn # 0
      BY <1>1, <1>3, <2>2 DEF IInv, AtDone, Finish
    <3>2. QED
      BY <1>1, <2>2, <3>1 DEF IInv, BestSoFar, Blocks, NULL
  <2>3. QED
    BY <2>1, <2>2
<1>7. Shape'
  BY <1>1, <1>2 DEF IInv, Shape, Freed, maskNumber
<1>8. (AtCall /\ AtSecond /\ AtTry /\ AtDone /\ BestSoFar)'
  BY <1>2 DEF AtCall, AtSecond, AtTry, AtDone, BestSoFar
<1>9. DOMAIN heap' = {bestMask} /\ heap'[bestMask] = heap[bestMask]
  BY <1>2, <1>3, <1>6 DEF Freed
<1>10. (BuffersKept /\ RefusedOnlyWhenStarved)'
  BY <1>2, <1>6, <1>9 DEF BuffersKept, RefusedOnlyWhenStarved
<1>11. BestOfTried'
  <2>1. heap[bestMask] \in Tried /\ heap[bestMask] \in Masks(job)
    BY <1>4, <1>6 DEF Kept
  <2>2. \A m \in Tried : Demerit(job, heap[bestMask]) <= Demerit(job, m)
    <3>1. SUFFICES ASSUME NEW m \in Tried
                   PROVE  Demerit(job, heap[bestMask]) <= Demerit(job, m)
      OBVIOUS
    <3>2. m \in Masks(job)
      BY <1>4
    <3>3. pc \in {"try", "done"} /\ (~job.mqr => pc = "try")
      BY <1>1 DEF Finish, IInv, AtDone
    <3>4. IF job.mqr THEN Evaluate(job, m) <= Evaluate(job, heap[bestMask])
                     ELSE Evaluate(job, heap[bestMask]) <= Evaluate(job, m)
      BY <1>1, <1>6, <3>3 DEF IInv, BestSoFar, Kept
    <3>5. /\ Evaluate(job, m) \in Nat /\ Evaluate(job, heap[bestMask]) \in Nat
          /\ Demerit(job, m) = IF job.mqr THEN -Evaluate(job, m) ELSE Evaluate(job, m)
          /\ Demerit(job, heap[bestMask])
               = IF job.mqr THEN -Evaluate(job, heap[bestMask]) ELSE Evaluate(job, heap[bestMask])
      BY <1>3, <2>1, <3>2, Scored
    <3>6. QED
      BY <1>3, <3>4, <3>5
  <2>3. QED
    BY <1>2, <1>4, <1>5, <1>9, <2>1, <2>2 DEF BestOfTried, Masks, maskNumber
<1>12. QED
  BY <1>7, <1>8, <1>10, <1>11 DEF IInv
-----------------------------------------------------------------------------
LEMMA StutterKeeps == IInv /\ UNCHANGED vars => IInv'
BY DEF IInv, vars, Shape, AtCall, AtSecond, AtTry, AtDone, BestSoFar, Kept, Tried,
   maskNumber,
       BuffersKept, BestOfTried, RefusedOnlyWhenStarved, Masks

LEMMA Inductive == Spec => []IInv
<1>1. Init => IInv
  BY InitIInv
<1>2. IInv /\ [Next]_vars => IInv'
  BY MakeMaskKeeps, NewMaskKeeps, NewBestMaskKeeps, TryWorseKeeps, CopyBetterKeeps,
     KeepBetterKeeps, FinishKeeps, StutterKeeps DEF Next
<1>3. QED
  BY <1>1, <1>2, PTL DEF Spec

(* The symbol returned has the least demerit of all masks tried: of all, or *)
(* of those before the memory for a Micro QR symbol ran out.                *)
THEOREM ChoosesBest == Spec => []BestOfTried
<1>1. IInv => BestOfTried
  BY DEF IInv
<1>2. QED
  BY <1>1, Inductive, PTL

(* At every moment the live buffers are the two in use, and at the return   *)
(* the result alone.                                                        *)
THEOREM KeepsBuffers == Spec => []BuffersKept
<1>1. IInv => BuffersKept
  BY DEF IInv
<1>2. QED
  BY <1>1, Inductive, PTL

(* Without a failed malloc a mask that exists is always made.               *)
THEOREM AlwaysChooses == Spec => []RefusedOnlyWhenStarved
<1>1. IInv => RefusedOnlyWhenStarved
  BY DEF IInv
<1>2. QED
  BY <1>1, Inductive, PTL
-----------------------------------------------------------------------------
(* What a symbol shows at its function patterns: the frame with the format  *)
(* and version information, whatever the mask.                              *)

(* The library's eight expressions, zero where a module is inverted, are the*)
(* conditions of the standard.                                              *)
LEMMA Inverts ==
  ASSUME NEW e \in 0..7, NEW x \in Nat, NEW y \in Nat
  PROVE  Inverted(e, y, x) <=> Expression(e, x, y) = 0
<1>1. PICK n \in Nat : n = x * y /\ n = y * x
  <2>1. x * y \in Nat /\ x * y = y * x
    OBVIOUS
  <2> QED
    BY <2>1
<1>2. CASE e \in 0..4
  <2>1. CASE e = 0
    BY <2>1 DEF Inverted, Expression
  <2>2. CASE e = 1
    BY <2>2 DEF Inverted, Expression
  <2>3. CASE e = 2
    BY <2>3 DEF Inverted, Expression
  <2>4. CASE e = 3
    BY <2>4 DEF Inverted, Expression
  <2>5. CASE e = 4
    BY <2>5 DEF Inverted, Expression
  <2> QED
    BY <1>2, <2>1, <2>2, <2>3, <2>4, <2>5
<1>3. CASE e = 5
  <2>1. n % 6 = 0 <=> (n % 2) + (n % 3) = 0
    OBVIOUS
  <2> QED
    BY <1>1, <1>3, <2>1 DEF Inverted, Expression
<1>4. CASE e = 6
  <2>1. n % 6 < 3 <=> ((n % 2) + (n % 3)) % 2 = 0
    OBVIOUS
  <2> QED
    BY <1>1, <1>4, <2>1 DEF Inverted, Expression
<1>5. CASE e = 7
  <2>1. PICK t \in 0..2 : t = n % 3
    OBVIOUS
  <2>2. (y + x + t) % 2 = 0 <=> (t + ((x + y) % 2)) % 2 = 0
    OBVIOUS
  <2> QED
    BY <1>1, <1>5, <2>1, <2>2 DEF Inverted, Expression
<1> QED
  BY <1>2, <1>3, <1>4, <1>5

LEMMA Divided ==
  ASSUME NEW a \in Nat, NEW b \in Nat, b > 0
  PROVE  a \div b \in Nat /\ a % b \in 0..b - 1 /\ a = b * (a \div b) + (a % b)
OBVIOUS

LEMMA Products ==
  ASSUME NEW b \in Nat, NEW p \in Nat, NEW q \in Nat, p < q
  PROVE  b * p \in Nat /\ b * q \in Nat /\ b * p + b <= b * q
<1>1. PICK k \in Nat : q = p + 1 + k
  <2>1. q - p - 1 \in Nat /\ q = p + 1 + (q - p - 1)
    OBVIOUS
  <2> QED
    BY <2>1
<1>2. b * q = b * p + b + b * k /\ b * k \in Nat /\ b * p \in Nat
  BY <1>1
<1> QED
  BY <1>1, <1>2

LEMMA DividedUniquely ==
  ASSUME NEW b \in Nat, NEW q \in Nat, NEW r \in 0..b - 1
  PROVE  b * q + r \in Nat /\ (b * q + r) \div b = q /\ (b * q + r) % b = r
<1>1. b * q \in Nat /\ b * q + r \in Nat /\ b > 0
  OBVIOUS
<1>2. PICK a \in Nat, u \in Nat, v \in 0..b - 1 :
        a = b * q + r /\ u = a \div b /\ v = a % b /\ a = b * u + v
  BY <1>1, Divided
<1>3. ~ (u < q) /\ ~ (q < u)
  <2>1. u < q => b * u + b <= b * q
    BY Products
  <2>2. q < u => b * q + b <= b * u
    BY Products
  <2>3. b * u \in Nat /\ b * u + v = b * q + r
    BY <1>2
  <2> QED
    BY <1>1, <2>1, <2>2, <2>3
<1>4. u = q
  BY <1>3
<1>5. v = r
  BY <1>1, <1>2, <1>4
<1> QED
  BY <1>1, <1>2, <1>4, <1>5

(* Widths, modules by their coordinates, and the frames.                    *)
LEMMA Widths ==
  ASSUME NEW s \in Symbols
  PROVE  /\ Width(s) \in Nat /\ Width(s) >= 11
         /\ ~ s.mqr => Width(s) >= 21 /\ Width(s) = 17 + 4 * s.version
<1>1. CASE s.mqr
  <2>1. PICK v \in 1..4 : v = s.version
    BY <1>1, SymbolsAssumption DEF MQRSPEC_VERSION_MAX
  <2>2. MQRspec_getWidth(v) = 9 + 2 * v
    BY <2>1 DEF MQRspec_getWidth, mqrspecCapacity
  <2> QED
    BY <1>1, <2>1, <2>2 DEF Width
<1>2. CASE ~ s.mqr
  <2>1. PICK v \in 1..40 : v = s.version
    BY <1>2, SymbolsAssumption DEF QRSPEC_VERSION_MAX
  <2>2. capacity[v][1] = 17 + 4 * v
    BY SMTT(60) DEF capacity
  <2>3. Width(s) = 17 + 4 * v
    BY <1>2, <2>1, <2>2 DEF Width, QRspec_getWidth
  <2> QED
    BY <1>2, <2>1, <2>3
<1> QED
  BY <1>1, <1>2

Modules(s) == 0..(Width(s) * Width(s) - 1)

LEMMA ModuleAt ==
  ASSUME NEW s \in Symbols, NEW x \in 0..(Width(s) - 1), NEW y \in 0..(Width(s) - 1)
  PROVE  /\ y * Width(s) + x \in Modules(s)
         /\ (y * Width(s) + x) % Width(s) = x /\ (y * Width(s) + x) \div Width(s) = y
<1>1. PICK w \in Nat : w = Width(s) /\ w > 0
  BY Widths
<1>2. x \in 0..w - 1 /\ y \in Nat /\ y < w
  BY <1>1
<1>3. w * y + x \in Nat /\ (w * y + x) \div w = y /\ (w * y + x) % w = x
  BY <1>1, <1>2, DividedUniquely
<1>4. w * y + w <= w * w /\ w * y \in Nat /\ w * w \in Nat /\ w * y = y * w
  BY <1>1, <1>2, Products
<1>5. y * w + x \in 0..(w * w - 1)
  BY <1>2, <1>4
<1> QED
  BY <1>1, <1>3, <1>4, <1>5 DEF Modules

(* A module of the frame, and its two coordinates.                          *)
Spot(s, p) == <<p % Width(s), p \div Width(s)>>

LEMMA FramesAt ==
  ASSUME NEW s \in Symbols
  PROVE  /\ DOMAIN Frames[s] = Modules(s)
         /\ FreeModules[s] \subseteq Modules(s)
         /\ \A p \in Modules(s) :
              /\ p \in FreeModules[s] <=> Spot(s, p) \notin CreateFrame(s).functions
              /\ Frames[s][p] # FunctionPattern <=> p \in FreeModules[s]
<1>1. Frames[s] = [p \in Modules(s) |-> IF Spot(s, p) \in CreateFrame(s).functions
                                          THEN FunctionPattern ELSE Free]
  BY DEF Frames, Modules, Spot
<1>2. FreeModules[s] = {p \in DOMAIN Frames[s] : Frames[s][p] = Free}
  BY DEF FreeModules
<1>3. FunctionPattern # Free
  BY DEF FunctionPattern, Free
<1> HIDE DEF FunctionPattern, Free
<1> QED
  BY <1>1, <1>2, <1>3

(* Format information: its modules are function patterns, one for each bit. *)
LEMMA FormatSpots ==
  ASSUME NEW s \in Symbols, NEW k \in 0..14, NEW q \in FormatModules(s, k)
  PROVE  /\ q \in CreateFrame(s).functions
         /\ \A n \in 0..14 : q \in FormatModules(s, n) => n = k
<1>1. PICK w \in Nat : w = Width(s) /\ w >= 11 /\ (~ s.mqr => w >= 21)
  BY Widths
<1>2. CASE s.mqr
  <2>1. CreateFrame(s) = MQRspec_createFrame(s.version) /\ MQRspec_getWidth(s.version) = w
    BY <1>1, <1>2 DEF CreateFrame, Width
  <2>2. q = (IF k < 8 THEN <<8, k + 1>> ELSE <<15 - k, 8>>)
    BY <1>2 DEF FormatModules
  <2>3. q \in Box(1, 8, 8, 1) \cup Box(8, 1, 1, 7)
    BY <2>2 DEF Box
  <2>4. Box(1, 8, 8, 1) \cup Box(8, 1, 1, 7) \subseteq CreateFrame(s).functions
    BY <2>1 DEF MQRspec_createFrame
  <2>5. ASSUME NEW n \in 0..14, q \in FormatModules(s, n) PROVE n = k
    <3>1. q = (IF n < 8 THEN <<8, n + 1>> ELSE <<15 - n, 8>>)
      BY <1>2, <2>5 DEF FormatModules
    <3> QED
      BY <2>2, <3>1
  <2> QED
    BY <2>3, <2>4, <2>5
<1>3. CASE ~ s.mqr
  <2>1. CreateFrame(s) = QRspec_createFrame(s.version) /\ QRspec_getWidth(s.version) = w
    BY <1>1, <1>3 DEF CreateFrame, Width
  <2>2. \A n \in 0..14 : FormatModules(s, n)
          = IF n < 8 THEN {<<w - 1 - n, 8>>, <<8, IF n < 6 THEN n ELSE n + 1>>}
            ELSE {<<8, w - 15 + n>>, <<IF n = 8 THEN 7 ELSE 14 - n, 8>>}
    BY <1>1, <1>3 DEF FormatModules
  <2>3. q \in Box(0, 8, 9, 1) \cup Box(w - 8, 8, 8, 1) \cup Box(8, 0, 1, 8) \cup Box(8, w - 7, 1, 7)
    BY <1>1, <1>3, <2>2 DEF Box
  <2>4. Box(0, 8, 9, 1) \cup Box(w - 8, 8, 8, 1) \cup Box(8, 0, 1, 8) \cup Box(8, w - 7, 1, 7)
          \subseteq CreateFrame(s).functions
    BY <2>1 DEF QRspec_createFrame
  <2>5. ASSUME NEW n \in 0..14, q \in FormatModules(s, n) PROVE n = k
    BY <1>1, <1>3, <2>2, <2>5
  <2> QED
    BY <2>3, <2>4, <2>5
<1> QED
  BY <1>2, <1>3

(* Each copy that is read consists of those modules.                        *)
LEMMA FormatCopied ==
  ASSUME NEW s \in Symbols, NEW copy \in FormatCopies(s.mqr, Width(s)), NEW k \in 0..14
  PROVE  \E x, y \in 0..(Width(s) - 1) : copy[15 - k] = <<x, y>> /\ <<x, y>> \in FormatModules(s, k)
<1>1. PICK w \in Nat : w = Width(s) /\ w >= 11 /\ (~ s.mqr => w >= 21)
  BY Widths
<1>2. 15 - k \in 1..15
  OBVIOUS
<1> DEFINE q == copy[15 - k]
<1>3. SUFFICES \E x, y : q = <<x, y>> /\ x \in 0..w - 1 /\ y \in 0..w - 1 /\ q \in FormatModules(s, k)
  BY <1>1
<1>4. CASE s.mqr
  <2>1. copy = [n \in 1..15 |-> IF n <= 8 THEN <<n, 8>> ELSE <<8, 16 - n>>]
    BY <1>4 DEF FormatCopies
  <2>2. q = IF 15 - k <= 8 THEN <<15 - k, 8>> ELSE <<8, 16 - (15 - k)>>
    BY <1>2, <2>1
  <2>3. q = IF k < 8 THEN <<8, k + 1>> ELSE <<15 - k, 8>>
    BY <2>2
  <2>4. q \in FormatModules(s, k)
    BY <1>4, <2>3 DEF FormatModules
  <2>5. k < 8 => k + 1 \in 0..w - 1 /\ 8 \in 0..w - 1
    BY <1>1
  <2>6. k >= 8 => 15 - k \in 0..w - 1 /\ 8 \in 0..w - 1
    BY <1>1
  <2> HIDE DEF q
  <2>7. CASE k < 8
    BY <2>3, <2>4, <2>5, <2>7
  <2>8. CASE k >= 8
    <3>1. ~ (k < 8)
      BY <2>8
    <3> QED
      BY <2>3, <2>4, <2>6, <2>8, <3>1
  <2> QED
    BY <2>7, <2>8
<1>5. CASE ~ s.mqr
  <2>1. FormatModules(s, k) = IF k < 8 THEN {<<w - 1 - k, 8>>, <<8, IF k < 6 THEN k ELSE k + 1>>}
            ELSE {<<8, w - 15 + k>>, <<IF k = 8 THEN 7 ELSE 14 - k, 8>>}
    BY <1>1, <1>5 DEF FormatModules
  <2>2. CASE copy = [n \in 1..15 |-> IF n <= 7 THEN <<8, w - n>> ELSE <<w - 16 + n, 8>>]
    <3>1. q = IF 15 - k <= 7 THEN <<8, w - (15 - k)>> ELSE <<w - 16 + (15 - k), 8>>
      BY <1>2, <2>2
    <3>2. q = IF k < 8 THEN <<w - 1 - k, 8>> ELSE <<8, w - 15 + k>>
      BY <1>1, <3>1
    <3>3. q \in FormatModules(s, k)
      BY <2>1, <3>2
    <3>4. w - 1 - k \in 0..w - 1 /\ 8 \in 0..w - 1 /\ (k >= 8 => w - 15 + k \in 0..w - 1)
      BY <1>1, <1>5
    <3> HIDE DEF q
    <3>5. CASE k < 8
      BY <3>2, <3>3, <3>4, <3>5
    <3>6. CASE ~ (k < 8)
      <4>1. k >= 8
        BY <3>6
      <4> QED
        BY <3>2, <3>3, <3>4, <3>6, <4>1
    <3> QED
      BY <3>5, <3>6
  <2>3. CASE copy = <<<<0, 8>>, <<1, 8>>, <<2, 8>>, <<3, 8>>, <<4, 8>>, <<5, 8>>, <<7, 8>>, <<8, 8>>,
          <<8, 7>>, <<8, 5>>, <<8, 4>>, <<8, 3>>, <<8, 2>>, <<8, 1>>, <<8, 0>>>>
    <3>1. q = IF k < 8 THEN <<8, IF k < 6 THEN k ELSE k + 1>> ELSE <<IF k = 8 THEN 7 ELSE 14 - k, 8>>
      BY <2>3
    <3>2. q \in FormatModules(s, k)
      BY <2>1, <3>1
    <3>3. 8 \in 0..w - 1 /\ k \in 0..w - 1 /\ (k < 8 => k + 1 \in 0..w - 1)
          /\ 7 \in 0..w - 1 /\ (k >= 8 => 14 - k \in 0..w - 1)
      BY <1>1, <1>5
    <3> HIDE DEF q
    <3>4. CASE k < 8
      BY <3>1, <3>2, <3>3, <3>4
    <3>5. CASE ~ (k < 8)
      <4>1. k >= 8
        BY <3>5
      <4> QED
        BY <3>1, <3>2, <3>3, <3>5, <4>1
    <3> QED
      BY <3>4, <3>5
  <2> QED
    BY <1>1, <1>5, <2>2, <2>3 DEF FormatCopies
<1> QED
  BY <1>4, <1>5

(* What Mask writes on them, and on the free modules.                       *)
LEMMA FormatBitsAt ==
  ASSUME NEW s \in Symbols
  PROVE  /\ DOMAIN FormatBits[s] = {p \in Modules(s) : \E k \in 0..14 : Spot(s, p) \in FormatModules(s, k)}
         /\ \A p \in Modules(s), k \in 0..14 :
              Spot(s, p) \in FormatModules(s, k) => FormatBits[s][p] = k
<1> DEFINE D == {p \in Modules(s) : \E k \in 0..14 : Spot(s, p) \in FormatModules(s, k)}
<1>1. FormatBits[s] = [p \in D |-> CHOOSE k \in 0..14 : Spot(s, p) \in FormatModules(s, k)]
  BY FramesAt DEF FormatBits, Spot
<1>2. ASSUME NEW p \in Modules(s), NEW k \in 0..14, Spot(s, p) \in FormatModules(s, k)
      PROVE  FormatBits[s][p] = k
  <2>1. FormatBits[s][p] = CHOOSE n \in 0..14 : Spot(s, p) \in FormatModules(s, n)
    BY <1>1, <1>2
  <2>2. \A n \in 0..14 : Spot(s, p) \in FormatModules(s, n) => n = k
    BY <1>2, FormatSpots
  <2> QED
    BY <1>2, <2>1, <2>2
<1> QED
  BY <1>1, <1>2

LEMMA MaskedAt ==
  ASSUME NEW s \in Symbols, NEW F \in [Modules(s) -> {0, 1}], NEW m, NEW p \in Modules(s)
  PROVE  Masked(s, F, m)[p] =
           IF p \in DOMAIN FormatBits[s] THEN BitAt(FormatInfo(s, m), FormatBits[s][p])
           ELSE IF p \in FreeModules[s]
                     /\ Expression(IF s.mqr THEN MicroMask(m) ELSE m, p % Width(s), p \div Width(s)) = 0
             THEN 1 - F[p] ELSE F[p]
<1>1. maskMakers(s, F, m)[p] =
        IF Frames[s][p] # FunctionPattern
             /\ Expression(IF s.mqr THEN MicroMask(m) ELSE m, p % Width(s), p \div Width(s)) = 0
        THEN 1 - F[p] ELSE F[p]
  BY DEF maskMakers
<1>2. Frames[s][p] # FunctionPattern <=> p \in FreeModules[s]
  BY FramesAt
<1>3. DOMAIN maskMakers(s, F, m) = Modules(s)
  BY DEF maskMakers
<1>4. Masked(s, F, m)[p] = IF p \in DOMAIN FormatBits[s] THEN BitAt(FormatInfo(s, m), FormatBits[s][p])
                           ELSE maskMakers(s, F, m)[p]
  BY <1>3 DEF Masked, writeFormatInformation
<1> QED
  BY <1>1, <1>2, <1>4

LEMMA FreeNotFormat ==
  ASSUME NEW s \in Symbols, NEW p \in FreeModules[s]
  PROVE  p \in Modules(s) /\ p \notin DOMAIN FormatBits[s]
<1>1. p \in Modules(s) /\ Spot(s, p) \notin CreateFrame(s).functions
  BY FramesAt
<1> QED
  BY <1>1, FormatBitsAt, FormatSpots

(* Unmasking.                                                               *)
LEMMA Unmasked ==
  ASSUME NEW s \in Symbols, NEW F \in [Modules(s) -> {0, 1}], NEW m \in 0..(maskNum(s) - 1),
         NEW p \in FreeModules[s]
  PROVE  Masked(s, F, m)[p] = (IF Inverted(IF s.mqr THEN <<1, 4, 6, 7>>[m + 1] ELSE m,
                                           p \div Width(s), p % Width(s)) THEN 0 ELSE 1)
           <=> F[p] = 1
<1>1. p \in Modules(s) /\ p \notin DOMAIN FormatBits[s]
  BY FreeNotFormat
<1>2. PICK e : e = IF s.mqr THEN MicroMask(m) ELSE m
  OBVIOUS
<1>3. e \in 0..7 /\ e = IF s.mqr THEN <<1, 4, 6, 7>>[m + 1] ELSE m
  BY <1>2 DEF maskNum, MicroMask
<1>4. p % Width(s) \in Nat /\ p \div Width(s) \in Nat
  <2>1. PICK w \in Nat : w = Width(s) /\ w > 0
    BY Widths
  <2>2. p \in Nat
    BY <1>1, Widths DEF Modules
  <2>3. p \div w \in Nat /\ p % w \in 0..w - 1
    BY <2>1, <2>2, Divided
  <2> QED
    BY <2>1, <2>3
<1>5. Inverted(e, p \div Width(s), p % Width(s)) <=> Expression(e, p % Width(s), p \div Width(s)) = 0
  BY <1>3, <1>4, Inverts
<1>6. Masked(s, F, m)[p] = IF Expression(e, p % Width(s), p \div Width(s)) = 0 THEN 1 - F[p] ELSE F[p]
  BY <1>1, <1>2, MaskedAt
<1>7. F[p] \in {0, 1}
  BY <1>1
<1>8. CASE Expression(e, p % Width(s), p \div Width(s)) = 0
  BY <1>3, <1>5, <1>6, <1>7, <1>8
<1>9. CASE Expression(e, p % Width(s), p \div Width(s)) # 0
  BY <1>3, <1>5, <1>6, <1>7, <1>9
<1> QED
  BY <1>8, <1>9

(* The format information is what the tables give.                          *)
LEMMA FormatWritten ==
  ASSUME NEW s \in Symbols, NEW F \in [Modules(s) -> {0, 1}], NEW m,
         NEW copy \in FormatCopies(s.mqr, Width(s))
  PROVE  FormatWord(s.mqr, Width(s), Masked(s, F, m), copy)
           = Xor({k \in 0..14 : BitAt(FormatInfo(s, m), k) = 1},
                 IF s.mqr THEN {14, 10, 6, 2, 0} ELSE {14, 12, 10, 4, 1})
<1>1. ASSUME NEW k \in 0..14
      PROVE  Masked(s, F, m)[copy[15 - k][2] * Width(s) + copy[15 - k][1]] = BitAt(FormatInfo(s, m), k)
  <2>1. PICK x, y \in 0..(Width(s) - 1) : copy[15 - k] = <<x, y>> /\ <<x, y>> \in FormatModules(s, k)
    <3>1. \E x, y \in 0..(Width(s) - 1) : copy[15 - k] = <<x, y>> /\ <<x, y>> \in FormatModules(s, k)
      BY FormatCopied
    <3> QED
      BY <3>1
  <2>2. PICK p : p = y * Width(s) + x
    OBVIOUS
  <2>3. p \in Modules(s) /\ p % Width(s) = x /\ p \div Width(s) = y
    BY <2>2, ModuleAt
  <2>4. Spot(s, p) = <<x, y>>
    BY <2>3 DEF Spot
  <2>5. p \in DOMAIN FormatBits[s] /\ FormatBits[s][p] = k
    BY <2>1, <2>3, <2>4, FormatBitsAt
  <2>6. Masked(s, F, m)[p] = BitAt(FormatInfo(s, m), k)
    BY <2>3, <2>5, MaskedAt
  <2> QED
    BY <2>1, <2>2, <2>6
<1>2. PICK D : D = Masked(s, F, m)
  OBVIOUS
<1>3. {k \in 0..14 : D[copy[15 - k][2] * Width(s) + copy[15 - k][1]] = 1}
        = {k \in 0..14 : BitAt(FormatInfo(s, m), k) = 1}
  BY <1>1, <1>2, Zenon
<1> QED
  BY <1>2, <1>3, Zenon DEF FormatWord

(* The format information without the mask put over it.                     *)
FormatRead(s, m) ==
  Xor({k \in 0..14 : BitAt(FormatInfo(s, m), k) = 1},
      IF s.mqr THEN {14, 10, 6, 2, 0} ELSE {14, 12, 10, 4, 1})

(* It is a code word, and says the level or symbol number and the mask.     *)
LEMMA FormatSays ==
  ASSUME NEW s \in Symbols, NEW m \in 0..(maskNum(s) - 1)
  PROVE  /\ IsMultiple(FormatRead(s, m), {10, 8, 5, 4, 2, 1, 0}, 0..4)
         /\ Format(s.mqr, FormatRead(s, m)) = [number |-> SymbolNumber(s), mask |-> m]
<1>1. CASE s.mqr
  <2>1. PICK v \in 1..4, l \in 0..3 : v = s.version /\ l = s.level
    BY <1>1, SymbolsAssumption DEF MQRSPEC_VERSION_MAX
  <2>2. m \in 0..3 /\ MQRspec_getECCLength(v, l) > 0
    BY <1>1, <2>1, SymbolsAssumption DEF maskNum
  <2>3. Informs(TRUE, MQRspec_getFormatInfo(m, v, l), <<0, 1, 3, 5>>[v] + l, m)
    BY <2>2, FormatAssumption
  <2>4. FormatRead(s, m) = Xor({k \in 0..14 : BitAt(MQRspec_getFormatInfo(m, v, l), k) = 1}, {14, 10, 6, 2, 0})
    BY <1>1, <2>1, Zenon DEF FormatRead, FormatInfo
  <2>5. SymbolNumber(s) = <<0, 1, 3, 5>>[v] + l
    BY <1>1, <2>1, Zenon DEF SymbolNumber
  <2>6. s.mqr = TRUE
    BY <1>1, SymbolsAssumption
  <2> QED
    BY <2>3, <2>4, <2>5, <2>6, Zenon DEF Informs
<1>2. CASE ~ s.mqr
  <2>1. PICK l \in 0..3 : l = s.level
    BY SymbolsAssumption
  <2>2. m \in 0..7
    BY <1>2 DEF maskNum
  <2>3. Informs(FALSE, QRspec_getFormatInfo(m, l), l, m)
    BY <2>2, FormatAssumption
  <2>4. FormatRead(s, m) = Xor({k \in 0..14 : BitAt(QRspec_getFormatInfo(m, l), k) = 1}, {14, 12, 10, 4, 1})
    BY <1>2, <2>1, Zenon DEF FormatRead, FormatInfo
  <2>5. SymbolNumber(s) = l
    BY <1>2, <2>1, Zenon DEF SymbolNumber
  <2>6. s.mqr = FALSE
    BY <1>2, SymbolsAssumption
  <2> QED
    BY <2>3, <2>4, <2>5, <2>6, Zenon DEF Informs
<1> QED
  BY <1>1, <1>2

(* A frame as FrameFiller leaves it: function patterns as they were, and    *)
(* every free module 0 or 1.                                                *)
IsFilled(s, F) ==
  /\ F \in [Modules(s) -> {0, 1}]
  /\ \A p \in Modules(s) \ FreeModules[s] : F[p] = IF Spot(s, p) \in Darks[s] THEN 1 ELSE 0

(* The version information is what the frame has, and says the version.     *)
LEMMA VersionAt ==
  ASSUME NEW s \in Symbols, ~ s.mqr, s.version >= 7, NEW F, IsFilled(s, F), NEW m,
         NEW x \in 0..(Width(s) - 1), NEW y \in 0..(Width(s) - 1),
         <<x, y>> \in Box(0, Width(s) - 11, 6, 3) \cup Box(Width(s) - 11, 0, 3, 6)
  PROVE  Masked(s, F, m)[y * Width(s) + x] = 1 <=> <<x, y>> \in QRspec_createFrame(s.version).dark
<1>1. PICK w \in Nat : w = Width(s) /\ w >= 45
  <2>1. s.version \in 7..40
    BY SymbolsAssumption DEF QRSPEC_VERSION_MAX
  <2> QED
    BY <2>1, Widths
<1>2. CreateFrame(s) = QRspec_createFrame(s.version) /\ QRspec_getWidth(s.version) = w
  BY <1>1 DEF CreateFrame, Width
<1>3. PICK p : p = y * Width(s) + x
  OBVIOUS
<1>4. p \in Modules(s) /\ Spot(s, p) = <<x, y>>
  BY <1>3, ModuleAt DEF Spot
<1>5. Box(0, w - 11, 6, 3) \cup Box(w - 11, 0, 3, 6) \subseteq CreateFrame(s).functions
  BY <1>2 DEF QRspec_createFrame
<1>6. p \notin FreeModules[s]
  BY <1>1, <1>4, <1>5, FramesAt
<1>7. p \notin DOMAIN FormatBits[s]
  <2>1. (x < 6 /\ y >= w - 11 /\ y < w - 8) \/ (y < 6 /\ x >= w - 11 /\ x < w - 8)
    BY <1>1 DEF Box
  <2>2. ASSUME NEW k \in 0..14, <<x, y>> \in FormatModules(s, k) PROVE x = 8 \/ y = 8
    BY <2>2 DEF FormatModules
  <2>3. x # 8 /\ y # 8
    BY <1>1, <2>1
  <2> QED
    BY <1>4, <2>2, <2>3, FormatBitsAt
<1>8. F[p] = IF Spot(s, p) \in Darks[s] THEN 1 ELSE 0
  BY <1>4, <1>6 DEF IsFilled
<1>9. Masked(s, F, m)[p] = F[p]
  BY <1>4, <1>6, <1>7, MaskedAt DEF IsFilled
<1>10. Darks[s] = QRspec_createFrame(s.version).dark
  BY <1>2 DEF Darks
<1> QED
  BY <1>3, <1>4, <1>8, <1>9, <1>10

LEMMA VersionReads ==
  ASSUME NEW s \in Symbols, ~ s.mqr, s.version >= 7, NEW F, IsFilled(s, F), NEW m
  PROVE  VersionRead(Width(s), Masked(s, F, m), s.version)
<1>1. PICK v \in 7..40, w \in Nat : v = s.version /\ w = Width(s) /\ w >= 45 /\ w = QRspec_getWidth(v)
  <2>1. s.version \in 7..40
    BY SymbolsAssumption DEF QRSPEC_VERSION_MAX
  <2>2. Width(s) \in Nat /\ Width(s) >= 45
    BY <2>1, Widths
  <2>3. Width(s) = QRspec_getWidth(s.version)
    BY DEF Width
  <2> QED
    BY <2>1, <2>2, <2>3
<1>2. PICK D : D = Masked(s, F, m)
  OBVIOUS
<1>3. PICK dark : dark = QRspec_createFrame(v).dark
  OBVIOUS
<1>4. ASSUME NEW k \in 0..17
      PROVE  /\ D[(k \div 3) * w + w - 11 + (k % 3)] = 1 <=> <<w - 11 + (k % 3), k \div 3>> \in dark
             /\ D[(w - 11 + (k % 3)) * w + (k \div 3)] = 1 <=> <<k \div 3, w - 11 + (k % 3)>> \in dark
  <2>1. PICK a \in 0..5, b \in 0..2 : a = k \div 3 /\ b = k % 3
    BY <1>4
  <2>2. PICK c \in 0..(w - 1) : c = w - 11 + b
    BY <1>1, <2>1
  <2>3. a \in 0..w - 1 /\ <<c, a>> \in Box(w - 11, 0, 3, 6) /\ <<a, c>> \in Box(0, w - 11, 6, 3)
    BY <1>1, <2>2 DEF Box
  <2>4. D[a * w + c] = 1 <=> <<c, a>> \in dark
    BY <1>1, <1>2, <1>3, <2>3, VersionAt
  <2>5. D[c * w + a] = 1 <=> <<a, c>> \in dark
    BY <1>1, <1>2, <1>3, <2>3, VersionAt
  <2>6. a * w + w - 11 + b = a * w + c
    BY <1>1, <2>2
  <2> QED
    BY <2>1, <2>2, <2>4, <2>5, <2>6
<1>5. /\ {k \in 0..17 : D[(k \div 3) * w + w - 11 + (k % 3)] = 1}
           = {k \in 0..17 : <<w - 11 + (k % 3), k \div 3>> \in dark}
      /\ {k \in 0..17 : D[(w - 11 + (k % 3)) * w + (k \div 3)] = 1}
           = {k \in 0..17 : <<k \div 3, w - 11 + (k % 3)>> \in dark}
  BY <1>4, Zenon
<1>6. /\ VersionSays({k \in 0..17 : <<w - 11 + (k % 3), k \div 3>> \in dark}, v)
      /\ VersionSays({k \in 0..17 : <<k \div 3, w - 11 + (k % 3)>> \in dark}, v)
  BY <1>1, <1>3, VersionAssumption, Zenon DEF QRSPEC_VERSION_MAX
<1>7. \A word \in VersionWords(w, D) : VersionSays(word, v)
  BY <1>5, <1>6, Zenon DEF VersionWords
<1> QED
  BY <1>1, <1>2, <1>7, Zenon DEF VersionRead
-----------------------------------------------------------------------------
(* The codewords, read through the mask.                                    *)

(* A frame that holds a code word in its modules: the bits placed are its   *)
(* own, and those that are not are zero.                                    *)
BitIn(s, p) == Message[s][OrderOf[s][p]]
HoldsCode(s, F, code) ==
  /\ IsFilled(s, F)
  /\ code \in [Words(s) -> SUBSET (0..7)]
  /\ \A p \in FreeModules[s], word \in Words(s) :
       BitIn(s, p)[1] = word[1] /\ BitIn(s, p)[2] = word[2]
         => (F[p] = 1 <=> 7 - BitIn(s, p)[3] \in code[word])
  /\ \A word \in Words(s), n \in 0..7 : n \notin BitNumbers(s, word) => 7 - n \notin code[word]

(* Unmasked, the modules of a codeword give the codeword.                   *)
LEMMA CodewordRead ==
  ASSUME NEW s \in Symbols, NEW F, NEW code, HoldsCode(s, F, code), NEW m \in 0..(maskNum(s) - 1),
         NEW word \in Words(s)
  PROVE  Codeword(s, Masked(s, F, m), m, word) = code[word]
<1> DEFINE D == Masked(s, F, m)
           Set(p) == D[p] = IF Inverted(IF s.mqr THEN <<1, 4, 6, 7>>[m + 1] ELSE m,
                                        p \div Width(s), p % Width(s)) THEN 0 ELSE 1
           bits == WordBits[s][word]
<1>1. bits = {<<p, BitIn(s, p)[3]>> :
                p \in {q \in FreeModules[s] : BitIn(s, q)[1] = word[1] /\ BitIn(s, q)[2] = word[2]}}
  BY Zenon DEF WordBits, BitIn
<1>2. Codeword(s, D, m, word) = {7 - bit[2] : bit \in {b \in bits : Set(b[1])}}
  BY Zenon DEF Codeword
<1>3. \A p \in FreeModules[s] : Set(p) <=> F[p] = 1
  BY Unmasked DEF HoldsCode, IsFilled
<1> HIDE DEF bits, Set, D
<1>4. ASSUME NEW c \in Codeword(s, D, m, word) PROVE c \in code[word]
  <2>1. PICK b \in bits : Set(b[1]) /\ c = 7 - b[2]
    BY <1>2, <1>4
  <2>2. PICK p \in FreeModules[s] : b = <<p, BitIn(s, p)[3]>>
                                    /\ BitIn(s, p)[1] = word[1] /\ BitIn(s, p)[2] = word[2]
    BY <1>1, <2>1
  <2>3. Set(p) /\ c = 7 - BitIn(s, p)[3]
    BY <2>1, <2>2
  <2>4. F[p] = 1
    BY <1>3, <2>3
  <2> QED
    BY <2>2, <2>3, <2>4 DEF HoldsCode
<1>5. ASSUME NEW c \in code[word] PROVE c \in Codeword(s, D, m, word)
  <2>1. c \in 0..7
    BY DEF HoldsCode
  <2>2. PICK n \in 0..7 : n = 7 - c /\ c = 7 - n
    BY <2>1
  <2>3. n \in BitNumbers(s, word)
    BY <2>2 DEF HoldsCode
  <2>4. PICK p \in FreeModules[s] : BitIn(s, p) = Bit(word, n)
    BY <2>3, PlacedAssumption, Zenon DEF EveryBitPlaced, BitIn
  <2>5. BitIn(s, p)[1] = word[1] /\ BitIn(s, p)[2] = word[2] /\ BitIn(s, p)[3] = n
    BY <2>4 DEF Bit
  <2>6. F[p] = 1
    BY <2>2, <2>5 DEF HoldsCode
  <2>7. Set(p)
    BY <1>3, <2>6
  <2>8. <<p, n>> \in bits
    BY <1>1, <2>5
  <2>9. <<p, n>>[1] = p /\ <<p, n>>[2] = n
    OBVIOUS
  <2> QED
    BY <1>2, <2>2, <2>7, <2>8, <2>9, Zenon
<1>6. Codeword(s, D, m, word) = code[word]
  BY <1>4, <1>5
<1> QED
  BY <1>6 DEF D

(* The sizes of a symbol.                                                   *)
LEMMA Lengths ==
  ASSUME NEW s \in Symbols
  PROVE  /\ Raws[s].dataLength \in Nat /\ Raws[s].eccLength \in Nat
         /\ DataBits(s) = 8 * Raws[s].dataLength - Raws[s].oddbits /\ Raws[s].oddbits \in {0, 4}
         /\ Raws[s].dataLength = IF s.mqr THEN MQRspec_getDataLength(s.version, s.level)
                                 ELSE QRspec_getDataLength(s.version, s.level)
         /\ \E b, size : /\ b = Raws[s].blocks /\ size = Raws[s].eccLength \div Raws[s].blocks
                        /\ b \in Nat \ {0} /\ size \in 2..30 /\ Raws[s].eccLength = size * b
<1>1. PICK r, b, size : r = Raws[s] /\ b = Raws[s].blocks /\ size = Raws[s].eccLength \div Raws[s].blocks
  OBVIOUS
<1>2. /\ r.dataLength \in Nat
      /\ r.dataLength = IF s.mqr THEN MQRspec_getDataLength(s.version, s.level)
                        ELSE QRspec_getDataLength(s.version, s.level)
      /\ DataBits(s) = 8 * r.dataLength - r.oddbits /\ r.oddbits \in {0, 4}
      /\ b \in Nat \ {0} /\ size \in 2..30 /\ r.eccLength = size * b
      /\ \A k \in 1..b : /\ r.rsblock[k].data \in Nat /\ r.rsblock[k].dataLength \in Nat
                         /\ r.rsblock[k].data + r.rsblock[k].dataLength <= r.dataLength
  BY <1>1, PlacedAssumption, Zenon DEF BlocksInBuffers
<1>3. r.eccLength \in Nat
  BY <1>2
<1> QED
  BY <1>1, <1>2, <1>3

(* All codewords are read as they were written.                             *)
LEMMA CodewordsRead ==
  ASSUME NEW s \in Symbols, NEW F, NEW code, HoldsCode(s, F, code), NEW m \in 0..(maskNum(s) - 1)
  PROVE  Codewords(s, Masked(s, F, m), m)
           = [n \in 1..Raws[s].dataLength |-> code[<<"data", n - 1>>]]
               \o [n \in 1..Raws[s].eccLength |-> code[<<"ecc", n - 1>>]]
<1>1. PICK d, e : d = Raws[s].dataLength /\ e = Raws[s].eccLength
  OBVIOUS
<1>2. d \in Int /\ e \in Int
  BY <1>1, Lengths
<1>3. \A n \in 1..d : <<"data", n - 1>> \in Words(s)
  BY <1>1, <1>2 DEF Words
<1>4. \A n \in 1..e : <<"ecc", n - 1>> \in Words(s)
  BY <1>1, <1>2 DEF Words
<1>5. \A n \in 1..d : Codeword(s, Masked(s, F, m), m, <<"data", n - 1>>) = code[<<"data", n - 1>>]
  <2>1. ASSUME NEW word \in Words(s) PROVE Codeword(s, Masked(s, F, m), m, word) = code[word]
    BY CodewordRead
  <2> QED
    BY <1>3, <2>1, Zenon
<1>6. \A n \in 1..e : Codeword(s, Masked(s, F, m), m, <<"ecc", n - 1>>) = code[<<"ecc", n - 1>>]
  <2>1. ASSUME NEW word \in Words(s) PROVE Codeword(s, Masked(s, F, m), m, word) = code[word]
    BY CodewordRead
  <2> QED
    BY <1>4, <2>1, Zenon
<1>7. /\ [n \in 1..d |-> Codeword(s, Masked(s, F, m), m, <<"data", n - 1>>)] = [n \in 1..d |-> code[<<"data", n - 1>>]]
      /\ [n \in 1..e |-> Codeword(s, Masked(s, F, m), m, <<"ecc", n - 1>>)] = [n \in 1..e |-> code[<<"ecc", n - 1>>]]
  BY <1>5, <1>6, Zenon
<1> QED
  BY <1>1, <1>7, Zenon DEF Codewords
-----------------------------------------------------------------------------
(* The padding and the packing of a stream.                                 *)

(* Two sequences joined, element by element.                                *)
IsJoined(c, a, b) ==
  /\ c = a \o b /\ Len(c) = Len(a) + Len(b)
  /\ \A i \in 1..Len(a) : c[i] = a[i]
  /\ \A i \in 1..Len(b) : c[Len(a) + i] = b[i]

LEMMA Joined ==
  ASSUME NEW S, NEW a \in Seq(S), NEW b \in Seq(S)
  PROVE  \E c \in Seq(S) : IsJoined(c, a, b)
<1>1. PICK c : c = a \o b
  OBVIOUS
<1>2. c \in Seq(S) /\ Len(c) = Len(a) + Len(b)
  BY <1>1
<1>3. (\A i \in 1..Len(a) : c[i] = a[i]) /\ (\A i \in 1..Len(b) : c[Len(a) + i] = b[i])
  BY <1>1, ConcatProperties
<1> QED
  BY <1>1, <1>2, <1>3 DEF IsJoined

(* Bits, and what the padding is made of.                                   *)
Binary == {0, 1}

LEMMA BitsAreBinary ==
  ASSUME NEW n \in Nat, NEW k \in 0..23
  PROVE  BitAt(n, k) \in Binary
<1>1. PICK p \in Nat \ {0} : p = 2 ^ k
  BY PowersOfTwo, Zenon
<1>2. (n \div p) \in Nat
  BY <1>1
<1> QED
  BY <1>1, <1>2 DEF BitAt, Binary

LEMMA Filling ==
  ASSUME NEW n \in Nat
  PROVE  /\ Zeros(n) \in Seq(Binary) /\ Len(Zeros(n)) = n /\ \A k \in 1..n : Zeros(n)[k] = 0
         /\ PadBytes(n) \in Seq(Binary) /\ Len(PadBytes(n)) = 8 * n
<1>1. Zeros(n) \in Seq(Binary) /\ Len(Zeros(n)) = n /\ \A k \in 1..n : Zeros(n)[k] = 0
  BY DEF Zeros, Binary
<1>2. ASSUME NEW k \in 1..(8 * n)
      PROVE  BitAt(IF ((k - 1) \div 8) % 2 = 0 THEN \hec ELSE \h11, 7 - ((k - 1) % 8)) \in Binary
  <2>1. PICK c \in Nat : c = IF ((k - 1) \div 8) % 2 = 0 THEN \hec ELSE \h11
    <3>1. \hec \in Nat /\ \h11 \in Nat
      OBVIOUS
    <3> QED
      BY <3>1
  <2>2. 7 - ((k - 1) % 8) \in 0..23
    OBVIOUS
  <2> QED
    BY <2>1, <2>2, BitsAreBinary
<1>3. PadBytes(n) = [k \in 1..(8 * n) |-> BitAt(IF ((k - 1) \div 8) % 2 = 0 THEN \hec ELSE \h11, 7 - ((k - 1) % 8))]
  BY DEF PadBytes
<1>4. PICK N \in Nat : N = 8 * n
  OBVIOUS
<1>5. PadBytes(n) \in [1..N -> Binary]
  BY <1>2, <1>3, <1>4, Zenon
<1> QED
  BY <1>1, <1>4, <1>5

Least(a, b) == IF a <= b THEN a ELSE b

(* The padded stream: the bits, then the terminator or what fits of it.     *)
IsPadded(s, bits, padded, term) ==
  /\ padded \in Seq(Binary)
  /\ \A k \in 1..Len(bits) : padded[k] = bits[k]
  /\ \A k \in (Len(bits) + 1)..Least(Len(bits) + term, Len(padded)) : padded[k] = 0

(* QR: the padded stream is as long as the data codewords.                  *)
LEMMA PaddedQR ==
  ASSUME NEW s \in Symbols, ~ s.mqr, NEW bits \in Seq(Binary), Len(bits) <= DataBits(s)
  PROVE  /\ IsPadded(s, bits, Padded(s, bits), 4)
         /\ Len(Padded(s, bits)) = DataBits(s) /\ DataBits(s) = 8 * Raws[s].dataLength
<1>1. PICK D : D = QRspec_getDataLength(s.version, s.level)
  OBVIOUS
<1>2. D \in Nat /\ D = Raws[s].dataLength
  BY <1>1, Lengths
<1>3. DataBits(s) = 8 * D
  BY <1>1 DEF DataBits
<1>4. D = Raws[s].dataLength
  BY <1>2
<1>5. PICK L \in Nat : L = Len(bits) /\ L <= 8 * D
  BY <1>3
<1>6. CASE 8 * D - L <= 4
  <2>1. PICK z \in Nat : z = 8 * D - L
    <3>1. 8 * D - L \in Nat
      BY <1>2, <1>5
    <3> QED
      BY <3>1
  <2>2. Padded(s, bits) = bits \o Zeros(z)
    <3>1. D * 8 - Len(bits) = z
      BY <1>2, <1>5, <2>1
    <3> QED
      BY <1>1, <1>6, <2>1, <3>1 DEF Padded, QRinput_appendPaddingBit
  <2>3. PICK zeros \in Seq(Binary) : zeros = Zeros(z) /\ Len(zeros) = z /\ \A k \in 1..z : zeros[k] = 0
    BY Filling
  <2>4. PICK all \in Seq(Binary) : /\ all = bits \o zeros /\ Len(all) = L + z
                                   /\ \A k \in 1..L : all[k] = bits[k]
                                   /\ \A k \in 1..z : all[L + k] = zeros[k]
    <3>1. PICK all \in Seq(Binary) : IsJoined(all, bits, zeros)
      BY Joined
    <3> QED
      BY <1>5, <2>3, <3>1 DEF IsJoined
  <2>5. ASSUME NEW k \in (L + 1)..(L + z) PROVE all[k] = 0
    <3>1. k - L \in 1..z /\ L + (k - L) = k
      BY <2>5
    <3> QED
      BY <2>3, <2>4, <3>1
  <2>6. IsPadded(s, bits, all, 4)
    BY <1>5, <2>4, <2>5 DEF IsPadded, Least
  <2> QED
    BY <1>2, <1>3, <1>4, <1>5, <2>1, <2>2, <2>3, <2>4, <2>6
<1>7. CASE ~ (8 * D - L <= 4)
  <2>1. PICK words \in Nat : words = (L + 4 + 8 - 1) \div 8
    BY <1>5
  <2>2. words <= D /\ words * 8 - L \in Nat /\ words * 8 - L >= 4 /\ D - words \in Nat
    BY <1>2, <1>5, <1>7, <2>1
  <2>3. PICK z, n : z = words * 8 - L /\ n = D - words
    OBVIOUS
  <2>4. z \in Nat /\ n \in Nat /\ z >= 4 /\ L + z + 8 * n = 8 * D
    <3>1. z \in Nat /\ n \in Nat /\ z >= 4
      BY <2>2, <2>3
    <3>2. L + z = 8 * words /\ words + n = D
      BY <1>2, <1>5, <2>1, <2>3, <3>1
    <3>3. 8 * (words + n) = 8 * words + 8 * n
      BY <3>1
    <3> QED
      BY <3>1, <3>2, <3>3
  <2>5. Padded(s, bits) = bits \o Zeros(z) \o PadBytes(n)
    <3>1. D * 8 - Len(bits) = 8 * D - L /\ CeilDiv(Len(bits) + 4, 8) = words
      BY <1>2, <1>5, <2>1 DEF CeilDiv, Counts!CeilDiv
    <3> QED
      BY <1>1, <1>5, <1>7, <2>3, <3>1 DEF Padded, QRinput_appendPaddingBit
  <2>6. PICK zeros \in Seq(Binary), pads \in Seq(Binary) :
          /\ zeros = Zeros(z) /\ Len(zeros) = z /\ \A k \in 1..z : zeros[k] = 0
          /\ pads = PadBytes(n) /\ Len(pads) = 8 * n
    BY <2>4, Filling
  <2>7. PICK some \in Seq(Binary) : /\ some = bits \o zeros /\ Len(some) = L + z
                                    /\ \A k \in 1..L : some[k] = bits[k]
                                    /\ \A k \in 1..z : some[L + k] = zeros[k]
    <3>1. PICK some \in Seq(Binary) : IsJoined(some, bits, zeros)
      BY Joined
    <3> QED
      BY <1>5, <2>6, <3>1 DEF IsJoined
  <2>8. PICK all \in Seq(Binary) : /\ all = some \o pads /\ Len(all) = Len(some) + Len(pads)
                                   /\ \A k \in 1..Len(some) : all[k] = some[k]
    <3>1. PICK all \in Seq(Binary) : IsJoined(all, some, pads)
      BY Joined
    <3> QED
      BY <3>1 DEF IsJoined
  <2>9. ASSUME NEW k \in (L + 1)..(L + z) PROVE all[k] = 0
    <3>1. k - L \in 1..z /\ L + (k - L) = k /\ k \in 1..(L + z)
      BY <2>4, <2>9
    <3> QED
      BY <2>6, <2>7, <2>8, <3>1
  <2>10. \A k \in 1..L : all[k] = bits[k]
    <3>1. ASSUME NEW k \in 1..L PROVE all[k] = bits[k]
      <4>1. k \in 1..(L + z)
        BY <2>4
      <4>2. k \in 1..Len(some)
        BY <2>7, <4>1, Zenon
      <4> QED
        BY <1>5, <2>7, <2>8, <4>2, Zenon
    <3> QED
      BY <3>1
  <2>11. Len(all) = 8 * D
    BY <2>4, <2>6, <2>7, <2>8
  <2>12. IsPadded(s, bits, all, 4)
    BY <1>5, <2>4, <2>9, <2>10 DEF IsPadded, Least
  <2> QED
    BY <1>3, <1>4, <2>5, <2>6, <2>7, <2>8, <2>11, <2>12
<1> QED
  BY <1>6, <1>7

(* A stream that ends with zeros.                                           *)
EndsInZeros(all, bits, z) ==
  /\ all = bits \o Zeros(z) /\ Len(all) = Len(bits) + z
  /\ \A k \in 1..Len(bits) : all[k] = bits[k]
  /\ \A k \in (Len(bits) + 1)..(Len(bits) + z) : all[k] = 0

LEMMA ZerosAppended ==
  ASSUME NEW bits \in Seq(Binary), NEW z \in Nat
  PROVE  \E all \in Seq(Binary) : EndsInZeros(all, bits, z)
<1>1. PICK zeros \in Seq(Binary) : zeros = Zeros(z) /\ Len(zeros) = z /\ \A k \in 1..z : zeros[k] = 0
  BY Filling
<1>2. PICK all \in Seq(Binary) : IsJoined(all, bits, zeros)
  BY Joined
<1>3. ASSUME NEW k \in (Len(bits) + 1)..(Len(bits) + z) PROVE all[k] = 0
  <2>1. k - Len(bits) \in 1..z /\ Len(bits) + (k - Len(bits)) = k
    OBVIOUS
  <2> QED
    BY <1>1, <1>2, <2>1 DEF IsJoined
<1>4. EndsInZeros(all, bits, z)
  BY <1>1, <1>2, <1>3 DEF IsJoined, EndsInZeros
<1> QED
  BY <1>4, Zenon

(* The data bits of Micro QR symbols, from their tables.                    *)
MicroBits(s) == MQRspec_getDataLengthBit(s.version, s.level)

LEMMA MicroSizes ==
  ASSUME NEW s \in Symbols, s.mqr
  PROVE  /\ DataBits(s) = MicroBits(s) /\ MicroBits(s) \in {20, 40, 32, 84, 68, 128, 112, 80}
         /\ Raws[s].dataLength = (MicroBits(s) + 4) \div 8
         /\ s.version \in 1..4
<1>1. PICK v \in 1..4, l \in 0..3 : v = s.version /\ l = s.level
  BY SymbolsAssumption DEF MQRSPEC_VERSION_MAX
<1>2. MQRspec_getECCLength(v, l) > 0
  BY <1>1, SymbolsAssumption
<1>3. MQRspec_getDataLengthBit(v, l) \in {20, 40, 32, 84, 68, 128, 112, 80}
  BY <1>2 DEF MQRspec_getDataLengthBit, MQRspec_getECCLength, MQRspec_getWidth, mqrspecCapacity
<1>4. DataBits(s) = MicroBits(s)
  BY DEF DataBits, MicroBits
<1>5. Raws[s].dataLength = MQRspec_getDataLength(s.version, s.level)
  BY Lengths
<1> QED
  BY <1>1, <1>3, <1>4, <1>5 DEF MQRspec_getDataLength, MicroBits

(* What is padded for a Micro QR symbol is as long as it takes or, by four  *)
(* zeros, longer.                                                           *)
LEMMA PaddedMQR ==
  ASSUME NEW s \in Symbols, s.mqr, NEW bits \in Seq(Binary), Len(bits) <= DataBits(s)
  PROVE  LET padded == Padded(s, bits)
         IN  /\ IsPadded(s, bits, padded, 2 * s.version + 1)
             /\ Len(padded) \in {DataBits(s), 8 * Raws[s].dataLength}
             /\ \A k \in (DataBits(s) + 1)..Len(padded) : padded[k] = 0
<1>1. PICK M, D, v : M = MicroBits(s) /\ D = Raws[s].dataLength /\ v = s.version
  OBVIOUS
<1>2. /\ M \in {20, 40, 32, 84, 68, 128, 112, 80} /\ D = (M + 4) \div 8 /\ v \in 1..4
      /\ DataBits(s) = M
  BY <1>1, MicroSizes
<1>3. PICK L \in Nat : L = Len(bits) /\ L <= M
  BY <1>2
<1>4. PICK maxwords \in Nat, term \in Nat :
        maxwords = M \div 8 /\ term = 2 * v + 1 /\ term = v * 2 + 1 /\ term >= 3
  <2>1. M \div 8 \in Nat /\ 2 * v + 1 \in Nat /\ v * 2 + 1 = 2 * v + 1 /\ 2 * v + 1 >= 3
    BY <1>2
  <2> QED
    BY <2>1
<1>5. SUFFICES \E all : /\ all = Padded(s, bits) /\ IsPadded(s, bits, all, term) /\ Len(all) \in {M, 8 * D}
                        /\ \A k \in (M + 1)..Len(all) : all[k] = 0
  BY <1>1, <1>2, <1>4, Zenon
<1>6. PICK words \in Nat : words = (L + term + 8 - 1) \div 8
  <2>1. (L + term + 8 - 1) \div 8 \in Nat
    BY <1>3, <1>4
  <2> QED
    BY <2>1
<1>7. PICK t \in Nat : t = L + term + 8 - 1 /\ words = t \div 8
  <2>1. L + term + 8 - 1 \in Nat
    BY <1>3, <1>4
  <2> QED
    BY <1>6, <2>1
<1>8. words * 8 - L \in Nat /\ words * 8 - L >= term /\ words * 8 <= L + term + 7
  <2>1. \A a \in Nat : (a \div 8) * 8 <= a /\ a <= (a \div 8) * 8 + 7
    OBVIOUS
  <2>2. words * 8 <= t /\ t <= words * 8 + 7
    BY <1>7, <2>1
  <2>3. t = L + term + 7
    BY <1>3, <1>4, <1>7
  <2> QED
    BY <1>3, <1>4, <2>2, <2>3
<1>9. CeilDiv(Len(bits) + term, 8) = words
  BY <1>3, <1>6 DEF CeilDiv, Counts!CeilDiv
<1>10. CASE M - L <= term
  <2>1. PICK z \in Nat : z = M - L
    <3>1. M - L \in Nat
      BY <1>2, <1>3
    <3> QED
      BY <3>1
  <2>2. Padded(s, bits) = bits \o Zeros(z)
    BY <1>1, <1>3, <1>4, <1>10, <2>1 DEF Padded, QRinput_appendPaddingBitMQR, MicroBits
  <2>3. PICK all \in Seq(Binary) : EndsInZeros(all, bits, z)
    BY ZerosAppended
  <2>4. /\ all \in Seq(Binary) /\ Len(all) = L + z /\ all = bits \o Zeros(z)
        /\ \A k \in 1..L : all[k] = bits[k]
        /\ \A k \in (L + 1)..(L + z) : all[k] = 0
    BY <1>3, <2>3 DEF EndsInZeros
  <2>5. L + z = M /\ Len(all) = M
    BY <1>2, <1>3, <2>1, <2>4
  <2>6. IsPadded(s, bits, all, term)
    BY <1>2, <1>3, <1>4, <2>4, <2>5 DEF IsPadded, Least
  <2>7. all = Padded(s, bits)
    BY <2>2, <2>4
  <2>8. \A k \in (M + 1)..Len(all) : all[k] = 0
    BY <1>2, <2>5
  <2> QED
    BY <2>5, <2>6, <2>7, <2>8, Zenon
<1>11. CASE ~ (M - L <= term) /\ words < maxwords
  <2>1. PICK z \in Nat, n \in Nat, e \in Nat :
          z = words * 8 - L /\ n = maxwords - words /\ e = M - maxwords * 8
    <3>1. words * 8 - L \in Nat /\ maxwords - words \in Nat
      BY <1>4, <1>8, <1>11
    <3>2. M - maxwords * 8 \in Nat
      BY <1>2, <1>4
    <3> QED
      BY <3>1, <3>2
  <2>2. Padded(s, bits) = bits \o Zeros(z) \o PadBytes(n) \o Zeros(e)
    <3>1. words * 8 - Len(bits) + (IF words = maxwords /\ M > words * 8 THEN M - words * 8 ELSE 0) = z
      BY <1>3, <1>11, <2>1
    <3> QED
      BY <1>1, <1>3, <1>4, <1>9, <1>11, <2>1, <3>1 DEF Padded, QRinput_appendPaddingBitMQR, MicroBits
  <2>3. PICK some \in Seq(Binary) : EndsInZeros(some, bits, z)
    BY ZerosAppended
  <2>4. /\ some \in Seq(Binary) /\ Len(some) = L + z /\ some = bits \o Zeros(z)
        /\ \A k \in 1..L : some[k] = bits[k]
        /\ \A k \in (L + 1)..(L + z) : some[k] = 0
    BY <1>3, <2>3 DEF EndsInZeros
  <2>5. PICK pads \in Seq(Binary) : pads = PadBytes(n) /\ Len(pads) = 8 * n
    BY Filling
  <2>6. PICK more \in Seq(Binary) : IsJoined(more, some, pads)
    BY <2>4, Joined
  <2>7. PICK all \in Seq(Binary) : EndsInZeros(all, more, e)
    BY ZerosAppended
  <2>8. /\ all \in Seq(Binary) /\ Len(all) = Len(more) + e /\ all = more \o Zeros(e)
        /\ \A k \in 1..Len(more) : all[k] = more[k]
    BY <2>7 DEF EndsInZeros
  <2>9. L + z = 8 * words /\ 8 * words + 8 * n = 8 * maxwords /\ z >= term
    <3>1. L + z = 8 * words
      BY <1>3, <2>1
    <3>2. words + n = maxwords
      BY <1>4, <2>1
    <3>3. 8 * (words + n) = 8 * words + 8 * n
      BY <2>1
    <3> QED
      BY <1>8, <2>1, <3>1, <3>2, <3>3
  <2>10. Len(more) = 8 * maxwords /\ Len(all) = M /\ Len(some) = 8 * words
    <3>1. Len(some) = 8 * words
      BY <2>4, <2>9, Zenon
    <3>2. Len(more) = 8 * words + 8 * n
      BY <2>5, <2>6, <3>1, Zenon DEF IsJoined
    <3>3. Len(more) = 8 * maxwords
      BY <2>9, <3>2, Zenon
    <3>4. 8 * maxwords + e = M
      BY <1>2, <1>4, <2>1
    <3>5. Len(all) = M
      BY <2>8, <3>3, <3>4, Zenon
    <3> QED
      BY <3>1, <3>3, <3>5, Zenon
  <2>11. \A k \in 1..Len(some) : all[k] = some[k]
    <3>1. \A k \in 1..Len(some) : more[k] = some[k]
      BY <2>6 DEF IsJoined
    <3>2. \A k \in 1..Len(some) : k \in 1..Len(more)
      BY <2>9, <2>10, <2>1
    <3> QED
      BY <2>8, <3>1, <3>2
  <2>12. \A k \in 1..L : all[k] = bits[k]
    <3>1. \A k \in 1..L : k \in 1..Len(some)
      BY <1>3, <2>1, <2>4
    <3> QED
      BY <2>4, <2>11, <3>1
  <2>13. \A k \in (L + 1)..(L + z) : all[k] = 0
    <3>1. \A k \in (L + 1)..(L + z) : k \in 1..Len(some)
      BY <1>3, <2>1, <2>4
    <3> QED
      BY <2>4, <2>11, <3>1
  <2>14. IsPadded(s, bits, all, term)
    <3>1. Len(all) = M /\ L + z <= M /\ L + term <= L + z
      BY <1>2, <1>3, <1>4, <2>1, <2>9, <2>10
    <3>2. Least(L + term, Len(all)) <= L + z /\ Least(L + term, Len(all)) \in Nat
      BY <1>2, <1>3, <1>4, <2>1, <3>1 DEF Least
    <3>3. \A k \in (L + 1)..Least(L + term, Len(all)) : k \in (L + 1)..(L + z)
      BY <1>3, <2>1, <3>2
    <3> QED
      BY <1>3, <2>8, <2>12, <2>13, <3>3 DEF IsPadded
  <2>15. all = Padded(s, bits)
    BY <2>2, <2>4, <2>5, <2>6, <2>8 DEF IsJoined
  <2>16. \A k \in (M + 1)..Len(all) : all[k] = 0
    BY <1>2, <2>10
  <2> QED
    BY <2>10, <2>14, <2>15, <2>16, Zenon
<1>12. CASE ~ (M - L <= term) /\ ~ (words < maxwords)
  <2>1. PICK z : z = words * 8 - L + (IF words = maxwords /\ M > words * 8 THEN M - words * 8 ELSE 0)
    OBVIOUS
  <2>2. Padded(s, bits) = bits \o Zeros(z)
    BY <1>1, <1>3, <1>4, <1>9, <1>12, <2>1 DEF Padded, QRinput_appendPaddingBitMQR, MicroBits
  <2>3. /\ z \in Nat /\ z >= term /\ L + z \in {M, 8 * D} /\ L + z >= M
    <3>1. L + term < M /\ words >= maxwords /\ words * 8 - L \in Nat /\ words * 8 - L >= term
      BY <1>2, <1>3, <1>4, <1>8, <1>12
    <3>2. words <= D /\ D \in {maxwords, maxwords + 1}
      BY <1>2, <1>3, <1>4, <1>8, <3>1
    <3>3. CASE words = maxwords
      <4>1. z = words * 8 - L + (M - words * 8) /\ M - words * 8 \in Nat
        BY <1>2, <1>4, <2>1, <3>3
      <4> QED
        BY <1>2, <1>3, <3>1, <4>1
    <3>4. CASE words # maxwords
      <4>1. words = D /\ D = maxwords + 1 /\ z = words * 8 - L
        BY <1>2, <1>4, <2>1, <3>1, <3>2, <3>4
      <4>2. 8 * D >= M
        BY <1>2
      <4> QED
        BY <1>2, <1>3, <3>1, <4>1, <4>2
    <3> QED
      BY <3>3, <3>4
  <2>4. PICK all \in Seq(Binary) : EndsInZeros(all, bits, z)
    BY <2>3, ZerosAppended
  <2>5. /\ all \in Seq(Binary) /\ Len(all) = L + z /\ all = bits \o Zeros(z)
        /\ \A k \in 1..L : all[k] = bits[k]
        /\ \A k \in (L + 1)..(L + z) : all[k] = 0
    BY <1>3, <2>4 DEF EndsInZeros
  <2>6. IsPadded(s, bits, all, term)
    BY <1>3, <1>4, <2>3, <2>5 DEF IsPadded, Least
  <2>7. \A k \in (M + 1)..Len(all) : all[k] = 0
    BY <1>2, <1>3, <2>3, <2>5
  <2>8. all = Padded(s, bits)
    BY <2>2, <2>5, Zenon
  <2>9. Len(all) \in {M, 8 * D}
    BY <1>2, <2>3, <2>5
  <2> QED
    BY <2>6, <2>7, <2>8, <2>9, Zenon
<1> QED
  BY <1>10, <1>11, <1>12

(* The padding of both kinds of symbol.                                     *)
TerminatorBits(s) == IF s.mqr THEN 2 * s.version + 1 ELSE 4

(* A stream that fills the data codewords, with zeros where the last one    *)
(* has no room.                                                             *)
FillsData(s, padded) ==
  /\ padded \in Seq(Binary)
  /\ Len(padded) \in {DataBits(s), 8 * Raws[s].dataLength}
  /\ \A k \in (DataBits(s) + 1)..Len(padded) : padded[k] = 0

(* QRinput_appendPaddingBit and its Micro QR form fill the symbol.          *)
LEMMA PaddedFills ==
  ASSUME NEW s \in Symbols, NEW bits \in Seq(Binary), Len(bits) <= DataBits(s)
  PROVE  FillsData(s, Padded(s, bits)) /\ IsPadded(s, bits, Padded(s, bits), TerminatorBits(s))
<1>1. CASE s.mqr
  BY <1>1, PaddedMQR DEF FillsData, TerminatorBits, IsPadded
<1>2. CASE ~ s.mqr
  <2>1. Padded(s, bits) \in Seq(Binary) /\ Len(Padded(s, bits)) = DataBits(s)
    BY <1>2, PaddedQR DEF IsPadded
  <2>2. PICK M : M = DataBits(s)
    OBVIOUS
  <2>3. M \in Nat
    BY <2>1, <2>2
  <2>4. \A k \in (M + 1)..M : FALSE
    BY <2>3
  <2>5. IsPadded(s, bits, Padded(s, bits), 4)
    BY <1>2, PaddedQR
  <2> QED
    BY <1>2, <2>1, <2>2, <2>4, <2>5 DEF FillsData, TerminatorBits
<1> QED
  BY <1>1, <1>2

(* BitStream_toByte loses nothing, and what is not in the symbol stays zero.*)
LEMMA BytesMade ==
  ASSUME NEW s \in Symbols, NEW padded, FillsData(s, padded)
  PROVE  LET bytes == BitStream_toByte(padded)
         IN  /\ bytes \in Seq(Byte) /\ Len(bytes) = Raws[s].dataLength
             /\ \A b \in 1..Raws[s].dataLength : \A n \in 0..7 :
                  n \notin BitNumbers(s, <<"data", b - 1>>) => 7 - n \notin bytes[b]
             /\ \A c : (\A b \in 1..Raws[s].dataLength : c[b] = bytes[b])
                         => DataStream(s, c) = [k \in 1..DataBits(s) |-> padded[k]]
<1>1. PICK D, o, M : D = Raws[s].dataLength /\ o = Raws[s].oddbits /\ M = DataBits(s)
  OBVIOUS
<1>2. D \in Nat /\ o \in {0, 4} /\ M = 8 * D - o
  BY <1>1, Lengths
<1>3. PICK L \in Nat : L = Len(padded) /\ (L = M \/ L = 8 * D)
  BY <1>1 DEF FillsData
<1>4. (L + 8 - 1) \div 8 = D
  BY <1>2, <1>3
<1>5. \A k \in 1..L : padded[k] \in {0, 1} /\ (k > M => padded[k] = 0)
  <2>1. \A k \in 1..L : padded[k] \in {0, 1}
    BY <1>3 DEF FillsData, Binary
  <2>2. \A k \in (M + 1)..L : padded[k] = 0
    BY <1>1, <1>3 DEF FillsData
  <2>3. \A k \in 1..L : k > M => k \in (M + 1)..L
    BY <1>2, <1>3
  <2> QED
    BY <2>1, <2>2, <2>3
<1> DEFINE bytes == BitStream_toByte(padded)
<1>6. bytes = [b \in 1..D |-> {k \in 0..7 : 8 * b - k <= L /\ padded[8 * b - k] = 1}]
  BY <1>3, <1>4, Zenon DEF BitStream_toByte, CeilDiv, Counts!CeilDiv
<1> HIDE DEF bytes
<1>7. bytes \in Seq(Byte) /\ Len(bytes) = D
  <2>1. bytes \in [1..D -> Byte]
    BY <1>6 DEF Byte
  <2> QED
    BY <1>2, <2>1
<1>8. ASSUME NEW b \in 1..D, NEW n \in 0..7, n \notin BitNumbers(s, <<"data", b - 1>>)
      PROVE  7 - n \notin bytes[b]
  <2>1. CASE b - 1 = D - 1
    <3>1. BitNumbers(s, <<"data", b - 1>>) = 0..(7 - o)
      BY <1>1, <2>1 DEF BitNumbers
    <3>2. n > 7 - o /\ b = D
      BY <1>2, <1>8, <2>1, <3>1
    <3>3. 8 * b - (7 - n) > M
      BY <1>2, <3>2
    <3>4. 8 * b - (7 - n) \in 1..L => padded[8 * b - (7 - n)] = 0
      BY <1>5, <3>3
    <3>5. 8 * b - (7 - n) >= 1 /\ 8 * b - (7 - n) \in Int
      BY <1>2
    <3>6. ~ (8 * b - (7 - n) <= L /\ padded[8 * b - (7 - n)] = 1)
      BY <1>3, <3>4, <3>5
    <3> QED
      BY <1>6, <3>6
  <2>2. CASE b - 1 # D - 1
    <3>1. <<"data", b - 1>> # <<"data", Raws[s].dataLength - 1>>
      BY <1>1, <2>2
    <3>2. BitNumbers(s, <<"data", b - 1>>) = 0..7
      BY <3>1, Zenon DEF BitNumbers
    <3> QED
      BY <1>8, <3>2
  <2> QED
    BY <2>1, <2>2
<1>9. ASSUME NEW c, \A b \in 1..D : c[b] = bytes[b]
      PROVE  DataStream(s, c) = [k \in 1..M |-> padded[k]]
  <2>1. ASSUME NEW k \in 1..M
        PROVE  (IF 7 - ((k - 1) % 8) \in c[((k - 1) \div 8) + 1] THEN 1 ELSE 0) = padded[k]
    <3>1. PICK q \in Nat, r \in 0..7 : q = (k - 1) \div 8 /\ r = (k - 1) % 8 /\ k - 1 = 8 * q + r
      <4>1. k - 1 \in Nat
        BY <1>2
      <4>2. \A a \in Nat : a \div 8 \in Nat /\ a % 8 \in 0..7 /\ a = 8 * (a \div 8) + (a % 8)
        OBVIOUS
      <4> QED
        BY <4>1, <4>2
    <3>2. q + 1 \in 1..D /\ 8 * (q + 1) - (7 - r) = k /\ k \in 1..L /\ 7 - r \in 0..7
      BY <1>2, <1>3, <3>1
    <3>3. c[q + 1] = {e \in 0..7 : 8 * (q + 1) - e <= L /\ padded[8 * (q + 1) - e] = 1}
      BY <1>6, <1>9, <3>2
    <3>4. 7 - r \in c[q + 1] <=> padded[k] = 1
      <4>1. 7 - r \in c[q + 1] <=> 8 * (q + 1) - (7 - r) <= L /\ padded[8 * (q + 1) - (7 - r)] = 1
        BY <3>2, <3>3
      <4>2. k <= L
        BY <3>2
      <4> QED
        BY <3>2, <4>1, <4>2
    <3>5. padded[k] \in {0, 1}
      BY <1>5, <3>2
    <3> QED
      BY <3>1, <3>4, <3>5
  <2>2. [k \in 1..M |-> IF 7 - ((k - 1) % 8) \in c[((k - 1) \div 8) + 1] THEN 1 ELSE 0] = [k \in 1..M |-> padded[k]]
    BY <2>1, Zenon
  <2> QED
    BY <1>1, <2>2, Zenon DEF DataStream
<1> QED
  BY <1>1, <1>7, <1>8, <1>9 DEF bytes
-----------------------------------------------------------------------------
(* The Reed-Solomon code: what the encoder appends to any data makes every  *)
(* power of the root that the generator has a zero of the word.             *)

(* Induction over a set of numbers, and functions defined by recursion.     *)
LEMMA LeastElement ==
  ASSUME NEW S, S \subseteq Nat, S # {}
  PROVE  \E m \in S : \A v \in S : m <= v
<1> DEFINE R == OpToRel(<, Nat)
<1>1. \E m \in S : \A v \in S : <<v, m>> \notin R
  BY NatLessThanWellFounded, WFMin, Zenon
<1>2. \A v, m \in Nat : <<v, m>> \notin R => m <= v
  BY DEF OpToRel
<1> QED
  BY <1>1, <1>2

(* The induction principle as a statement about sets.                       *)
LEMMA Induction ==
  ASSUME NEW N \in Nat, NEW S, 0 \in S, \A n \in 0..(N - 1) : n \in S => n + 1 \in S
  PROVE  \A n \in 0..N : n \in S
<1> DEFINE Missing == {n \in 0..N : n \notin S}
<1>1. SUFFICES ASSUME Missing # {} PROVE FALSE
  OBVIOUS
<1>2. PICK m \in Missing : \A v \in Missing : m <= v
  <2>1. Missing \subseteq Nat
    OBVIOUS
  <2> HIDE DEF Missing
  <2> QED
    BY <1>1, <2>1, LeastElement
<1>3. m # 0 /\ m - 1 \in 0..(N - 1) /\ m - 1 \notin Missing
  BY <1>2
<1>4. m - 1 \in S
  BY <1>3
<1>5. (m - 1) + 1 \in S
  BY <1>3, <1>4
<1> QED
  BY <1>2, <1>5

\* f goes from base by the steps of g.
Iterates(f, N, base, g) == /\ DOMAIN f = 0..N /\ f[0] = base
                           /\ \A i \in 1..N : f[i] = g[<<i, f[i - 1]>>]

(* Such a function exists, and there is one only.                           *)
LEMMA Recursion ==
  ASSUME NEW V, NEW N \in Nat, NEW base \in V, NEW g, \A i \in 1..N, v \in V : g[<<i, v>>] \in V
  PROVE  \E f \in [0..N -> V] : Iterates(f, N, base, g)
<1> DEFINE S == {n \in 0..N : \E f \in [0..n -> V] : Iterates(f, n, base, g)}
<1>1. 0 \in S
  <2>1. [i \in 0..0 |-> base] \in [0..0 -> V] /\ Iterates([i \in 0..0 |-> base], 0, base, g)
    BY DEF Iterates
  <2> QED
    BY <2>1
<1>2. ASSUME NEW n \in 0..(N - 1), n \in S PROVE n + 1 \in S
  <2>1. PICK f \in [0..n -> V] : Iterates(f, n, base, g)
    BY <1>2
  <2> DEFINE h == [i \in 0..(n + 1) |-> IF i = n + 1 THEN g[<<i, f[n]>>] ELSE f[i]]
  <2>2. h \in [0..(n + 1) -> V]
    <3>1. g[<<n + 1, f[n]>>] \in V
      BY <2>1
    <3> QED
      BY <2>1, <3>1
  <2>3. ASSUME NEW i \in 1..(n + 1) PROVE h[i] = g[<<i, h[i - 1]>>]
    <3>1. CASE i = n + 1
      BY <3>1
    <3>2. CASE i # n + 1
      BY <2>1, <3>2 DEF Iterates
    <3> QED
      BY <3>1, <3>2
  <2>4. h[0] = base
    BY <2>1 DEF Iterates
  <2>5. Iterates(h, n + 1, base, g)
    BY <2>3, <2>4 DEF Iterates
  <2> HIDE DEF h
  <2>6. \E e \in [0..(n + 1) -> V] : Iterates(e, n + 1, base, g)
    BY <2>2, <2>5
  <2> QED
    BY <2>6
<1> HIDE DEF S
<1>3. N \in S
  BY <1>1, <1>2, Induction
<1> QED
  BY <1>3 DEF S

LEMMA RecursionUnique ==
  ASSUME NEW N \in Nat, NEW base, NEW g, NEW f, NEW h, Iterates(f, N, base, g), Iterates(h, N, base, g)
  PROVE  \A i \in 0..N : f[i] = h[i]
<1> DEFINE S == {n \in 0..N : f[n] = h[n]}
<1>1. 0 \in S
  BY DEF Iterates
<1>2. ASSUME NEW n \in 0..(N - 1), n \in S PROVE n + 1 \in S
  <2>1. n + 1 \in 1..N /\ (n + 1) - 1 = n /\ f[n] = h[n]
    BY <1>2
  <2>2. f[n + 1] = g[<<n + 1, f[n]>>] /\ h[n + 1] = g[<<n + 1, h[n]>>]
    BY <2>1 DEF Iterates
  <2> QED
    BY <2>1, <2>2
<1> HIDE DEF S
<1>3. \A n \in 0..N : n \in S
  BY <1>1, <1>2, Induction
<1> QED
  BY <1>3 DEF S

-----------------------------------------------------------------------------
(* The field.  Scaled(a, e) is a times the e-th power of the root.          *)
LEMMA XorLaws ==
  ASSUME NEW a, NEW b, NEW c
  PROVE  /\ Xor(a, b) = Xor(b, a) /\ Xor(a, Xor(b, c)) = Xor(Xor(a, b), c)
         /\ Xor(a, Zero) = a /\ Xor(Zero, a) = a /\ Xor(a, a) = Zero
BY Zenon DEF Xor, Zero

LEMMA XorByte ==
  ASSUME NEW a \in Byte, NEW b \in Byte
  PROVE  Xor(a, b) \in Byte /\ Zero \in Byte /\ (Xor(a, b) = Zero => a = b)
<1>1. Xor(a, b) \in Byte /\ Zero \in Byte
  BY DEF Xor, Byte, Zero
<1>2. Xor(a, b) = Zero => a = b
  BY DEF Xor, Zero
<1> QED
  BY <1>1, <1>2

(* Multiplication by the root distributes over addition.                    *)
LEMMA DoubleLinear ==
  ASSUME NEW a \in Byte, NEW b \in Byte
  PROVE  Double(Xor(a, b)) = Xor(Double(a), Double(b))
<1> DEFINE up(c) == {k + 1 : k \in c}
<1>1. up(Xor(a, b)) = Xor(up(a), up(b))
  <2>1. \A c \in Byte : \A n : n \in up(c) <=> n \in Int /\ n - 1 \in c
    BY DEF Byte
  <2>2. Xor(a, b) \in Byte
    BY XorByte
  <2> HIDE DEF up
  <2>3. \A n : n \in up(Xor(a, b)) <=> n \in Xor(up(a), up(b))
    BY <2>1, <2>2 DEF Xor
  <2> QED
    BY <2>3
<1>2. \A c : Double(c) = IF 8 \in up(c) THEN Xor(up(c), proot) ELSE up(c)
  BY DEF Double
<1> HIDE DEF up
<1>3. PICK p, q, r : p = up(a) /\ q = up(b) /\ r = proot
  OBVIOUS
<1>4. /\ Double(a) = IF 8 \in p THEN Xor(p, r) ELSE p
      /\ Double(b) = IF 8 \in q THEN Xor(q, r) ELSE q
      /\ Double(Xor(a, b)) = IF 8 \in Xor(p, q) THEN Xor(Xor(p, q), r) ELSE Xor(p, q)
  BY <1>1, <1>2, <1>3
<1>5. 8 \in Xor(p, q) <=> ((8 \in p) # (8 \in q))
  BY DEF Xor
<1>6. /\ Xor(Xor(p, r), Xor(q, r)) = Xor(p, q)
      /\ Xor(Xor(p, r), q) = Xor(Xor(p, q), r)
      /\ Xor(p, Xor(q, r)) = Xor(Xor(p, q), r)
  BY Zenon DEF Xor
<1>7. CASE 8 \in p /\ 8 \in q
  BY <1>4, <1>5, <1>6, <1>7
<1>8. CASE 8 \in p /\ 8 \notin q
  BY <1>4, <1>5, <1>6, <1>8
<1>9. CASE 8 \notin p /\ 8 \in q
  BY <1>4, <1>5, <1>6, <1>9
<1>10. CASE 8 \notin p /\ 8 \notin q
  BY <1>4, <1>5, <1>6, <1>10
<1> QED
  BY <1>7, <1>8, <1>9, <1>10

(* The tables hold the powers of the root and their logarithms.             *)
LEMMA Powers == alpha[0] = One /\ \A i \in 0..254 : alpha[(i + 1) % 255] = Double(alpha[i])
BY PowersAssumption DEF symbols

LEMMA PowerOf ==
  ASSUME NEW i \in 0..254
  PROVE  alpha[i] \in Byte /\ alpha[i] # Zero /\ aindex[alpha[i]] = i
<1>1. 0..254 = 0..(symbols - 1)
  BY DEF symbols
<1>2. i \in 0..(symbols - 1)
  BY <1>1, Zenon
<1> QED
  BY <1>2, LogsAssumption, Zenon

LEMMA LogOf ==
  ASSUME NEW b \in Byte, b # Zero
  PROVE  aindex[b] \in 0..254 /\ alpha[aindex[b]] = b
<1>1. 0..254 = 0..(symbols - 1)
  BY DEF symbols
<1>2. aindex[b] \in 0..(symbols - 1) /\ alpha[aindex[b]] = b
  BY LogsAssumption, Zenon
<1> QED
  BY <1>1, <1>2, Zenon

LEMMA LogOfZero == aindex[Zero] = 255 /\ One \in Byte /\ One # Zero /\ Zero \in Byte
<1>1. Zero \in Byte /\ One \in Byte /\ One # Zero
  BY DEF Zero, One, Byte
<1>2. aindex[Zero] = 255
  BY LogsAssumption DEF symbols
<1> QED
  BY <1>1, <1>2

\* The product as a power of the root.
LEMMA ScaledPower ==
  ASSUME NEW a \in Byte, NEW e \in Nat, a # Zero
  PROVE  aindex[a] \in 0..254 /\ a = alpha[aindex[a]] /\ Scaled(a, e) = alpha[(aindex[a] + e) % 255]
<1>1. PICK n : n = aindex[a]
  OBVIOUS
<1>2. n \in 0..254 /\ a = alpha[n]
  BY <1>1, LogOf, Zenon
<1>3. Scaled(a, e) = alpha[(n + e) % 255]
  BY <1>1 DEF Scaled, Times, Log, symbols
<1> QED
  BY <1>1, <1>2, <1>3

(* Scaling: bytes to bytes, and as the powers of the root multiply.         *)
LEMMA ScaledByte ==
  ASSUME NEW a \in Byte, NEW e \in Nat
  PROVE  /\ Scaled(a, e) \in Byte
         /\ a # Zero => Scaled(a, e) # Zero /\ aindex[Scaled(a, e)] = (aindex[a] + e) % 255
<1>1. CASE a = Zero
  BY <1>1 DEF Scaled, Zero, Byte
<1>2. CASE a # Zero
  <2>1. PICK n : n = aindex[a]
    OBVIOUS
  <2>2. aindex[a] \in 0..254 /\ Scaled(a, e) = alpha[(aindex[a] + e) % 255]
    BY <1>2, ScaledPower
  <2>3. n \in 0..254 /\ Scaled(a, e) = alpha[(n + e) % 255]
    BY <2>1, <2>2, Zenon
  <2>4. PICK m \in 0..254 : m = (n + e) % 255
    BY <2>3
  <2>5. alpha[m] \in Byte /\ alpha[m] # Zero /\ aindex[alpha[m]] = m
    BY <2>4, PowerOf
  <2> QED
    BY <2>1, <2>3, <2>4, <2>5, Zenon
<1> QED
  BY <1>1, <1>2

LEMMA SameLog ==
  ASSUME NEW a \in Byte, NEW b \in Byte, a # Zero, b # Zero, aindex[a] = aindex[b]
  PROVE  a = b
BY LogOf, Zenon

LEMMA ScaledAgain ==
  ASSUME NEW a \in Byte, NEW e \in Nat, NEW f \in Nat
  PROVE  Scaled(Scaled(a, e), f) = Scaled(a, e + f)
<1>1. CASE a = Zero
  BY <1>1 DEF Scaled
<1>2. CASE a # Zero
  <2>1. PICK n \in 0..254 : n = aindex[a] /\ a = alpha[n]
    BY <1>2, LogOf, Zenon
  <2>2. PICK m : m = Scaled(a, e)
    OBVIOUS
  <2>3. m \in Byte /\ m # Zero /\ aindex[m] = (n + e) % 255
    BY <1>2, <2>1, <2>2, ScaledByte, Zenon
  <2>4. PICK k : k = Scaled(m, f)
    OBVIOUS
  <2>5. k \in Byte /\ k # Zero /\ aindex[k] = (aindex[m] + f) % 255
    BY <2>3, <2>4, ScaledByte, Zenon
  <2>6. PICK h, g : h = Scaled(a, g) /\ g = e + f /\ g \in Nat
    OBVIOUS
  <2>7. h \in Byte /\ h # Zero /\ aindex[h] = (aindex[a] + g) % 255
    BY <1>2, <2>6, ScaledByte, Zenon
  <2>8. (((n + e) % 255) + f) % 255 = (n + (e + f)) % 255
    BY <2>1
  <2>9. aindex[k] = aindex[h]
    BY <2>1, <2>3, <2>5, <2>6, <2>7, <2>8
  <2>10. k = h
    BY <2>5, <2>7, <2>9, SameLog, Zenon
  <2> QED
    BY <2>2, <2>4, <2>6, <2>10, Zenon
<1> QED
  BY <1>1, <1>2

LEMMA ScaledOnce ==
  ASSUME NEW a \in Byte
  PROVE  Scaled(a, 0) = a /\ Scaled(a, 1) = Double(a)
<1>1. CASE a = Zero
  <2>1. Double(Zero) = Zero
    BY DEF Double, Zero
  <2> QED
    BY <1>1, <2>1 DEF Scaled
<1>2. CASE a # Zero
  <2>1. 0 \in Nat /\ 1 \in Nat
    OBVIOUS
  <2>2. aindex[a] \in 0..254 /\ a = alpha[aindex[a]] /\ Scaled(a, 0) = alpha[(aindex[a] + 0) % 255]
    <3>1. PICK e \in Nat : e = 0
      OBVIOUS
    <3>2. aindex[a] \in 0..254 /\ a = alpha[aindex[a]] /\ Scaled(a, e) = alpha[(aindex[a] + e) % 255]
      BY <1>2, ScaledPower
    <3> QED
      BY <3>1, <3>2, Zenon
  <2>3. Scaled(a, 1) = alpha[(aindex[a] + 1) % 255]
    BY <1>2, Zenon DEF Scaled, Times, Log, symbols
  <2>4. alpha[(aindex[a] + 1) % 255] = Double(alpha[aindex[a]])
    BY <2>2, Powers, Zenon
  <2>5. (aindex[a] + 0) % 255 = aindex[a]
    BY <2>2
  <2> QED
    BY <2>2, <2>3, <2>4, <2>5, Zenon
<1> QED
  BY <1>1, <1>2

(* It distributes over addition, and goes through it in either order.       *)
LEMMA ScaledSum ==
  ASSUME NEW a \in Byte, NEW b \in Byte, NEW e \in Nat
  PROVE  Scaled(Xor(a, b), e) = Xor(Scaled(a, e), Scaled(b, e))
<1> DEFINE S == {n \in 0..e : Scaled(Xor(a, b), n) = Xor(Scaled(a, n), Scaled(b, n))}
<1>1. 0 \in S
  BY ScaledOnce, XorByte
<1>2. ASSUME NEW n \in 0..(e - 1), n \in S PROVE n + 1 \in S
  <2>1. PICK c : c = Xor(a, b) /\ c \in Byte
    BY XorByte
  <2>2. PICK p, q, r : /\ p = Scaled(a, n) /\ q = Scaled(b, n) /\ r = Scaled(c, n)
                       /\ p \in Byte /\ q \in Byte /\ r \in Byte /\ r = Xor(p, q)
    BY <1>2, <2>1, ScaledByte
  <2>3. /\ Scaled(a, n + 1) = Double(p) /\ Scaled(b, n + 1) = Double(q)
        /\ Scaled(c, n + 1) = Double(r)
    <3>1. \A d \in Byte : Scaled(d, n) \in Byte /\ Scaled(Scaled(d, n), 1) = Scaled(d, n + 1)
      BY ScaledAgain, ScaledByte
    <3> QED
      BY <2>1, <2>2, <3>1, ScaledOnce
  <2>4. Double(r) = Xor(Double(p), Double(q))
    BY <2>2, DoubleLinear
  <2> QED
    BY <2>1, <2>3, <2>4
<1> HIDE DEF S
<1>3. e \in S
  BY <1>1, <1>2, Induction
<1> QED
  BY <1>3 DEF S

LEMMA ScaledSwap ==
  ASSUME NEW g \in 0..254, NEW h \in 0..254
  PROVE  Scaled(alpha[g], h) = alpha[Log(g + h)] /\ alpha[Log(g + h)] = Scaled(alpha[h], g)
<1>1. \A i, k \in 0..254 : Scaled(alpha[i], k) = alpha[Log(i + k)]
  <2>1. SUFFICES ASSUME NEW i \in 0..254, NEW k \in 0..254 PROVE Scaled(alpha[i], k) = alpha[Log(i + k)]
    OBVIOUS
  <2>2. alpha[i] # Zero /\ aindex[alpha[i]] = i
    BY PowerOf
  <2>3. Scaled(alpha[i], k) = alpha[Log(aindex[alpha[i]] + k)]
    BY <2>2, Zenon DEF Scaled, Times
  <2> QED
    BY <2>2, <2>3, Zenon
<1>2. g + h = h + g
  OBVIOUS
<1> QED
  BY <1>1, <1>2, Zenon

-----------------------------------------------------------------------------
(* Horner's rule from a base.                                               *)
IsHorner(v, base, u, N, e) == /\ v[0] = base
                              /\ \A i \in 1..N : v[i] = Xor(Scaled(v[i - 1], e), u[i])

(* Every sequence of bytes has its values by Horner's rule, and one result. *)
LEMMA HornerExists ==
  ASSUME NEW N \in Nat, NEW e \in Nat, NEW base \in Byte, NEW u, \A i \in 1..N : u[i] \in Byte
  PROVE  \E v \in [0..N -> Byte] : IsHorner(v, base, u, N, e)
<1> DEFINE g == [p \in (1..N) \X Byte |-> Xor(Scaled(p[2], e), u[p[1]])]
<1>1. ASSUME NEW i \in 1..N, NEW b \in Byte
      PROVE  g[<<i, b>>] = Xor(Scaled(b, e), u[i]) /\ g[<<i, b>>] \in Byte
  <2>1. g[<<i, b>>] = Xor(Scaled(b, e), u[i])
    OBVIOUS
  <2>2. Scaled(b, e) \in Byte /\ u[i] \in Byte
    BY ScaledByte
  <2> QED
    BY <2>1, <2>2, XorByte, Zenon
<1> HIDE DEF g
<1>2. PICK v \in [0..N -> Byte] : Iterates(v, N, base, g)
  BY <1>1, Recursion
<1>3. ASSUME NEW i \in 1..N PROVE v[i] = Xor(Scaled(v[i - 1], e), u[i])
  <2>1. v[i] = g[<<i, v[i - 1]>>] /\ v[i - 1] \in Byte
    BY <1>2 DEF Iterates
  <2> QED
    BY <1>1, <2>1
<1>4. v[0] = base
  BY <1>2 DEF Iterates
<1> QED
  BY <1>2, <1>3, <1>4 DEF IsHorner

LEMMA HornerUnique ==
  ASSUME NEW N \in Nat, NEW e, NEW base, NEW u, NEW v, NEW w,
         IsHorner(v, base, u, N, e), IsHorner(w, base, u, N, e)
  PROVE  v[N] = w[N]
<1> DEFINE S == {n \in 0..N : v[n] = w[n]}
<1>1. 0 \in S
  BY DEF IsHorner
<1>2. ASSUME NEW n \in 0..(N - 1), n \in S PROVE n + 1 \in S
  <2>1. n + 1 \in 1..N /\ (n + 1) - 1 = n /\ v[n] = w[n]
    BY <1>2
  <2>2. v[n + 1] = Xor(Scaled(v[(n + 1) - 1], e), u[n + 1])
    BY <2>1 DEF IsHorner
  <2>3. w[n + 1] = Xor(Scaled(w[(n + 1) - 1], e), u[n + 1])
    BY <2>1 DEF IsHorner
  <2> QED
    BY <2>1, <2>2, <2>3
<1> HIDE DEF S
<1>3. N \in S
  BY <1>1, <1>2, Induction
<1> QED
  BY <1>3 DEF S

\* Syndrome is what Horner's rule computes.
LEMMA SyndromeHorner ==
  ASSUME NEW u \in Seq(Byte), NEW e \in Nat, NEW v, IsHorner(v, Zero, u, Len(u), e)
  PROVE  Syndrome(u, e) = v[Len(u)] /\ Syndrome(u, e) \in Byte
<1> DEFINE N == Len(u)
           Values(f) == [i \in 0..N |-> IF i = 0 THEN Zero ELSE Xor(Scaled(f[i - 1], e), u[i])]
           value == CHOOSE f : f = Values(f)
<1>1. N \in Nat /\ \A i \in 1..N : u[i] \in Byte
  OBVIOUS
<1>2. Syndrome(u, e) = value[N]
  BY Zenon DEF Syndrome
<1>3. Zero \in Byte
  BY LogOfZero
<1>4. PICK w \in [0..N -> Byte] : IsHorner(w, Zero, u, N, e)
  <2> HIDE DEF N
  <2> QED
    BY <1>1, <1>3, HornerExists
<1>5. w = Values(w)
  <2>1. \A i \in 0..N : w[i] = IF i = 0 THEN Zero ELSE Xor(Scaled(w[i - 1], e), u[i])
    BY <1>4 DEF IsHorner
  <2> QED
    BY <2>1
<1>6. value = Values(value)
  <2> HIDE DEF Values
  <2> QED
    BY <1>5, Zenon
<1>7. IsHorner(value, Zero, u, N, e)
  <2> HIDE DEF value
  <2>1. \A i \in 0..N : value[i] = IF i = 0 THEN Zero ELSE Xor(Scaled(value[i - 1], e), u[i])
    BY <1>6, Zenon
  <2>2. value[0] = Zero
    BY <1>1, <2>1
  <2>3. \A i \in 1..N : value[i] = Xor(Scaled(value[i - 1], e), u[i])
    BY <1>1, <2>1
  <2> QED
    BY <2>2, <2>3 DEF IsHorner
<1> HIDE DEF value
<1>8. value[N] = v[N] /\ value[N] = w[N]
  <2> HIDE DEF N
  <2>1. IsHorner(v, Zero, u, N, e)
    BY DEF N
  <2> QED
    BY <1>1, <1>4, <1>7, <2>1, HornerUnique
<1>9. w[N] \in Byte
  BY <1>1, <1>4
<1> QED
  BY <1>2, <1>8, <1>9

LEMMA SyndromeFunction ==
  ASSUME NEW u \in Seq(Byte), NEW e \in Nat
  PROVE  \E v \in [0..Len(u) -> Byte] : IsHorner(v, Zero, u, Len(u), e) /\ v[Len(u)] = Syndrome(u, e)
<1>1. PICK N : N = Len(u) /\ N \in Nat /\ \A i \in 1..N : u[i] \in Byte
  OBVIOUS
<1>2. PICK v \in [0..N -> Byte] : IsHorner(v, Zero, u, N, e)
  BY <1>1, LogOfZero, HornerExists
<1> QED
  BY <1>1, <1>2, SyndromeHorner

(* A syndrome is a byte.                                                    *)
LEMMA SyndromeByte ==
  ASSUME NEW u \in Seq(Byte), NEW e \in Nat
  PROVE  Syndrome(u, e) \in Byte
BY SyndromeFunction, SyndromeHorner, Zenon

-----------------------------------------------------------------------------
(* Syndromes of sums, products and concatenations.                          *)
LEMMA SyndromeSum ==
  ASSUME NEW t \in Seq(Byte), NEW u \in Seq(Byte), NEW z \in Seq(Byte), NEW e \in Nat,
         Len(t) = Len(z), Len(u) = Len(z), \A i \in 1..Len(z) : z[i] = Xor(t[i], u[i])
  PROVE  Syndrome(z, e) = Xor(Syndrome(t, e), Syndrome(u, e))
<1>1. PICK N : N = Len(z) /\ N \in Nat
  OBVIOUS
<1>2. PICK v \in [0..N -> Byte] : IsHorner(v, Zero, t, N, e) /\ v[N] = Syndrome(t, e)
  BY <1>1, SyndromeFunction
<1>3. PICK w \in [0..N -> Byte] : IsHorner(w, Zero, u, N, e) /\ w[N] = Syndrome(u, e)
  BY <1>1, SyndromeFunction
<1>4. PICK s : s = [i \in 0..N |-> Xor(v[i], w[i])]
  OBVIOUS
<1>5. IsHorner(s, Zero, z, N, e)
  <2>1. s[0] = Zero
    BY <1>1, <1>2, <1>3, <1>4, XorLaws DEF IsHorner
  <2>2. ASSUME NEW i \in 1..N PROVE s[i] = Xor(Scaled(s[i - 1], e), z[i])
    <3>1. s[i] = Xor(v[i], w[i]) /\ s[i - 1] = Xor(v[i - 1], w[i - 1]) /\ i - 1 \in 0..N
      BY <1>1, <1>4
    <3>2. v[i] = Xor(Scaled(v[i - 1], e), t[i]) /\ w[i] = Xor(Scaled(w[i - 1], e), u[i])
      BY <1>2, <1>3 DEF IsHorner
    <3>3. v[i - 1] \in Byte /\ w[i - 1] \in Byte /\ z[i] = Xor(t[i], u[i])
      BY <1>1, <1>2, <1>3, <3>1
    <3>4. Scaled(Xor(v[i - 1], w[i - 1]), e) = Xor(Scaled(v[i - 1], e), Scaled(w[i - 1], e))
      BY <3>3, ScaledSum
    <3>5. PICK a, b, c, d : a = Scaled(v[i - 1], e) /\ b = Scaled(w[i - 1], e) /\ c = t[i] /\ d = u[i]
      OBVIOUS
    <3>6. Xor(Xor(a, c), Xor(b, d)) = Xor(Xor(a, b), Xor(c, d))
      BY Zenon DEF Xor
    <3> QED
      BY <3>1, <3>2, <3>3, <3>4, <3>5, <3>6, Zenon
  <2> QED
    BY <2>1, <2>2 DEF IsHorner
<1>6. Syndrome(z, e) = s[N]
  BY <1>1, <1>5, SyndromeHorner
<1> QED
  BY <1>1, <1>2, <1>3, <1>4, <1>6

LEMMA SyndromeScaled ==
  ASSUME NEW u \in Seq(Byte), NEW z \in Seq(Byte), NEW e \in Nat, NEW k \in Nat,
         Len(u) = Len(z), \A i \in 1..Len(z) : z[i] = Scaled(u[i], k)
  PROVE  Syndrome(z, e) = Scaled(Syndrome(u, e), k)
<1>1. PICK N : N = Len(z) /\ N \in Nat
  OBVIOUS
<1>2. PICK v \in [0..N -> Byte] : IsHorner(v, Zero, u, N, e) /\ v[N] = Syndrome(u, e)
  BY <1>1, SyndromeFunction
<1>3. PICK s : s = [i \in 0..N |-> Scaled(v[i], k)]
  OBVIOUS
<1>4. IsHorner(s, Zero, z, N, e)
  <2>1. s[0] = Zero
    BY <1>1, <1>2, <1>3 DEF IsHorner, Scaled
  <2>2. ASSUME NEW i \in 1..N PROVE s[i] = Xor(Scaled(s[i - 1], e), z[i])
    <3>1. s[i] = Scaled(v[i], k) /\ s[i - 1] = Scaled(v[i - 1], k) /\ i - 1 \in 0..N
      BY <1>1, <1>3
    <3>2. v[i] = Xor(Scaled(v[i - 1], e), u[i]) /\ z[i] = Scaled(u[i], k) /\ u[i] \in Byte
      BY <1>1, <1>2 DEF IsHorner
    <3>3. v[i - 1] \in Byte
      BY <1>1, <1>2, <3>1
    <3>4. PICK a : a = Scaled(v[i - 1], e) /\ a \in Byte
      BY <3>3, ScaledByte
    <3>5. Scaled(Xor(a, u[i]), k) = Xor(Scaled(a, k), Scaled(u[i], k))
      BY <3>2, <3>4, ScaledSum
    <3>6. Scaled(Scaled(v[i - 1], e), k) = Scaled(Scaled(v[i - 1], k), e)
      <4>1. Scaled(Scaled(v[i - 1], e), k) = Scaled(v[i - 1], e + k)
        BY <3>3, ScaledAgain
      <4>2. Scaled(Scaled(v[i - 1], k), e) = Scaled(v[i - 1], k + e)
        BY <3>3, ScaledAgain
      <4>3. e + k = k + e
        OBVIOUS
      <4> QED
        BY <4>1, <4>2, <4>3, Zenon
    <3> QED
      BY <3>1, <3>2, <3>4, <3>5, <3>6, Zenon
  <2> QED
    BY <2>1, <2>2 DEF IsHorner
<1>5. Syndrome(z, e) = s[N]
  BY <1>1, <1>4, SyndromeHorner
<1> QED
  BY <1>1, <1>2, <1>3, <1>5

LEMMA SyndromeConcat ==
  ASSUME NEW t \in Seq(Byte), NEW u \in Seq(Byte), NEW e \in Nat
  PROVE  Syndrome(t \o u, e) = Xor(Scaled(Syndrome(t, e), Len(u) * e), Syndrome(u, e))
<1>1. PICK M \in Nat, N \in Nat : M = Len(t) /\ N = Len(u)
  OBVIOUS
<1>2. PICK z : z = t \o u
  OBVIOUS
<1>3. PICK K \in Nat : K = M + N
  OBVIOUS
<1>4. /\ z \in Seq(Byte) /\ Len(z) = K
      /\ \A i \in 1..M : z[i] = t[i]
      /\ \A i \in 1..N : z[M + i] = u[i] /\ u[i] \in Byte
  BY <1>1, <1>2, <1>3
<1>5. PICK f \in [0..K -> Byte] : IsHorner(f, Zero, z, K, e) /\ f[K] = Syndrome(z, e)
  BY <1>4, SyndromeFunction
<1>6. IsHorner(f, Zero, t, M, e)
  <2>1. \A i \in 1..M : f[i] = Xor(Scaled(f[i - 1], e), t[i])
    BY <1>1, <1>3, <1>4, <1>5 DEF IsHorner
  <2> QED
    BY <1>5, <2>1 DEF IsHorner
<1>7. PICK base \in Byte : base = f[M] /\ base = Syndrome(t, e)
  BY <1>1, <1>6, SyndromeHorner
<1>8. PICK w \in [0..N -> Byte] : IsHorner(w, Zero, u, N, e) /\ w[N] = Syndrome(u, e)
  BY <1>1, SyndromeFunction
<1> DEFINE S == {n \in 0..N : f[M + n] = Xor(Scaled(base, n * e), w[n])}
<1>9. 0 \in S
  <2>1. 0 * e = 0 /\ M + 0 = M /\ 0 \in 0..N
    BY <1>1
  <2>2. Scaled(base, 0) = base /\ Xor(base, Zero) = base
    BY ScaledOnce, XorLaws
  <2>3. w[0] = Zero
    BY <1>8 DEF IsHorner
  <2> QED
    BY <1>7, <2>1, <2>2, <2>3
<1>10. ASSUME NEW n \in 0..(N - 1), n \in S PROVE n + 1 \in S
  <2>1. n + 1 \in 1..N /\ (n + 1) - 1 = n /\ f[M + n] = Xor(Scaled(base, n * e), w[n])
    BY <1>1, <1>10
  <2>2. PICK m \in Nat : m = n * e
    OBVIOUS
  <2>3. (n + 1) * e = m + e
    BY <2>2
  <2>4. f[M + (n + 1)] = Xor(Scaled(f[M + n], e), u[n + 1])
    <3>1. M + (n + 1) \in 1..K /\ (M + (n + 1)) - 1 = M + n /\ z[M + (n + 1)] = u[n + 1]
      BY <1>1, <1>3, <1>4, <2>1
    <3>2. f[M + (n + 1)] = Xor(Scaled(f[(M + (n + 1)) - 1], e), z[M + (n + 1)])
      BY <1>5, <3>1 DEF IsHorner
    <3> QED
      BY <3>1, <3>2
  <2>5. w[n + 1] = Xor(Scaled(w[n], e), u[n + 1]) /\ w[n] \in Byte
    BY <1>8, <2>1 DEF IsHorner
  <2>6. PICK a : a = Scaled(base, m) /\ a \in Byte
    BY <2>2, ScaledByte
  <2>7. Scaled(Xor(a, w[n]), e) = Xor(Scaled(a, e), Scaled(w[n], e))
    BY <2>5, <2>6, ScaledSum, Zenon
  <2>8. Scaled(a, e) = Scaled(base, m + e)
    BY <2>2, <2>6, ScaledAgain, Zenon
  <2>9. f[M + (n + 1)] = Xor(Xor(Scaled(base, m + e), Scaled(w[n], e)), u[n + 1])
    BY <2>1, <2>2, <2>4, <2>6, <2>7, <2>8, Zenon
  <2>10. f[M + (n + 1)] = Xor(Scaled(base, m + e), w[n + 1])
    <3>1. PICK p, q, r : p = Scaled(base, m + e) /\ q = Scaled(w[n], e) /\ r = u[n + 1]
      OBVIOUS
    <3>2. Xor(p, Xor(q, r)) = Xor(Xor(p, q), r)
      BY XorLaws
    <3> QED
      BY <2>5, <2>9, <3>1, <3>2, Zenon
  <2>11. f[M + (n + 1)] = Xor(Scaled(base, (n + 1) * e), w[n + 1])
    BY <2>3, <2>10, Zenon
  <2>12. n + 1 \in 0..N
    BY <2>1
  <2> QED
    BY <2>11, <2>12
<1> HIDE DEF S
<1>11. \A n \in 0..N : n \in S
  BY <1>9, <1>10, Induction
<1>12. f[M + N] = Xor(Scaled(base, N * e), w[N])
  BY <1>11 DEF S
<1> QED
  BY <1>1, <1>2, <1>3, <1>5, <1>7, <1>8, <1>12, Zenon

LEMMA SyndromeOne ==
  ASSUME NEW b \in Byte, NEW e \in Nat
  PROVE  <<b>> \in Seq(Byte) /\ Syndrome(<<b>>, e) = b
<1>1. PICK v : v = [i \in 0..1 |-> IF i = 0 THEN Zero ELSE b]
  OBVIOUS
<1>2. <<b>> \in Seq(Byte) /\ Len(<<b>>) = 1 /\ <<b>>[1] = b
  OBVIOUS
<1>3. PICK u : u = <<b>> /\ u \in Seq(Byte) /\ Len(u) = 1 /\ u[1] = b
  BY <1>2, Zenon
<1>4. Xor(Scaled(Zero, e), b) = b
  BY XorLaws DEF Scaled
<1>5. IsHorner(v, Zero, u, 1, e)
  BY <1>1, <1>3, <1>4 DEF IsHorner
<1>6. IsHorner(v, Zero, u, Len(u), e)
  BY <1>3, <1>5
<1>7. Syndrome(u, e) = v[Len(u)]
  BY <1>3, <1>6, SyndromeHorner, Zenon
<1> QED
  BY <1>1, <1>3, <1>7

\* The coefficients of a generator after the leading one, the highest first.
LowCoefficients(size) == [k \in 1..size |-> alpha[generator[size][size + 1 - k]]]

(* The generator polynomials in the notation of logarithms.                 *)
LEMMA GeneratorLogs ==
  ASSUME NEW size \in 2..30, NEW gen, gen = generator[size]
  PROVE  gen \in [1..(size + 1) -> 0..254] /\ gen[size + 1] = 0
<1>1. size \in DOMAIN generator
  BY DEF generator
<1>2. gen \in [1..(size + 1) -> 0..(symbols - 1)] /\ gen[size + 1] = 0
  BY <1>1, GeneratorAssumption, Zenon
<1> QED
  BY <1>2 DEF symbols

(* A power of the root is a zero of the generator: what follows its leading *)
(* term is that term.                                                       *)
LEMMA GeneratorTail ==
  ASSUME NEW size \in 2..30, NEW e \in 0..(size - 1)
  PROVE  /\ LowCoefficients(size) \in Seq(Byte) /\ Len(LowCoefficients(size)) = size
         /\ Syndrome(LowCoefficients(size), e) = Scaled(One, size * e)
<1>1. PICK gen : gen = generator[size]
  OBVIOUS
<1>2. PICK tail : tail = LowCoefficients(size)
  OBVIOUS
<1>3. tail = [k \in 1..size |-> alpha[gen[size + 1 - k]]]
  BY <1>1, <1>2, Zenon DEF LowCoefficients
<1>4. PICK p : p = [k \in 1..(size + 1) |-> alpha[gen[size + 2 - k]]]
  OBVIOUS
<1>5. /\ gen \in [1..(size + 1) -> 0..254] /\ gen[size + 1] = 0
      /\ Syndrome(p, e) = Zero
  <2>1. size \in DOMAIN generator
    BY DEF generator
  <2>2. IsCodeWord(p, size)
    BY <1>1, <1>4, <2>1, GeneratorAssumption, Zenon
  <2>3. Syndrome(p, e) = Zero
    BY <2>2, Zenon DEF IsCodeWord
  <2> QED
    BY <1>1, <2>3, GeneratorLogs
<1>6. tail \in Seq(Byte) /\ Len(tail) = size
  <2>1. \A k \in 1..size : gen[size + 1 - k] \in 0..254
    BY <1>5
  <2>2. \A k \in 1..size : alpha[gen[size + 1 - k]] \in Byte
    BY <2>1, PowerOf, Zenon
  <2> QED
    BY <1>3, <2>2
<1>7. One \in Byte /\ e \in Nat /\ size * e \in Nat
  BY LogOfZero
<1>8. p = <<One>> \o tail
  <2>1. p[1] = One
    <3>1. size + 2 - 1 = size + 1 /\ 1 \in 1..(size + 1)
      OBVIOUS
    <3> QED
      BY <1>4, <1>5, <3>1, Powers
  <2>2. ASSUME NEW k \in 1..size PROVE p[k + 1] = tail[k]
    <3>1. size + 2 - (k + 1) = size + 1 - k /\ k + 1 \in 1..(size + 1)
      OBVIOUS
    <3> QED
      BY <1>3, <1>4, <3>1
  <2>3. PICK q : q = <<One>> \o tail
    OBVIOUS
  <2>4. /\ q \in Seq(Byte) /\ Len(q) = size + 1 /\ q[1] = One
        /\ \A k \in 2..(size + 1) : q[k] = tail[k - 1]
    <3>1. <<One>> \in Seq(Byte) /\ Len(<<One>>) = 1 /\ <<One>>[1] = One
      BY <1>7
    <3> QED
      BY <1>6, <2>3, <3>1
  <2>5. \A k \in 2..(size + 1) : k - 1 \in 1..size /\ (k - 1) + 1 = k
    OBVIOUS
  <2>6. \A k \in 1..(size + 1) : p[k] = q[k]
    <3>1. \A k \in 2..(size + 1) : p[k] = q[k]
      BY <2>2, <2>4, <2>5, Zenon
    <3> QED
      BY <2>1, <2>4, <3>1
  <2>7. q = [k \in 1..(size + 1) |-> q[k]] /\ p = [k \in 1..(size + 1) |-> p[k]]
    BY <1>4, <2>4
  <2>8. p = q
    BY <2>6, <2>7
  <2> QED
    BY <2>3, <2>8
<1>9. PICK s : s = Syndrome(tail, e) /\ s \in Byte
  <2>1. Syndrome(tail, e) \in Byte
    BY <1>6, <1>7, SyndromeByte
  <2> QED
    BY <2>1
<1>10. Zero = Xor(Scaled(One, size * e), s)
  <2>1. <<One>> \in Seq(Byte) /\ Syndrome(<<One>>, e) = One
    BY <1>7, SyndromeOne
  <2>2. Syndrome(<<One>> \o tail, e) = Xor(Scaled(Syndrome(<<One>>, e), Len(tail) * e), Syndrome(tail, e))
    BY <1>6, <1>7, <2>1, SyndromeConcat, Zenon
  <2> QED
    BY <1>5, <1>6, <1>8, <1>9, <2>1, <2>2, Zenon
<1>11. Scaled(One, size * e) \in Byte
  BY <1>7, ScaledByte, Zenon
<1>12. Scaled(One, size * e) = s
  BY <1>9, <1>10, <1>11, XorByte, Zenon
<1> QED
  BY <1>2, <1>6, <1>9, <1>12, Zenon

\* One byte of data scales the syndrome of the remainder and adds its own share.
LEMMA EncodeByteSyndrome ==
  ASSUME NEW size \in 2..30, NEW e \in 0..(size - 1), NEW byte \in Byte,
         NEW ecc \in [1..size -> Byte]
  PROVE  /\ EncodeByte(size, ecc, byte) \in [1..size -> Byte]
         /\ Syndrome(EncodeByte(size, ecc, byte), e) =
              Xor(Scaled(Syndrome(ecc, e), e), Scaled(byte, size * e))
<1>1. PICK tail, gen : tail = LowCoefficients(size) /\ gen = generator[size]
  OBVIOUS
<1>2. /\ tail \in Seq(Byte) /\ Len(tail) = size
      /\ Syndrome(tail, e) = Scaled(One, size * e)
  BY <1>1, GeneratorTail
<1>3. tail = [k \in 1..size |-> alpha[gen[size + 1 - k]]]
  BY <1>1, Zenon DEF LowCoefficients
<1>4. \A k \in 0..size : gen[k + 1] \in 0..254
  <2>1. gen \in [1..(size + 1) -> 0..254]
    BY <1>1, GeneratorLogs
  <2>2. \A k \in 0..size : k + 1 \in 1..(size + 1)
    OBVIOUS
  <2> QED
    BY <2>1, <2>2
<1>5. PICK first \in Byte : first = Xor(byte, ecc[1])
  <2>1. ecc[1] \in Byte
    OBVIOUS
  <2> QED
    BY <2>1, XorByte
<1>6. PICK fb : fb = aindex[first]
  OBVIOUS
<1>7. /\ first = Zero => fb = 255
      /\ first # Zero => fb \in 0..254 /\ first = alpha[fb]
  BY <1>6, LogOf, LogOfZero, Zenon
<1>8. PICK term : term = [j \in 0..(size - 1) |->
                            IF fb = 255 THEN Zero ELSE alpha[Log(fb + gen[j + 1])]]
  OBVIOUS
<1>9. PICK T : T = [j \in 1..size |-> term[size - j]]
  OBVIOUS
<1>10. PICK mid, shifted : /\ mid = [j \in 1..(size - 1) |-> ecc[j + 1]]
                          /\ shifted = mid \o <<Zero>>
  OBVIOUS
<1>11. /\ mid \in Seq(Byte) /\ Len(mid) = size - 1 /\ shifted \in Seq(Byte) /\ Len(shifted) = size
       /\ \A j \in 1..(size - 1) : shifted[j] = ecc[j + 1]
       /\ shifted[size] = Zero
  <2>1. mid \in Seq(Byte) /\ Len(mid) = size - 1
    BY <1>10
  <2> QED
    BY <1>10, <2>1, LogOfZero
<1>12. PICK new : new = EncodeByte(size, ecc, byte)
  OBVIOUS
<1>13. new = Append([j \in 1..(size - 1) |-> Xor(ecc[j + 1], term[size - j])], term[0])
  <2>1. \A j \in 0..(size - 1) :
          term[j] = IF fb = symbols THEN Zero ELSE alpha[Log(fb + gen[j + 1])]
    BY <1>8 DEF symbols
  <2>2. \A j \in 1..(size - 1) : size - j \in 0..(size - 1)
    OBVIOUS
  <2>3. 0 \in 0..(size - 1)
    OBVIOUS
  <2> QED
    BY <1>5, <1>1, <1>6, <1>12, <2>1, <2>2, <2>3, Zenon DEF EncodeByte, EncodeByteFrom
<1>14. T \in Seq(Byte) /\ Len(T) = size /\ Syndrome(T, e) = Scaled(first, size * e)
  <2>1. CASE first = Zero
    <3>1. \A j \in 1..size : T[j] = Zero
      BY <1>7, <1>8, <1>9, <2>1
    <3>2. T \in Seq(Byte) /\ Len(T) = size
      BY <1>9, <3>1, LogOfZero
    <3>3. PICK v : v = [i \in 0..size |-> Zero]
      OBVIOUS
    <3>4. Xor(Scaled(Zero, e), Zero) = Zero
      BY XorLaws DEF Scaled
    <3>5. IsHorner(v, Zero, T, Len(T), e)
      BY <3>1, <3>2, <3>3, <3>4 DEF IsHorner
    <3>6. Syndrome(T, e) = v[Len(T)]
      BY <3>2, <3>5, SyndromeHorner
    <3> QED
      BY <2>1, <3>2, <3>3, <3>6 DEF Scaled
  <2>2. CASE first # Zero
    <3>1. fb \in 0..254 /\ first = alpha[fb]
      BY <1>7, <2>2
    <3>2. ASSUME NEW j \in 1..size PROVE T[j] = Scaled(tail[j], fb)
      <4>1. PICK g \in 0..254 : g = gen[(size - j) + 1]
        <5>1. size - j \in 0..size
          OBVIOUS
        <5> QED
          BY <1>4, <5>1
      <4>2. T[j] = alpha[Log(fb + g)]
        <5>1. size - j \in 0..(size - 1) /\ fb # 255
          BY <3>1
        <5>2. term[size - j] = alpha[Log(fb + gen[(size - j) + 1])]
          BY <1>8, <5>1
        <5>3. T[j] = term[size - j]
          BY <1>9
        <5> QED
          BY <4>1, <5>2, <5>3, Zenon
      <4>3. size + 1 - j = (size - j) + 1
        OBVIOUS
      <4>4. tail[j] = alpha[g]
        BY <1>3, <4>1, <4>3
      <4>5. Scaled(alpha[g], fb) = alpha[Log(g + fb)]
        BY <3>1, ScaledSwap
      <4>6. g + fb = fb + g
        BY <3>1
      <4> QED
        BY <4>2, <4>4, <4>5, <4>6, Zenon
    <3>3. T \in Seq(Byte) /\ Len(T) = size
      <4>1. \A j \in 1..size : tail[j] \in Byte
        BY <1>2
      <4>2. \A j \in 1..size : T[j] \in Byte
        <5>1. fb \in Nat
          BY <3>1
        <5>2. SUFFICES ASSUME NEW j \in 1..size PROVE T[j] \in Byte
          OBVIOUS
        <5>3. tail[j] \in Byte /\ T[j] = Scaled(tail[j], fb)
          BY <3>2, <4>1
        <5> QED
          BY <5>1, <5>3, ScaledByte
      <4> QED
        BY <1>9, <4>2
    <3>4. Syndrome(T, e) = Scaled(Scaled(One, size * e), fb)
      BY <1>2, <3>1, <3>2, <3>3, SyndromeScaled
    <3>5. Scaled(One, fb) = first
      <4>1. Scaled(alpha[0], fb) = alpha[Log(0 + fb)]
        <5>1. 0 \in 0..254
          OBVIOUS
        <5> QED
          BY <3>1, <5>1, ScaledSwap, Zenon
      <4>2. Log(0 + fb) = fb
        BY <3>1 DEF Log, symbols
      <4> QED
        BY <3>1, <4>1, <4>2, Powers
    <3>6. Scaled(Scaled(One, size * e), fb) = Scaled(Scaled(One, fb), size * e)
      <4>1. PICK m \in Nat : m = size * e
        OBVIOUS
      <4>2. One \in Byte /\ fb \in Nat /\ m + fb = fb + m
        BY <3>1, LogOfZero
      <4>3. Scaled(Scaled(One, m), fb) = Scaled(One, m + fb) /\ Scaled(Scaled(One, fb), m) = Scaled(One, fb + m)
        BY <4>2, ScaledAgain, Zenon
      <4> QED
        BY <4>1, <4>2, <4>3
    <3> QED
      BY <3>3, <3>4, <3>5, <3>6
  <2> QED
    BY <2>1, <2>2
<1>15. /\ new \in Seq(Byte) /\ Len(new) = size
       /\ \A j \in 1..size : new[j] = Xor(shifted[j], T[j])
  <2>1. PICK low : low = [j \in 1..(size - 1) |-> Xor(ecc[j + 1], term[size - j])]
    OBVIOUS
  <2>2. \A j \in 1..size : T[j] \in Byte /\ T[j] = term[size - j]
    BY <1>9, <1>14
  <2>3. \A j \in 1..(size - 1) : low[j] = Xor(shifted[j], T[j]) /\ low[j] \in Byte
    <3>1. \A j \in 1..(size - 1) : ecc[j + 1] \in Byte
      OBVIOUS
    <3> QED
      BY <1>11, <2>1, <2>2, <3>1, XorByte
  <2>4. low \in Seq(Byte) /\ Len(low) = size - 1
    BY <2>1, <2>3
  <2>5. term[0] = Xor(shifted[size], T[size]) /\ term[0] \in Byte
    <3>1. size - size = 0 /\ size \in 1..size
      OBVIOUS
    <3> QED
      BY <1>11, <2>2, <3>1, XorLaws
  <2>6. new = Append(low, term[0])
    BY <1>13, <2>1
  <2> QED
    BY <2>3, <2>4, <2>5, <2>6
<1>16. Syndrome(new, e) = Xor(Syndrome(shifted, e), Scaled(first, size * e))
  <2>1. e \in Nat
    OBVIOUS
  <2>2. Syndrome(new, e) = Xor(Syndrome(shifted, e), Syndrome(T, e))
    <3>1. Len(shifted) = Len(new) /\ Len(T) = Len(new) /\ \A j \in 1..Len(new) : new[j] = Xor(shifted[j], T[j])
      BY <1>11, <1>14, <1>15
    <3> QED
      BY <1>11, <1>14, <1>15, <2>1, <3>1, SyndromeSum, Zenon
  <2> QED
    BY <1>14, <2>2, Zenon
<1>17. Scaled(Syndrome(ecc, e), e) = Xor(Scaled(ecc[1], size * e), Syndrome(shifted, e))
  <2>1. ecc[1] \in Byte /\ e \in Nat /\ (size - 1) * e \in Nat /\ Zero \in Byte
    BY LogOfZero
  <2>2. ecc = <<ecc[1]>> \o mid
    <3>1. PICK q : q = <<ecc[1]>> \o mid
      OBVIOUS
    <3>2. q \in Seq(Byte) /\ Len(q) = size /\ \A k \in 1..size : q[k] = ecc[k]
      <4>1. <<ecc[1]>> \in Seq(Byte) /\ Len(<<ecc[1]>>) = 1 /\ <<ecc[1]>>[1] = ecc[1]
        BY <2>1
      <4>2. \A k \in 2..size : k - 1 \in 1..(size - 1) /\ (k - 1) + 1 = k
        OBVIOUS
      <4>3. q \in Seq(Byte) /\ Len(q) = size /\ q[1] = ecc[1] /\ \A k \in 2..size : q[k] = mid[k - 1]
        BY <1>11, <3>1, <4>1
      <4>4. \A k \in 2..size : mid[k - 1] = ecc[(k - 1) + 1]
        BY <1>10, <4>2
      <4>5. \A k \in 2..size : q[k] = ecc[k]
        BY <4>2, <4>3, <4>4, Zenon
      <4> QED
        BY <4>3, <4>5
    <3>3. ecc = [k \in 1..size |-> ecc[k]] /\ q = [k \in 1..size |-> q[k]]
      BY <3>2
    <3>4. ecc = q
      BY <3>2, <3>3
    <3> QED
      BY <3>1, <3>4
  <2>3. <<ecc[1]>> \in Seq(Byte) /\ Syndrome(<<ecc[1]>>, e) = ecc[1]
    BY <2>1, SyndromeOne, Zenon
  <2>4. <<Zero>> \in Seq(Byte) /\ Syndrome(<<Zero>>, e) = Zero /\ Len(<<Zero>>) = 1
    BY <2>1, SyndromeOne
  <2>5. PICK s : s = Syndrome(mid, e) /\ s \in Byte
    BY <1>11, <2>1, SyndromeByte, Zenon
  <2>6. Syndrome(ecc, e) = Xor(Scaled(ecc[1], Len(mid) * e), s)
    <3>1. PICK one \in Seq(Byte) : one = <<ecc[1]>>
      BY <2>3
    <3>2. Syndrome(one \o mid, e) = Xor(Scaled(Syndrome(one, e), Len(mid) * e), Syndrome(mid, e))
      BY <1>11, <2>1, SyndromeConcat
    <3> QED
      BY <2>2, <2>3, <2>5, <3>1, <3>2, Zenon
  <2>7. Syndrome(shifted, e) = Xor(Scaled(s, Len(<<Zero>>) * e), Zero)
    <3>1. PICK one \in Seq(Byte) : one = <<Zero>>
      BY <2>4
    <3>2. Syndrome(mid \o one, e) = Xor(Scaled(Syndrome(mid, e), Len(one) * e), Syndrome(one, e))
      BY <1>11, <2>1, SyndromeConcat
    <3> QED
      BY <1>10, <2>4, <2>5, <3>1, <3>2, Zenon
  <2>8. Syndrome(shifted, e) = Scaled(s, e)
    <3>1. Len(<<Zero>>) * e = e
      BY <2>4
    <3> QED
      BY <2>7, <3>1, XorLaws
  <2>9. PICK m \in Nat : m = (size - 1) * e /\ m + e = size * e
    BY <2>1
  <2>10. PICK b : b = Scaled(ecc[1], m) /\ b \in Byte
    BY <2>1, <2>9, ScaledByte
  <2>11. Syndrome(ecc, e) = Xor(b, s)
    BY <1>11, <2>6, <2>9, <2>10, Zenon
  <2>12. Scaled(Xor(b, s), e) = Xor(Scaled(b, e), Scaled(s, e))
    BY <2>1, <2>5, <2>10, ScaledSum, Zenon
  <2>13. Scaled(b, e) = Scaled(ecc[1], m + e)
    BY <2>1, <2>9, <2>10, ScaledAgain, Zenon
  <2> QED
    BY <2>8, <2>9, <2>11, <2>12, <2>13, Zenon
<1>18. Scaled(first, size * e) = Xor(Scaled(byte, size * e), Scaled(ecc[1], size * e))
  <2>1. ecc[1] \in Byte /\ size * e \in Nat
    OBVIOUS
  <2> QED
    BY <1>5, <2>1, ScaledSum
<1>19. PICK a, b, c, d : /\ a = Scaled(byte, size * e) /\ b = Scaled(ecc[1], size * e)
                         /\ c = Syndrome(shifted, e) /\ d = Scaled(Syndrome(ecc, e), e)
  OBVIOUS
<1>20. Syndrome(new, e) = Xor(d, a)
  <2>1. Xor(c, Xor(a, b)) = Xor(Xor(b, c), a)
    BY Zenon DEF Xor
  <2> QED
    BY <1>16, <1>17, <1>18, <1>19, <2>1, Zenon
<1>21. new \in [1..size -> Byte]
  BY <1>15
<1> QED
  BY <1>12, <1>19, <1>20, <1>21, Zenon

\* RSECC_encode works through the data byte by byte.
IsEncoding(ecc, size, data) ==
  /\ ecc \in [0..Len(data) -> [1..size -> Byte]]
  /\ ecc[0] = [j \in 1..size |-> Zero]
  /\ \A i \in 1..Len(data) : ecc[i] = EncodeByte(size, ecc[i - 1], data[i])

LEMMA EncodingExists ==
  ASSUME NEW size \in 2..30, NEW data \in Seq(Byte)
  PROVE  \E ecc : IsEncoding(ecc, size, data)
<1>1. PICK N \in Nat : N = Len(data)
  OBVIOUS
<1> DEFINE V == [1..size -> Byte]
           base == [j \in 1..size |-> Zero]
           g == [p \in (1..N) \X V |-> EncodeByte(size, p[2], data[p[1]])]
<1>2. ASSUME NEW i \in 1..N, NEW v \in V
      PROVE  g[<<i, v>>] = EncodeByte(size, v, data[i]) /\ g[<<i, v>>] \in V
  <2>1. g[<<i, v>>] = EncodeByte(size, v, data[i])
    OBVIOUS
  <2>2. data[i] \in Byte /\ 0 \in 0..(size - 1)
    BY <1>1
  <2>3. EncodeByte(size, v, data[i]) \in V
    BY <2>2, EncodeByteSyndrome, Zenon
  <2> QED
    BY <2>1, <2>3, Zenon
<1>3. base \in V
  BY LogOfZero
<1> HIDE DEF g, V, base
<1>4. PICK ecc \in [0..N -> V] : Iterates(ecc, N, base, g)
  BY <1>2, <1>3, Recursion
<1>5. ASSUME NEW i \in 1..N PROVE ecc[i] = EncodeByte(size, ecc[i - 1], data[i])
  <2>1. ecc[i] = g[<<i, ecc[i - 1]>>] /\ ecc[i - 1] \in V
    BY <1>4 DEF Iterates
  <2> QED
    BY <1>2, <2>1
<1>6. ecc[0] = base
  BY <1>4 DEF Iterates
<1>7. IsEncoding(ecc, size, data)
  BY <1>1, <1>4, <1>5, <1>6 DEF IsEncoding, V, base
<1> QED
  BY <1>7

(* What RSECC_encode returns is the end of it.                              *)
LEMMA EncodingResult ==
  ASSUME NEW size \in 2..30, NEW data \in Seq(Byte)
  PROVE  \E ecc : IsEncoding(ecc, size, data) /\ RSECC_encode(size, data) = ecc[Len(data)]
<1> DEFINE N == Len(data)
           Values(f) == [i \in 0..N |-> IF i = 0 THEN [j \in 1..size |-> Zero]
                                        ELSE EncodeByte(size, f[i - 1], data[i])]
           value == CHOOSE f : f = Values(f)
<1>1. N \in Nat
  OBVIOUS
<1>2. RSECC_encode(size, data) = value[N]
  BY Zenon DEF RSECC_encode
<1>3. PICK w : IsEncoding(w, size, data)
  BY EncodingExists
<1>4. w = Values(w)
  <2>1. w[0] = [j \in 1..size |-> Zero] /\ \A i \in 1..N : w[i] = EncodeByte(size, w[i - 1], data[i])
    BY <1>3 DEF IsEncoding
  <2>2. \A i \in 0..N : w[i] = IF i = 0 THEN [j \in 1..size |-> Zero] ELSE EncodeByte(size, w[i - 1], data[i])
    <3> HIDE DEF N
    <3> QED
      BY <1>1, <2>1
  <2>3. w = [i \in 0..N |-> w[i]]
    BY <1>3 DEF IsEncoding
  <2> QED
    BY <2>2, <2>3
<1>5. value = Values(value)
  <2> HIDE DEF Values
  <2> QED
    BY <1>4, Zenon
<1>6. \A n \in 0..N : value[n] = w[n]
  <2> DEFINE S == {n \in 0..N : value[n] = w[n]}
  <2> HIDE DEF value, N
  <2>1. \A i \in 0..N : value[i] = IF i = 0 THEN [j \in 1..size |-> Zero]
                                   ELSE EncodeByte(size, value[i - 1], data[i])
    BY <1>5, Zenon
  <2>2. 0 \in S
    BY <1>1, <1>3, <2>1 DEF IsEncoding
  <2>3. ASSUME NEW n \in 0..(N - 1), n \in S PROVE n + 1 \in S
    <3>1. n + 1 \in 1..N /\ n + 1 \in 0..N /\ (n + 1) - 1 = n /\ n + 1 # 0 /\ value[n] = w[n]
      BY <1>1, <2>3
    <3>2. value[n + 1] = EncodeByte(size, value[n], data[n + 1])
      BY <2>1, <3>1
    <3>3. w[n + 1] = EncodeByte(size, w[n], data[n + 1])
      BY <1>3, <3>1 DEF IsEncoding, N
    <3> QED
      BY <3>1, <3>2, <3>3
  <2> HIDE DEF S
  <2>4. \A n \in 0..N : n \in S
    BY <1>1, <2>2, <2>3, Induction
  <2> QED
    BY <2>4 DEF S
<1> HIDE DEF value
<1>7. value[N] = w[N]
  BY <1>1, <1>6
<1> QED
  BY <1>2, <1>3, <1>7

\* For a remainder of every length the tables hold and all data.
THEOREM BlocksAreCodeWords ==
  ASSUME NEW size \in 2..30, NEW data \in Seq(Byte)
  PROVE  /\ RSECC_encode(size, data) \in Seq(Byte) /\ Len(RSECC_encode(size, data)) = size
         /\ IsCodeWord(data \o RSECC_encode(size, data), size)
<1>1. PICK N \in Nat : N = Len(data)
  OBVIOUS
<1>2. PICK ecc : IsEncoding(ecc, size, data) /\ RSECC_encode(size, data) = ecc[N]
  BY <1>1, EncodingResult
<1>3. PICK rest : rest = ecc[N] /\ rest \in Seq(Byte) /\ Len(rest) = size
  <2>1. ecc[N] \in [1..size -> Byte]
    BY <1>1, <1>2 DEF IsEncoding
  <2> QED
    BY <2>1
<1>4. ASSUME NEW e \in 0..(size - 1) PROVE Syndrome(data \o rest, e) = Zero
  <2>1. PICK m \in Nat : m = size * e
    OBVIOUS
  <2>2. PICK d \in [0..N -> Byte] : IsHorner(d, Zero, data, N, e) /\ d[N] = Syndrome(data, e)
    BY <1>1, SyndromeFunction
  <2> DEFINE S == {n \in 0..N : Syndrome(ecc[n], e) = Scaled(d[n], m)}
  <2>3. 0 \in S
    <3>1. PICK z : z = ecc[0] /\ z = [j \in 1..size |-> Zero]
      BY <1>2 DEF IsEncoding
    <3>2. z \in Seq(Byte) /\ Len(z) = size
      <4>1. Zero \in Byte
        BY LogOfZero
      <4>2. z \in [1..size -> Byte] /\ size \in Nat
        BY <3>1, <4>1
      <4> QED
        BY <4>2
    <3>3. PICK v : v = [i \in 0..size |-> Zero]
      OBVIOUS
    <3>4. Xor(Scaled(Zero, e), Zero) = Zero
      BY XorLaws DEF Scaled
    <3>5. IsHorner(v, Zero, z, Len(z), e)
      BY <3>1, <3>2, <3>3, <3>4 DEF IsHorner
    <3>6. Syndrome(z, e) = v[Len(z)]
      BY <3>2, <3>5, SyndromeHorner
    <3>7. d[0] = Zero /\ Scaled(Zero, m) = Zero
      BY <2>2 DEF IsHorner, Scaled
    <3> QED
      BY <3>1, <3>2, <3>3, <3>6, <3>7
  <2>4. ASSUME NEW n \in 0..(N - 1), n \in S PROVE n + 1 \in S
    <3>1. /\ n + 1 \in 1..N /\ n + 1 \in 0..N /\ (n + 1) - 1 = n
          /\ Syndrome(ecc[n], e) = Scaled(d[n], m) /\ d[n] \in Byte
      BY <1>1, <2>4
    <3>2. PICK byte \in Byte : byte = data[n + 1]
      BY <1>1, <3>1
    <3>3. d[n + 1] = Xor(Scaled(d[n], e), byte)
      BY <2>2, <3>1, <3>2 DEF IsHorner
    <3>4. ecc[n] \in [1..size -> Byte] /\ ecc[n + 1] = EncodeByte(size, ecc[n], byte)
      BY <1>1, <1>2, <3>1, <3>2 DEF IsEncoding
    <3>5. Syndrome(ecc[n + 1], e) = Xor(Scaled(Syndrome(ecc[n], e), e), Scaled(byte, m))
      BY <2>1, <3>4, EncodeByteSyndrome, Zenon
    <3>6. PICK x \in Byte : x = d[n]
      BY <3>1
    <3>7. Scaled(Scaled(x, m), e) = Scaled(Scaled(x, e), m)
      <4>1. m + e = e + m /\ e \in Nat
        OBVIOUS
      <4>2. Scaled(Scaled(x, m), e) = Scaled(x, m + e) /\ Scaled(Scaled(x, e), m) = Scaled(x, e + m)
        BY <4>1, ScaledAgain, Zenon
      <4> QED
        BY <4>1, <4>2
    <3>8. PICK y \in Byte : y = Scaled(x, e)
      BY ScaledByte
    <3>9. Scaled(Xor(y, byte), m) = Xor(Scaled(y, m), Scaled(byte, m))
      BY ScaledSum
    <3>10. Syndrome(ecc[n + 1], e) = Scaled(d[n + 1], m)
      BY <3>1, <3>3, <3>5, <3>6, <3>7, <3>8, <3>9, Zenon
    <3> QED
      BY <3>1, <3>10
  <2> HIDE DEF S
  <2>5. \A n \in 0..N : n \in S
    BY <2>3, <2>4, Induction
  <2>6. Syndrome(rest, e) = Scaled(Syndrome(data, e), m)
    BY <1>3, <2>2, <2>5 DEF S
  <2>7. Syndrome(data \o rest, e) = Xor(Scaled(Syndrome(data, e), Len(rest) * e), Syndrome(rest, e))
    <3>1. e \in Nat
      OBVIOUS
    <3> QED
      BY <1>3, <3>1, SyndromeConcat, Zenon
  <2>8. Xor(Scaled(Syndrome(data, e), m), Scaled(Syndrome(data, e), m)) = Zero
    BY XorLaws
  <2> QED
    BY <1>3, <2>1, <2>6, <2>7, <2>8, Zenon
<1> QED
  BY <1>2, <1>3, <1>4, Zenon DEF IsCodeWord
-----------------------------------------------------------------------------
(* The symbol of a job.                                                     *)

(* Parts of a sequence that is joined of two.                               *)
LEMMA PartOfFirst ==
  ASSUME NEW S, NEW a \in Seq(S), NEW b \in Seq(S), NEW i \in Nat, NEW n \in Nat, i + n <= Len(a)
  PROVE  SubSeq(a \o b, i + 1, i + n) = SubSeq(a, i + 1, i + n)
<1>1. PICK c \in Seq(S) : IsJoined(c, a, b)
  BY Joined
<1>2. PICK A \in Nat, C \in Nat : A = Len(a) /\ C = Len(c) /\ A <= C /\ i + n <= A
  BY <1>1 DEF IsJoined
<1>3. \A k \in 1..A : c[k] = a[k]
  BY <1>1, <1>2 DEF IsJoined
<1>4. PICK x \in Seq(S), y \in Seq(S) : x = SubSeq(c, i + 1, i + n) /\ y = SubSeq(a, i + 1, i + n)
  <2>1. SubSeq(c, i + 1, i + n) \in Seq(S) /\ SubSeq(a, i + 1, i + n) \in Seq(S)
    BY <1>2, SubSeqProperties
  <2> QED
    BY <2>1
<1>5. Len(x) = n /\ Len(y) = n
  BY <1>2, <1>4, SubSeqProperties
<1>6. ASSUME NEW k \in 1..n PROVE x[k] = y[k]
  <2>1. x[k] = c[i + k] /\ y[k] = a[i + k]
    BY <1>2, <1>4, <1>5, SubSeqProperties
  <2>2. i + k \in 1..A
    BY <1>2
  <2> QED
    BY <1>3, <2>1, <2>2
<1>7. x = y
  BY <1>5, <1>6
<1>8. c = a \o b
  BY <1>1 DEF IsJoined
<1> QED
  BY <1>4, <1>7, <1>8

LEMMA PartOfSecond ==
  ASSUME NEW S, NEW a \in Seq(S), NEW b \in Seq(S), NEW i \in Nat, NEW n \in Nat, i + n <= Len(b)
  PROVE  SubSeq(a \o b, Len(a) + i + 1, Len(a) + i + n) = SubSeq(b, i + 1, i + n)
<1>1. PICK c \in Seq(S) : IsJoined(c, a, b)
  BY Joined
<1>2. PICK A \in Nat, B \in Nat : A = Len(a) /\ B = Len(b) /\ Len(c) = A + B /\ i + n <= B
  BY <1>1 DEF IsJoined
<1>3. \A k \in 1..B : c[A + k] = b[k]
  BY <1>1, <1>2 DEF IsJoined
<1>4. PICK x \in Seq(S), y \in Seq(S) : x = SubSeq(c, A + i + 1, A + i + n) /\ y = SubSeq(b, i + 1, i + n)
  <2>1. SubSeq(c, A + i + 1, A + i + n) \in Seq(S) /\ SubSeq(b, i + 1, i + n) \in Seq(S)
    BY <1>2, SubSeqProperties
  <2> QED
    BY <2>1
<1>5. Len(x) = n /\ Len(y) = n
  BY <1>2, <1>4, SubSeqProperties
<1>6. ASSUME NEW k \in 1..n PROVE x[k] = y[k]
  <2>1. x[k] = c[A + i + k] /\ y[k] = b[i + k]
    BY <1>2, <1>4, <1>5, SubSeqProperties
  <2>2. i + k \in 1..B /\ A + i + k = A + (i + k)
    BY <1>2
  <2> QED
    BY <1>3, <2>1, <2>2
<1>7. x = y
  BY <1>5, <1>6
<1>8. c = a \o b
  BY <1>1 DEF IsJoined
<1> QED
  BY <1>2, <1>4, <1>7, <1>8

(* The stream of a job, before the padding.                                 *)
Bits(j) == QRinput_createBitStream(SymbolOf(j), j.chunks)

(* Its data codewords hold it.                                              *)
LEMMA DatacodesMade ==
  ASSUME NEW j \in Jobs, Bits(j) \in Seq(Binary)
  PROVE  LET s == SymbolOf(j)
         IN  /\ Datacodes[j] \in Seq(Byte) /\ Len(Datacodes[j]) = Raws[s].dataLength
             /\ \A b \in 1..Raws[s].dataLength : \A n \in 0..7 :
                  n \notin BitNumbers(s, <<"data", b - 1>>) => 7 - n \notin Datacodes[j][b]
             /\ \A c : (\A b \in 1..Raws[s].dataLength : c[b] = Datacodes[j][b])
                         => DataStream(s, c) = [k \in 1..DataBits(s) |-> Padded(s, Bits(j))[k]]
<1>1. PICK s \in Symbols : s = SymbolOf(j)
  BY JobsAssumption
<1>2. Len(Bits(j)) <= DataBits(s)
  BY <1>1, JobsAssumption DEF Encodable, Capacity, DataBits, Bits
<1>3. FillsData(s, Padded(s, Bits(j)))
  BY <1>2, PaddedFills
<1>4. PICK padded : padded = Padded(s, Bits(j))
  OBVIOUS
<1>5. Datacodes[j] = BitStream_toByte(padded)
  BY <1>1, <1>4 DEF Datacodes, QRinput_getByteStream, Bits
<1>6. FillsData(s, padded)
  BY <1>3, <1>4
<1> QED
  BY <1>1, <1>4, <1>5, <1>6, BytesMade

(* A part of a sequence, and rows of equal length.                          *)
IsPart(y, e, a, n) ==
  y = SubSeq(e, a + 1, a + n) /\ Len(y) = n /\ \A i \in 1..n : y[i] = e[a + i]

LEMMA Part ==
  ASSUME NEW S, NEW e \in Seq(S), NEW a \in Nat, NEW n \in Nat, a + n <= Len(e)
  PROVE  \E y \in Seq(S) : IsPart(y, e, a, n)
<1>1. PICK E \in Nat : E = Len(e) /\ a + n <= E
  OBVIOUS
<1>2. \A i \in (a + 1)..(a + n) : i \in 1..E
  BY <1>1
<1>3. \A i \in (a + 1)..(a + n) : e[i] \in S
  BY <1>1, <1>2
<1>4. PICK y : y = SubSeq(e, a + 1, a + n)
  OBVIOUS
<1>5. a + 1 \in Int /\ a + n \in Int
  OBVIOUS
<1>6. /\ y \in Seq(S) /\ Len(y) = IF a + 1 <= a + n THEN a + n - (a + 1) + 1 ELSE 0
      /\ \A i \in 1..(a + n - (a + 1) + 1) : y[i] = e[a + 1 + i - 1]
  BY <1>3, <1>4, <1>5, SubSeqProperties
<1>7. Len(y) = n /\ \A i \in 1..n : y[i] = e[a + i]
  <2>1. a + n - (a + 1) + 1 = n /\ \A i \in 1..n : a + 1 + i - 1 = a + i
    OBVIOUS
  <2>2. Len(y) = n
    BY <1>6
  <2> QED
    BY <1>6, <2>1, <2>2
<1> QED
  BY <1>4, <1>6, <1>7 DEF IsPart

(* An index is in one of the rows.                                          *)
LEMMA RowOf ==
  ASSUME NEW size \in Nat, size > 0, NEW rows \in Nat, NEW n \in 1..(size * rows)
  PROVE  ((n - 1) \div size) + 1 \in 1..rows /\ ((n - 1) % size) + 1 \in 1..size
<1>1. n - 1 \in Nat
  OBVIOUS
<1>2. PICK N \in Nat : N = size * rows
  <2>1. size * rows \in Nat
    OBVIOUS
  <2> QED
    BY <2>1
<1>3. n \in Nat /\ n <= N
  BY <1>2
<1>4. PICK q \in Nat, r \in 0..size - 1 :
       q = (n - 1) \div size /\ r = (n - 1) % size /\ n - 1 = size * q + r
  <2>1. /\ (n - 1) \div size \in Nat /\ (n - 1) % size \in 0..size - 1
        /\ n - 1 = size * ((n - 1) \div size) + ((n - 1) % size)
    BY <1>1, Divided
  <2> QED
    BY <2>1
<1>5. PICK p \in Nat : p = size * q
  <2>1. size * q \in Nat
    OBVIOUS
  <2> QED
    BY <2>1
<1>6. ~ (rows < q)
  <2>1. rows < q => size * rows + size <= size * q
    BY Products
  <2> QED
    BY <1>2, <1>3, <1>4, <1>5, <2>1
<1>7. rows # q
  BY <1>2, <1>3, <1>4, <1>5
<1> QED
  BY <1>4, <1>6, <1>7

\* Row k of `rows' rows starts after element a.
IsRow(a, k, size, rows) ==
  /\ a = (k - 1) * size /\ a + size <= size * rows
  /\ \A i \in 1..size : (a + i - 1) \div size = k - 1 /\ (a + i - 1) % size = i - 1

LEMMA RowAt ==
  ASSUME NEW size \in Nat, size > 0, NEW rows \in Nat, NEW k \in 1..rows
  PROVE  \E a \in Nat : IsRow(a, k, size, rows)
<1>1. PICK p \in Nat : p = k - 1 /\ p < rows
  <2>1. k - 1 \in Nat /\ k - 1 < rows
    OBVIOUS
  <2> QED
    BY <2>1
<1>2. PICK a \in Nat, N \in Nat : a = size * p /\ N = size * rows /\ a + size <= N /\ a = p * size
  <2>1. size * p \in Nat /\ size * rows \in Nat /\ size * p + size <= size * rows
    BY <1>1, Products
  <2>2. size * p = p * size
    OBVIOUS
  <2> QED
    BY <2>1, <2>2
<1>3. ASSUME NEW i \in 1..size
      PROVE  (a + i - 1) \div size = p /\ (a + i - 1) % size = i - 1
  <2>1. i - 1 \in 0..size - 1 /\ a + i - 1 = a + (i - 1)
    OBVIOUS
  <2> QED
    BY <1>2, <2>1, DividedUniquely
<1>4. IsRow(a, k, size, rows)
  BY <1>1, <1>2, <1>3 DEF IsRow
<1> QED
  BY <1>4

(* The error correction of the blocks, one after the other.                 *)
BlockData(j, k) ==
  LET b == Raws[SymbolOf(j)].rsblock[k]
  IN  SubSeq(Datacodes[j], b.data + 1, b.data + b.dataLength)

(* The error correction of the blocks, one after the other.                 *)
EccRow(j, length, size, blocks) ==
  LET row == [k \in 1..blocks |-> RSECC_encode(size, BlockData(j, k))]
  IN  [n \in 1..length |-> row[((n - 1) \div size) + 1][((n - 1) % size) + 1]]

IsLayout(s, size, blocks) ==
  size = Raws[s].eccLength \div Raws[s].blocks /\ blocks = Raws[s].blocks

LEMMA EcccodesMade ==
  ASSUME NEW j \in Jobs, Bits(j) \in Seq(Binary), NEW size \in 2..30, NEW blocks \in Nat,
         IsLayout(SymbolOf(j), size, blocks)
  PROVE  /\ Ecccodes[j] \in Seq(Byte) /\ Len(Ecccodes[j]) = Raws[SymbolOf(j)].eccLength
         /\ \A k \in 1..blocks :
              /\ BlockData(j, k) \in Seq(Byte)
              /\ SubSeq(Ecccodes[j], (k - 1) * size + 1, (k - 1) * size + size)
                   = RSECC_encode(size, BlockData(j, k))
<1>1. size \in Nat /\ size > 0
  OBVIOUS
<1>2. PICK s \in Symbols : s = SymbolOf(j)
  BY JobsAssumption
<1>3. Raws[s].eccLength = size * blocks /\ size * blocks \in Nat
  BY <1>2, Lengths DEF IsLayout
<1>4. ASSUME NEW k \in 1..blocks
      PROVE  /\ BlockData(j, k) \in Seq(Byte)
             /\ RSECC_encode(size, BlockData(j, k)) \in Seq(Byte)
             /\ Len(RSECC_encode(size, BlockData(j, k))) = size
  <2>1. PICK a \in Nat, n \in Nat : /\ a = Raws[s].rsblock[k].data /\ n = Raws[s].rsblock[k].dataLength
                                    /\ a + n <= Raws[s].dataLength
    <3>1. /\ Raws[s].rsblock[k].data \in Nat /\ Raws[s].rsblock[k].dataLength \in Nat
          /\ Raws[s].rsblock[k].data + Raws[s].rsblock[k].dataLength <= Raws[s].dataLength
      BY <1>2, PlacedAssumption, Zenon DEF BlocksInBuffers, IsLayout
    <3> QED
      BY <3>1
  <2>2. PICK d \in Seq(Byte) : d = Datacodes[j] /\ Len(d) = Raws[s].dataLength
    BY <1>2, DatacodesMade
  <2>3. PICK y \in Seq(Byte) : IsPart(y, d, a, n)
    BY <2>1, <2>2, Part
  <2>4. SubSeq(d, a + 1, a + n) \in Seq(Byte)
    BY <2>3 DEF IsPart
  <2>5. BlockData(j, k) = SubSeq(d, a + 1, a + n)
    BY <1>2, <2>1, <2>2 DEF BlockData
  <2> QED
    BY <2>4, <2>5, BlocksAreCodeWords
<1> DEFINE enc == [k \in 1..blocks |-> RSECC_encode(size, BlockData(j, k))]
<1>5. Ecccodes[j] = [n \in 1..Raws[s].eccLength |-> enc[((n - 1) \div size) + 1][((n - 1) % size) + 1]]
  <2>1. LET raw == Raws[SymbolOf(j)]
        IN  Ecccodes[j] = EccRow(j, raw.eccLength, raw.eccLength \div raw.blocks, raw.blocks)
    BY Zenon DEF Ecccodes, BlockData, EccRow
  <2>2. Raws[SymbolOf(j)].eccLength \div Raws[SymbolOf(j)].blocks = size /\ Raws[SymbolOf(j)].blocks = blocks
    BY DEF IsLayout
  <2>3. Ecccodes[j] = EccRow(j, Raws[s].eccLength, size, blocks)
    BY <1>2, <2>1, <2>2, Zenon
  <2> QED
    BY <2>3, Zenon DEF EccRow
<1>6. \A k \in 1..blocks : enc[k] = RSECC_encode(size, BlockData(j, k))
  OBVIOUS
<1> HIDE DEF enc
<1>7. PICK N \in Nat : N = size * blocks
  BY <1>3
<1>8. ASSUME NEW n \in 1..N
      PROVE  /\ ((n - 1) \div size) + 1 \in 1..blocks
             /\ ((n - 1) % size) + 1 \in 1..size
  BY <1>1, <1>7, RowOf
<1>9. PICK e : e = Ecccodes[j]
  OBVIOUS
<1>10. e = [n \in 1..N |-> enc[((n - 1) \div size) + 1][((n - 1) % size) + 1]]
  BY <1>3, <1>5, <1>7, <1>9
<1>11. e \in Seq(Byte) /\ Len(e) = N
  <2>1. ASSUME NEW n \in 1..N PROVE enc[((n - 1) \div size) + 1][((n - 1) % size) + 1] \in Byte
    <3>1. PICK q \in 1..blocks, r \in 1..size : q = ((n - 1) \div size) + 1 /\ r = ((n - 1) % size) + 1
      BY <1>8
    <3>2. enc[q] \in Seq(Byte) /\ Len(enc[q]) = size
      BY <1>4, <1>6
    <3>3. enc[q][r] \in Byte
      BY <3>2
    <3> QED
      BY <3>1, <3>3
  <2>2. e \in [1..N -> Byte]
    BY <1>10, <2>1, Zenon
  <2> QED
    BY <2>2
<1>12. ASSUME NEW k \in 1..blocks
       PROVE  SubSeq(e, (k - 1) * size + 1, (k - 1) * size + size) = RSECC_encode(size, BlockData(j, k))
  <2>1. PICK x \in Seq(Byte) : x = RSECC_encode(size, BlockData(j, k)) /\ Len(x) = size /\ x = enc[k]
    BY <1>4, <1>6
  <2>2. PICK a \in Nat : IsRow(a, k, size, blocks)
    BY <1>1, RowAt
  <2>3. a = (k - 1) * size /\ a + size <= N
    BY <1>7, <2>2 DEF IsRow
  <2>4. PICK y \in Seq(Byte) : IsPart(y, e, a, size)
    BY <1>1, <1>11, <2>3, Part
  <2>5. ASSUME NEW i \in 1..size PROVE y[i] = x[i]
    <3>1. PICK n \in 1..N : n = a + i
      <4>1. a + i \in 1..N
        BY <1>1, <2>3
      <4> QED
        BY <4>1
    <3>2. (n - 1) \div size = k - 1 /\ (n - 1) % size = i - 1
      <4>1. \A h \in 1..size : (a + h - 1) \div size = k - 1 /\ (a + h - 1) % size = h - 1
        BY <2>2, Zenon DEF IsRow
      <4>2. (a + i - 1) \div size = k - 1 /\ (a + i - 1) % size = i - 1
        BY <4>1, Zenon
      <4>3. n - 1 = a + i - 1
        BY <3>1
      <4> QED
        BY <4>2, <4>3, Zenon
    <3>3. (k - 1) + 1 = k /\ (i - 1) + 1 = i
      BY <1>1
    <3>4. e[n] = enc[((n - 1) \div size) + 1][((n - 1) % size) + 1]
      BY <1>10, Zenon
    <3>5. e[n] = enc[k][i]
      BY <3>2, <3>3, <3>4
    <3> QED
      BY <2>1, <2>4, <3>1, <3>5 DEF IsPart
  <2>6. Len(y) = size
    BY <2>4 DEF IsPart
  <2>7. x = y
    BY <2>1, <2>5, <2>6
  <2> QED
    BY <2>1, <2>3, <2>4, <2>7 DEF IsPart
<1> QED
  BY <1>2, <1>3, <1>4, <1>7, <1>9, <1>11, <1>12

(* The codewords of a job, by the names that Words gives them.              *)
JobCode(j) ==
  [word \in Words(SymbolOf(j)) |-> IF word[1] = "data" THEN Datacodes[j][word[2] + 1]
                                   ELSE Ecccodes[j][word[2] + 1]]

(* They are the data codes and the error correction codes.                  *)
LEMMA JobCodeIs ==
  ASSUME NEW j \in Jobs, Bits(j) \in Seq(Binary)
  PROVE  /\ JobCode(j) \in [Words(SymbolOf(j)) -> SUBSET (0..7)]
         /\ [n \in 1..Raws[SymbolOf(j)].dataLength |-> JobCode(j)[<<"data", n - 1>>]] = Datacodes[j]
         /\ [n \in 1..Raws[SymbolOf(j)].eccLength |-> JobCode(j)[<<"ecc", n - 1>>]] = Ecccodes[j]
         /\ \A word \in Words(SymbolOf(j)), n \in 0..7 :
              n \notin BitNumbers(SymbolOf(j), word) => 7 - n \notin JobCode(j)[word]
<1>1. PICK s \in Symbols : s = SymbolOf(j)
  BY JobsAssumption
<1>2. PICK D \in Nat, E \in Nat : D = Raws[s].dataLength /\ E = Raws[s].eccLength
  BY Lengths
<1>3. PICK d \in Seq(Byte) : d = Datacodes[j] /\ Len(d) = D
  BY <1>1, <1>2, DatacodesMade
<1>4. PICK e \in Seq(Byte) : e = Ecccodes[j] /\ Len(e) = E
  <2>1. PICK b \in Nat, size \in 2..30 : IsLayout(s, size, b)
    BY Lengths DEF IsLayout
  <2>2. Ecccodes[j] \in Seq(Byte) /\ Len(Ecccodes[j]) = Raws[s].eccLength
    BY <1>1, <2>1, EcccodesMade
  <2> QED
    BY <1>2, <2>2
<1>5. PICK W : W = Words(s)
  OBVIOUS
<1>6. /\ \A n \in 1..D : <<"data", n - 1>> \in W
      /\ \A n \in 1..E : <<"ecc", n - 1>> \in W
  BY <1>2, <1>5 DEF Words
<1>7. ASSUME NEW word \in W
      PROVE  \/ word[1] = "data" /\ word[2] + 1 \in 1..D /\ word = <<"data", word[2]>>
             \/ word[1] = "ecc" /\ word[2] + 1 \in 1..E /\ word = <<"ecc", word[2]>>
  BY <1>2, <1>5, <1>7 DEF Words
<1>8. PICK code : code = [word \in W |-> IF word[1] = "data" THEN d[word[2] + 1] ELSE e[word[2] + 1]]
  OBVIOUS
<1>9. code = JobCode(j)
  BY <1>1, <1>3, <1>4, <1>5, <1>8 DEF JobCode
<1>10. ASSUME NEW word \in W PROVE code[word] \in Byte
  BY <1>2, <1>3, <1>4, <1>7, <1>8
<1>11. code \in [W -> Byte]
  BY <1>8, <1>10
<1>12. /\ \A n \in 1..D : code[<<"data", n - 1>>] = d[n]
       /\ \A n \in 1..E : code[<<"ecc", n - 1>>] = e[n]
  <2>1. ASSUME NEW n \in 1..D PROVE code[<<"data", n - 1>>] = d[n]
    BY <1>6, <1>8
  <2>2. ASSUME NEW n \in 1..E PROVE code[<<"ecc", n - 1>>] = e[n]
    BY <1>6, <1>8
  <2> QED
    BY <2>1, <2>2
<1>13. [n \in 1..D |-> code[<<"data", n - 1>>]] = d
  <2>1. [n \in 1..D |-> code[<<"data", n - 1>>]] = [n \in 1..D |-> d[n]]
    BY <1>12, Zenon
  <2>2. d = [n \in 1..D |-> d[n]]
    <3>1. d \in [1..D -> Byte]
      BY <1>3
    <3> QED
      BY <3>1, Zenon
  <2> QED
    BY <2>1, <2>2
<1>14. [n \in 1..E |-> code[<<"ecc", n - 1>>]] = e
  <2>1. [n \in 1..E |-> code[<<"ecc", n - 1>>]] = [n \in 1..E |-> e[n]]
    BY <1>12, Zenon
  <2>2. e = [n \in 1..E |-> e[n]]
    <3>1. e \in [1..E -> Byte]
      BY <1>4
    <3> QED
      BY <3>1, Zenon
  <2> QED
    BY <2>1, <2>2
<1>15. ASSUME NEW word \in W, NEW n \in 0..7, n \notin BitNumbers(s, word)
       PROVE  7 - n \notin code[word]
  <2>1. CASE word[1] = "data"
    <3>1. PICK b \in 1..D : b = word[2] + 1 /\ word = <<"data", b - 1>>
      BY <1>2, <1>7, <2>1, <1>5 DEF Words
    <3>2. 7 - n \notin d[b]
      BY <1>1, <1>2, <1>3, <1>15, <3>1, DatacodesMade
    <3> QED
      BY <1>12, <3>1, <3>2
  <2>2. CASE word[1] # "data"
    <3>1. word # <<"data", Raws[s].dataLength - 1>>
      BY <2>2
    <3>2. BitNumbers(s, word) = 0..7
      BY <3>1, Zenon DEF BitNumbers
    <3> QED
      BY <1>15, <3>2
  <2> QED
    BY <2>1, <2>2
<1> QED
  BY <1>1, <1>2, <1>3, <1>4, <1>5, <1>9, <1>11, <1>13, <1>14, <1>15 DEF Byte

(* The frame handed to the masking holds them.                              *)
LEMMA FilledHoldsCode ==
  ASSUME NEW j \in Jobs, Bits(j) \in Seq(Binary)
  PROVE  HoldsCode(SymbolOf(j), Filled[j], JobCode(j))
<1>1. PICK s \in Symbols : s = SymbolOf(j)
  BY JobsAssumption
<1>2. Filled[j] = [p \in Modules(s) |->
         IF p \in FreeModules[s]
         THEN IF BitIn(s, p) # Remainder /\ 7 - BitIn(s, p)[3] \in Code(j, BitIn(s, p)) THEN 1 ELSE 0
         ELSE IF Spot(s, p) \in Darks[s] THEN 1 ELSE 0]
  BY <1>1, FramesAt, Zenon DEF Filled, BitIn, Spot
<1>3. FreeModules[s] \subseteq Modules(s)
  BY FramesAt
<1>4. IsFilled(s, Filled[j])
  BY <1>2 DEF IsFilled
<1>5. PICK F : F = Filled[j]
  OBVIOUS
<1>6. ASSUME NEW p \in FreeModules[s], NEW word \in Words(s),
             BitIn(s, p)[1] = word[1], BitIn(s, p)[2] = word[2]
      PROVE  F[p] = 1 <=> 7 - BitIn(s, p)[3] \in JobCode(j)[word]
  <2>1. word[1] \in {"data", "ecc"}
    BY DEF Words
  <2>2. Remainder[1] = "remainder"
    BY DEF Remainder
  <2>3. PICK bit : bit = BitIn(s, p)
    OBVIOUS
  <2>4. bit # Remainder
    BY <1>6, <2>1, <2>2, <2>3
  <2>5. F[p] = 1 <=> 7 - bit[3] \in Code(j, bit)
    BY <1>2, <1>3, <1>5, <2>3, <2>4
  <2>6. Code(j, bit) = JobCode(j)[word]
    BY <1>1, <1>6, <2>3 DEF Code, JobCode
  <2> QED
    BY <2>3, <2>5, <2>6
<1> QED
  BY <1>1, <1>4, <1>5, <1>6, JobCodeIs DEF HoldsCode

(* Every block of a job is a word of the code.                              *)
LEMMA JobIntact ==
  ASSUME NEW j \in Jobs, Bits(j) \in Seq(Binary)
  PROVE  BlocksIntact(SymbolOf(j), Datacodes[j] \o Ecccodes[j])
<1>1. PICK s \in Symbols : s = SymbolOf(j)
  BY JobsAssumption
<1>2. PICK blocks \in Nat, size \in 2..30 : IsLayout(s, size, blocks) /\ Raws[s].eccLength = size * blocks
  BY Lengths DEF IsLayout
<1>3. PICK d \in Seq(Byte) : d = Datacodes[j] /\ Len(d) = Raws[s].dataLength
  BY <1>1, DatacodesMade
<1>4. PICK D \in Nat : D = Len(d) /\ D = Raws[s].dataLength
  BY <1>3
<1>5. PICK e : /\ e = Ecccodes[j] /\ e \in Seq(Byte) /\ Len(e) = Raws[s].eccLength
               /\ \A k \in 1..blocks :
                    /\ BlockData(j, k) \in Seq(Byte)
                    /\ SubSeq(e, (k - 1) * size + 1, (k - 1) * size + size)
                         = RSECC_encode(size, BlockData(j, k))
  BY <1>1, <1>2, EcccodesMade
<1>6. PICK c : c = d \o e
  OBVIOUS
<1>7. ASSUME NEW k \in 1..blocks
      PROVE  LET b == Raws[s].rsblock[k]
                 f == Raws[s].dataLength + (k - 1) * size
             IN  IsCodeWord(SubSeq(c, b.data + 1, b.data + b.dataLength) \o SubSeq(c, f + 1, f + size), size)
  <2>1. PICK a \in Nat, n \in Nat : /\ a = Raws[s].rsblock[k].data /\ n = Raws[s].rsblock[k].dataLength
                                    /\ a + n <= D
    <3>1. /\ Raws[s].rsblock[k].data \in Nat /\ Raws[s].rsblock[k].dataLength \in Nat
          /\ Raws[s].rsblock[k].data + Raws[s].rsblock[k].dataLength <= Raws[s].dataLength
      BY <1>2, PlacedAssumption, Zenon DEF BlocksInBuffers, IsLayout
    <3> QED
      BY <1>4, <3>1
  <2>2. SubSeq(c, a + 1, a + n) = SubSeq(d, a + 1, a + n)
    <3>1. d \in Seq(Byte) /\ e \in Seq(Byte) /\ a + n <= Len(d)
      BY <1>4, <1>5, <2>1
    <3>2. SubSeq(d \o e, a + 1, a + n) = SubSeq(d, a + 1, a + n)
      BY <3>1, PartOfFirst
    <3> QED
      BY <1>6, <3>2
  <2>3. SubSeq(d, a + 1, a + n) = BlockData(j, k)
    BY <1>1, <1>3, <2>1 DEF BlockData
  <2>4. size \in Nat /\ size > 0
    OBVIOUS
  <2>5. PICK i \in Nat : IsRow(i, k, size, blocks)
    BY <2>4, RowAt
  <2>6. i = (k - 1) * size /\ i + size <= Len(e)
    BY <1>2, <1>5, <2>5 DEF IsRow
  <2>7. SubSeq(c, Len(d) + i + 1, Len(d) + i + size) = SubSeq(e, i + 1, i + size)
    <3>1. d \in Seq(Byte) /\ e \in Seq(Byte)
      BY <1>5
    <3>2. SubSeq(d \o e, Len(d) + i + 1, Len(d) + i + size) = SubSeq(e, i + 1, i + size)
      <4>1. i \in Nat /\ size \in Nat /\ i + size <= Len(e)
        BY <2>4, <2>5, <2>6
      <4>2. \A h, l \in Nat : h + l <= Len(e) => SubSeq(d \o e, Len(d) + h + 1, Len(d) + h + l) = SubSeq(e, h + 1, h + l)
        BY <3>1, PartOfSecond
      <4> QED
        BY <4>1, <4>2
    <3> QED
      BY <1>6, <3>2
  <2>8. SubSeq(e, i + 1, i + size) = RSECC_encode(size, BlockData(j, k))
    BY <1>5, <2>6
  <2>9. PICK f : f = Raws[s].dataLength + (k - 1) * size /\ f = Len(d) + i
    BY <1>3, <2>6
  <2>10. SubSeq(c, f + 1, f + size) = RSECC_encode(size, BlockData(j, k))
    BY <2>7, <2>8, <2>9
  <2>11. BlockData(j, k) \in Seq(Byte)
    BY <1>5
  <2>12. IsCodeWord(BlockData(j, k) \o RSECC_encode(size, BlockData(j, k)), size)
    BY <2>11, BlocksAreCodeWords
  <2> QED
    BY <2>1, <2>2, <2>3, <2>9, <2>10, <2>12
<1>8. BlocksIntact(s, c)
  BY <1>2, <1>7, Zenon DEF BlocksIntact, IsLayout
<1> QED
  BY <1>1, <1>3, <1>5, <1>6, <1>8

(* What is read of a symbol that was made with mask m.                      *)
StreamOf(j) == [k \in 1..DataBits(SymbolOf(j)) |-> Padded(SymbolOf(j), Bits(j))[k]]

(* The reader finds the format, every block intact, and the stream.         *)
LEMMA SymbolRead ==
  ASSUME NEW j \in Jobs, Bits(j) \in Seq(Binary), NEW m \in 0..(maskNum(SymbolOf(j)) - 1)
  PROVE  Read(SymbolOf(j), Masked(SymbolOf(j), Filled[j], m))
           = [mask |-> m, content |-> Content(ReadBits(SymbolOf(j), StreamOf(j)))]
<1>1. PICK s \in Symbols : s = SymbolOf(j)
  BY JobsAssumption
<1>2. PICK F : F = Filled[j] /\ HoldsCode(s, F, JobCode(j))
  BY <1>1, FilledHoldsCode
<1>3. PICK dark : dark = Masked(s, F, m)
  OBVIOUS
<1>4. IsFilled(s, F) /\ F \in [Modules(s) -> {0, 1}]
  BY <1>2 DEF HoldsCode, IsFilled
<1>5. m \in 0..(maskNum(s) - 1)
  BY <1>1
<1>6. PICK words : words = {FormatWord(s.mqr, Width(s), dark, copy) : copy \in FormatCopies(s.mqr, Width(s))}
  OBVIOUS
<1>7. words = {FormatRead(s, m)}
  <2>1. \A copy \in FormatCopies(s.mqr, Width(s)) : FormatWord(s.mqr, Width(s), dark, copy) = FormatRead(s, m)
    BY <1>3, <1>4, FormatWritten DEF FormatRead
  <2>2. \E copy : copy \in FormatCopies(s.mqr, Width(s))
    BY DEF FormatCopies
  <2> QED
    BY <1>6, <2>1, <2>2, Zenon
<1>8. (CHOOSE word \in words : TRUE) = FormatRead(s, m) /\ Cardinality(words) = 1
  <2>1. FormatRead(s, m) \in words
    BY <1>7
  <2>2. (CHOOSE word \in words : TRUE) \in words
    BY <2>1, Zenon
  <2>3. Cardinality(words) = 1
    BY <1>7, FS_Singleton
  <2> QED
    BY <1>7, <2>2, <2>3
<1>9. PICK said : said = Format(s.mqr, FormatRead(s, m)) /\ said.mask = m /\ said.number = SymbolNumber(s)
  <2>1. Format(s.mqr, FormatRead(s, m)) = [number |-> SymbolNumber(s), mask |-> m]
    BY <1>5, FormatSays
  <2>2. PICK said : said = [number |-> SymbolNumber(s), mask |-> m]
    OBVIOUS
  <2>3. said.mask = m /\ said.number = SymbolNumber(s)
    BY <2>2
  <2> QED
    BY <2>1, <2>2, <2>3
<1>10. PICK c : c = Codewords(s, dark, m) /\ c = Datacodes[j] \o Ecccodes[j]
  <2>1. Codewords(s, dark, m) = [n \in 1..Raws[s].dataLength |-> JobCode(j)[<<"data", n - 1>>]]
               \o [n \in 1..Raws[s].eccLength |-> JobCode(j)[<<"ecc", n - 1>>]]
    BY <1>2, <1>3, <1>5, CodewordsRead
  <2> QED
    BY <1>1, <2>1, JobCodeIs
<1>11. s.mqr \/ s.version < 7 \/ VersionRead(Width(s), dark, s.version)
  <2>1. s.version \in Int
    BY SymbolsAssumption DEF MQRSPEC_VERSION_MAX, QRSPEC_VERSION_MAX
  <2> QED
    BY <1>3, <1>4, <2>1, VersionReads
<1>12. BlocksIntact(s, c)
  BY <1>1, <1>10, JobIntact
<1>13. \A word \in words : IsMultiple(word, {10, 8, 5, 4, 2, 1, 0}, 0..4)
  BY <1>5, <1>7, FormatSays
<1>14. DataStream(s, c) = StreamOf(j)
  <2>1. PICK D \in Nat : D = Raws[s].dataLength
    BY Lengths
  <2>2. Datacodes[j] \in Seq(Byte) /\ Len(Datacodes[j]) = D
    BY <1>1, <2>1, DatacodesMade
  <2>3. PICK blocks \in Nat, size \in 2..30 : IsLayout(s, size, blocks)
    BY Lengths DEF IsLayout
  <2>4. Ecccodes[j] \in Seq(Byte)
    BY <1>1, <2>3, EcccodesMade
  <2>5. PICK z \in Seq(Byte) : IsJoined(z, Datacodes[j], Ecccodes[j])
    BY <2>2, <2>4, Joined
  <2>6. \A b \in 1..D : c[b] = Datacodes[j][b]
    BY <1>10, <2>2, <2>5 DEF IsJoined
  <2>7. DataStream(s, c) = [k \in 1..DataBits(s) |-> Padded(s, Bits(j))[k]]
    BY <1>1, <2>1, <2>6, DatacodesMade
  <2> QED
    BY <1>1, <2>7 DEF StreamOf
<1>15. Read(s, dark) = [mask |-> said.mask, content |-> Content(ReadBits(s, DataStream(s, c)))]
  <2>1. Format(s.mqr, CHOOSE word \in words : TRUE) = said
    BY <1>8, <1>9
  <2> QED
    BY <1>6, <1>8, <1>9, <1>10, <1>11, <1>12, <1>13, <2>1, Zenon DEF Read
<1> QED
  BY <1>1, <1>2, <1>3, <1>9, <1>14, <1>15
-----------------------------------------------------------------------------
(* The reading of a stream: numbers, groups, texts and headers, chunks.     *)

LEMMA PowerType ==
  ASSUME NEW k \in 0..24
  PROVE  2 ^ k \in Nat \ {0}
<1>1. CASE k \in 0..23
  BY <1>1, PowersOfTwo, Zenon
<1>2. CASE k = 24
  <2>1. 2 ^ 23 \in Nat \ {0} /\ 2 ^ (23 + 1) = 2 * 2 ^ 23
    <3>1. 23 \in 0..23
      OBVIOUS
    <3> QED
      BY <3>1, PowersOfTwo, Zenon
  <2>2. PICK a \in Nat \ {0}, b \in Nat : a = 2 ^ 23 /\ b = 2 ^ (23 + 1) /\ b = 2 * a
    <3>1. PICK a \in Nat \ {0} : a = 2 ^ 23
      BY <2>1, Zenon
    <3>2. 2 * a \in Nat
      OBVIOUS
    <3> QED
      BY <2>1, <3>1, <3>2, Zenon
  <2>3. b \in Nat \ {0}
    BY <2>2
  <2>4. 23 + 1 = 24
    OBVIOUS
  <2> QED
    BY <1>2, <2>2, <2>3, <2>4, Zenon
<1> QED
  BY <1>1, <1>2

(* Numbers as bits, and back.                                               *)
Power(k) == 2 ^ k

(* The bits of a number below a power of two, from the last one on.         *)
LEMMA Halved ==
  ASSUME NEW v \in Nat, NEW k \in 0..23
  PROVE  /\ v \div Power(k) \in Nat /\ v \div Power(k + 1) \in Nat
         /\ v \div Power(k) = 2 * (v \div Power(k + 1)) + BitAt(v, k)
<1>1. PICK a \in Nat, b \in Nat : a = Power(k) /\ b = Power(k + 1) /\ a > 0 /\ b = 2 * a
  <2>1. Power(k) \in Nat \ {0} /\ Power(k + 1) = 2 * Power(k)
    BY PowersOfTwo, Zenon DEF Power
  <2>2. PICK a \in Nat \ {0} : a = Power(k)
    BY <2>1, Zenon
  <2>3. 2 * a \in Nat /\ a \in Nat /\ a > 0
    BY <2>2
  <2> QED
    BY <2>1, <2>2, <2>3, Zenon
<1>2. PICK q \in Nat, r \in 0..b - 1 : q = v \div b /\ v = b * q + r
  <2>1. b \in Nat \ {0}
    BY <1>1
  <2>2. v \div b \in Nat /\ v % b \in 0..b - 1 /\ v = b * (v \div b) + (v % b)
    BY <2>1, Divided
  <2> QED
    BY <2>2
<1>3. PICK c \in {0, 1}, t \in 0..a - 1 : r = a * c + t
  <2>1. CASE r < a
    <3>1. r = a * 0 + r /\ r \in 0..a - 1
      BY <1>1, <1>2, <2>1
    <3> QED
      BY <3>1
  <2>2. CASE ~ (r < a)
    <3>1. r = a * 1 + (r - a) /\ r - a \in 0..a - 1
      BY <1>1, <1>2, <2>2
    <3> QED
      BY <3>1
  <2> QED
    BY <2>1, <2>2
<1>4. v = a * (2 * q + c) + t
  <2>1. PICK m \in Nat : m = a * q
    BY <1>1, <1>2
  <2>2. b * q = 2 * m
    BY <1>1, <1>2, <2>1
  <2>3. a * (2 * q + c) = 2 * m + a * c
    <3>1. CASE c = 0
      BY <1>1, <1>2, <2>1, <3>1
    <3>2. CASE c = 1
      BY <1>1, <1>2, <2>1, <3>2
    <3> QED
      BY <1>3, <3>1, <3>2
  <2>4. a * c \in Nat
    BY <1>1, <1>3
  <2> QED
    BY <1>2, <1>3, <2>1, <2>2, <2>3, <2>4
<1>5. v \div a = 2 * q + c
  <2>1. PICK d \in Nat : d = 2 * q + c
    <3>1. 2 * q + c \in Nat
      BY <1>2, <1>3
    <3> QED
      BY <3>1
  <2>2. (a * d + t) \div a = d
    BY <1>1, <1>3, <2>1, DividedUniquely
  <2> QED
    BY <1>4, <2>1, <2>2
<1>6. BitAt(v, k) = (2 * q + c) % 2
  BY <1>1, <1>5 DEF BitAt, Power
<1>7. (2 * q + c) % 2 = c
  BY <1>2, <1>3
<1>8. 2 * q + c \in Nat
  BY <1>2, <1>3
<1> QED
  BY <1>1, <1>2, <1>5, <1>6, <1>7, <1>8, Zenon

(* Number is the last of the values that Horner's rule goes through.        *)
LEMMA NumberSteps ==
  ASSUME NEW bits \in Seq(Binary), NEW p \in Nat \ {0}, NEW n \in Nat, p + n <= Len(bits) + 1
  PROVE  \E f \in [0..n -> Nat] :
           /\ f[0] = 0 /\ f[n] = Number(bits, p, n)
           /\ \A k \in 1..n : f[k] = 2 * f[k - 1] + bits[p + k - 1]
<1> DEFINE Values(f) == [k \in 0..n |-> IF k = 0 THEN 0 ELSE 2 * f[k - 1] + bits[p + k - 1]]
           value == CHOOSE f : f = Values(f)
           g == [x \in (1..n) \X Nat |-> 2 * x[2] + bits[p + x[1] - 1]]
<1>1. Number(bits, p, n) = value[n]
  BY Zenon DEF Number
<1>2. \A k \in 1..n : bits[p + k - 1] \in {0, 1}
  <2>1. \A k \in 1..n : p + k - 1 \in 1..Len(bits)
    OBVIOUS
  <2> QED
    BY <2>1 DEF Binary
<1>3. \A k \in 1..n, v \in Nat : g[<<k, v>>] = 2 * v + bits[p + k - 1] /\ g[<<k, v>>] \in Nat
  <2>1. ASSUME NEW k \in 1..n, NEW v \in Nat
        PROVE  g[<<k, v>>] = 2 * v + bits[p + k - 1] /\ g[<<k, v>>] \in Nat
    <3>1. g[<<k, v>>] = 2 * v + bits[p + k - 1]
      OBVIOUS
    <3>2. bits[p + k - 1] \in {0, 1}
      BY <1>2
    <3> HIDE DEF g
    <3> QED
      BY <3>1, <3>2
  <2> QED
    BY <2>1
<1> HIDE DEF g
<1>4. PICK f \in [0..n -> Nat] : Iterates(f, n, 0, g)
  BY <1>3, Recursion
<1>5. f[0] = 0 /\ \A k \in 1..n : f[k] = 2 * f[k - 1] + bits[p + k - 1]
  <2>1. \A k \in 1..n : f[k - 1] \in Nat
    BY <1>4
  <2> QED
    BY <1>3, <1>4, <2>1 DEF Iterates
<1>6. f = Values(f)
  <2>1. \A k \in 0..n : f[k] = IF k = 0 THEN 0 ELSE 2 * f[k - 1] + bits[p + k - 1]
    BY <1>5
  <2> QED
    BY <2>1
<1>7. value = Values(value)
  <2> HIDE DEF Values
  <2> QED
    BY <1>6, Zenon
<1>8. \A k \in 0..n : value[k] = IF k = 0 THEN 0 ELSE 2 * value[k - 1] + bits[p + k - 1]
  <2> HIDE DEF value
  <2> QED
    BY <1>7, Zenon
<1> HIDE DEF value
<1>9. value[n] = f[n]
  <2> DEFINE S == {k \in 0..n : value[k] = f[k]}
  <2>1. 0 \in S
    BY <1>5, <1>8
  <2>2. ASSUME NEW k \in 0..(n - 1), k \in S PROVE k + 1 \in S
    <3>1. k + 1 \in 1..n /\ k + 1 \in 0..n /\ (k + 1) - 1 = k /\ k + 1 # 0 /\ value[k] = f[k]
      BY <2>2
    <3>2. value[k + 1] = 2 * value[k] + bits[p + (k + 1) - 1]
      BY <1>8, <3>1, Zenon
    <3>3. f[k + 1] = 2 * f[k] + bits[p + (k + 1) - 1]
      BY <1>5, <3>1, Zenon
    <3> QED
      BY <3>1, <3>2, <3>3
  <2> HIDE DEF S
  <2>3. \A k \in 0..n : k \in S
    BY <2>1, <2>2, Induction
  <2> QED
    BY <2>3 DEF S
<1> QED
  BY <1>1, <1>4, <1>5, <1>9

(* Where a code lies in the stream.                                         *)
Lies(bits, p, code) ==
  /\ p \in Nat \ {0} /\ p + Len(code) <= Len(bits) + 1
  /\ \A k \in 1..Len(code) : bits[p + k - 1] = code[k]

(* BitStream_appendNum: so many bits, each a digit of the number.           *)
LEMMA Appended ==
  ASSUME NEW n \in 0..24, NEW v \in Nat
  PROVE  /\ appendNum(n, v) \in Seq(Binary) /\ Len(appendNum(n, v)) = n
         /\ \A k \in 1..n : appendNum(n, v)[k] = BitAt(v, n - k)
<1>1. appendNum(n, v) = [k \in 1..n |-> BitAt(v, n - k)]
  BY DEF appendNum
<1>2. \A k \in 1..n : BitAt(v, n - k) \in Binary
  <2>1. \A k \in 1..n : n - k \in 0..23
    OBVIOUS
  <2> QED
    BY <2>1, BitsAreBinary
<1>3. appendNum(n, v) \in [1..n -> Binary]
  BY <1>1, <1>2, Zenon
<1> QED
  BY <1>1, <1>3

(* What BitStream_appendNum puts in is read as the number.                  *)
LEMMA NumberRead ==
  ASSUME NEW bits \in Seq(Binary), NEW n \in 0..24, NEW v \in Nat, v < Power(n),
         NEW p, Lies(bits, p, appendNum(n, v))
  PROVE  Number(bits, p, n) = v
<1>1. p \in Nat \ {0} /\ p + n <= Len(bits) + 1 /\ \A k \in 1..n : bits[p + k - 1] = BitAt(v, n - k)
  BY Appended DEF Lies
<1>2. PICK f \in [0..n -> Nat] :
        /\ f[0] = 0 /\ f[n] = Number(bits, p, n)
        /\ \A k \in 1..n : f[k] = 2 * f[k - 1] + bits[p + k - 1]
  <2>1. n \in Nat
    OBVIOUS
  <2> QED
    BY <1>1, <2>1, NumberSteps
<1> DEFINE S == {k \in 0..n : f[k] = v \div Power(n - k)}
<1>3. 0 \in S
  <2>1. PICK a \in Nat : a = Power(n) /\ v < a
    <3>1. Power(n) \in Nat
      BY PowerType DEF Power
    <3> QED
      BY <3>1
  <2>2. v \div a = 0
    <3>1. a \in Nat /\ a > 0 /\ v \in 0..a - 1 /\ v = a * 0 + v
      BY <2>1
    <3> QED
      BY <3>1, DividedUniquely
  <2>3. n - 0 = n
    OBVIOUS
  <2> QED
    BY <1>2, <2>1, <2>2, <2>3
<1>4. ASSUME NEW k \in 0..(n - 1), k \in S PROVE k + 1 \in S
  <2>1. PICK m \in 0..23 : m = n - (k + 1) /\ n - k = m + 1
    <3>1. n - (k + 1) \in 0..23 /\ n - k = (n - (k + 1)) + 1
      OBVIOUS
    <3> QED
      BY <3>1
  <2>2. f[k] = v \div Power(m + 1)
    BY <1>4, <2>1
  <2>3. f[k + 1] = 2 * f[k] + BitAt(v, m)
    <3>1. k + 1 \in 1..n /\ (k + 1) - 1 = k
      OBVIOUS
    <3>2. f[k + 1] = 2 * f[k] + bits[p + (k + 1) - 1]
      BY <1>2, <3>1, Zenon
    <3>3. bits[p + (k + 1) - 1] = BitAt(v, n - (k + 1))
      BY <1>1, <3>1, Zenon
    <3> QED
      BY <2>1, <3>2, <3>3
  <2>4. v \div Power(m) = 2 * (v \div Power(m + 1)) + BitAt(v, m)
    BY Halved
  <2>5. f[k + 1] = v \div Power(n - (k + 1))
    BY <2>1, <2>2, <2>3, <2>4
  <2> QED
    BY <2>5
<1> HIDE DEF S
<1>5. \A k \in 0..n : k \in S
  <2>1. n \in Nat
    OBVIOUS
  <2> QED
    BY <1>3, <1>4, <2>1, Induction
<1>6. f[n] = v \div Power(n - n)
  BY <1>5 DEF S
<1>7. Power(n - n) = 1
  <2>1. n - n = 0
    OBVIOUS
  <2> QED
    BY <2>1, PowersOfTwo, Zenon DEF Power
<1>8. v \div 1 = v
  OBVIOUS
<1> QED
  BY <1>2, <1>6, <1>7, <1>8

(* The number of zeros is zero, and of no other bits.                       *)
LEMMA NumberZero ==
  ASSUME NEW bits \in Seq(Binary), NEW p \in Nat \ {0}, NEW n \in Nat, p + n <= Len(bits) + 1
  PROVE  /\ Number(bits, p, n) = 0 => \A k \in 1..n : bits[p + k - 1] = 0
         /\ (\A k \in 1..n : bits[p + k - 1] = 0) => Number(bits, p, n) = 0
<1>1. PICK f \in [0..n -> Nat] :
        /\ f[0] = 0 /\ f[n] = Number(bits, p, n)
        /\ \A k \in 1..n : f[k] = 2 * f[k - 1] + bits[p + k - 1]
  BY NumberSteps
<1>2. \A k \in 1..n : bits[p + k - 1] \in {0, 1}
  <2>1. \A k \in 1..n : p + k - 1 \in 1..Len(bits)
    OBVIOUS
  <2> QED
    BY <2>1 DEF Binary
<1>3. ASSUME f[n] = 0 PROVE \A k \in 1..n : bits[p + k - 1] = 0
  <2> DEFINE S == {k \in 0..n : f[n - k] = 0}
  <2>1. 0 \in S
    BY <1>3
  <2>2. ASSUME NEW k \in 0..(n - 1), k \in S PROVE k + 1 \in S
    <3>1. PICK m \in 1..n : m = n - k /\ m - 1 = n - (k + 1)
      <4>1. n - k \in 1..n /\ n - k - 1 = n - (k + 1)
        OBVIOUS
      <4> QED
        BY <4>1
    <3>2. f[m] = 0 /\ f[m] = 2 * f[m - 1] + bits[p + m - 1] /\ f[m - 1] \in Nat
      BY <1>1, <2>2, <3>1
    <3>3. f[m - 1] = 0
      BY <1>2, <3>2
    <3> QED
      BY <3>1, <3>3
  <2> HIDE DEF S
  <2>3. \A k \in 0..n : k \in S
    BY <2>1, <2>2, Induction
  <2>4. ASSUME NEW k \in 1..n PROVE bits[p + k - 1] = 0
    <3>1. n - k \in 0..n /\ n - (k - 1) \in 0..n /\ k - 1 \in 0..n
      OBVIOUS
    <3>2. n - k \in S /\ n - (k - 1) \in S /\ n - (n - k) = k /\ n - (n - (k - 1)) = k - 1
      BY <2>3, <3>1
    <3>3. f[k] = 0 /\ f[k - 1] = 0
      BY <3>2 DEF S
    <3>4. f[k] = 2 * f[k - 1] + bits[p + k - 1]
      BY <1>1
    <3>5. bits[p + k - 1] \in {0, 1}
      BY <1>2, Zenon
    <3> QED
      BY <3>3, <3>4, <3>5
  <2> QED
    BY <2>4
<1>4. ASSUME \A k \in 1..n : bits[p + k - 1] = 0 PROVE f[n] = 0
  <2> DEFINE S == {k \in 0..n : f[k] = 0}
  <2>1. 0 \in S
    BY <1>1
  <2>2. ASSUME NEW k \in 0..(n - 1), k \in S PROVE k + 1 \in S
    <3>1. k + 1 \in 1..n /\ (k + 1) - 1 = k /\ f[k] = 0
      BY <2>2
    <3>2. f[k + 1] = 2 * f[k] + bits[p + (k + 1) - 1]
      BY <1>1, <3>1, Zenon
    <3>3. bits[p + (k + 1) - 1] = 0
      BY <1>4, <3>1, Zenon
    <3> QED
      BY <3>1, <3>2, <3>3
  <2> HIDE DEF S
  <2>3. \A k \in 0..n : k \in S
    BY <2>1, <2>2, Induction
  <2> QED
    BY <2>3 DEF S
<1> QED
  BY <1>1, <1>3, <1>4

(* Sequences laid end to end: off says where each ends.                     *)
IsFlat(F, ss, off) ==
  /\ off \in [0..Len(ss) -> Nat] /\ off[0] = 0 /\ Len(F) = off[Len(ss)]
  /\ \A k \in 1..Len(ss) :
       /\ off[k] = off[k - 1] + Len(ss[k]) /\ off[k] <= Len(F)
       /\ \A i \in 1..Len(ss[k]) : F[off[k - 1] + i] = ss[k][i]

(* Sequences laid end to end have such offsets.                             *)
LEMMA Flat ==
  ASSUME NEW S, NEW ss \in Seq(Seq(S))
  PROVE  FlattenSeq(ss) \in Seq(S) /\ \E off : IsFlat(FlattenSeq(ss), ss, off)
<1>1. PICK N \in Nat : N = Len(ss)
  OBVIOUS
<1>2. \A k \in 1..N : ss[k] \in Seq(S)
  BY <1>1
<1> DEFINE g == [x \in (1..N) \X Seq(S) |-> x[2] \o ss[x[1]]]
<1>3. \A k \in 1..N, v \in Seq(S) : g[<<k, v>>] = v \o ss[k] /\ g[<<k, v>>] \in Seq(S)
  <2>1. ASSUME NEW k \in 1..N, NEW v \in Seq(S)
        PROVE  g[<<k, v>>] = v \o ss[k] /\ g[<<k, v>>] \in Seq(S)
    <3>1. g[<<k, v>>] = v \o ss[k]
      OBVIOUS
    <3>2. ss[k] \in Seq(S)
      BY <1>2
    <3> HIDE DEF g
    <3>3. v \o ss[k] \in Seq(S)
      BY <3>2
    <3> QED
      BY <3>1, <3>3
  <2> QED
    BY <2>1
<1> HIDE DEF g
<1>4. PICK f \in [0..N -> Seq(S)] : Iterates(f, N, <<>>, g)
  <2>1. <<>> \in Seq(S)
    OBVIOUS
  <2> QED
    BY <1>3, <2>1, Recursion
<1>5. f[0] = <<>> /\ \A k \in 1..N : f[k] = f[k - 1] \o ss[k]
  <2>1. \A k \in 1..N : f[k - 1] \in Seq(S)
    BY <1>4
  <2> QED
    BY <1>3, <1>4, <2>1 DEF Iterates
<1>6. FlattenSeq(ss) = f[N]
  <2>1. CASE N = 0
    <3>1. ss = <<>> /\ Len(ss) = 0
      BY <1>1, <2>1, EmptySeq
    <3>2. FlattenSeq(ss) = ss
      BY <3>1, Zenon DEF FlattenSeq
    <3> QED
      BY <1>5, <2>1, <3>1, <3>2
  <2>2. CASE N # 0
    <3> DEFINE Values(h) == [i \in 1..Len(ss) |-> IF i = 1 THEN ss[i] ELSE h[i - 1] \o ss[i]]
               flatten == CHOOSE h : h = Values(h)
               t == [i \in 1..N |-> f[i]]
    <3>1. FlattenSeq(ss) = flatten[N]
      BY <1>1, <2>2, Zenon DEF FlattenSeq
    <3>2. f[1] = ss[1]
      <4>1. 1 \in 1..N /\ 1 - 1 = 0
        BY <2>2
      <4>2. f[1] = <<>> \o ss[1] /\ ss[1] \in Seq(S)
        BY <1>2, <1>5, <4>1
      <4> QED
        BY <4>2
    <3>3. t = Values(t)
      <4>1. ASSUME NEW i \in 1..N PROVE t[i] = IF i = 1 THEN ss[i] ELSE t[i - 1] \o ss[i]
        <5>1. CASE i = 1
          BY <3>2, <5>1
        <5>2. CASE i # 1
          <6>1. i - 1 \in 1..N
            BY <5>2
          <6> QED
            BY <1>5, <5>2, <6>1
        <5> QED
          BY <5>1, <5>2
      <4> QED
        BY <1>1, <4>1
    <3>4. flatten = Values(flatten)
      <4> HIDE DEF Values, t
      <4> QED
        BY <3>3, Zenon
    <3>5. \A i \in 1..N : flatten[i] = IF i = 1 THEN ss[i] ELSE flatten[i - 1] \o ss[i]
      <4> HIDE DEF flatten
      <4> QED
        BY <1>1, <3>4, Zenon
    <3> HIDE DEF flatten
    <3>6. flatten[N] = f[N]
      <4> DEFINE E == {n \in 0..(N - 1) : flatten[n + 1] = f[n + 1]}
      <4>1. 0 \in E
        BY <2>2, <3>2, <3>5
      <4>2. ASSUME NEW n \in 0..((N - 1) - 1), n \in E PROVE n + 1 \in E
        <5>1. (n + 1) + 1 \in 1..N /\ (n + 1) + 1 # 1 /\ ((n + 1) + 1) - 1 = n + 1
          OBVIOUS
        <5>2. flatten[(n + 1) + 1] = flatten[n + 1] \o ss[(n + 1) + 1]
          BY <3>5, <5>1, Zenon
        <5>3. f[(n + 1) + 1] = f[n + 1] \o ss[(n + 1) + 1]
          BY <1>5, <5>1, Zenon
        <5>4. flatten[n + 1] = f[n + 1]
          BY <4>2
        <5>5. n + 1 \in 0..(N - 1)
          OBVIOUS
        <5> QED
          BY <5>2, <5>3, <5>4, <5>5
      <4>3. N - 1 \in Nat
        BY <2>2
      <4> HIDE DEF E
      <4>4. \A n \in 0..(N - 1) : n \in E
        BY <4>1, <4>2, <4>3, Induction
      <4>5. N - 1 \in E /\ (N - 1) + 1 = N
        BY <4>3, <4>4
      <4> QED
        BY <4>5 DEF E
    <3> QED
      BY <3>1, <3>6
  <2> QED
    BY <2>1, <2>2
<1> DEFINE off == [n \in 0..N |-> Len(f[n])]
<1>7. off \in [0..N -> Nat] /\ off[0] = 0
  <2>1. \A n \in 0..N : Len(f[n]) \in Nat
    BY <1>4
  <2>2. 0 \in 0..N /\ Len(<<>>) = 0
    OBVIOUS
  <2> QED
    BY <1>5, <2>1, <2>2
<1>8. ASSUME NEW k \in 1..N
      PROVE  /\ f[k] \in Seq(S) /\ f[k - 1] \in Seq(S) /\ ss[k] \in Seq(S)
             /\ off[k - 1] = Len(f[k - 1]) /\ off[k] = Len(f[k]) /\ off[k] = off[k - 1] + Len(ss[k])
             /\ \A i \in 1..Len(f[k - 1]) : f[k][i] = f[k - 1][i]
             /\ \A i \in 1..Len(ss[k]) : f[k][Len(f[k - 1]) + i] = ss[k][i]
  <2>1. k - 1 \in 0..N /\ k \in 0..N
    OBVIOUS
  <2>2. f[k - 1] \in Seq(S) /\ ss[k] \in Seq(S)
    BY <1>2, <1>4, <2>1
  <2>3. PICK c \in Seq(S) : IsJoined(c, f[k - 1], ss[k])
    BY <2>2, Joined
  <2>4. f[k] = c
    BY <1>5, <2>3 DEF IsJoined
  <2> QED
    BY <2>1, <2>2, <2>3, <2>4 DEF IsJoined
<1> DEFINE Right(n) == \A k \in 1..n : /\ off[k] <= off[n]
                                       /\ \A i \in 1..Len(ss[k]) : f[n][off[k - 1] + i] = ss[k][i]
           G == {n \in 0..N : Right(n)}
<1> HIDE DEF off
<1>9. 0 \in G
  OBVIOUS
<1>10. ASSUME NEW n \in 0..(N - 1), n \in G PROVE n + 1 \in G
  <2>1. PICK m \in 1..N : m = n + 1 /\ m - 1 = n
    <3>1. n + 1 \in 1..N /\ (n + 1) - 1 = n
      OBVIOUS
    <3> QED
      BY <3>1
  <2>2. ASSUME NEW k \in 1..m
        PROVE  off[k] <= off[m] /\ \A i \in 1..Len(ss[k]) : f[m][off[k - 1] + i] = ss[k][i]
    <3>1. CASE k = m
      <4>1. off[m - 1] = Len(f[m - 1]) /\ off[m] \in Int
        <5>1. m \in 0..N
          OBVIOUS
        <5>2. off[m] \in Nat
          BY <1>7, <5>1
        <5>3. off[m - 1] = Len(f[m - 1])
          BY <1>8
        <5> QED
          BY <5>2, <5>3
      <4>2. \A i \in 1..Len(ss[m]) : f[m][Len(f[m - 1]) + i] = ss[m][i]
        BY <1>8
      <4> QED
        BY <3>1, <4>1, <4>2
    <3>2. CASE k # m
      <4>1. k \in 1..n /\ k \in 1..N
        BY <2>1, <3>2
      <4>2. off[k] <= off[n] /\ \A i \in 1..Len(ss[k]) : f[n][off[k - 1] + i] = ss[k][i]
        BY <1>10, <4>1
      <4>3. off[k] \in Nat /\ off[n] \in Nat /\ off[k - 1] \in Nat /\ off[m] \in Nat
        BY <1>7, <2>1, <4>1
      <4>4. off[n] = Len(f[n]) /\ off[m] = off[n] + Len(ss[m]) /\ Len(ss[m]) \in Nat
        BY <1>8, <2>1
      <4>5. off[k] = off[k - 1] + Len(ss[k]) /\ Len(ss[k]) \in Nat
        BY <1>8, <4>1
      <4>6. ASSUME NEW i \in 1..Len(ss[k]) PROVE f[m][off[k - 1] + i] = ss[k][i]
        <5>1. off[k - 1] + i \in 1..Len(f[n])
          <6>1. PICK a \in Nat, b \in Nat, x \in Nat, y \in Nat :
                  a = off[k - 1] /\ b = off[k] /\ x = Len(ss[k]) /\ y = off[n]
            BY <4>3, <4>5, Zenon
          <6>2. b = a + x /\ b <= y /\ y = Len(f[n])
            BY <4>2, <4>4, <4>5, <6>1, Zenon
          <6>3. PICK z \in 1..x : z = i
            BY <6>1, Zenon
          <6>4. a + z \in 1..y
            BY <6>2
          <6> QED
            BY <6>1, <6>2, <6>3, <6>4, Zenon
        <5>2. f[m][off[k - 1] + i] = f[n][off[k - 1] + i]
          <6>1. \A x \in 1..Len(f[m - 1]) : f[m][x] = f[m - 1][x]
            BY <1>8, Zenon
          <6> QED
            BY <2>1, <5>1, <6>1, Zenon
        <5>3. f[n][off[k - 1] + i] = ss[k][i]
          BY <4>2
        <5> QED
          BY <5>2, <5>3
      <4>7. off[k] <= off[m]
        <5>1. PICK a \in Nat, b \in Nat, x \in Nat, y \in Nat :
                a = off[k] /\ b = off[m] /\ x = Len(ss[m]) /\ y = off[n]
          BY <4>3, <4>4, Zenon
        <5>2. a <= y /\ b = y + x
          BY <4>2, <4>4, <5>1, Zenon
        <5>3. a <= b
          BY <5>2
        <5> QED
          BY <5>1, <5>3, Zenon
      <4> QED
        BY <4>6, <4>7, Zenon
    <3> QED
      BY <3>1, <3>2
  <2> QED
    BY <2>1, <2>2
<1> HIDE DEF G
<1>11. \A n \in 0..N : n \in G
  BY <1>9, <1>10, Induction
<1>12. N \in G
  BY <1>11
<1>13. Right(N)
  BY <1>12 DEF G
<1>14. f[N] \in Seq(S) /\ off[N] = Len(f[N])
  BY <1>4 DEF off
<1>15. IsFlat(f[N], ss, off)
  <2>1. \A k \in 1..N : off[k] = off[k - 1] + Len(ss[k])
    BY <1>8
  <2> QED
    BY <1>1, <1>7, <1>13, <1>14, <2>1 DEF IsFlat
<1> QED
  BY <1>6, <1>14, <1>15

LEMMA EvenOffsets ==
  ASSUME NEW N \in Nat, NEW w \in Nat, NEW off, off[0] = 0, \A k \in 1..N : off[k] = off[k - 1] + w
  PROVE  \A k \in 0..N : off[k] = k * w
<1> DEFINE S == {k \in 0..N : off[k] = k * w}
<1>1. 0 \in S
  OBVIOUS
<1>2. ASSUME NEW k \in 0..(N - 1), k \in S PROVE k + 1 \in S
  <2>1. k + 1 \in 1..N /\ (k + 1) - 1 = k /\ off[k] = k * w /\ k + 1 \in 0..N
    BY <1>2
  <2>2. off[k + 1] = off[k] + w
    BY <2>1
  <2>3. (k + 1) * w = k * w + w
    OBVIOUS
  <2> QED
    BY <2>1, <2>2, <2>3
<1> HIDE DEF S
<1>3. \A k \in 0..N : k \in S
  BY <1>1, <1>2, Induction
<1> QED
  BY <1>3 DEF S

(* Single elements laid end to end are the sequence of them.                *)
LEMMA FlatSingles ==
  ASSUME NEW S, NEW z \in Seq(S), NEW ss, ss = [k \in DOMAIN z |-> <<z[k]>>]
  PROVE  FlattenSeq(ss) = z
<1>1. PICK N \in Nat : N = Len(z) /\ DOMAIN z = 1..N
  OBVIOUS
<1>2. ss \in Seq(Seq(S)) /\ Len(ss) = N /\ \A k \in 1..N : ss[k] = <<z[k]>> /\ Len(ss[k]) = 1
  <2>1. \A k \in 1..N : <<z[k]>> \in Seq(S) /\ Len(<<z[k]>>) = 1
    BY <1>1
  <2> QED
    BY <1>1, <2>1
<1>3. PICK F : F = FlattenSeq(ss)
  OBVIOUS
<1>4. PICK off : IsFlat(F, ss, off)
  BY <1>2, <1>3, Flat
<1>5. F \in Seq(S)
  BY <1>2, <1>3, Flat
<1>6. \A k \in 0..N : off[k] = k * 1
  <2>1. off[0] = 0 /\ \A k \in 1..N : off[k] = off[k - 1] + 1
    BY <1>2, <1>4 DEF IsFlat
  <2>2. 1 \in Nat
    OBVIOUS
  <2> QED
    BY <2>1, <2>2, EvenOffsets
<1>7. Len(F) = N
  BY <1>2, <1>4, <1>6 DEF IsFlat
<1>8. ASSUME NEW k \in 1..N PROVE F[k] = z[k]
  <2>1. F[off[k - 1] + 1] = ss[k][1]
    <3>1. Len(ss[k]) = 1 /\ Len(ss) = N /\ 1 \in 1..1
      BY <1>2
    <3>2. \A i \in 1..Len(ss[k]) : F[off[k - 1] + i] = ss[k][i]
      BY <1>4, <3>1, Zenon DEF IsFlat
    <3> QED
      BY <3>1, <3>2
  <2>2. off[k - 1] = k - 1
    BY <1>6
  <2>3. ss[k][1] = z[k]
    BY <1>2
  <2>4. (k - 1) + 1 = k
    OBVIOUS
  <2> QED
    BY <2>1, <2>2, <2>3, <2>4, Zenon
<1>9. F = z
  BY <1>1, <1>5, <1>7, <1>8, SeqEqual
<1> QED
  BY <1>3, <1>9

(* What lies in a stream lies there part by part.                           *)
LEMMA LiesJoined ==
  ASSUME NEW bits \in Seq(Binary), NEW a \in Seq(Binary), NEW b \in Seq(Binary), NEW p, Lies(bits, p, a \o b)
  PROVE  Lies(bits, p, a) /\ Lies(bits, p + Len(a), b)
<1>1. PICK c \in Seq(Binary) : IsJoined(c, a, b)
  BY Joined
<1>2. p \in Nat \ {0} /\ p + Len(c) <= Len(bits) + 1 /\ Len(c) = Len(a) + Len(b)
      /\ \A k \in 1..Len(c) : bits[p + k - 1] = c[k]
  BY <1>1 DEF IsJoined, Lies
<1>3. Len(a) \in Nat /\ Len(b) \in Nat /\ Len(bits) \in Nat
  OBVIOUS
<1>4. ASSUME NEW k \in 1..Len(a) PROVE bits[p + k - 1] = a[k]
  BY <1>1, <1>2, <1>3 DEF IsJoined
<1>5. ASSUME NEW k \in 1..Len(b) PROVE bits[(p + Len(a)) + k - 1] = b[k]
  <2>1. Len(a) + k \in 1..Len(c) /\ p + (Len(a) + k) - 1 = (p + Len(a)) + k - 1
    BY <1>2, <1>3
  <2>2. bits[p + (Len(a) + k) - 1] = c[Len(a) + k]
    BY <1>2, <2>1, Zenon
  <2>3. c[Len(a) + k] = b[k]
    BY <1>1 DEF IsJoined
  <2> QED
    BY <2>1, <2>2, <2>3
<1> QED
  BY <1>2, <1>3, <1>4, <1>5 DEF Lies

LEMMA LiesFlat ==
  ASSUME NEW bits \in Seq(Binary), NEW ss \in Seq(Seq(Binary)), NEW F \in Seq(Binary), NEW off, IsFlat(F, ss, off),
         NEW p, Lies(bits, p, F), NEW k \in 1..Len(ss)
  PROVE  Lies(bits, p + off[k - 1], ss[k])
<1>1. \A i \in 1..Len(ss[k]) : F[off[k - 1] + i] = ss[k][i]
  BY Zenon DEF IsFlat
<1>2. PICK a \in Nat, b \in Nat, x \in Nat, y \in Nat, z \in Nat :
        a = off[k - 1] /\ b = off[k] /\ x = Len(ss[k]) /\ y = Len(F) /\ z = Len(bits)
  <2>1. off \in [0..Len(ss) -> Nat] /\ k - 1 \in 0..Len(ss) /\ k \in 0..Len(ss)
    BY DEF IsFlat
  <2>2. off[k - 1] \in Nat /\ off[k] \in Nat
    BY <2>1, Zenon
  <2>3. ss[k] \in Seq(Binary)
    BY ElementOfSeq
  <2>4. Len(ss[k]) \in Nat /\ Len(F) \in Nat /\ Len(bits) \in Nat
    BY <2>3, LenProperties
  <2> QED
    BY <2>2, <2>4, Zenon
<1>3. b = a + x /\ b <= y
  BY <1>2, Zenon DEF IsFlat
<1>4. p \in Nat \ {0} /\ p + y <= z + 1 /\ \A i \in 1..y : bits[p + i - 1] = F[i]
  BY <1>2, Zenon DEF Lies
<1>5. ASSUME NEW i \in 1..x PROVE bits[(p + a) + i - 1] = ss[k][i]
  <2>1. a + i \in 1..y /\ p + (a + i) - 1 = (p + a) + i - 1
    BY <1>3, <1>4
  <2>2. bits[p + (a + i) - 1] = F[a + i]
    BY <1>4, <2>1, Zenon
  <2>3. F[a + i] = ss[k][i]
    BY <1>1, <1>2, Zenon
  <2> QED
    BY <2>1, <2>2, <2>3, Zenon
<1>6. p + a \in Nat \ {0} /\ (p + a) + x <= z + 1
  BY <1>3, <1>4
<1> QED
  BY <1>2, <1>5, <1>6, Zenon DEF Lies

(* The powers of two that the lengths and the groups need.                  *)
LEMMA PowerValues ==
  /\ Power(0) = 1 /\ Power(1) = 2 /\ Power(2) = 4 /\ Power(3) = 8 /\ Power(4) = 16 /\ Power(5) = 32
  /\ Power(6) = 64 /\ Power(7) = 128 /\ Power(8) = 256 /\ Power(9) = 512 /\ Power(10) = 1024
  /\ Power(11) = 2048 /\ Power(12) = 4096 /\ Power(13) = 8192 /\ Power(14) = 16384
  /\ Power(15) = 32768 /\ Power(16) = 65536
<1>1. Power(0) = 1 /\ \A k \in 0..23 : Power(k + 1) = 2 * Power(k)
  BY PowersOfTwo, Zenon DEF Power
<1>2. \A k \in 0..23 : \A v : Power(k) = v => Power(k + 1) = 2 * v
  BY <1>1, Zenon
<1> DEFINE Doubles(k, m) == \A v \in Nat : Power(k) = v => Power(m) = 2 * v
<1>3. /\ Doubles(0, 1) /\ Doubles(1, 2) /\ Doubles(2, 3) /\ Doubles(3, 4) /\ Doubles(4, 5) /\ Doubles(5, 6) /\ Doubles(6, 7)
      /\ Doubles(7, 8) /\ Doubles(8, 9) /\ Doubles(9, 10) /\ Doubles(10, 11) /\ Doubles(11, 12) /\ Doubles(12, 13)
      /\ Doubles(13, 14) /\ Doubles(14, 15) /\ Doubles(15, 16)
  <2>1. \A k \in 0..23 : \A m : m = k + 1 => Doubles(k, m)
    BY <1>2, Zenon
  <2> HIDE DEF Doubles
  <2> QED
    BY <2>1
<1> QED
  BY <1>1, <1>3

(* The number of a group says the group.                                    *)
IsGroup(mode, n, code, data, from, m) ==
  /\ GroupBits(mode, n) \in 0..24
  /\ \E v \in Nat : /\ v < Power(GroupBits(mode, n)) /\ code = appendNum(GroupBits(mode, n), v)
                    /\ GroupText(mode, n, v) = [i \in 1..m |-> data[from + i]]

(* A group that lies in a stream says its characters.                       *)
LEMMA GroupRead ==
  ASSUME NEW bits \in Seq(Binary), NEW p, NEW mode, NEW n, NEW code, NEW data, NEW from, NEW m,
         IsGroup(mode, n, code, data, from, m), Lies(bits, p, code)
  PROVE  /\ code \in Seq(Binary) /\ Len(code) = GroupBits(mode, n) /\ GroupBits(mode, n) \in Nat
         /\ GroupText(mode, n, Number(bits, p, GroupBits(mode, n))) = [i \in 1..m |-> data[from + i]]
<1>1. PICK w \in 0..24 : w = GroupBits(mode, n)
  BY Zenon DEF IsGroup
<1>2. PICK v \in Nat : /\ v < Power(w) /\ code = appendNum(w, v)
                       /\ GroupText(mode, n, v) = [i \in 1..m |-> data[from + i]]
  BY <1>1, Zenon DEF IsGroup
<1>3. Number(bits, p, w) = v
  BY <1>2, NumberRead
<1>4. code \in Seq(Binary) /\ Len(code) = w /\ w \in Nat
  <2>1. appendNum(w, v) \in Seq(Binary) /\ Len(appendNum(w, v)) = w /\ w \in Nat
    <3>1. w \in 0..24 /\ v \in Nat /\ w \in Nat
      BY <1>2
    <3> QED
      BY <3>1, Appended, Zenon
  <2> QED
    BY <1>2, <2>1, Zenon
<1> QED
  BY <1>1, <1>2, <1>3, <1>4, Zenon

(* The groups of the four modes.                                            *)
LEMMA DigitsSaid ==
  ASSUME NEW n \in 1..3, NEW g \in [1..n -> 48..57]
  PROVE  /\ NumValue(g) \in Nat /\ NumValue(g) < Power(<<4, 7, 10>>[n])
         /\ GroupText("NUM", n, NumValue(g)) = [i \in 1..n |-> g[i]]
<1>1. PICK v : v = NumValue(g)
  OBVIOUS
<1>2. \A k \in 1..n : g[k] - 48 \in 0..9
  OBVIOUS
<1>3. Len(g) = n
  OBVIOUS
<1>4. GroupText("NUM", n, v) = [k \in 1..n |-> 48 + ((v \div <<1, 10, 100>>[n - k + 1]) % 10)]
  BY DEF GroupText
<1>5. v \in Nat /\ v < Power(<<4, 7, 10>>[n])
      /\ \A k \in 1..n : 48 + ((v \div <<1, 10, 100>>[n - k + 1]) % 10) = g[k]
  <2>1. CASE n = 3
    <3>1. PICK a \in 0..9, b \in 0..9, c \in 0..9 : a = g[1] - 48 /\ b = g[2] - 48 /\ c = g[3] - 48
      BY <1>2, <2>1
    <3>2. v = 100 * a + 10 * b + c
      BY <1>1, <1>3, <2>1, <3>1 DEF NumValue
    <3>3. (v \div 100) % 10 = a /\ (v \div 10) % 10 = b /\ (v \div 1) % 10 = c /\ v \in 0..999
      BY <3>2
    <3>4. g[1] = 48 + a /\ g[2] = 48 + b /\ g[3] = 48 + c
      BY <2>1, <3>1
    <3>5. ASSUME NEW k \in 1..n PROVE 48 + ((v \div <<1, 10, 100>>[n - k + 1]) % 10) = g[k]
      <4>1. CASE k = 1
        <5>1. n - k + 1 = 3 /\ <<1, 10, 100>>[3] = 100
          BY <2>1, <4>1
        <5> QED
          BY <3>3, <3>4, <4>1, <5>1, Zenon
      <4>2. CASE k = 2
        <5>1. n - k + 1 = 2 /\ <<1, 10, 100>>[2] = 10
          BY <2>1, <4>2
        <5> QED
          BY <3>3, <3>4, <4>2, <5>1, Zenon
      <4>3. CASE k = 3
        <5>1. n - k + 1 = 1 /\ <<1, 10, 100>>[1] = 1
          BY <2>1, <4>3
        <5> QED
          BY <3>3, <3>4, <4>3, <5>1, Zenon
      <4>4. k = 1 \/ k = 2 \/ k = 3
        BY <2>1
      <4> QED
        BY <4>1, <4>2, <4>3, <4>4, Zenon
    <3>6. <<4, 7, 10>>[n] = 10
      BY <2>1
    <3>7. v \in Nat /\ v < Power(10)
      <4>1. v \in 0..999
        BY <3>3, Zenon
      <4>2. Power(10) = 1024
        BY PowerValues
      <4> QED
        BY <4>1, <4>2
    <3> QED
      BY <3>5, <3>6, <3>7, Zenon
  <2>2. CASE n = 2
    <3>1. PICK a \in 0..9, b \in 0..9 : a = g[1] - 48 /\ b = g[2] - 48
      BY <1>2, <2>2
    <3>2. v = 10 * a + b
      BY <1>1, <1>3, <2>2, <3>1 DEF NumValue
    <3>3. (v \div 10) % 10 = a /\ (v \div 1) % 10 = b /\ v \in 0..99
      BY <3>2
    <3>4. g[1] = 48 + a /\ g[2] = 48 + b
      BY <2>2, <3>1
    <3>5. ASSUME NEW k \in 1..n PROVE 48 + ((v \div <<1, 10, 100>>[n - k + 1]) % 10) = g[k]
      <4>1. k \in 1..2 /\ n - k + 1 = 3 - k
        BY <2>2
      <4> QED
        BY <3>3, <3>4, <4>1
    <3>6. <<4, 7, 10>>[n] = 7
      BY <2>2
    <3>7. v \in Nat /\ v < Power(7)
      <4>1. Power(7) = 128
        BY PowerValues
      <4> QED
        BY <3>3, <4>1
    <3> QED
      BY <3>5, <3>6, <3>7, Zenon
  <2>3. CASE n = 1
    <3>1. PICK a \in 0..9 : a = g[1] - 48
      BY <1>2, <2>3
    <3>2. v = a
      BY <1>1, <1>3, <2>3, <3>1 DEF NumValue
    <3>3. (v \div 1) % 10 = a /\ v \in 0..9
      BY <3>2
    <3>4. g[1] = 48 + a
      BY <2>3, <3>1
    <3>5. ASSUME NEW k \in 1..n PROVE 48 + ((v \div <<1, 10, 100>>[n - k + 1]) % 10) = g[k]
      <4>1. k = 1 /\ n - k + 1 = 1
        BY <2>3
      <4> QED
        BY <3>3, <3>4, <4>1
    <3>6. <<4, 7, 10>>[n] = 4
      BY <2>3
    <3>7. v \in Nat /\ v < Power(4)
      <4>1. Power(4) = 16
        BY PowerValues
      <4> QED
        BY <3>3, <4>1
    <3> QED
      BY <3>5, <3>6, <3>7, Zenon
  <2>4. n = 1 \/ n = 2 \/ n = 3
    OBVIOUS
  <2> QED
    BY <2>1, <2>2, <2>3, <2>4, Zenon
<1> HIDE DEF NumValue
<1>6. GroupText("NUM", n, v) = [i \in 1..n |-> g[i]]
  BY <1>4, <1>5, Zenon
<1> QED
  BY <1>1, <1>5, <1>6, Zenon

Alnum == (48..57) \cup (65..90) \cup {32, 36, 37, 42, 43, 45, 46, 47, 58}

LEMMA CharacterSaid ==
  ASSUME NEW c \in Alnum
  PROVE  QRinput_anTable(c) \in 0..44 /\ Alphanumeric(QRinput_anTable(c)) = c
<1>1. CASE c \in 48..57
  BY <1>1 DEF QRinput_anTable, Alphanumeric
<1>2. CASE c \in 65..90
  BY <1>2 DEF QRinput_anTable, Alphanumeric
<1>3. CASE c \notin 48..57 /\ c \notin 65..90
  <2>1. \E k \in DOMAIN Characters : Characters[k] = c
    <3>1. c \in {32, 36, 37, 42, 43, 45, 46, 47, 58} /\ DOMAIN Characters = 1..9
      BY <1>3 DEF Alnum, Characters
    <3>2. /\ Characters[1] = 32 /\ Characters[2] = 36 /\ Characters[3] = 37 /\ Characters[4] = 42
          /\ Characters[5] = 43 /\ Characters[6] = 45 /\ Characters[7] = 46 /\ Characters[8] = 47
          /\ Characters[9] = 58
      BY DEF Characters
    <3> HIDE DEF Characters
    <3> QED
      BY <3>1, <3>2
  <2>2. PICK e : e = CHOOSE k \in DOMAIN Characters : Characters[k] = c
    OBVIOUS
  <2>3. e \in DOMAIN Characters /\ Characters[e] = c
    BY <2>1, <2>2, Zenon
  <2>4. QRinput_anTable(c) = 35 + e
    BY <1>3, <2>2 DEF QRinput_anTable, Characters
  <2>5. e \in 1..9
    BY <2>3 DEF Characters
  <2>6. 35 + e \in 0..44 /\ ~ (35 + e < 10) /\ ~ (35 + e < 36) /\ (35 + e) - 35 = e
    BY <2>5
  <2>7. Alphanumeric(35 + e) = Characters[e]
    BY <2>6, Zenon DEF Alphanumeric
  <2> QED
    BY <2>3, <2>4, <2>6, <2>7
<1> QED
  BY <1>1, <1>2, <1>3

LEMMA CharactersSaid ==
  ASSUME NEW n \in 1..2, NEW g \in [1..n -> Alnum]
  PROVE  /\ AnValue(g) \in Nat /\ AnValue(g) < Power(<<6, 11>>[n])
         /\ GroupText("AN", n, AnValue(g)) = [i \in 1..n |-> g[i]]
<1>1. PICK v : v = AnValue(g)
  OBVIOUS
<1>2. \A k \in 1..n : QRinput_anTable(g[k]) \in 0..44 /\ Alphanumeric(QRinput_anTable(g[k])) = g[k]
  BY CharacterSaid
<1>3. Len(g) = n
  OBVIOUS
<1>4. GroupText("AN", n, v) = [k \in 1..n |-> Alphanumeric((v \div <<1, 45>>[n - k + 1]) % 45)]
  BY DEF GroupText
<1>5. v \in Nat /\ v < Power(<<6, 11>>[n])
      /\ \A k \in 1..n : Alphanumeric((v \div <<1, 45>>[n - k + 1]) % 45) = g[k]
  <2>1. CASE n = 2
    <3>1. PICK a \in 0..44, b \in 0..44 : a = QRinput_anTable(g[1]) /\ b = QRinput_anTable(g[2])
      BY <1>2, <2>1
    <3>2. v = 45 * a + b
      BY <1>1, <1>3, <2>1, <3>1 DEF AnValue
    <3>3. (v \div 45) % 45 = a /\ (v \div 1) % 45 = b
      BY <3>2
    <3>4. Alphanumeric(a) = g[1] /\ Alphanumeric(b) = g[2]
      BY <1>2, <2>1, <3>1
    <3>5. ASSUME NEW k \in 1..n PROVE Alphanumeric((v \div <<1, 45>>[n - k + 1]) % 45) = g[k]
      <4>1. CASE k = 1
        <5>1. n - k + 1 = 2 /\ <<1, 45>>[2] = 45
          BY <2>1, <4>1
        <5>2. Alphanumeric((v \div <<1, 45>>[n - k + 1]) % 45) = Alphanumeric((v \div 45) % 45)
          BY <5>1, Zenon
        <5>3. Alphanumeric((v \div 45) % 45) = g[1]
          BY <3>3, <3>4, Zenon
        <5> QED
          BY <4>1, <5>2, <5>3, Zenon
      <4>2. CASE k = 2
        <5>1. n - k + 1 = 1 /\ <<1, 45>>[1] = 1
          BY <2>1, <4>2
        <5>2. Alphanumeric((v \div <<1, 45>>[n - k + 1]) % 45) = Alphanumeric((v \div 1) % 45)
          BY <5>1, Zenon
        <5>3. Alphanumeric((v \div 1) % 45) = g[2]
          BY <3>3, <3>4, Zenon
        <5> QED
          BY <4>2, <5>2, <5>3, Zenon
      <4> QED
        BY <2>1, <4>1, <4>2
    <3>6. <<6, 11>>[n] = 11
      BY <2>1
    <3>7. v \in Nat /\ v < Power(11)
      <4>1. Power(11) = 2048
        BY PowerValues
      <4>2. v \in 0..2024
        BY <3>2
      <4> QED
        BY <4>1, <4>2
    <3> QED
      BY <3>5, <3>6, <3>7, Zenon
  <2>2. CASE n = 1
    <3>1. PICK a \in 0..44 : a = QRinput_anTable(g[1])
      BY <1>2, <2>2
    <3>2. v = a
      BY <1>1, <1>3, <2>2, <3>1 DEF AnValue
    <3>3. (v \div 1) % 45 = a /\ v \in 0..44
      BY <3>2
    <3>4. Alphanumeric(a) = g[1]
      BY <1>2, <2>2, <3>1
    <3>5. ASSUME NEW k \in 1..n PROVE Alphanumeric((v \div <<1, 45>>[n - k + 1]) % 45) = g[k]
      <4>1. k = 1 /\ n - k + 1 = 1 /\ <<1, 45>>[1] = 1
        BY <2>2
      <4> QED
        BY <3>3, <3>4, <4>1, Zenon
    <3>6. <<6, 11>>[n] = 6
      BY <2>2
    <3>7. v \in Nat /\ v < Power(6)
      <4>1. Power(6) = 64
        BY PowerValues
      <4> QED
        BY <3>3, <4>1
    <3> QED
      BY <3>5, <3>6, <3>7, Zenon
  <2> QED
    BY <2>1, <2>2
<1>6. GroupText("AN", n, v) = [i \in 1..n |-> g[i]]
  BY <1>4, <1>5, Zenon
<1> QED
  BY <1>1, <1>5, <1>6, Zenon

(* The two ranges of Kanji codes.                                           *)
Lower == 33088..40956
Upper == 57408..60351

LEMMA KanjiSaid ==
  ASSUME NEW hi \in Nat, NEW lo \in Nat, IsKanji(hi, lo)
  PROVE  /\ KanjiValue(hi, lo) \in Nat /\ KanjiValue(hi, lo) < Power(13)
         /\ GroupText("KANJI", 1, KanjiValue(hi, lo)) = <<hi, lo>>
<1>1. PICK v : v = KanjiValue(hi, lo)
  OBVIOUS
<1> DEFINE Split(b, x, y) ==
             /\ hi = 129 + x + 64 * b /\ lo = 64 + y /\ 192 * x + y < 8192
             /\ b = 0 => x <= 30 /\ 256 * hi + lo <= 40956
             /\ b = 1 => x >= 31 /\ 256 * hi + lo > 40956
<1> HIDE DEF Split
<1>2. PICK b \in {0, 1}, x \in 0..62, y \in 0..191 : Split(b, x, y)
  <2>1. PICK word \in Nat : word = 256 * hi + lo
    <3>1. 256 * hi + lo \in Nat
      OBVIOUS
    <3> QED
      BY <3>1, Zenon
  <2>2. lo \in 64..255 /\ (word \in Lower \/ word \in Upper)
    BY <2>1 DEF IsKanji, Lower, Upper
  <2>3. ASSUME word \in Lower PROVE \E b \in {0, 1}, x \in 0..62, y \in 0..191 : Split(b, x, y)
    <3>1. hi - 129 \in 0..30 /\ lo - 64 \in 0..191
      BY <2>1, <2>2, <2>3 DEF Lower
    <3>2. Split(0, hi - 129, lo - 64)
      BY <2>1, <2>3, <3>1 DEF Split, Lower
    <3> QED
      BY <3>1, <3>2
  <2>4. ASSUME word \in Upper PROVE \E b \in {0, 1}, x \in 0..62, y \in 0..191 : Split(b, x, y)
    <3>1. hi - 193 \in 31..42 /\ lo - 64 \in 0..191
      BY <2>1, <2>2, <2>4 DEF Upper
    <3>2. Split(1, hi - 193, lo - 64)
      BY <2>1, <2>4, <3>1 DEF Split, Upper
    <3> QED
      BY <3>1, <3>2
  <2> QED
    BY <2>2, <2>3, <2>4, Zenon
<1>3. /\ hi = 129 + x + 64 * b /\ lo = 64 + y /\ 192 * x + y < 8192
      /\ b = 0 => x <= 30 /\ 256 * hi + lo <= 40956
      /\ b = 1 => x >= 31 /\ 256 * hi + lo > 40956
  BY <1>2 DEF Split
<1>4. v = 192 * x + y
  <2>1. CASE b = 0
    <3>1. (256 * hi + lo) - 33088 = 256 * x + y /\ 256 * hi + lo <= 40956
      BY <1>3, <2>1
    <3>2. (256 * x + y) \div 256 = x /\ (256 * x + y) % 256 = y
      BY <1>3
    <3> QED
      BY <1>1, <3>1, <3>2 DEF KanjiValue
  <2>2. CASE b = 1
    <3>1. (256 * hi + lo) - 49472 = 256 * x + y /\ ~ (256 * hi + lo <= 40956)
      BY <1>3, <2>2
    <3>2. (256 * x + y) \div 256 = x /\ (256 * x + y) % 256 = y
      BY <1>3
    <3> QED
      BY <1>1, <3>1, <3>2 DEF KanjiValue
  <2> QED
    BY <2>1, <2>2
<1>5. v \div 192 = x /\ v % 192 = y /\ v \in Nat /\ v < 8192
  <2>1. 192 \in Nat /\ x \in Nat /\ y \in 0..192 - 1
    OBVIOUS
  <2>2. 192 * x + y < 8192
    BY <1>3
  <2>3. (192 * x + y) \div 192 = x /\ (192 * x + y) % 192 = y
    BY <2>1, DividedUniquely
  <2>4. v \in Nat /\ v < 8192
    BY <1>4, <2>2
  <2> QED
    BY <1>4, <2>3, <2>4
<1>6. PICK pair : pair = (v \div 192) * 256 + (v % 192)
  OBVIOUS
<1>7. pair = 256 * x + y /\ (pair < 7936 <=> b = 0)
  BY <1>3, <1>5, <1>6
<1>8. PICK code : code = pair + (IF pair < 7936 THEN 33088 ELSE 49472)
  OBVIOUS
<1>9. code = 256 * hi + lo
  BY <1>3, <1>7, <1>8
<1>10. code \div 256 = hi /\ code % 256 = lo
  <2>1. lo \in 0..255
    BY <1>3
  <2> QED
    BY <1>9, <2>1
<1>11. Kanji(v) = <<hi, lo>>
  BY <1>6, <1>8, <1>10 DEF Kanji
<1>12. GroupText("KANJI", 1, v) = <<hi, lo>>
  BY <1>11 DEF GroupText
<1> QED
  BY <1>1, <1>5, <1>12, PowerValues

(* Data cut into groups of u, and put together again.                       *)
Rejoins(data, u, full, rest) ==
  FlattenSeq([k \in 1..full |-> [i \in 1..u |-> data[(k - 1) * u + i]]])
    \o (IF rest = 0 THEN <<>> ELSE [i \in 1..rest |-> data[full * u + i]]) = data

(* The groups in a row are the data.                                        *)
LEMMA Regrouped ==
  ASSUME NEW S, NEW data \in Seq(S), NEW u \in Nat \ {0}, NEW full \in Nat, NEW rest \in Nat,
         Len(data) = full * u + rest
  PROVE  Rejoins(data, u, full, rest)
<1>1. PICK m \in Nat : m = full * u
  OBVIOUS
<1>2. \A i \in 1..(m + rest) : data[i] \in S
  BY <1>1
<1> DEFINE ss == [k \in 1..full |-> [i \in 1..u |-> data[(k - 1) * u + i]]]
           tail == IF rest = 0 THEN <<>> ELSE [i \in 1..rest |-> data[full * u + i]]
<1>3. ASSUME NEW k \in 1..full
      PROVE  ss[k] \in Seq(S) /\ Len(ss[k]) = u /\ \A i \in 1..u : ss[k][i] = data[(k - 1) * u + i]
  <2>1. PICK a \in Nat : a = (k - 1) * u /\ a + u <= m
    <3>1. (k - 1) * u \in Nat /\ (k - 1) * u + u = k * u
      OBVIOUS
    <3>2. k * u <= full * u
      BY Products
    <3> QED
      BY <1>1, <3>1, <3>2
  <2>2. ss[k] = [i \in 1..u |-> data[a + i]]
    BY <2>1
  <2>3. \A i \in 1..u : data[a + i] \in S
    <3>1. \A i \in 1..u : a + i \in 1..(m + rest)
      BY <2>1
    <3> QED
      BY <1>2, <3>1
  <2>4. [i \in 1..u |-> data[a + i]] \in Seq(S) /\ Len([i \in 1..u |-> data[a + i]]) = u
    BY <2>3
  <2> QED
    BY <2>1, <2>2, <2>4
<1>4. ss \in Seq(Seq(S)) /\ Len(ss) = full
  <2>1. \A k \in 1..full : ss[k] \in Seq(S)
    BY <1>3
  <2> HIDE DEF ss
  <2>2. DOMAIN ss = 1..full /\ ss = [k \in 1..full |-> ss[k]]
    BY DEF ss
  <2>3. ss \in [1..full -> Seq(S)]
    BY <2>1, <2>2, Zenon
  <2> QED
    BY <2>3
<1>5. tail \in Seq(S) /\ Len(tail) = rest /\ \A i \in 1..rest : tail[i] = data[m + i]
  <2>1. CASE rest = 0
    <3>1. tail = <<>>
      BY <2>1
    <3> HIDE DEF tail
    <3> QED
      BY <2>1, <3>1
  <2>2. CASE rest # 0
    <3>1. tail = [i \in 1..rest |-> data[m + i]]
      BY <1>1, <2>2
    <3>2. \A i \in 1..rest : data[m + i] \in S
      <4>1. \A i \in 1..rest : m + i \in 1..(m + rest)
        OBVIOUS
      <4> QED
        BY <1>2, <4>1
    <3> HIDE DEF tail
    <3> QED
      BY <3>1, <3>2
  <2> QED
    BY <2>1, <2>2
<1> HIDE DEF ss, tail
<1>6. PICK F : F = FlattenSeq(ss)
  OBVIOUS
<1>7. F \in Seq(S)
  BY <1>4, <1>6, Flat
<1>8. PICK off : IsFlat(F, ss, off)
  BY <1>4, <1>6, Flat
<1>9. off[0] = 0 /\ (\A k \in 1..full : off[k] = off[k - 1] + u) /\ Len(F) = off[full]
      /\ \A k \in 1..full : \A i \in 1..u : F[off[k - 1] + i] = data[(k - 1) * u + i]
  <2>1. ASSUME NEW k \in 1..full PROVE off[k] = off[k - 1] + u /\ \A i \in 1..u : F[off[k - 1] + i] = data[(k - 1) * u + i]
    <3>1. off[k] = off[k - 1] + Len(ss[k]) /\ \A i \in 1..Len(ss[k]) : F[off[k - 1] + i] = ss[k][i]
      BY <1>4, <1>8, Zenon DEF IsFlat
    <3>2. Len(ss[k]) = u /\ \A i \in 1..u : ss[k][i] = data[(k - 1) * u + i]
      BY <1>3
    <3> QED
      BY <3>1, <3>2, Zenon
  <2>2. off[0] = 0 /\ Len(F) = off[full]
    BY <1>4, <1>8, Zenon DEF IsFlat
  <2> QED
    BY <2>1, <2>2, Zenon
<1>10. \A k \in 0..full : off[k] = k * u
  BY <1>9, EvenOffsets
<1>11. Len(F) = m
  BY <1>1, <1>9, <1>10
<1>12. ASSUME NEW n \in 1..m PROVE F[n] = data[n]
  <2>1. PICK q \in Nat, r \in 0..u - 1 : n - 1 = u * q + r
    <3>1. (n - 1) \div u \in Nat /\ (n - 1) % u \in 0..u - 1 /\ n - 1 = u * ((n - 1) \div u) + ((n - 1) % u)
      <4>1. n - 1 \in Nat /\ u \in Nat /\ u > 0
        OBVIOUS
      <4> QED
        BY <4>1, Divided
    <3> QED
      BY <3>1
  <2>2. q < full
    <3>1. SUFFICES ASSUME ~ (q < full) PROVE FALSE
      OBVIOUS
    <3>2. full * u <= q * u
      BY <3>1, Products
    <3>3. PICK a \in Nat : a = q * u
      OBVIOUS
    <3>4. n - 1 = a + r
      BY <2>1, <3>3
    <3> QED
      BY <1>1, <3>2, <3>3, <3>4
  <2>3. PICK k \in 1..full, i \in 1..u : k = q + 1 /\ i = r + 1
    BY <2>1, <2>2
  <2>4. F[off[k - 1] + i] = data[(k - 1) * u + i]
    BY <1>9
  <2>5. k - 1 \in 0..full
    OBVIOUS
  <2>6. off[k - 1] = (k - 1) * u
    BY <1>10, <2>5
  <2>7. (k - 1) * u + i = n
    <3>1. PICK a \in Nat : a = q * u
      OBVIOUS
    <3>2. n - 1 = a + r /\ k - 1 = q
      BY <2>1, <2>3, <3>1
    <3> QED
      BY <2>3, <3>1, <3>2
  <2> QED
    BY <2>4, <2>6, <2>7
<1>13. PICK c \in Seq(S) : IsJoined(c, F, tail)
  BY <1>5, <1>7, Joined
<1>14. c = F \o tail /\ Len(c) = Len(data)
  BY <1>1, <1>5, <1>11, <1>13 DEF IsJoined
<1>15. ASSUME NEW n \in 1..Len(c) PROVE c[n] = data[n]
  <2>1. n \in 1..(m + rest)
    BY <1>1, <1>14
  <2>2. CASE n <= m
    <3>1. n \in 1..m
      BY <2>2
    <3>2. c[n] = F[n]
      BY <1>11, <1>13, <3>1 DEF IsJoined
    <3> QED
      BY <1>12, <3>1, <3>2
  <2>3. CASE ~ (n <= m)
    <3>1. PICK i \in 1..rest : i = n - m
      <4>1. n - m \in 1..rest
        BY <2>1, <2>3
      <4> QED
        BY <4>1
    <3>2. c[m + i] = tail[i]
      BY <1>5, <1>11, <1>13 DEF IsJoined
    <3>3. m + i = n
      BY <2>1, <3>1
    <3> QED
      BY <1>5, <3>2, <3>3
  <2> QED
    BY <2>2, <2>3
<1>16. c = data
  BY <1>14, <1>15, SeqEqual
<1> QED
  BY <1>6, <1>14, <1>16, Zenon DEF ss, tail, Rejoins

(* The groups of a text: full ones of u, and one of the rest.               *)
IsText(mode, data, u, full, rest, text) ==
  /\ Len(data) = full * u + rest
  /\ text \in Seq(Seq(Binary)) /\ Len(text) = full + (IF rest = 0 THEN 0 ELSE 1)
  /\ \A k \in 1..full : IsGroup(mode, GroupSize(mode), text[k], data, (k - 1) * u, u)
  /\ rest # 0 => IsGroup(mode, rest, text[full + 1], data, full * u, rest)

(* The text of a chunk of `count' characters.                               *)
IsTextOf(mode, data, count, text) ==
  \E u \in Nat \ {0}, g \in 1..3 : \E full \in Nat, rest \in 0..(g - 1) :
    /\ g = GroupSize(mode) /\ GroupBits(mode, g) \in Nat
    /\ count = full * g + rest /\ IsText(mode, data, u, full, rest, text)

(* A text is read as its data, and the reader goes on behind it.            *)
LEMMA TextRead ==
  ASSUME NEW bits \in Seq(Binary), NEW p, NEW mode, NEW S, NEW data \in Seq(S), NEW count, NEW text,
         IsTextOf(mode, data, count, text), Lies(bits, p, FlattenSeq(text))
  PROVE  TextChunk(bits, mode, count, p)
           = [chunk |-> [mode |-> mode, data |-> data], next |-> p + Len(FlattenSeq(text))]
<1>1. PICK u \in Nat \ {0}, g \in 1..3 : \E full \in Nat, rest \in 0..(g - 1) :
         /\ g = GroupSize(mode) /\ GroupBits(mode, g) \in Nat
         /\ count = full * g + rest /\ IsText(mode, data, u, full, rest, text)
  BY Zenon DEF IsTextOf
<1>2. PICK full \in Nat, rest \in 0..(g - 1) :
         /\ g = GroupSize(mode) /\ GroupBits(mode, g) \in Nat
         /\ count = full * g + rest /\ IsText(mode, data, u, full, rest, text)
  BY <1>1, Zenon
<1>3. g = GroupSize(mode) /\ GroupBits(mode, g) \in Nat
  BY <1>2, Zenon
<1>4. IsText(mode, data, u, full, rest, text)
  BY <1>2, Zenon
<1>5. PICK F : F = FlattenSeq(text)
  OBVIOUS
<1>6. text \in Seq(Seq(Binary)) /\ Len(text) = full + (IF rest = 0 THEN 0 ELSE 1)
  BY <1>4 DEF IsText
<1>7. F \in Seq(Binary)
  BY <1>5, <1>6, Flat
<1>8. PICK off : IsFlat(F, text, off)
  BY <1>5, <1>6, Flat
<1>9. PICK w \in Nat : w = GroupBits(mode, g)
  BY <1>3
<1>10. \A k \in 1..Len(text) : Lies(bits, p + off[k - 1], text[k])
  BY <1>5, <1>6, <1>7, <1>8, LiesFlat
<1>11. \A k \in 1..full : k \in 1..Len(text)
  BY <1>6
<1>12. ASSUME NEW k \in 1..full
      PROVE  Len(text[k]) = w
             /\ GroupText(mode, g, Number(bits, p + off[k - 1], w)) = [i \in 1..u |-> data[(k - 1) * u + i]]
  <2>1. PICK a, b, e : a = (k - 1) * u /\ b = p + off[k - 1] /\ e = text[k]
    BY Zenon
  <2>2. IsGroup(mode, g, e, data, a, u)
    BY <1>12, <1>3, <1>4, <2>1 DEF IsText
  <2>3. Lies(bits, b, e)
    BY <1>10, <1>11, <1>12, <2>1
  <2>4. Len(e) = GroupBits(mode, g)
        /\ GroupText(mode, g, Number(bits, b, GroupBits(mode, g))) = [i \in 1..u |-> data[a + i]]
    BY <2>2, <2>3, GroupRead
  <2> QED
    BY <1>9, <2>1, <2>4, Zenon
<1>13. \A k \in 0..full : off[k] = k * w
  <2>1. off[0] = 0
    BY <1>8, Zenon DEF IsFlat
  <2>2. \A k \in 1..full : off[k] = off[k - 1] + w
    <3>1. ASSUME NEW k \in 1..full PROVE off[k] = off[k - 1] + w
      <4>1. off[k] = off[k - 1] + Len(text[k])
        BY <1>8, <1>11, Zenon DEF IsFlat
      <4> QED
        BY <1>12, <4>1, Zenon
    <3> QED
      BY <3>1
  <2> QED
    BY <2>1, <2>2, EvenOffsets
<1>14. \A k \in 1..full : off[k - 1] = (k - 1) * w
  BY <1>13
<1>15. ASSUME rest # 0
       PROVE  /\ Len(text) = full + 1 /\ Len(text[full + 1]) = GroupBits(mode, rest) /\ GroupBits(mode, rest) \in Nat
              /\ GroupText(mode, rest, Number(bits, p + full * w, GroupBits(mode, rest)))
                   = [i \in 1..rest |-> data[full * u + i]]
              /\ off[full + 1] = full * w + GroupBits(mode, rest)
  <2>1. IsGroup(mode, rest, text[full + 1], data, full * u, rest)
    BY <1>15, <1>4 DEF IsText
  <2>2. Len(text) = full + 1 /\ full + 1 \in 1..Len(text) /\ (full + 1) - 1 = full /\ full \in 0..full
    BY <1>6, <1>15
  <2>3. Lies(bits, p + off[(full + 1) - 1], text[full + 1])
    BY <1>10, <2>2
  <2>4. off[(full + 1) - 1] = full * w
    BY <1>13, <2>2, Zenon
  <2>5. Lies(bits, p + full * w, text[full + 1])
    BY <2>3, <2>4, Zenon
  <2>6. Len(text[full + 1]) = GroupBits(mode, rest) /\ GroupBits(mode, rest) \in Nat
        /\ GroupText(mode, rest, Number(bits, p + full * w, GroupBits(mode, rest)))
             = [i \in 1..rest |-> data[full * u + i]]
    <3>1. PICK a, b, e : a = full * u /\ b = p + full * w /\ e = text[full + 1]
      BY Zenon
    <3>2. IsGroup(mode, rest, e, data, a, rest)
      BY <2>1, <3>1, Zenon
    <3>3. Lies(bits, b, e)
      BY <2>5, <3>1, Zenon
    <3>4. Len(e) = GroupBits(mode, rest) /\ GroupBits(mode, rest) \in Nat
          /\ GroupText(mode, rest, Number(bits, b, GroupBits(mode, rest))) = [i \in 1..rest |-> data[a + i]]
      BY <3>2, <3>3, GroupRead
    <3> QED
      BY <3>1, <3>4, Zenon
  <2>7. off[full + 1] = off[(full + 1) - 1] + Len(text[full + 1])
    BY <1>8, <2>2, Zenon DEF IsFlat
  <2> QED
    BY <2>2, <2>4, <2>6, <2>7, Zenon
<1>16. Len(F) = full * w + (IF rest = 0 THEN 0 ELSE GroupBits(mode, rest))
  <2>1. Len(F) = off[Len(text)]
    BY <1>8, Zenon DEF IsFlat
  <2>2. CASE rest = 0
    <3>1. Len(text) = full /\ full \in 0..full
      BY <1>6, <2>2
    <3>2. off[full] = full * w /\ full * w \in Nat
      BY <1>13, <3>1
    <3> QED
      BY <2>1, <2>2, <3>1, <3>2
  <2>3. CASE rest # 0
    BY <1>15, <2>1, <2>3, Zenon
  <2> QED
    BY <2>2, <2>3
<1>17. p \in Nat \ {0} /\ p + Len(F) <= Len(bits) + 1 /\ Len(F) \in Nat /\ Len(bits) \in Nat
  BY <1>5, <1>7 DEF Lies
<1>18. count \in Nat /\ count = full * g + rest
  <2>1. full * g + rest \in Nat
    OBVIOUS
  <2>2. count = full * g + rest
    BY <1>2, Zenon
  <2> QED
    BY <2>1, <2>2
<1>19. count \div g = full /\ count % g = rest
  <2>1. g \in Nat /\ rest \in 0..g - 1
    OBVIOUS
  <2>2. (g * full + rest) \div g = full /\ (g * full + rest) % g = rest
    BY <2>1, DividedUniquely
  <2>3. full * g = g * full
    OBVIOUS
  <2> QED
    BY <1>18, <2>2, <2>3
<1> DEFINE group(k, n) == GroupText(mode, n, Number(bits, p + (k - 1) * w, GroupBits(mode, n)))
           tail == IF rest = 0 THEN <<>> ELSE group(full + 1, rest)
           next == p + full * w + (IF rest = 0 THEN 0 ELSE GroupBits(mode, rest))
<1>20. TextChunk(bits, mode, count, p)
         = IF next > Len(bits) + 1 THEN [chunk |-> Unreadable, next |-> 0]
           ELSE [chunk |-> [mode |-> mode, data |-> FlattenSeq([k \in 1..full |-> group(k, g)]) \o tail],
                 next |-> next]
  BY <1>9, <1>19, <1>3, Zenon DEF TextChunk
<1>21. next = p + Len(F) /\ ~ (next > Len(bits) + 1)
  <2>1. PICK a \in Nat, b \in Nat : a = full * w /\ b = IF rest = 0 THEN 0 ELSE GroupBits(mode, rest)
    <3>1. full * w \in Nat
      OBVIOUS
    <3>2. (IF rest = 0 THEN 0 ELSE GroupBits(mode, rest)) \in Nat
      BY <1>15
    <3> QED
      BY <3>1, <3>2
  <2>2. Len(F) = a + b /\ next = p + a + b
    BY <1>16, <2>1, Zenon
  <2> QED
    BY <1>17, <2>2
<1>22. \A k \in 1..full : group(k, g) = [i \in 1..u |-> data[(k - 1) * u + i]]
  <2>1. ASSUME NEW k \in 1..full PROVE group(k, g) = [i \in 1..u |-> data[(k - 1) * u + i]]
    BY <1>9, <1>12, <1>14, Zenon
  <2> QED
    BY <2>1, Zenon
<1>23. [k \in 1..full |-> group(k, g)] = [k \in 1..full |-> [i \in 1..u |-> data[(k - 1) * u + i]]]
  <2> HIDE DEF group
  <2> QED
    BY <1>22, Zenon
<1>24. tail = IF rest = 0 THEN <<>> ELSE [i \in 1..rest |-> data[full * u + i]]
  <2>1. (full + 1) - 1 = full
    OBVIOUS
  <2> QED
    BY <1>15, <2>1, Zenon
<1>25. Rejoins(data, u, full, rest)
  <2>1. Len(data) = full * u + rest /\ rest \in Nat
    BY <1>4 DEF IsText
  <2> QED
    BY <2>1, Regrouped
<1> HIDE DEF group, tail, next
<1> QED
  BY <1>5, <1>18, <1>20, <1>21, <1>23, <1>24, <1>25, Zenon DEF Rejoins

(* How Groups cuts the data.                                                *)
LEMMA CutOut ==
  ASSUME NEW S, NEW data \in Seq(S), NEW a \in Nat, NEW m \in Nat, a + m <= Len(data)
  PROVE  SubSeq(data, a + 1, a + m) = [i \in 1..m |-> data[a + i]]
<1>1. \A i \in (a + 1)..(a + m) : data[i] \in S
  OBVIOUS
<1>2. PICK b \in Int, e \in Int : b = a + 1 /\ e = a + m
  OBVIOUS
<1>3. PICK x : x = SubSeq(data, b, e)
  OBVIOUS
<1>4. x \in Seq(S) /\ Len(x) = m /\ \A i \in 1..m : x[i] = data[a + i]
  <2>1. /\ x \in Seq(S) /\ Len(x) = (IF b <= e THEN e - b + 1 ELSE 0)
        /\ \A i \in 1..(e - b + 1) : x[i] = data[b + i - 1]
    BY <1>1, <1>3, <1>2, SubSeqProperties
  <2> QED
    BY <1>2, <2>1
<1>5. PICK y : y = [i \in 1..m |-> data[a + i]]
  OBVIOUS
<1>6. y \in Seq(S) /\ Len(y) = m /\ \A i \in 1..m : y[i] = data[a + i]
  BY <1>1, <1>5
<1>7. x = y
  BY <1>4, <1>6, SeqEqual
<1> QED
  BY <1>3, <1>5, <1>7, <1>2, Zenon

(* Data in groups of g, and one of the rest.                                *)
IsGrouped(gs, data, g, full, rest) ==
  /\ DOMAIN gs = 1..(full + (IF rest = 0 THEN 0 ELSE 1))
  /\ \A k \in 1..full : gs[k] = [i \in 1..g |-> data[(k - 1) * g + i]]
  /\ rest # 0 => gs[full + 1] = [i \in 1..rest |-> data[full * g + i]]

LEMMA Grouped ==
  ASSUME NEW S, NEW data \in Seq(S), NEW g \in 1..3
  PROVE  \E full \in Nat, rest \in 0..(g - 1) :
           Len(data) = full * g + rest /\ IsGrouped(Groups(data, g), data, g, full, rest)
<1>1. PICK full \in Nat, rest \in 0..(g - 1) : Len(data) = full * g + rest
  <2>1. PICK z \in Nat : z = Len(data)
    OBVIOUS
  <2>2. z \div g \in Nat /\ z % g \in 0..(g - 1) /\ z = (z \div g) * g + (z % g)
    <3>1. g = 1 \/ g = 2 \/ g = 3
      OBVIOUS
    <3> QED
      BY <3>1
  <2> QED
    BY <2>1, <2>2
<1>2. PICK n \in Nat : n = full + (IF rest = 0 THEN 0 ELSE 1)
  OBVIOUS
<1>3. CeilDiv(Len(data), g) = n
  <2>1. (full * g + rest + g - 1) \div g = n
    BY <1>2
  <2> QED
    BY <1>1, <2>1, Zenon DEF CeilDiv, Counts!CeilDiv
<1>4. Groups(data, g) = [k \in 1..n |-> SubSeq(data, (k - 1) * g + 1, IF k * g < Len(data) THEN k * g ELSE Len(data))]
  BY <1>3, Zenon DEF Groups
<1>5. ASSUME NEW k \in 1..full
      PROVE  Groups(data, g)[k] = [i \in 1..g |-> data[(k - 1) * g + i]]
  <2>1. PICK a \in Nat : a = (k - 1) * g /\ a + g = k * g /\ a + g <= Len(data)
    <3>1. (k - 1) * g \in Nat /\ (k - 1) * g + g = k * g /\ k * g <= full * g
      <4>1. g = 1 \/ g = 2 \/ g = 3
        OBVIOUS
      <4> QED
        BY <4>1
    <3> QED
      BY <1>1, <3>1
  <2>2. (IF k * g < Len(data) THEN k * g ELSE Len(data)) = a + g
    BY <2>1
  <2>3. Groups(data, g)[k] = SubSeq(data, (k - 1) * g + 1, IF k * g < Len(data) THEN k * g ELSE Len(data))
    <3>1. k \in 1..n
      BY <1>2
    <3> QED
      BY <1>4, <3>1, Zenon
  <2>4. SubSeq(data, a + 1, a + g) = [i \in 1..g |-> data[a + i]]
    BY <2>1, CutOut
  <2> QED
    BY <2>1, <2>2, <2>3, <2>4, Zenon
<1>6. ASSUME rest # 0
      PROVE  Groups(data, g)[full + 1] = [i \in 1..rest |-> data[full * g + i]]
  <2>1. PICK a \in Nat : a = full * g
    OBVIOUS
  <2>2. (full + 1) - 1 = full /\ ~ ((full + 1) * g < Len(data)) /\ full + 1 \in 1..n /\ a + rest = Len(data)
    <3>1. g = 1 \/ g = 2 \/ g = 3
      OBVIOUS
    <3> QED
      BY <1>2, <1>6, <1>1, <2>1, <3>1
  <2>3. Groups(data, g)[full + 1] = SubSeq(data, a + 1, a + rest)
    BY <1>4, <2>1, <2>2, Zenon
  <2>4. SubSeq(data, a + 1, a + rest) = [i \in 1..rest |-> data[a + i]]
    BY <2>2, CutOut
  <2> QED
    BY <2>1, <2>3, <2>4, Zenon
<1>7. DOMAIN Groups(data, g) = 1..n
  BY <1>4
<1>8. IsGrouped(Groups(data, g), data, g, full, rest)
  BY <1>2, <1>5, <1>6, <1>7, Zenon DEF IsGrouped
<1> QED
  BY <1>1, <1>8

(* A group's number as bits.                                                *)
LEMMA GroupCode ==
  ASSUME NEW mode, NEW n, NEW code, NEW data, NEW from, NEW m, IsGroup(mode, n, code, data, from, m)
  PROVE  code \in Seq(Binary)
<1>1. PICK w \in 0..24 : w = GroupBits(mode, n)
  BY Zenon DEF IsGroup
<1>2. PICK v \in Nat : code = appendNum(w, v)
  BY <1>1, Zenon DEF IsGroup
<1> QED
  BY <1>2, Appended

(* The codes of a text are those of the groups of its data.                 *)
HasGroups(mode, text, data, u, full, rest) ==
  /\ \A k \in 1..full : IsGroup(mode, GroupSize(mode), text[k], data, (k - 1) * u, u)
  /\ rest # 0 => IsGroup(mode, rest, text[full + 1], data, full * u, rest)

LEMMA TextMade ==
  ASSUME NEW mode, NEW S, NEW data \in Seq(S), NEW u \in Nat \ {0}, NEW full \in Nat, NEW rest \in Nat,
         Len(data) = full * u + rest, NEW text, NEW n \in Nat, n = full + (IF rest = 0 THEN 0 ELSE 1),
         text = [k \in 1..n |-> text[k]],
         HasGroups(mode, text, data, u, full, rest)
  PROVE  IsText(mode, data, u, full, rest, text)
<1>1. ASSUME NEW k \in 1..n PROVE text[k] \in Seq(Binary)
  <2>1. CASE k \in 1..full
    BY <2>1, GroupCode DEF HasGroups
  <2>2. CASE rest # 0 /\ k = full + 1
    BY <2>2, GroupCode DEF HasGroups
  <2> QED
    BY <2>1, <2>2
<1>2. text \in Seq(Seq(Binary)) /\ Len(text) = n
  <2>1. text \in [1..n -> Seq(Binary)]
    BY <1>1, Zenon
  <2> QED
    BY <2>1
<1> QED
  BY <1>2, Zenon DEF IsText, HasGroups

LEMMA DigitGroup ==
  ASSUME NEW data \in Seq(48..57), NEW from \in Nat, NEW n \in 1..3, from + n <= Len(data),
         NEW g, g = [i \in 1..n |-> data[from + i]]
  PROVE  IsGroup("NUM", n, appendNum(<<4, 7, 10>>[Len(g)], NumValue(g)), data, from, n)
<1>1. \A i \in 1..n : data[from + i] \in 48..57
  OBVIOUS
<1>2. g \in [1..n -> 48..57]
  BY <1>1
<1>3. Len(g) = n
  OBVIOUS
<1>4. GroupBits("NUM", n) = <<4, 7, 10>>[n] /\ <<4, 7, 10>>[n] \in 0..24
  <2>1. GroupBits("NUM", n) = <<4, 7, 10>>[n]
    BY Zenon DEF GroupBits
  <2>2. n = 1 \/ n = 2 \/ n = 3
    OBVIOUS
  <2> QED
    BY <2>1, <2>2
<1>5. [i \in 1..n |-> g[i]] = [i \in 1..n |-> data[from + i]]
  OBVIOUS
<1>6. PICK v \in Nat : v = NumValue(g) /\ v < Power(<<4, 7, 10>>[n]) /\ GroupText("NUM", n, v) = [i \in 1..n |-> g[i]]
  BY <1>2, DigitsSaid, Zenon
<1> QED
  BY <1>3, <1>4, <1>5, <1>6, Zenon DEF IsGroup

LEMMA CharacterGroup ==
  ASSUME NEW data \in Seq(Alnum), NEW from \in Nat, NEW n \in 1..2, from + n <= Len(data),
         NEW g, g = [i \in 1..n |-> data[from + i]]
  PROVE  IsGroup("AN", n, appendNum(<<6, 11>>[Len(g)], AnValue(g)), data, from, n)
<1>1. \A i \in 1..n : data[from + i] \in Alnum
  OBVIOUS
<1>2. g \in [1..n -> Alnum]
  BY <1>1
<1>3. Len(g) = n
  OBVIOUS
<1>4. GroupBits("AN", n) = <<6, 11>>[n] /\ <<6, 11>>[n] \in 0..24
  <2>1. GroupBits("AN", n) = <<6, 11>>[n]
    BY SMT DEF GroupBits
  <2>2. n = 1 \/ n = 2
    OBVIOUS
  <2> QED
    BY <2>1, <2>2
<1>5. [i \in 1..n |-> g[i]] = [i \in 1..n |-> data[from + i]]
  OBVIOUS
<1>6. PICK v \in Nat : v = AnValue(g) /\ v < Power(<<6, 11>>[n]) /\ GroupText("AN", n, v) = [i \in 1..n |-> g[i]]
  BY <1>2, CharactersSaid, Zenon
<1> QED
  BY <1>3, <1>4, <1>5, <1>6, Zenon DEF IsGroup

LEMMA ByteGroup ==
  ASSUME NEW data \in Seq(0..255), NEW k \in 1..Len(data)
  PROVE  IsGroup("B8", 1, appendNum(8, data[k]), data, (k - 1) * 1, 1)
<1>1. PICK v \in 0..255 : v = data[k]
  <2>1. data[k] \in 0..255
    BY ElementOfSeq
  <2> QED
    BY <2>1
<1>2. v \in Nat /\ v < Power(8)
  <2>1. v \in Nat /\ v < 256
    OBVIOUS
  <2> QED
    BY <2>1, PowerValues
<1>3. GroupBits("B8", 1) = 8 /\ GroupText("B8", 1, v) = <<v>> /\ 8 \in 0..24
  BY DEF GroupBits, GroupText
<1>4. <<v>> = [i \in 1..1 |-> data[(k - 1) * 1 + i]]
  BY <1>1
<1> QED
  BY <1>1, <1>3, <1>4, <1>2, Zenon DEF IsGroup

LEMMA KanjiGroup ==
  ASSUME NEW data \in Seq(Nat), NEW full \in Nat, Len(data) = full * 2, NEW k \in 1..full,
         IsKanji(data[2 * k - 1], data[2 * k]),
         NEW g, g = [i \in 1..2 |-> data[(k - 1) * 2 + i]]
  PROVE  IsGroup("KANJI", 1, appendNum(13, KanjiValue(g[1], g[2])), data, (k - 1) * 2, 2)
<1>1. PICK hi \in Nat, lo \in Nat : hi = data[2 * k - 1] /\ lo = data[2 * k]
  <2>1. 2 * k - 1 \in 1..Len(data) /\ 2 * k \in 1..Len(data)
    OBVIOUS
  <2> QED
    BY <2>1
<1>2. g[1] = hi /\ g[2] = lo
  <2>1. (k - 1) * 2 + 1 = 2 * k - 1 /\ (k - 1) * 2 + 2 = 2 * k
    OBVIOUS
  <2>2. g[1] = data[(k - 1) * 2 + 1] /\ g[2] = data[(k - 1) * 2 + 2]
    OBVIOUS
  <2> QED
    BY <1>1, <2>1, <2>2, Zenon
<1>3. <<hi, lo>> = [i \in 1..2 |-> data[(k - 1) * 2 + i]]
  BY <1>2
<1>4. GroupBits("KANJI", 1) = 13 /\ 13 \in 0..24
  BY DEF GroupBits
<1>5. PICK v \in Nat : v = KanjiValue(hi, lo) /\ v < Power(13) /\ GroupText("KANJI", 1, v) = <<hi, lo>>
  BY <1>1, KanjiSaid, Zenon
<1> QED
  BY <1>2, <1>3, <1>4, <1>5, Zenon DEF IsGroup

(* The four encoders append such a text.                                    *)
LEMMA DigitsText ==
  ASSUME NEW c, c.mode = "NUM", NEW data \in Seq(48..57), c.data = data
  PROVE  IsTextOf("NUM", data, Len(data), Text(c))
<1>1. PICK gs : gs = Groups(data, 3)
  OBVIOUS
<1>2. PICK full \in Nat, rest \in 0..(3 - 1) : Len(data) = full * 3 + rest /\ IsGrouped(gs, data, 3, full, rest)
  <2>1. 3 \in 1..3
    OBVIOUS
  <2> QED
    BY <1>1, <2>1, Grouped
<1>3. PICK n \in Nat : n = full + (IF rest = 0 THEN 0 ELSE 1)
  OBVIOUS
<1>4. /\ DOMAIN gs = 1..n
      /\ \A k \in 1..full : gs[k] = [i \in 1..3 |-> data[(k - 1) * 3 + i]]
      /\ rest # 0 => gs[full + 1] = [i \in 1..rest |-> data[full * 3 + i]]
  BY <1>2, <1>3, Zenon DEF IsGrouped
<1>5. PICK text : text = Text(c)
  OBVIOUS
<1>6. text = [k \in DOMAIN gs |-> appendNum(<<4, 7, 10>>[Len(gs[k])], NumValue(gs[k]))]
  BY <1>1, <1>5, Zenon DEF Text
<1>7. text = [k \in 1..n |-> appendNum(<<4, 7, 10>>[Len(gs[k])], NumValue(gs[k]))]
  BY <1>4, <1>6, Zenon
<1>8. text = [k \in 1..n |-> text[k]] /\ \A k \in 1..n : text[k] = appendNum(<<4, 7, 10>>[Len(gs[k])], NumValue(gs[k]))
  BY <1>7, Zenon
<1>9. GroupSize("NUM") = 3 /\ GroupBits("NUM", 3) \in Nat
  BY DEF GroupSize, GroupBits
<1>10. ASSUME NEW k \in 1..full PROVE IsGroup("NUM", 3, text[k], data, (k - 1) * 3, 3)
  <2>1. PICK from \in Nat : from = (k - 1) * 3 /\ from + 3 <= Len(data)
    <3>1. (k - 1) * 3 \in Nat /\ (k - 1) * 3 + 3 <= Len(data)
      BY <1>2
    <3> QED
      BY <3>1
  <2>2. PICK g : g = gs[k]
    OBVIOUS
  <2>3. g = [i \in 1..3 |-> data[from + i]]
    BY <1>4, <2>1, <2>2, Zenon
  <2>4. 3 \in 1..3 /\ k \in 1..n
    BY <1>3
  <2>5. IsGroup("NUM", 3, appendNum(<<4, 7, 10>>[Len(g)], NumValue(g)), data, from, 3)
    BY <2>1, <2>3, <2>4, DigitGroup
  <2> QED
    BY <1>8, <2>1, <2>2, <2>4, <2>5, Zenon
<1>11. ASSUME rest # 0 PROVE IsGroup("NUM", rest, text[full + 1], data, full * 3, rest)
  <2>1. PICK from \in Nat : from = full * 3 /\ from + rest <= Len(data)
    <3>1. full * 3 \in Nat /\ full * 3 + rest <= Len(data)
      BY <1>2
    <3> QED
      BY <3>1
  <2>2. PICK g : g = gs[full + 1]
    OBVIOUS
  <2>3. g = [i \in 1..rest |-> data[from + i]]
    BY <1>4, <1>11, <2>1, <2>2, Zenon
  <2>4. rest \in 1..3 /\ full + 1 \in 1..n
    BY <1>3, <1>11
  <2>5. IsGroup("NUM", rest, appendNum(<<4, 7, 10>>[Len(g)], NumValue(g)), data, from, rest)
    BY <2>1, <2>3, <2>4, DigitGroup
  <2> QED
    BY <1>8, <2>1, <2>2, <2>4, <2>5, Zenon
<1>12. IsText("NUM", data, 3, full, rest, text)
  <2>1. 3 \in Nat \ {0} /\ rest \in Nat
    OBVIOUS
  <2>2. HasGroups("NUM", text, data, 3, full, rest)
    BY <1>9, <1>10, <1>11, Zenon DEF HasGroups
  <2> QED
    BY <1>2, <1>3, <1>8, <2>1, <2>2, TextMade
<1>13. 3 \in Nat \ {0} /\ 3 \in 1..3
  OBVIOUS
<1> QED
  BY <1>2, <1>5, <1>9, <1>12, <1>13, Zenon DEF IsTextOf

LEMMA CharactersText ==
  ASSUME NEW c, c.mode = "AN", NEW data \in Seq(Alnum), c.data = data
  PROVE  IsTextOf("AN", data, Len(data), Text(c))
<1>1. PICK gs : gs = Groups(data, 2)
  OBVIOUS
<1>2. PICK full \in Nat, rest \in 0..(2 - 1) : Len(data) = full * 2 + rest /\ IsGrouped(gs, data, 2, full, rest)
  <2>1. 2 \in 1..3
    OBVIOUS
  <2> QED
    BY <1>1, <2>1, Grouped
<1>3. PICK n \in Nat : n = full + (IF rest = 0 THEN 0 ELSE 1)
  OBVIOUS
<1>4. /\ DOMAIN gs = 1..n
      /\ \A k \in 1..full : gs[k] = [i \in 1..2 |-> data[(k - 1) * 2 + i]]
      /\ rest # 0 => gs[full + 1] = [i \in 1..rest |-> data[full * 2 + i]]
  BY <1>2, <1>3, Zenon DEF IsGrouped
<1>5. PICK text : text = Text(c)
  OBVIOUS
<1>6. text = [k \in DOMAIN gs |-> appendNum(<<6, 11>>[Len(gs[k])], AnValue(gs[k]))]
  BY <1>1, <1>5, Zenon DEF Text
<1>7. text = [k \in 1..n |-> appendNum(<<6, 11>>[Len(gs[k])], AnValue(gs[k]))]
  BY <1>4, <1>6, Zenon
<1>8. text = [k \in 1..n |-> text[k]] /\ \A k \in 1..n : text[k] = appendNum(<<6, 11>>[Len(gs[k])], AnValue(gs[k]))
  BY <1>7, Zenon
<1>9. GroupSize("AN") = 2 /\ GroupBits("AN", 2) \in Nat
  BY SMT DEF GroupSize, GroupBits
<1>10. ASSUME NEW k \in 1..full PROVE IsGroup("AN", 2, text[k], data, (k - 1) * 2, 2)
  <2>1. PICK from \in Nat : from = (k - 1) * 2 /\ from + 2 <= Len(data)
    <3>1. (k - 1) * 2 \in Nat /\ (k - 1) * 2 + 2 <= Len(data)
      BY <1>2
    <3> QED
      BY <3>1
  <2>2. PICK g : g = gs[k]
    OBVIOUS
  <2>3. g = [i \in 1..2 |-> data[from + i]]
    BY <1>4, <2>1, <2>2, Zenon
  <2>4. 2 \in 1..2 /\ k \in 1..n
    BY <1>3
  <2>5. IsGroup("AN", 2, appendNum(<<6, 11>>[Len(g)], AnValue(g)), data, from, 2)
    BY <2>1, <2>3, <2>4, CharacterGroup
  <2> QED
    BY <1>8, <2>1, <2>2, <2>4, <2>5, Zenon
<1>11. ASSUME rest # 0 PROVE IsGroup("AN", rest, text[full + 1], data, full * 2, rest)
  <2>1. PICK from \in Nat : from = full * 2 /\ from + rest <= Len(data)
    <3>1. full * 2 \in Nat /\ full * 2 + rest <= Len(data)
      BY <1>2
    <3> QED
      BY <3>1
  <2>2. PICK g : g = gs[full + 1]
    OBVIOUS
  <2>3. g = [i \in 1..rest |-> data[from + i]]
    BY <1>4, <1>11, <2>1, <2>2, Zenon
  <2>4. rest \in 1..2 /\ full + 1 \in 1..n
    BY <1>3, <1>11
  <2>5. IsGroup("AN", rest, appendNum(<<6, 11>>[Len(g)], AnValue(g)), data, from, rest)
    BY <2>1, <2>3, <2>4, CharacterGroup
  <2> QED
    BY <1>8, <2>1, <2>2, <2>4, <2>5, Zenon
<1>12. IsText("AN", data, 2, full, rest, text)
  <2>1. 2 \in Nat \ {0} /\ rest \in Nat
    OBVIOUS
  <2>2. HasGroups("AN", text, data, 2, full, rest)
    BY <1>9, <1>10, <1>11, Zenon DEF HasGroups
  <2> QED
    BY <1>2, <1>3, <1>8, <2>1, <2>2, TextMade
<1>13. 2 \in Nat \ {0} /\ 2 \in 1..3
  OBVIOUS
<1> QED
  BY <1>2, <1>5, <1>9, <1>12, <1>13, Zenon DEF IsTextOf

LEMMA BytesText ==
  ASSUME NEW c, c.mode = "B8", NEW data \in Seq(0..255), c.data = data
  PROVE  IsTextOf("B8", data, Len(data), Text(c))
<1>1. PICK n \in Nat : n = Len(data) /\ DOMAIN data = 1..n
  OBVIOUS
<1>2. PICK text : text = Text(c)
  OBVIOUS
<1>3. text = [k \in 1..n |-> appendNum(8, data[k])]
  BY <1>1, <1>2, Zenon DEF Text
<1>4. text = [k \in 1..n |-> text[k]] /\ \A k \in 1..n : text[k] = appendNum(8, data[k])
  BY <1>3, Zenon
<1>5. GroupSize("B8") = 1 /\ GroupBits("B8", 1) \in Nat
  BY DEF GroupSize, GroupBits
<1>6. \A k \in 1..n : IsGroup("B8", 1, text[k], data, (k - 1) * 1, 1)
  <2>1. ASSUME NEW k \in 1..n PROVE IsGroup("B8", 1, appendNum(8, data[k]), data, (k - 1) * 1, 1)
    BY <1>1, ByteGroup
  <2> QED
    BY <1>4, <2>1, Zenon
<1>7. HasGroups("B8", text, data, 1, n, 0)
  BY <1>5, <1>6, Zenon DEF HasGroups
<1>8. 1 \in Nat \ {0} /\ 1 \in 1..3 /\ 0 \in 0..(1 - 1) /\ 0 \in Nat /\ n = n * 1 + 0
      /\ n = n + (IF 0 = 0 THEN 0 ELSE 1) /\ Len(data) = n * 1 + 0
  BY <1>1
<1>9. IsText("B8", data, 1, n, 0, text)
  BY <1>4, <1>7, <1>8, TextMade
<1> QED
  BY <1>1, <1>2, <1>5, <1>8, <1>9, Zenon DEF IsTextOf

LEMMA KanjiText ==
  ASSUME NEW c, c.mode = "KANJI", NEW data \in Seq(Nat), c.data = data,
         NEW size \in Nat, Len(data) = size * 2,
         \A k \in 1..size : IsKanji(data[2 * k - 1], data[2 * k])
  PROVE  IsTextOf("KANJI", data, size, Text(c))
<1>1. PICK gs : gs = Groups(data, 2)
  OBVIOUS
<1>2. PICK full \in Nat, rest \in 0..(2 - 1) : Len(data) = full * 2 + rest /\ IsGrouped(gs, data, 2, full, rest)
  <2>1. 2 \in 1..3
    OBVIOUS
  <2> QED
    BY <1>1, <2>1, Grouped
<1>3. full = size /\ rest = 0
  <2>1. full * 2 + rest = size * 2
    BY <1>2, Zenon
  <2>2. full \in Nat /\ (rest = 0 \/ rest = 1)
    BY <1>2
  <2> QED
    BY <2>1, <2>2
<1>4. DOMAIN gs = 1..size
  <2>1. DOMAIN gs = 1..(full + (IF rest = 0 THEN 0 ELSE 1))
    BY <1>2, Zenon DEF IsGrouped
  <2> QED
    BY <1>3, <2>1
<1>5. \A k \in 1..size : gs[k] = [i \in 1..2 |-> data[(k - 1) * 2 + i]]
  BY <1>2, <1>3, Zenon DEF IsGrouped
<1>6. PICK text : text = Text(c)
  OBVIOUS
<1>7. text = [k \in DOMAIN gs |-> appendNum(13, KanjiValue(gs[k][1], gs[k][2]))]
  BY <1>1, <1>6, Zenon DEF Text
<1>8. text = [k \in 1..size |-> text[k]] /\ \A k \in 1..size : text[k] = appendNum(13, KanjiValue(gs[k][1], gs[k][2]))
  BY <1>4, <1>7, Zenon
<1>9. GroupSize("KANJI") = 1 /\ GroupBits("KANJI", 1) \in Nat
  BY DEF GroupSize, GroupBits
<1>10. \A k \in 1..size : IsGroup("KANJI", 1, text[k], data, (k - 1) * 2, 2)
  <2>1. ASSUME NEW k \in 1..size PROVE IsGroup("KANJI", 1, text[k], data, (k - 1) * 2, 2)
    <3>1. PICK g : g = gs[k]
      OBVIOUS
    <3>2. g = [i \in 1..2 |-> data[(k - 1) * 2 + i]]
      BY <1>5, <3>1, Zenon
    <3>3. IsGroup("KANJI", 1, appendNum(13, KanjiValue(g[1], g[2])), data, (k - 1) * 2, 2)
      BY <3>2, KanjiGroup
    <3> QED
      BY <1>8, <3>1, <3>3, Zenon
  <2> QED
    BY <2>1, Zenon
<1>11. HasGroups("KANJI", text, data, 2, size, 0)
  BY <1>9, <1>10, Zenon DEF HasGroups
<1>12. 2 \in Nat \ {0} /\ 1 \in 1..3 /\ 0 \in 0..(1 - 1) /\ 0 \in Nat /\ size = size * 1 + 0
       /\ size = size + (IF 0 = 0 THEN 0 ELSE 1) /\ Len(data) = size * 2 + 0
  OBVIOUS
<1>13. IsText("KANJI", data, 2, size, 0, text)
  BY <1>8, <1>11, <1>12, TextMade
<1> QED
  BY <1>6, <1>9, <1>12, <1>13, Zenon DEF IsTextOf

(* Mode indicators: their length and number.                                *)
IdBits(s)   == IF s.mqr THEN s.version - 1 ELSE 4
Id(s, mode) == IF s.mqr THEN MQRModeId[mode] ELSE ModeId[mode]
ModeTaken(s, mode) == s.mqr => s.version >= (CASE mode = "NUM" -> 1 [] mode = "B8" -> 3 [] OTHER -> 2)

LEMMA VersionRange ==
  ASSUME NEW s \in Symbols
  PROVE  s.version \in Nat /\ (IF s.mqr THEN s.version \in 1..4 ELSE s.version \in 1..40)
BY SymbolsAssumption DEF MQRSPEC_VERSION_MAX, QRSPEC_VERSION_MAX

LEMMA MicroHead ==
  ASSUME NEW v \in 1..4, NEW mode \in Splittable, v >= (CASE mode = "NUM" -> 1 [] mode = "B8" -> 3 [] OTHER -> 2),
         MQRspec_lengthIndicator(mode, v) > 0
  PROVE  /\ MQRModeId[mode] \in 0..3 /\ MQRModeId[mode] < Power(v - 1)
         /\ <<"NUM", "AN", "B8", "KANJI">>[MQRModeId[mode] + 1] = mode
         /\ MQRspec_lengthIndicator(mode, v) \in 1..6 /\ v - 1 + MQRspec_lengthIndicator(mode, v) + 4 >= 2 * v + 1
         /\ MQRModeId[mode] = 0 => v - 1 + MQRspec_lengthIndicator(mode, v) = 2 * v + 1
<1>1. PICK l : l = MQRspec_lengthIndicator(mode, v)
  OBVIOUS
<1>2. CASE mode = "NUM"
  <2>1. MQRModeId[mode] = 0 /\ l = <<3, 4, 5, 6>>[v]
    BY <1>1, <1>2 DEF MQRModeId, MQRspec_lengthIndicator, MQRlengthTableBits
  <2>2. l = v + 2
    BY <2>1
  <2>3. 0 < Power(v - 1)
    BY PowerValues
  <2> QED
    BY <1>1, <1>2, <2>1, <2>2, <2>3
<1>3. CASE mode = "AN"
  <2>1. MQRModeId[mode] = 1 /\ l = <<0, 3, 4, 5>>[v] /\ v >= 2
    BY <1>1, <1>3 DEF MQRModeId, MQRspec_lengthIndicator, MQRlengthTableBits
  <2>2. l = v + 1
    BY <2>1
  <2>3. 1 < Power(v - 1)
    BY <2>1, PowerValues
  <2> QED
    BY <1>1, <1>3, <2>1, <2>2, <2>3
<1>4. CASE mode = "B8"
  <2>1. MQRModeId[mode] = 2 /\ l = <<0, 0, 4, 5>>[v] /\ v >= 3
    BY <1>1, <1>4 DEF MQRModeId, MQRspec_lengthIndicator, MQRlengthTableBits
  <2>2. l = v + 1
    BY <2>1
  <2>3. 2 < Power(v - 1)
    BY <2>1, PowerValues
  <2> QED
    BY <1>1, <1>4, <2>1, <2>2, <2>3
<1>5. CASE mode = "KANJI"
  <2>1. MQRModeId[mode] = 3 /\ l = <<0, 0, 3, 4>>[v]
    BY <1>1, <1>5 DEF MQRModeId, MQRspec_lengthIndicator, MQRlengthTableBits
  <2>2. v >= 3 /\ l = v
    BY <1>1, <2>1
  <2>3. 3 < Power(v - 1)
    BY <2>2, PowerValues
  <2> QED
    BY <1>1, <1>5, <2>1, <2>2, <2>3
<1> QED
  BY <1>2, <1>3, <1>4, <1>5 DEF Splittable

LEMMA LargeHead ==
  ASSUME NEW v \in 1..40, NEW mode \in Splittable
  PROVE  /\ ModeId[mode] \in 1..8 /\ QRspec_lengthIndicator(mode, v) \in 1..16
<1>1. ModeId[mode] \in 1..8
  BY DEF ModeId, Splittable
<1>2. PICK g \in 1..3 : g = Group(v)
  BY DEF Group
<1>3. QRspec_lengthIndicator(mode, v) = lengthTableBits[mode][g]
  BY <1>2 DEF QRspec_lengthIndicator
<1>4. lengthTableBits[mode][g] \in 1..16
  <2>1. CASE mode = "NUM"
    <3>1. lengthTableBits[mode] = <<10, 12, 14>>
      BY <2>1 DEF lengthTableBits
    <3> QED
      BY <3>1
  <2>2. CASE mode = "AN"
    <3>1. lengthTableBits[mode] = << 9, 11, 13>>
      BY <2>2 DEF lengthTableBits
    <3> QED
      BY <3>1
  <2>3. CASE mode = "B8"
    <3>1. lengthTableBits[mode] = << 8, 16, 16>>
      BY <2>3 DEF lengthTableBits
    <3> QED
      BY <3>1
  <2>4. CASE mode = "KANJI"
    <3>1. lengthTableBits[mode] = << 8, 10, 12>>
      BY <2>4 DEF lengthTableBits
    <3> QED
      BY <3>1
  <2> QED
    BY <2>1, <2>2, <2>3, <2>4 DEF Splittable
<1> QED
  BY <1>1, <1>3, <1>4

(* The head of a text: its mode indicator says the mode, and either the mode*)
(* indicator or the length field differs from a terminator.                 *)
IsHead(s, mode, a, id, l) ==
  /\ a = IdBits(s) /\ id = Id(s, mode) /\ l = LengthIndicator(s, mode)
  /\ a \in 0..4 /\ id \in Nat /\ id < Power(a) /\ l \in 1..16
  /\ ModeOf(s, id) = mode
  /\ TerminatorBits(s) \in Nat /\ a <= TerminatorBits(s) /\ TerminatorBits(s) <= a + l + 4
  /\ id = 0 => a + l = TerminatorBits(s)

LEMMA HeadSays ==
  ASSUME NEW s \in Symbols, NEW mode \in Splittable, ModeTaken(s, mode), LengthIndicator(s, mode) > 0
  PROVE  \E a \in 0..4, id \in Nat, l \in 1..16 : IsHead(s, mode, a, id, l)
<1>1. PICK a, id, l : a = IdBits(s) /\ id = Id(s, mode) /\ l = LengthIndicator(s, mode)
  BY Zenon
<1>2. CASE s.mqr
  <2>1. PICK v \in 1..4 : v = s.version
    BY <1>2, VersionRange
  <2>2. a = v - 1 /\ id = MQRModeId[mode] /\ l = MQRspec_lengthIndicator(mode, v)
    BY <1>1, <1>2, <2>1, Zenon DEF IdBits, Id, LengthIndicator
  <2>3. v >= (CASE mode = "NUM" -> 1 [] mode = "B8" -> 3 [] OTHER -> 2)
    BY <1>2, <2>1, Zenon DEF ModeTaken
  <2>4. MQRspec_lengthIndicator(mode, v) > 0
    BY <1>1, <2>2, Zenon
  <2>5. /\ id \in 0..3 /\ id < Power(v - 1)
        /\ <<"NUM", "AN", "B8", "KANJI">>[id + 1] = mode
        /\ l \in 1..6 /\ v - 1 + l + 4 >= 2 * v + 1
        /\ id = 0 => v - 1 + l = 2 * v + 1
    BY <2>2, <2>3, <2>4, MicroHead, Zenon
  <2>6. ModeOf(s, id) = mode
    BY <1>2, <2>5, Zenon DEF ModeOf
  <2>7. TerminatorBits(s) = 2 * v + 1
    BY <1>2, <2>1 DEF TerminatorBits
  <2>8. a \in 0..4 /\ id \in Nat /\ l \in 1..16 /\ TerminatorBits(s) \in Nat /\ a <= TerminatorBits(s)
        /\ TerminatorBits(s) <= a + l + 4 /\ (id = 0 => a + l = TerminatorBits(s))
    BY <2>2, <2>5, <2>7
  <2>9. id < Power(a)
    BY <2>2, <2>5, Zenon
  <2>10. IsHead(s, mode, a, id, l)
    BY <1>1, <2>6, <2>8, <2>9 DEF IsHead
  <2> QED
    BY <2>8, <2>10
<1>3. CASE ~ s.mqr
  <2>1. PICK v \in 1..40 : v = s.version
    BY <1>3, VersionRange
  <2>2. a = 4 /\ id = ModeId[mode] /\ l = QRspec_lengthIndicator(mode, v)
    BY <1>1, <1>3, <2>1, Zenon DEF IdBits, Id, LengthIndicator
  <2>3. id \in 1..8 /\ l \in 1..16
    BY <2>2, LargeHead, Zenon
  <2>4. ModeOf(s, id) = mode
    BY <1>3, <2>2 DEF ModeOf, ModeId, Splittable
  <2>5. TerminatorBits(s) = 4
    BY <1>3 DEF TerminatorBits
  <2>6. a \in 0..4 /\ id \in Nat /\ l \in 1..16 /\ TerminatorBits(s) \in Nat /\ a <= TerminatorBits(s)
        /\ TerminatorBits(s) <= a + l + 4 /\ (id = 0 => a + l = TerminatorBits(s))
    BY <2>2, <2>3, <2>5
  <2>7. id < Power(a)
    BY <2>2, <2>3, PowerValues
  <2>8. IsHead(s, mode, a, id, l)
    BY <1>1, <2>4, <2>6, <2>7 DEF IsHead
  <2> QED
    BY <2>6, <2>8
<1> QED
  BY <1>2, <1>3

(* A text takes four bits at least.                                         *)
LEMMA GroupLength ==
  ASSUME NEW mode \in Splittable, NEW n \in 1..GroupSize(mode), NEW code, NEW data, NEW from, NEW m,
         IsGroup(mode, n, code, data, from, m)
  PROVE  Len(code) >= 4
<1>1. PICK w \in 0..24 : w = GroupBits(mode, n)
  BY Zenon DEF IsGroup
<1>2. PICK v \in Nat : code = appendNum(w, v)
  BY <1>1, Zenon DEF IsGroup
<1>3. Len(code) = w
  BY <1>2, Appended
<1>4. w >= 4
  <2>1. CASE mode = "NUM"
    <3>1. GroupBits(mode, n) = <<4, 7, 10>>[n] /\ GroupSize(mode) = 3
      BY <2>1, SMT DEF GroupBits, GroupSize
    <3> QED
      BY <1>1, <3>1
  <2>2. CASE mode = "AN"
    <3>1. GroupBits(mode, n) = <<6, 11>>[n] /\ GroupSize(mode) = 2
      BY <2>2, SMT DEF GroupBits, GroupSize
    <3> QED
      BY <1>1, <3>1
  <2>3. CASE mode = "B8" \/ mode = "KANJI"
    BY <1>1, <2>3 DEF GroupBits
  <2> QED
    BY <2>1, <2>2, <2>3 DEF Splittable
<1> QED
  BY <1>3, <1>4

LEMMA TextLength ==
  ASSUME NEW mode \in Splittable, NEW data, NEW count \in Nat \ {0}, NEW text, IsTextOf(mode, data, count, text)
  PROVE  FlattenSeq(text) \in Seq(Binary) /\ Len(FlattenSeq(text)) >= 4
<1>1. PICK u \in Nat \ {0}, g \in 1..3 : \E full \in Nat, rest \in 0..(g - 1) :
        /\ g = GroupSize(mode) /\ GroupBits(mode, g) \in Nat
        /\ count = full * g + rest /\ IsText(mode, data, u, full, rest, text)
  BY Zenon DEF IsTextOf
<1>2. PICK full \in Nat, rest \in 0..(g - 1) :
        /\ g = GroupSize(mode) /\ GroupBits(mode, g) \in Nat
        /\ count = full * g + rest /\ IsText(mode, data, u, full, rest, text)
  BY <1>1, Zenon
<1>3. text \in Seq(Seq(Binary)) /\ Len(text) = full + (IF rest = 0 THEN 0 ELSE 1)
  BY <1>2, Zenon DEF IsText
<1>4. PICK F : F = FlattenSeq(text)
  OBVIOUS
<1>5. F \in Seq(Binary) /\ \E off : IsFlat(F, text, off)
  BY <1>3, <1>4, Flat
<1>6. PICK off : IsFlat(F, text, off)
  BY <1>5, Zenon
<1>7. 1 \in 1..Len(text) /\ Len(text[1]) >= 4
  <2>1. CASE full = 0
    <3>1. rest # 0
      BY <1>2, <2>1
    <3>2. rest \in 1..g /\ full + 1 = 1
      BY <2>1, <3>1
    <3>3. IsGroup(mode, rest, text[1], data, full * u, rest)
      BY <1>2, <3>1, <3>2, Zenon DEF IsText
    <3>4. Len(text[1]) >= 4
      BY <1>2, <3>2, <3>3, GroupLength
    <3> QED
      BY <1>3, <2>1, <3>1, <3>4
  <2>2. CASE full # 0
    <3>1. 1 \in 1..full /\ g \in 1..g
      BY <2>2
    <3>2. IsGroup(mode, g, text[1], data, (1 - 1) * u, u)
      BY <1>2, <3>1, Zenon DEF IsText
    <3>3. Len(text[1]) >= 4
      BY <1>2, <3>1, <3>2, GroupLength
    <3> QED
      BY <1>3, <2>2, <3>3
  <2> QED
    BY <2>1, <2>2
<1>8. off[1] = off[1 - 1] + Len(text[1]) /\ off[1] <= Len(F) /\ off[0] = 0
  BY <1>6, <1>7, Zenon DEF IsFlat
<1>9. Len(text[1]) \in Nat /\ Len(F) \in Nat
  <2>1. text[1] \in Seq(Binary)
    BY <1>3, <1>7
  <2> QED
    BY <1>5, <2>1
<1>10. off[1] = Len(text[1])
  <2>1. 1 - 1 = 0
    OBVIOUS
  <2>2. off[1] = 0 + Len(text[1])
    BY <1>8, <2>1, Zenon
  <2> QED
    BY <1>9, <2>2
<1> QED
  BY <1>4, <1>5, <1>7, <1>8, <1>9, <1>10

(* What is put in for a chunk is read, and where a chunk starts there is no *)
(* terminator.                                                              *)
IsRead(s, bits, p, c, code) ==
  /\ ~ Terminated(s, bits, p)
  /\ ReadChunk(s, bits, p) = [chunk |-> c, next |-> p + Len(code)]

LEMMA NoTerminator ==
  ASSUME NEW s \in Symbols, TerminatorBits(s) \in Nat, NEW bits \in Seq(Binary),
         NEW p \in Nat \ {0}, p + TerminatorBits(s) <= Len(bits) + 1,
         NEW q \in Nat, NEW n \in Nat, q + n <= TerminatorBits(s), Number(bits, p + q, n) # 0
  PROVE  ~ Terminated(s, bits, p)
<1>1. PICK t \in Nat : t = TerminatorBits(s)
  OBVIOUS
<1>2. Terminated(s, bits, p) <=> Len(bits) + 1 - p < t \/ Number(bits, p, t) = 0
  BY <1>1, Zenon DEF Terminated, TerminatorBits
<1>3. ~ (Len(bits) + 1 - p < t)
  BY <1>1
<1>4. ASSUME Number(bits, p, t) = 0 PROVE FALSE
  <2>1. \A k \in 1..t : bits[p + k - 1] = 0
    BY <1>1, <1>4, NumberZero
  <2>2. PICK r \in Nat \ {0} : r = p + q
    OBVIOUS
  <2>3. \A k \in 1..n : bits[r + k - 1] = 0
    <3>1. ASSUME NEW k \in 1..n PROVE bits[r + k - 1] = 0
      <4>1. q + k \in 1..t /\ p + (q + k) - 1 = r + k - 1
        BY <1>1, <2>2
      <4>2. bits[p + (q + k) - 1] = 0
        BY <2>1, <4>1, Zenon
      <4> QED
        BY <4>1, <4>2, Zenon
    <3> QED
      BY <3>1
  <2>4. r + n <= Len(bits) + 1
    BY <1>1, <2>2
  <2>5. Number(bits, r, n) = 0
    BY <2>3, <2>4, NumberZero
  <2> QED
    BY <2>2, <2>5, Zenon
<1> QED
  BY <1>2, <1>3, <1>4

(* A chunk is its mode and its data.                                        *)
IsRecord(c) == c = [mode |-> c.mode, data |-> c.data]

(* Texts: what is appended for them, ...                                    *)
CharactersOf(c) == IF c.mode = "KANJI" THEN Len(c.data) \div 2 ELSE Len(c.data)

LEMMA EncodedText ==
  ASSUME NEW s \in Symbols, NEW c, c.mode \in Splittable, NEW a \in 0..4, NEW id \in Nat, NEW l \in 1..16, IsHead(s, c.mode, a, id, l)
  PROVE  EncodeChunk(s, c) = (appendNum(a, id) \o appendNum(l, CharactersOf(c))) \o FlattenSeq(Text(c))
<1>1. c.mode # "STRUCTURE" /\ c.mode # "ECI" /\ c.mode # "FNC1SECOND"
  BY DEF Splittable
<1>2. EncodeChunk(s, c) = ChunkHead(s, c) \o FlattenSeq(Text(c))
  BY <1>1, Zenon DEF EncodeChunk
<1>3. a = IdBits(s) /\ id = Id(s, c.mode) /\ l = LengthIndicator(s, c.mode)
  BY Zenon DEF IsHead
<1>4. ChunkHead(s, c) = appendNum(a, id) \o appendNum(l, CharactersOf(c))
  <2>1. CASE s.mqr
    <3>1. a = s.version - 1 /\ id = MQRModeId[c.mode] /\ l = MQRspec_lengthIndicator(c.mode, s.version)
      BY <1>3, <2>1, Zenon DEF IdBits, Id, LengthIndicator
    <3> QED
      BY <2>1, <3>1, Zenon DEF ChunkHead, CharactersOf
  <2>2. CASE ~ s.mqr
    <3>1. a = 4 /\ id = ModeId[c.mode] /\ l = QRspec_lengthIndicator(c.mode, s.version)
      BY <1>3, <2>2, Zenon DEF IdBits, Id, LengthIndicator
    <3> QED
      BY <2>2, <3>1, Zenon DEF ChunkHead, CharactersOf
  <2> QED
    BY <2>1, <2>2
<1> QED
  BY <1>2, <1>4, Zenon

IsTextCode(s, c, a, id, l, count, x, y, z) ==
  /\ x = appendNum(a, id) /\ y = appendNum(l, count) /\ z = FlattenSeq(Text(c))
  /\ Len(x) = a /\ Len(y) = l /\ Len(z) >= 4
  /\ EncodeChunk(s, c) = (x \o y) \o z

LEMMA TextCode ==
  ASSUME NEW s \in Symbols, NEW c, c.mode \in Splittable, NEW a \in 0..4, NEW id \in Nat, NEW l \in 1..16, IsHead(s, c.mode, a, id, l),
         NEW count \in Nat \ {0}, count = CharactersOf(c), IsTextOf(c.mode, c.data, count, Text(c))
  PROVE  \E x \in Seq(Binary), y \in Seq(Binary), z \in Seq(Binary) : IsTextCode(s, c, a, id, l, count, x, y, z)
<1>1. a \in 0..24 /\ id \in Nat /\ l \in 0..24
  BY DEF IsHead
<1>2. PICK x \in Seq(Binary) : x = appendNum(a, id) /\ Len(x) = a
  BY <1>1, Appended
<1>3. PICK y \in Seq(Binary) : y = appendNum(l, count) /\ Len(y) = l
  BY <1>1, Appended
<1>4. PICK z \in Seq(Binary) : z = FlattenSeq(Text(c)) /\ Len(z) >= 4
  BY TextLength
<1>5. EncodeChunk(s, c) = (x \o y) \o z
  <2>1. EncodeChunk(s, c) = (appendNum(a, id) \o appendNum(l, CharactersOf(c))) \o FlattenSeq(Text(c))
    BY EncodedText, Zenon
  <2> QED
    BY <1>2, <1>3, <1>4, <2>1, Zenon
<1>6. IsTextCode(s, c, a, id, l, count, x, y, z)
  BY <1>2, <1>3, <1>4, <1>5, Zenon DEF IsTextCode
<1> QED
  BY <1>6, Zenon

(* ... and what is read.                                                    *)
LEMMA TextChunkRead ==
  ASSUME NEW s \in Symbols, NEW c, c.mode \in Splittable, NEW a \in 0..4, NEW id \in Nat, NEW l \in 1..16, IsHead(s, c.mode, a, id, l),
         NEW S, c.data \in Seq(S), IsRecord(c),
         NEW count \in Nat \ {0}, count = CharactersOf(c), IsTextOf(c.mode, c.data, count, Text(c)), count < Power(l),
         NEW bits \in Seq(Binary), NEW p \in Nat \ {0}, Lies(bits, p, EncodeChunk(s, c))
  PROVE  IsRead(s, bits, p, c, EncodeChunk(s, c))
<1>1. PICK x \in Seq(Binary), y \in Seq(Binary), z \in Seq(Binary) : IsTextCode(s, c, a, id, l, count, x, y, z)
  BY TextCode
<1>2. /\ x = appendNum(a, id) /\ y = appendNum(l, count) /\ z = FlattenSeq(Text(c))
      /\ Len(x) = a /\ Len(y) = l /\ Len(z) >= 4
      /\ EncodeChunk(s, c) = (x \o y) \o z
  BY <1>1, Zenon DEF IsTextCode
<1>3. a \in 0..4 /\ l \in 1..16
  BY Zenon DEF IsHead
<1>4. id \in Nat /\ id < Power(a) /\ ModeOf(s, id) = c.mode
  BY Zenon DEF IsHead
<1>5. PICK Z \in Nat, B \in Nat, t \in Nat : Z = Len(z) /\ B = Len(bits) /\ t = TerminatorBits(s)
  <2>1. TerminatorBits(s) \in Nat
    BY Zenon DEF IsHead
  <2>2. Len(z) \in Nat /\ Len(bits) \in Nat
    OBVIOUS
  <2> QED
    BY <2>1, <2>2, Zenon
<1>6. Z >= 4 /\ a <= t /\ t <= a + l + 4 /\ (id = 0 => a + l = t)
  BY <1>2, <1>5, Zenon DEF IsHead
<1>7. PICK h \in Seq(Binary) : h = x \o y /\ Len(h) = a + l
  <2>1. x \o y \in Seq(Binary) /\ Len(x \o y) = Len(x) + Len(y)
    OBVIOUS
  <2> QED
    BY <1>2, <2>1, Zenon
<1>8. PICK code \in Seq(Binary) : code = h \o z /\ Len(code) = a + l + Z /\ EncodeChunk(s, c) = code
  <2>1. h \o z \in Seq(Binary) /\ Len(h \o z) = Len(h) + Len(z)
    OBVIOUS
  <2>2. EncodeChunk(s, c) = h \o z
    BY <1>2, <1>7, Zenon
  <2> QED
    BY <1>7, <1>5, <2>1, <2>2, Zenon
<1>9. Lies(bits, p, code)
  BY <1>8
<1>10. Lies(bits, p, h) /\ Lies(bits, p + (a + l), z)
  <2>1. Lies(bits, p, h \o z)
    BY <1>8, <1>9, Zenon
  <2>2. Lies(bits, p, h) /\ Lies(bits, p + Len(h), z)
    BY <2>1, LiesJoined
  <2> QED
    BY <1>7, <2>2, Zenon
<1>11. Lies(bits, p, x) /\ Lies(bits, p + a, y)
  <2>1. Lies(bits, p, x \o y)
    BY <1>7, <1>10, Zenon
  <2>2. Lies(bits, p, x) /\ Lies(bits, p + Len(x), y)
    BY <2>1, LiesJoined
  <2> QED
    BY <1>2, <2>2, Zenon
<1>12. p \in Nat \ {0} /\ p + (a + l + Z) <= B + 1
  <2>1. p \in Nat \ {0} /\ p + Len(code) <= Len(bits) + 1
    BY <1>9, Zenon DEF Lies
  <2> QED
    BY <1>8, <1>5, <2>1, Zenon
<1>13. Number(bits, p, a) = id
  <2>1. a \in 0..24
    BY <1>3
  <2> QED
    BY <1>2, <1>11, <1>4, <2>1, NumberRead
<1>14. Number(bits, p + a, l) = count
  <2>1. l \in 0..24 /\ count \in Nat
    BY <1>3
  <2>2. PICK q : q = p + a
    OBVIOUS
  <2>3. Lies(bits, q, appendNum(l, count))
    BY <1>2, <1>11, <2>2
  <2>4. Number(bits, q, l) = count
    BY <2>1, <2>3, NumberRead
  <2> QED
    BY <2>2, <2>4
<1>15. ~ Terminated(s, bits, p)
  <2>1. p + t <= B + 1
    BY <1>3, <1>12, <1>6
  <2>2. p \in Nat \ {0} /\ TerminatorBits(s) \in Nat /\ p + TerminatorBits(s) <= Len(bits) + 1
    BY <1>3, <1>12, <1>5, <2>1, Zenon
  <2>3. CASE id = 0
    <3>1. a \in Nat /\ l \in Nat /\ a + l <= TerminatorBits(s)
      BY <1>3, <1>5, <1>6, <2>3
    <3>2. Number(bits, p + a, l) # 0
      BY <1>14
    <3> QED
      BY <2>2, <3>1, <3>2, NoTerminator
  <2>4. CASE id # 0
    <3>1. p + 0 = p /\ 0 \in Nat /\ a \in Nat /\ 0 + a <= TerminatorBits(s)
      BY <1>3, <1>12, <1>5, <1>6
    <3>2. Number(bits, p + 0, a) # 0
      BY <1>13, <2>4, <3>1, Zenon
    <3> QED
      BY <2>2, <3>1, <3>2, NoTerminator
  <2> QED
    BY <2>3, <2>4
<1>16. ReadChunk(s, bits, p) = TextChunk(bits, c.mode, count, p + a + l)
  <2>1. a = IdBits(s) /\ l = LengthIndicator(s, c.mode)
    BY Zenon DEF IsHead
  <2>2. (IF s.mqr THEN s.version - 1 ELSE 4) = a
    BY <2>1, Zenon DEF IdBits
  <2>3. l = IF s.mqr THEN MQRspec_lengthIndicator(c.mode, s.version) ELSE QRspec_lengthIndicator(c.mode, s.version)
    BY <2>1, Zenon DEF LengthIndicator
  <2>4. (IF a = 0 THEN 0 ELSE Number(bits, p, a)) = id
    <3>1. CASE a = 0
      <4>1. Power(0) = 1
        BY PowerValues
      <4> QED
        BY <1>4, <3>1, <4>1
    <3> QED
      BY <1>13, <3>1
  <2>5. ModeOf(s, IF a = 0 THEN 0 ELSE Number(bits, p, a)) = c.mode
    BY <1>4, <2>4, Zenon
  <2>6. c.mode # "UNREADABLE" /\ c.mode # "STRUCTURE" /\ c.mode # "ECI" /\ c.mode # "FNC1SECOND"
    BY DEF Splittable
  <2> QED
    BY <1>14, <2>2, <2>3, <2>5, <2>6, Zenon DEF ReadChunk
<1>17. TextChunk(bits, c.mode, count, p + a + l) = [chunk |-> c, next |-> p + Len(code)]
  <2>1. PICK q : q = p + a + l
    OBVIOUS
  <2>2. p + (a + l) = p + a + l /\ q + Z = p + (a + l + Z)
    BY <1>3, <1>12, <2>1
  <2>3. Lies(bits, q, FlattenSeq(Text(c)))
    BY <1>2, <1>10, <2>1, <2>2, Zenon
  <2>4. PICK data \in Seq(S) : data = c.data
    OBVIOUS
  <2>5. PICK mode, text : mode = c.mode /\ text = Text(c)
    BY Zenon
  <2>6. IsTextOf(mode, data, count, text) /\ Lies(bits, q, FlattenSeq(text))
    BY <2>3, <2>4, <2>5, Zenon
  <2>7. TextChunk(bits, mode, count, q) = [chunk |-> [mode |-> mode, data |-> data], next |-> q + Len(FlattenSeq(text))]
    BY <2>6, TextRead
  <2>8. TextChunk(bits, c.mode, count, q) = [chunk |-> c, next |-> q + Len(z)]
    BY <1>2, <2>4, <2>5, <2>7, Zenon DEF IsRecord
  <2> QED
    BY <1>8, <1>5, <2>1, <2>2, <2>8, Zenon
<1> QED
  BY <1>8, <1>15, <1>16, <1>17, Zenon DEF IsRead

(* Headers, of QR symbols only.                                             *)
LEMMA HeaderRead ==
  ASSUME NEW s \in Symbols, ~ s.mqr, NEW id \in {3, 7, 9}, NEW rest \in Seq(Binary),
         NEW bits \in Seq(Binary), NEW p \in Nat \ {0}, Lies(bits, p, appendNum(4, id) \o rest)
  PROVE  /\ Number(bits, p, 4) = id /\ ~ Terminated(s, bits, p) /\ Lies(bits, p + 4, rest)
<1>1. id \in Nat /\ 4 \in 0..24 /\ id < Power(4)
  <2>1. Power(4) = 16
    BY PowerValues
  <2> QED
    BY <2>1
<1>2. PICK x \in Seq(Binary) : x = appendNum(4, id) /\ Len(x) = 4
  BY <1>1, Appended
<1>3. Lies(bits, p, x) /\ Lies(bits, p + 4, rest)
  <2>1. Lies(bits, p, x \o rest)
    BY <1>2
  <2>2. Lies(bits, p, x) /\ Lies(bits, p + Len(x), rest)
    BY <2>1, LiesJoined
  <2> QED
    BY <1>2, <2>2, Zenon
<1>4. Number(bits, p, 4) = id
  BY <1>1, <1>2, <1>3, NumberRead
<1>5. TerminatorBits(s) = 4
  BY DEF TerminatorBits
<1>6. p + 4 <= Len(bits) + 1
  BY <1>2, <1>3 DEF Lies
<1>7. p + 0 = p /\ 0 \in Nat /\ 4 \in Nat /\ 0 + 4 <= TerminatorBits(s) /\ TerminatorBits(s) \in Nat
      /\ p + TerminatorBits(s) <= Len(bits) + 1
  BY <1>5, <1>6
<1>8. Number(bits, p + 0, 4) # 0
  BY <1>4, <1>7
<1>9. ~ Terminated(s, bits, p)
  BY <1>7, <1>8, NoTerminator
<1> QED
  BY <1>3, <1>4, <1>9

(* A header is its mode indicator and what follows it.                      *)
HeaderCode(id, rest) == appendNum(4, id) \o rest

LEMMA HeaderCodeType ==
  ASSUME NEW id \in Nat, NEW rest \in Seq(Binary)
  PROVE  HeaderCode(id, rest) \in Seq(Binary) /\ Len(HeaderCode(id, rest)) = 4 + Len(rest)
<1>1. PICK x \in Seq(Binary) : x = appendNum(4, id) /\ Len(x) = 4
  <2>1. 4 \in 0..24
    OBVIOUS
  <2>2. appendNum(4, id) \in Seq(Binary) /\ Len(appendNum(4, id)) = 4
    BY <2>1, Appended
  <2> QED
    BY <2>2, Zenon
<1>2. x \o rest \in Seq(Binary) /\ Len(x \o rest) = Len(x) + Len(rest)
  OBVIOUS
<1> QED
  BY <1>1, <1>2, Zenon DEF HeaderCode

LEMMA LiesTail ==
  ASSUME NEW bits \in Seq(Binary), NEW z \in Seq(Binary), NEW p, Lies(bits, p, z),
         NEW a \in Nat, NEW y \in Seq(Binary), Len(z) = a + Len(y), \A k \in 1..Len(y) : y[k] = z[a + k]
  PROVE  Lies(bits, p + a, y)
<1>1. PICK n \in Nat, B \in Nat : n = Len(y) /\ B = Len(bits) /\ Len(z) = a + n
  OBVIOUS
<1>2. p \in Nat \ {0} /\ p + (a + n) <= B + 1 /\ \A k \in 1..(a + n) : bits[p + k - 1] = z[k]
  BY <1>1, Zenon DEF Lies
<1>3. ASSUME NEW k \in 1..n PROVE bits[(p + a) + k - 1] = y[k]
  <2>1. a + k \in 1..(a + n) /\ p + (a + k) - 1 = (p + a) + k - 1
    BY <1>2
  <2>2. bits[p + (a + k) - 1] = z[a + k]
    BY <1>2, <2>1, Zenon
  <2>3. y[k] = z[a + k]
    BY <1>1, Zenon
  <2> QED
    BY <2>1, <2>2, <2>3, Zenon
<1>4. p + a \in Nat \ {0} /\ (p + a) + n <= B + 1
  BY <1>2
<1> QED
  BY <1>1, <1>3, <1>4, Zenon DEF Lies

(* The code of a chunk is read as the chunk wherever it lies.               *)
ReadsBack(s, c) ==
  /\ EncodeChunk(s, c) \in Seq(Binary) /\ Len(EncodeChunk(s, c)) >= 4
  /\ \A bits \in Seq(Binary), p \in Nat \ {0} :
       Lies(bits, p, EncodeChunk(s, c)) => IsRead(s, bits, p, c, EncodeChunk(s, c))

(* FNC1 in second position, structured append, and ECI.                     *)
LEMMA FNC1Read ==
  ASSUME NEW s \in Symbols, ~ s.mqr, NEW c, c.mode = "FNC1SECOND", NEW d \in 0..255, c.data = <<d>>, IsRecord(c)
  PROVE  ReadsBack(s, c)
<1>1. c.data[1] = d /\ d \in Nat /\ 8 \in 0..24
  OBVIOUS
<1>2. PICK rest \in Seq(Binary) : rest = appendNum(8, d) /\ Len(rest) = 8
  BY <1>1, Appended
<1>3. EncodeChunk(s, c) = HeaderCode(9, rest)
  BY <1>1, <1>2, SMT DEF EncodeChunk, HeaderCode, ModeId
<1>4. PICK code \in Seq(Binary) : code = EncodeChunk(s, c) /\ code = HeaderCode(9, rest) /\ Len(code) = 12
  <2>1. 9 \in Nat
    OBVIOUS
  <2>2. HeaderCode(9, rest) \in Seq(Binary) /\ Len(HeaderCode(9, rest)) = 4 + 8
    BY <1>2, <2>1, HeaderCodeType
  <2> QED
    BY <1>3, <2>2
<1>5. ASSUME NEW bits \in Seq(Binary), NEW p \in Nat \ {0}, Lies(bits, p, code)
      PROVE  IsRead(s, bits, p, c, code)
  <2>1. 9 \in {3, 7, 9} /\ Lies(bits, p, appendNum(4, 9) \o rest)
    BY <1>4, <1>5 DEF HeaderCode
  <2>2. Number(bits, p, 4) = 9 /\ ~ Terminated(s, bits, p) /\ Lies(bits, p + 4, rest)
    BY <2>1, HeaderRead
  <2>3. Number(bits, p + 4, 8) = d
    <3>1. PICK q : q = p + 4
      OBVIOUS
    <3>2. d < Power(8)
      <4>1. Power(8) = 256
        BY PowerValues
      <4> QED
        BY <4>1
    <3>3. Lies(bits, q, appendNum(8, d))
      BY <1>2, <2>2, <3>1
    <3>4. Number(bits, q, 8) = d
      BY <1>1, <3>2, <3>3, NumberRead
    <3> QED
      BY <3>1, <3>4
  <2>4. ModeOf(s, 9) = "FNC1SECOND"
    BY DEF ModeOf
  <2>5. ReadChunk(s, bits, p) = [chunk |-> [mode |-> "FNC1SECOND", data |-> <<d>>], next |-> p + 4 + 8]
    <3>1. 4 # 0
      OBVIOUS
    <3>2. (IF s.mqr THEN s.version - 1 ELSE 4) = 4
      OBVIOUS
    <3>3. ModeOf(s, IF 4 = 0 THEN 0 ELSE Number(bits, p, 4)) = "FNC1SECOND"
      BY <2>2, <2>4, <3>1, Zenon
    <3> QED
      BY <2>3, <3>2, <3>3, Zenon DEF ReadChunk
  <2>6. p + 4 + 8 = p + Len(code)
    <3>1. Len(code) = 12
      BY <1>4, Zenon
    <3>2. p + 4 + 8 = p + 12
      OBVIOUS
    <3> QED
      BY <3>1, <3>2, Zenon
  <2> QED
    BY <2>2, <2>5, <2>6, Zenon DEF IsRead, IsRecord
<1>6. Len(code) >= 4
  <2>1. Len(code) = 12
    BY <1>4, Zenon
  <2> QED
    BY <2>1
<1> QED
  BY <1>4, <1>5, <1>6, Zenon DEF ReadsBack

(* Joining three sequences.                                                 *)
Associative(a, b, c) == (a \o b) \o c = a \o (b \o c)

LEMMA Associates ==
  ASSUME NEW a \in Seq(Binary), NEW b \in Seq(Binary), NEW c \in Seq(Binary)
  PROVE  Associative(a, b, c)
<1>1. PICK ab \in Seq(Binary) : IsJoined(ab, a, b)
  BY Joined
<1>2. PICK bc \in Seq(Binary) : IsJoined(bc, b, c)
  BY Joined
<1>3. PICK x \in Seq(Binary) : IsJoined(x, ab, c)
  BY Joined
<1>4. PICK y \in Seq(Binary) : IsJoined(y, a, bc)
  BY Joined
<1>5. PICK k \in Nat, l \in Nat, m \in Nat : k = Len(a) /\ l = Len(b) /\ m = Len(c)
  OBVIOUS
<1>6. Len(ab) = k + l /\ Len(bc) = l + m /\ Len(x) = (k + l) + m /\ Len(y) = k + (l + m)
  BY <1>1, <1>2, <1>3, <1>4, <1>5, Zenon DEF IsJoined
<1>7. /\ \A i \in 1..k : ab[i] = a[i]
      /\ \A i \in 1..l : ab[k + i] = b[i] /\ bc[i] = b[i]
      /\ \A i \in 1..(k + l) : x[i] = ab[i]
      /\ \A i \in 1..m : x[(k + l) + i] = c[i] /\ bc[l + i] = c[i]
      /\ \A i \in 1..k : y[i] = a[i]
      /\ \A i \in 1..(l + m) : y[k + i] = bc[i]
  <2>1. (\A i \in 1..k : ab[i] = a[i]) /\ \A i \in 1..l : ab[k + i] = b[i]
    BY <1>1, <1>5, Zenon DEF IsJoined
  <2>2. (\A i \in 1..l : bc[i] = b[i]) /\ \A i \in 1..m : bc[l + i] = c[i]
    BY <1>2, <1>5, Zenon DEF IsJoined
  <2>3. (\A i \in 1..(k + l) : x[i] = ab[i]) /\ \A i \in 1..m : x[(k + l) + i] = c[i]
    BY <1>3, <1>5, <1>6, Zenon DEF IsJoined
  <2>4. (\A i \in 1..k : y[i] = a[i]) /\ \A i \in 1..(l + m) : y[k + i] = bc[i]
    BY <1>4, <1>5, <1>6, Zenon DEF IsJoined
  <2> QED
    BY <2>1, <2>2, <2>3, <2>4, Zenon
<1>8. ASSUME NEW i \in 1..((k + l) + m) PROVE x[i] = y[i]
  <2>1. CASE i <= k
    <3>1. i \in 1..k /\ i \in 1..(k + l)
      BY <2>1
    <3> QED
      BY <1>7, <3>1, Zenon
  <2>2. CASE i > k /\ i <= k + l
    <3>1. PICK n \in 1..l : i = k + n
      <4>1. i - k \in 1..l /\ i = k + (i - k)
        BY <2>2
      <4> QED
        BY <4>1, Zenon
    <3>2. i \in 1..(k + l) /\ n \in 1..(l + m)
      BY <2>2
    <3>3. x[i] = ab[i] /\ ab[k + n] = b[n]
      BY <1>7, <3>2, Zenon
    <3>4. y[k + n] = bc[n] /\ bc[n] = b[n]
      BY <1>7, <3>2, Zenon
    <3> QED
      BY <3>1, <3>3, <3>4, Zenon
  <2>3. CASE i > k + l
    <3>1. PICK n \in 1..m : i = (k + l) + n /\ i = k + (l + n) /\ l + n \in 1..(l + m)
      <4>1. /\ i - (k + l) \in 1..m /\ i = (k + l) + (i - (k + l)) /\ i = k + (l + (i - (k + l)))
            /\ l + (i - (k + l)) \in 1..(l + m)
        BY <2>3
      <4> QED
        BY <4>1, Zenon
    <3>2. x[(k + l) + n] = c[n] /\ bc[l + n] = c[n]
      BY <1>7, Zenon
    <3>3. y[k + (l + n)] = bc[l + n]
      BY <1>7, <3>1, Zenon
    <3> QED
      BY <3>1, <3>2, <3>3, Zenon
  <2> QED
    BY <2>1, <2>2, <2>3
<1>9. (k + l) + m = k + (l + m)
  OBVIOUS
<1>10. x = y
  <2>1. Len(x) = Len(y) /\ \A i \in 1..Len(x) : x[i] = y[i]
    BY <1>6, <1>8, <1>9, Zenon
  <2> QED
    BY <2>1, SeqEqual
<1> QED
  BY <1>1, <1>2, <1>3, <1>4, <1>10, Zenon DEF IsJoined, Associative

LEMMA StructureRead ==
  ASSUME NEW s \in Symbols, ~ s.mqr, NEW c, c.mode = "STRUCTURE",
         NEW n \in 1..16, NEW i \in 1..16, NEW d \in 0..255, c.data = <<n, i, d>>, IsRecord(c)
  PROVE  ReadsBack(s, c)
<1>1. PICK N \in Nat, I \in Nat : N = n - 1 /\ I = i - 1 /\ N < 16 /\ I < 16 /\ 1 + N = n /\ 1 + I = i
  <2>1. n - 1 \in Nat /\ i - 1 \in Nat /\ n - 1 < 16 /\ i - 1 < 16 /\ 1 + (n - 1) = n /\ 1 + (i - 1) = i
    OBVIOUS
  <2> QED
    BY <2>1
<1>2. d \in Nat /\ d < 256 /\ 8 \in 0..24 /\ 4 \in 0..24 /\ 3 \in Nat
  OBVIOUS
<1>3. PICK w \in Seq(Binary) : w = appendNum(4, 3) /\ Len(w) = 4
  BY <1>2, Appended
<1>4. PICK x \in Seq(Binary) : x = appendNum(4, I) /\ Len(x) = 4
  BY <1>2, Appended
<1>5. PICK y \in Seq(Binary) : y = appendNum(4, N) /\ Len(y) = 4
  BY <1>2, Appended
<1>6. PICK z \in Seq(Binary) : z = appendNum(8, d) /\ Len(z) = 8
  BY <1>2, Appended
<1>7. EncodeChunk(s, c) = ((w \o x) \o y) \o z
  <2>1. c.data[1] = n /\ c.data[2] = i /\ c.data[3] = d
    OBVIOUS
  <2>2. ModeId["STRUCTURE"] = 3
    BY DEF ModeId
  <2> QED
    BY <1>1, <1>3, <1>4, <1>5, <1>6, <2>1, <2>2, Zenon DEF EncodeChunk
<1>8. PICK xy \in Seq(Binary) : xy = x \o y /\ Len(xy) = 8
  <2>1. x \o y \in Seq(Binary) /\ Len(x \o y) = Len(x) + Len(y)
    OBVIOUS
  <2>2. Len(x) + Len(y) = 8
    <3>1. Len(x) = 4 /\ Len(y) = 4
      BY <1>4, <1>5, Zenon
    <3> QED
      BY <3>1
  <2> QED
    BY <2>1, <2>2, Zenon
<1>9. PICK rest \in Seq(Binary) : rest = xy \o z /\ Len(rest) = 16
  <2>1. xy \o z \in Seq(Binary) /\ Len(xy \o z) = Len(xy) + Len(z)
    OBVIOUS
  <2>2. Len(xy) + Len(z) = 16
    <3>1. Len(xy) = 8 /\ Len(z) = 8
      BY <1>6, <1>8, Zenon
    <3> QED
      BY <3>1
  <2> QED
    BY <2>1, <2>2, Zenon
<1>10. ((w \o x) \o y) \o z = w \o rest
  <2>1. w \o x \in Seq(Binary) /\ y \o z \in Seq(Binary)
    OBVIOUS
  <2>2. Associative(w \o x, y, z) /\ Associative(w, x, y \o z) /\ Associative(x, y, z)
    BY <2>1, Associates
  <2> QED
    BY <1>8, <1>9, <2>2, Zenon DEF Associative
<1>11. PICK code \in Seq(Binary) : code = EncodeChunk(s, c) /\ code = appendNum(4, 3) \o rest /\ Len(code) = 20
  <2>1. HeaderCode(3, rest) \in Seq(Binary) /\ Len(HeaderCode(3, rest)) = 4 + Len(rest)
    BY <1>2, HeaderCodeType
  <2>2. EncodeChunk(s, c) = HeaderCode(3, rest)
    BY <1>3, <1>7, <1>10, Zenon DEF HeaderCode
  <2>3. Len(HeaderCode(3, rest)) = 20
    <3>1. 4 + Len(rest) = 20
      BY <1>9
    <3> QED
      BY <2>1, <3>1, Zenon
  <2> QED
    BY <2>1, <2>2, <2>3, Zenon DEF HeaderCode
<1>12. ASSUME NEW bits \in Seq(Binary), NEW p \in Nat \ {0}, Lies(bits, p, code)
      PROVE  IsRead(s, bits, p, c, code)
  <2>1. 3 \in {3, 7, 9} /\ Lies(bits, p, appendNum(4, 3) \o rest)
    BY <1>11, <1>12
  <2>2. Number(bits, p, 4) = 3 /\ ~ Terminated(s, bits, p) /\ Lies(bits, p + 4, rest)
    BY <2>1, HeaderRead
  <2>3. PICK q \in Nat : q = p + 4
    OBVIOUS
  <2>4. Lies(bits, q, xy) /\ Lies(bits, q + 8, z)
    <3>1. Lies(bits, q, xy \o z)
      BY <1>9, <2>2, <2>3
    <3>2. Lies(bits, q, xy) /\ Lies(bits, q + Len(xy), z)
      BY <3>1, LiesJoined
    <3> QED
      BY <1>8, <3>2, Zenon
  <2>5. Lies(bits, q, x) /\ Lies(bits, q + 4, y)
    <3>1. Lies(bits, q, x \o y)
      BY <1>8, <2>4
    <3>2. Lies(bits, q, x) /\ Lies(bits, q + Len(x), y)
      BY <3>1, LiesJoined
    <3> QED
      BY <1>4, <3>2, Zenon
  <2>6. Power(4) = 16 /\ Power(8) = 256
    BY PowerValues
  <2>7. Number(bits, q, 4) = I
    <3>1. I < Power(4) /\ Lies(bits, q, appendNum(4, I))
      BY <1>1, <1>4, <2>5, <2>6, Zenon
    <3> QED
      BY <1>1, <1>2, <3>1, NumberRead
  <2>8. Number(bits, q + 4, 4) = N
    <3>1. PICK r : r = q + 4
      OBVIOUS
    <3>2. N < Power(4) /\ Lies(bits, r, appendNum(4, N))
      BY <1>1, <1>5, <2>5, <2>6, <3>1, Zenon
    <3>3. Number(bits, r, 4) = N
      BY <1>1, <1>2, <3>2, NumberRead
    <3> QED
      BY <3>1, <3>3, Zenon
  <2>9. Number(bits, q + 8, 8) = d
    <3>1. PICK r : r = q + 8
      OBVIOUS
    <3>2. d < Power(8) /\ Lies(bits, r, appendNum(8, d))
      BY <1>2, <1>6, <2>4, <2>6, <3>1, Zenon
    <3>3. Number(bits, r, 8) = d
      BY <1>1, <1>2, <3>2, NumberRead
    <3> QED
      BY <3>1, <3>3, Zenon
  <2>10. ModeOf(s, 3) = "STRUCTURE"
    BY DEF ModeOf
  <2>11. ReadChunk(s, bits, p) = [chunk |-> [mode |-> "STRUCTURE", data |-> <<1 + N, 1 + I, d>>], next |-> q + 16]
    <3>1. 4 # 0
      OBVIOUS
    <3>2. (IF s.mqr THEN s.version - 1 ELSE 4) = 4
      OBVIOUS
    <3>3. ModeOf(s, IF 4 = 0 THEN 0 ELSE Number(bits, p, 4)) = "STRUCTURE"
      BY <2>2, <2>10, <3>1, Zenon
    <3> QED
      BY <2>3, <2>7, <2>8, <2>9, <3>2, <3>3, Zenon DEF ReadChunk
  <2>12. q + 16 = p + Len(code)
    <3>1. Len(code) = 20
      BY <1>11, Zenon
    <3>2. q + 16 = p + 20
      BY <2>3
    <3> QED
      BY <3>1, <3>2, Zenon
  <2>13. [mode |-> "STRUCTURE", data |-> <<1 + N, 1 + I, d>>] = c
    BY <1>1, Zenon DEF IsRecord
  <2> QED
    BY <2>2, <2>11, <2>12, <2>13, Zenon DEF IsRead
<1>13. Len(code) >= 4
  <2>1. Len(code) = 20
    BY <1>11, Zenon
  <2> QED
    BY <2>1
<1> QED
  BY <1>11, <1>12, <1>13, Zenon DEF ReadsBack

(* The two forms of an ECI designator: the long one has its bits above those*)
(* of the number.                                                           *)
IsLong(e, v) == v = 32768 + e
Evenly(w, h) == 32768 = w * (2 * h)
Above(v, w, h, e) == v = w * (2 * h) + e

LEMMA BitAtPower ==
  ASSUME NEW v, NEW k PROVE BitAt(v, k) = (v \div Power(k)) % 2
BY Zenon DEF BitAt, Power

LEMMA LowBits ==
  ASSUME NEW w \in Nat \ {0}, NEW h \in Nat, NEW e \in Nat, NEW v \in Nat, Above(v, w, h, e)
  PROVE  (v \div w) % 2 = (e \div w) % 2
<1>1. PICK d \in Nat, r \in 0..(w - 1) : e = w * d + r /\ d = e \div w
  <2>1. e \in Nat /\ w > 0
    OBVIOUS
  <2> QED
    BY <2>1, Divided
<1>2. v = w * (2 * h + d) + r
  <2>1. w * (2 * h + d) = w * (2 * h) + w * d
    OBVIOUS
  <2>2. PICK a \in Nat, b \in Nat, z \in Nat : a = w * (2 * h) /\ b = w * d /\ z = w * (2 * h + d)
    OBVIOUS
  <2>3. v = a + e /\ e = b + r /\ z = a + b
    BY <1>1, <2>1, <2>2, Zenon DEF Above
  <2>4. v = z + r
    BY <2>2, <2>3
  <2> QED
    BY <2>2, <2>4, Zenon
<1>3. v \div w = 2 * h + d
  <2>1. 2 * h + d \in Nat
    OBVIOUS
  <2> QED
    BY <1>2, <2>1, DividedUniquely
<1>4. (2 * h + d) % 2 = d % 2
  OBVIOUS
<1> QED
  BY <1>1, <1>3, <1>4, Zenon

LEMMA LongAt ==
  ASSUME NEW w \in Nat \ {0}, NEW h \in Nat, Evenly(w, h), NEW e \in Nat, NEW v \in Nat, IsLong(e, v)
  PROVE  (v \div w) % 2 = (e \div w) % 2
<1>1. PICK a \in Nat : a = w * (2 * h)
  OBVIOUS
<1>2. v = a + e
  BY <1>1 DEF IsLong, Evenly
<1>3. Above(v, w, h, e)
  BY <1>1, <1>2, Zenon DEF Above
<1> QED
  BY <1>3, LowBits

LEMMA Quotient ==
  ASSUME NEW b \in Nat, NEW q \in Nat, NEW r \in Nat, r < b
  PROVE  (b * q + r) \div b = q
<1>1. r \in 0..(b - 1)
  OBVIOUS
<1> QED
  BY <1>1, DividedUniquely

(* A designator is a number.                                                *)
LEMMA DesignatorNat ==
  ASSUME NEW e \in Designators
  PROVE  e \in Nat /\ e \in Int /\ e <= 16383
BY DEF Designators

LEMMA LongHead ==
  ASSUME NEW e \in Designators, NEW v \in Nat, IsLong(e, v)
  PROVE  (v \div 32768) % 2 = 1 /\ (v \div 16384) % 2 = 0
<1>1. e \in Nat /\ e < 16384 /\ e < 32768 /\ v = 32768 * 1 + e /\ v = 16384 * 2 + e
  BY DesignatorNat DEF IsLong
<1>2. v \div 32768 = 1
  <2>1. 32768 \in Nat /\ 1 \in Nat
    OBVIOUS
  <2>2. (32768 * 1 + e) \div 32768 = 1
    BY <1>1, <2>1, Quotient
  <2> QED
    BY <1>1, <2>2
<1>3. v \div 16384 = 2
  <2>1. 16384 \in Nat /\ 2 \in Nat
    OBVIOUS
  <2>2. (16384 * 2 + e) \div 16384 = 2
    BY <1>1, <2>1, Quotient
  <2> QED
    BY <1>1, <2>2
<1> QED
  BY <1>2, <1>3

LEMMA DesignatorBits ==
  ASSUME NEW e \in Designators, NEW v \in Nat, IsLong(e, v)
  PROVE  BitAt(v, 15) = 1 /\ BitAt(v, 14) = 0 /\ \A m \in 0..13 : BitAt(v, m) = BitAt(e, m)
<1>1. e \in Nat
  BY DesignatorNat
<1>2. BitAt(v, 15) = (v \div Power(15)) % 2 /\ BitAt(v, 14) = (v \div Power(14)) % 2
  BY BitAtPower, Zenon
<1>3. BitAt(v, 15) = 1 /\ BitAt(v, 14) = 0
  <2>1. Power(15) = 32768 /\ Power(14) = 16384
    BY PowerValues
  <2>2. (v \div Power(15)) % 2 = 1 /\ (v \div Power(14)) % 2 = 0
    BY <2>1, LongHead
  <2> QED
    BY <1>2, <2>2, Zenon
<1>4. ASSUME NEW m \in 0..13 PROVE BitAt(v, m) = BitAt(e, m)
  <2>1. PICK w \in Nat \ {0}, h \in Nat : w = Power(m) /\ Evenly(w, h)
    <3>1. \/ m = 0 \/ m = 1 \/ m = 2 \/ m = 3 \/ m = 4 \/ m = 5 \/ m = 6
          \/ m = 7 \/ m = 8 \/ m = 9 \/ m = 10 \/ m = 11 \/ m = 12 \/ m = 13
      OBVIOUS
    <3>2. CASE m = 0
      <4>1. Power(0) = 1
        BY PowerValues
      <4>2. 1 \in Nat \ {0} /\ 16384 \in Nat /\ 1 = Power(m) /\ Evenly(1, 16384)
        BY <3>2, <4>1 DEF Evenly
      <4> QED
        BY <4>2
    <3>3. CASE m = 1
      <4>1. Power(1) = 2
        BY PowerValues
      <4>2. 2 \in Nat \ {0} /\ 8192 \in Nat /\ 2 = Power(m) /\ Evenly(2, 8192)
        BY <3>3, <4>1 DEF Evenly
      <4> QED
        BY <4>2
    <3>4. CASE m = 2
      <4>1. Power(2) = 4
        BY PowerValues
      <4>2. 4 \in Nat \ {0} /\ 4096 \in Nat /\ 4 = Power(m) /\ Evenly(4, 4096)
        BY <3>4, <4>1 DEF Evenly
      <4> QED
        BY <4>2
    <3>5. CASE m = 3
      <4>1. Power(3) = 8
        BY PowerValues
      <4>2. 8 \in Nat \ {0} /\ 2048 \in Nat /\ 8 = Power(m) /\ Evenly(8, 2048)
        BY <3>5, <4>1 DEF Evenly
      <4> QED
        BY <4>2
    <3>6. CASE m = 4
      <4>1. Power(4) = 16
        BY PowerValues
      <4>2. 16 \in Nat \ {0} /\ 1024 \in Nat /\ 16 = Power(m) /\ Evenly(16, 1024)
        BY <3>6, <4>1 DEF Evenly
      <4> QED
        BY <4>2
    <3>7. CASE m = 5
      <4>1. Power(5) = 32
        BY PowerValues
      <4>2. 32 \in Nat \ {0} /\ 512 \in Nat /\ 32 = Power(m) /\ Evenly(32, 512)
        BY <3>7, <4>1 DEF Evenly
      <4> QED
        BY <4>2
    <3>8. CASE m = 6
      <4>1. Power(6) = 64
        BY PowerValues
      <4>2. 64 \in Nat \ {0} /\ 256 \in Nat /\ 64 = Power(m) /\ Evenly(64, 256)
        BY <3>8, <4>1 DEF Evenly
      <4> QED
        BY <4>2
    <3>9. CASE m = 7
      <4>1. Power(7) = 128
        BY PowerValues
      <4>2. 128 \in Nat \ {0} /\ 128 \in Nat /\ 128 = Power(m) /\ Evenly(128, 128)
        BY <3>9, <4>1 DEF Evenly
      <4> QED
        BY <4>2
    <3>10. CASE m = 8
      <4>1. Power(8) = 256
        BY PowerValues
      <4>2. 256 \in Nat \ {0} /\ 64 \in Nat /\ 256 = Power(m) /\ Evenly(256, 64)
        BY <3>10, <4>1 DEF Evenly
      <4> QED
        BY <4>2
    <3>11. CASE m = 9
      <4>1. Power(9) = 512
        BY PowerValues
      <4>2. 512 \in Nat \ {0} /\ 32 \in Nat /\ 512 = Power(m) /\ Evenly(512, 32)
        BY <3>11, <4>1 DEF Evenly
      <4> QED
        BY <4>2
    <3>12. CASE m = 10
      <4>1. Power(10) = 1024
        BY PowerValues
      <4>2. 1024 \in Nat \ {0} /\ 16 \in Nat /\ 1024 = Power(m) /\ Evenly(1024, 16)
        BY <3>12, <4>1 DEF Evenly
      <4> QED
        BY <4>2
    <3>13. CASE m = 11
      <4>1. Power(11) = 2048
        BY PowerValues
      <4>2. 2048 \in Nat \ {0} /\ 8 \in Nat /\ 2048 = Power(m) /\ Evenly(2048, 8)
        BY <3>13, <4>1 DEF Evenly
      <4> QED
        BY <4>2
    <3>14. CASE m = 12
      <4>1. Power(12) = 4096
        BY PowerValues
      <4>2. 4096 \in Nat \ {0} /\ 4 \in Nat /\ 4096 = Power(m) /\ Evenly(4096, 4)
        BY <3>14, <4>1 DEF Evenly
      <4> QED
        BY <4>2
    <3>15. CASE m = 13
      <4>1. Power(13) = 8192
        BY PowerValues
      <4>2. 8192 \in Nat \ {0} /\ 2 \in Nat /\ 8192 = Power(m) /\ Evenly(8192, 2)
        BY <3>15, <4>1 DEF Evenly
      <4> QED
        BY <4>2
    <3> QED
      BY <3>1, <3>2, <3>3, <3>4, <3>5, <3>6, <3>7, <3>8, <3>9, <3>10, <3>11, <3>12, <3>13, <3>14, <3>15
  <2>2. BitAt(v, m) = (v \div w) % 2 /\ BitAt(e, m) = (e \div w) % 2
    BY <2>1, BitAtPower, Zenon
  <2>3. (v \div w) % 2 = (e \div w) % 2
    BY <1>1, <2>1, LongAt
  <2> QED
    BY <2>2, <2>3, Zenon
<1> QED
  BY <1>3, <1>4

LEMMA ShortDesignator ==
  ASSUME NEW e \in 0..127, NEW bits \in Seq(Binary), NEW q \in Nat \ {0}, Lies(bits, q, appendNum(8, e))
  PROVE  ECIBytes(bits, q) = 1 /\ Number(bits, q + 1, 7) = e
<1>1. e \in Nat /\ 8 \in 0..24 /\ 7 \in 0..24
  OBVIOUS
<1>2. PICK z \in Seq(Binary) : z = appendNum(8, e) /\ Len(z) = 8 /\ \A k \in 1..8 : z[k] = BitAt(e, 8 - k)
  BY <1>1, Appended
<1>3. PICK y \in Seq(Binary) : y = appendNum(7, e) /\ Len(y) = 7 /\ \A k \in 1..7 : y[k] = BitAt(e, 7 - k)
  BY <1>1, Appended
<1>4. \A k \in 1..7 : y[k] = z[1 + k]
  <2>1. ASSUME NEW k \in 1..7 PROVE y[k] = z[1 + k]
    <3>1. 1 + k \in 1..8 /\ 8 - (1 + k) = 7 - k
      OBVIOUS
    <3>2. z[1 + k] = BitAt(e, 8 - (1 + k))
      BY <1>2, <3>1, Zenon
    <3> QED
      BY <1>3, <3>1, <3>2, Zenon
  <2> QED
    BY <2>1
<1>5. Lies(bits, q + 1, y)
  <2>1. Len(z) = 1 + Len(y) /\ 1 \in Nat /\ \A k \in 1..Len(y) : y[k] = z[1 + k]
    <3>1. 8 = 1 + 7
      OBVIOUS
    <3> QED
      BY <1>2, <1>3, <1>4, <3>1, Zenon
  <2>2. Lies(bits, q, z)
    BY <1>2
  <2> QED
    BY <2>1, <2>2, LiesTail
<1>6. Number(bits, q + 1, 7) = e
  <2>1. PICK r : r = q + 1
    OBVIOUS
  <2>2. Power(7) = 128
    BY PowerValues
  <2>3. e < Power(7)
    BY <2>2
  <2>4. Number(bits, r, 7) = e
    BY <1>1, <1>3, <1>5, <2>1, <2>3, NumberRead
  <2> QED
    BY <2>1, <2>4
<1>7. bits[q] = 0
  <2>1. bits[q + 1 - 1] = z[1]
    BY <1>2 DEF Lies
  <2>2. z[1] = BitAt(e, 8 - 1)
    BY <1>2
  <2>3. BitAt(e, 7) = 0
    <3>1. PICK w : w = Power(7)
      OBVIOUS
    <3>2. BitAt(e, 7) = (e \div w) % 2
      BY <3>1, BitAtPower, Zenon
    <3>3. w = 128
      BY <3>1, PowerValues
    <3>4. (e \div 128) % 2 = 0
      <4>1. 128 \in Nat /\ 0 \in Nat /\ e < 128 /\ e = 128 * 0 + e
        OBVIOUS
      <4>2. (128 * 0 + e) \div 128 = 0
        BY <1>1, <4>1, Quotient
      <4> QED
        BY <4>1, <4>2
    <3> QED
      BY <3>2, <3>3, <3>4
  <2>4. q + 1 - 1 = q /\ 8 - 1 = 7
    OBVIOUS
  <2> QED
    BY <2>1, <2>2, <2>3, <2>4, Zenon
<1> QED
  BY <1>6, <1>7 DEF ECIBytes

LEMMA LongDesignator ==
  ASSUME NEW e \in Designators, NEW v \in Nat, IsLong(e, v),
         NEW bits \in Seq(Binary), NEW q \in Nat \ {0}, Lies(bits, q, appendNum(16, v))
  PROVE  ECIBytes(bits, q) = 2 /\ Number(bits, q + 2, 14) = e
<1>1. e \in Nat /\ 16 \in 0..24 /\ 14 \in 0..24
  BY DesignatorNat
<1>2. PICK z \in Seq(Binary) : z = appendNum(16, v) /\ Len(z) = 16 /\ \A k \in 1..16 : z[k] = BitAt(v, 16 - k)
  BY <1>1, Appended
<1>3. PICK y \in Seq(Binary) : y = appendNum(14, e) /\ Len(y) = 14 /\ \A k \in 1..14 : y[k] = BitAt(e, 14 - k)
  BY <1>1, Appended
<1>4. BitAt(v, 15) = 1 /\ BitAt(v, 14) = 0 /\ \A m \in 0..13 : BitAt(v, m) = BitAt(e, m)
  BY DesignatorBits
<1>5. \A k \in 1..14 : y[k] = z[2 + k]
  <2>1. ASSUME NEW k \in 1..14 PROVE y[k] = z[2 + k]
    <3>1. 2 + k \in 1..16 /\ 16 - (2 + k) = 14 - k /\ 14 - k \in 0..13
      OBVIOUS
    <3>2. z[2 + k] = BitAt(v, 16 - (2 + k))
      BY <1>2, <3>1, Zenon
    <3> QED
      BY <1>3, <1>4, <3>1, <3>2, Zenon
  <2> QED
    BY <2>1
<1>6. Lies(bits, q + 2, y)
  <2>1. Len(z) = 2 + Len(y) /\ 2 \in Nat /\ \A k \in 1..Len(y) : y[k] = z[2 + k]
    <3>1. 16 = 2 + 14
      OBVIOUS
    <3> QED
      BY <1>2, <1>3, <1>5, <3>1, Zenon
  <2>2. Lies(bits, q, z)
    BY <1>2
  <2> QED
    BY <2>1, <2>2, LiesTail
<1>7. Number(bits, q + 2, 14) = e
  <2>1. PICK r : r = q + 2
    OBVIOUS
  <2>2. e < Power(14)
    <3>1. Power(14) = 16384
      BY PowerValues
    <3>2. PICK w : w = Power(14)
      OBVIOUS
    <3>3. w = 16384 /\ e < 16384
      BY <3>1, <3>2, DesignatorNat
    <3>4. e < w
      BY <3>3
    <3> QED
      BY <3>2, <3>4
  <2>3. Number(bits, r, 14) = e
    BY <1>1, <1>3, <1>6, <2>1, <2>2, NumberRead
  <2> QED
    BY <2>1, <2>3
<1>8. bits[q] = 1 /\ bits[q + 1] = 0
  <2>1. \A k \in 1..16 : bits[q + k - 1] = z[k]
    BY <1>2, Zenon DEF Lies
  <2>2. 1 \in 1..16 /\ 2 \in 1..16 /\ q + 1 - 1 = q /\ q + 2 - 1 = q + 1 /\ 16 - 1 = 15 /\ 16 - 2 = 14
    OBVIOUS
  <2>3. bits[q] = z[1] /\ bits[q + 1] = z[2]
    BY <2>1, <2>2, Zenon
  <2>4. z[1] = BitAt(v, 15) /\ z[2] = BitAt(v, 14)
    BY <1>2, <2>2, Zenon
  <2> QED
    BY <1>4, <2>3, <2>4, Zenon
<1> QED
  BY <1>7, <1>8 DEF ECIBytes

(* An ECI header whose designator is read is read.                          *)
LEMMA ECIHeaderRead ==
  ASSUME NEW s \in Symbols, ~ s.mqr, NEW c, c.mode = "ECI", NEW e \in Nat, c.data = <<e>>, IsRecord(c),
         NEW n \in 1..2, NEW rest \in Seq(Binary), Len(rest) = 8 * n,
         QRinput_encodeModeECI(e) = HeaderCode(7, rest),
         \A bits \in Seq(Binary), q \in Nat \ {0} :
           Lies(bits, q, rest) => ECIBytes(bits, q) = n /\ Number(bits, q + n, 7 * n) = e
  PROVE  ReadsBack(s, c)
<1>1. c.data[1] = e
  OBVIOUS
<1>2. EncodeChunk(s, c) = HeaderCode(7, rest)
  BY <1>1, Zenon DEF EncodeChunk
<1>3. PICK code \in Seq(Binary) : code = EncodeChunk(s, c) /\ code = HeaderCode(7, rest) /\ Len(code) = 4 + 8 * n
  <2>1. 7 \in Nat
    OBVIOUS
  <2>2. HeaderCode(7, rest) \in Seq(Binary) /\ Len(HeaderCode(7, rest)) = 4 + Len(rest)
    BY <2>1, HeaderCodeType
  <2> QED
    BY <1>2, <2>2, Zenon
<1>4. ASSUME NEW bits \in Seq(Binary), NEW p \in Nat \ {0}, Lies(bits, p, code)
      PROVE  IsRead(s, bits, p, c, code)
  <2>1. 7 \in {3, 7, 9} /\ Lies(bits, p, appendNum(4, 7) \o rest)
    BY <1>3, <1>4 DEF HeaderCode
  <2>2. Number(bits, p, 4) = 7 /\ ~ Terminated(s, bits, p) /\ Lies(bits, p + 4, rest)
    BY <2>1, HeaderRead
  <2>3. ECIBytes(bits, p + 4) = n /\ Number(bits, (p + 4) + n, 7 * n) = e
    <3>1. p + 4 \in Nat \ {0}
      OBVIOUS
    <3> QED
      BY <2>2, <3>1, Zenon
  <2>4. ModeOf(s, 7) = "ECI"
    BY DEF ModeOf
  <2>5. ReadChunk(s, bits, p) = [chunk |-> [mode |-> "ECI", data |-> <<e>>], next |-> p + 4 + 8 * n]
    <3>1. 4 # 0
      OBVIOUS
    <3>2. (IF s.mqr THEN s.version - 1 ELSE 4) = 4
      OBVIOUS
    <3>3. ModeOf(s, IF 4 = 0 THEN 0 ELSE Number(bits, p, 4)) = "ECI"
      BY <2>2, <2>4, <3>1, Zenon
    <3> QED
      BY <2>3, <3>2, <3>3, Zenon DEF ReadChunk
  <2>6. p + 4 + 8 * n = p + Len(code)
    <3>1. Len(code) = 4 + 8 * n
      BY <1>3, Zenon
    <3>2. p + 4 + 8 * n = p + (4 + 8 * n)
      OBVIOUS
    <3> QED
      BY <3>1, <3>2, Zenon
  <2> QED
    BY <2>2, <2>5, <2>6, Zenon DEF IsRead, IsRecord
<1>5. Len(code) >= 4
  <2>1. PICK m \in Nat : m = 8 * n
    OBVIOUS
  <2>2. Len(code) = 4 + m
    BY <1>3, <2>1, Zenon
  <2> QED
    BY <2>2
<1> QED
  BY <1>3, <1>4, <1>5, Zenon DEF ReadsBack

LEMMA ECIRead ==
  ASSUME NEW s \in Symbols, ~ s.mqr, NEW c, c.mode = "ECI", NEW e \in Designators, c.data = <<e>>, IsRecord(c)
  PROVE  ReadsBack(s, c)
<1>1. e \in Nat
  BY DesignatorNat
<1>2. ModeId["ECI"] = 7
  BY DEF ModeId
<1>3. CASE e < 128
  <2>1. e \in 0..127 /\ 8 \in 0..24 /\ 1 \in 1..2 /\ 7 * 1 = 7 /\ 8 * 1 = 8
    BY <1>1, <1>3
  <2>2. PICK rest \in Seq(Binary) : rest = appendNum(8, e) /\ Len(rest) = 8 * 1
    <3>1. appendNum(8, e) \in Seq(Binary) /\ Len(appendNum(8, e)) = 8
      BY <1>1, <2>1, Appended
    <3> QED
      BY <2>1, <3>1, Zenon
  <2>3. QRinput_encodeModeECI(e) = HeaderCode(7, rest)
    BY <1>2, <1>3, <2>2 DEF QRinput_encodeModeECI, HeaderCode
  <2>4. ASSUME NEW bits \in Seq(Binary), NEW q \in Nat \ {0}, Lies(bits, q, rest)
        PROVE  ECIBytes(bits, q) = 1 /\ Number(bits, q + 1, 7 * 1) = e
    <3>1. Lies(bits, q, appendNum(8, e))
      BY <2>2, <2>4, Zenon
    <3>2. ECIBytes(bits, q) = 1 /\ Number(bits, q + 1, 7) = e
      BY <2>1, <3>1, ShortDesignator
    <3> QED
      BY <2>1, <3>2, Zenon
  <2> QED
    BY <1>1, <2>1, <2>2, <2>3, <2>4, ECIHeaderRead
<1>4. CASE ~ e < 128
  <2>1. 16 \in 0..24 /\ 2 \in 1..2 /\ 7 * 2 = 14 /\ 8 * 2 = 16
    OBVIOUS
  <2>2. PICK v \in Nat : v = \h8000 + e /\ IsLong(e, v)
    <3>1. \h8000 + e \in Nat /\ IsLong(e, \h8000 + e)
      BY <1>1 DEF IsLong
    <3> QED
      BY <3>1
  <2>3. PICK rest \in Seq(Binary) : rest = appendNum(16, v) /\ Len(rest) = 8 * 2
    <3>1. appendNum(16, v) \in Seq(Binary) /\ Len(appendNum(16, v)) = 16
      BY <2>1, Appended
    <3> QED
      BY <2>1, <3>1, Zenon
  <2>4. QRinput_encodeModeECI(e) = HeaderCode(7, rest)
    <3>1. e < 16384
      BY DesignatorNat
    <3> QED
      BY <1>2, <1>4, <2>2, <2>3, <3>1 DEF QRinput_encodeModeECI, HeaderCode
  <2>5. ASSUME NEW bits \in Seq(Binary), NEW q \in Nat \ {0}, Lies(bits, q, rest)
        PROVE  ECIBytes(bits, q) = 2 /\ Number(bits, q + 2, 7 * 2) = e
    <3>1. Lies(bits, q, appendNum(16, v))
      BY <2>3, <2>5
    <3>2. IsLong(e, v)
      BY <2>2
    <3>3. ECIBytes(bits, q) = 2 /\ Number(bits, q + 2, 14) = e
      BY <2>1, <3>1, <3>2, LongDesignator
    <3> QED
      BY <2>1, <3>3
  <2> QED
    BY <1>1, <2>1, <2>3, <2>4, <2>5, ECIHeaderRead
<1> QED
  BY <1>3, <1>4

(* The length fields.                                                       *)
LEMMA LengthIndicators ==
  ASSUME NEW s \in Symbols, NEW mode \in Splittable
  PROVE  LengthIndicator(s, mode) \in 0..16
<1>1. CASE s.mqr
  <2>1. PICK v \in 1..4 : v = s.version
    BY <1>1, VersionRange
  <2>2. PICK l : l = MQRspec_lengthIndicator(mode, v)
    OBVIOUS
  <2>3. l = MQRlengthTableBits[mode][v]
    BY <2>2, Zenon DEF MQRspec_lengthIndicator
  <2>4. MQRlengthTableBits[mode] \in {<<3, 4, 5, 6>>, <<0, 3, 4, 5>>, <<0, 0, 4, 5>>, <<0, 0, 3, 4>>}
    BY DEF MQRlengthTableBits, Splittable
  <2>5. l \in 0..16
    BY <2>3, <2>4
  <2> QED
    BY <1>1, <2>1, <2>2, <2>5, Zenon DEF LengthIndicator
<1>2. CASE ~ s.mqr
  <2>1. PICK v \in 1..40 : v = s.version
    BY <1>2, VersionRange
  <2>2. PICK l : l = QRspec_lengthIndicator(mode, v)
    OBVIOUS
  <2>3. l \in 1..16
    BY <2>2, LargeHead
  <2>4. l \in 0..16
    BY <2>3
  <2> QED
    BY <1>2, <2>1, <2>2, <2>4, Zenon DEF LengthIndicator
<1> QED
  BY <1>1, <1>2

(* What a length field counts, as a number of characters.                   *)
Counted(s, mode, n) == n \in 1..(2 ^ LengthIndicator(s, mode) - 1)

LEMMA CountedBelow ==
  ASSUME NEW s \in Symbols, NEW mode \in Splittable, NEW n, Counted(s, mode, n)
  PROVE  LengthIndicator(s, mode) \in 1..16 /\ n \in Nat \ {0} /\ n < Power(LengthIndicator(s, mode))
<1>1. PICK l \in 0..16 : l = LengthIndicator(s, mode)
  BY LengthIndicators
<1>2. PICK w \in Nat \ {0} : w = Power(l)
  <2>1. l \in 0..24
    OBVIOUS
  <2>2. 2 ^ l \in Nat \ {0}
    BY <2>1, PowerType
  <2> QED
    BY <2>2, Zenon DEF Power
<1>3. n \in 1..(w - 1)
  BY <1>1, <1>2, Zenon DEF Counted, Power
<1>4. l # 0
  <2>1. ASSUME l = 0 PROVE FALSE
    <3>1. Power(0) = 1
      BY PowerValues
    <3>2. w = 1
      BY <1>2, <2>1, <3>1, Zenon
    <3> QED
      BY <1>3, <3>2
  <2> QED
    BY <2>1
<1>5. l \in 1..16 /\ n \in Nat \ {0} /\ n < w
  BY <1>3, <1>4
<1> QED
  BY <1>1, <1>2, <1>5, Zenon

(* A text that its length field counts is read back.                        *)
LEMMA TextReadsBack ==
  ASSUME NEW s \in Symbols, NEW c, c.mode \in Splittable, ModeTaken(s, c.mode),
         NEW S, c.data \in Seq(S), IsRecord(c),
         NEW count, count = CharactersOf(c), Counted(s, c.mode, count), IsTextOf(c.mode, c.data, count, Text(c))
  PROVE  ReadsBack(s, c)
<1>1. PICK l : l = LengthIndicator(s, c.mode)
  OBVIOUS
<1>2. l \in 1..16 /\ count \in Nat \ {0} /\ count < Power(l)
  BY <1>1, CountedBelow
<1>3. LengthIndicator(s, c.mode) > 0
  BY <1>1, <1>2
<1>4. PICK a \in 0..4, id \in Nat, k \in 1..16 : IsHead(s, c.mode, a, id, k)
  BY <1>3, HeadSays
<1>5. k = l
  BY <1>1, <1>4, Zenon DEF IsHead
<1>6. count < Power(k)
  BY <1>2, <1>5, Zenon
<1>7. PICK x \in Seq(Binary), y \in Seq(Binary), z \in Seq(Binary) : IsTextCode(s, c, a, id, k, count, x, y, z)
  BY <1>2, <1>4, TextCode
<1>8. EncodeChunk(s, c) \in Seq(Binary) /\ Len(EncodeChunk(s, c)) >= 4
  <2>1. EncodeChunk(s, c) = (x \o y) \o z /\ Len(z) >= 4
    BY <1>7, Zenon DEF IsTextCode
  <2>2. PICK xy \in Seq(Binary) : xy = x \o y
    <3>1. x \o y \in Seq(Binary)
      OBVIOUS
    <3> QED
      BY <3>1, Zenon
  <2>3. xy \o z \in Seq(Binary) /\ Len(xy \o z) = Len(xy) + Len(z)
    OBVIOUS
  <2>4. Len(xy) + Len(z) >= 4
    <3>1. PICK m \in Nat, n \in Nat : m = Len(xy) /\ n = Len(z)
      OBVIOUS
    <3>2. n >= 4
      BY <2>1, <3>1
    <3>3. m + n >= 4
      BY <3>2
    <3> QED
      BY <3>1, <3>3
  <2> QED
    BY <2>1, <2>2, <2>3, <2>4, Zenon
<1>9. ASSUME NEW bits \in Seq(Binary), NEW p \in Nat \ {0}, Lies(bits, p, EncodeChunk(s, c))
      PROVE  IsRead(s, bits, p, c, EncodeChunk(s, c))
  BY <1>2, <1>4, <1>6, <1>9, TextChunkRead
<1> QED
  BY <1>8, <1>9, Zenon DEF ReadsBack

(* A chunk that is legible is of one of seven modes.                        *)
LegibleText(s, c) ==
  \/ c.mode = "NUM" /\ c.data \in Seq(48..57) /\ Counted(s, c.mode, Len(c.data))
  \/ c.mode = "AN" /\ c.data \in Seq(Alnum) /\ Counted(s, c.mode, Len(c.data))
  \/ c.mode = "B8" /\ c.data \in Seq(0..255) /\ Counted(s, c.mode, Len(c.data))
  \/ /\ c.mode = "KANJI" /\ Len(c.data) % 2 = 0 /\ Counted(s, c.mode, Len(c.data) \div 2)
     /\ \A k \in 1..(Len(c.data) \div 2) : IsKanji(c.data[2 * k - 1], c.data[2 * k])
LegibleHeader(s, c) ==
  \/ ~ s.mqr /\ c.mode = "STRUCTURE" /\ c.data \in (1..16) \X (1..16) \X (0..255)
  \/ ~ s.mqr /\ c.mode = "ECI" /\ c.data \in Seq(Designators) /\ Len(c.data) = 1
  \/ ~ s.mqr /\ c.mode = "FNC1SECOND" /\ c.data \in Seq(0..255) /\ Len(c.data) = 1

LEMMA LegibleParts ==
  ASSUME NEW s, NEW c, Legible(s, c) PROVE LegibleText(s, c) \/ LegibleHeader(s, c)
BY Zenon DEF Legible, LegibleText, LegibleHeader, Counted, Alnum

LEMMA RecordOf ==
  ASSUME NEW c \in ChunkType PROVE IsRecord(c) /\ c.data \in Seq(Nat)
BY DEF ChunkType, IsRecord

(* Every legible chunk is read back.                                        *)
LEMMA TextLegible ==
  ASSUME NEW s \in Symbols, NEW c, IsRecord(c), c.data \in Seq(Nat), LegibleText(s, c), ModeTaken(s, c.mode)
  PROVE  c.mode \in Splittable /\ ReadsBack(s, c)
<1>1. CASE c.mode = "NUM" /\ c.data \in Seq(48..57) /\ Counted(s, c.mode, Len(c.data))
  <2>1. IsTextOf(c.mode, c.data, Len(c.data), Text(c))
    BY <1>1, DigitsText
  <2>2. c.mode \in Splittable
    BY <1>1 DEF Splittable
  <2>3. Len(c.data) = CharactersOf(c)
    BY <1>1 DEF CharactersOf
  <2> QED
    BY <1>1, <2>1, <2>2, <2>3, TextReadsBack
<1>2. CASE c.mode = "AN" /\ c.data \in Seq(Alnum) /\ Counted(s, c.mode, Len(c.data))
  <2>1. IsTextOf(c.mode, c.data, Len(c.data), Text(c))
    BY <1>2, CharactersText
  <2>2. c.mode \in Splittable
    BY <1>2 DEF Splittable
  <2>3. Len(c.data) = CharactersOf(c)
    BY <1>2 DEF CharactersOf
  <2> QED
    BY <1>2, <2>1, <2>2, <2>3, TextReadsBack
<1>3. CASE c.mode = "B8" /\ c.data \in Seq(0..255) /\ Counted(s, c.mode, Len(c.data))
  <2>1. IsTextOf(c.mode, c.data, Len(c.data), Text(c))
    BY <1>3, BytesText
  <2>2. c.mode \in Splittable
    BY <1>3 DEF Splittable
  <2>3. Len(c.data) = CharactersOf(c)
    BY <1>3 DEF CharactersOf
  <2> QED
    BY <1>3, <2>1, <2>2, <2>3, TextReadsBack
<1>4. CASE /\ c.mode = "KANJI" /\ Len(c.data) % 2 = 0 /\ Counted(s, c.mode, Len(c.data) \div 2)
           /\ \A k \in 1..(Len(c.data) \div 2) : IsKanji(c.data[2 * k - 1], c.data[2 * k])
  <2>1. PICK n \in Nat : n = Len(c.data)
    OBVIOUS
  <2>2. PICK size \in Nat : size = n \div 2
    OBVIOUS
  <2>3. n = size * 2
    <3>1. n % 2 = 0
      BY <1>4, <2>1, Zenon
    <3> QED
      BY <2>2, <3>1
  <2>4. Len(c.data) = size * 2 /\ size = CharactersOf(c)
    BY <1>4, <2>1, <2>2, <2>3, Zenon DEF CharactersOf
  <2>5. \A k \in 1..size : IsKanji(c.data[2 * k - 1], c.data[2 * k])
    BY <1>4, <2>1, <2>2, Zenon
  <2>6. IsTextOf(c.mode, c.data, size, Text(c))
    BY <1>4, <2>4, <2>5, KanjiText
  <2>7. c.mode \in Splittable
    BY <1>4 DEF Splittable
  <2>8. Counted(s, c.mode, size)
    BY <1>4, <2>1, <2>2, Zenon
  <2> QED
    BY <2>4, <2>6, <2>7, <2>8, TextReadsBack
<1> QED
  BY <1>1, <1>2, <1>3, <1>4 DEF LegibleText

LEMMA Triple ==
  ASSUME NEW A, NEW B, NEW C, NEW x \in A \X B \X C
  PROVE  \E a \in A, b \in B, c \in C : x = <<a, b, c>>
OBVIOUS

LEMMA Single ==
  ASSUME NEW S, NEW data \in Seq(S), Len(data) = 1 PROVE \E d \in S : data = <<d>>
OBVIOUS

LEMMA HeaderLegible ==
  ASSUME NEW s \in Symbols, NEW c, IsRecord(c), LegibleHeader(s, c)
  PROVE  c.mode \notin Splittable /\ ~ s.mqr /\ ReadsBack(s, c)
<1>1. CASE ~ s.mqr /\ c.mode = "STRUCTURE" /\ c.data \in (1..16) \X (1..16) \X (0..255)
  <2>1. PICK n \in 1..16, i \in 1..16, d \in 0..255 : c.data = <<n, i, d>>
    <3>1. PICK A, D : A = 1..16 /\ D = 0..255
      OBVIOUS
    <3>2. c.data \in A \X A \X D
      BY <1>1, <3>1, Zenon
    <3>3. \E n \in A, i \in A, d \in D : c.data = <<n, i, d>>
      BY <3>2, Triple
    <3> QED
      BY <3>1, <3>3, Zenon
  <2>2. ReadsBack(s, c)
    BY <1>1, <2>1, StructureRead
  <2> QED
    BY <1>1, <2>2 DEF Splittable
<1>2. CASE ~ s.mqr /\ c.mode = "ECI" /\ c.data \in Seq(Designators) /\ Len(c.data) = 1
  <2>1. PICK e \in Designators : c.data = <<e>>
    BY <1>2, Single
  <2>2. ReadsBack(s, c)
    BY <1>2, <2>1, ECIRead
  <2> QED
    BY <1>2, <2>2 DEF Splittable
<1>3. CASE ~ s.mqr /\ c.mode = "FNC1SECOND" /\ c.data \in Seq(0..255) /\ Len(c.data) = 1
  <2>1. PICK d \in 0..255 : c.data = <<d>>
    BY <1>3, Single
  <2>2. ReadsBack(s, c)
    BY <1>3, <2>1, FNC1Read
  <2> QED
    BY <1>3, <2>2 DEF Splittable
<1> QED
  BY <1>1, <1>2, <1>3 DEF LegibleHeader

LEMMA LegibleRead ==
  ASSUME NEW s \in Symbols, NEW c \in ChunkType, Legible(s, c), s.mqr => Counts!EncodableMQR(c, s.version)
  PROVE  ReadsBack(s, c)
<1>1. IsRecord(c) /\ c.data \in Seq(Nat)
  BY RecordOf
<1>2. ModeTaken(s, c.mode)
  BY Zenon DEF ModeTaken, Counts!EncodableMQR
<1>3. CASE LegibleText(s, c)
  BY <1>1, <1>2, <1>3, TextLegible
<1>4. CASE LegibleHeader(s, c)
  BY <1>1, <1>4, HeaderLegible
<1> QED
  BY <1>3, <1>4, LegibleParts

(* What a length field counts is not cut.                                   *)
LEMMA OneGroup ==
  ASSUME NEW S, NEW data \in Seq(S), NEW w \in Nat, Len(data) \in 1..w
  PROVE  Groups(data, w) = <<data>>
<1>1. PICK L \in Nat : L = Len(data) /\ L \in 1..w
  OBVIOUS
<1>2. CeilDiv(L, w) = 1
  <2>1. L - 1 \in 0..(w - 1) /\ 1 \in Nat /\ w * 1 + (L - 1) = L + w - 1
    BY <1>1
  <2>2. PICK r \in 0..(w - 1) : r = L - 1
    BY <2>1, Zenon
  <2>3. (w * 1 + r) \div w = 1
    BY <2>1, DividedUniquely
  <2>4. (L + w - 1) \div w = 1
    BY <2>1, <2>2, <2>3, Zenon
  <2> QED
    BY <2>4, Zenon DEF CeilDiv, Counts!CeilDiv
<1>3. PICK gs : gs = Groups(data, w)
  OBVIOUS
<1>4. gs = [k \in 1..1 |-> SubSeq(data, (k - 1) * w + 1, IF k * w < L THEN k * w ELSE L)]
  BY <1>1, <1>2, <1>3, Zenon DEF Groups
<1>5. gs[1] = SubSeq(data, (1 - 1) * w + 1, IF 1 * w < L THEN 1 * w ELSE L)
  BY <1>4
<1>6. (1 - 1) * w + 1 = 1 /\ (IF 1 * w < L THEN 1 * w ELSE L) = L
  BY <1>1
<1>7. SubSeq(data, 1, L) = data
  BY <1>1
<1>8. gs[1] = data
  BY <1>5, <1>6, <1>7, Zenon
<1>9. gs = [k \in 1..1 |-> data]
  BY <1>4, <1>8
<1>10. <<data>> = [k \in 1..1 |-> data]
  OBVIOUS
<1> QED
  BY <1>3, <1>9, <1>10, Zenon

(* What QRspec_maximumWords and MQRspec_maximumWords allow a chunk.         *)
MaximumWords(s, mode) == IF s.mqr THEN MQRspec_maximumWords(mode, s.version) ELSE QRspec_maximumWords(mode, s.version)

LEMMA OnePiece ==
  ASSUME NEW s, NEW c, IsRecord(c), NEW parts, parts = <<c.data>>,
         parts = IF MaximumWords(s, c.mode) = 0 THEN <<c.data>> ELSE Groups(c.data, MaximumWords(s, c.mode))
  PROVE  Pieces(s, c) = <<c>>
<1>1. Pieces(s, c) = [k \in DOMAIN parts |-> Chunk(c.mode, parts[k])]
  BY Zenon DEF Pieces, MaximumWords
<1>2. DOMAIN parts = 1..1 /\ parts[1] = c.data
  OBVIOUS
<1>3. Chunk(c.mode, parts[1]) = c
  BY <1>2, Zenon DEF Chunk, IsRecord
<1>4. [k \in 1..1 |-> Chunk(c.mode, parts[k])] = [k \in 1..1 |-> c]
  <2>1. \A k \in 1..1 : k = 1
    OBVIOUS
  <2>2. \A k \in 1..1 : Chunk(c.mode, parts[k]) = c
    BY <1>3, <2>1, Zenon
  <2> QED
    BY <2>2, Zenon
<1>5. <<c>> = [k \in 1..1 |-> c]
  OBVIOUS
<1> QED
  BY <1>1, <1>2, <1>4, <1>5, Zenon

LEMMA WordsCounted ==
  ASSUME NEW s \in Symbols, NEW mode \in Splittable
  PROVE  MaximumWords(s, mode) = (2 ^ LengthIndicator(s, mode) - 1) * (IF mode = "KANJI" THEN 2 ELSE 1)
BY Zenon DEF MaximumWords, LengthIndicator, MQRspec_maximumWords, QRspec_maximumWords

LEMMA TextFits ==
  ASSUME NEW s \in Symbols, NEW c, c.mode \in Splittable, c.data \in Seq(Nat), LegibleText(s, c)
  PROVE  MaximumWords(s, c.mode) \in Nat /\ Len(c.data) \in 1..MaximumWords(s, c.mode)
<1>1. PICK n : /\ Counted(s, c.mode, n)
               /\ IF c.mode = "KANJI" THEN Len(c.data) % 2 = 0 /\ n = Len(c.data) \div 2 ELSE n = Len(c.data)
  <2>1. CASE c.mode = "KANJI"
    <3>1. Len(c.data) % 2 = 0 /\ Counted(s, c.mode, Len(c.data) \div 2)
      BY <2>1 DEF LegibleText
    <3> QED
      BY <2>1, <3>1
  <2>2. CASE c.mode # "KANJI"
    <3>1. Counted(s, c.mode, Len(c.data))
      BY <2>2 DEF LegibleText
    <3> QED
      BY <2>2, <3>1
  <2> QED
    BY <2>1, <2>2
<1>2. PICK l \in 0..24 : l = LengthIndicator(s, c.mode)
  <2>1. LengthIndicator(s, c.mode) \in 0..16
    BY LengthIndicators
  <2> QED
    BY <2>1
<1>3. PICK w \in Nat \ {0} : w = 2 ^ l
  BY PowerType
<1>4. n \in 1..(w - 1)
  BY <1>1, <1>2, <1>3, Zenon DEF Counted
<1>5. PICK W : W = MaximumWords(s, c.mode) /\ W = (w - 1) * (IF c.mode = "KANJI" THEN 2 ELSE 1)
  BY <1>2, <1>3, WordsCounted, Zenon
<1>6. PICK L \in Nat : L = Len(c.data)
  OBVIOUS
<1>7. CASE c.mode = "KANJI"
  <2>1. W = (w - 1) * 2
    BY <1>5, <1>7, Zenon
  <2>2. L % 2 = 0 /\ n = L \div 2
    BY <1>1, <1>6, <1>7, Zenon
  <2>3. W \in Nat /\ L \in 1..W
    BY <1>4, <2>1, <2>2
  <2> QED
    BY <1>5, <1>6, <2>3, Zenon
<1>8. CASE c.mode # "KANJI"
  <2>1. W = (w - 1) * 1
    BY <1>5, <1>8, Zenon
  <2>2. n = L
    BY <1>1, <1>6, <1>8, Zenon
  <2>3. W \in Nat /\ L \in 1..W
    BY <1>4, <2>1, <2>2
  <2> QED
    BY <1>5, <1>6, <2>3, Zenon
<1> QED
  BY <1>7, <1>8

LEMMA LegiblePieces ==
  ASSUME NEW s \in Symbols, NEW c \in ChunkType, Legible(s, c)
  PROVE  Pieces(s, c) = <<c>>
<1>1. IsRecord(c) /\ c.data \in Seq(Nat)
  BY RecordOf
<1>2. CASE LegibleText(s, c)
  <2>1. c.mode \in Splittable
    BY <1>2 DEF LegibleText, Splittable
  <2>2. PICK w \in Nat : w = MaximumWords(s, c.mode) /\ Len(c.data) \in 1..w
    BY <1>1, <1>2, <2>1, TextFits
  <2>3. w # 0
    BY <2>2
  <2>4. Groups(c.data, w) = <<c.data>>
    BY <1>1, <2>2, OneGroup
  <2>5. <<c.data>> = IF MaximumWords(s, c.mode) = 0 THEN <<c.data>> ELSE Groups(c.data, MaximumWords(s, c.mode))
    BY <2>2, <2>3, <2>4, Zenon
  <2> QED
    BY <1>1, <2>5, OnePiece
<1>3. CASE LegibleHeader(s, c)
  <2>1. c.mode \notin Splittable /\ ~ s.mqr
    BY <1>3 DEF LegibleHeader, Splittable
  <2>2. MaximumWords(s, c.mode) = 0
    BY <2>1, Zenon DEF MaximumWords, QRspec_maximumWords
  <2>3. <<c.data>> = IF MaximumWords(s, c.mode) = 0 THEN <<c.data>> ELSE Groups(c.data, MaximumWords(s, c.mode))
    BY <2>2, Zenon
  <2> QED
    BY <1>1, <2>3, OnePiece
<1> QED
  BY <1>2, <1>3, LegibleParts

(* A prefix and the next element.                                           *)
LEMMA PrefixExtended ==
  ASSUME NEW S, NEW z \in Seq(S), NEW n \in 1..Len(z)
  PROVE  Append(SubSeq(z, 1, n - 1), z[n]) = SubSeq(z, 1, n)
<1>1. PICK a \in Seq(S) : a = SubSeq(z, 1, n - 1) /\ Len(a) = n - 1 /\ \A k \in 1..(n - 1) : a[k] = z[k]
  <2>1. SubSeq(z, 1, n - 1) \in Seq(S) /\ Len(SubSeq(z, 1, n - 1)) = n - 1
    OBVIOUS
  <2>2. \A k \in 1..(n - 1) : SubSeq(z, 1, n - 1)[k] = z[k]
    OBVIOUS
  <2> QED
    BY <2>1, <2>2, Zenon
<1>2. PICK b \in Seq(S) : b = SubSeq(z, 1, n) /\ Len(b) = n /\ \A k \in 1..n : b[k] = z[k]
  <2>1. SubSeq(z, 1, n) \in Seq(S) /\ Len(SubSeq(z, 1, n)) = n
    OBVIOUS
  <2>2. \A k \in 1..n : SubSeq(z, 1, n)[k] = z[k]
    OBVIOUS
  <2> QED
    BY <2>1, <2>2, Zenon
<1>3. z[n] \in S
  OBVIOUS
<1>4. PICK c \in Seq(S) : c = Append(a, z[n]) /\ Len(c) = n /\ \A k \in 1..(n - 1) : c[k] = a[k]
  <2>1. Append(a, z[n]) \in Seq(S) /\ Len(Append(a, z[n])) = n
    BY <1>1, <1>3
  <2>2. \A k \in 1..(n - 1) : Append(a, z[n])[k] = a[k]
    BY <1>1, <1>3
  <2> QED
    BY <2>1, <2>2, Zenon
<1>5. c[n] = z[n]
  BY <1>1, <1>3, <1>4
<1>6. \A k \in 1..n : c[k] = b[k]
  <2>1. ASSUME NEW k \in 1..n PROVE c[k] = b[k]
    <3>1. CASE k = n
      BY <1>2, <1>5, <3>1, Zenon
    <3>2. CASE k # n
      <4>1. k \in 1..(n - 1)
        BY <3>2
      <4> QED
        BY <1>1, <1>2, <1>4, <4>1, Zenon
    <3> QED
      BY <3>1, <3>2
  <2> QED
    BY <2>1
<1>7. c = b
  BY <1>2, <1>4, <1>6, SeqEqual
<1> QED
  BY <1>1, <1>2, <1>4, <1>7, Zenon

(* The codes of the chunks, and where each is read.                         *)
Codes(s, chunks) == [k \in DOMAIN chunks |-> EncodeChunk(s, chunks[k])]

LEMMA StreamCodes ==
  ASSUME NEW s, NEW chunks \in Seq(ChunkType),
         \A k \in 1..Len(chunks) : Pieces(s, chunks[k]) = <<chunks[k]>> /\ ReadsBack(s, chunks[k])
  PROVE  /\ Codes(s, chunks) \in Seq(Seq(Binary)) /\ Len(Codes(s, chunks)) = Len(chunks)
         /\ \A k \in 1..Len(chunks) : Codes(s, chunks)[k] = EncodeChunk(s, chunks[k])
         /\ QRinput_createBitStream(s, chunks) = FlattenSeq(Codes(s, chunks))
<1>1. PICK N \in Nat : N = Len(chunks) /\ DOMAIN chunks = 1..N
  OBVIOUS
<1>2. \A k \in 1..N : EncodeChunk(s, chunks[k]) \in Seq(Binary)
  BY <1>1, Zenon DEF ReadsBack
<1>3. Codes(s, chunks) = [k \in 1..N |-> EncodeChunk(s, chunks[k])]
  BY <1>1, Zenon DEF Codes
<1>4. Codes(s, chunks) \in [1..N -> Seq(Binary)]
  BY <1>2, <1>3, Zenon
<1>5. \A k \in 1..N : Codes(s, chunks)[k] = EncodeChunk(s, chunks[k])
  BY <1>3, Zenon
<1>6. Codes(s, chunks) \in Seq(Seq(Binary)) /\ Len(Codes(s, chunks)) = N
  <2>1. PICK z, T : z = Codes(s, chunks) /\ T = Seq(Binary)
    OBVIOUS
  <2>2. z \in [1..N -> T]
    BY <1>4, <2>1, Zenon
  <2>3. z \in Seq(T) /\ Len(z) = N
    BY <2>2
  <2> QED
    BY <2>1, <2>3, Zenon
<1>7. PICK ss : ss = [k \in DOMAIN chunks |-> Pieces(s, chunks[k])]
  OBVIOUS
<1>8. ss = [k \in DOMAIN chunks |-> <<chunks[k]>>]
  BY <1>1, <1>7, Zenon
<1>9. FlattenSeq(ss) = chunks
  BY <1>8, FlatSingles
<1>10. QRinput_createBitStream(s, chunks) = FlattenSeq(Codes(s, chunks))
  BY <1>7, <1>9, Zenon DEF QRinput_createBitStream, Codes
<1> QED
  BY <1>1, <1>5, <1>6, <1>10, Zenon

(* The chunks are read one after the other.                                 *)
IsStep(s, bits, chunks, N, off) ==
  /\ off[0] = 0
  /\ \A k \in 1..N :
       /\ off[k] \in Nat /\ off[k] >= off[k - 1] + 4 /\ off[k] <= Len(bits)
       /\ ~ Terminated(s, bits, 1 + off[k - 1])
       /\ ReadChunk(s, bits, 1 + off[k - 1]) = [chunk |-> chunks[k], next |-> 1 + off[k]]

LEMMA StepsRead ==
  ASSUME NEW s, NEW chunks, NEW N \in Nat, NEW ss \in Seq(Seq(Binary)), Len(ss) = N,
         \A k \in 1..N : ReadsBack(s, chunks[k]) /\ ss[k] = EncodeChunk(s, chunks[k]),
         NEW F \in Seq(Binary), NEW off, IsFlat(F, ss, off), NEW bits \in Seq(Binary), Lies(bits, 1, F)
  PROVE  IsStep(s, bits, chunks, N, off)
<1>1. off \in [0..N -> Nat] /\ off[0] = 0
  BY Zenon DEF IsFlat
<1>2. ASSUME NEW k \in 1..N
      PROVE  /\ off[k] \in Nat /\ off[k] >= off[k - 1] + 4 /\ off[k] <= Len(bits)
             /\ ~ Terminated(s, bits, 1 + off[k - 1])
             /\ ReadChunk(s, bits, 1 + off[k - 1]) = [chunk |-> chunks[k], next |-> 1 + off[k]]
  <2>1. PICK a \in Nat, b \in Nat : a = off[k - 1] /\ b = off[k]
    <3>1. k - 1 \in 0..N /\ k \in 0..N
      OBVIOUS
    <3>2. off[k - 1] \in Nat /\ off[k] \in Nat
      BY <1>1, <3>1
    <3> QED
      BY <3>2, Zenon
  <2>2. ss[k] = EncodeChunk(s, chunks[k]) /\ ReadsBack(s, chunks[k])
    OBVIOUS
  <2>3. PICK x \in Seq(Binary) : x = ss[k] /\ x = EncodeChunk(s, chunks[k]) /\ Len(x) >= 4
    BY <2>2, Zenon DEF ReadsBack
  <2>4. b = a + Len(x) /\ b <= Len(F)
    BY <2>1, <2>3, Zenon DEF IsFlat
  <2>5. Len(F) <= Len(bits)
    BY DEF Lies
  <2>6. PICK n \in Nat, f \in Nat, d \in Nat : n = Len(x) /\ f = Len(F) /\ d = Len(bits)
    OBVIOUS
  <2>7. b >= a + 4 /\ b <= d /\ 1 + b = (1 + a) + n
    <3>1. n >= 4 /\ b = a + n /\ b <= f /\ f <= d
      BY <2>3, <2>4, <2>5, <2>6, Zenon
    <3> QED
      BY <3>1
  <2>8. PICK p \in Nat \ {0} : p = 1 + a
    OBVIOUS
  <2>9. Lies(bits, p, x)
    <3>1. k \in 1..Len(ss)
      OBVIOUS
    <3>2. Lies(bits, 1 + off[k - 1], ss[k])
      BY <3>1, LiesFlat
    <3> QED
      BY <2>1, <2>3, <2>8, <3>2, Zenon
  <2>10. IsRead(s, bits, p, chunks[k], x)
    BY <2>2, <2>3, <2>9, Zenon DEF ReadsBack
  <2>11. ~ Terminated(s, bits, p) /\ ReadChunk(s, bits, p) = [chunk |-> chunks[k], next |-> p + n]
    BY <2>6, <2>10, Zenon DEF IsRead
  <2>12. 1 + off[k - 1] = p /\ 1 + off[k] = p + n
    BY <2>1, <2>7, <2>8, Zenon
  <2> QED
    BY <2>1, <2>6, <2>7, <2>11, <2>12, Zenon
<1> QED
  BY <1>1, <1>2, Zenon DEF IsStep

(* Where the reading is after n steps: it stays behind the last chunk.      *)
After(chunks, N, off, n) ==
  IF n <= N THEN [next |-> 1 + off[n], chunks |-> SubSeq(chunks, 1, n)]
            ELSE [next |-> 1 + off[N], chunks |-> SubSeq(chunks, 1, N)]

(* Every step goes on by the four bits of a chunk at least.                 *)
LEMMA StepsFit ==
  ASSUME NEW s, NEW bits \in Seq(Binary), NEW chunks, NEW N \in Nat, NEW off, IsStep(s, bits, chunks, N, off)
  PROVE  \A n \in 0..N : off[n] \in Nat /\ 4 * n <= off[n] /\ off[n] <= Len(bits)
<1> DEFINE S == {n \in 0..N : off[n] \in Nat /\ 4 * n <= off[n] /\ off[n] <= Len(bits)}
<1>1. 0 \in S
  <2>1. off[0] = 0
    BY Zenon DEF IsStep
  <2> QED
    BY <2>1
<1>2. ASSUME NEW n \in 0..(N - 1), n \in S PROVE n + 1 \in S
  <2>1. n + 1 \in 1..N /\ (n + 1) - 1 = n /\ n + 1 \in 0..N
    BY <1>2
  <2>2. off[n + 1] \in Nat /\ off[n + 1] >= off[n] + 4 /\ off[n + 1] <= Len(bits)
    BY <2>1, Zenon DEF IsStep
  <2>3. off[n] \in Nat /\ 4 * n <= off[n]
    BY <1>2
  <2>4. 4 * (n + 1) <= off[n + 1]
    BY <2>2, <2>3
  <2> QED
    BY <2>1, <2>2, <2>4
<1> HIDE DEF S
<1>3. \A n \in 0..N : n \in S
  BY <1>1, <1>2, Induction
<1> QED
  BY <1>3 DEF S

LEMMA AfterStep ==
  ASSUME NEW s, NEW bits \in Seq(Binary), NEW S, NEW chunks \in Seq(S), NEW N \in Nat, N = Len(chunks),
         NEW off, IsStep(s, bits, chunks, N, off), Terminated(s, bits, 1 + off[N]), NEW n \in Nat \ {0}
  PROVE  After(chunks, N, off, n) = ReadOn(s, bits, After(chunks, N, off, n - 1))
<1>1. CASE n <= N
  <2>1. n \in 1..N /\ n - 1 \in 0..N /\ n - 1 <= N
    BY <1>1
  <2>2. PICK a \in Nat, b \in Nat : a = off[n - 1] /\ b = off[n] /\ b <= Len(bits)
    <3>1. off[n - 1] \in Nat
      BY <2>1, StepsFit
    <3>2. off[n] \in Nat /\ off[n] <= Len(bits)
      BY <2>1, Zenon DEF IsStep
    <3> QED
      BY <3>1, <3>2, Zenon
  <2>3. PICK x : x = [next |-> 1 + a, chunks |-> SubSeq(chunks, 1, n - 1)]
    OBVIOUS
  <2>4. After(chunks, N, off, n - 1) = x
    BY <2>1, <2>2, <2>3, Zenon DEF After
  <2>5. PICK p \in Nat \ {0} : p = 1 + a
    OBVIOUS
  <2>6. x.next = p /\ x.chunks = SubSeq(chunks, 1, n - 1)
    BY <2>3, <2>5
  <2>7. ~ Terminated(s, bits, p) /\ ReadChunk(s, bits, p) = [chunk |-> chunks[n], next |-> 1 + b]
    BY <2>1, <2>2, <2>5, Zenon DEF IsStep
  <2>8. PICK c : c = ReadChunk(s, bits, p) /\ c.chunk = chunks[n] /\ c.next = 1 + b
    BY <2>7
  <2>9. 1 + b \in 1..(Len(bits) + 1) /\ p # 0
    BY <2>2
  <2>10. ReadOn(s, bits, x) = [next |-> 1 + b, chunks |-> Append(SubSeq(chunks, 1, n - 1), chunks[n])]
    BY <2>6, <2>7, <2>8, <2>9, Zenon DEF ReadOn
  <2>11. Append(SubSeq(chunks, 1, n - 1), chunks[n]) = SubSeq(chunks, 1, n)
    BY <2>1, PrefixExtended
  <2>12. After(chunks, N, off, n) = [next |-> 1 + b, chunks |-> SubSeq(chunks, 1, n)]
    BY <1>1, <2>2, Zenon DEF After
  <2> QED
    BY <2>4, <2>10, <2>11, <2>12, Zenon
<1>2. CASE ~ (n <= N)
  <2>1. PICK x : x = [next |-> 1 + off[N], chunks |-> SubSeq(chunks, 1, N)]
    OBVIOUS
  <2>2. After(chunks, N, off, n) = x
    BY <1>2, <2>1, Zenon DEF After
  <2>3. After(chunks, N, off, n - 1) = x
    <3>1. CASE n - 1 = N
      <4>1. N <= N
        OBVIOUS
      <4> QED
        BY <2>1, <3>1, <4>1, Zenon DEF After
    <3>2. CASE n - 1 # N
      <4>1. ~ (n - 1 <= N)
        BY <1>2, <3>2
      <4> QED
        BY <2>1, <4>1, Zenon DEF After
    <3> QED
      BY <3>1, <3>2
  <2>4. x.next = 1 + off[N]
    BY <2>1
  <2>5. ReadOn(s, bits, x) = x
    BY <2>4, Zenon DEF ReadOn
  <2> QED
    BY <2>2, <2>3, <2>5, Zenon
<1> QED
  BY <1>1, <1>2

LEMMA AllRead ==
  ASSUME NEW s, NEW bits \in Seq(Binary), NEW S, NEW chunks \in Seq(S), NEW N \in Nat, N = Len(chunks),
         NEW off, IsStep(s, bits, chunks, N, off), Terminated(s, bits, 1 + off[N])
  PROVE  ReadBits(s, bits) = chunks
<1>1. PICK M \in Nat : M = Len(bits) \div 4 /\ N <= M
  <2>1. PICK d \in Nat : d = Len(bits)
    OBVIOUS
  <2>2. N \in 0..N
    OBVIOUS
  <2>3. off[N] \in Nat /\ 4 * N <= off[N] /\ off[N] <= d
    BY <2>1, <2>2, StepsFit
  <2>4. d \div 4 \in Nat /\ N <= d \div 4
    BY <2>3
  <2> QED
    BY <2>1, <2>4
<1> DEFINE first == [next |-> 1, chunks |-> <<>>]
           Values(f) == [n \in 0..M |-> IF n = 0 THEN first ELSE ReadOn(s, bits, f[n - 1])]
           read == CHOOSE f : f = Values(f)
           h == [n \in 0..M |-> After(chunks, N, off, n)]
<1>2. ReadBits(s, bits) = read[M].chunks
  BY <1>1, Zenon DEF ReadBits
<1>3. After(chunks, N, off, 0) = first
  <2>1. 0 <= N /\ off[0] = 0 /\ 1 + 0 = 1
    BY DEF IsStep
  <2>2. SubSeq(chunks, 1, 0) = <<>>
    OBVIOUS
  <2> QED
    BY <2>1, <2>2, Zenon DEF After
<1>4. \A n \in 0..M : h[n] = IF n = 0 THEN first ELSE ReadOn(s, bits, h[n - 1])
  <2>1. ASSUME NEW n \in 0..M PROVE h[n] = IF n = 0 THEN first ELSE ReadOn(s, bits, h[n - 1])
    <3>1. CASE n = 0
      BY <1>3, <3>1
    <3>2. CASE n # 0
      <4>1. n \in Nat \ {0} /\ n - 1 \in 0..M
        BY <3>2
      <4>2. h[n] = After(chunks, N, off, n) /\ h[n - 1] = After(chunks, N, off, n - 1)
        BY <4>1, Zenon
      <4>3. After(chunks, N, off, n) = ReadOn(s, bits, After(chunks, N, off, n - 1))
        BY <4>1, AfterStep
      <4> QED
        BY <3>2, <4>2, <4>3, Zenon
    <3> QED
      BY <3>1, <3>2
  <2> QED
    BY <2>1
<1>5. h = Values(h)
  <2>1. \A n \in 0..M : After(chunks, N, off, n) = IF n = 0 THEN first ELSE ReadOn(s, bits, h[n - 1])
    BY <1>4, Zenon
  <2> QED
    BY <2>1, Zenon
<1>6. read = Values(read)
  <2> HIDE DEF Values, h
  <2> QED
    BY <1>5, Zenon
<1>7. \A n \in 0..M : read[n] = IF n = 0 THEN first ELSE ReadOn(s, bits, read[n - 1])
  <2> HIDE DEF read
  <2> QED
    BY <1>6, Zenon
<1> HIDE DEF read, h, first
<1>8. read[M] = h[M]
  <2> DEFINE E == {n \in 0..M : read[n] = h[n]}
  <2>1. 0 \in E
    BY <1>4, <1>7
  <2>2. ASSUME NEW n \in 0..(M - 1), n \in E PROVE n + 1 \in E
    <3>1. n + 1 \in 0..M /\ n + 1 # 0 /\ (n + 1) - 1 = n /\ read[n] = h[n]
      BY <2>2
    <3>2. read[n + 1] = ReadOn(s, bits, read[n]) /\ h[n + 1] = ReadOn(s, bits, h[n])
      BY <1>4, <1>7, <3>1, Zenon
    <3> QED
      BY <3>1, <3>2, Zenon
  <2> HIDE DEF E
  <2>3. \A n \in 0..M : n \in E
    BY <2>1, <2>2, Induction
  <2>4. M \in E
    BY <2>3
  <2> QED
    BY <2>4 DEF E
<1>9. h[M].chunks = chunks
  <2>1. h[M] = After(chunks, N, off, M)
    BY DEF h
  <2>2. SubSeq(chunks, 1, N) = chunks
    OBVIOUS
  <2>3. After(chunks, N, off, M).chunks = SubSeq(chunks, 1, N)
    <3>1. CASE M <= N
      <4>1. M = N
        BY <1>1, <3>1
      <4> QED
        BY <3>1, <4>1 DEF After
    <3>2. CASE ~ (M <= N)
      BY <3>2 DEF After
    <3> QED
      BY <3>1, <3>2
  <2> QED
    BY <2>1, <2>2, <2>3, Zenon
<1> QED
  BY <1>2, <1>8, <1>9, Zenon

(* A function on 1..n is a sequence.                                        *)
LEMMA SequenceOf ==
  ASSUME NEW n \in Nat, NEW S, NEW z \in [1..n -> S] PROVE z \in Seq(S) /\ Len(z) = n
OBVIOUS

(* Behind the chunks there is a terminator, or no room for one.             *)
LEMMA EndTerminated ==
  ASSUME NEW s \in Symbols, NEW bits \in Seq(Binary), Len(bits) <= DataBits(s),
         NEW stream, stream = [k \in 1..DataBits(s) |-> Padded(s, bits)[k]]
  PROVE  /\ stream \in Seq(Binary) /\ Lies(stream, 1, bits)
         /\ Terminated(s, stream, 1 + Len(bits))
<1>1. PICK padded : padded = Padded(s, bits) /\ FillsData(s, padded) /\ IsPadded(s, bits, padded, TerminatorBits(s))
  BY PaddedFills
<1>2. PICK D \in Nat : D = DataBits(s) /\ D <= Len(padded)
  <2>1. PICK n \in Nat : n = Raws[s].dataLength
    BY Lengths
  <2>2. PICK o \in {0, 4} : o = Raws[s].oddbits
    BY Lengths
  <2>3. DataBits(s) = 8 * n - o
    BY <2>1, <2>2, Lengths
  <2>4. PICK d : d = DataBits(s)
    OBVIOUS
  <2>5. PICK P \in Nat : P = Len(padded) /\ P \in {d, 8 * n}
    BY <1>1, <2>1, <2>4 DEF FillsData
  <2>6. PICK L \in Nat : L = Len(bits) /\ L <= d
    BY <2>4
  <2>7. d \in Nat /\ d <= P
    BY <2>3, <2>4, <2>5, <2>6
  <2> QED
    BY <2>4, <2>5, <2>7
<1>3. PICK P \in Nat, L \in Nat : P = Len(padded) /\ L = Len(bits) /\ L <= D /\ D <= P
  <2>1. padded \in Seq(Binary)
    BY <1>1 DEF FillsData
  <2> QED
    BY <1>2, <2>1
<1>4. stream \in Seq(Binary) /\ Len(stream) = D /\ \A k \in 1..D : stream[k] = padded[k]
  <2>1. \A k \in 1..D : padded[k] \in Binary
    BY <1>1, <1>3 DEF FillsData
  <2>2. stream = [k \in 1..D |-> padded[k]]
    BY <1>1, <1>2, Zenon
  <2>3. stream \in [1..D -> Binary]
    BY <2>1, <2>2, Zenon
  <2>4. stream \in Seq(Binary) /\ Len(stream) = D
    BY <2>3, SequenceOf
  <2> QED
    BY <2>2, <2>4, Zenon
<1>5. Lies(stream, 1, bits)
  <2>1. ASSUME NEW k \in 1..L PROVE stream[1 + k - 1] = bits[k]
    <3>1. k \in 1..D /\ 1 + k - 1 = k
      BY <1>3
    <3>2. padded[k] = bits[k]
      BY <1>1, <1>3, Zenon DEF IsPadded
    <3> QED
      BY <1>4, <3>1, <3>2, Zenon
  <2>2. 1 \in Nat \ {0} /\ 1 + L <= D + 1
    BY <1>3
  <2> QED
    BY <1>3, <1>4, <2>1, <2>2, Zenon DEF Lies
<1>6. PICK t \in Nat : t = TerminatorBits(s)
  <2>1. TerminatorBits(s) \in Nat
    BY VersionRange DEF TerminatorBits
  <2> QED
    BY <2>1
<1>7. Terminated(s, stream, 1 + L) <=> Len(stream) + 1 - (1 + L) < t \/ Number(stream, 1 + L, t) = 0
  BY <1>6, Zenon DEF Terminated, TerminatorBits
<1>8. ASSUME D + 1 - (1 + L) < t PROVE Terminated(s, stream, 1 + L)
  BY <1>3, <1>4, <1>7, <1>8, Zenon
<1>9. ASSUME ~ (D + 1 - (1 + L) < t) PROVE Terminated(s, stream, 1 + L)
  <2>1. L + t <= D /\ L + t <= P
    BY <1>3, <1>9
  <2>2. \A k \in (L + 1)..(L + t) : padded[k] = 0
    BY <1>1, <1>3, <1>6, <2>1 DEF IsPadded, Least
  <2>3. PICK p \in Nat \ {0} : p = 1 + L
    OBVIOUS
  <2>4. \A k \in 1..t : stream[p + k - 1] = 0
    <3>1. ASSUME NEW k \in 1..t PROVE stream[p + k - 1] = 0
      <4>1. p + k - 1 \in (L + 1)..(L + t) /\ p + k - 1 \in 1..D
        BY <2>1, <2>3
      <4> QED
        BY <1>4, <2>2, <4>1, Zenon
    <3> QED
      BY <3>1
  <2>5. p + t <= Len(stream) + 1
    <3>1. p + t <= D + 1
      BY <2>1, <2>3
    <3> QED
      BY <1>4, <3>1, Zenon
  <2>6. Number(stream, p, t) = 0
    BY <1>4, <2>4, <2>5, NumberZero
  <2> QED
    BY <1>3, <1>7, <2>3, <2>6, Zenon
<1>10. Terminated(s, stream, 1 + L)
  BY <1>8, <1>9, Zenon
<1> QED
  BY <1>3, <1>4, <1>5, <1>10, Zenon
-----------------------------------------------------------------------------
(* What is recovered.                                                       *)

(* From the stream of an input that is legible its chunks are read.         *)
LEMMA StreamReadable ==
  ASSUME AllLegible, NEW j \in Jobs
  PROVE  /\ Bits(j) \in Seq(Binary)
         /\ Content(ReadBits(SymbolOf(j), StreamOf(j))) = Content(j.chunks)
<1>1. PICK s \in Symbols : s = SymbolOf(j) /\ Encodable(s, j.chunks)
  BY JobsAssumption
<1>2. PICK chunks : chunks = j.chunks
  OBVIOUS
<1>3. chunks \in Seq(ChunkType) /\ \A k \in DOMAIN chunks : Legible(s, chunks[k])
  BY <1>1, <1>2, Zenon DEF AllLegible
<1>4. PICK N \in Nat : N = Len(chunks) /\ DOMAIN chunks = 1..N
  BY <1>3
<1>5. \A k \in 1..N : Pieces(s, chunks[k]) = <<chunks[k]>> /\ ReadsBack(s, chunks[k])
  <2>1. ASSUME NEW k \in 1..N PROVE Pieces(s, chunks[k]) = <<chunks[k]>> /\ ReadsBack(s, chunks[k])
    <3>1. PICK c \in ChunkType : c = chunks[k]
      BY <1>3, <1>4
    <3>2. Legible(s, c)
      BY <1>3, <1>4, <3>1, Zenon
    <3>3. s.mqr => Counts!EncodableMQR(c, s.version)
      BY <1>1, <1>2, <1>4, <3>1, Zenon DEF Encodable
    <3> QED
      BY <3>1, <3>2, <3>3, LegiblePieces, LegibleRead
  <2> QED
    BY <2>1
<1>6. PICK ss : /\ ss = Codes(s, chunks) /\ ss \in Seq(Seq(Binary)) /\ Len(ss) = N
                /\ \A k \in 1..N : ss[k] = EncodeChunk(s, chunks[k])
                /\ QRinput_createBitStream(s, chunks) = FlattenSeq(ss)
  BY <1>3, <1>4, <1>5, StreamCodes
<1>7. PICK F \in Seq(Binary) : F = FlattenSeq(ss) /\ \E off : IsFlat(F, ss, off)
  BY <1>6, Flat
<1>8. PICK off : IsFlat(F, ss, off)
  BY <1>7
<1>9. Bits(j) = F
  BY <1>1, <1>2, <1>6, <1>7, Zenon DEF Bits
<1>10. Len(F) <= DataBits(s)
  BY <1>1, <1>2, <1>6, <1>7 DEF Encodable, Capacity, DataBits
<1>11. PICK stream : stream = StreamOf(j) /\ stream = [k \in 1..DataBits(s) |-> Padded(s, F)[k]]
  BY <1>1, <1>9, Zenon DEF StreamOf
<1>12. stream \in Seq(Binary) /\ Lies(stream, 1, F) /\ Terminated(s, stream, 1 + Len(F))
  BY <1>10, <1>11, EndTerminated
<1>13. IsStep(s, stream, chunks, N, off)
  <2>1. \A k \in 1..N : ReadsBack(s, chunks[k]) /\ ss[k] = EncodeChunk(s, chunks[k])
    BY <1>5, <1>6, Zenon
  <2> QED
    BY <1>6, <1>7, <1>8, <1>12, <2>1, StepsRead
<1>14. Terminated(s, stream, 1 + off[N])
  BY <1>6, <1>8, <1>12, Zenon DEF IsFlat
<1>15. ReadBits(s, stream) = chunks
  BY <1>3, <1>4, <1>12, <1>13, <1>14, AllRead
<1> QED
  BY <1>1, <1>2, <1>7, <1>9, <1>11, <1>15, Zenon

(* So a reader of the symbol finds the input.                               *)
LEMMA ReadsJob ==
  ASSUME AllLegible, NEW j \in Jobs, NEW m \in Masks(j)
  PROVE  Reading(j, m) = [mask |-> m, content |-> Content(j.chunks)]
<1>1. SymbolOf(j).mqr = j.mqr
  BY DEF SymbolOf
<1>2. m \in 0..(maskNum(SymbolOf(j)) - 1)
  BY <1>1 DEF Masks, maskNumber, maskNum
<1>3. Reading(j, m) = Readings[j][m]
  BY ReadingAssumption
<1>4. Readings[j][m] = Read(SymbolOf(j), Masked(SymbolOf(j), Filled[j], m))
  BY DEF Readings, Made
<1>5. Read(SymbolOf(j), Masked(SymbolOf(j), Filled[j], m))
        = [mask |-> m, content |-> Content(ReadBits(SymbolOf(j), StreamOf(j)))]
  BY <1>2, StreamReadable, SymbolRead
<1> QED
  BY <1>3, <1>4, <1>5, StreamReadable

(* What is returned was made with a mask of the symbol.                     *)
Requested ==
  pc = "returned" /\ result # NULL /\ request # Automatic => heap[result] \in Masks(job)

(* A mask that was asked for is one of the symbol's.                        *)
LEMMA RequestedKept == IInv /\ Requested /\ [Next]_vars => Requested'
<1>1. SUFFICES ASSUME IInv, Requested, [Next]_vars PROVE Requested'
  OBVIOUS
<1>2. CASE MakeMask
  <2>1. SUFFICES ASSUME result' # NULL PROVE heap'[result'] \in Masks(job')
    BY DEF Requested
  <2>2. PICK b \in Blocks \ DOMAIN heap :
          request \in Masks(job) /\ heap' = Allocated(heap, b, request) /\ result' = b
    BY <1>2, <2>1 DEF MakeMask, Return
  <2>3. heap'[b] = request /\ job' = job
    BY <1>2, <2>2 DEF MakeMask, Allocated
  <2> QED
    BY <2>2, <2>3
<1>3. CASE NewMask
  BY <1>3 DEF NewMask, Requested
<1>4. CASE NewBestMask
  BY <1>1, <1>4 DEF NewBestMask, Requested, Return, IInv, AtSecond
<1>5. CASE TryWorse \/ CopyBetter \/ KeepBetter
  <2>1. pc = "try"
    BY <1>5 DEF TryWorse, CopyBetter, KeepBetter, KeepFreeing, InTurn
  <2>2. pc' \in {"try", "done"}
    BY <1>5, <2>1 DEF TryWorse, CopyBetter, KeepBetter, KeepFreeing
  <2> QED
    BY <2>2 DEF Requested
<1>6. CASE Finish
  BY <1>1, <1>6 DEF Finish, Requested, IInv, AtTry, AtDone
<1>7. CASE UNCHANGED vars
  BY <1>1, <1>7 DEF vars, Requested, Masks, maskNumber
<1> QED
  BY <1>1, <1>2, <1>3, <1>4, <1>5, <1>6, <1>7 DEF Next

(* What a reader finds in the symbol returned, whichever mask it was made   *)
(* with and whatever memory ran out on the way, is the input.               *)
THEOREM RecoversData ==
  ASSUME AllLegible
  PROVE  Spec => []DataRecovered
<1>1. Init => Requested
  BY DEF Init, Requested
<1>2. Spec => []Requested
  BY <1>1, Inductive, RequestedKept, PTL DEF Spec
<1>3. IInv /\ Requested => DataRecovered
  <2>1. SUFFICES ASSUME IInv, Requested, pc = "returned", result # NULL
                 PROVE  Reading(job, heap[result]) = [mask |-> heap[result], content |-> Content(job.chunks)]
    BY DEF DataRecovered
  <2>2. job \in Jobs
    BY <2>1 DEF IInv, Shape
  <2>3. heap[result] \in Masks(job)
    <3>1. CASE request = Automatic
      <4>1. heap[result] \in Tried /\ turn \in 0..maskNumber(job)
        BY <2>1, <3>1 DEF IInv, Shape, BestOfTried
      <4> QED
        BY <4>1 DEF Tried, Masks, maskNumber
    <3>2. CASE request # Automatic
      BY <2>1, <3>2 DEF Requested
    <3> QED
      BY <3>1, <3>2
  <2> QED
    BY <2>2, <2>3, ReadsJob
<1> QED
  BY <1>2, <1>3, Inductive, PTL
=============================================================================
