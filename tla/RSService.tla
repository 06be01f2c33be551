------------------------------ MODULE RSService ------------------------------
(***************************************************************************)
(* What RSECC_encode promises to its callers: every call answers once,     *)
(* with the error code for a length the tables do not cover and with the   *)
(* Reed-Solomon code words otherwise, whatever the other threads do.       *)
(***************************************************************************)
CONSTANTS Threads,   \* the callers
          Lengths,   \* the ecc_length values the generator table covers
          TooLong,   \* ecc_length values above max_length
          None       \* no call is pending

VARIABLES request,   \* request[t]: the ecc_length of t's pending call, or None
          answer     \* answer[t]: what t's last call answered

vars == <<request, answer>>

Correct(len) == IF len \in TooLong THEN "error" ELSE "codewords"

Init == /\ request = [t \in Threads |-> None]
        /\ answer = [t \in Threads |-> "none"]

Invoke(t, len) == /\ request[t] = None
                  /\ request' = [request EXCEPT ![t] = len]
                  /\ answer' = [answer EXCEPT ![t] = "none"]

Respond(t) == /\ request[t] # None
              /\ answer' = [answer EXCEPT ![t] = Correct(request[t])]
              /\ request' = [request EXCEPT ![t] = None]

Next == \E t \in Threads : \/ \E len \in Lengths \cup TooLong : Invoke(t, len)
                           \/ Respond(t)

Spec == Init /\ [][Next]_vars
==============================================================================
