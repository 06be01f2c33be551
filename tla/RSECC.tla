-------------------------------- MODULE RSECC --------------------------------
(***************************************************************************)
(* src/rsecc.c: the lazily built tables that every thread calling          *)
(* RSECC_encode shares.  The log/antilog tables are filled by the first    *)
(* call, a generator polynomial by the first call of its length; both      *)
(* fills and both tests happen under RSECC_mutex, the encoding loop reads  *)
(* without it.  A fill is two steps (begin, end), so another thread may    *)
(* run in its middle.  Field arithmetic is abstracted to whether every     *)
(* table a computation read was complete when it read it.  Definitions     *)
(* named ...Unlocked, ...Forgotten, ...OneMore are the faulty variants the  *)
(* properties must detect; no specification uses them.                     *)
(***************************************************************************)
EXTENDS Naturals

CONSTANTS Threads,         \* callers of RSECC_encode
          Lengths,         \* ecc_length values the generator table covers
          TooLong,         \* ecc_length values above max_length
          None,            \* no thread, no call
          MaxCalls,        \* bound: calls each thread makes
          MaxBytes,        \* bound: data_length of a call
          HAVE_LIBPTHREAD  \* built with the mutex

\* qrencode.h: "THREAD UNSAFE when pthread is disabled".
ASSUME ThreadsAssumption ==
  /\ HAVE_LIBPTHREAD \in BOOLEAN
  /\ HAVE_LIBPTHREAD \/ \A s, t \in Threads : s = t
ASSUME ConstantsAssumption ==
  /\ Lengths \cap TooLong = {} /\ None \notin Threads \cup Lengths \cup TooLong
  /\ MaxCalls \in Nat /\ MaxBytes \in Nat

VARIABLES mutex,                 \* RSECC_mutex: its owner or None
          initialized,
          lookup,                \* alpha[] and aindex[]
          generatorInitialized,
          generator,
          pc, len, bytes,        \* per thread: position, ecc_length, data bytes to go
          sound,                 \* per thread: every table read was complete
          answer,                \* per thread: result of its last call
          calls                  \* per thread: calls made

tables == <<initialized, lookup, generatorInitialized, generator>>
local  == <<len, bytes, sound, answer, calls>>
vars   == <<mutex, tables, pc, local>>

Fill == {"absent", "partial", "complete", "garbage"}

Init == /\ mutex = None
        /\ initialized = FALSE
        /\ lookup = "absent"
        /\ generatorInitialized = [l \in Lengths |-> FALSE]
        /\ generator = [l \in Lengths |-> "absent"]
        /\ pc = [t \in Threads |-> "idle"]
        /\ len = [t \in Threads |-> None]
        /\ bytes = [t \in Threads |-> 0]
        /\ sound = [t \in Threads |-> TRUE]
        /\ answer = [t \in Threads |-> "none"]
        /\ calls = [t \in Threads |-> 0]

Goto(t, label) == pc' = [pc EXCEPT ![t] = label]
-----------------------------------------------------------------------------
(* pthread_mutex_lock / unlock; compiled to nothing without libpthread.     *)
Lock(t)   == IF HAVE_LIBPTHREAD THEN mutex = None /\ mutex' = t
                                ELSE UNCHANGED mutex
Unlock(t) == IF HAVE_LIBPTHREAD THEN mutex' = None ELSE UNCHANGED mutex

Call(t, l, n) == /\ pc[t] = "idle" /\ calls[t] < MaxCalls
                 /\ Goto(t, "lock")
                 /\ len' = [len EXCEPT ![t] = l]
                 /\ bytes' = [bytes EXCEPT ![t] = n]
                 /\ sound' = [sound EXCEPT ![t] = TRUE]
                 /\ answer' = [answer EXCEPT ![t] = "none"]
                 /\ calls' = [calls EXCEPT ![t] = @ + 1]
                 /\ UNCHANGED <<mutex, tables>>

Return(t, result) == /\ Goto(t, "idle")
                     /\ len' = [len EXCEPT ![t] = None]
                     /\ answer' = [answer EXCEPT ![t] = result]
                     /\ UNCHANGED <<mutex, tables, bytes, sound, calls>>
-----------------------------------------------------------------------------
(* First critical section: the lookup tables.                               *)
AcquireInitUnlocked(t) == /\ pc[t] = "lock" /\ Goto(t, "test")
                          /\ UNCHANGED <<mutex, tables, local>>
AcquireInit(t) == /\ pc[t] = "lock" /\ Lock(t) /\ Goto(t, "test")
                  /\ UNCHANGED <<tables, local>>

TestInitialized(t) == /\ pc[t] = "test"
                      /\ Goto(t, IF initialized THEN "unlock" ELSE "fill")
                      /\ UNCHANGED <<mutex, tables, local>>

BeginTables(t) == /\ pc[t] = "fill" /\ Goto(t, "filling")
                  /\ lookup' = "partial"
                  /\ UNCHANGED <<mutex, initialized, generatorInitialized, generator, local>>

EndTables(t) == /\ pc[t] = "filling" /\ Goto(t, "clear")
                /\ lookup' = "complete"
                /\ UNCHANGED <<mutex, initialized, generatorInitialized, generator, local>>

ClearGenerators(t) == /\ pc[t] = "clear" /\ Goto(t, "publish")
                      /\ generatorInitialized' = [l \in Lengths |-> FALSE]
                      /\ UNCHANGED <<mutex, initialized, lookup, generator, local>>

PublishTablesForgotten(t) == /\ pc[t] = "publish" /\ Goto(t, "unlock")
                        /\ UNCHANGED <<mutex, tables, local>>
PublishTables(t) == /\ pc[t] = "publish" /\ Goto(t, "unlock")
                    /\ initialized' = TRUE
                    /\ UNCHANGED <<mutex, lookup, generatorInitialized, generator, local>>

ReleaseInit(t) == /\ pc[t] = "unlock" /\ Unlock(t) /\ Goto(t, "length")
                  /\ UNCHANGED <<tables, local>>
-----------------------------------------------------------------------------
(* The length check comes after the first section: an over-long request     *)
(* still builds the lookup tables before it is refused.                     *)
RejectLength(t) == /\ pc[t] = "length" /\ len[t] \in TooLong
                   /\ Return(t, "error")

AcceptLength(t) == /\ pc[t] = "length" /\ len[t] \notin TooLong
                   /\ Goto(t, "lock2")
                   /\ UNCHANGED <<mutex, tables, local>>
-----------------------------------------------------------------------------
(* Second critical section: the generator polynomial of this length.        *)
AcquireGeneratorUnlocked(t) == /\ pc[t] = "lock2" /\ Goto(t, "test2")
                           /\ UNCHANGED <<mutex, tables, local>>
AcquireGenerator(t) == /\ pc[t] = "lock2" /\ Lock(t) /\ Goto(t, "test2")
                       /\ UNCHANGED <<tables, local>>

TestGenerator(t) == /\ pc[t] = "test2"
                    /\ Goto(t, IF generatorInitialized[len[t]] THEN "unlock2" ELSE "gen")
                    /\ UNCHANGED <<mutex, tables, local>>

BeginGenerator(t) == /\ pc[t] = "gen" /\ Goto(t, "generating")
                     /\ generator' = [generator EXCEPT ![len[t]] = "partial"]
                     /\ UNCHANGED <<mutex, initialized, lookup, generatorInitialized, local>>

EndGenerator(t) == /\ pc[t] = "generating" /\ Goto(t, "publish2")
                   /\ generator' = [generator EXCEPT ![len[t]] =
                                      IF lookup = "complete" THEN "complete" ELSE "garbage"]
                   /\ UNCHANGED <<mutex, initialized, lookup, generatorInitialized, local>>

PublishGenerator(t) == /\ pc[t] = "publish2" /\ Goto(t, "unlock2")
                       /\ generatorInitialized' = [generatorInitialized EXCEPT ![len[t]] = TRUE]
                       /\ UNCHANGED <<mutex, initialized, lookup, generator, local>>

ReleaseGeneratorForgotten(t) == /\ pc[t] = "unlock2" /\ Goto(t, "encode")
                           /\ UNCHANGED <<mutex, tables, local>>
ReleaseGenerator(t) == /\ pc[t] = "unlock2" /\ Unlock(t) /\ Goto(t, "encode")
                       /\ UNCHANGED <<tables, local>>
-----------------------------------------------------------------------------
(* The encoding loop, outside the mutex: one iteration per data byte.       *)
EncodeByteOneMore(t) == /\ pc[t] = "encode" /\ bytes[t] >= 0
                        /\ bytes' = [bytes EXCEPT ![t] = @ - 1]
                        /\ UNCHANGED <<mutex, tables, pc, len, sound, answer, calls>>
EncodeByte(t) == /\ pc[t] = "encode" /\ bytes[t] > 0
                 /\ bytes' = [bytes EXCEPT ![t] = @ - 1]
                 /\ sound' = [sound EXCEPT ![t] =
                       @ /\ lookup = "complete" /\ generator[len[t]] = "complete"]
                 /\ UNCHANGED <<mutex, tables, pc, len, answer, calls>>

Finish(t) == /\ pc[t] = "encode" /\ bytes[t] = 0
             /\ Return(t, IF sound[t] THEN "codewords" ELSE "garbage")

Step(t) == \/ AcquireInit(t) \/ TestInitialized(t) \/ BeginTables(t) \/ EndTables(t)
           \/ ClearGenerators(t) \/ PublishTables(t) \/ ReleaseInit(t)
           \/ RejectLength(t) \/ AcceptLength(t)
           \/ AcquireGenerator(t) \/ TestGenerator(t) \/ BeginGenerator(t)
           \/ EndGenerator(t) \/ PublishGenerator(t) \/ ReleaseGenerator(t)
           \/ EncodeByte(t) \/ Finish(t)

Next == \E t \in Threads :
           \/ \E l \in Lengths \cup TooLong, n \in 0..MaxBytes : Call(t, l, n)
           \/ Step(t)

Spec == Init /\ [][Next]_vars

\* A runnable thread is eventually scheduled.  The mutex itself is not fair: a
\* caller gets in because the others make finitely many calls (MaxCalls).
FairSpec == Spec /\ \A t \in Threads : WF_vars(Step(t))
-----------------------------------------------------------------------------
(* The accesses to shared memory that thread t is about to make.            *)
Reads(t) ==
  CASE pc[t] = "test"       -> {<<"initialized">>}
    [] pc[t] = "test2"      -> {<<"flag", len[t]>>}
    [] pc[t] = "generating" -> {<<"lookup">>}
    [] pc[t] = "encode"     -> {<<"lookup">>, <<"generator", len[t]>>}
    [] OTHER                -> {}

Writes(t) ==
  CASE pc[t] \in {"fill", "filling"}   -> {<<"lookup">>}
    [] pc[t] = "clear"                 -> {<<"flag", l>> : l \in Lengths}
    [] pc[t] = "publish"               -> {<<"initialized">>}
    [] pc[t] \in {"gen", "generating"} -> {<<"generator", len[t]>>}
    [] pc[t] = "publish2"              -> {<<"flag", len[t]>>}
    [] OTHER                           -> {}

\* The mutex is held for the two sections that touch the shared tables.
Section == {"test", "fill", "filling", "clear", "publish", "unlock",
            "test2", "gen", "generating", "publish2", "unlock2"}
Labels  == Section \cup {"idle", "lock", "length", "lock2", "encode"}

(* Type invariant: every variable, and the locals of a pending call.        *)
TypeOK == /\ mutex \in Threads \cup {None}
          /\ initialized \in BOOLEAN
          /\ lookup \in Fill
          /\ generatorInitialized \in [Lengths -> BOOLEAN]
          /\ generator \in [Lengths -> Fill]
          /\ pc \in [Threads -> Labels]
          /\ len \in [Threads -> Lengths \cup TooLong \cup {None}]
          /\ bytes \in [Threads -> 0..MaxBytes]
          /\ sound \in [Threads -> BOOLEAN]
          /\ answer \in [Threads -> {"none", "error", "codewords", "garbage"}]
          /\ calls \in [Threads -> 0..MaxCalls]

(* No two threads are about to access the same table when one of them       *)
(* writes it: the unlocked reads of the encoding loop never meet a fill.    *)
NoDataRace == \A s, t \in Threads :
                 s # t => Writes(s) \cap (Reads(t) \cup Writes(t)) = {}

(* A published table is never rebuilt, cleared or unpublished: no step      *)
(* invalidates what a thread learned before it released the mutex.          *)
PublishedTablesAreFinal ==
  [][/\ initialized => initialized' /\ lookup' = lookup
     /\ \A l \in Lengths : generatorInitialized[l] =>
           generatorInitialized'[l] /\ generator'[l] = generator[l]]_vars

(* The calls are atomic to their callers: RSService, with the pending       *)
(* length as the request.  A result computed from an unfinished table       *)
(* ("garbage") is no answer of RSService.                                   *)
Service == INSTANCE RSService WITH request <- len
ImplementsService == Service!Spec

(* Every call returns: no caller is left waiting for the mutex.             *)
EveryCallReturns == \A t \in Threads : pc[t] = "lock" ~> pc[t] = "idle"
==============================================================================
