---------------------------- MODULE RSECCProofs ----------------------------
(* Proofs about RSECC for every set of threads and of lengths.              *)
EXTENDS RSECC, TLAPS

(* Positions before a thread has passed the first section, and those in it  *)
(* at which the thread has found `initialized' unset.                       *)
Initialising == {"fill", "filling", "clear", "publish"}
Generating   == {"gen", "generating", "publish2"}
Initiated    == {"length", "lock2", "test2", "gen", "generating", "publish2",
                 "unlock2", "encode"}

MutexInv == /\ HAVE_LIBPTHREAD => \A t \in Threads : pc[t] \in Section => mutex = t
PendingInv == \A t \in Threads :
                 /\ (pc[t] = "idle") <=> (len[t] = None)
                 /\ pc[t] \in Initiated \ {"length"} => len[t] \in Lengths
TablesInv == /\ initialized => lookup = "complete"
             /\ \A t \in Threads :
                  /\ pc[t] \in Initialising => ~initialized
                  /\ pc[t] \in {"clear", "publish"} => lookup = "complete"
                  /\ pc[t] \in Initiated \cup {"unlock"} => initialized
GeneratorInv == /\ \A l \in Lengths : generatorInitialized[l] =>
                      initialized /\ generator[l] = "complete"
                /\ \A t \in Threads :
                     /\ pc[t] \in Generating => ~generatorInitialized[len[t]]
                     /\ pc[t] = "publish2" => generator[len[t]] = "complete"
                     /\ pc[t] \in {"unlock2", "encode"} => generatorInitialized[len[t]]
SoundInv == \A t \in Threads : pc[t] # "idle" => sound[t]

IInv == TypeOK /\ MutexInv /\ PendingInv /\ TablesInv /\ GeneratorInv /\ SoundInv

USE ThreadsAssumption, ConstantsAssumption
-----------------------------------------------------------------------------
LEMMA TypeCorrectInit == Init => TypeOK
<1> SUFFICES ASSUME Init PROVE TypeOK
  OBVIOUS
<1>1. bytes \in [Threads -> 0..MaxBytes] /\ calls \in [Threads -> 0..MaxCalls]
  BY DEF Init
<1>2. generatorInitialized \in [Lengths -> BOOLEAN] /\ sound \in [Threads -> BOOLEAN]
  BY Zenon DEF Init
<1> QED BY <1>1, <1>2 DEF Init, TypeOK, Fill, Labels, Section

LEMMA TypeCorrectNext == TypeOK /\ [Next]_vars => TypeOK'
<1>2. TypeOK /\ [Next]_vars => TypeOK'
  <2> SUFFICES ASSUME TypeOK, [Next]_vars PROVE TypeOK'
    OBVIOUS
  <2> USE DEF TypeOK, Fill, Labels, Section, tables, local
  <2>1. CASE UNCHANGED vars
    BY <2>1 DEF vars
  <2>2. ASSUME NEW t \in Threads, NEW l \in Lengths \cup TooLong, NEW n \in 0..MaxBytes,
               Call(t, l, n)
        PROVE TypeOK'
    BY <2>2 DEF Call, Goto
  <2>3. ASSUME NEW t \in Threads, Step(t)
        PROVE TypeOK'
    <3>1. CASE AcquireInit(t) BY <3>1 DEF AcquireInit, Goto, Lock
    <3>2. CASE TestInitialized(t) BY <3>2 DEF TestInitialized, Goto
    <3>3. CASE BeginTables(t) BY <3>3 DEF BeginTables, Goto
    <3>4. CASE EndTables(t) BY <3>4 DEF EndTables, Goto
    <3>5. CASE ClearGenerators(t) BY <3>5 DEF ClearGenerators, Goto
    <3>6. CASE PublishTables(t) BY <3>6 DEF PublishTables, Goto
    <3>7. CASE ReleaseInit(t) BY <3>7 DEF ReleaseInit, Goto, Unlock
    <3>8. CASE RejectLength(t) BY <3>8 DEF RejectLength, Return, Goto
    <3>9. CASE AcceptLength(t) BY <3>9 DEF AcceptLength, Goto
    <3>10. CASE AcquireGenerator(t) BY <3>10 DEF AcquireGenerator, Goto, Lock
    <3>11. CASE TestGenerator(t) BY <3>11 DEF TestGenerator, Goto
    <3>12. CASE BeginGenerator(t) BY <3>12 DEF BeginGenerator, Goto
    <3>13. CASE EndGenerator(t) BY <3>13 DEF EndGenerator, Goto
    <3>14. CASE PublishGenerator(t) BY <3>14 DEF PublishGenerator, Goto
    <3>15. CASE ReleaseGenerator(t) BY <3>15 DEF ReleaseGenerator, Goto, Unlock
    <3>16. CASE EncodeByte(t) BY <3>16 DEF EncodeByte
    <3>17. CASE Finish(t) BY <3>17 DEF Finish, Return, Goto
    <3> QED BY <2>3, <3>1, <3>2, <3>3, <3>4, <3>5, <3>6, <3>7, <3>8, <3>9, <3>10, <3>11,
               <3>12, <3>13, <3>14, <3>15, <3>16, <3>17 DEF Step
  <2> QED BY <2>1, <2>2, <2>3 DEF Next
<1> QED BY <1>2

(* Every variable keeps its type.                                            *)
THEOREM TypeCorrect == Spec => []TypeOK
BY TypeCorrectInit, TypeCorrectNext, PTL DEF Spec

(* The inductive invariant: who holds the mutex, what a position implies    *)
(* about the tables, and that no thread ever read an unfinished table.      *)
LEMMA InductiveInvariant == Spec => []IInv
<1>1. Init => IInv
  <2> SUFFICES ASSUME Init PROVE IInv
    OBVIOUS
  <2>1. TypeOK
    BY TypeCorrectInit
  <2>2. SoundInv
    BY DEF Init, SoundInv
  <2> QED BY <2>1, <2>2 DEF Init, IInv, MutexInv, PendingInv, TablesInv, GeneratorInv,
             Section, Initialising, Generating, Initiated
<1>2. IInv /\ [Next]_vars => IInv'
  <2> SUFFICES ASSUME IInv, [Next]_vars PROVE IInv'
    OBVIOUS
  <2>0. TypeOK'
    BY TypeCorrectNext DEF IInv
  <2> USE <2>0 DEF IInv, MutexInv, PendingInv, TablesInv, GeneratorInv, SoundInv, TypeOK,
                   Section, Initialising, Generating, Initiated, tables, local
  <2>1. CASE UNCHANGED vars
    BY <2>1 DEF vars
  <2>2. ASSUME NEW t \in Threads, NEW l \in Lengths \cup TooLong, NEW n \in 0..MaxBytes,
               Call(t, l, n)
        PROVE IInv'
    BY <2>2 DEF Call, Goto
  <2>3. ASSUME NEW t \in Threads, Step(t)
        PROVE IInv'
    <3>1. CASE AcquireInit(t)
      BY <3>1 DEF AcquireInit, Goto, Lock
    <3>2. CASE TestInitialized(t)
      BY <3>2 DEF TestInitialized, Goto
    <3>3. CASE BeginTables(t)
      BY <3>3 DEF BeginTables, Goto
    <3>4. CASE EndTables(t)
      BY <3>4 DEF EndTables, Goto
    <3>5. CASE ClearGenerators(t)
      BY <3>5 DEF ClearGenerators, Goto
    <3>6. CASE PublishTables(t)
      BY <3>6 DEF PublishTables, Goto
    <3>7. CASE ReleaseInit(t)
      BY <3>7 DEF ReleaseInit, Goto, Unlock
    <3>8. CASE RejectLength(t)
      BY <3>8 DEF RejectLength, Goto, Return
    <3>9. CASE AcceptLength(t)
      BY <3>9 DEF AcceptLength, Goto
    <3>10. CASE AcquireGenerator(t)
      BY <3>10 DEF AcquireGenerator, Goto, Lock
    <3>11. CASE TestGenerator(t)
      BY <3>11 DEF TestGenerator, Goto
    <3>12. CASE BeginGenerator(t)
      BY <3>12 DEF BeginGenerator, Goto
    <3>13. CASE EndGenerator(t)
      BY <3>13 DEF EndGenerator, Goto
    <3>14. CASE PublishGenerator(t)
      BY <3>14 DEF PublishGenerator, Goto
    <3>15. CASE ReleaseGenerator(t)
      BY <3>15 DEF ReleaseGenerator, Goto, Unlock
    <3>16. CASE EncodeByte(t)
      BY <3>16 DEF EncodeByte
    <3>17. CASE Finish(t)
      BY <3>17 DEF Finish, Goto, Return
    <3> QED BY <2>3, <3>1, <3>2, <3>3, <3>4, <3>5, <3>6, <3>7, <3>8, <3>9, <3>10, <3>11, <3>12, <3>13, <3>14, <3>15, <3>16, <3>17 DEF Step
  <2> QED BY <2>1, <2>2, <2>3 DEF Next
<1> QED BY <1>1, <1>2, PTL DEF Spec
-----------------------------------------------------------------------------
(* Two threads are never both in a critical section: with the mutex because *)
(* one of them owns it, without it because there is only one thread.        *)
LEMMA MutualExclusion ==
  ASSUME IInv, NEW s \in Threads, NEW t \in Threads, pc[s] \in Section, pc[t] \in Section
  PROVE  s = t
BY DEF IInv, MutexInv

(* The unlocked reads of the encoding loop never meet a write, and no two    *)
(* critical sections overlap: rsecc.c has no data race.                     *)
THEOREM RaceFreedom == Spec => []NoDataRace
<1>1. IInv => NoDataRace
  <2> SUFFICES ASSUME IInv, NEW s \in Threads, NEW t \in Threads, s # t,
                      NEW x \in Writes(s), x \in Reads(t) \cup Writes(t)
               PROVE  FALSE
    BY DEF NoDataRace
  <2>1. pc[s] \in Section
    BY DEF Writes, Section
  <2>2. pc[t] \notin Section
    BY <2>1, MutualExclusion
  <2>3. pc[t] = "encode"
    BY <2>2 DEF Reads, Writes, Section
  <2>4. x = <<"lookup">> \/ x = <<"generator", len[t]>>
    BY <2>3 DEF Reads, Writes
  <2>5. initialized /\ generatorInitialized[len[t]]
    BY <2>3 DEF IInv, TablesInv, GeneratorInv, Initiated
  <2>6. pc[s] \in {"gen", "generating"} /\ len[s] = len[t]
    BY <2>4, <2>5 DEF Writes, IInv, TablesInv, Initialising
  <2> QED BY <2>5, <2>6 DEF IInv, GeneratorInv, Generating
<1> QED BY <1>1, InductiveInvariant, PTL

(* What a thread learned under the mutex stays true after it let go of it.   *)
THEOREM PublishedIsFinal == Spec => PublishedTablesAreFinal
<1> DEFINE Final == /\ initialized => initialized' /\ lookup' = lookup
                   /\ \A l \in Lengths : generatorInitialized[l] =>
                         generatorInitialized'[l] /\ generator'[l] = generator[l]
<1>1. IInv /\ [Next]_vars => [Final]_vars
  <2> SUFFICES ASSUME IInv, [Next]_vars PROVE Final
    OBVIOUS
  <2> USE DEF IInv, TablesInv, GeneratorInv, PendingInv, TypeOK, Initialising, Generating,
              Initiated, tables, local
  <2>1. CASE UNCHANGED vars
    BY <2>1 DEF vars
  <2>2. ASSUME NEW t \in Threads, NEW l \in Lengths \cup TooLong, NEW n \in 0..MaxBytes,
               Call(t, l, n)
        PROVE Final
    BY <2>2 DEF Call, Goto
  <2>3. ASSUME NEW t \in Threads, Step(t)
        PROVE Final
    <3>1. CASE AcquireInit(t)
      BY <3>1 DEF AcquireInit, Goto, Lock
    <3>2. CASE TestInitialized(t)
      BY <3>2 DEF TestInitialized, Goto
    <3>3. CASE BeginTables(t)
      BY <3>3 DEF BeginTables, Goto
    <3>4. CASE EndTables(t)
      BY <3>4 DEF EndTables, Goto
    <3>5. CASE ClearGenerators(t)
      BY <3>5 DEF ClearGenerators, Goto
    <3>6. CASE PublishTables(t)
      BY <3>6 DEF PublishTables, Goto
    <3>7. CASE ReleaseInit(t)
      BY <3>7 DEF ReleaseInit, Goto, Unlock
    <3>8. CASE RejectLength(t)
      BY <3>8 DEF RejectLength, Goto, Return
    <3>9. CASE AcceptLength(t)
      BY <3>9 DEF AcceptLength, Goto
    <3>10. CASE AcquireGenerator(t)
      BY <3>10 DEF AcquireGenerator, Goto, Lock
    <3>11. CASE TestGenerator(t)
      BY <3>11 DEF TestGenerator, Goto
    <3>12. CASE BeginGenerator(t)
      BY <3>12 DEF BeginGenerator, Goto
    <3>13. CASE EndGenerator(t)
      BY <3>13 DEF EndGenerator, Goto
    <3>14. CASE PublishGenerator(t)
      BY <3>14 DEF PublishGenerator, Goto
    <3>15. CASE ReleaseGenerator(t)
      BY <3>15 DEF ReleaseGenerator, Goto, Unlock
    <3>16. CASE EncodeByte(t)
      BY <3>16 DEF EncodeByte
    <3>17. CASE Finish(t)
      BY <3>17 DEF Finish, Goto, Return
    <3> QED BY <2>3, <3>1, <3>2, <3>3, <3>4, <3>5, <3>6, <3>7, <3>8, <3>9, <3>10, <3>11, <3>12, <3>13, <3>14, <3>15, <3>16, <3>17 DEF Step
  <2> QED BY <2>1, <2>2, <2>3 DEF Next
<1> QED BY <1>1, InductiveInvariant, PTL DEF Spec, PublishedTablesAreFinal
-----------------------------------------------------------------------------
(* The threads' view: each call is one atomic, correct answer.               *)
THEOREM Refinement == Spec => ImplementsService
<1>1. Init => Service!Init
  BY DEF Init, Service!Init
<1>2. IInv /\ [Next]_vars => [Service!Next]_(Service!vars)
  <2> SUFFICES ASSUME IInv, [Next]_vars PROVE [Service!Next]_(Service!vars)
    OBVIOUS
  <2> USE DEF IInv, PendingInv, SoundInv, TypeOK, Service!vars, local, tables
  <2>1. CASE UNCHANGED vars
    BY <2>1 DEF vars
  <2>2. ASSUME NEW t \in Threads, NEW l \in Lengths \cup TooLong, NEW n \in 0..MaxBytes,
               Call(t, l, n)
        PROVE Service!Next
    BY <2>2 DEF Call, Goto, Service!Next, Service!Invoke
  <2>3. ASSUME NEW t \in Threads, Step(t)
        PROVE [Service!Next]_(Service!vars)
    <3>1. CASE RejectLength(t)
      BY <3>1 DEF RejectLength, Return, Goto, Service!Next, Service!Respond, Service!Correct
    <3>2. CASE Finish(t)
      <4>1. sound[t] /\ len[t] \in Lengths
        BY <3>2 DEF Finish, Initiated
      <4> QED
        BY <3>2, <4>1 DEF Finish, Return, Goto, Service!Next, Service!Respond,
           Service!Correct
    <3>3. CASE UNCHANGED <<len, answer>>
      BY <3>3
    <3> QED BY <2>3, <3>1, <3>2, <3>3 DEF Step, AcquireInit, TestInitialized, BeginTables,
               EndTables, ClearGenerators, PublishTables, ReleaseInit, AcceptLength,
               AcquireGenerator, TestGenerator, BeginGenerator, EndGenerator,
               PublishGenerator, ReleaseGenerator, EncodeByte
  <2> QED BY <2>1, <2>2, <2>3 DEF Next
<1> QED BY <1>1, <1>2, InductiveInvariant, PTL DEF Spec, ImplementsService, Service!Spec
=============================================================================
