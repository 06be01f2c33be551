----------------------------- MODULE EntryPoints -----------------------------
(***************************************************************************)
(* The calls of src/qrencode.c that make symbols of a text: one symbol     *)
(* (QRcode_encodeString, QRcode_encodeData), a Micro QR symbol of the      *)
(* least version that will do (QRcode_encodeStringMQR, ...DataMQR), or a   *)
(* list of symbols (QRcode_encodeStringStructured, ...DataStructured).     *)
(* They are StructSplit and EncodeStream put together with every block of  *)
(* memory: each allocation may fail, and the caller gets all or nothing.   *)
(* A program that appends chunks itself (also ECI headers, or none) and has*)
(* them split and encoded takes the same steps.                            *)
(***************************************************************************)
EXTENDS StructSplit

CONSTANTS Calls,              \* records [kind, input, version, level]
          VMax, MVMax,        \* QRSPEC_VERSION_MAX, MQRSPEC_VERSION_MAX
          EncodedMQR(_, _),   \* bits a chunk takes in a Micro QR symbol
          Encodable(_, _),    \* as in EncodeStream, of <<"QR" or "MQR", chunk list>>
          DataLengthBit(_, _)

Header == [mode |-> "STRUCTURE", size |-> 3, eci |-> 0]

ASSUME CallsAssumption ==
  /\ VMax \in Nat /\ MVMax \in Nat
  /\ \A c \in Calls :
       /\ c.version \in Nat /\ c.input \in Seq([mode : STRING, size : Nat, eci : Nat])
       /\ c.kind = "structured" /\ c.version > 0 =>
            c.input \in Inputs /\ <<c.version, c.level>> \in Specs
       /\ c.kind = "micro" => \A v \in 1..MVMax :
            /\ DataLengthBit(v, c.level) \in Nat
            /\ \A i \in 1..Len(c.input) : EncodedMQR(c.input[i], v) \in Nat
(* How far off an estimate is.  At the version of the split it does not     *)
(* exceed the bits of a piece that fits the symbol.  At a lower version,    *)
(* where a search begins, it may: shorter length fields may take the piece  *)
(* for several chunks (257 bytes at version 10, 2048 alphanumeric           *)
(* characters at 27), each with a head.  It exceeds them by at most one part*)
(* in Margin, and the next version has more room than that.  (Not so with   *)
(* an ECI header, qrinput.c:882.)                                           *)
Margin == 128
EstimateNear(x, s, versions) ==
  Encoded(x, s[1]) <= MaximumBits(s) =>
    /\ Estimated(x, s[1]) <= Encoded(x, s[1])
    /\ \A p \in versions : Margin * Estimated(x, p) <= (Margin + 1) * Encoded(x, s[1])
RoomToSpare(s) ==
  LET next == <<s[1] + 1, s[2]>>
  IN  DataLength(s[1] + 1, s[2]) \in Nat /\ (Margin + 1) * MaximumBits(s) <= Margin * MaximumBits(next)
(* Of two versions in a row, or of all up to v but for those the search     *)
(* began with, the estimates are the same: length fields grow twice.        *)
SameEstimates(p, q) ==
  \A c \in Chunks : c.mode # "ECI" => \A n \in 1..c.size :
    WholeUnits(c, n) => Estimated(Sized(c, n), p) = Estimated(Sized(c, n), q)
GrowApart(v) == SameEstimates(v, v + 1) \/ \A p \in 0..v : SameEstimates(p, v) \/ SameEstimates(p, 0)

ASSUME EstimatesNearAssumption ==
  \A s \in Specs : s[1] > 0 =>
    /\ s[1] \in 1..VMax /\ Encoded(Header, s[1]) = HeaderSize
    /\ \A p \in 0..VMax : Estimated(Header, p) = HeaderSize
    /\ \A c \in Chunks : c.mode # "ECI" => \A n \in 1..c.size : WholeUnits(c, n) =>
         /\ \A p \in 0..VMax : Estimated(Sized(c, n), p) \in Nat
         /\ EstimateNear(Sized(c, n), s, 0..s[1])
    /\ s[1] < VMax => RoomToSpare(s) /\ GrowApart(s[1])

VARIABLES call,       \* its kind
          pc,
          heap,       \* live blocks of memory
          object,     \* QRinput: its blocks; none is NULL, here and below
          struct,     \* QRinput_Struct
          raw, frame, masked, code,  \* of QRcode_encodeMask; code is what it returns
          codes,      \* the list of symbols: [blocks, version]
          starved,    \* some allocation failed
          source,     \* what is being encoded: <<"QR" or "MQR", chunk list>>
          objversion, phase, base, prev, streamBits, length, encodes  \* EncodeStream

memory     == <<heap, object, struct, raw, frame, masked, code, codes>>
streamVars == <<objversion, phase, base, prev, streamBits, length, encodes>>
callVars   == <<vars, call, pc, memory, starved, source, streamVars>>

Micro      == call = "micro"
Structured == call = "structured"

(* The chunks of the k-th member of the struct, behind a header unless it   *)
(* is the only one.                                                         *)
Behind(k) ==  \* how many pieces the symbols up to k hold
  CHOOSE i \in 0..Len(placed) : \A j \in 1..Len(placed) : placed[j].symbol <= k <=> j <= i
PiecesOf(k) ==
  [n \in 1..Behind(k) - Behind(k - 1) |->
     LET p == placed[Behind(k - 1) + n] IN Sized(input[p.chunk], p.hi - p.lo)]
Member(k) == IF symbols = 1 THEN PiecesOf(k) ELSE <<Header>> \o PiecesOf(k)

(* QRinput_estimateBitStreamSize, QRinput_createBitStream: the bits of a    *)
(* list.                                                                    *)
Total(sizes) ==
  LET upto[i \in 0..Len(sizes)] == IF i = 0 THEN 0 ELSE upto[i - 1] + sizes[i]
  IN  upto[Len(sizes)]
EstimatedList(d, v) == Total([i \in 1..Len(d[2]) |-> Estimated(d[2][i], v)])
EncodedList(d, v) ==
  Total([i \in 1..Len(d[2]) |-> IF d[1] = "QR" THEN Encoded(d[2][i], v) ELSE EncodedMQR(d[2][i], v)])

\* What is encoded as a Micro QR symbol; the members of a struct are QR.
MicroInputs == {<<"MQR", c.input>> : c \in {d \in Calls : d.kind = "micro"}}
Stream == INSTANCE EncodeStream
  WITH Data <- {}, MicroData <- MicroInputs,   \* (the actions do not look at Data)
       Levels <- 0..3, Requests <- {}, MaxEncodes <- VMax,
       Estimated <- EstimatedList, Encoded <- EncodedList,
       data <- source, version <- objversion, bits <- streamBits

Block(name) == {<<name, encodes>>}
Blocks(list) == UNION {list[k].blocks : k \in DOMAIN list}

splitVars == <<input, version, level, chunk, offset, placed, symbols, bits, status>>
Starve    == errno' = "ENOMEM" /\ starved' = TRUE
Fine      == UNCHANGED <<errno, starved>>

CallInit ==
  /\ \E c \in Calls :
       /\ call = c.kind /\ input = c.input /\ version = c.version /\ level = c.level
       /\ objversion = (IF c.kind = "micro" /\ c.version = 0 THEN 1 ELSE c.version)
  /\ chunk = 1 /\ offset = 0 /\ placed = <<>> /\ symbols = 0 /\ bits = 0
  /\ status = "called" /\ errno = "none"
  /\ pc = "call" /\ codes = <<>> /\ starved = FALSE
  /\ heap = {} /\ object = {} /\ struct = {} /\ raw = {} /\ frame = {} /\ masked = {} /\ code = {}
  /\ source = <<"QR", <<>>>> /\ phase = "ready" /\ base = 0 /\ prev = 0
  /\ streamBits = 0 /\ length = 0 /\ encodes = 0
-----------------------------------------------------------------------------
(* The input is made: QRinput_new2 or QRinput_newMQR, and the chunks of the *)
(* text.  The loop over the versions of Micro QR ends after the last.       *)
\* Faulty variant: the last version is left out.
LastLeftOut  == objversion < MVMax
VersionsLeft == objversion <= MVMax
\* QRinput_new2, QRinput_newMQR; a list of symbols needs a version
\* (qrencode.c:865).
Valid == IF Micro THEN Stream!ValidMQR(objversion, level)
                  ELSE version <= VMax /\ level \in 0..3 /\ (Structured => version > 0)
\* Where the function that made the input goes on after a failure.
Failed == IF Micro THEN "next" ELSE "returned"

NewObject ==
  /\ pc = "call"
  /\ \/ Micro /\ ~VersionsLeft /\ pc' = "returned" /\ Fine /\ UNCHANGED <<heap, object>>
     \/ /\ Micro => VersionsLeft
        /\ \/ ~Valid /\ errno' = "EINVAL" /\ pc' = Failed /\ UNCHANGED <<heap, object, starved>>
           \/ Valid /\ Starve /\ pc' = Failed /\ UNCHANGED <<heap, object>>
           \/ Valid /\ object' = Block("input") /\ heap' = heap \cup object' /\ pc' = "append" /\ Fine
  /\ UNCHANGED <<splitVars, call, source, struct, raw, frame, masked, code, codes, streamVars>>

FreeObject == heap' = heap \ object /\ object' = {}

\* An empty text is refused.
AppendText ==
  /\ pc = "append"
  /\ \/ Starve /\ FreeObject /\ pc' = Failed /\ UNCHANGED source
     \/ /\ input = <<>> /\ errno' = "EINVAL" /\ FreeObject /\ pc' = Failed
        /\ UNCHANGED <<source, starved>>
     \/ /\ Micro => input # <<>>
        /\ pc' = (IF Structured THEN "split" ELSE "raw") /\ Fine /\ UNCHANGED <<heap, object>>
        /\ source' = <<IF Micro THEN "MQR" ELSE "QR", input>>
  /\ UNCHANGED <<splitVars, call, struct, raw, frame, masked, code, codes, streamVars>>

(* Micro QR: whatever the failure, the next version is tried.  Faulty       *)
(* variant: the same one again.                                             *)
SameVersion ==
  /\ pc = "next" /\ pc' = "call"
  /\ UNCHANGED <<vars, call, source, memory, starved, streamVars>>
NextVersion ==
  /\ pc = "next" /\ pc' = "call"
  /\ objversion' = objversion + 1
  /\ UNCHANGED <<vars, call, source, memory, starved, phase, base, prev, streamBits, length, encodes>>
-----------------------------------------------------------------------------
(* QRcode_encodeInputToStructured and QRcode_encodeInputStructured.         *)
Split ==
  /\ pc = "split"
  /\ \/ Step /\ UNCHANGED starved
     \/ OutOfMemory /\ starved' = TRUE
  /\ UNCHANGED <<call, pc, memory, source, streamVars>>

SplitReturns ==
  /\ pc = "split" /\ status \in {"done", "failed"}
  /\ IF status = "failed" THEN pc' = "free" /\ UNCHANGED <<heap, struct>>
     ELSE struct' = Block("struct") /\ heap' = heap \cup struct' /\ pc' = "entry"
  /\ UNCHANGED <<vars, call, source, object, raw, frame, masked, code, codes, starved, streamVars>>

(* An entry of the list for the next member.                                *)
NewEntry ==
  /\ pc = "entry"
  /\ UNCHANGED <<splitVars, call, object, struct, raw, frame, masked, code,
                 phase, base, prev, streamBits, length, encodes>>
  /\ \/ /\ \/ Len(codes) = symbols /\ pc' = "free" /\ Fine
           \/ Len(codes) < symbols /\ pc' = "abort" /\ Starve
        /\ UNCHANGED <<heap, codes, source, objversion>>
     \/ /\ Len(codes) < symbols /\ pc' = "raw" /\ Fine
        /\ codes' = Append(codes, [blocks |-> Block("entry"), version |-> 0])
        /\ heap' = heap \cup Block("entry")
        /\ source' = <<"QR", Member(Len(codes'))>> /\ objversion' = version

(* QRcode_List_free.                                                        *)
Abort ==
  /\ pc = "abort" /\ pc' = "free"
  /\ heap' = heap \ Blocks(codes) /\ codes' = <<>>
  /\ UNCHANGED <<vars, call, source, object, struct, raw, frame, masked, code, starved, streamVars>>

FreeInputs ==
  /\ pc = "free" /\ pc' = "returned"
  /\ heap' = heap \ (struct \cup object) /\ struct' = {} /\ object' = {}
  /\ UNCHANGED <<vars, call, source, raw, frame, masked, code, codes, starved, streamVars>>
-----------------------------------------------------------------------------
(* QRcode_encodeMask, QRcode_encodeMaskMQR.                                 *)
NewRaw ==
  /\ pc = "raw"
  /\ UNCHANGED <<splitVars, call, source, object, struct, frame, masked, code, codes>>
  /\ \/ Starve /\ pc' = "encoded" /\ UNCHANGED <<heap, raw, streamVars>>
     \/ /\ raw' = Block("raw") /\ heap' = heap \cup raw' /\ pc' = "stream" /\ Fine
        /\ Stream!GetByteStream

GetByteStream ==
  /\ pc = "stream"
  /\ UNCHANGED <<splitVars, call, source, pc, memory>>
  /\ \/ Stream!Encode /\ Fine
     \/ Stream!OutOfMemory /\ Starve

\* Without the stream what was allocated for it is freed.
GiveUp(next) == heap' = heap \ raw /\ raw' = {} /\ pc' = next

GetByteStreamReturns ==
  /\ pc = "stream" /\ phase \in Stream!Finished
  /\ IF phase = "done"
       THEN /\ raw' = raw \cup Block("datacode") /\ heap' = heap \cup raw' /\ pc' = "ecccode"
            /\ UNCHANGED errno
       ELSE GiveUp("encoded") /\ errno' = phase
  /\ UNCHANGED <<splitVars, call, source, object, struct, frame, masked, code, codes, starved, streamVars>>

\* Faulty variant: the byte stream is forgotten.
ForgetStream ==
  /\ pc = "ecccode"
  /\ \/ Starve /\ heap' = heap \ {b \in raw : b[1] = "raw"} /\ raw' = {} /\ pc' = "encoded"
     \/ raw' = raw \cup Block("ecccode") /\ heap' = heap \cup raw' /\ pc' = "rsblock" /\ Fine
  /\ UNCHANGED <<splitVars, call, source, object, struct, frame, masked, code, codes, streamVars>>
NewEcccode ==
  /\ pc = "ecccode"
  /\ \/ Starve /\ GiveUp("encoded")
     \/ raw' = raw \cup Block("ecccode") /\ heap' = heap \cup raw' /\ pc' = "rsblock" /\ Fine
  /\ UNCHANGED <<splitVars, call, source, object, struct, frame, masked, code, codes, streamVars>>

NewRsblock ==
  /\ pc = "rsblock"
  /\ \/ Starve /\ GiveUp("encoded")
     \/ raw' = raw \cup Block("rsblock") /\ heap' = heap \cup raw' /\ pc' = "frame" /\ Fine
  /\ UNCHANGED <<splitVars, call, source, object, struct, frame, masked, code, codes, streamVars>>

NewFrame ==
  /\ pc = "frame"
  /\ \/ Starve /\ GiveUp("encoded") /\ UNCHANGED frame
     \/ frame' = Block("frame") /\ heap' = heap \cup frame' /\ pc' = "place" /\ Fine /\ UNCHANGED raw
  /\ UNCHANGED <<splitVars, call, source, object, struct, masked, code, codes, streamVars>>

(* The frame is filled (Symbol shows that this never ends early).           *)
FillFrame ==
  /\ pc = "place"
  /\ GiveUp("mask")
  /\ UNCHANGED <<vars, call, source, object, struct, frame, masked, code, codes, starved, streamVars>>

(* The masking (Mask).                                                      *)
MaskFrame ==
  /\ pc = "mask"
  /\ \/ Starve /\ pc' = "exit" /\ UNCHANGED <<heap, masked>>
     \/ masked' = Block("masked") /\ heap' = heap \cup masked' /\ pc' = "code" /\ Fine
  /\ UNCHANGED <<splitVars, call, source, object, struct, raw, frame, code, codes, streamVars>>

QRcode_new ==
  /\ pc = "code" /\ pc' = "exit"
  /\ masked' = {}
  /\ \/ Starve /\ heap' = heap \ masked /\ UNCHANGED code
     \/ code' = masked \cup Block("qrcode") /\ heap' = heap \cup code' /\ Fine
  /\ UNCHANGED <<splitVars, call, source, object, struct, raw, frame, codes, streamVars>>

Exit ==
  /\ pc = "exit" /\ pc' = "encoded"
  /\ heap' = heap \ (raw \cup frame) /\ raw' = {} /\ frame' = {}
  /\ UNCHANGED <<vars, call, source, object, struct, masked, code, codes, starved, streamVars>>

(* Back in the caller: the symbol joins the list, or is the result.  Faulty *)
(* variant: the symbols made before one that failed are returned.           *)
ReturnShort ==
  /\ pc = "encoded" /\ Structured
  /\ IF code = {} THEN pc' = "free" /\ UNCHANGED codes
     ELSE /\ pc' = "entry"
          /\ codes' = [codes EXCEPT ![Len(codes)] =
                         [blocks |-> @.blocks \cup code, version |-> objversion]]
  /\ code' = {}
  /\ UNCHANGED <<vars, call, source, heap, object, struct, raw, frame, masked, starved, streamVars>>
AddToList ==
  /\ pc = "encoded" /\ Structured
  /\ IF code = {} THEN pc' = "abort" /\ UNCHANGED codes
     ELSE /\ pc' = "entry"
          /\ codes' = [codes EXCEPT ![Len(codes)] =
                         [blocks |-> @.blocks \cup code, version |-> objversion]]
  /\ code' = {}
  /\ UNCHANGED <<vars, call, source, heap, object, struct, raw, frame, masked, starved, streamVars>>

GiveToCaller ==
  /\ pc = "encoded" /\ ~Structured
  /\ FreeObject
  /\ codes' = (IF code = {} THEN <<>> ELSE <<[blocks |-> code, version |-> objversion]>>)
  /\ code' = {}
  /\ pc' = (IF code = {} /\ Micro THEN "next" ELSE "returned")
  /\ UNCHANGED <<vars, call, source, struct, raw, frame, masked, starved, streamVars>>

CallNext ==
  \/ NewObject \/ AppendText \/ NextVersion
  \/ Split \/ SplitReturns \/ NewEntry \/ Abort \/ FreeInputs
  \/ NewRaw \/ GetByteStream \/ GetByteStreamReturns \/ NewEcccode \/ NewRsblock \/ NewFrame
  \/ FillFrame \/ MaskFrame \/ QRcode_new \/ Exit
  \/ AddToList \/ GiveToCaller

CallSpec == CallInit /\ [][CallNext]_callVars
FairCallSpec == CallSpec /\ WF_callVars(CallNext)  \* a call runs until it returns
-----------------------------------------------------------------------------
(* At every moment the live blocks are those some variable still reaches:   *)
(* no path, after any failed allocation, loses a block or keeps one that    *)
(* was freed; at the return the symbols are all there is.                   *)
BlocksOwned ==
  /\ heap = UNION {object, struct, raw, frame, masked, code, Blocks(codes)}
  /\ pc = "returned" => heap = Blocks(codes)

(* A list of symbols is complete: one for each member of the split, each    *)
(* with its data, and of the version asked for, which the room kept for the *)
(* header is for.  (An ECI header is overestimated, qrinput.c:882, so that  *)
(* the version of its symbol may rise.)                                     *)
ListComplete ==
  pc = "returned" /\ Structured /\ codes # <<>> =>
    /\ Len(codes) = symbols /\ status = "done"
    /\ \A k \in DOMAIN codes :
         /\ {b[1] : b \in codes[k].blocks} = {"entry", "masked", "qrcode"}
         /\ (\A n \in DOMAIN PiecesOf(k) : PiecesOf(k)[n].mode # "ECI") => codes[k].version = version

(* The Micro QR versions, from the one asked for on, that take the text.    *)
Taking ==
  {v \in 1..MVMax : /\ v >= version /\ Stream!ValidMQR(v, level) /\ input # <<>>
                    /\ Encodable(<<"MQR", input>>, v)
                    /\ EncodedList(<<"MQR", input>>, v) <= DataLengthBit(v, level)}

(* A Micro QR symbol has the least of these, unless memory was short: a     *)
(* version that failed for that is passed over like one that is too small.  *)
MicroSmallest ==
  pc = "returned" /\ Micro /\ ~starved =>
    IF codes = <<>> THEN Taking = {}
    ELSE codes[1].version \in Taking /\ \A v \in Taking : codes[1].version <= v

(* Every call returns: the search for a version, the split and the list all *)
(* come to an end.                                                          *)
CallReturns == pc = "call" ~> pc = "returned"
=============================================================================
