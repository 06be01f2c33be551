------------------------------- MODULE QRInput -------------------------------
(***************************************************************************)
(* src/qrinput.c: QRinput objects, singly linked lists of chunks with a    *)
(* head and a tail, and a QRinput_Struct that takes ownership of several.  *)
(* Headers are put in front of the chunks (a structured-append header) or  *)
(* among the first two (an FNC1 header, by each encode of an object whose  *)
(* flag is set) without renewing the tail.  A list is the sequence of the  *)
(* nodes reachable from head; a node written through a stale tail cuts off *)
(* what followed it.                                                       *)
(***************************************************************************)
EXTENDS Integers, Sequences, FiniteSets

CONSTANTS Obj,   \* QRinput objects
          Node,  \* memory for chunks (QRinput_List)
          NULL,
          MAX_STRUCTURED_SYMBOLS

ASSUME NodeAssumption == NULL \notin Node /\ MAX_STRUCTURED_SYMBOLS \in Nat

VARIABLES live, mqr, list, tail, fnc1,  \* the objects
          mode,     \* of each chunk; Free when the node is not allocated
          members,  \* QRinput_Struct: the objects appended to it
          crashed,  \* a NULL pointer was followed
          given,    \* history: how many chunks the user appended to an object
          age       \* history: which of them a node is, 0 for a header

vars == <<live, mqr, list, tail, fnc1, mode, members, crashed, given, age>>

Free      == "free"
UserModes == {"data", "ECI"}
Modes     == UserModes \cup {"STRUCTURE", "FNC1SECOND"}

Init == /\ live = [o \in Obj |-> FALSE] /\ mqr = [o \in Obj |-> FALSE]
        /\ list = [o \in Obj |-> <<>>] /\ tail = [o \in Obj |-> NULL]
        /\ fnc1 = [o \in Obj |-> 0]
        /\ mode = [n \in Node |-> Free]
        /\ members = <<>>
        /\ crashed = FALSE
        /\ given = [o \in Obj |-> 0] /\ age = [n \in Node |-> 0]

\* After a crash nothing happens.
Usable(o) == live[o] /\ ~crashed

Elements(s) == {s[i] : i \in DOMAIN s}
Owned == Elements(members)
-----------------------------------------------------------------------------
(* QRinput_new2, QRinput_newMQR: an empty list, no flag.                    *)
New(o, micro) ==
  /\ ~live[o] /\ ~crashed
  /\ live' = [live EXCEPT ![o] = TRUE] /\ mqr' = [mqr EXCEPT ![o] = micro]
  /\ UNCHANGED <<list, tail, fnc1, mode, members, crashed, given, age>>

(* QRinput_append, QRinput_appendECIheader: a chunk that is refused, or     *)
(* cannot be allocated, changes nothing.                                    *)
UpTo(s, n) == SubSeq(s, 1, CHOOSE i \in DOMAIN s : s[i] = n)

QRinput_append(o, m, n) ==
  /\ Usable(o) /\ mode[n] = Free
  /\ mode' = [mode EXCEPT ![n] = m]
  /\ list' = [list EXCEPT ![o] = IF tail[o] = NULL THEN <<n>> ELSE UpTo(@, tail[o]) \o <<n>>]
  /\ tail' = [tail EXCEPT ![o] = n]
  /\ given' = [given EXCEPT ![o] = @ + 1]
  /\ age' = [age EXCEPT ![n] = given'[o]]
  /\ UNCHANGED <<live, mqr, fnc1, members, crashed>>

\* Faulty variant of the second setter: the identifier goes to the flag.
SetFNC1SecondSwapped(o, appid) ==
  /\ Usable(o) /\ ~mqr[o]
  /\ fnc1' = [fnc1 EXCEPT ![o] = appid]
  /\ UNCHANGED <<live, mqr, list, tail, mode, members, crashed, given, age>>

QRinput_setFNC1First(o) ==
  /\ Usable(o) /\ ~mqr[o]
  /\ fnc1' = [fnc1 EXCEPT ![o] = 1]
  /\ UNCHANGED <<live, mqr, list, tail, mode, members, crashed, given, age>>

QRinput_setFNC1Second(o, appid) ==
  /\ Usable(o) /\ ~mqr[o]
  /\ fnc1' = [fnc1 EXCEPT ![o] = 2]
  /\ UNCHANGED <<live, mqr, list, tail, mode, members, crashed, given, age>>

(* QRinput_insertFNC1Header: where the header goes.  Faulty variant: always *)
(* behind the first chunk.                                                  *)
SecondPlace(s, n) == <<s[1], n>> \o SubSeq(s, 2, Len(s))

InsertedSecond(s, n) == SecondPlace(s, n)
Inserted(s, n) == IF mode[s[1]] \in {"STRUCTURE", "ECI"} THEN SecondPlace(s, n) ELSE <<n>> \o s

RenewedTail(o, n) == n  \* faulty variant
TailKept(o, n)    == tail[o]

(* QRinput_mergeBitStream, at the start of every encode of the object; an   *)
(* encode that fails later keeps the header.  The header of the first flag  *)
(* is refused by QRinput_check, as its size is 0, and one for an object     *)
(* without chunks follows a NULL head.  (Without a flag, or when malloc     *)
(* fails, an encode leaves the list alone.)                                 *)
Encode(o, n) ==
  /\ Usable(o) /\ ~mqr[o] /\ fnc1[o] = 2 /\ mode[n] = Free
  /\ mode' = [mode EXCEPT ![n] = "FNC1SECOND"]
  /\ age' = [age EXCEPT ![n] = 0]
  /\ IF list[o] = <<>>
       THEN crashed' = TRUE /\ UNCHANGED list
       ELSE list' = [list EXCEPT ![o] = Inserted(@, n)] /\ UNCHANGED crashed
  /\ tail' = [tail EXCEPT ![o] = TailKept(o, n)]
  /\ UNCHANGED <<live, mqr, fnc1, members, given>>

(* The objects os and their chunks are freed; a dead object is as in Init.  *)
FreeObjects(os) ==
  /\ live' = [o \in Obj |-> live[o] /\ o \notin os]
  /\ mqr' = [o \in Obj |-> mqr[o] /\ o \notin os]
  /\ list' = [o \in Obj |-> IF o \in os THEN <<>> ELSE list[o]]
  /\ tail' = [o \in Obj |-> IF o \in os THEN NULL ELSE tail[o]]
  /\ fnc1' = [o \in Obj |-> IF o \in os THEN 0 ELSE fnc1[o]]
  /\ given' = [o \in Obj |-> IF o \in os THEN 0 ELSE given[o]]
  /\ LET chunks == UNION {Elements(list[o]) : o \in os}
     IN  /\ mode' = [n \in Node |-> IF n \in chunks THEN Free ELSE mode[n]]
         /\ age' = [n \in Node |-> IF n \in chunks THEN 0 ELSE age[n]]
  /\ UNCHANGED crashed

(* QRinput_free, by the user who has not handed the object over.            *)
QRinput_free(o) ==
  /\ Usable(o) /\ o \notin Owned
  /\ FreeObjects({o})
  /\ UNCHANGED members
-----------------------------------------------------------------------------
(* QRinput_Struct_appendInput; no object is appended twice (qrencode.h).    *)
QRinput_Struct_appendInput(o) ==
  /\ Usable(o) /\ ~mqr[o] /\ o \notin Owned
  /\ members' = Append(members, o)
  /\ UNCHANGED <<live, mqr, list, tail, fnc1, mode, crashed, given, age>>

(* QRinput_Struct_insertStructuredAppendHeaders puts a header in front of   *)
(* each member in turn, and returns at the first that cannot be allocated:  *)
(* `new' are the nodes of the headers it did insert.  Faulty variant: one   *)
(* header is built and linked to every member.                              *)
PrefixedByOne(new) ==
  [o \in Obj |-> IF \E i \in DOMAIN new : members[i] = o THEN <<new[1]>> \o list[o] ELSE list[o]]
Prefixed(new) ==
  [o \in Obj |-> IF \E i \in DOMAIN new : members[i] = o
                   THEN <<new[CHOOSE i \in DOMAIN new : members[i] = o]>> \o list[o]
                   ELSE list[o]]

InsertHeaders(new) ==
  /\ ~crashed /\ Len(members) \in 2..MAX_STRUCTURED_SYMBOLS
  /\ \A i \in DOMAIN new : mode[new[i]] = Free /\ \A j \in 1..i - 1 : new[i] # new[j]
  /\ mode' = [n \in Node |-> IF n \in Elements(new) THEN "STRUCTURE" ELSE mode[n]]
  /\ age' = [n \in Node |-> IF n \in Elements(new) THEN 0 ELSE age[n]]
  /\ list' = Prefixed(new)
  /\ UNCHANGED <<live, mqr, tail, fnc1, members, crashed, given>>

(* QRinput_Struct_free frees its members too; a new struct may follow.      *)
QRinput_Struct_free ==
  /\ members # <<>> /\ ~crashed
  /\ members' = <<>>
  /\ FreeObjects(Owned)

Next == \/ \E o \in Obj, micro \in BOOLEAN : New(o, micro)
        \/ \E o \in Obj, m \in UserModes, n \in Node : QRinput_append(o, m, n)
        \/ \E o \in Obj : QRinput_setFNC1First(o) \/ QRinput_setFNC1Second(o, 97)
        \/ \E o \in Obj, n \in Node : Encode(o, n)
        \/ \E o \in Obj : QRinput_free(o) \/ QRinput_Struct_appendInput(o)
        \/ \E new \in UNION {[1..k -> Node] : k \in 1..Len(members)} : InsertHeaders(new)
        \/ QRinput_Struct_free

Spec == Init /\ [][Next]_vars
-----------------------------------------------------------------------------
(* Type invariant.                                                          *)
TypeOK == /\ live \in [Obj -> BOOLEAN] /\ mqr \in [Obj -> BOOLEAN]
          /\ list \in [Obj -> Seq(Node)] /\ tail \in [Obj -> Node \cup {NULL}]
          /\ fnc1 \in [Obj -> 0..2]
          /\ mode \in [Node -> Modes \cup {Free}]
          /\ members \in Seq(Obj)
          /\ crashed \in BOOLEAN
          /\ given \in [Obj -> Nat] /\ age \in [Node -> Nat]

(* What an encode converts contains every chunk the user appended to the    *)
(* object, once and in order, however headers and appends alternate: a      *)
(* stale tail never cuts off data.                                          *)
DataIntact ==
  \A o \in Obj : live[o] =>
    /\ \A k \in 1..given[o] : \E i \in DOMAIN list[o] : age[list[o][i]] = k
    /\ \A i \in DOMAIN list[o] : age[list[o][i]] <= given[o]
    /\ \A i, j \in DOMAIN list[o] :
         i < j /\ age[list[o][i]] > 0 /\ age[list[o][j]] > 0 => age[list[o][i]] < age[list[o][j]]

(* Each chunk of a list is allocated and in no other place of any list, and *)
(* a tail points into the list of its own object: an append writes to a     *)
(* live node of the object, and the frees free no chunk twice.              *)
ChunksOwned ==
  \A o \in Obj :
    /\ tail[o] = NULL \/ tail[o] \in Elements(list[o])
    /\ \A i \in DOMAIN list[o] :
         /\ mode[list[o][i]] # Free
         /\ \A p \in Obj : \A j \in DOMAIN list[p] : list[o][i] = list[p][j] => o = p /\ i = j

(* No header stands behind data: the modes that qualify a whole symbol are  *)
(* announced before its data begins.                                        *)
HeadersLead ==
  \A o \in Obj : \A i, j \in DOMAIN list[o] :
    mode[list[o][i]] = "data" /\ i < j => mode[list[o][j]] \in UserModes

(* "You can reuse the QRinput object again to encode it in other symbols    *)
(* with different parameters" (qrencode.h:51): an object that is encoded    *)
(* again has one FNC1 header.                                               *)
OneFNC1Header ==
  \A o \in Obj : \A i, j \in DOMAIN list[o] :
    mode[list[o][i]] = "FNC1SECOND" /\ mode[list[o][j]] = "FNC1SECOND" => i = j
=============================================================================
