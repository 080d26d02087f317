--------------------------- MODULE UdfIoctlProofs ---------------------------
(***************************************************************************)
(* The properties of UdfIoctl, for all threads, handles, requests and      *)
(* blocks.  None is inductive: the invariant follows the response buffer   *)
(* through the steps of the one call that may have it.                     *)
(***************************************************************************)
EXTENDS UdfIoctl, TLAPS

(* What a call at step p has done, by its record o.                        *)
ShapeAt(p, o) ==
  /\ p = "idle" => o = NoOp
  /\ p # "idle" => o.call # "none" /\ o.handle \in Handles
  /\ p \in {"look", "copy"} => o.call = "read" /\ o.out = <<>>
  /\ p \in {"test", "free"} => o.call \in {"write", "close"}
  /\ p \in {"allocate", "send", "transfer", "settle"} => o.call = "write"
  /\ p \in {"test", "free", "allocate", "send", "transfer"} => ~o.ok
  /\ p = "allocate" => HasResponse(o.request)

\* The mutex is held by the thread that reads.
Session == \A t \in Threads : op[t].call = "read" <=> session = t

Shape == Session /\ \A t \in Threads : ShapeAt(pc[t], op[t])

-----------------------------------------------------------------------------
(* The buffer                                                              *)

Only(b)    == \A c \in Blocks : heap[c].live => c = b
Empty      == buffer = NoBlock /\ Only(NoBlock)
Holding(n) == /\ buffer # NoBlock /\ Only(buffer)
              /\ heap[buffer].live /\ Len(heap[buffer].bytes) = n
Kept       == Only(buffer) /\ (buffer # NoBlock => heap[buffer].live)

\* The bytes of a response of which the drive gave some.
Response(tag, length, given) ==
  [i \in 1..length |-> IF i <= given THEN <<tag, i>> ELSE Noise]

(* When no call changes it: nothing, or the owner's response.              *)
AtRest ==
  IF owner = NoHandle THEN Empty
  ELSE /\ Holding(size) /\ answer.length = size
       /\ heap[buffer].bytes = Response(answer.tag, size, answer.given)
       /\ handle[owner].kind = "ioctl"
       /\ handle[owner].offset <= size

(* At each step of a call that takes no mutex and has it to itself.        *)
InWork(t) == pc[t] \in {"test", "free", "allocate", "send", "transfer", "settle"}
Phase(t) == LET q == op[t].request IN
  /\ InWork(t) => owner = NoHandle
  /\ pc[t] = "test" => Kept
  /\ pc[t] = "free" => Kept /\ buffer # NoBlock /\ op[t].block = buffer
  /\ pc[t] = "allocate" => Empty
  /\ pc[t] \in {"send", "transfer", "settle"} =>
       IF HasResponse(q) THEN Holding(Declared(q)) ELSE Empty
  /\ pc[t] \in {"send", "transfer"} /\ HasResponse(q) =>
       heap[buffer].bytes = Response(op[t].tag, Declared(q), 0)
  /\ pc[t] = "transfer" => op[t].block = buffer
  /\ pc[t] = "settle" /\ op[t].ok /\ HasResponse(q) =>
       heap[buffer].bytes = Response(op[t].tag, Declared(q), op[t].given)
  /\ pc[t] \in {"settle", "done"} /\ op[t].call = "write" /\ op[t].ok =>
       op[t].sent \/ NeverSent(q)
  /\ op[t].call = "close" => owner = NoHandle
  /\ op[t].call \in {"read", "write"} => handle[op[t].handle].kind = "ioctl"

\* What a read goes by.
Reading(t) ==
  /\ pc[t] = "copy" => buffer # NoBlock /\ op[t].given = ToCopy(t)
  /\ op[t].call = "read" /\ ~foreign => owner \in {op[t].handle, NoHandle}

\* A read of the owner's has copied and not returned.
Copied(t) == pc[t] = "done" /\ op[t].call = "read" /\ op[t].handle = owner

\* How far the owner has read.
Progress(t) ==
  /\ Copied(t) => /\ op[t].out = Continued(op[t].asked)
                  /\ handle[owner].offset = had + Len(op[t].out)
  /\ owner # NoHandle /\ ~Copied(t) => handle[owner].offset = had

At(t) == Phase(t) /\ Reading(t) /\ Progress(t) /\ (InWork(t) \/ AtRest)

(* Calls that are not overlapped come one at a time.                       *)
Alone(t)    == \A u \in Threads \ {t} : pc[u] = "idle"
Undisturbed == \A t \in Threads : (pc[t] # "idle" => Alone(t)) /\ (Alone(t) => At(t))

Inv == TypeOK /\ Shape /\ MemorySafe /\ (~overlapped => Undisturbed)

-----------------------------------------------------------------------------
(* Types *)

LEMMA MakeSeq ==
  ASSUME NEW S, NEW n \in Nat, NEW f \in [1..n -> S]
  PROVE  f \in Seq(S) /\ Len(f) = n
  OBVIOUS

LEMMA SeqIs ==
  ASSUME NEW S, NEW f \in Seq(S)
  PROVE  Len(f) \in Nat /\ DOMAIN f = 1..Len(f) /\ \A i \in 1..Len(f) : f[i] \in S
  OBVIOUS

LEMMA NoOpTypes == NoOp \in Op /\ NoRequest \in Request
<1>1. <<>> \in Seq(Byte)
  OBVIOUS
<1>2. QED
  BY <1>1 DEF NoOp, Op, NoRequest, Request

LEMMA RequestTypes ==
  ASSUME NEW q \in Requests \cup {NoRequest}
  PROVE  q \in Request /\ Declared(q) \in Nat /\ Transferred(q) \in 0..Declared(q)
<1>1. q \in Request
  BY SetAssumption, NoOpTypes
<1>2. Declared(q) \in Nat
  BY <1>1, NumberAssumption DEF Declared, Request
<1>3. Declared(q) % LengthLimit \in 0..Declared(q)
  <2>1. ASSUME NEW a \in Nat, NEW b \in Nat \ {0} PROVE a % b \in 0..a
    BY Z3
  <2>2. QED
    BY <1>2, <2>1, NumberAssumption
<1>4. QED
  BY <1>1, <1>2, <1>3 DEF Transferred

LEMMA ToCopyType ==
  ASSUME TypeOK, NEW t \in Threads, op[t].handle \in Handles
  PROVE  ToCopy(t) \in Nat /\ (handle[op[t].handle].offset <= size =>
                                handle[op[t].handle].offset + ToCopy(t) <= size)
<1>1. handle[op[t].handle].offset \in Nat /\ size \in Nat
  BY DEF TypeOK
<1>2. op[t].asked \in Nat
  <2>1. op[t] \in Op
    BY DEF TypeOK
  <2>2. op[t].asked \in ReadLengths \cup {0}
    BY <2>1 DEF Op
  <2>3. ReadLengths \subseteq Nat
    BY SetAssumption, Zenon
  <2>4. 0 \in Nat
    OBVIOUS
  <2>5. QED
    BY <2>2, <2>3, <2>4, Zenon
<1>3. QED
  BY <1>1, <1>2 DEF ToCopy, Smaller

LEMMA BytesAtType ==
  ASSUME TypeOK, NEW b \in Blocks \cup {NoBlock}, NEW offset \in Nat, NEW n \in Nat
  PROVE  BytesAt(b, offset, n) \in Seq(Byte) /\ Len(BytesAt(b, offset, n)) = n
<1>1. ASSUME NEW i \in 1..n, b # NoBlock, offset + i \in DOMAIN heap[b].bytes
      PROVE  heap[b].bytes[offset + i] \in Byte
  <2>1. heap[b].bytes \in Seq(Byte)
    BY <1>1 DEF TypeOK
  <2>2. QED
    BY <1>1, <2>1, SeqIs
<1>2. Noise \in Byte
  BY DEF Noise, Byte
<1>3. BytesAt(b, offset, n) \in [1..n -> Byte]
  BY <1>1, <1>2 DEF BytesAt
<1>4. QED
  BY <1>3, MakeSeq

LEMMA NewOps ==
  ASSUME NEW h \in Handles
  PROVE  /\ [NoOp EXCEPT !.call = "close", !.handle = h] \in Op
         /\ \A q \in Requests, tag \in Nat :
              [NoOp EXCEPT !.call = "write", !.handle = h, !.request = q, !.tag = tag] \in Op
         /\ \A n \in ReadLengths :
              [NoOp EXCEPT !.call = "read", !.handle = h, !.asked = n] \in Op
<1>1. ASSUME NEW o \in Op
      PROVE  [o EXCEPT !.call = "close", !.handle = h] \in Op
  BY DEF Op
<1>2. ASSUME NEW o \in Op, NEW q \in Requests, NEW tag \in Nat
      PROVE  [o EXCEPT !.call = "write", !.handle = h, !.request = q, !.tag = tag] \in Op
  BY DEF Op
<1>3. ASSUME NEW o \in Op, NEW n \in ReadLengths
      PROVE  [o EXCEPT !.call = "read", !.handle = h, !.asked = n] \in Op
  BY DEF Op
<1>4. QED
  BY <1>1, <1>2, <1>3, NoOpTypes

(* What the steps of a call write in op.                                   *)
LEMMA OpBlock ==
  ASSUME NEW f \in [Threads -> Op], NEW t \in Threads, NEW b \in Blocks \cup {NoBlock}
  PROVE  [f EXCEPT ![t].block = b] \in [Threads -> Op]
<1>1. ASSUME NEW o \in Op
      PROVE  [o EXCEPT !.block = b] \in Op
  BY DEF Op
<1>2. QED
  BY <1>1

LEMMA OpOk ==
  ASSUME NEW f \in [Threads -> Op], NEW t \in Threads
  PROVE  [f EXCEPT ![t].ok = TRUE] \in [Threads -> Op]
<1>1. ASSUME NEW o \in Op
      PROVE  [o EXCEPT !.ok = TRUE] \in Op
  BY DEF Op
<1>2. QED
  BY <1>1

LEMMA OpGiven ==
  ASSUME NEW f \in [Threads -> Op], NEW t \in Threads, NEW n \in Nat
  PROVE  [f EXCEPT ![t].given = n] \in [Threads -> Op]
<1>1. ASSUME NEW o \in Op
      PROVE  [o EXCEPT !.given = n] \in Op
  BY DEF Op
<1>2. QED
  BY <1>1

LEMMA OpSent ==
  ASSUME NEW f \in [Threads -> Op], NEW t \in Threads, NEW n \in Nat
  PROVE  [f EXCEPT ![t] = [@ EXCEPT !.ok = TRUE, !.sent = TRUE, !.given = n]]
           \in [Threads -> Op]
<1>1. ASSUME NEW o \in Op
      PROVE  [o EXCEPT !.ok = TRUE, !.sent = TRUE, !.given = n] \in Op
  BY DEF Op
<1>2. QED
  BY <1>1

LEMMA OpOut ==
  ASSUME NEW f \in [Threads -> Op], NEW t \in Threads, NEW s \in Seq(Byte)
  PROVE  [f EXCEPT ![t].out = s] \in [Threads -> Op]
  BY ZenonT(40) DEF Op

(* A step of one thread writes its own op and pc only.                     *)
LEMMA TypesStep ==
  ASSUME TypeOK, Shape, Next
  PROVE  TypeOK'
<1>1. /\ \A t \in Threads : op[t] \in Op
      /\ \A t \in Threads : op[t].request \in Requests \cup {NoRequest}
      /\ \A t \in Threads : op[t].tag \in Nat /\ op[t].given \in Nat /\ op[t].out \in Seq(Byte)
      /\ \A t \in Threads : op[t].block \in Blocks \cup {NoBlock}
      /\ \A h \in Handles : handle[h].offset \in Nat
      /\ \A b \in Blocks : heap[b].bytes \in Seq(Byte)
  <2>1. \A t \in Threads : op[t] \in Op
    BY DEF TypeOK
  <2>2. QED
    BY <2>1 DEF TypeOK, Op
<1>0. op \in [Threads -> Op] /\ <<>> \in Seq(Byte)
  <2>1. <<>> \in Seq(Byte)
    OBVIOUS
  <2>2. QED
    BY <2>1 DEF TypeOK
<1>2. Free \in [live : BOOLEAN, bytes : Seq(Byte)]
  <2>1. <<>> \in Seq(Byte)
    OBVIOUS
  <2>2. QED
    BY <2>1 DEF Free
<1>3. ASSUME NEW h \in Handles, NEW kind \in {"ioctl", "file"}, Open(h, kind)
      PROVE  TypeOK'
  BY <1>3 DEF TypeOK, Open, memory, history
<1>4. ASSUME NEW t \in Threads, NEW record \in Op, BeginUnlocked(t, record)
      PROVE  TypeOK'
  BY <1>4, NumberAssumption DEF On, TypeOK, BeginUnlocked, Begin, memory, NoAnswer, States
<1>5. ASSUME NEW t \in Threads, NEW h \in Handles, Close(t, h)
      PROVE  TypeOK'
  BY <1>4, <1>5, NewOps DEF Close
<1>6. ASSUME NEW t \in Threads, NEW h \in Handles, NEW q \in Requests, Write(t, h, q)
      PROVE  TypeOK'
  <2>1. calls + 1 \in Nat
    BY DEF TypeOK
  <2>2. [NoOp EXCEPT !.call = "write", !.handle = h, !.request = q, !.tag = calls + 1] \in Op
    BY <2>1, NewOps
  <2>3. QED
    BY <2>2, <1>4, <1>6 DEF Write
<1>7. ASSUME NEW t \in Threads, NEW h \in Handles, NEW n \in ReadLengths, Read(t, h, n)
      PROVE  TypeOK'
  <2>1. [NoOp EXCEPT !.call = "read", !.handle = h, !.asked = n] \in Op
    BY NewOps
  <2>2. QED
    BY <2>1, <1>7, NumberAssumption DEF On, Read, Begin, TypeOK, memory, States
<1>8. ASSUME NEW t \in Threads, TestBuffer(t)
      PROVE  TypeOK'
  <2>1. op' \in [Threads -> Op]
    BY <1>0, <1>8, OpBlock DEF On, TestBuffer, TypeOK
  <2>2. QED
    BY <2>1, <1>8 DEF On, TestBuffer, AfterTest, AfterFree, TypeOK, memory, history, States
<1>9. ASSUME NEW t \in Threads, FreeBuffer(t)
      PROVE  TypeOK'
  <2>1. op' \in [Threads -> Op]
    BY <1>0, <1>9, OpBlock DEF On, FreeBuffer
  <2>2. heap' \in [Blocks -> [live : BOOLEAN, bytes : Seq(Byte)]] /\ broken' \in BOOLEAN
    BY <1>2, <1>9 DEF On, FreeBuffer, TypeOK
  <2>3. QED
    BY <2>1, <2>2, <1>9 DEF On, FreeBuffer, AfterFree, TypeOK, history, States
<1>10. ASSUME NEW t \in Threads, Allocate(t)
       PROVE  TypeOK'
  <2> DEFINE n == Declared(op[t].request)
             noise == [i \in 1..n |-> Noise]
  <2>1. n \in Nat
    BY <1>1, RequestTypes
  <2>2. noise \in [1..n -> Byte]
    BY DEF Noise, Byte
  <2>3. Live(noise) \in [live : BOOLEAN, bytes : Seq(Byte)]
    BY <2>1, <2>2, MakeSeq DEF Live
  <2>4. QED
    BY <2>3, <1>10 DEF On, Allocate, TypeOK, history, States
<1>11. ASSUME NEW t \in Threads, AllocateFails(t)
       PROVE  TypeOK'
  BY <1>11 DEF On, AllocateFails, TypeOK, history, States
<1>12. ASSUME NEW t \in Threads, Send(t)
       PROVE  TypeOK'
  <2>1. op' \in [Threads -> Op]
    <3>1. CASE op' = [op EXCEPT ![t].ok = TRUE]
      BY <1>0, <3>1, OpOk
    <3>2. CASE \E b \in Blocks \cup {NoBlock} : op' = [op EXCEPT ![t].block = b]
      BY <1>0, <3>2, OpBlock
    <3>3. buffer \in Blocks \cup {NoBlock}
      BY DEF TypeOK
    <3>4. QED
      BY <3>1, <3>2, <3>3, <1>12 DEF On, Send
  <2>2. QED
    BY <2>1, <1>12 DEF On, Send, TypeOK, memory, history, States
<1>13. ASSUME NEW t \in Threads, Transfer(t)
       PROVE  TypeOK'
  <2>1. ASSUME NEW n \in 0..Transferred(op[t].request),
               \/ op' = [op EXCEPT ![t] = [@ EXCEPT !.ok = TRUE, !.sent = TRUE, !.given = n]]
               \/ op' = op,
               heap' = IF op[t].block = NoBlock THEN heap
                       ELSE [heap EXCEPT ![op[t].block].bytes =
                              [i \in DOMAIN @ |-> IF i <= n THEN <<op[t].tag, i>> ELSE @[i]]]
        PROVE  TypeOK'
    <3>1. n \in Nat
      BY <1>1, RequestTypes
    <3>2. op' \in [Threads -> Op]
      <4>1. CASE op' = op
        BY <1>0, <4>1
      <4>2. CASE op' = [op EXCEPT ![t] = [@ EXCEPT !.ok = TRUE, !.sent = TRUE, !.given = n]]
        BY <1>0, <3>1, <4>2, OpSent
      <4>3. QED
        BY <2>1, <4>1, <4>2
    <3>3. heap' \in [Blocks -> [live : BOOLEAN, bytes : Seq(Byte)]]
      <4>1. CASE op[t].block = NoBlock
        BY <4>1, <2>1 DEF TypeOK
      <4>2. CASE op[t].block # NoBlock
        <5> DEFINE old == heap[op[t].block].bytes
                   new == [i \in DOMAIN old |-> IF i <= n THEN <<op[t].tag, i>> ELSE old[i]]
        <5>1. old \in Seq(Byte)
          BY <4>2, <1>1
        <5>2. new \in [1..Len(old) -> Byte] /\ Len(old) \in Nat
          BY <5>1, <1>1, SeqIs, SMTT(30) DEF Byte
        <5>3. new \in Seq(Byte)
          BY <5>2, MakeSeq
        <5>4. QED
          BY <5>3, <4>2, <2>1, ZenonT(40) DEF TypeOK
      <4>3. QED
        BY <4>1, <4>2
    <3>4. QED
      BY <3>2, <3>3, <1>13 DEF On, Transfer, TypeOK, history, States
  <2>2. QED
    BY <2>1, <1>13 DEF Transfer, NegativeResult
<1>14. ASSUME NEW t \in Threads, SettleDone(t)
       PROVE  TypeOK'
  <2>1. Declared(op[t].request) \in Nat
    BY <1>1, RequestTypes
  <2>2. op[t].handle \in Handles
    BY <1>14 DEF On, SettleDone, Shape, ShapeAt
  <2>3. QED
    <3>1. handle' \in [Handles -> [kind : {"closed", "ioctl", "file"}, offset : Nat]]
      BY <1>14 DEF On, SettleDone, TypeOK
    <3>2. answer' \in [tag : Nat, length : Nat, given : Nat] /\ had' \in Nat /\ size' \in Nat
      BY <2>1, <1>1, <1>14 DEF On, SettleDone, TypeOK
    <3>3. broken' \in BOOLEAN
      BY <1>14 DEF On, SettleDone, TypeOK
    <3>4. QED
      BY <3>1, <3>2, <3>3, <2>2, <1>14 DEF On, SettleDone, TypeOK, States
<1>15. ASSUME NEW t \in Threads, SettleFailed(t)
       PROVE  TypeOK'
  BY <1>2, <1>15, ZenonT(40) DEF On, SettleFailed, TypeOK, history, States
<1>16. ASSUME NEW t \in Threads, Look(t)
       PROVE  TypeOK'
  <2>1. ToCopy(t) \in Nat
    BY <1>16, ToCopyType DEF On, Look, Shape, ShapeAt
  <2>2. QED
    <3>1. op' \in [Threads -> Op]
      BY <1>0, <2>1, <1>16, OpGiven DEF On, Look
    <3>2. pc' \in [Threads -> States]
      BY <1>16 DEF On, Look, TypeOK, States
    <3>3. UNCHANGED <<memory, handle, session, calls, history>>
      BY <1>16 DEF On, Look
    <3>4. QED
      BY <3>1, <3>2, <3>3 DEF TypeOK, memory, history
<1>17. ASSUME NEW t \in Threads, Copy(t)
       PROVE  TypeOK'
  <2>1. op[t].handle \in Handles
    BY <1>17 DEF On, Copy, Shape, ShapeAt
  <2>2. BytesAt(buffer, handle[op[t].handle].offset, op[t].given) \in Seq(Byte)
    BY <2>1, <1>1, BytesAtType DEF TypeOK
  <2>3. QED
    <3>1. op' \in [Threads -> Op]
      BY <1>0, <2>2, <1>17, OpOut DEF On, Copy
    <3>2. handle' \in [Handles -> [kind : {"closed", "ioctl", "file"}, offset : Nat]]
      <4>1. handle[op[t].handle].offset + op[t].given \in Nat
        BY <2>1, <1>1
      <4>2. ASSUME NEW n \in Nat
            PROVE  [handle EXCEPT ![op[t].handle].offset = n] \in
                     [Handles -> [kind : {"closed", "ioctl", "file"}, offset : Nat]]
        BY <2>1 DEF TypeOK
      <4>3. handle' = [handle EXCEPT ![op[t].handle].offset =
                        handle[op[t].handle].offset + op[t].given]
        BY <1>17 DEF On, Copy
      <4>4. QED
        BY <4>1, <4>2, <4>3
    <3>3. QED
      BY <3>1, <3>2, <1>17 DEF On, Copy, TypeOK, history, States
<1>18. ASSUME NEW t \in Threads, Return(t)
       PROVE  TypeOK'
  <2>1. Len(op[t].out) \in Nat
    BY <1>1, SeqIs
  <2>2. QED
    <3>1. op' \in [Threads -> Op]
      BY <1>0, <1>18, NoOpTypes DEF On, Return
    <3>2. handle' \in [Handles -> [kind : {"closed", "ioctl", "file"}, offset : Nat]]
      BY <1>18 DEF On, Return, TypeOK
    <3>3. had' \in Nat
      BY <2>1, <1>18 DEF On, Return, TypeOK
    <3>4. QED
      BY <3>1, <3>2, <3>3, <1>18 DEF On, Return, TypeOK, memory, States
<1>19. QED
  BY <1>3, <1>5, <1>6, <1>7, <1>8, <1>9, <1>10, <1>11, <1>12, <1>13, <1>14, <1>15, <1>16,
     <1>17, <1>18 DEF Next


-----------------------------------------------------------------------------
(* Steps and the mutex *)

LEMMA ShapeOne ==
  ASSUME TypeOK, Shape, NEW t \in Threads, NEW p, NEW o,
         pc' = [pc EXCEPT ![t] = p], op' = [op EXCEPT ![t] = o],
         ShapeAt(p, o), o.call = "read" <=> session' = t,
         \A u \in Threads \ {t} : session' = u <=> session = u
  PROVE  Shape'
<1>1. /\ \A u \in Threads \ {t} : pc'[u] = pc[u] /\ op'[u] = op[u]
      /\ pc'[t] = p /\ op'[t] = o
  BY DEF TypeOK
<1>2. \A u \in Threads : ShapeAt(pc'[u], op'[u])
  BY <1>1 DEF Shape
<1>3. Session'
  BY <1>1 DEF Shape, Session
<1>4. QED
  BY <1>2, <1>3 DEF Shape

LEMMA ShapeStep ==
  ASSUME TypeOK, Shape, Next
  PROVE  Shape'
<1>1. \A t \in Threads : ShapeAt(pc[t], op[t]) /\ (op[t].call = "read" <=> session = t)
  BY DEF Shape, Session
<1>2. ASSUME NEW h \in Handles, NEW kind \in {"ioctl", "file"}, Open(h, kind)
      PROVE  Shape'
  BY <1>2 DEF Open, Shape, Session
<1>3. ASSUME NEW t \in Threads, NEW p, NEW o,
             pc' = [pc EXCEPT ![t] = p], op' = [op EXCEPT ![t] = o],
             ShapeAt(p, o), o.call = op[t].call, session' = session
      PROVE  Shape'
  BY <1>1, <1>3, ShapeOne
<1>4. ASSUME NEW t \in Threads, NEW h \in Handles, Close(t, h)
      PROVE  Shape'
  <2> DEFINE o == [NoOp EXCEPT !.call = "close", !.handle = h]
  <2>1. ShapeAt("test", o) /\ o.call # "read"
    BY DEF ShapeAt, NoOp
  <2>2. op[t].call # "read"
    BY <1>1, <1>4 DEF On, Close, BeginUnlocked, Begin, ShapeAt, NoOp
  <2>3. pc' = [pc EXCEPT ![t] = "test"] /\ op' = [op EXCEPT ![t] = o] /\ session' = session
    BY <1>4 DEF On, Close, BeginUnlocked, Begin
  <2> HIDE DEF o
  <2>4. QED
    BY <2>1, <2>2, <2>3, <1>1, ShapeOne
<1>5. ASSUME NEW t \in Threads, NEW h \in Handles, NEW q \in Requests, Write(t, h, q)
      PROVE  Shape'
  <2> DEFINE o == [NoOp EXCEPT !.call = "write", !.handle = h, !.request = q, !.tag = calls + 1]
  <2>1. ShapeAt("test", o) /\ o.call # "read"
    BY DEF ShapeAt, NoOp
  <2>2. op[t].call # "read"
    BY <1>1, <1>5 DEF On, Write, BeginUnlocked, Begin, ShapeAt, NoOp
  <2>3. pc' = [pc EXCEPT ![t] = "test"] /\ op' = [op EXCEPT ![t] = o] /\ session' = session
    BY <1>5 DEF On, Write, BeginUnlocked, Begin
  <2> HIDE DEF o
  <2>4. QED
    BY <2>1, <2>2, <2>3, <1>1, ShapeOne
<1>6. ASSUME NEW t \in Threads, NEW h \in Handles, NEW n \in ReadLengths, Read(t, h, n)
      PROVE  Shape'
  <2> DEFINE o == [NoOp EXCEPT !.call = "read", !.handle = h, !.asked = n]
  <2>1. ShapeAt("look", o) /\ o.call = "read"
    BY DEF ShapeAt, NoOp
  <2>2. session = NoThread /\ session' = t
    BY <1>6 DEF Read, Unlocked
  <2>3. pc' = [pc EXCEPT ![t] = "look"] /\ op' = [op EXCEPT ![t] = o]
    BY <1>6 DEF On, Read, Begin
  <2>4. \A u \in Threads \ {t} : session' = u <=> session = u
    BY <2>2, SetAssumption
  <2> HIDE DEF o
  <2>5. QED
    BY <2>1, <2>2, <2>3, <2>4, ShapeOne
<1>7. ASSUME NEW t \in Threads, TestBuffer(t)
      PROVE  Shape'
  <2> DEFINE o == [op[t] EXCEPT !.block = buffer]
             p == AfterTest(t, buffer)
  <2>1. /\ o.call = op[t].call /\ o.handle = op[t].handle /\ o.ok = op[t].ok
        /\ o.request = op[t].request
    BY DEF TypeOK, Op
  <2>2. ShapeAt(p, o)
    BY <2>1, <1>1, <1>7 DEF On, TestBuffer, AfterTest, AfterFree, ShapeAt
  <2>3. pc' = [pc EXCEPT ![t] = p] /\ op' = [op EXCEPT ![t] = o] /\ session' = session
    BY <1>7 DEF On, TestBuffer
  <2> HIDE DEF o, p
  <2>4. QED
    BY <2>1, <2>2, <2>3, <1>3
<1>8. ASSUME NEW t \in Threads, FreeBuffer(t)
      PROVE  Shape'
  <2> DEFINE o == [op[t] EXCEPT !.block = NoBlock]
             p == AfterFree(t)
  <2>1. /\ o.call = op[t].call /\ o.handle = op[t].handle /\ o.ok = op[t].ok
        /\ o.request = op[t].request
    BY DEF TypeOK, Op
  <2>2. ShapeAt(p, o)
    BY <2>1, <1>1, <1>8 DEF On, FreeBuffer, AfterFree, ShapeAt
  <2>3. pc' = [pc EXCEPT ![t] = p] /\ op' = [op EXCEPT ![t] = o] /\ session' = session
    BY <1>8 DEF On, FreeBuffer
  <2> HIDE DEF o, p
  <2>4. QED
    BY <2>1, <2>2, <2>3, <1>3
<1>9. ASSUME NEW t \in Threads, NEW p,
             pc' = [pc EXCEPT ![t] = p], op' = op, session' = session, ShapeAt(p, op[t])
      PROVE  Shape'
  <2>1. op' = [op EXCEPT ![t] = op[t]]
    BY <1>9 DEF TypeOK
  <2>2. QED
    BY <2>1, <1>9, <1>3
<1>10. ASSUME NEW t \in Threads, Allocate(t) \/ AllocateFails(t)
       PROVE  Shape'
  <2>1. ShapeAt("send", op[t]) /\ ShapeAt("done", op[t])
    BY <1>1, <1>10 DEF On, Allocate, AllocateFails, ShapeAt
  <2>2. QED
    BY <2>1, <1>9, <1>10 DEF On, Allocate, AllocateFails
<1>11. ASSUME NEW t \in Threads, Send(t)
       PROVE  Shape'
  <2>1. ASSUME NEW b, pc' = [pc EXCEPT ![t] = "transfer"], op' = [op EXCEPT ![t].block = b]
        PROVE  Shape'
    <3> DEFINE o == [op[t] EXCEPT !.block = b]
    <3>1. o.call = op[t].call /\ o.handle = op[t].handle /\ o.ok = op[t].ok
      BY DEF TypeOK, Op
    <3>2. ShapeAt("transfer", o)
      BY <3>1, <1>1, <1>11 DEF On, Send, ShapeAt
    <3>3. op' = [op EXCEPT ![t] = o] /\ session' = session
      BY <2>1, <1>11 DEF On, Send
    <3> HIDE DEF o
    <3>4. QED
      BY <3>1, <3>2, <3>3, <2>1, <1>3
  <2>2. ASSUME pc' = [pc EXCEPT ![t] = "settle"], op' = [op EXCEPT ![t].ok = TRUE]
        PROVE  Shape'
    <3> DEFINE o == [op[t] EXCEPT !.ok = TRUE]
    <3>1. o.call = op[t].call /\ o.handle = op[t].handle
      BY DEF TypeOK, Op
    <3>2. ShapeAt("settle", o)
      BY <3>1, <1>1, <1>11 DEF On, Send, ShapeAt
    <3>3. op' = [op EXCEPT ![t] = o] /\ session' = session
      BY <2>2, <1>11 DEF On, Send
    <3> HIDE DEF o
    <3>4. QED
      BY <3>1, <3>2, <3>3, <2>2, <1>3
  <2>3. QED
    BY <2>1, <2>2, <1>11 DEF On, Send
<1>12. ASSUME NEW t \in Threads, Transfer(t)
       PROVE  Shape'
  <2>1. CASE op' = op
    <3>1. ShapeAt("settle", op[t])
      BY <1>1, <1>12 DEF On, Transfer, ShapeAt
    <3>2. QED
      BY <3>1, <2>1, <1>9, <1>12 DEF On, Transfer
  <2>2. ASSUME NEW n, op' = [op EXCEPT ![t] = [@ EXCEPT !.ok = TRUE, !.sent = TRUE, !.given = n]]
        PROVE  Shape'
    <3> DEFINE o == [op[t] EXCEPT !.ok = TRUE, !.sent = TRUE, !.given = n]
    <3>1. o.call = op[t].call /\ o.handle = op[t].handle
      BY DEF TypeOK, Op
    <3>2. ShapeAt("settle", o)
      BY <3>1, <1>1, <1>12 DEF On, Transfer, ShapeAt
    <3>3. /\ pc' = [pc EXCEPT ![t] = "settle"] /\ op' = [op EXCEPT ![t] = o]
          /\ session' = session
      BY <2>2, <1>12 DEF On, Transfer
    <3> HIDE DEF o
    <3>4. QED
      BY <3>1, <3>2, <3>3, <1>3
  <2>3. QED
    BY <2>1, <2>2, <1>12 DEF On, Transfer, NegativeResult
<1>13. ASSUME NEW t \in Threads, SettleDone(t) \/ SettleFailed(t)
       PROVE  Shape'
  <2>1. ShapeAt("done", op[t])
    BY <1>1, <1>13 DEF On, SettleDone, SettleFailed, ShapeAt
  <2>2. QED
    BY <2>1, <1>9, <1>13 DEF On, SettleDone, SettleFailed, history
<1>14. ASSUME NEW t \in Threads, Look(t)
       PROVE  Shape'
  <2>1. CASE op' = op /\ pc' = [pc EXCEPT ![t] = "done"]
    <3>1. ShapeAt("done", op[t])
      BY <1>1, <1>14 DEF On, Look, ShapeAt
    <3>2. QED
      BY <3>1, <2>1, <1>9, <1>14 DEF On, Look
  <2>2. ASSUME NEW n, op' = [op EXCEPT ![t].given = n], pc' = [pc EXCEPT ![t] = "copy"]
        PROVE  Shape'
    <3> DEFINE o == [op[t] EXCEPT !.given = n]
    <3>1. o.call = op[t].call /\ o.handle = op[t].handle /\ o.out = op[t].out
      BY DEF TypeOK, Op
    <3>2. ShapeAt("copy", o)
      BY <3>1, <1>1, <1>14 DEF On, Look, ShapeAt
    <3>3. op' = [op EXCEPT ![t] = o] /\ session' = session
      BY <2>2, <1>14 DEF On, Look
    <3> HIDE DEF o
    <3>4. QED
      BY <3>1, <3>2, <3>3, <2>2, <1>3
  <2>3. QED
    BY <2>1, <2>2, <1>14 DEF On, Look
<1>15. ASSUME NEW t \in Threads, Copy(t)
       PROVE  Shape'
  <2> DEFINE s == BytesAt(buffer, handle[op[t].handle].offset, op[t].given)
             o == [op[t] EXCEPT !.out = s]
  <2>1. o.call = op[t].call /\ o.handle = op[t].handle
    BY DEF TypeOK, Op
  <2>2. ShapeAt("done", o)
    BY <2>1, <1>1, <1>15 DEF On, Copy, ShapeAt
  <2>3. /\ pc' = [pc EXCEPT ![t] = "done"] /\ op' = [op EXCEPT ![t] = o]
        /\ session' = session
    BY <1>15 DEF On, Copy
  <2> HIDE DEF o
  <2>4. QED
    BY <2>1, <2>2, <2>3, <1>3
<1>16. ASSUME NEW t \in Threads, Return(t)
       PROVE  Shape'
  <2>1. ShapeAt("idle", NoOp) /\ NoOp.call # "read"
    BY DEF ShapeAt, NoOp
  <2>2. session' # t /\ \A u \in Threads \ {t} : session' = u <=> session = u
    BY <1>1, <1>16, SetAssumption DEF On, Return
  <2>3. pc' = [pc EXCEPT ![t] = "idle"] /\ op' = [op EXCEPT ![t] = NoOp]
    BY <1>16 DEF On, Return
  <2>4. QED
    BY <2>1, <2>2, <2>3, ShapeOne
<1>17. QED
  BY <1>2, <1>4, <1>5, <1>6, <1>7, <1>8, <1>10, <1>11, <1>12, <1>13, <1>14, <1>15, <1>16
     DEF Next

-----------------------------------------------------------------------------
(* Undisturbed steps: one thread at a time *)

LEMMA Focus ==
  ASSUME NEW t \in Threads, Shape', At(t)', \A u \in Threads \ {t} : pc'[u] = "idle"
  PROVE  Undisturbed'
<1>1. \A u \in Threads : pc'[u] = "idle" => op'[u] = NoOp
  BY DEF Shape, ShapeAt
<1>2. (pc[t] # "idle" => Alone(t))' /\ (Alone(t) => At(t))'
  BY DEF Alone
<1>3. ASSUME NEW v \in Threads \ {t}
      PROVE  (pc[v] # "idle" => Alone(v))' /\ (Alone(v) => At(v))'
  <2>1. pc'[v] = "idle" /\ op'[v] = NoOp
    BY <1>1
  <2>2. ASSUME Alone(v)' PROVE At(v)'
    <3>1. pc'[t] = "idle" /\ op'[t] = NoOp
      BY <2>2, <1>1 DEF Alone
    <3>2. AtRest'
      BY <3>1 DEF At, InWork
    <3>3. Phase(v)' /\ Reading(v)'
      BY <2>1 DEF Phase, Reading, InWork, NoOp
    <3>4. Progress(v)'
      BY <2>1, <3>1 DEF At, Progress, Copied
    <3>5. QED
      BY <3>2, <3>3, <3>4 DEF At
  <2>3. QED
    BY <2>1, <2>2
<1>4. QED
  BY <1>2, <1>3 DEF Undisturbed

LEMMA StepOf ==
  ASSUME TypeOK, Undisturbed, Shape', NEW t \in Threads, pc[t] # "idle", NEW p,
         pc' = [pc EXCEPT ![t] = p], At(t)'
  PROVE  Undisturbed'
<1>1. \A u \in Threads \ {t} : pc'[u] = "idle"
  BY DEF Undisturbed, Alone, TypeOK
<1>2. QED
  BY <1>1, Focus

LEMMA Now ==
  ASSUME TypeOK, Shape, Undisturbed, NEW t \in Threads, pc[t] # "idle"
  PROVE  /\ At(t) /\ ShapeAt(pc[t], op[t]) /\ op[t] \in Op
         /\ \A u \in Threads \ {t} : pc[u] = "idle"
  BY DEF Undisturbed, Shape, Alone, TypeOK

(* The old response is freed.                                              *)
LEMMA FreedStep ==
  ASSUME TypeOK, Shape, Shape', Undisturbed, NEW t \in Threads, pc[t] # "idle",
         Empty', owner' = NoHandle, pc' = [pc EXCEPT ![t] = AfterFree(t)],
         op'[t].call = op[t].call, op'[t].request = op[t].request,
         op'[t].handle = op[t].handle, op'[t].ok = op[t].ok, ~op[t].ok,
         op[t].call \in {"write", "close"}, handle' = handle
  PROVE  Undisturbed'
<1>1. pc'[t] = AfterFree(t) /\ At(t)
  BY Now DEF TypeOK
<1>2. pc'[t] \in {"done", "allocate", "send"}
  BY <1>1 DEF AfterFree
<1>3. pc'[t] = "send" => ~HasResponse(op'[t].request)
  BY <1>1 DEF AfterFree
<1>4. Phase(t)'
  BY <1>1, <1>2, <1>3 DEF At, Phase, InWork, HasResponse, Declared
<1>5. Reading(t)' /\ Progress(t)'
  BY <1>2 DEF Reading, Progress, Copied
<1>6. AtRest'
  BY DEF AtRest
<1>7. QED
  BY <1>4, <1>5, <1>6, StepOf DEF At

LEMMA TestStep ==
  ASSUME TypeOK, Shape, Shape', Undisturbed, NEW t \in Threads, TestBuffer(t)
  PROVE  Undisturbed'
<1>1. /\ pc[t] = "test" /\ At(t) /\ ~op[t].ok /\ op[t].call \in {"write", "close"}
      /\ op[t] \in Op
  BY Now DEF On, TestBuffer, ShapeAt
<1>2. Kept /\ owner = NoHandle
  BY <1>1 DEF At, Phase, InWork
<1>3. /\ op'[t].call = op[t].call /\ op'[t].request = op[t].request
      /\ op'[t].handle = op[t].handle /\ op'[t].ok = op[t].ok /\ op'[t].block = buffer
  BY <1>1 DEF On, TestBuffer, TypeOK, Op
<1>4. UNCHANGED <<buffer, heap, owner, handle>>
  BY DEF On, TestBuffer, memory, history
<1>5. CASE buffer = NoBlock
  <2>1. Empty'
    BY <1>2, <1>4, <1>5 DEF Kept, Empty, Only
  <2>2. pc' = [pc EXCEPT ![t] = AfterFree(t)]
    BY <1>5 DEF On, TestBuffer, AfterTest
  <2>3. QED
    BY <2>1, <2>2, <1>1, <1>2, <1>3, <1>4, FreedStep
<1>6. CASE buffer # NoBlock
  <2>1. pc' = [pc EXCEPT ![t] = "free"]
    BY <1>6 DEF On, TestBuffer, AfterTest
  <2>2. pc'[t] = "free"
    BY <2>1 DEF TypeOK
  <2>3. Kept'
    BY <1>2, <1>4 DEF Kept, Only
  <2>4. Phase(t)'
    BY <2>2, <2>3, <1>1, <1>2, <1>3, <1>4, <1>6 DEF At, Phase, InWork
  <2>5. Reading(t)' /\ Progress(t)' /\ InWork(t)'
    BY <2>2, <1>1, <1>2, <1>3, <1>4 DEF Reading, Progress, Copied, InWork
  <2>6. QED
    BY <2>1, <2>4, <2>5, <1>1, StepOf DEF At
<1>7. QED
  BY <1>5, <1>6

LEMMA FreeStep ==
  ASSUME TypeOK, Shape, Shape', Undisturbed, NEW t \in Threads, FreeBuffer(t)
  PROVE  Undisturbed' /\ broken' = broken
<1>1. /\ pc[t] = "free" /\ At(t) /\ ~op[t].ok /\ op[t].call \in {"write", "close"}
      /\ op[t] \in Op
  BY Now DEF On, FreeBuffer, ShapeAt
<1>2. Kept /\ owner = NoHandle /\ buffer # NoBlock /\ op[t].block = buffer
  BY <1>1 DEF At, Phase, InWork
<1>3. /\ op'[t].call = op[t].call /\ op'[t].request = op[t].request
      /\ op'[t].handle = op[t].handle /\ op'[t].ok = op[t].ok
  BY <1>1 DEF On, FreeBuffer, TypeOK, Op
<1>4. /\ broken' = (broken \/ ~heap[buffer].live)
      /\ heap' = [b \in Blocks |-> IF b = buffer THEN Free ELSE heap[b]]
      /\ buffer' = NoBlock /\ owner' = owner /\ handle' = handle
      /\ pc' = [pc EXCEPT ![t] = AfterFree(t)]
  BY <1>2 DEF On, FreeBuffer, history
<1>5. Empty'
  BY <1>2, <1>4 DEF Kept, Empty, Only, Free
<1>6. broken' = broken
  BY <1>2, <1>4 DEF Kept, TypeOK
<1>7. QED
  BY <1>1, <1>2, <1>3, <1>4, <1>5, <1>6, FreedStep

(* The command is sent.                                                    *)
LEMMA AllocateStep ==
  ASSUME TypeOK, Shape, Shape', Undisturbed, NEW t \in Threads, Allocate(t)
  PROVE  Undisturbed'
<1> DEFINE n == Declared(op[t].request)
           noise == [i \in 1..n |-> Noise]
<1>1. /\ pc[t] = "allocate" /\ At(t) /\ ~op[t].ok /\ op[t].call = "write"
      /\ HasResponse(op[t].request) /\ op[t] \in Op
  BY Now DEF On, Allocate, ShapeAt
<1>2. n \in Nat
  BY <1>1, RequestTypes DEF Op
<1>3. Empty /\ owner = NoHandle /\ handle[op[t].handle].kind = "ioctl"
  BY <1>1 DEF At, Phase, InWork
<1>4. noise \in [1..n -> Byte]
  BY DEF Noise, Byte
<1>5. Len(noise) = n
  BY <1>2, <1>4, MakeSeq
<1>6. noise = Response(op[t].tag, n, 0)
  BY <1>2 DEF Response
<1>7. PICK b \in Blocks : heap' = [heap EXCEPT ![b] = Live(noise)] /\ buffer' = b
  BY DEF On, Allocate
<1>8. /\ pc' = [pc EXCEPT ![t] = "send"] /\ op' = op /\ owner' = owner
      /\ handle' = handle
  BY DEF On, Allocate, history
<1>9. pc'[t] = "send"
  BY <1>8 DEF TypeOK
<1> HIDE DEF n, noise
<1>10. heap'[b].live /\ heap'[b].bytes = noise /\ \A c \in Blocks \ {b} : heap'[c] = heap[c]
  BY <1>7 DEF Live, TypeOK
<1>11. \A m : m = n => Holding(m)'
  BY <1>3, <1>5, <1>7, <1>10, SetAssumption DEF Holding, Only, Empty
<1>12. Phase(t)'
  BY <1>1, <1>3, <1>6, <1>7, <1>8, <1>9, <1>10, <1>11 DEF Phase, InWork, n
<1>13. Reading(t)' /\ Progress(t)' /\ InWork(t)'
  BY <1>1, <1>3, <1>8, <1>9 DEF Reading, Progress, Copied, InWork
<1>14. QED
  BY <1>1, <1>8, <1>12, <1>13, StepOf DEF At

LEMMA AllocateFailsStep ==
  ASSUME TypeOK, Shape, Shape', Undisturbed, NEW t \in Threads, AllocateFails(t)
  PROVE  Undisturbed'
<1>1. /\ pc[t] = "allocate" /\ At(t) /\ ~op[t].ok /\ op[t].call = "write"
  BY Now DEF On, AllocateFails, ShapeAt
<1>2. Empty /\ owner = NoHandle /\ handle[op[t].handle].kind = "ioctl"
  BY <1>1 DEF At, Phase, InWork
<1>3. /\ pc' = [pc EXCEPT ![t] = "done"]
      /\ buffer' = NoBlock /\ UNCHANGED <<op, heap, owner, handle>>
  BY DEF On, AllocateFails, history
<1>4. pc'[t] = "done"
  BY <1>3 DEF TypeOK
<1>5. AtRest'
  BY <1>2, <1>3 DEF AtRest, Empty, Only
<1>6. Phase(t)' /\ Reading(t)' /\ Progress(t)'
  BY <1>1, <1>2, <1>3, <1>4 DEF Phase, InWork, Reading, Progress, Copied
<1>7. QED
  BY <1>1, <1>3, <1>5, <1>6, StepOf DEF At

LEMMA SendStep ==
  ASSUME TypeOK, Shape, Shape', Undisturbed, NEW t \in Threads, Send(t)
  PROVE  Undisturbed'
<1> DEFINE q == op[t].request
<1>1. pc[t] = "send" /\ At(t) /\ op[t].call = "write" /\ ~op[t].ok /\ op[t] \in Op
  BY Now DEF On, Send, ShapeAt
<1>2. /\ IF HasResponse(q) THEN Holding(Declared(q)) ELSE Empty
      /\ owner = NoHandle /\ handle[op[t].handle].kind = "ioctl"
      /\ HasResponse(q) => heap[buffer].bytes = Response(op[t].tag, Declared(q), 0)
  BY <1>1 DEF At, Phase, InWork
<1>3. Declared(q) \in Nat /\ (HasResponse(q) => buffer # NoBlock)
  BY <1>1, <1>2, RequestTypes DEF Op, Holding
<1>4. UNCHANGED <<buffer, heap, owner, handle>>
  BY DEF On, Send, memory, history
<1>5. (\A m : Holding(m) => Holding(m)') /\ (Empty => Empty')
  BY <1>4 DEF Holding, Only, Empty
<1>6. CASE pc' = [pc EXCEPT ![t] = "transfer"]
  <2>1. op' = [op EXCEPT ![t].block = IF q.dir = "in" THEN buffer ELSE NoBlock]
    BY <1>1, <1>6 DEF On, Send, TypeOK
  <2>2. q.dir # "in" => buffer = NoBlock
    BY <1>2 DEF HasResponse, Empty
  <2>3. /\ op'[t].call = "write" /\ op'[t].request = q /\ op'[t].handle = op[t].handle
        /\ op'[t].ok = op[t].ok /\ op'[t].block = buffer /\ op'[t].tag = op[t].tag
    BY <1>1, <2>1, <2>2 DEF TypeOK, Op
  <2>4. pc'[t] = "transfer"
    BY <1>6 DEF TypeOK
  <2>5. Phase(t)'
    <3>1. op'[t].request = op[t].request
      BY <2>3
    <3>2. (IF HasResponse(op[t].request) THEN Holding(Declared(op[t].request)) ELSE Empty)'
      BY <1>2, <1>4, <3>1 DEF Holding, Only, Empty
    <3>3. QED
      BY <1>1, <1>2, <1>4, <2>3, <2>4, <3>2 DEF Phase, InWork
  <2>6. Reading(t)' /\ Progress(t)' /\ InWork(t)'
    BY <1>2, <1>4, <2>3, <2>4 DEF Reading, Progress, Copied, InWork
  <2>7. QED
    BY <1>1, <1>6, <2>5, <2>6, StepOf DEF At
<1>7. CASE pc' = [pc EXCEPT ![t] = "settle"]
  <2>1. /\ op' = [op EXCEPT ![t].ok = TRUE]
        /\ \/ q.dir = "in" /\ buffer = NoBlock
           \/ q.dir = "out" /\ ~q.data
           \/ q.dir = "other"
    BY <1>1, <1>7 DEF On, Send, TypeOK
  <2>2. NeverSent(q) /\ ~HasResponse(q)
    BY <2>1, <1>3 DEF NeverSent, HasResponse
  <2>3. /\ op'[t].call = "write" /\ op'[t].request = q /\ op'[t].handle = op[t].handle
    BY <1>1, <2>1 DEF TypeOK, Op
  <2>4. pc'[t] = "settle"
    BY <1>7 DEF TypeOK
  <2>5. Phase(t)'
    BY <1>1, <1>2, <1>4, <1>5, <2>2, <2>3, <2>4 DEF Phase, InWork
  <2>6. Reading(t)' /\ Progress(t)' /\ InWork(t)'
    BY <1>2, <1>4, <2>3, <2>4 DEF Reading, Progress, Copied, InWork
  <2>7. QED
    BY <1>1, <1>7, <2>5, <2>6, StepOf DEF At
<1>8. QED
  BY <1>6, <1>7 DEF On, Send

LEMMA TransferStep ==
  ASSUME TypeOK, Shape, Shape', Undisturbed, NEW t \in Threads, Transfer(t)
  PROVE  Undisturbed' /\ broken' = broken
<1> DEFINE q == op[t].request
           length == Declared(q)
<1>1. pc[t] = "transfer" /\ At(t) /\ op[t].call = "write" /\ ~op[t].ok /\ op[t] \in Op
  BY Now DEF On, Transfer, ShapeAt
<1>2. /\ IF HasResponse(q) THEN Holding(length) ELSE Empty
      /\ owner = NoHandle /\ handle[op[t].handle].kind = "ioctl"
      /\ HasResponse(q) => heap[buffer].bytes = Response(op[t].tag, length, 0)
      /\ op[t].block = buffer
  BY <1>1 DEF At, Phase, InWork
<1>3. length \in Nat /\ Transferred(q) \in 0..length
  BY <1>1, RequestTypes DEF Op
<1>4. UNCHANGED <<buffer, owner, handle>> /\ pc' = [pc EXCEPT ![t] = "settle"]
  BY DEF On, Transfer, history
<1>5. pc'[t] = "settle"
  BY <1>4 DEF TypeOK
<1>6. ASSUME NEW n \in 0..Transferred(q),
             \/ op' = [op EXCEPT ![t] = [@ EXCEPT !.ok = TRUE, !.sent = TRUE, !.given = n]]
             \/ op' = op,
             heap' = IF op[t].block = NoBlock THEN heap
                     ELSE [heap EXCEPT ![op[t].block].bytes =
                            [i \in DOMAIN @ |-> IF i <= n THEN <<op[t].tag, i>> ELSE @[i]]],
             broken' = (broken \/ (op[t].block # NoBlock
                                     /\ n > Len(heap[op[t].block].bytes)))
      PROVE  Undisturbed' /\ broken' = broken
  <2>1. /\ op'[t].call = "write" /\ op'[t].request = q /\ op'[t].handle = op[t].handle
        /\ op'[t].tag = op[t].tag /\ op'[t].block = op[t].block
        /\ op'[t].ok => op'[t].sent /\ op'[t].given = n
    <3>1. CASE op' = op
      BY <1>1, <3>1
    <3>2. CASE op' = [op EXCEPT ![t] = [@ EXCEPT !.ok = TRUE, !.sent = TRUE, !.given = n]]
      BY <1>1, <3>2 DEF TypeOK, Op
    <3>3. QED
      BY <1>6, <3>1, <3>2
  <2>2. CASE buffer = NoBlock
    <3>1. ~HasResponse(q) /\ Empty
      BY <1>2, <2>2 DEF Holding
    <3>2. heap' = heap /\ broken' = broken
      BY <1>2, <1>6, <2>2 DEF TypeOK
    <3>3. Empty'
      BY <3>1, <3>2, <1>4 DEF Empty, Only
    <3>4. Phase(t)'
      BY <1>1, <1>2, <1>4, <1>5, <2>1, <3>1, <3>2, <3>3 DEF Phase, InWork
    <3>5. Reading(t)' /\ Progress(t)' /\ InWork(t)'
      BY <1>1, <1>2, <1>4, <1>5, <2>1 DEF Reading, Progress, Copied, InWork
    <3>6. QED
      BY <1>1, <1>4, <3>2, <3>4, <3>5, StepOf DEF At
  <2>3. CASE buffer # NoBlock
    <3> DEFINE old == heap[buffer].bytes
               new == [i \in DOMAIN old |-> IF i <= n THEN <<op[t].tag, i>> ELSE old[i]]
    <3>1. HasResponse(q) /\ Holding(length) /\ old = Response(op[t].tag, length, 0)
      BY <1>2, <2>3 DEF Empty
    <3>2. Len(old) = length /\ buffer \in Blocks
      BY <3>1, <2>3 DEF Holding, TypeOK
    <3>3. DOMAIN old = 1..length
      BY <3>1 DEF Response
    <3>4. new = Response(op[t].tag, length, n)
      <4>1. \A i \in 1..length : i > 0 /\ old[i] = Noise
        BY <3>1, <1>3 DEF Response
      <4>2. QED
        BY <3>3, <4>1 DEF Response
    <3>5. /\ heap'[buffer].bytes = new /\ heap'[buffer].live = heap[buffer].live
          /\ \A c \in Blocks \ {buffer} : heap'[c] = heap[c]
      <4> HIDE DEF new
      <4>1. heap' = [heap EXCEPT ![buffer].bytes = new]
        BY <1>2, <1>6, <2>3 DEF new
      <4>2. QED
        BY <4>1, <3>2 DEF TypeOK
    <3>6. Len(new) = length
      <4>1. \A i \in 1..length : new[i] \in Byte
        BY <3>4, <1>1, <1>3 DEF Response, Noise, Byte, Op
      <4>2. new \in [1..length -> Byte]
        BY <3>3, <4>1
      <4>3. QED
        BY <4>2, <1>3, MakeSeq
    <3>7. broken' = broken
      BY <1>2, <1>3, <1>6, <3>2 DEF TypeOK
    <3> HIDE DEF new, old
    <3>8. \A m : m = length => Holding(m)'
      BY <1>4, <2>3, <3>1, <3>2, <3>5, <3>6 DEF Holding, Only
    <3>9. Phase(t)'
      <4>1. op'[t].request = op[t].request /\ HasResponse(op[t].request)
        BY <2>1, <3>1
      <4>2. Holding(Declared(op[t].request))'
        BY <3>8, <4>1 DEF Holding, Only
      <4>3. op'[t].ok =>
              heap'[buffer'].bytes = Response(op'[t].tag, Declared(op'[t].request), op'[t].given)
        BY <1>4, <2>1, <3>4, <3>5
      <4>4. QED
        BY <1>1, <1>2, <1>4, <1>5, <2>1, <4>1, <4>2, <4>3 DEF Phase, InWork
    <3>10. Reading(t)' /\ Progress(t)' /\ InWork(t)'
      BY <1>1, <1>2, <1>4, <1>5, <2>1 DEF Reading, Progress, Copied, InWork
    <3>11. QED
      BY <1>1, <1>4, <3>7, <3>9, <3>10, StepOf DEF At
  <2>4. QED
    BY <2>2, <2>3
<1>7. QED
  BY <1>6 DEF Transfer, NegativeResult

(* The result is noted.                                                    *)
LEMMA SettleDoneStep ==
  ASSUME TypeOK, Shape, Shape', Undisturbed, NEW t \in Threads, SettleDone(t)
  PROVE  Undisturbed' /\ broken' = broken
<1> DEFINE q == op[t].request
           length == Declared(q)
<1>1. /\ pc[t] = "settle" /\ At(t) /\ op[t].call = "write" /\ op[t].ok /\ op[t] \in Op
      /\ op[t].handle \in Handles
  BY Now DEF On, SettleDone, ShapeAt
<1>2. /\ IF HasResponse(q) THEN Holding(length) ELSE Empty
      /\ owner = NoHandle /\ handle[op[t].handle].kind = "ioctl"
      /\ HasResponse(q) => heap[buffer].bytes = Response(op[t].tag, length, op[t].given)
      /\ op[t].sent \/ NeverSent(q)
  BY <1>1 DEF At, Phase, InWork
<1>3. length \in Nat
  BY <1>1, RequestTypes DEF Op
<1>4. /\ UNCHANGED <<buffer, heap, op>> /\ pc' = [pc EXCEPT ![t] = "done"]
      /\ handle' = [handle EXCEPT ![op[t].handle].offset = 0]
  BY DEF On, SettleDone
<1>5. /\ pc'[t] = "done" /\ handle'[op[t].handle].kind = "ioctl"
      /\ handle'[op[t].handle].offset = 0
  BY <1>1, <1>2, <1>4 DEF TypeOK
<1>6. HasResponse(q) <=> q.dir = "in" /\ buffer # NoBlock
  BY <1>2 DEF HasResponse, Holding, Empty
<1>7. CASE HasResponse(q)
  <2>1. /\ size' = length /\ owner' = op[t].handle /\ had' = 0
        /\ broken' = (broken \/ length > Len(heap[buffer].bytes))
        /\ answer' = [tag |-> op[t].tag, length |-> length, given |-> op[t].given]
    BY <1>6, <1>7 DEF On, SettleDone
  <2>2. Holding(length) /\ broken' = broken
    BY <1>2, <1>3, <1>7, <2>1 DEF Holding, TypeOK
  <2>3. Holding(size)'
    BY <1>4, <2>1, <2>2 DEF Holding, Only
  <2>4. AtRest'
    <3>1. owner' # NoHandle /\ answer'.length = size'
      BY <1>1, <2>1, SetAssumption
    <3>2. heap'[buffer'].bytes = Response(answer'.tag, size', answer'.given)
      BY <1>2, <1>4, <1>7, <2>1
    <3>3. handle'[owner'].kind = "ioctl" /\ handle'[owner'].offset <= size'
      BY <1>3, <1>5, <2>1
    <3>4. QED
      BY <3>1, <3>2, <3>3, <2>3 DEF AtRest
  <2>5. Phase(t)' /\ Reading(t)' /\ Progress(t)'
    BY <1>1, <1>2, <1>4, <1>5, <2>1 DEF Phase, InWork, Reading, Progress, Copied
  <2>6. QED
    BY <1>1, <1>4, <2>2, <2>4, <2>5, StepOf DEF At
<1>8. CASE ~HasResponse(q)
  <2>1. UNCHANGED <<broken, owner, answer, had>>
    BY <1>6, <1>8 DEF On, SettleDone
  <2>2. AtRest'
    BY <1>2, <1>4, <1>8, <2>1 DEF AtRest, Empty, Only
  <2>3. Phase(t)' /\ Reading(t)' /\ Progress(t)'
    BY <1>1, <1>2, <1>4, <1>5, <2>1 DEF Phase, InWork, Reading, Progress, Copied
  <2>4. QED
    BY <1>1, <1>4, <2>1, <2>2, <2>3, StepOf DEF At
<1>9. QED
  BY <1>7, <1>8

LEMMA SettleFailedStep ==
  ASSUME TypeOK, Shape, Shape', Undisturbed, NEW t \in Threads, SettleFailed(t)
  PROVE  Undisturbed' /\ broken' = broken
<1>1. /\ pc[t] = "settle" /\ At(t) /\ op[t].call = "write" /\ ~op[t].ok
      /\ op[t].handle \in Handles
  BY Now DEF On, SettleFailed, ShapeAt
<1>2. /\ owner = NoHandle /\ handle[op[t].handle].kind = "ioctl"
      /\ Only(buffer) /\ (buffer # NoBlock => heap[buffer].live)
  BY <1>1 DEF At, Phase, InWork, Holding, Empty
<1>3. /\ heap' = [b \in Blocks |-> IF b = buffer THEN Free ELSE heap[b]]
      /\ broken' = (broken \/ (buffer # NoBlock /\ ~heap[buffer].live))
      /\ buffer' = NoBlock /\ op' = op /\ pc' = [pc EXCEPT ![t] = "done"]
      /\ owner' = owner /\ handle' = [handle EXCEPT ![op[t].handle].offset = 0]
  BY DEF On, SettleFailed, history
<1>4. pc'[t] = "done" /\ handle'[op[t].handle].kind = "ioctl"
  BY <1>1, <1>2, <1>3 DEF TypeOK
<1>5. AtRest' /\ broken' = broken
  BY <1>2, <1>3 DEF AtRest, Empty, Only, Free, TypeOK
<1>6. Phase(t)' /\ Reading(t)' /\ Progress(t)'
  BY <1>1, <1>2, <1>3, <1>4 DEF Phase, InWork, Reading, Progress, Copied
<1>7. QED
  BY <1>1, <1>3, <1>5, <1>6, StepOf DEF At

(* Calls begin: an undisturbed one finds no other under way.               *)
LEMMA NoneBusy ==
  ASSUME TypeOK, Shape, Undisturbed, NEW t \in Threads, pc[t] = "idle",
         \A u \in Threads \ {t} : ~(pc[u] # "idle" /\ op[u].call \in {"read", "write", "close"})
  PROVE  /\ \A u \in Threads : pc[u] = "idle"
         /\ AtRest /\ (owner # NoHandle => handle[owner].offset = had)
<1>1. \A u \in Threads : op[u].call \in {"none", "read", "write", "close"}
  <2>1. \A u \in Threads : op[u] \in Op
    BY DEF TypeOK
  <2>2. QED
    BY <2>1 DEF Op
<1>2. \A u \in Threads : pc[u] # "idle" => op[u].call # "none"
  BY DEF Shape, ShapeAt
<1>3. \A u \in Threads : pc[u] = "idle"
  BY <1>1, <1>2
<1>4. At(t)
  BY <1>3 DEF Undisturbed, Alone
<1>5. QED
  BY <1>3, <1>4 DEF At, InWork, Progress, Copied

LEMMA BeginStep ==
  ASSUME TypeOK, Shape, Shape', Undisturbed, ~overlapped',
         NEW t \in Threads, NEW o \in Op, BeginUnlocked(t, o), ~o.ok,
         o.call \in {"write", "close"}, o.call = "write" => handle[o.handle].kind = "ioctl"
  PROVE  Undisturbed'
<1>1. pc[t] = "idle" /\ ~Busy(t, {"read", "write", "close"})
  BY DEF On, BeginUnlocked, Begin
<1>2. (\A u \in Threads : pc[u] = "idle") /\ AtRest
  BY <1>1, NoneBusy DEF Busy
<1>3. /\ pc' = [pc EXCEPT ![t] = "test"] /\ op' = [op EXCEPT ![t] = o]
      /\ owner' = NoHandle /\ UNCHANGED <<buffer, heap, handle>>
  BY DEF On, BeginUnlocked, Begin, memory
<1>4. pc'[t] = "test" /\ op'[t] = o /\ \A u \in Threads \ {t} : pc'[u] = "idle"
  BY <1>2, <1>3 DEF TypeOK
<1>5. Kept'
  <2>1. Kept
    BY <1>2 DEF AtRest, Kept, Empty, Holding
  <2>2. QED
    BY <1>3, <2>1 DEF Kept, Only
<1>6. Phase(t)'
  BY <1>3, <1>4, <1>5 DEF Phase, InWork
<1>7. Reading(t)' /\ Progress(t)' /\ InWork(t)'
  BY <1>3, <1>4 DEF Reading, Progress, Copied, InWork
<1>8. QED
  BY <1>4, <1>6, <1>7, Focus DEF At

LEMMA ReadStep ==
  ASSUME TypeOK, Shape, Shape', Undisturbed, ~overlapped',
         NEW t \in Threads, NEW h \in Handles, NEW n \in ReadLengths, Read(t, h, n)
  PROVE  Undisturbed'
<1>1. /\ pc[t] = "idle" /\ ~Busy(t, {"write", "close"}) /\ session = NoThread
      /\ handle[h].kind = "ioctl"
  BY DEF On, Read, Begin, Unlocked
<1>2. \A u \in Threads : op[u].call # "read"
  BY <1>1, SetAssumption DEF Shape, Session
<1>3. /\ \A u \in Threads : pc[u] = "idle"
      /\ AtRest /\ (owner # NoHandle => handle[owner].offset = had)
  BY <1>1, <1>2, NoneBusy DEF Busy
<1> DEFINE o == [NoOp EXCEPT !.call = "read", !.handle = h, !.asked = n]
<1>4. /\ pc' = [pc EXCEPT ![t] = "look"] /\ op' = [op EXCEPT ![t] = o]
      /\ UNCHANGED <<buffer, heap, size, handle, owner, answer, had>>
      /\ foreign' = (foreign \/ owner \notin {h, NoHandle})
  BY DEF On, Read, Begin, memory
<1>5. o.call = "read" /\ o.handle = h
  BY DEF NoOp
<1> HIDE DEF o
<1>6. /\ pc'[t] = "look" /\ op'[t].call = "read" /\ op'[t].handle = h
      /\ \A u \in Threads \ {t} : pc'[u] = "idle"
  BY <1>3, <1>4, <1>5 DEF TypeOK
<1>7. AtRest'
  BY <1>3, <1>4 DEF AtRest, Empty, Holding, Only
<1>8. Phase(t)'
  BY <1>1, <1>4, <1>6 DEF Phase, InWork
<1>9. Reading(t)' /\ Progress(t)'
  BY <1>3, <1>4, <1>6 DEF Reading, Progress, Copied
<1>10. QED
  BY <1>6, <1>7, <1>8, <1>9, Focus DEF At

(* What a read finds: the owner's offset is as far as it has read.         *)
LEMMA LookStep ==
  ASSUME TypeOK, Shape, Shape', Undisturbed, NEW t \in Threads, Look(t)
  PROVE  Undisturbed'
<1>1. /\ pc[t] = "look" /\ At(t) /\ op[t].call = "read" /\ op[t].out = <<>>
      /\ op[t].handle \in Handles /\ op[t] \in Op
  BY Now DEF On, Look, ShapeAt
<1>2. /\ AtRest /\ (owner # NoHandle => handle[owner].offset = had)
      /\ handle[op[t].handle].kind = "ioctl"
      /\ ~foreign => owner \in {op[t].handle, NoHandle}
  BY <1>1 DEF At, Phase, InWork, Reading, Progress, Copied
<1>3. UNCHANGED <<buffer, heap, size, handle, foreign, owner, answer, had>>
  BY DEF On, Look, memory, history
<1>4. AtRest'
  BY <1>2, <1>3 DEF AtRest, Empty, Holding, Only
<1>5. CASE pc' = [pc EXCEPT ![t] = "done"]
  <2>1. op' = op /\ (buffer = NoBlock \/ ToCopy(t) = 0)
    BY <1>1, <1>5 DEF On, Look, TypeOK
  <2>2. pc'[t] = "done"
    BY <1>5 DEF TypeOK
  <2>3. ASSUME op[t].handle = owner
        PROVE  Continued(op[t].asked) = <<>>
    <3>1. /\ owner # NoHandle /\ ToCopy(t) = 0 /\ answer.length = size
          /\ handle[owner].offset = had /\ had <= size
      BY <1>1, <1>2, <2>1, <2>3, SetAssumption DEF AtRest, Holding
    <3>2. had \in Nat /\ size \in Nat
      BY DEF TypeOK
    <3>3. Smaller(op[t].asked, answer.length - had) = 0
      BY <2>3, <3>1, <3>2 DEF ToCopy
    <3>4. QED
      BY <3>3 DEF Continued
  <2>4. Progress(t)'
    <3>1. Copied(t)' => op[t].handle = owner
      BY <1>3, <2>1 DEF Copied
    <3>2. op[t].handle = owner => owner # NoHandle /\ had \in Nat
      BY <1>1, SetAssumption DEF TypeOK
    <3>3. Len(<<>>) = 0
      OBVIOUS
    <3>4. Copied(t)' => Continued(op[t].asked)' = <<>>
      BY <1>3, <2>1, <2>3, <3>1 DEF Continued
    <3>5. op[t].handle = owner => had = had + Len(op[t].out)
      BY <1>1, <3>2, <3>3
    <3>6. QED
      BY <1>1, <1>2, <1>3, <2>1, <3>1, <3>2, <3>4, <3>5 DEF Progress
  <2>5. Phase(t)' /\ Reading(t)'
    BY <1>1, <1>2, <1>3, <2>1, <2>2 DEF Phase, InWork, Reading
  <2>6. QED
    BY <1>1, <1>4, <1>5, <2>4, <2>5, StepOf DEF At
<1>6. CASE pc' = [pc EXCEPT ![t] = "copy"]
  <2>1. op' = [op EXCEPT ![t].given = ToCopy(t)] /\ buffer # NoBlock
    BY <1>1, <1>6 DEF On, Look, TypeOK
  <2>2. /\ op'[t].call = "read" /\ op'[t].handle = op[t].handle /\ op'[t].asked = op[t].asked
        /\ op'[t].given = ToCopy(t)
    BY <1>1, <2>1 DEF TypeOK, Op
  <2>3. pc'[t] = "copy"
    BY <1>6 DEF TypeOK
  <2>4. ToCopy(t)' = ToCopy(t)
    BY <1>3, <2>2 DEF ToCopy
  <2>5. Reading(t)'
    BY <1>2, <1>3, <2>1, <2>2, <2>4 DEF Reading
  <2>6. Phase(t)' /\ Progress(t)'
    BY <1>2, <1>3, <2>2, <2>3 DEF Phase, InWork, Progress, Copied
  <2>7. QED
    BY <1>1, <1>4, <1>6, <2>5, <2>6, StepOf DEF At
<1>7. QED
  BY <1>5, <1>6 DEF On, Look

(* The owner's next bytes are copied; another's offset may be past the end. *)
LEMMA CopyStep ==
  ASSUME TypeOK, Shape, Shape', Undisturbed, NEW t \in Threads, Copy(t)
  PROVE  Undisturbed' /\ (broken' => broken \/ foreign)
<1> DEFINE h == op[t].handle
           n == op[t].given
           bytes == BytesAt(buffer, handle[h].offset, n)
<1>1. /\ pc[t] = "copy" /\ At(t) /\ op[t].call = "read" /\ h \in Handles /\ op[t] \in Op
  BY Now DEF On, Copy, ShapeAt
<1>2. /\ AtRest /\ buffer # NoBlock /\ n = ToCopy(t) /\ handle[h].kind = "ioctl"
      /\ owner # NoHandle => handle[owner].offset = had
      /\ ~foreign => owner \in {h, NoHandle}
  BY <1>1 DEF At, Phase, InWork, Reading, Progress, Copied
<1>3. /\ owner # NoHandle /\ Holding(size) /\ answer.length = size
      /\ heap[buffer].bytes = Response(answer.tag, size, answer.given)
      /\ handle[owner].kind = "ioctl" /\ handle[owner].offset = had /\ had <= size
  BY <1>2 DEF AtRest, Empty
<1>4. /\ handle[h].offset \in Nat /\ n \in Nat /\ had \in Nat /\ size \in Nat
      /\ answer.given \in Nat /\ owner \in Handles
  BY <1>1, <1>3 DEF TypeOK, Op
<1>5. bytes \in Seq(Byte) /\ Len(bytes) = n
  BY <1>4, BytesAtType DEF TypeOK
<1>6. /\ UNCHANGED <<buffer, heap, size, foreign, owner, answer, had>>
      /\ pc' = [pc EXCEPT ![t] = "done"]
      /\ op' = [op EXCEPT ![t].out = bytes]
      /\ broken' = (broken \/ buffer = NoBlock \/ handle[h].offset + n > Len(heap[buffer].bytes))
      /\ handle' = [handle EXCEPT ![h].offset = handle[h].offset + n]
  BY DEF On, Copy, history
<1> HIDE DEF bytes
<1>7. /\ op'[t].call = "read" /\ op'[t].handle = h /\ op'[t].asked = op[t].asked
      /\ op'[t].out = bytes /\ pc'[t] = "done"
  BY <1>1, <1>6 DEF TypeOK, Op
<1>8. /\ \A g \in Handles : handle'[g].kind = handle[g].kind
      /\ \A g \in Handles \ {h} : handle'[g] = handle[g]
      /\ handle'[h].offset = handle[h].offset + n
  BY <1>1, <1>6 DEF TypeOK
<1>9. Holding(size)'
  BY <1>3, <1>6 DEF Holding, Only
<1>10. Phase(t)' /\ Reading(t)'
  BY <1>1, <1>2, <1>6, <1>7, <1>8 DEF Phase, InWork, Reading
<1>11. CASE h = owner
  <2>1. had + n <= size
    BY <1>1, <1>2, <1>3, <1>11, ToCopyType
  <2>2. n = Smaller(op[t].asked, answer.length - had)
    BY <1>2, <1>3, <1>4, <1>11 DEF ToCopy
  <2>3. bytes = Continued(op[t].asked)
    <3>1. bytes = [i \in 1..n |-> IF had + i \in DOMAIN heap[buffer].bytes
                                  THEN heap[buffer].bytes[had + i] ELSE Noise]
      BY <1>2, <1>3, <1>11 DEF bytes, BytesAt
    <3>2. DOMAIN heap[buffer].bytes = 1..size
      BY <1>3 DEF Response
    <3>3. \A j \in 1..size : heap[buffer].bytes[j] =
                               IF j <= answer.given THEN <<answer.tag, j>> ELSE Noise
      BY <1>3 DEF Response
    <3>4. \A i \in 1..n : had + i \in 1..size
      BY <1>4, <2>1
    <3>5. bytes = [i \in 1..n |-> IF had + i <= answer.given
                                  THEN <<answer.tag, had + i>> ELSE Noise]
      BY <3>1, <3>2, <3>3, <3>4
    <3>6. QED
      BY <3>5, <2>2 DEF Continued
  <2>4. handle'[owner'].offset = had' + Len(op'[t].out) /\ handle'[owner'].offset <= size'
    BY <1>3, <1>5, <1>6, <1>7, <1>8, <1>11, <2>1
  <2>5. AtRest'
    BY <1>3, <1>4, <1>6, <1>8, <1>9, <2>4 DEF AtRest
  <2>6. Progress(t)'
    <3>1. Continued(op[t].asked)' = Continued(op[t].asked)
      BY <1>6, <1>7 DEF Continued
    <3>2. Copied(t)'
      BY <1>6, <1>7, <1>11 DEF Copied
    <3>3. QED
      BY <1>7, <2>3, <2>4, <3>1, <3>2 DEF Progress
  <2>7. broken' = broken
    <3>1. Len(heap[buffer].bytes) = size
      BY <1>3 DEF Holding
    <3>2. ~(handle[h].offset + n > Len(heap[buffer].bytes))
      BY <1>3, <1>4, <1>11, <2>1, <3>1
    <3>3. broken' = (broken \/ FALSE)
      BY <1>2, <1>6, <3>2
    <3>4. QED
      BY <3>3 DEF TypeOK
  <2>8. Undisturbed'
    BY <1>1, <1>6, <1>10, <2>5, <2>6, StepOf DEF At
  <2>9. QED
    BY <2>7, <2>8
<1>12. CASE h # owner
  <2>1. handle'[owner'] = handle[owner]
    BY <1>4, <1>6, <1>8, <1>12
  <2>2. AtRest'
    BY <1>3, <1>4, <1>6, <1>9, <2>1 DEF AtRest
  <2>3. Progress(t)'
    BY <1>3, <1>6, <1>7, <1>12, <2>1 DEF Progress, Copied
  <2>4. foreign
    BY <1>2, <1>3, <1>12
  <2>5. QED
    BY <1>1, <1>6, <1>10, <2>2, <2>3, <2>4, StepOf DEF At
<1>13. QED
  BY <1>11, <1>12

(* A call returns; what a read of the owner's has copied counts as read.   *)
LEMMA ReturnStep ==
  ASSUME TypeOK, Shape, Shape', Undisturbed, NEW t \in Threads, Return(t)
  PROVE  Undisturbed'
<1>1. /\ pc[t] = "done" /\ At(t) /\ op[t] \in Op /\ op[t].handle \in Handles
      /\ op[t].call # "none"
  BY Now DEF On, Return, ShapeAt
<1>2. /\ AtRest /\ Progress(t)
      /\ op[t].call = "close" => owner = NoHandle
  BY <1>1 DEF At, Phase, InWork
<1>3. /\ UNCHANGED <<buffer, heap, size, owner, answer>>
      /\ pc' = [pc EXCEPT ![t] = "idle"] /\ op' = [op EXCEPT ![t] = NoOp]
      /\ op[t].call = "close" \/ handle' = handle
      /\ had' = IF op[t].call = "read" /\ op[t].handle = owner
                THEN had + Len(op[t].out) ELSE had
  BY DEF On, Return, memory
<1>4. pc'[t] = "idle" /\ op'[t].call = "none" /\ op'[t] = NoOp
  BY <1>3 DEF TypeOK, NoOp
<1>5. owner # NoHandle => handle' = handle /\ handle[owner].offset = had'
  BY <1>1, <1>2, <1>3 DEF Progress, Copied
<1>6. AtRest'
  BY <1>2, <1>3, <1>5 DEF AtRest, Empty, Holding, Only
<1>7. Phase(t)' /\ Reading(t)'
  BY <1>4 DEF Phase, InWork, Reading
<1>8. Progress(t)'
  BY <1>3, <1>4, <1>5 DEF Progress, Copied
<1>9. QED
  BY <1>1, <1>3, <1>6, <1>7, <1>8, StepOf DEF At

(* A handle that is opened is neither the owner's nor in use by a call     *)
(* that goes by the response.                                              *)
LEMMA OpenStep ==
  ASSUME TypeOK, Shape, Undisturbed,
         NEW h \in Handles, NEW kind \in {"ioctl", "file"}, Open(h, kind)
  PROVE  Undisturbed'
<1>1. /\ handle[h].kind = "closed"
      /\ UNCHANGED <<buffer, heap, size, pc, op, foreign, owner, answer, had>>
      /\ \A g \in Handles \ {h} : handle'[g] = handle[g]
  BY DEF Open, memory, history, TypeOK
<1>2. ASSUME NEW t \in Threads, At(t)
      PROVE  At(t)'
  <2>1. Phase(t) /\ Reading(t) /\ Progress(t) /\ (InWork(t) \/ AtRest)
    BY <1>2 DEF At
  <2>2. owner # h
    <3>1. InWork(t) => owner = NoHandle
      BY <2>1 DEF Phase
    <3>2. AtRest => owner # h
      BY <1>1, SetAssumption DEF AtRest
    <3>3. QED
      BY <2>1, <3>1, <3>2, SetAssumption
  <2>3. owner # NoHandle => handle'[owner] = handle[owner]
    BY <1>1, <2>2 DEF TypeOK
  <2>4. op[t] \in Op /\ ShapeAt(pc[t], op[t])
    BY DEF TypeOK, Shape
  <2>5. op[t].call \in {"read", "write"} =>
          op[t].handle \in Handles \ {h} /\ handle'[op[t].handle] = handle[op[t].handle]
    <3>1. op[t].call \in {"read", "write"} => pc[t] # "idle"
      BY <2>4 DEF ShapeAt, NoOp
    <3>2. op[t].call \in {"read", "write"} => handle[op[t].handle].kind = "ioctl"
      BY <2>1 DEF Phase
    <3>3. QED
      BY <1>1, <2>4, <3>1, <3>2 DEF ShapeAt
  <2>6. (\A m : Holding(m) <=> Holding(m)') /\ (Empty <=> Empty') /\ (Kept <=> Kept')
    BY <1>1 DEF Holding, Only, Empty, Kept
  <2>7. Phase(t)'
    <3>1. (\A m : Holding(m) => Holding(m)')
      BY <2>6
    <3>2. HasResponse(op[t].request) /\ Holding(Declared(op[t].request))
            => Holding(Declared(op[t].request))'
      BY <1>1 DEF Holding, Only
    <3>3. QED
      BY <1>1, <2>1, <2>5, <2>6, <3>2 DEF Phase, InWork
  <2>8. Reading(t)'
    <3>1. pc[t] = "copy" => op[t].call = "read"
      BY <2>4 DEF ShapeAt
    <3>2. pc[t] = "copy" => ToCopy(t)' = ToCopy(t)
      BY <1>1, <2>5, <3>1 DEF ToCopy
    <3>3. QED
      BY <1>1, <2>1, <3>2 DEF Reading
  <2>9. Progress(t)'
    <3>1. Copied(t)' <=> Copied(t)
      BY <1>1 DEF Copied
    <3>2. Continued(op[t].asked)' = Continued(op[t].asked)
      BY <1>1 DEF Continued
    <3>3. Copied(t) => owner # NoHandle
      BY <2>4, SetAssumption DEF Copied, ShapeAt
    <3>4. QED
      BY <1>1, <2>1, <2>3, <3>1, <3>2, <3>3 DEF Progress
  <2>10. AtRest => AtRest'
    <3>1. Holding(size) => Holding(size)'
      BY <1>1 DEF Holding, Only
    <3>2. Empty => Empty'
      BY <1>1 DEF Empty, Only
    <3>3. QED
      BY <1>1, <2>3, <3>1, <3>2 DEF AtRest
  <2>11. InWork(t) => InWork(t)'
    BY <1>1 DEF InWork
  <2>12. QED
    BY <2>1, <2>7, <2>8, <2>9, <2>10, <2>11 DEF At
<1>3. QED
  BY <1>1, <1>2 DEF Undisturbed, Alone

-----------------------------------------------------------------------------
(* The invariant *)

LEMMA InvInit ==
  ASSUME Init
  PROVE  Inv
<1>1. /\ buffer = NoBlock /\ size = 0 /\ heap = [b \in Blocks |-> Free] /\ ~broken
      /\ session = NoThread /\ owner = NoHandle /\ answer = NoAnswer /\ had = 0
      /\ pc = [t \in Threads |-> "idle"] /\ op = [t \in Threads |-> NoOp]
  BY DEF Init
<1>2. TypeOK
  <2>1. Free \in [live : BOOLEAN, bytes : Seq(Byte)]
    <3>1. <<>> \in Seq(Byte)
      OBVIOUS
    <3>2. QED
      BY <3>1 DEF Free
  <2>2. heap \in [Blocks -> [live : BOOLEAN, bytes : Seq(Byte)]]
    BY <1>1, <2>1
  <2>3. op \in [Threads -> Op]
    BY <1>1, NoOpTypes
  <2>4. /\ handle \in [Handles -> [kind : {"closed", "ioctl", "file"}, offset : Nat]]
        /\ pc \in [Threads -> States] /\ calls \in 0..MaxCalls
    BY NumberAssumption DEF Init, States
  <2>5. answer \in [tag : Nat, length : Nat, given : Nat]
    BY <1>1 DEF NoAnswer
  <2>6. /\ buffer \in Blocks \cup {NoBlock} /\ size \in Nat /\ had \in Nat
        /\ session \in Threads \cup {NoThread} /\ owner \in Handles \cup {NoHandle}
    BY <1>1
  <2>7. broken \in BOOLEAN /\ overlapped \in BOOLEAN /\ foreign \in BOOLEAN
    BY DEF Init
  <2>8. QED
    BY <2>2, <2>3, <2>4, <2>5, <2>6, <2>7, Zenon DEF TypeOK
<1>3. Shape
  <2>1. NoOp.call = "none"
    BY DEF NoOp
  <2>2. QED
    BY <1>1, <2>1, SetAssumption DEF Shape, Session, ShapeAt
<1>4. Empty
  BY <1>1 DEF Empty, Only, Free
<1>5. ASSUME NEW t \in Threads
      PROVE  At(t) /\ pc[t] = "idle"
  <2>1. pc[t] = "idle" /\ op[t].call = "none"
    BY <1>1 DEF NoOp
  <2>2. AtRest
    BY <1>1, <1>4 DEF AtRest
  <2>3. Phase(t) /\ Reading(t) /\ Progress(t)
    BY <1>1, <2>1 DEF Phase, InWork, Reading, Progress, Copied
  <2>4. QED
    BY <2>1, <2>2, <2>3 DEF At
<1>6. Undisturbed
  BY <1>5 DEF Undisturbed
<1>7. QED
  BY <1>1, <1>2, <1>3, <1>6 DEF Inv, MemorySafe

(* A step of calls that have not overlapped.                               *)
LEMMA QuietStep ==
  ASSUME TypeOK, Shape, Shape', Undisturbed, ~overlapped', ~broken, Next
  PROVE  Undisturbed' /\ (broken' => foreign)
<1>1. ASSUME NEW h \in Handles, NEW kind \in {"ioctl", "file"}, Open(h, kind)
      PROVE  Undisturbed' /\ ~broken'
  BY <1>1, OpenStep DEF Open, memory
<1>2. ASSUME NEW t \in Threads, NEW h \in Handles, Close(t, h)
      PROVE  Undisturbed' /\ ~broken'
  <2> DEFINE o == [NoOp EXCEPT !.call = "close", !.handle = h]
  <2>1. o.call = "close" /\ ~o.ok
    BY DEF NoOp
  <2>2. o \in Op
    BY NewOps
  <2>3. BeginUnlocked(t, o)
    BY <1>2 DEF Close
  <2> HIDE DEF o
  <2>4. Undisturbed'
    BY <2>1, <2>2, <2>3, BeginStep
  <2>5. QED
    BY <2>3, <2>4 DEF BeginUnlocked, memory
<1>3. ASSUME NEW t \in Threads, NEW h \in Handles, NEW q \in Requests, Write(t, h, q)
      PROVE  Undisturbed' /\ ~broken'
  <2> DEFINE o == [NoOp EXCEPT !.call = "write", !.handle = h, !.request = q, !.tag = calls + 1]
  <2>1. o \in Op
    <3>1. calls + 1 \in Nat
      BY DEF TypeOK
    <3>2. QED
      BY <3>1, NewOps
  <2>2. o.call = "write" /\ o.handle = h /\ ~o.ok
    BY DEF NoOp
  <2>3. BeginUnlocked(t, o) /\ handle[h].kind = "ioctl"
    BY <1>3 DEF Write
  <2> HIDE DEF o
  <2>4. Undisturbed'
    BY <2>1, <2>2, <2>3, BeginStep
  <2>5. QED
    BY <2>3, <2>4 DEF BeginUnlocked, memory
<1>4. ASSUME NEW t \in Threads, NEW h \in Handles, NEW n \in ReadLengths, Read(t, h, n)
      PROVE  Undisturbed' /\ ~broken'
  BY <1>4, ReadStep DEF Read, memory
<1>5. ASSUME NEW t \in Threads,
             TestBuffer(t) \/ Allocate(t) \/ AllocateFails(t) \/ Send(t) \/ Look(t) \/ Return(t)
      PROVE  Undisturbed' /\ ~broken'
  <2>1. Undisturbed'
    BY <1>5, TestStep, AllocateStep, AllocateFailsStep, SendStep, LookStep, ReturnStep
  <2>2. broken' = broken
    BY <1>5 DEF On, TestBuffer, Allocate, AllocateFails, Send, Look, Return, memory
  <2>3. QED
    BY <2>1, <2>2
<1>6. ASSUME NEW t \in Threads,
             FreeBuffer(t) \/ Transfer(t) \/ SettleDone(t) \/ SettleFailed(t)
      PROVE  Undisturbed' /\ ~broken'
  BY <1>6, FreeStep, TransferStep, SettleDoneStep, SettleFailedStep
<1>7. ASSUME NEW t \in Threads, Copy(t)
      PROVE  Undisturbed' /\ (broken' => foreign)
  BY <1>7, CopyStep
<1>8. QED
  BY <1>1, <1>2, <1>3, <1>4, <1>5, <1>6, <1>7 DEF Next

\* What has been disturbed stays so.
LEMMA Monotone ==
  ASSUME Next
  PROVE  (overlapped => overlapped') /\ (foreign => foreign')
<1>1. ASSUME NEW h \in Handles, NEW kind \in {"ioctl", "file"}, Open(h, kind)
      PROVE  UNCHANGED <<overlapped, foreign>>
  BY <1>1 DEF Open, history
<1>2. ASSUME NEW t \in Threads, NEW h \in Handles,
             Close(t, h) \/ \E q \in Requests : Write(t, h, q)
      PROVE  (overlapped => overlapped') /\ foreign' = foreign
  BY <1>2 DEF Close, Write, BeginUnlocked
<1>3. ASSUME NEW t \in Threads, NEW h \in Handles, NEW n \in ReadLengths, Read(t, h, n)
      PROVE  (overlapped => overlapped') /\ (foreign => foreign')
  BY <1>3 DEF Read
<1>4. ASSUME NEW t \in Threads,
             TestBuffer(t) \/ FreeBuffer(t) \/ Allocate(t) \/ AllocateFails(t) \/ Send(t)
      PROVE  UNCHANGED <<overlapped, foreign>>
  BY <1>4 DEF On, TestBuffer, FreeBuffer, Allocate, AllocateFails, Send, history
<1>5. ASSUME NEW t \in Threads, Transfer(t) \/ SettleDone(t) \/ SettleFailed(t)
      PROVE  UNCHANGED <<overlapped, foreign>>
  BY <1>5 DEF On, Transfer, SettleDone, SettleFailed, history
<1>6. ASSUME NEW t \in Threads, Look(t) \/ Copy(t) \/ Return(t)
      PROVE  UNCHANGED <<overlapped, foreign>>
  BY <1>6 DEF On, Look, Copy, Return, history
<1>7. QED
  BY <1>1, <1>2, <1>3, <1>4, <1>5, <1>6 DEF Next

\* No step follows damage.
LEMMA Unbroken ==
  ASSUME Next
  PROVE  ~broken
<1>1. ASSUME NEW h \in Handles, NEW kind \in {"ioctl", "file"}, Open(h, kind)
      PROVE  ~broken
  BY <1>1 DEF Open
<1>2. ASSUME NEW t \in Threads, NEW h \in Handles,
             \/ Close(t, h) \/ \E q \in Requests : Write(t, h, q)
             \/ \E n \in ReadLengths : Read(t, h, n)
      PROVE  ~broken
  BY <1>2 DEF Close, Write, BeginUnlocked, Read, Begin, On
<1>3. ASSUME NEW t \in Threads,
             \/ TestBuffer(t) \/ FreeBuffer(t) \/ Allocate(t) \/ AllocateFails(t)
             \/ Send(t) \/ Transfer(t) \/ SettleDone(t) \/ SettleFailed(t)
             \/ Look(t) \/ Copy(t) \/ Return(t)
      PROVE  ~broken
  BY <1>3 DEF TestBuffer, FreeBuffer, Allocate, AllocateFails, Send, Transfer, SettleDone,
              SettleFailed, Look, Copy, Return, On
<1>4. QED
  BY <1>1, <1>2, <1>3 DEF Next

LEMMA InvStep ==
  ASSUME Inv, [Next]_vars
  PROVE  Inv'
<1>1. CASE Next
  <2>1. TypeOK' /\ Shape' /\ ~broken
    BY <1>1, TypesStep, ShapeStep, Unbroken DEF Inv
  <2>2. ~overlapped' => Undisturbed' /\ (broken' => foreign)
    BY <1>1, <2>1, QuietStep, Monotone DEF Inv
  <2>3. overlapped' \/ ~overlapped'
    OBVIOUS
  <2>4. MemorySafe'
    BY <1>1, <2>2, <2>3, Monotone, Zenon DEF MemorySafe
  <2>5. QED
    BY <2>1, <2>2, <2>4 DEF Inv
<1>2. CASE UNCHANGED vars
  <2>1. UNCHANGED <<buffer, size, heap, broken, handle, session, pc, op, calls, overlapped,
                    foreign, owner, answer, had>>
    BY <1>2 DEF vars, memory, history
  <2>2. TypeOK' /\ Shape' /\ MemorySafe'
    BY <2>1 DEF Inv, TypeOK, Shape, Session, MemorySafe
  <2>3. ASSUME NEW t \in Threads, At(t)
        PROVE  At(t)'
    <3>1. (AtRest => AtRest') /\ (InWork(t) => InWork(t)')
      BY <2>1 DEF AtRest, Empty, Holding, Only, InWork
    <3>2. Phase(t)'
      BY <2>1, <2>3 DEF At, Phase, InWork, Kept, Empty, Holding, Only
    <3>3. Reading(t)' /\ Progress(t)'
      BY <2>1, <2>3 DEF At, Reading, ToCopy, Progress, Copied, Continued
    <3>4. QED
      BY <2>3, <3>1, <3>2, <3>3 DEF At
  <2>4. Undisturbed => Undisturbed'
    BY <2>1, <2>3 DEF Undisturbed, Alone
  <2>5. QED
    BY <2>1, <2>2, <2>4 DEF Inv
<1>3. QED
  BY <1>1, <1>2

(* Everything the properties rest on: whatever the calls, while those that *)
(* take no mutex have been alone, the buffer and the owner's offset are    *)
(* what the step the one call is at says they are.                         *)
THEOREM Invariant == Spec => []Inv
<1>1. Init => Inv
  BY InvInit
<1>2. Inv /\ [Next]_vars => Inv'
  BY InvStep
<1>3. QED
  BY <1>1, <1>2, PTL DEF Spec

(* Every variable keeps to the values the code can give it, with any calls *)
(* overlapping.                                                            *)
THEOREM TypeCorrect == Spec => []TypeOK
<1>1. Inv => TypeOK
  BY DEF Inv
<1>2. QED
  BY <1>1, Invariant, PTL

(* The response buffer is never freed twice, used when free or read beyond *)
(* its end, unless calls overlap or a handle reads another's response.     *)
THEOREM MemoryStaysSafe == Spec => []MemorySafe
<1>1. Inv => MemorySafe
  BY DEF Inv
<1>2. QED
  BY <1>1, Invariant, PTL

(* Between calls the one response held is the one there is to read, and no *)
(* other block of the heap is left.                                        *)
THEOREM OneResponseHeld == Spec => []OneResponse
<1>1. ASSUME Inv, ~overlapped, \A t \in Threads : pc[t] = "idle" \/ op[t].call = "read"
      PROVE  AtRest
  <2>1. PICK t \in Threads : \A u \in Threads \ {t} : pc[u] = "idle"
    <3>1. CASE \E t \in Threads : pc[t] # "idle"
      BY <1>1, <3>1 DEF Inv, Undisturbed, Alone
    <3>2. CASE \A t \in Threads : pc[t] = "idle"
      BY <3>2, SetAssumption
    <3>3. QED
      BY <3>1, <3>2
  <2>2. At(t)
    BY <1>1, <2>1 DEF Inv, Undisturbed, Alone
  <2>3. ~InWork(t)
    BY <1>1 DEF Inv, Shape, ShapeAt, InWork
  <2>4. QED
    BY <2>2, <2>3 DEF At
<1>2. AtRest => /\ (buffer = NoBlock) = (owner = NoHandle)
                /\ \A b \in Blocks : heap[b].live => b = buffer
                /\ buffer # NoBlock => heap[buffer].live /\ Len(heap[buffer].bytes) = size
  BY DEF AtRest, Empty, Holding, Only
<1>3. Inv => OneResponse
  BY <1>1, <1>2 DEF OneResponse
<1>4. QED
  BY <1>3, Invariant, PTL

(* A handle reads its own response in order, each byte once and to its     *)
(* end.                                                                    *)
THEOREM ReadsContinue == Spec => []OwnResponse
<1>1. ASSUME Inv, NEW t \in Threads, pc[t] = "done", op[t].call = "read",
             op[t].handle = owner, ~overlapped
      PROVE  op[t].out = Continued(op[t].asked)
  <2>1. Progress(t)
    BY <1>1, Now DEF Inv, At
  <2>2. QED
    BY <1>1, <2>1 DEF Progress, Copied
<1>2. Inv => OwnResponse
  BY <1>1 DEF OwnResponse
<1>3. QED
  BY <1>2, Invariant, PTL

(* A command that is reported as done was performed, but for the requests  *)
(* that have no branch.                                                    *)
THEOREM SuccessIsPerformed == Spec => []Performed
<1>1. ASSUME Inv, NEW t \in Threads, pc[t] = "done", op[t].call = "write", op[t].ok,
             ~overlapped
      PROVE  op[t].sent \/ NeverSent(op[t].request)
  <2>1. Phase(t)
    BY <1>1, Now DEF Inv, At
  <2>2. QED
    BY <1>1, <2>1 DEF Phase
<1>2. Inv => Performed
  BY <1>1 DEF Performed
<1>3. QED
  BY <1>2, Invariant, PTL

=============================================================================
