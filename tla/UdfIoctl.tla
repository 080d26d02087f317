------------------------------ MODULE UdfIoctl ------------------------------
(***************************************************************************)
(* The pass-through file of the UDF device, "udf0:/ioctl"                  *)
(* (fs/udf/udf_devoptab.cpp): a program writes a SCSI command to it and    *)
(* reads the response from it.                                             *)
(*                                                                         *)
(* Each handle has its own offset, but there is one response buffer for    *)
(* all of them.  Write and close reach it without the mutex that read      *)
(* takes, and closing any file of the device frees it.                     *)
(***************************************************************************)
EXTENDS Integers, Sequences, FiniteSets

CONSTANTS
  Threads, NoThread,
  Handles, NoHandle,
  Requests,        \* what is written, below
  FeaturesLength,  \* what the length of a "features" request is replaced by
  LengthLimit,     \* UsbDvdSCSI_PASSTROUGHT takes a length modulo this
  ReadLengths,     \* what is asked for by a read
  Blocks, NoBlock, \* blocks of the heap
  MaxCalls         \* bound on the calls made

(* A request: where its data goes, how much, whether bytes follow the      *)
(* header, whether it is one of the two commands that are rewritten, and   *)
(* whether it is as long as a header.                                      *)
Request == [dir : {"in", "out", "unspecified", "other"}, length : Nat, data : BOOLEAN,
            command : {"features", "invalidate", "any"}, whole : BOOLEAN]

ASSUME SetAssumption ==
  /\ Threads # {} /\ NoThread \notin Threads /\ NoHandle \notin Handles /\ NoBlock \notin Blocks
  /\ Requests \subseteq Request /\ ReadLengths \subseteq Nat \ {0}
ASSUME NumberAssumption ==
  {FeaturesLength, LengthLimit} \subseteq Nat \ {0} /\ MaxCalls \in Nat

VARIABLES
  buffer,    \* file_ioctl_buffer
  size,      \* file_ioctl_size
  heap,      \* what each block holds, none if it is free
  handle,    \* the open files: which kind, offset
  session,   \* the thread that holds session_mutex
  pc, op,    \* what each thread does
  calls,     \* the number of calls so far, the tag of the last write
  broken,    \* a block was used when free, or beyond its end
  overlapped,\* a call that reaches the buffer without the mutex was not alone
  foreign,   \* a handle has read the response to another handle's request
  owner,     \* the handle whose response is there to be read, if any
  answer,    \* that response: tag, length, and how many bytes the drive gave
  had        \* how many bytes of it the owner has read

memory  == <<buffer, size, heap, broken>>
history == <<overlapped, foreign, owner, answer, had>>
vars    == <<memory, handle, session, pc, op, calls, history>>

-----------------------------------------------------------------------------
Smaller(a, b) == IF a < b THEN a ELSE b

\* A byte of a response: the request it answers and its place.  Noise is what malloc leaves.
Noise == <<0, 0>>
Free  == [live |-> FALSE, bytes |-> <<>>]
Live(bytes) == [live |-> TRUE, bytes |-> bytes]

NoAnswer  == [tag |-> 0, length |-> 0, given |-> 0]
NoRequest == [dir |-> "other", length |-> 0, data |-> FALSE, command |-> "any",
              whole |-> FALSE]
NoOp == [call |-> "none", handle |-> NoHandle, request |-> NoRequest, tag |-> 0,
         block |-> NoBlock, asked |-> 0, ok |-> FALSE, sent |-> FALSE,
         given |-> 0, out |-> <<>>]

\* DataTransferLength after the two rewritings.
Declared(q) == CASE q.command = "features"   -> FeaturesLength
                 [] q.command = "invalidate" -> 0
                 [] q.command = "any"        -> q.length

HasResponse(q) == q.dir = "in" /\ Declared(q) > 0

(* Requests for which the function has no branch that sends them: they are *)
(* reported as done and never reach the drive.                             *)
NeverSent(q) ==
  \/ q.dir = "in" /\ Declared(q) = 0
  \/ q.dir = "out" /\ ~q.data
  \/ q.dir = "other"

Init ==
  /\ buffer = NoBlock /\ size = 0 /\ heap = [b \in Blocks |-> Free] /\ broken = FALSE
  /\ handle = [h \in Handles |-> [kind |-> "closed", offset |-> 0]]
  /\ session = NoThread
  /\ pc = [t \in Threads |-> "idle"] /\ op = [t \in Threads |-> NoOp]
  /\ calls = 0
  /\ overlapped = FALSE /\ foreign = FALSE
  /\ owner = NoHandle /\ answer = NoAnswer /\ had = 0

-----------------------------------------------------------------------------
(* Calls begin and end *)

\* A thread's next step.  Once memory is damaged nothing is known of what follows.
On(t, step) == ~broken /\ pc[t] = step

Busy(t, kinds) == \E u \in Threads \ {t} : pc[u] # "idle" /\ op[u].call \in kinds

Open(h, kind) ==
  /\ ~broken /\ handle[h].kind = "closed"
  /\ handle' = [handle EXCEPT ![h] = [kind |-> kind, offset |-> 0]]
  /\ UNCHANGED <<memory, session, pc, op, calls, history>>

Begin(t, record) ==
  /\ On(t, "idle") /\ calls < MaxCalls
  /\ calls' = calls + 1
  /\ op' = [op EXCEPT ![t] = record]

\* Write and close disturb, and are disturbed by, all calls.
BeginUnlocked(t, record) ==
  /\ Begin(t, record)
  /\ pc' = [pc EXCEPT ![t] = "test"]
  /\ overlapped' = (overlapped \/ Busy(t, {"read", "write", "close"}))
  /\ owner' = NoHandle /\ answer' = NoAnswer /\ had' = 0
  /\ UNCHANGED <<memory, handle, session, foreign>>

Write(t, h, q) ==
  /\ handle[h].kind = "ioctl"
  /\ BeginUnlocked(t, [NoOp EXCEPT !.call = "write", !.handle = h, !.request = q,
                                   !.tag = calls + 1])

Close(t, h) ==
  /\ handle[h].kind # "closed"
  /\ BeginUnlocked(t, [NoOp EXCEPT !.call = "close", !.handle = h])

\* A bug: no mutex.
UnlockedAlways(t) == TRUE

\* The mutex can be taken.
Unlocked(t) == session = NoThread

Read(t, h, n) ==
  /\ handle[h].kind = "ioctl"
  /\ Unlocked(t) /\ session' = t
  /\ Begin(t, [NoOp EXCEPT !.call = "read", !.handle = h, !.asked = n])
  /\ pc' = [pc EXCEPT ![t] = "look"]
  /\ overlapped' = (overlapped \/ Busy(t, {"write", "close"}))
  /\ foreign' = (foreign \/ owner \notin {h, NoHandle})
  /\ UNCHANGED <<memory, handle, owner, answer, had>>

Return(t) ==
  /\ On(t, "done")
  /\ pc' = [pc EXCEPT ![t] = "idle"] /\ op' = [op EXCEPT ![t] = NoOp]
  /\ session' = IF op[t].call = "read" /\ session = t THEN NoThread ELSE session
  /\ had' = IF op[t].call = "read" /\ op[t].handle = owner
            THEN had + Len(op[t].out) ELSE had
  /\ handle' = IF op[t].call = "close"
               THEN [handle EXCEPT ![op[t].handle].kind = "closed"] ELSE handle
  /\ UNCHANGED <<memory, calls, overlapped, foreign, owner, answer>>

-----------------------------------------------------------------------------
(* The old response is freed *)

\* What follows: a close is done; a write goes on if a whole header was written.
AfterFree(t) ==
  IF op[t].call = "close" \/ ~op[t].request.whole THEN "done"
  ELSE IF HasResponse(op[t].request) THEN "allocate" ELSE "send"

\* A bug: write leaves the old response for malloc to overwrite the pointer.
AfterTestKept(t, p) ==
  IF p = NoBlock \/ op[t].call = "write" THEN AfterFree(t) ELSE "free"

AfterTest(t, p) == IF p = NoBlock THEN AfterFree(t) ELSE "free"

TestBuffer(t) ==
  /\ On(t, "test")
  /\ op' = [op EXCEPT ![t].block = buffer]
  /\ pc' = [pc EXCEPT ![t] = AfterTest(t, buffer)]
  /\ UNCHANGED <<memory, handle, session, calls, history>>

(* free and the assignment of nullptr.  Another thread may have changed    *)
(* the pointer since it was tested; the compiler may load it again or not. *)
FreeBuffer(t) ==
  /\ On(t, "free")
  /\ \E p \in {op[t].block, buffer} :
       /\ broken' = (broken \/ (p # NoBlock /\ ~heap[p].live))
       /\ heap' = [b \in Blocks |-> IF b = p THEN Free ELSE heap[b]]
  /\ buffer' = NoBlock
  /\ op' = [op EXCEPT ![t].block = NoBlock]
  /\ pc' = [pc EXCEPT ![t] = AfterFree(t)]
  /\ UNCHANGED <<size, handle, session, calls, history>>

-----------------------------------------------------------------------------
(* The command is sent *)

Allocate(t) ==
  /\ On(t, "allocate")
  /\ \E b \in Blocks :
       /\ ~heap[b].live
       /\ heap' = [heap EXCEPT ![b] =
                     Live([i \in 1..Declared(op[t].request) |-> Noise])]
       /\ buffer' = b
  /\ pc' = [pc EXCEPT ![t] = "send"]
  /\ UNCHANGED <<size, broken, handle, session, op, calls, history>>

\* malloc returns NULL.
AllocateFails(t) ==
  /\ On(t, "allocate")
  /\ buffer' = NoBlock
  /\ pc' = [pc EXCEPT ![t] = "done"]
  /\ UNCHANGED <<size, heap, broken, handle, session, op, calls, history>>

\* Which branch sends the request, if any: the buffer is tested again.
Send(t) ==
  LET q == op[t].request IN
  /\ On(t, "send")
  /\ \/ /\ \/ q.dir = "in" /\ buffer # NoBlock
           \/ q.dir = "out" /\ q.data
           \/ q.dir = "unspecified"
        /\ op' = [op EXCEPT ![t].block = IF q.dir = "in" THEN buffer ELSE NoBlock]
        /\ pc' = [pc EXCEPT ![t] = "transfer"]
     \/ /\ \/ q.dir = "in" /\ buffer = NoBlock
           \/ q.dir = "out" /\ ~q.data
           \/ q.dir = "other"
        /\ op' = [op EXCEPT ![t].ok = TRUE]
        /\ pc' = [pc EXCEPT ![t] = "settle"]
  /\ UNCHANGED <<memory, handle, session, calls, history>>

\* The length is passed as a uint16_t.
Transferred(q) == IF q.dir = "unspecified" THEN 0 ELSE Declared(q) % LengthLimit

\* A bug: the result is tested as an unsigned number.
UnsignedResult(t) == op' = [op EXCEPT ![t].ok = TRUE]

\* A negative result, after which nothing of the response is kept.
NegativeResult(t) == UNCHANGED op

(* The drive gives at most what it was asked for, and has performed the    *)
(* command, whatever the data stage's own result; or the command fails,    *)
(* with or without data, or is not sent as no CDB has its length.          *)
Transfer(t) ==
  LET q == op[t].request
      p == op[t].block IN
  /\ On(t, "transfer")
  /\ \E n \in 0..Transferred(q) :
       /\ \/ op' = [op EXCEPT ![t] = [@ EXCEPT !.ok = TRUE, !.sent = TRUE, !.given = n]]
          \/ NegativeResult(t)
       /\ heap' = IF p = NoBlock THEN heap
                  ELSE [heap EXCEPT ![p].bytes =
                         [i \in DOMAIN @ |-> IF i <= n THEN <<op[t].tag, i>> ELSE @[i]]]
       /\ broken' = (broken \/ (p # NoBlock /\ n > Len(heap[p].bytes)))
  /\ pc' = [pc EXCEPT ![t] = "settle"]
  /\ UNCHANGED <<buffer, size, handle, session, calls, history>>

\* The result is noted, and the response is printed to its end.
SettleDone(t) ==
  LET q == op[t].request IN
  /\ On(t, "settle") /\ op[t].ok
  /\ IF q.dir = "in" /\ buffer # NoBlock
     THEN /\ size' = Declared(q)
          /\ broken' = (broken \/ Declared(q) > Len(heap[buffer].bytes))
          /\ owner' = op[t].handle /\ had' = 0
          /\ answer' = [tag |-> op[t].tag, length |-> Declared(q), given |-> op[t].given]
     ELSE size' = 0 /\ UNCHANGED <<broken, owner, answer, had>>
  /\ handle' = [handle EXCEPT ![op[t].handle].offset = 0]
  /\ pc' = [pc EXCEPT ![t] = "done"]
  /\ UNCHANGED <<buffer, heap, session, op, calls, overlapped, foreign>>

SettleFailed(t) ==
  /\ On(t, "settle") /\ ~op[t].ok
  /\ broken' = (broken \/ (buffer # NoBlock /\ ~heap[buffer].live))
  /\ heap' = [b \in Blocks |-> IF b = buffer THEN Free ELSE heap[b]]
  /\ buffer' = NoBlock /\ size' = 0
  /\ handle' = [handle EXCEPT ![op[t].handle].offset = 0]
  /\ pc' = [pc EXCEPT ![t] = "done"]
  /\ UNCHANGED <<session, op, calls, history>>

-----------------------------------------------------------------------------
(* The response is read *)

\* A bug: what is asked for is copied, whatever is left.
ToCopyAll(t) == op[t].asked

\* What is left of the response, as an unsigned number: huge if the offset is past it.
ToCopy(t) ==
  LET offset == handle[op[t].handle].offset IN
  IF offset > size THEN op[t].asked ELSE Smaller(op[t].asked, size - offset)

Look(t) ==
  /\ On(t, "look")
  /\ \/ /\ buffer = NoBlock \/ ToCopy(t) = 0
        /\ pc' = [pc EXCEPT ![t] = "done"] /\ UNCHANGED op
     \/ /\ buffer # NoBlock /\ ToCopy(t) # 0
        /\ pc' = [pc EXCEPT ![t] = "copy"]
        /\ op' = [op EXCEPT ![t].given = ToCopy(t)]
  /\ UNCHANGED <<memory, handle, session, calls, history>>

\* The bytes of block b from offset on; beyond its end there are some, too.
BytesAt(b, offset, n) ==
  [i \in 1..n |-> IF b # NoBlock /\ offset + i \in DOMAIN heap[b].bytes
                  THEN heap[b].bytes[offset + i] ELSE Noise]

Copy(t) ==
  LET h == op[t].handle
      n == op[t].given IN
  /\ On(t, "copy")
  /\ op' = [op EXCEPT ![t].out = BytesAt(buffer, handle[h].offset, n)]
  /\ broken' = (broken \/ buffer = NoBlock \/ handle[h].offset + n > Len(heap[buffer].bytes))
  /\ handle' = [handle EXCEPT ![h].offset = @ + n]
  /\ pc' = [pc EXCEPT ![t] = "done"]
  /\ UNCHANGED <<buffer, size, heap, session, calls, history>>

-----------------------------------------------------------------------------
Next ==
  \/ \E h \in Handles, kind \in {"ioctl", "file"} : Open(h, kind)
  \/ \E t \in Threads :
       \/ \E h \in Handles :
            \/ Close(t, h)
            \/ \E q \in Requests : Write(t, h, q)
            \/ \E n \in ReadLengths : Read(t, h, n)
       \/ TestBuffer(t) \/ FreeBuffer(t)
       \/ Allocate(t) \/ AllocateFails(t) \/ Send(t) \/ Transfer(t)
       \/ SettleDone(t) \/ SettleFailed(t)
       \/ Look(t) \/ Copy(t) \/ Return(t)

Spec == Init /\ [][Next]_vars

-----------------------------------------------------------------------------
(* Properties *)

Byte   == Nat \X Nat
States == {"idle", "test", "free", "allocate", "send", "transfer", "settle",
           "look", "copy", "done"}
Op == [call : {"none", "read", "write", "close"}, handle : Handles \cup {NoHandle},
       request : Requests \cup {NoRequest}, tag : Nat, block : Blocks \cup {NoBlock},
       asked : ReadLengths \cup {0}, ok : BOOLEAN, sent : BOOLEAN, given : Nat,
       out : Seq(Byte)]

TypeOK ==
  /\ buffer \in Blocks \cup {NoBlock} /\ size \in Nat /\ broken \in BOOLEAN
  /\ heap \in [Blocks -> [live : BOOLEAN, bytes : Seq(Byte)]]
  /\ handle \in [Handles -> [kind : {"closed", "ioctl", "file"}, offset : Nat]]
  /\ session \in Threads \cup {NoThread}
  /\ pc \in [Threads -> States] /\ op \in [Threads -> Op]
  /\ calls \in 0..MaxCalls
  /\ overlapped \in BOOLEAN /\ foreign \in BOOLEAN /\ owner \in Handles \cup {NoHandle}
  /\ answer \in [tag : Nat, length : Nat, given : Nat] /\ had \in Nat

(* No block is freed twice, used when free or read beyond its end, through *)
(* all failures of malloc and of the command, as long as calls that take   *)
(* no mutex do not overlap others and no handle reads another's response   *)
(* (whose end its own offset may be past).                                 *)
MemorySafe == broken => overlapped \/ foreign

(* Between calls there is a response exactly when a handle has one to      *)
(* read; its block is as long as size says, and no other block is held:    *)
(* whichever way a write ended, it has left nothing behind.                *)
OneResponse ==
  ~overlapped /\ (\A t \in Threads : pc[t] = "idle" \/ op[t].call = "read") =>
     /\ (buffer = NoBlock) = (owner = NoHandle)
     /\ \A b \in Blocks : heap[b].live => b = buffer
     /\ buffer # NoBlock => heap[buffer].live /\ Len(heap[buffer].bytes) = size

\* What n bytes more of the response are; the drive may have given fewer than were asked for.
Continued(n) ==
  [i \in 1..Smaller(n, answer.length - had) |->
     IF had + i <= answer.given THEN <<answer.tag, had + i>> ELSE Noise]

(* A handle reads the response to its own last request from its beginning, *)
(* each byte once and to its end, however many reads, by however many      *)
(* threads, share it, until a file of the device is closed or a command    *)
(* written.                                                                *)
OwnResponse ==
  \A t \in Threads :
    pc[t] = "done" /\ op[t].call = "read" /\ op[t].handle = owner /\ ~overlapped =>
      op[t].out = Continued(op[t].asked)

(* A write reports success only if the drive has performed the command,    *)
(* except for the requests that no branch sends, and unless an overlapping *)
(* call frees the buffer on whose presence sending depends.                *)
Performed ==
  \A t \in Threads : pc[t] = "done" /\ op[t].call = "write" /\ op[t].ok =>
    op[t].sent \/ NeverSent(op[t].request) \/ overlapped

=============================================================================
