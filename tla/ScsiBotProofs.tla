---------------------------- MODULE ScsiBotProofs ----------------------------
(***************************************************************************)
(* Proofs about ScsiBot, for any set of threads, any number of commands    *)
(* and faults, and commands with and without data of any size.              *)
(***************************************************************************)
EXTENDS ScsiBot, TLAPS

-----------------------------------------------------------------------------
(* Sequences *)

\* The head and the tail of a queue that is not empty.
LEMMA HeadTail ==
  ASSUME NEW S, NEW s \in Seq(S), s # <<>>
  PROVE  Head(s) \in S /\ Tail(s) \in Seq(S)
  OBVIOUS

\* A queue that grows by one element.
LEMMA AppendType ==
  ASSUME NEW S, NEW s \in Seq(S), NEW x \in S
  PROVE  Append(s, x) \in Seq(S)
  OBVIOUS

-----------------------------------------------------------------------------
(* Type correctness *)

\* The initial state is well typed.
LEMMA TypeInit == Init => TypeOK
<1> SUFFICES ASSUME Init PROVE TypeOK
  OBVIOUS
<1>1. HostType
  BY DEF Init, HostType, NoCmd, NoOutcome, NoData, NoTag, Stages, Subs, Cmd, Kinds,
         Tags, Dirs, Data, Outcome
<1>2. EpType
  BY DEF Init, EpType, Endpoint
<1>3. DevType
  BY DEF Init, DevType, Drive, Phases, Tags, NoTag
<1>4. xfer_buf \in Message
  BY DEF Init, Message, Zero, Tags, NoTag, Dirs
<1> QED BY <1>1, <1>2, <1>3, <1>4 DEF Init, TypeOK

\* The values the variables are reset to are well typed.
LEMMA ResetTypes ==
  /\ NoCmd \in Cmd
  /\ NoData \in Data
  /\ NoOutcome \in Outcome
  BY DEF NoCmd, NoData, NoOutcome, NoTag, Cmd, Kinds, Tags, Dirs, Data, Outcome

\* A return keeps the thread's variables well typed.
LEMMA ReturnType ==
  ASSUME HostType, NEW t \in Threads, NEW ret \in Int, Return(t, ret),
         usbLock' = NoThread, sub' = [sub EXCEPT ![t] = "enter"]
  PROVE  HostType'
<1>1. [cmd |-> cmd[t], ret |-> ret, from |-> data[t].from] \in Outcome
  BY DEF HostType, Data, Outcome
<1> QED BY <1>1, ResetTypes DEF HostType, Return, Stages, Subs

\* So does the nested REQUEST SENSE of a bare command.
LEMMA SenseType ==
  ASSUME HostType, NEW t \in Threads, Sense(t),
         usbLock' = NoThread, sub' = [sub EXCEPT ![t] = "enter"]
  PROVE  HostType'
<1>1. [kind |-> "sense", tag |-> nextTag, dir |-> "in", size |-> SenseSize, buf |-> TRUE] \in Cmd
  BY DEF HostType, Cmd, Kinds, Tags, Dirs, SenseSize
<1>2. nextTag + 1 \in Nat \ {0}
  BY DEF HostType
<1> QED BY <1>1, <1>2, ResetTypes DEF HostType, Sense, Stages, Subs

\* The end of a transfer keeps the thread's variables well typed.
LEMMA StageDoneType ==
  ASSUME HostType, xfer_buf \in Message, NEW t \in Threads, NEW ok \in BOOLEAN,
         NEW moved \in Nat, StageDone(t, ok, moved)
  PROVE  HostType'
<1>1. CASE stage[t] = "cbw"
  <2>1. AfterCbw(t) \in Stages
    BY DEF AfterCbw, Stages
  <2> QED BY <1>1, <2>1 DEF StageDone, AfterCbw, HostType, Subs, Stages
<1>2. CASE stage[t] = "data"
  <2> DEFINE from == IF ok /\ cmd[t].dir = "in" /\ xfer_buf.kind = "data"
                     THEN xfer_buf.tag ELSE NoTag
             d    == [ok |-> ok, moved |-> moved, from |-> from]
  <2>0. from \in Tags
    BY DEF Message, Tags, NoTag
  <2>2. data' = [data EXCEPT ![t] = d]
    BY <1>2 DEF StageDone
  <2> HIDE DEF from
  <2>1. d \in Data
    BY <2>0 DEF Data
  <2> HIDE DEF d
  <2> QED BY <1>2, <2>1, <2>2 DEF StageDone, HostType, Subs, Stages
<1>3. CASE stage[t] = "csw"
  <2>1. JudgeCsw(t, ok, moved) /\ usbLock' = NoThread /\ sub' = [sub EXCEPT ![t] = "enter"]
    BY <1>3 DEF StageDone
  <2>2. data[t].moved \in Int
    BY DEF HostType, Data
  <2>3. (\E ret \in Int : Return(t, ret)) \/ Sense(t)
    BY <2>1, <2>2 DEF JudgeCsw, JudgeLocked, JudgeBare, JudgeSense, Mine
  <2> QED BY <2>1, <2>3, ReturnType, SenseType
<1> QED BY <1>1, <1>2, <1>3 DEF StageDone

\* A locked command on the wire holds scsi_operation_mutex, and a thread inside
\* usb_bulk_transfer holds usb_mutex and has a command on the wire.
Locks ==
  /\ \A t \in Threads : Talking(t) /\ Locked(t) => scsiLock = t
  /\ \A t \in Threads : sub[t] # "enter" => usbLock = t /\ Talking(t)

\* The counters of a step stay well typed.
LEMMA CountType ==
  ASSUME TypeOK, NoFault \/ Fault \/ NotOverlapped
  PROVE  faults' \in Nat /\ clean' \in BOOLEAN
<1>1. faults' \in Nat
  BY DEF TypeOK, NoFault, Fault, NotOverlapped
<1>2. clean' \in BOOLEAN
  BY Zenon DEF TypeOK, NoFault, Fault, NotOverlapped
<1> QED BY <1>1, <1>2

\* An endpoint's queue is a sequence of URBs, its reports of reports.
LEMMA EpParts ==
  ASSUME EpType, NEW e \in Eps
  PROVE  ep[e].inflight \in Seq(Urb) /\ ep[e].reports \in Seq(Report)
         /\ ep[e].event \in BOOLEAN
  BY DEF EpType, Endpoint

\* A thread starts one of the issued commands, under the next tag.
LEMMA StartCmd ==
  ASSUME TypeOK, NEW t \in Threads, Start(t)
  PROVE  \E c \in Cmd : c.tag = nextTag /\ cmd' = [cmd EXCEPT ![t] = c]
<1>1. PICK s \in Issued :
        cmd' = [cmd EXCEPT ![t] = [kind |-> s.kind, tag |-> nextTag, dir |-> s.dir,
                                   size |-> s.size, buf |-> s.buf]]
  BY DEF Start
<1> DEFINE c == [kind |-> s.kind, tag |-> nextTag, dir |-> s.dir, size |-> s.size,
                 buf |-> s.buf]
<1>2. s \in Shapes /\ nextTag \in Tags
  BY IssuedAssumption DEF TypeOK, HostType, Tags
<1>3. c \in Cmd /\ c.tag = nextTag
  BY <1>2 DEF Shapes, Cmd, Kinds
<1> QED BY <1>1, <1>3

\* A refused data stage moves its thread to the CSW, and does nothing else.
LEMMA RefuseIs ==
  ASSUME TypeOK, NEW t \in Threads, Refuse(t)
  PROVE  /\ Talking(t) /\ stage[t] = "data" /\ sub[t] = "enter" /\ clean' = FALSE
         /\ stage' = [stage EXCEPT ![t] = "csw"]
         /\ UNCHANGED <<scsiLock, usbLock, cmd, outcome, nextTag, xfer_buf, ep, dev,
                        accepted, lost, performed, faults>>
         /\ \A u \in Threads : sub'[u] = sub[u]
         /\ HostType'
<1>1. stage[t] = "data" /\ StageDone(t, FALSE, 0)
  BY DEF Refuse, Accepts
<1>2. HostType'
  BY <1>1, StageDoneType DEF TypeOK
<1>3. /\ stage' = [stage EXCEPT ![t] = "csw"]
      /\ UNCHANGED <<scsiLock, cmd, outcome, nextTag, xfer_buf, dev, accepted, lost, performed>>
      /\ usbLock' = NoThread /\ sub' = [sub EXCEPT ![t] = "enter"]
  BY <1>1 DEF StageDone, devVars
<1>4. \A u \in Threads : sub'[u] = sub[u]
  BY <1>3 DEF Refuse, TypeOK, HostType
<1> QED BY <1>1, <1>2, <1>3, <1>4 DEF Refuse, Talking

\* Every step of a thread preserves the typing.
LEMMA TypeHost ==
  ASSUME TypeOK, Locks, NEW t \in Threads, HostStep(t)
  PROVE  TypeOK'
<1>1. CASE Start(t)
  <2>1. faults' \in Nat /\ clean' \in BOOLEAN
    BY <1>1, CountType DEF Start
  <2>2. PICK c \in Cmd : cmd' = [cmd EXCEPT ![t] = c]
    BY <1>1, StartCmd
  <2>4. HostType'
    BY <1>1, <2>2, ResetTypes DEF Start, TypeOK, HostType, Stages
  <2> QED BY <1>1, <2>1, <2>4 DEF Start, TypeOK, EpType, DevType, devVars
<1>2. CASE LockScsi(t)
  <2>1. faults' \in Nat /\ clean' \in BOOLEAN
    BY <1>2, CountType DEF LockScsi
  <2>2. HostType'
    BY <1>2 DEF LockScsi, TypeOK, HostType, Stages
  <2> QED BY <1>2, <2>1, <2>2 DEF LockScsi, TypeOK, EpType, DevType, devVars
<1>3. CASE EnterTransfer(t)
  <2>1. HostType'
    BY <1>3 DEF EnterTransfer, TypeOK, HostType, Subs
  <2>2. Payload(t) \in Message
    BY DEF Payload, TypeOK, HostType, Cmd, Message
  <2>3. xfer_buf' \in Message
    BY <1>3, <2>2 DEF EnterTransfer, TypeOK
  <2> QED BY <1>3, <2>1, <2>3 DEF EnterTransfer, TypeOK, EpType, DevType, devVars
<1>4. CASE Post(t)
  <2>1. UrbOf(t) \in Urb
    <3>1. stage[t] \in {"cbw", "data", "csw"}
      BY <1>4 DEF Post, Locks, Talking
    <3>3. cmd[t].tag \in Tags /\ cmd[t].size \in Nat
      BY DEF TypeOK, HostType, Cmd
    <3>2. SizeOf(t) \in Nat
      BY <3>1, <3>3 DEF SizeOf, CBWSize, CSWSize
    <3> QED BY <3>1, <3>2, <3>3 DEF UrbOf, Urb
  <2>2. EpOf(t) \in Eps
    BY DEF EpOf, Eps
  <2>3. Append(ep[EpOf(t)].inflight, UrbOf(t)) \in Seq(Urb)
    BY <2>1, <2>2, EpParts, AppendType DEF TypeOK
  <2>4. EpType'
    BY <1>4, <2>2, <2>3 DEF Post, TypeOK, EpType, Endpoint
  <2>5. HostType'
    BY <1>4 DEF Post, TypeOK, HostType, Subs
  <2> QED BY <1>4, <2>4, <2>5 DEF Post, TypeOK, DevType, devVars
<1>5. CASE TakeReport(t)
  <2> DEFINE e == EpOf(t)
             r == Head(ep[e].reports)
  <2>1. e \in Eps
    BY DEF EpOf, Eps
  <2>2. r \in Report /\ Tail(ep[e].reports) \in Seq(Report)
    BY <1>5, <2>1, EpParts, HeadTail DEF TakeReport, TypeOK
  <2>3. EpType'
    BY <1>5, <2>1, <2>2 DEF TakeReport, Taken, TypeOK, EpType, Endpoint
  <2>4. StageDone(t, r.ok, r.moved)
    BY <1>5 DEF TakeReport
  <2>5. r.ok \in BOOLEAN /\ r.moved \in Nat
    BY <2>2 DEF Report
  <2>6. HostType'
    BY <2>4, <2>5, StageDoneType DEF TypeOK
  <2>7. faults' \in Nat /\ clean' \in BOOLEAN
    BY <1>5, CountType DEF TakeReport
  <2> QED BY <2>3, <2>4, <2>6, <2>7 DEF StageDone, TypeOK, DevType, devVars
<1>6. CASE Timeout(t)
  <2>1. EpType'
    BY <1>6 DEF Timeout, TypeOK, EpType, Endpoint, EpOf, Eps
  <2>2. StageDone(t, FALSE, 0)
    BY <1>6 DEF Timeout
  <2>3. HostType'
    BY <2>2, StageDoneType DEF TypeOK
  <2>4. faults' \in Nat /\ clean' \in BOOLEAN
    BY <1>6, CountType DEF Timeout
  <2> QED BY <2>1, <2>2, <2>3, <2>4 DEF StageDone, TypeOK, DevType, devVars
<1>7. CASE PostFails(t)
  <2>1. StageDone(t, FALSE, 0)
    BY <1>7 DEF PostFails
  <2>2. HostType'
    BY <2>1, StageDoneType DEF TypeOK
  <2>3. faults' \in Nat /\ clean' \in BOOLEAN
    BY <1>7, CountType DEF PostFails
  <2> QED BY <1>7, <2>1, <2>2, <2>3 DEF PostFails, StageDone, TypeOK, EpType, DevType, devVars
<1>8. CASE Refuse(t)
  BY <1>8, RefuseIs DEF TypeOK, EpType, DevType
<1> QED BY <1>1, <1>2, <1>3, <1>4, <1>5, <1>6, <1>7, <1>8 DEF HostStep

\* A URB that completes leaves its endpoint well typed.
LEMMA CompleteType ==
  ASSUME EpType, NEW e \in Eps, ep[e].inflight # <<>>, NEW ok \in BOOLEAN,
         NEW moved \in Nat, Complete(e, ok, moved)
  PROVE  EpType'
<1> DEFINE r == [urb |-> HeadUrb(e), moved |-> moved, ok |-> ok]
<1>1. HeadUrb(e) \in Urb /\ Tail(ep[e].inflight) \in Seq(Urb)
  BY EpParts, HeadTail DEF HeadUrb
<1>2. r \in Report
  BY <1>1 DEF Report
<1>3. Append(ep[e].reports, r) \in Seq(Report)
  BY <1>2, EpParts, AppendType
<1>4. ep' = [ep EXCEPT ![e] = [inflight |-> Tail(ep[e].inflight),
                               reports  |-> Append(ep[e].reports, r),
                               event    |-> TRUE]]
  BY DEF Complete
<1> HIDE DEF r
<1> QED BY <1>1, <1>3, <1>4 DEF EpType, Endpoint

\* The size of the URB at the head of an endpoint.
LEMMA HeadSize ==
  ASSUME EpType, NEW e \in Eps, ep[e].inflight # <<>>
  PROVE  HeadUrb(e).size \in Nat
<1>1. HeadUrb(e) \in Urb
  BY EpParts, HeadTail DEF HeadUrb
<1> QED BY <1>1 DEF Urb

\* The drive enters its status phase with a known tag.
LEMMA ToStatusType ==
  ASSUME DevType, NEW tag \in Tags, NEW good \in BOOLEAN, ToStatus(tag, good)
  PROVE  dev' \in Drive /\ performed' \subseteq Tags
  BY DEF DevType, ToStatus, Drive, Phases

\* The drive's steps leave the threads' variables alone.
LEMMA HostTypeKept ==
  ASSUME HostType, UNCHANGED hostVars
  PROVE  HostType'
  BY DEF HostType, hostVars

\* Every step of the drive preserves the typing.
LEMMA TypeDev ==
  ASSUME TypeOK, DevStep
  PROVE  TypeOK'
<1>a. "in" \in Eps /\ "out" \in Eps
  BY DEF Eps
<1>b. dev.tag \in Tags
  BY DEF TypeOK, DevType, Drive
<1>1. CASE DevTakeCbw
  <2>1. EpType'
    BY <1>1, <1>a, CompleteType DEF DevTakeCbw, CBWSize, TypeOK
  <2>2. xfer_buf.tag \in Tags
    BY DEF TypeOK, Message
  <2>3. accepted' \subseteq Tags
    BY <1>1, <2>2 DEF DevTakeCbw, TypeOK, DevType
  <2>4. dev' \in Drive /\ performed' \subseteq Tags
    <3>1. CASE /\ UNCHANGED performed
               /\ dev' = [phase |-> IF xfer_buf.dir = "in" THEN "dataIn" ELSE "dataOut",
                          tag |-> xfer_buf.tag, left |-> xfer_buf.size, good |-> FALSE]
      BY <2>2, <3>1 DEF TypeOK, DevType, Drive, Phases, Message
    <3>2. CASE \E good \in BOOLEAN : ToStatus(xfer_buf.tag, good)
      BY <2>2, <3>2, ToStatusType DEF TypeOK
    <3> QED BY <1>1, <3>1, <3>2 DEF DevTakeCbw
  <2>5. faults' \in Nat /\ clean' \in BOOLEAN
    BY <1>1, CountType DEF DevTakeCbw
  <2> QED BY <1>1, <2>1, <2>3, <2>4, <2>5, HostTypeKept DEF DevTakeCbw, TypeOK, DevType
<1>2. CASE DevTakeData
  <2>1. EpType'
    BY <1>2, <1>a, CompleteType, HeadSize DEF DevTakeData, TypeOK
  <2>2. dev' \in Drive /\ performed' \subseteq Tags
    BY <1>2, <1>b, ToStatusType DEF DevTakeData, TypeOK
  <2>3. faults' \in Nat /\ clean' \in BOOLEAN
    BY <1>2, CountType DEF DevTakeData
  <2> QED BY <1>2, <2>1, <2>2, <2>3, HostTypeKept DEF DevTakeData, TypeOK, DevType
<1>3. CASE DevSendData
  <2>1. EpType'
    <3>1. dev.left \in Nat
      BY DEF TypeOK, DevType, Drive
    <3> QED BY <1>3, <1>a, <3>1, CompleteType, HeadSize DEF DevSendData, TypeOK
  <2>2. dev' \in Drive /\ performed' \subseteq Tags
    <3>1. CASE HeadUrb("in").size < dev.left
      <4>1. HeadUrb("in").size \in Nat /\ dev \in Drive
        BY <1>3, <1>a, HeadSize DEF DevSendData, TypeOK, DevType
      <4>2. dev.left - HeadUrb("in").size \in Nat
        BY <3>1, <4>1 DEF Drive
      <4>3. dev' = [dev EXCEPT !.left = dev.left - HeadUrb("in").size] /\ UNCHANGED performed
        BY <1>3, <3>1 DEF DevSendData
      <4> QED BY <4>1, <4>2, <4>3 DEF TypeOK, DevType, Drive
    <3>2. CASE \E good \in BOOLEAN : ToStatus(dev.tag, good)
      BY <1>b, <3>2, ToStatusType DEF TypeOK
    <3> QED BY <1>3, <3>1, <3>2 DEF DevSendData
  <2>3. xfer_buf' \in Message
    BY <1>3, <1>b DEF DevSendData, Message, Dirs
  <2>4. faults' \in Nat /\ clean' \in BOOLEAN
    BY <1>3, CountType DEF DevSendData
  <2> QED BY <1>3, <2>1, <2>2, <2>3, <2>4, HostTypeKept DEF DevSendData, TypeOK, DevType
<1>4. CASE DevSendStatus
  <2>1. EpType'
    BY <1>4, <1>a, CompleteType, HeadSize DEF DevSendStatus, TypeOK, CSWSize
  <2>2. dev' \in Drive
    BY <1>4 DEF DevSendStatus, TypeOK, DevType, Drive, Phases
  <2>3. xfer_buf' \in Message
    <3>1. Zero \in Message
      BY DEF Zero, Message, Dirs, Tags, NoTag
    <3>2. [kind |-> "csw", tag |-> dev.tag, dir |-> "none", size |-> 0, good |-> dev.good]
            \in Message
      BY DEF TypeOK, DevType, Drive, Message, Dirs
    <3> QED BY <1>4, <3>1, <3>2 DEF DevSendStatus, TypeOK
  <2>4. faults' \in Nat /\ clean' \in BOOLEAN
    BY <1>4, CountType DEF DevSendStatus
  <2>5. lost' = lost \/ lost' = lost \union {dev.tag}
    BY <1>4 DEF DevSendStatus
  <2>6. lost' \subseteq Tags
    BY <1>b, <2>5 DEF TypeOK, DevType
  <2>7. accepted' \subseteq Tags /\ performed' \subseteq Tags /\ UNCHANGED hostVars
    BY <1>4 DEF DevSendStatus, TypeOK, DevType
  <2> QED BY <2>1, <2>2, <2>3, <2>4, <2>6, <2>7, HostTypeKept DEF TypeOK, DevType
<1>5. ASSUME NEW e \in Eps, DevStall(e)
      PROVE  TypeOK'
  <2>1. EpType'
    BY <1>5, CompleteType DEF DevStall, TypeOK
  <2>2. dev' \in Drive /\ performed' \subseteq Tags
    <3>1. CASE \E good \in BOOLEAN : ToStatus(dev.tag, good)
      BY <1>b, <3>1, ToStatusType DEF TypeOK
    <3>2. CASE (\E phase \in {dev.phase, "stalled"} : dev' = [dev EXCEPT !.phase = phase])
               /\ UNCHANGED performed
      BY <3>2 DEF TypeOK, DevType, Drive, Phases
    <3> QED BY <1>5, <3>1, <3>2 DEF DevStall
  <2>3. faults' \in Nat /\ clean' \in BOOLEAN
    BY <1>5, CountType DEF DevStall
  <2> QED BY <1>5, <2>1, <2>2, <2>3, HostTypeKept DEF DevStall, TypeOK, DevType
<1>6. ASSUME NEW e \in Eps, DevStalled(e)
      PROVE  TypeOK'
  <2>1. EpType'
    BY <1>6, CompleteType DEF DevStalled, TypeOK
  <2>2. faults' \in Nat /\ clean' \in BOOLEAN
    BY <1>6, CountType DEF DevStalled
  <2> QED BY <1>6, <2>1, <2>2, HostTypeKept DEF DevStalled, TypeOK, DevType, devVars
<1> QED BY <1>1, <1>2, <1>3, <1>4, <1>5, <1>6 DEF DevStep

-----------------------------------------------------------------------------
(* The locks *)

\* Nobody holds a lock at first.
LEMMA LocksInit == Init => Locks
  BY DEF Init, Locks, Talking

\* The end of a transfer releases usb_mutex, and that of a locked command
\* scsi_operation_mutex, both held by the thread that ends it.
LEMMA StageDoneLocks ==
  ASSUME TypeOK, Locks, NEW t \in Threads, sub[t] # "enter",
         NEW ok \in BOOLEAN, NEW moved \in Nat, StageDone(t, ok, moved)
  PROVE  Locks'
<1>1. usbLock = t /\ Talking(t) /\ \A u \in Threads : u # t => sub[u] = "enter"
  BY DEF Locks
<1>2. \A u \in Threads : sub'[u] = "enter"
  BY <1>1 DEF StageDone, TypeOK, HostType
<1>3. ASSUME NEW u \in Threads, Talking(u)', Locked(u)'
      PROVE  scsiLock' = u
  <2>1. CASE stage[t] \in {"cbw", "data"}
    <3>1. UNCHANGED <<scsiLock, cmd>> /\ \A v \in Threads : Talking(v)' => Talking(v)
      BY <1>1, <2>1 DEF StageDone, TypeOK, HostType, Talking
    <3> QED BY <1>3, <3>1 DEF Locks, Locked
  <2>2. CASE stage[t] = "csw"
    <3>1. JudgeCsw(t, ok, moved)
      BY <2>2 DEF StageDone
    <3>2. (\E ret : Return(t, ret)) \/ (Sense(t) /\ ~Locked(t))
      BY <3>1 DEF JudgeCsw, JudgeLocked, JudgeBare, JudgeSense, Mine, Locked
    <3>3. u # t /\ Talking(u) /\ Locked(u)
      BY <1>3, <3>2 DEF Return, Sense, TypeOK, HostType, Talking, Locked
    <3>4. scsiLock = u /\ ~Locked(t)
      BY <1>1, <3>3 DEF Locks
    <3> QED BY <3>2, <3>4 DEF Return, Sense
  <2> QED BY <1>1, <2>1, <2>2 DEF Talking
<1> QED BY <1>2, <1>3 DEF Locks

\* Every step preserves Locks.
LEMMA LocksStep ==
  ASSUME TypeOK, Locks, [Next]_vars
  PROVE  Locks'
<1>1. ASSUME NEW t \in Threads, HostStep(t)
      PROVE  Locks'
  <2>1. CASE Start(t)
    BY <2>1 DEF Start, Locks, Talking, Locked, TypeOK, HostType
  <2>2. CASE LockScsi(t)
    BY <2>2, NoThreadAssumption DEF LockScsi, Locks, Talking, Locked, TypeOK, HostType
  <2>3. CASE EnterTransfer(t)
    BY <2>3, NoThreadAssumption DEF EnterTransfer, Locks, Talking, Locked, TypeOK, HostType
  <2>4. CASE Post(t)
    BY <2>4 DEF Post, Locks, Talking, Locked, TypeOK, HostType
  <2>5. CASE TakeReport(t)
    <3> DEFINE e == EpOf(t)
               r == Head(ep[e].reports)
    <3>1. r \in Report
      BY <2>5, EpParts, HeadTail DEF TakeReport, TypeOK, EpOf, Eps
    <3>2. StageDone(t, r.ok, r.moved) /\ sub[t] # "enter"
      BY <2>5 DEF TakeReport
    <3>3. r.ok \in BOOLEAN /\ r.moved \in Nat
      BY <3>1 DEF Report
    <3> HIDE DEF r
    <3> QED BY <3>2, <3>3, StageDoneLocks
  <2>6. CASE Timeout(t)
    BY <2>6, StageDoneLocks DEF Timeout
  <2>7. CASE PostFails(t)
    BY <2>7, StageDoneLocks DEF PostFails
  <2>8. CASE Refuse(t)
    BY <2>8, RefuseIs DEF Locks, Talking, Locked, TypeOK, HostType
  <2> QED BY <1>1, <2>1, <2>2, <2>3, <2>4, <2>5, <2>6, <2>7, <2>8 DEF HostStep
<1>2. CASE UNCHANGED hostVars
  BY <1>2 DEF hostVars, Locks, Talking, Locked
<1>3. DevStep \/ Done \/ UNCHANGED vars => UNCHANGED hostVars
  BY DEF DevStep, DevTakeCbw, DevTakeData, DevSendData, DevSendStatus, DevStall,
         DevStalled, Done, vars
<1> QED BY <1>1, <1>2, <1>3 DEF Next

\* Every step preserves the typing, given Locks.
LEMMA TypeStep ==
  ASSUME TypeOK, Locks, [Next]_vars
  PROVE  TypeOK'
<1>1. CASE UNCHANGED vars
  BY <1>1 DEF vars, hostVars, devVars, TypeOK, HostType, EpType, DevType
<1> QED BY <1>1, TypeHost, TypeDev DEF Next, Done

\* TypeOK needs Locks because the size and the stage of a posted URB are those
\* of the poster's stage, which has to be a transfer.
THEOREM Typed == Spec => [](TypeOK /\ Locks)
<1>1. Init => TypeOK /\ Locks
  BY TypeInit, LocksInit
<1>2. (TypeOK /\ Locks) /\ [Next]_vars => (TypeOK /\ Locks)'
  BY TypeStep, LocksStep
<1> QED BY <1>1, <1>2, PTL DEF Spec

\* Every variable of the command layer, of the transport and of the drive keeps
\* its type in every behaviour.
THEOREM TypeCorrect == Spec => []TypeOK
  BY Typed, PTL

\* Mutual exclusion of locked commands and of bulk transfers, for any number of
\* threads, although the bare functions never take scsi_operation_mutex.
THEOREM MutualExclusion == Spec => []Exclusive
<1>1. TypeOK /\ Locks => Exclusive
  BY DEF Locks, Exclusive
<1> QED BY <1>1, Typed, PTL

-----------------------------------------------------------------------------
(* A reported success is genuine *)

\* A good CSW, in the drive or in the shared buffer, names a performed command.
Genuine ==
  /\ xfer_buf.kind = "csw" /\ xfer_buf.good => xfer_buf.tag \in performed
  /\ dev.good => dev.tag \in performed
  /\ SuccessGenuine

\* The checks on the CSW let no failed command through as a success.
LEMMA StageDoneGenuine ==
  ASSUME TypeOK, Genuine, NEW t \in Threads, Talking(t), NEW ok, NEW moved,
         StageDone(t, ok, moved)
  PROVE  Genuine'
<1>1. UNCHANGED <<xfer_buf, dev, performed>>
  BY DEF StageDone, devVars
<1>2. SuccessGenuine'
  <2>1. CASE stage[t] \in {"cbw", "data"}
    BY <1>1, <2>1 DEF StageDone, Genuine, SuccessGenuine, Succeeded, Checked
  <2>2. CASE stage[t] = "csw"
    <3>1. JudgeCsw(t, ok, moved)
      BY <2>2 DEF StageDone
    <3>2. CASE Sense(t)
      BY <1>1, <3>2 DEF Sense, Genuine, SuccessGenuine, Succeeded, Checked
    <3>3. ASSUME NEW ret \in Int, Return(t, ret),
                 Checked([cmd |-> cmd[t]]) /\ ret >= 0 => cmd[t].tag \in performed
          PROVE  SuccessGenuine'
      BY <1>1, <3>3
      DEF Return, Genuine, SuccessGenuine, Succeeded, Checked, TypeOK, HostType
    <3>4. Sense(t) \/ \E ret \in Int :
            /\ Return(t, ret)
            /\ Checked([cmd |-> cmd[t]]) /\ ret >= 0 => cmd[t].tag \in performed
      <4>1. data[t].moved \in Int
        BY DEF TypeOK, HostType, Data
      <4>2. CASE cmd[t].kind \in {"command", "pass"}
        <5> DEFINE csw == IF ok THEN xfer_buf ELSE Zero
        <5>1. CASE csw.kind = "csw" /\ csw.tag = cmd[t].tag /\ csw.good
          <6>1. cmd[t].tag \in performed
            BY <5>1 DEF Genuine, Zero
          <6>2. \E ret \in Int : Return(t, ret)
            BY <3>1, <4>1, <4>2 DEF JudgeCsw, JudgeLocked, JudgeBare, JudgeSense, Mine
          <6> QED BY <6>1, <6>2
        <5>2. CASE ~(csw.kind = "csw" /\ csw.tag = cmd[t].tag /\ csw.good)
          <6>1. Return(t, -1)
            BY <3>1, <4>2, <5>2 DEF JudgeCsw, JudgeLocked, JudgeBare, JudgeSense, Mine
          <6> QED BY <6>1
        <5> QED BY <5>1, <5>2
      <4>3. CASE cmd[t].kind \notin {"command", "pass"}
        BY <3>1, <4>3 DEF JudgeCsw, JudgeLocked, JudgeBare, JudgeSense, Mine, Checked
      <4> QED BY <4>2, <4>3
    <3> QED BY <3>2, <3>3, <3>4
  <2> QED BY <2>1, <2>2 DEF Talking
<1> QED BY <1>1, <1>2 DEF Genuine

\* Every step preserves Genuine.
LEMMA GenuineStep ==
  ASSUME TypeOK, Locks, Genuine, [Next]_vars
  PROVE  Genuine'
<1>1. ASSUME NEW t \in Threads, HostStep(t)
      PROVE  Genuine'
  <2>1. CASE Start(t)
    BY <2>1 DEF Start, devVars, Genuine, SuccessGenuine, Succeeded, Checked,
                NoOutcome, TypeOK, HostType
  <2>2. CASE LockScsi(t) \/ Post(t)
    BY <2>2 DEF LockScsi, Post, devVars, Genuine, SuccessGenuine
  <2>3. CASE EnterTransfer(t)
    BY <2>3 DEF EnterTransfer, Payload, devVars, Genuine, SuccessGenuine
  <2>4. CASE TakeReport(t)
    BY <2>4, StageDoneGenuine DEF TakeReport, Locks
  <2>5. CASE Timeout(t)
    BY <2>5, StageDoneGenuine DEF Timeout, Locks
  <2>6. CASE PostFails(t)
    BY <2>6, StageDoneGenuine DEF PostFails, Locks
  <2>7. CASE Refuse(t)
    <3>1. UNCHANGED <<outcome, performed, xfer_buf, dev>>
      BY <2>7, RefuseIs
    <3> QED BY <3>1 DEF Genuine, SuccessGenuine
  <2> QED BY <1>1, <2>1, <2>2, <2>3, <2>4, <2>5, <2>6, <2>7 DEF HostStep
<1>2. CASE DevStep
  <2>1. UNCHANGED outcome /\ performed \subseteq performed'
    BY <1>2 DEF DevStep, DevTakeCbw, DevTakeData, DevSendData, DevSendStatus, DevStall,
                DevStalled, ToStatus, hostVars, devVars
  <2>2. SuccessGenuine'
    BY <2>1 DEF Genuine, SuccessGenuine
  <2>3. dev'.good => dev'.tag \in performed'
    <3>1. CASE \E tag \in Tags, good \in BOOLEAN : ToStatus(tag, good)
      BY <3>1 DEF ToStatus
    <3>2. CASE dev'.good = FALSE
      BY <3>2
    <3>3. CASE dev'.good = dev.good /\ dev'.tag = dev.tag
      BY <2>1, <3>3 DEF Genuine
    <3>4. xfer_buf.tag \in Tags /\ dev.tag \in Tags /\ dev \in Drive
      BY DEF TypeOK, DevType, Drive, Message
    <3>5. CASE DevTakeCbw
      <4>1. CASE dev' = [phase |-> IF xfer_buf.dir = "in" THEN "dataIn" ELSE "dataOut",
                         tag |-> xfer_buf.tag, left |-> xfer_buf.size, good |-> FALSE]
        BY <3>2, <4>1
      <4>2. CASE \E good \in BOOLEAN : ToStatus(xfer_buf.tag, good)
        BY <3>1, <3>4, <4>2
      <4> QED BY <3>5, <4>1, <4>2 DEF DevTakeCbw
    <3>6. CASE DevTakeData \/ DevSendData
      BY <3>1, <3>3, <3>4, <3>6 DEF DevTakeData, DevSendData, Drive
    <3>7. CASE DevSendStatus
      BY <3>3, <3>4, <3>7 DEF DevSendStatus, Drive
    <3>8. CASE \E e \in Eps : DevStall(e) \/ DevStalled(e)
      BY <3>1, <3>3, <3>4, <3>8 DEF DevStall, DevStalled, Drive, devVars
    <3> QED BY <1>2, <3>5, <3>6, <3>7, <3>8 DEF DevStep
  <2>4. xfer_buf'.kind = "csw" /\ xfer_buf'.good => xfer_buf'.tag \in performed'
    <3>1. CASE UNCHANGED xfer_buf
      BY <2>1, <3>1 DEF Genuine
    <3>2. CASE xfer_buf'.kind # "csw"
      BY <3>2
    <3>3. CASE DevSendStatus
      <4>1. UNCHANGED performed
        BY <3>3 DEF DevSendStatus
      <4>2. CASE xfer_buf' = [kind |-> "csw", tag |-> dev.tag, dir |-> "none",
                              size |-> 0, good |-> dev.good]
        BY <4>1, <4>2 DEF Genuine
      <4>3. CASE xfer_buf' = Zero
        BY <3>2, <4>3 DEF Zero
      <4>4. CASE xfer_buf' = xfer_buf
        BY <3>1, <4>4
      <4> QED BY <3>3, <4>2, <4>3, <4>4 DEF DevSendStatus
    <3>4. CASE DevSendData
      BY <3>2, <3>4 DEF DevSendData
    <3>5. DevSendStatus \/ DevSendData \/ UNCHANGED xfer_buf
      BY <1>2 DEF DevStep, DevTakeCbw, DevTakeData, DevStall, DevStalled
    <3> QED BY <3>1, <3>3, <3>4, <3>5
  <2> QED BY <2>2, <2>3, <2>4 DEF Genuine
<1>3. CASE UNCHANGED vars
  BY <1>3 DEF vars, hostVars, devVars, Genuine, SuccessGenuine
<1> QED BY <1>1, <1>2, <1>3 DEF Next, Done

\* A locked command reports success only if the drive performed it, for any
\* number of threads, commands, stalls and timeouts.
THEOREM GenuineSuccess == Spec => []SuccessGenuine
<1>1. Init => Genuine
  BY DEF Init, Genuine, Zero, SuccessGenuine, Succeeded, Checked, NoOutcome
<1>2. TypeOK /\ Locks /\ Genuine /\ [Next]_vars => Genuine'
  BY GenuineStep
<1>3. Genuine => SuccessGenuine
  BY DEF Genuine
<1> QED BY <1>1, <1>2, <1>3, Typed, PTL DEF Spec

-----------------------------------------------------------------------------
(* Nothing goes wrong without a fault and without an overlap *)

(* A tag is of one command: of those under way, of those that returned, and *)
(* of those the drive has performed.                                       *)
OneTag ==
  /\ \A t \in Threads : stage[t] # "idle" => cmd[t].tag \in 1 .. nextTag - 1
  /\ \A t, u \in Threads : t # u /\ stage[t] # "idle" /\ stage[u] # "idle" =>
                             cmd[t].tag # cmd[u].tag
  /\ \A t, u \in Threads : stage[u] # "idle" => outcome[t].cmd.tag # cmd[u].tag
  /\ \A t \in Threads : outcome[t].cmd.tag < nextTag
  /\ performed \subseteq 1 .. nextTag - 1
  /\ \A t \in Threads : stage[t] = "lock" => cmd[t].tag \notin performed

\* Nothing is on endpoint e; on either; on the one thread t does not use.
Clear(e) == ep[e].inflight = <<>> /\ ep[e].reports = <<>> /\ ~ep[e].event
Quiet    == \A e \in Eps : Clear(e)
Only(t)  == \A e \in Eps \ {EpOf(t)} : Clear(e)

\* Thread t's URB is on its endpoint and nothing else; its report is.
Posted(t) ==
  LET q == ep[EpOf(t)] IN q.inflight = <<UrbOf(t)>> /\ q.reports = <<>> /\ ~q.event
Answered(t) ==
  LET q == ep[EpOf(t)] IN
  q.inflight = <<>> /\ q.event /\
  \E r \in Report : q.reports = <<r>> /\ r.ok /\ r.moved = SizeOf(t)

\* What a thread that sends has copied is still in the buffer.
Copied(t) == EpOf(t) = "out" => xfer_buf = Payload(t)

\* The drive expects stage s of thread t's command, or is done with it.
DriveAt(t, s) ==
  \/ s = "cbw" /\ dev.phase = "idle" /\ cmd[t].tag \notin performed
  \/ /\ s = "data" /\ cmd[t].dir # "none"
     /\ dev.phase = IF cmd[t].dir = "in" THEN "dataIn" ELSE "dataOut"
     /\ dev.tag = cmd[t].tag /\ dev.left = cmd[t].size /\ cmd[t].tag \notin performed
  \/ /\ s = "csw" /\ dev.phase = "status"
     /\ dev.tag = cmd[t].tag /\ (dev.good <=> cmd[t].tag \in performed)
  \/ /\ s = "over" /\ dev.phase = "idle"
     /\ xfer_buf.kind = "csw" /\ xfer_buf.tag = cmd[t].tag
     /\ (xfer_buf.good <=> cmd[t].tag \in performed)

\* The data that t waits for are in the buffer; those it has had were its own.
Filled(t) ==
  stage[t] = "data" /\ cmd[t].dir = "in" =>
    xfer_buf.kind = "data" /\ xfer_buf.tag = cmd[t].tag
Fetched(t) ==
  stage[t] = "csw" /\ cmd[t].dir = "in" =>
    data[t].moved = cmd[t].size /\ data[t].from = cmd[t].tag

NextStage(t) == CASE stage[t] = "cbw"  -> AfterCbw(t)
                  [] stage[t] = "data" -> "csw"
                  [] stage[t] = "csw"  -> "over"

\* The thread, its endpoint and the drive at each point of a transfer.
Step(t) ==
  \/ sub[t] = "enter" /\ Quiet /\ DriveAt(t, stage[t])
  \/ sub[t] = "post" /\ Quiet /\ DriveAt(t, stage[t]) /\ Copied(t)
  \/ sub[t] = "wait" /\ Only(t) /\ Posted(t) /\ DriveAt(t, stage[t]) /\ Copied(t)
  \/ sub[t] = "wait" /\ Only(t) /\ Answered(t) /\ DriveAt(t, NextStage(t)) /\ Filled(t)

\* The verdicts so far are those of the drive.
Verdicts ==
  \A t \in Threads :
    Checked(outcome[t]) /\ outcome[t].cmd.tag \in performed => outcome[t].ret >= 0

\* The counts so far are those of the commands' own data.
OwnCounts ==
  \A t \in Threads :
    outcome[t].cmd.kind = "pass" /\ outcome[t].cmd.dir = "in" /\ outcome[t].ret >= 0 =>
      outcome[t].ret = outcome[t].cmd.size /\ outcome[t].from = outcome[t].cmd.tag

Silent == Quiet /\ dev.phase = "idle"

Calm ==
  /\ OneTag
  /\ ~Overlap
  /\ (\A t \in Threads : ~Talking(t)) => Silent
  /\ \A t \in Threads : Talking(t) => Step(t) /\ Fetched(t)
  /\ Verdicts
  /\ OwnCounts

CleanCalm == clean => Calm

\* A thread's stage and command determine its transfer.
LEMMA SameTransfer ==
  ASSUME NEW t \in Threads, stage'[t] = stage[t], cmd'[t] = cmd[t]
  PROVE  /\ Talking(t)' <=> Talking(t)
         /\ EpOf(t)' = EpOf(t) /\ SizeOf(t)' = SizeOf(t) /\ UrbOf(t)' = UrbOf(t)
         /\ Payload(t)' = Payload(t) /\ NextStage(t)' = NextStage(t)
<1>1. /\ Talking(t)' <=> Talking(t)
      /\ EpOf(t)' = EpOf(t) /\ SizeOf(t)' = SizeOf(t)
      /\ Payload(t)' = Payload(t)
  BY DEF Talking, EpOf, SizeOf, Payload
<1>2. UrbOf(t)' = UrbOf(t)
  BY <1>1 DEF UrbOf
<1>3. NextStage(t)' = NextStage(t)
  BY DEF NextStage, AfterCbw
<1> QED
  BY <1>1, <1>2, <1>3

\* Where a step leaves a thread, the wire and the drive alone.
LEMMA StepKept ==
  ASSUME NEW t \in Threads, stage'[t] = stage[t], cmd'[t] = cmd[t], sub'[t] = sub[t],
         data'[t] = data[t], UNCHANGED <<ep, dev, performed, xfer_buf>>,
         Step(t), Fetched(t)
  PROVE  Step(t)' /\ Fetched(t)'
<1>1. \A s : DriveAt(t, s) => DriveAt(t, s)'
  BY DEF DriveAt
<1>2. /\ (Quiet => Quiet') /\ (Only(t) => Only(t)')
      /\ (Posted(t) => Posted(t)') /\ (Answered(t) => Answered(t)')
  BY SameTransfer DEF Quiet, Only, Clear, Posted, Answered
<1>3. (Copied(t) => Copied(t)') /\ (Filled(t) => Filled(t)') /\ Fetched(t)'
  BY SameTransfer DEF Copied, Filled, Fetched
<1> QED
  BY <1>1, <1>2, <1>3, SameTransfer DEF Step

(* A step that neither starts nor ends a command, nor a command's wait for *)
(* its mutex, keeps the tags apart.                                        *)
LEMMA TagsKept ==
  ASSUME OneTag, UNCHANGED <<cmd, outcome, nextTag, performed>>,
         \A t \in Threads : /\ stage'[t] # "idle" => stage[t] # "idle"
                            /\ stage'[t] = "lock" => stage[t] = "lock"
  PROVE  OneTag'
  BY DEF OneTag

\* So does a drive that performs the command on the wire.
LEMMA TagsPerformed ==
  ASSUME OneTag, UNCHANGED hostVars, NEW t \in Threads, Talking(t),
         performed' \in {performed, performed \union {cmd[t].tag}}
  PROVE  OneTag'
  BY DEF OneTag, hostVars, Talking

\* Who returned is not told something else, by a step without a new verdict.
LEMMA VerdictsKept ==
  ASSUME Verdicts, OwnCounts, UNCHANGED <<outcome, performed>>
  PROVE  Verdicts' /\ OwnCounts'
  BY DEF Verdicts, OwnCounts, Checked

\* Steps take the history of faults and overlaps forward only.
LEMMA CleanBefore ==
  ASSUME TypeOK, [Next]_vars, clean'
  PROVE  clean
<1>1. NoFault \/ Fault \/ NotOverlapped \/ UNCHANGED clean \/ clean' = FALSE
  BY DEF Next, HostStep, DevStep, Start, LockScsi, EnterTransfer, Post, TakeReport,
         Timeout, PostFails, Refuse, DevTakeCbw, DevTakeData, DevSendData, DevSendStatus,
         DevStall, DevStalled, Done, vars
<1> QED
  BY <1>1, Zenon DEF NoFault, Fault, NotOverlapped

(* The overlap that a step of thread t may bring about.                    *)
LEMMA NoOverlap ==
  ASSUME NEW t \in Threads, ~Overlap', Talking(t)',
         \A u \in Threads \ {t} : stage'[u] = stage[u], ~Talking(t)
  PROVE  \A u \in Threads : ~Talking(u)
  BY DEF Overlap, Talking

-----------------------------------------------------------------------------
(* A command begins *)

\* A new command has a tag no other command, no outcome and no performance has.
LEMMA StartTags ==
  ASSUME TypeOK, OneTag, NEW t \in Threads, Start(t)
  PROVE  OneTag'
<1>1. PICK c \in Cmd : c.tag = nextTag /\ cmd' = [cmd EXCEPT ![t] = c]
  BY StartCmd
<1>2. /\ cmd'[t].tag = nextTag /\ nextTag' = nextTag + 1 /\ nextTag \in Nat \ {0}
      /\ outcome'[t].cmd.tag = 0 /\ UNCHANGED performed
      /\ \A u \in Threads \ {t} : /\ cmd'[u] = cmd[u] /\ outcome'[u] = outcome[u]
                                  /\ stage'[u] = stage[u]
  BY <1>1 DEF Start, TypeOK, HostType, NoOutcome, NoCmd, NoTag, devVars
<1>3. \A u \in Threads : outcome[u].cmd.tag \in Nat /\ outcome[u].cmd.tag < nextTag
  BY DEF OneTag, TypeOK, HostType, Outcome, Cmd, Tags
<1> QED
  BY <1>2, <1>3 DEF OneTag

\* A step of thread t that puts its command on the quiet wire.
LEMMA FirstStage ==
  ASSUME Locks, Silent, NEW t \in Threads, ~Talking(t), stage'[t] = "cbw",
         cmd'[t].tag \notin performed, UNCHANGED <<sub, ep, dev, performed>>
  PROVE  Step(t)' /\ Fetched(t)'
<1>1. sub'[t] = "enter" /\ stage'[t] = "cbw"
  BY DEF Locks
<1>2. Quiet'
  BY DEF Quiet, Clear, Silent
<1>3. DriveAt(t, stage[t])'
  BY <1>1 DEF DriveAt, Silent
<1> QED
  BY <1>1, <1>2, <1>3 DEF Step, Fetched

\* A thread that issues a command while nothing overlaps leaves the rest calm.
LEMMA StartCalm ==
  ASSUME TypeOK, Locks, Calm, NEW t \in Threads, Start(t), clean'
  PROVE  Calm'
<1> USE DEF Calm
<1>1. OneTag'
  BY StartTags
<1>2. ~Overlap'
  BY Zenon DEF Start, NotOverlapped
<1>3. /\ ~Talking(t) /\ cmd'[t].tag = nextTag /\ stage'[t] \in {"cbw", "lock"}
      /\ UNCHANGED <<sub, data, ep, dev, performed, xfer_buf>>
      /\ outcome' = [outcome EXCEPT ![t] = NoOutcome]
      /\ \A u \in Threads \ {t} : cmd'[u] = cmd[u] /\ stage'[u] = stage[u]
  BY DEF Start, Talking, TypeOK, HostType, devVars
<1>4. nextTag \notin performed /\ 0 \notin performed /\ nextTag \in Nat
  BY DEF OneTag, TypeOK, HostType
<1>5. ASSUME NEW u \in Threads, Talking(u)'
      PROVE  Step(u)' /\ Fetched(u)'
  <2>1. CASE u = t
    <3>1. \A v \in Threads : ~Talking(v)
      BY <1>2, <1>3, <1>5, <2>1, NoOverlap
    <3>2. stage'[t] = "cbw"
      BY <1>3, <1>5, <2>1 DEF Talking
    <3> QED
      BY <3>1, <3>2, <2>1, <1>3, <1>4, FirstStage
  <2>2. CASE u # t
    BY <1>3, <1>5, <2>2, StepKept, SameTransfer
  <2> QED
    BY <2>1, <2>2
<1>6. (\A u \in Threads : ~Talking(u)') => Silent'
  <2>1. ASSUME \A u \in Threads : ~Talking(u)'
        PROVE  \A u \in Threads : ~Talking(u)
    BY <2>1, <1>3, SameTransfer
  <2> QED
    BY <2>1, <1>3 DEF Silent, Quiet, Clear
<1>7. Verdicts' /\ OwnCounts'
  <2>1. outcome'[t] = NoOutcome /\ \A u \in Threads \ {t} : outcome'[u] = outcome[u]
    BY <1>3 DEF TypeOK, HostType
  <2> QED
    BY <2>1, <1>3, <1>4 DEF Verdicts, OwnCounts, Checked, NoOutcome, NoCmd, NoTag
<1> QED
  BY <1>1, <1>2, <1>5, <1>6, <1>7

\* The thread that takes the command mutex is the only one to talk from then on.
LEMMA LockCalm ==
  ASSUME TypeOK, Locks, Calm, NEW t \in Threads, LockScsi(t), clean'
  PROVE  Calm'
<1> USE DEF Calm
<1>1. ~Overlap'
  BY Zenon DEF LockScsi, NotOverlapped
<1>2. /\ ~Talking(t) /\ stage[t] = "lock" /\ stage'[t] = "cbw"
      /\ UNCHANGED <<sub, cmd, data, outcome, nextTag, ep, dev, performed, xfer_buf>>
      /\ \A u \in Threads \ {t} : stage'[u] = stage[u]
  BY DEF LockScsi, Talking, TypeOK, HostType, devVars
<1>3. OneTag' /\ cmd'[t].tag \notin performed
  BY <1>2, TagsKept DEF OneTag
<1>4. Talking(t)' /\ \A u \in Threads : ~Talking(u)
  BY <1>1, <1>2, NoOverlap DEF Talking
<1>5. Step(t)' /\ Fetched(t)'
  BY <1>2, <1>3, <1>4, FirstStage
<1>6. \A u \in Threads \ {t} : ~Talking(u)'
  BY <1>2, <1>4, SameTransfer
<1> QED
  BY <1>1, <1>2, <1>3, <1>4, <1>5, <1>6, VerdictsKept

-----------------------------------------------------------------------------
(* A transfer *)

\* While thread t's command is on the wire, no other is.
LEMMA AloneOnWire ==
  ASSUME ~Overlap, NEW t \in Threads, Talking(t)
  PROVE  \A u \in Threads \ {t} : ~Talking(u)
  BY DEF Overlap

(* A step within thread t's command keeps the calm if it keeps the thread  *)
(* in step with the drive.                                                 *)
LEMMA WithinCalm ==
  ASSUME Calm, NEW t \in Threads, Talking(t), Talking(t)',
         UNCHANGED <<cmd, outcome, nextTag, performed>>,
         \A u \in Threads \ {t} : stage'[u] = stage[u],
         Step(t)', Fetched(t)'
  PROVE  Calm'
<1> USE DEF Calm
<1>1. OneTag'
  <2>1. stage[t] # "idle" /\ stage'[t] # "lock"
    BY DEF Talking
  <2> QED
    BY <2>1, TagsKept
<1>2. \A u \in Threads : Talking(u)' <=> Talking(u)
  BY SameTransfer
<1>3. ~Overlap'
  BY <1>2 DEF Overlap
<1> QED
  BY <1>1, <1>2, <1>3, AloneOnWire, VerdictsKept

\* Taking the transfer mutex and copying the CBW or the data disturbs no command.
LEMMA EnterCalm ==
  ASSUME TypeOK, Locks, Calm, NEW t \in Threads, EnterTransfer(t)
  PROVE  Calm'
<1>1. /\ Talking(t) /\ sub[t] = "enter" /\ sub'[t] = "post"
      /\ UNCHANGED <<stage, cmd, data, outcome, nextTag, ep, dev, performed>>
      /\ EpOf(t) = "out" => xfer_buf' = Payload(t)
  BY DEF EnterTransfer, devVars, TypeOK, HostType
<1>2. Quiet /\ DriveAt(t, stage[t]) /\ Fetched(t) /\ stage[t] # "over"
  BY <1>1 DEF Calm, Step, Talking
<1>3. Quiet' /\ DriveAt(t, stage[t])' /\ Fetched(t)' /\ Copied(t)'
  BY <1>1, <1>2, SameTransfer DEF Quiet, Clear, DriveAt, Fetched, Copied
<1> QED
  BY <1>1, <1>3, WithinCalm, SameTransfer DEF Step

\* What a post puts on the quiet wire.
LEMMA PostOnly ==
  ASSUME EpType, NEW t \in Threads, Quiet,
         ep' = [ep EXCEPT ![EpOf(t)].inflight = Append(@, UrbOf(t))],
         UNCHANGED <<stage, cmd>>
  PROVE  Only(t)' /\ Posted(t)'
<1> DEFINE e == EpOf(t)
           x == UrbOf(t)
<1>1. e \in Eps /\ Clear(e)
  BY DEF EpOf, Eps, Quiet
<1>2. EpOf(t)' = e /\ UrbOf(t)' = x
  BY SameTransfer
<1>3. Append(ep[e].inflight, x) = <<x>>
  BY <1>1 DEF Clear
<1> HIDE DEF e, x
<1>4. /\ ep'[e].inflight = <<x>> /\ ep'[e].reports = ep[e].reports
      /\ ep'[e].event = ep[e].event
      /\ \A f \in Eps \ {e} : ep'[f] = ep[f]
  BY <1>1, <1>3 DEF EpType, Endpoint, e, x
<1>5. Posted(t)'
  BY <1>1, <1>2, <1>4 DEF Posted, Clear
<1>6. Only(t)'
  BY <1>2, <1>4 DEF Only, Clear, Quiet
<1> QED
  BY <1>5, <1>6

\* The URB a thread posts is the only one of the only command on the wire.
LEMMA PostCalm ==
  ASSUME TypeOK, Locks, Calm, NEW t \in Threads, Post(t)
  PROVE  Calm'
<1>1. /\ Talking(t) /\ sub[t] = "post" /\ sub'[t] = "wait"
      /\ UNCHANGED <<stage, cmd, data, outcome, nextTag, xfer_buf, dev, performed>>
  BY DEF Post, devVars, TypeOK, HostType, Locks
<1>2. Quiet /\ DriveAt(t, stage[t]) /\ Copied(t) /\ Fetched(t)
  BY <1>1 DEF Calm, Step
<1>3. DriveAt(t, stage[t])' /\ Fetched(t)' /\ Copied(t)'
  BY <1>1, <1>2, SameTransfer DEF DriveAt, Fetched, Copied
<1>4. Only(t)' /\ Posted(t)'
  BY <1>1, <1>2, PostOnly DEF Post, TypeOK
<1> QED
  BY <1>1, <1>3, <1>4, WithinCalm, SameTransfer DEF Step

\* A thread that waits has its URB on the wire, or its report.
LEMMA Waiting ==
  ASSUME Locks, Calm, NEW t \in Threads, sub[t] = "wait"
  PROVE  /\ Talking(t) /\ Fetched(t) /\ EpOf(t) \in Eps
         /\ \/ Only(t) /\ Posted(t) /\ DriveAt(t, stage[t]) /\ Copied(t)
            \/ Only(t) /\ Answered(t) /\ DriveAt(t, NextStage(t)) /\ Filled(t)
  BY DEF Calm, Step, Locks, EpOf, Eps

\* A drive at the stage of the posted URB would answer it.
LEMMA WouldAnswer ==
  ASSUME TypeOK, NEW t \in Threads, Talking(t), Only(t) /\ Posted(t), DriveAt(t, stage[t]),
         Copied(t), EpOf(t) \in Eps
  PROVE  DriveAnswers(EpOf(t))
<1>2. ep[EpOf(t)].inflight = <<UrbOf(t)>>
  BY DEF Posted
<1>3. Head(ep[EpOf(t)].inflight) = UrbOf(t) /\ ep[EpOf(t)].inflight # <<>>
  BY <1>2
<1>4. CASE stage[t] = "cbw"
  <2>1. EpOf(t) = "out" /\ dev.phase = "idle" /\ xfer_buf.kind = "cbw"
    BY <1>4 DEF EpOf, DriveAt, Copied, Payload
  <2>2. UrbOf(t).size = CBWSize
    BY <1>4 DEF UrbOf, SizeOf
  <2> QED
    BY <1>3, <2>1, <2>2 DEF DriveAnswers
<1>5. CASE stage[t] = "data"
  BY <1>3, <1>5 DEF DriveAnswers, DriveAt, EpOf
<1>6. CASE stage[t] = "csw"
  BY <1>3, <1>6 DEF DriveAnswers, DriveAt, EpOf
<1> QED
  BY <1>4, <1>5, <1>6 DEF Talking

\* In the calm a time-out is a fault, and so is a post that fails.
LEMMA OnlyFaultsFail ==
  ASSUME TypeOK, Locks, Calm, NEW t \in Threads, Timeout(t) \/ PostFails(t)
  PROVE  ~clean'
<1>1. CASE Timeout(t)
  <2>1. sub[t] = "wait" /\ Talking(t)
    BY <1>1 DEF Timeout, Locks
  <2>2. CASE Only(t) /\ Answered(t)
    <3>1. ep[EpOf(t)].event
      BY <2>1, <2>2, Waiting DEF Answered
    <3> QED
      BY <1>1, <3>1 DEF Timeout, Fault
  <2>3. CASE Only(t) /\ Posted(t) /\ DriveAt(t, stage[t]) /\ Copied(t)
    <3>1. DriveAnswers(EpOf(t))
      BY <2>1, <2>3, Waiting, WouldAnswer
    <3> QED
      BY <1>1, <3>1 DEF Timeout, Fault
  <2> QED
    BY <2>1, <2>2, <2>3, Waiting
<1>2. CASE PostFails(t)
  <2>1. Talking(t) /\ sub[t] = "post" /\ EpOf(t) \in Eps
    BY <1>2 DEF PostFails, Locks, EpOf, Eps
  <2>2. ep[EpOf(t)].inflight = <<>>
    BY <2>1 DEF Calm, Step, Quiet, Clear
  <2>3. Len(ep[EpOf(t)].inflight) < MaxUrb
    BY <2>2 DEF MaxUrb
  <2> QED
    BY <1>2, <2>3 DEF PostFails, Fault
<1> QED
  BY <1>1, <1>2

\* The report that a thread takes in the calm is that of its own URB.
LEMMA OwnReport ==
  ASSUME TypeOK, Locks, Calm, NEW t \in Threads, TakeReport(t)
  PROVE  /\ Talking(t) /\ Fetched(t) /\ Filled(t) /\ DriveAt(t, NextStage(t))
         /\ StageDone(t, TRUE, SizeOf(t))
         /\ Quiet'
<1> DEFINE e == EpOf(t)
<1>1. sub[t] = "wait" /\ ep[e].event /\ ep' = [ep EXCEPT ![e] = Taken(ep[e])]
  BY DEF TakeReport
<1>2. ~Posted(t)
  BY <1>1, Waiting DEF Posted
<1>3. /\ Talking(t) /\ Fetched(t) /\ e \in Eps
      /\ Only(t) /\ Answered(t) /\ DriveAt(t, NextStage(t)) /\ Filled(t)
  BY <1>1, <1>2, Waiting
<1>4. PICK r \in Report : ep[e].reports = <<r>> /\ r.ok /\ r.moved = SizeOf(t)
  BY <1>3 DEF Answered
<1>5. ep[e].inflight = <<>>
  BY <1>3 DEF Answered
<1>6. Head(ep[e].reports) = r /\ Tail(ep[e].reports) = <<>>
  BY <1>4
<1>7. StageDone(t, TRUE, SizeOf(t))
  <2>1. StageDone(t, r.ok, r.moved)
    BY <1>6 DEF TakeReport
  <2>2. r.ok = TRUE
    BY <1>4 DEF Report
  <2> QED
    BY <2>1, <2>2, <1>4, Zenon
<1>8. Quiet'
  <2> HIDE DEF e
  <2>1. /\ ep'[e].inflight = <<>> /\ ep'[e].reports = <<>> /\ ~ep'[e].event
        /\ \A f \in Eps \ {e} : ep'[f] = ep[f]
    BY <1>1, <1>3, <1>5, <1>6 DEF Taken, TypeOK, EpType, Endpoint
  <2> QED
    BY <2>1, <1>3 DEF Quiet, Clear, Only, e
<1> QED
  BY <1>3, <1>7, <1>8

-----------------------------------------------------------------------------
(* The end of a transfer *)

\* The CBW or the data have been transferred.
LEMMA NextStageCalm ==
  ASSUME TypeOK, Locks, Calm, NEW t \in Threads, TakeReport(t), stage[t] \in {"cbw", "data"}
  PROVE  Calm'
<1>1. /\ Talking(t) /\ Filled(t) /\ DriveAt(t, NextStage(t)) /\ Quiet'
      /\ StageDone(t, TRUE, SizeOf(t))
  BY OwnReport
<1>2. /\ UNCHANGED <<cmd, outcome, nextTag, performed, dev, xfer_buf>>
      /\ sub' = [sub EXCEPT ![t] = "enter"]
      /\ stage' = [stage EXCEPT ![t] = NextStage(t)]
      /\ NextStage(t) \in {"data", "csw"}
  BY <1>1 DEF StageDone, NextStage, AfterCbw, devVars
<1>3. /\ sub'[t] = "enter" /\ stage'[t] = NextStage(t)
      /\ \A u \in Threads \ {t} : stage'[u] = stage[u]
  BY <1>2 DEF TypeOK, HostType
<1>4. DriveAt(t, stage[t])'
  BY <1>1, <1>2, <1>3 DEF DriveAt
<1>5. Fetched(t)'
  <2>1. CASE stage[t] = "cbw"
    BY <1>2, <1>3, <2>1 DEF Fetched, NextStage, AfterCbw
  <2>2. CASE stage[t] = "data" /\ cmd[t].dir = "in"
    <3>1. xfer_buf.kind = "data" /\ xfer_buf.tag = cmd[t].tag /\ SizeOf(t) = cmd[t].size
      BY <2>2, <1>1 DEF Filled, SizeOf
    <3>2. data'[t].moved = cmd[t].size /\ data'[t].from = cmd[t].tag
      BY <2>2, <3>1, <1>1 DEF StageDone, TypeOK, HostType
    <3> QED
      BY <3>2, <1>2 DEF Fetched
  <2>3. CASE stage[t] = "data" /\ cmd[t].dir # "in"
    BY <1>2, <2>3 DEF Fetched
  <2> QED
    BY <2>1, <2>2, <2>3
<1>6. Talking(t)'
  BY <1>2, <1>3 DEF Talking
<1>7. Step(t)'
  BY <1>1, <1>3, <1>4 DEF Step
<1> QED
  BY <1>1, <1>2, <1>3, <1>5, <1>6, <1>7, WithinCalm

\* The wire is quiet when a command leaves it.
LEMMA LeftQuiet ==
  ASSUME ~Overlap, NEW t \in Threads, Talking(t), ~Talking(t)', Quiet',
         dev'.phase = "idle", \A u \in Threads \ {t} : stage'[u] = stage[u]
  PROVE  /\ ~Overlap' /\ Silent'
         /\ \A u \in Threads : ~Talking(u)'
<1>1. \A u \in Threads : ~Talking(u)'
  BY AloneOnWire DEF Talking
<1> QED
  BY <1>1 DEF Overlap, Silent

\* A command returns what the drive said, and the whole of its own data.
LEMMA ReturnCalm ==
  ASSUME TypeOK, Calm, NEW t \in Threads, Talking(t), NEW ret \in Int, Return(t, ret),
         Quiet', dev.phase = "idle", UNCHANGED <<dev, performed>>,
         cmd[t].kind \in {"command", "pass"} /\ cmd[t].tag \in performed => ret >= 0,
         cmd[t].kind = "pass" /\ cmd[t].dir = "in" /\ ret >= 0 =>
           ret = cmd[t].size /\ data[t].from = cmd[t].tag
  PROVE  Calm'
<1> USE DEF Calm
<1>1. /\ stage'[t] = "idle"
      /\ outcome'[t].cmd = cmd[t] /\ outcome'[t].ret = ret
      /\ outcome'[t].from = data[t].from /\ UNCHANGED nextTag
      /\ \A u \in Threads \ {t} : /\ stage'[u] = stage[u] /\ outcome'[u] = outcome[u]
                                  /\ cmd'[u] = cmd[u]
  BY DEF Return, TypeOK, HostType
<1>2. ~Overlap' /\ Silent' /\ \A u \in Threads : ~Talking(u)'
  BY <1>1, LeftQuiet DEF Talking
<1>3. stage[t] # "idle" /\ cmd[t].tag \in 1 .. nextTag - 1 /\ nextTag \in Nat
  BY DEF Talking, OneTag, TypeOK, HostType
<1>4. OneTag'
  BY <1>1, <1>3 DEF OneTag
<1>5. Verdicts'
  BY <1>1 DEF Verdicts, Checked
<1>6. OwnCounts'
  BY <1>1 DEF OwnCounts
<1> QED
  BY <1>2, <1>4, <1>5, <1>6

\* A bare command waits for the mutex, to ask for the sense data.
LEMMA SenseCalm ==
  ASSUME TypeOK, Calm, NEW t \in Threads, Talking(t), Sense(t),
         Quiet', dev.phase = "idle", UNCHANGED <<dev, performed>>
  PROVE  Calm'
<1> USE DEF Calm
<1>1. /\ stage'[t] = "lock" /\ cmd'[t].tag = nextTag /\ nextTag' = nextTag + 1
      /\ UNCHANGED outcome
      /\ \A u \in Threads \ {t} : stage'[u] = stage[u] /\ cmd'[u] = cmd[u]
  BY DEF Sense, TypeOK, HostType
<1>2. ~Overlap' /\ Silent' /\ \A u \in Threads : ~Talking(u)'
  BY <1>1, LeftQuiet DEF Talking
<1>3. nextTag \in Nat \ {0} /\ \A u \in Threads : outcome[u].cmd.tag \in Nat
  BY DEF TypeOK, HostType, Outcome, Cmd, Tags
<1>4. OneTag'
  BY <1>1, <1>3 DEF OneTag
<1> QED
  BY <1>1, <1>2, <1>4, VerdictsKept

\* The CSW has been transferred: it is the command's, and says what happened.
LEMMA JudgedCalm ==
  ASSUME TypeOK, Locks, Calm, NEW t \in Threads, TakeReport(t), stage[t] = "csw"
  PROVE  Calm'
<1>1. /\ Talking(t) /\ Fetched(t) /\ DriveAt(t, NextStage(t)) /\ Quiet'
      /\ StageDone(t, TRUE, CSWSize) /\ NextStage(t) = "over"
  <2>1. NextStage(t) = "over" /\ SizeOf(t) = CSWSize
    BY DEF NextStage, SizeOf
  <2> QED
    BY <2>1, OwnReport, Zenon
<1>2. /\ dev.phase = "idle" /\ xfer_buf.kind = "csw" /\ xfer_buf.tag = cmd[t].tag
      /\ xfer_buf.good <=> cmd[t].tag \in performed
  BY <1>1 DEF DriveAt
<1>3. JudgeCsw(t, TRUE, CSWSize) /\ UNCHANGED <<dev, performed>>
  BY <1>1 DEF StageDone, devVars
<1>4. JudgeLocked(t, xfer_buf, TRUE) \/ JudgeBare(t, xfer_buf, TRUE) \/ JudgeSense(t)
  BY <1>3 DEF JudgeCsw
<1>5. Mine(t, xfer_buf)
  BY <1>2 DEF Mine
<1>6. data[t].moved \in Int
  BY DEF TypeOK, HostType, Data
<1>7. cmd[t].dir = "in" => data[t].moved = cmd[t].size /\ data[t].from = cmd[t].tag
  BY <1>1 DEF Fetched
<1>8. CASE JudgeLocked(t, xfer_buf, TRUE)
  <2>1. CASE xfer_buf.good
    <3>1. Return(t, IF cmd[t].kind = "pass" THEN data[t].moved ELSE 0)
      BY <1>8, <1>5, <2>1 DEF JudgeLocked
    <3>2. data[t].moved >= 0
      BY DEF TypeOK, HostType, Data
    <3>3. CASE cmd[t].kind = "pass"
      BY <3>1, <3>2, <3>3, <1>1, <1>2, <1>3, <1>6, <1>7, ReturnCalm
    <3>4. CASE cmd[t].kind # "pass"
      BY <3>1, <3>4, <1>1, <1>2, <1>3, ReturnCalm
    <3> QED
      BY <3>3, <3>4
  <2>2. CASE ~xfer_buf.good
    <3>1. Return(t, -1) /\ cmd[t].tag \notin performed
      BY <1>8, <1>5, <1>2, <2>2 DEF JudgeLocked
    <3> QED
      BY <3>1, <1>1, <1>2, <1>3, ReturnCalm
  <2> QED
    BY <2>1, <2>2
<1>9. CASE ~JudgeLocked(t, xfer_buf, TRUE)
  <2>1. cmd[t].kind \notin {"command", "pass"}
        /\ ((\E ret \in Int : Return(t, ret)) \/ Sense(t))
    <3>1. CASE JudgeBare(t, xfer_buf, TRUE)
      BY <3>1 DEF JudgeBare
    <3>2. CASE JudgeSense(t)
      BY <3>2 DEF JudgeSense
    <3> QED
      BY <3>1, <3>2, <1>4, <1>9
  <2> QED
    BY <2>1, <1>1, <1>2, <1>3, ReturnCalm, SenseCalm
<1> QED
  BY <1>8, <1>9

-----------------------------------------------------------------------------
(* The drive *)

\* In the calm a URB on the wire is that of a thread the drive is in step with.
LEMMA Poster ==
  ASSUME TypeOK, Locks, Calm, NEW e \in Eps, ep[e].inflight # <<>>
  PROVE  \E t \in Threads :
           /\ Talking(t) /\ sub[t] = "wait" /\ EpOf(t) = e /\ Only(t) /\ Posted(t)
           /\ DriveAt(t, stage[t]) /\ Copied(t) /\ Fetched(t)
           /\ HeadUrb(e) = UrbOf(t)
<1>1. PICK t \in Threads : Talking(t)
  BY DEF Calm, Silent, Quiet, Clear
<1>2. EpOf(t) \in Eps /\ Step(t) /\ Fetched(t)
  BY <1>1 DEF Calm, EpOf, Eps
<1>3. ~Quiet /\ ~(Only(t) /\ Answered(t))
  <2>1. ~Clear(e)
    BY DEF Clear
  <2>2. Only(t) => EpOf(t) = e
    BY <2>1 DEF Only
  <2> QED
    BY <2>1, <2>2 DEF Quiet, Answered
<1>4. sub[t] = "wait" /\ Only(t) /\ Posted(t) /\ DriveAt(t, stage[t]) /\ Copied(t)
  BY <1>2, <1>3 DEF Step
<1>5. EpOf(t) = e
  BY <1>4 DEF Only, Clear
<1>6. HeadUrb(e) = UrbOf(t)
  <2>1. ep[e].inflight = <<UrbOf(t)>>
    BY <1>4, <1>5 DEF Posted
  <2> QED
    BY <2>1 DEF HeadUrb
<1> QED
  BY <1>1, <1>2, <1>4, <1>5, <1>6

\* The drive completes the URB of thread t.
LEMMA CompletesIt ==
  ASSUME TypeOK, NEW t \in Threads, Only(t), Posted(t), EpOf(t) \in Eps, UNCHANGED hostVars,
         Complete(EpOf(t), TRUE, SizeOf(t)), SizeOf(t) \in Nat
  PROVE  Only(t)' /\ Answered(t)'
<1> DEFINE e == EpOf(t)
           r == [urb |-> HeadUrb(e), moved |-> SizeOf(t), ok |-> TRUE]
<1>1. /\ ep[e].inflight = <<UrbOf(t)>> /\ ep[e].reports = <<>>
      /\ EpType
  BY DEF Posted, TypeOK
<1>2. r \in Report
  <2>1. HeadUrb(e) \in Urb
    BY <1>1, EpParts, HeadTail DEF HeadUrb
  <2> QED
    BY <2>1 DEF Report
<1>3. r.ok /\ r.moved = SizeOf(t)
  OBVIOUS
<1>4. ep' = [ep EXCEPT ![e] = [inflight |-> Tail(ep[e].inflight),
                               reports  |-> Append(ep[e].reports, r),
                               event    |-> TRUE]]
  BY DEF Complete
<1> HIDE DEF r
<1>5. Tail(ep[e].inflight) = <<>> /\ Append(ep[e].reports, r) = <<r>>
  BY <1>1
<1>6. /\ ep'[e].inflight = <<>> /\ ep'[e].reports = <<r>> /\ ep'[e].event
      /\ \A f \in Eps \ {e} : ep'[f] = ep[f]
  BY <1>1, <1>4, <1>5 DEF EpType
<1>7. EpOf(t)' = e /\ SizeOf(t)' = SizeOf(t)
  BY SameTransfer DEF hostVars
<1> HIDE DEF e
<1>8. Answered(t)'
  BY <1>2, <1>3, <1>6, <1>7 DEF Answered
<1>9. Only(t)'
  BY <1>6, <1>7 DEF Only, Clear, e
<1> QED
  BY <1>8, <1>9

(* A step of the drive that completes the URB of thread t and moves to the *)
(* next stage of its command keeps the calm.                               *)
LEMMA AnsweredCalm ==
  ASSUME TypeOK, Calm, NEW t \in Threads, Talking(t), sub[t] = "wait", Fetched(t),
         Only(t), Posted(t), EpOf(t) \in Eps, UNCHANGED hostVars, SizeOf(t) \in Nat,
         Complete(EpOf(t), TRUE, SizeOf(t)),
         DriveAt(t, NextStage(t))', Filled(t)',
         performed' \in {performed, performed \union {cmd[t].tag}}
  PROVE  Calm'
<1> USE DEF Calm
<1>1. Only(t)' /\ Answered(t)'
  BY CompletesIt
<1>2. \A u \in Threads : Talking(u)' <=> Talking(u)
  BY SameTransfer DEF hostVars
<1>3. ~Overlap' /\ \A u \in Threads \ {t} : ~Talking(u)'
  BY <1>2, AloneOnWire DEF Overlap
<1>4. OneTag'
  BY TagsPerformed
<1>5. Verdicts' /\ OwnCounts'
  <2>1. \A u \in Threads : outcome[u].cmd.tag # cmd[t].tag
    BY DEF OneTag, Talking
  <2> QED
    BY <2>1 DEF Verdicts, OwnCounts, Checked, hostVars
<1>6. Fetched(t)' /\ Step(t)'
  BY <1>1 DEF Fetched, Step, hostVars
<1> QED
  BY <1>2, <1>3, <1>4, <1>5, <1>6

\* The drive that takes the CBW is at the command's next stage.
LEMMA TakeCbwCalm ==
  ASSUME TypeOK, Locks, Calm, DevTakeCbw, clean'
  PROVE  Calm'
<1>1. "out" \in Eps /\ ep["out"].inflight # <<>> /\ dev.phase = "idle"
  BY DEF DevTakeCbw, Eps
<1>2. PICK t \in Threads :
        /\ Talking(t) /\ sub[t] = "wait" /\ EpOf(t) = "out" /\ Only(t) /\ Posted(t)
        /\ DriveAt(t, stage[t]) /\ Copied(t) /\ Fetched(t)
        /\ HeadUrb("out") = UrbOf(t)
  BY <1>1, Poster
<1>3. stage[t] = "cbw" /\ cmd[t].tag \notin performed /\ SizeOf(t) = CBWSize
  BY <1>1, <1>2 DEF DriveAt, Talking, SizeOf
<1>4. /\ xfer_buf.tag = cmd[t].tag /\ xfer_buf.dir = cmd[t].dir
      /\ xfer_buf.size = cmd[t].size
  BY <1>2 DEF Copied, Payload
<1>5. /\ UNCHANGED <<stage, cmd, xfer_buf>> /\ UNCHANGED hostVars
      /\ Complete("out", TRUE, SizeOf(t))
  <2>1. UNCHANGED hostVars /\ UNCHANGED xfer_buf /\ Complete("out", TRUE, CBWSize)
    BY DEF DevTakeCbw
  <2> QED
    BY <2>1, <1>3, Zenon DEF hostVars
<1>6. /\ DriveAt(t, NextStage(t))'
      /\ performed' \in {performed, performed \union {cmd[t].tag}}
  <2>1. NextStage(t)' = AfterCbw(t)
    BY <1>3, <1>5, SameTransfer DEF NextStage
  <2>2. CASE xfer_buf.dir # "none" /\ UNCHANGED performed
             /\ dev' = [phase |-> IF xfer_buf.dir = "in" THEN "dataIn" ELSE "dataOut",
                        tag |-> xfer_buf.tag, left |-> xfer_buf.size, good |-> FALSE]
    BY <2>1, <2>2, <1>3, <1>4, <1>5 DEF DriveAt, AfterCbw
  <2>3. CASE xfer_buf.dir = "none" /\ \E good \in BOOLEAN : ToStatus(xfer_buf.tag, good)
    <3>1. PICK good \in BOOLEAN : ToStatus(xfer_buf.tag, good)
      BY <2>3
    <3>2. /\ dev'.phase = "status" /\ dev'.tag = cmd[t].tag
          /\ (dev'.good <=> cmd[t].tag \in performed')
          /\ performed' \in {performed, performed \union {cmd[t].tag}}
      BY <3>1, <1>3, <1>4 DEF ToStatus
    <3>3. AfterCbw(t) = "csw"
      BY <2>3, <1>4 DEF AfterCbw
    <3> QED
      BY <3>2, <3>3, <2>1, <1>5 DEF DriveAt
  <2>4. ~Fault
    BY DEF Fault
  <2> QED
    BY <2>2, <2>3, <2>4 DEF DevTakeCbw
<1>7. Filled(t)'
  BY <1>3, <1>5 DEF Filled
<1>10. SizeOf(t) \in Nat
  BY <1>3 DEF CBWSize
<1> QED
  BY <1>1, <1>2, <1>3, <1>5, <1>6, <1>7, <1>10, AnsweredCalm

\* The drive has the data, and decides on the command's status.
LEMMA DataToStatus ==
  ASSUME Calm, NEW t \in Threads, stage[t] = "data", DriveAt(t, "data"),
         UNCHANGED <<stage, cmd>>, NEW good \in BOOLEAN, ToStatus(dev.tag, good)
  PROVE  /\ DriveAt(t, NextStage(t))'
         /\ performed' \in {performed, performed \union {cmd[t].tag}}
<1>1. dev.tag = cmd[t].tag /\ cmd[t].tag \notin performed
  BY DEF DriveAt
<1>2. NextStage(t)' = "csw"
  BY DEF NextStage
<1>3. /\ dev'.phase = "status" /\ dev'.tag = cmd[t].tag
      /\ (dev'.good <=> cmd[t].tag \in performed')
      /\ performed' \in {performed, performed \union {cmd[t].tag}}
  BY <1>1 DEF ToStatus
<1> QED
  BY <1>2, <1>3 DEF DriveAt

\* The drive that takes the data is at the status, as the host will be.
LEMMA TakeDataCalm ==
  ASSUME TypeOK, Locks, Calm, DevTakeData
  PROVE  Calm'
<1>1. "out" \in Eps /\ ep["out"].inflight # <<>> /\ dev.phase = "dataOut"
  BY DEF DevTakeData, Eps
<1>2. PICK t \in Threads :
        /\ Talking(t) /\ sub[t] = "wait" /\ EpOf(t) = "out" /\ Only(t) /\ Posted(t)
        /\ DriveAt(t, stage[t]) /\ Copied(t) /\ Fetched(t)
        /\ HeadUrb("out") = UrbOf(t)
  BY <1>1, Poster
<1>3. stage[t] = "data" /\ cmd[t].dir # "in" /\ SizeOf(t) = cmd[t].size
  BY <1>1, <1>2 DEF DriveAt, Talking, EpOf, SizeOf
<1>4. UNCHANGED hostVars /\ UNCHANGED <<stage, cmd>>
      /\ \E good \in BOOLEAN : ToStatus(dev.tag, good)
  BY DEF DevTakeData, hostVars
<1>5. Complete("out", TRUE, SizeOf(t))
  <2>1. UrbOf(t).size = SizeOf(t)
    BY DEF UrbOf
  <2> QED
    BY <2>1, <1>2, Zenon DEF DevTakeData
<1>6. /\ DriveAt(t, NextStage(t))'
      /\ performed' \in {performed, performed \union {cmd[t].tag}}
  BY <1>2, <1>3, <1>4, DataToStatus
<1>7. Filled(t)'
  BY <1>3, <1>4 DEF Filled
<1>8. SizeOf(t) \in Nat
  BY <1>3 DEF TypeOK, HostType, Cmd
<1> QED
  BY <1>1, <1>2, <1>3, <1>4, <1>5, <1>6, <1>7, <1>8, AnsweredCalm

\* The drive sends all the data of the command that asked for it.
LEMMA SendDataCalm ==
  ASSUME TypeOK, Locks, Calm, DevSendData
  PROVE  Calm'
<1>1. "in" \in Eps /\ ep["in"].inflight # <<>> /\ dev.phase = "dataIn"
  BY DEF DevSendData, Eps
<1>2. PICK t \in Threads :
        /\ Talking(t) /\ sub[t] = "wait" /\ EpOf(t) = "in" /\ Only(t) /\ Posted(t)
        /\ DriveAt(t, stage[t]) /\ Copied(t) /\ Fetched(t)
        /\ HeadUrb("in") = UrbOf(t)
  BY <1>1, Poster
<1>3. stage[t] = "data" /\ SizeOf(t) = cmd[t].size /\ dev.tag = cmd[t].tag
      /\ dev.left = cmd[t].size
  BY <1>1, <1>2 DEF DriveAt, Talking, EpOf, SizeOf
<1>4. HeadUrb("in").size = cmd[t].size /\ cmd[t].size \in Nat
  BY <1>2, <1>3 DEF UrbOf, TypeOK, HostType, Cmd
<1>5. ~(HeadUrb("in").size < dev.left)
  BY <1>3, <1>4
<1>6. UNCHANGED hostVars /\ UNCHANGED <<stage, cmd>>
      /\ \E good \in BOOLEAN : ToStatus(dev.tag, good)
  BY <1>5 DEF DevSendData, hostVars
<1>7. Complete("in", TRUE, SizeOf(t))
  <2>1. Complete("in", TRUE, dev.left)
    BY <1>5, Zenon DEF DevSendData
  <2> QED
    BY <2>1, <1>3, Zenon
<1>8. /\ DriveAt(t, NextStage(t))'
      /\ performed' \in {performed, performed \union {cmd[t].tag}}
  BY <1>2, <1>3, <1>6, DataToStatus
<1>9. Filled(t)'
  <2>1. xfer_buf'.kind = "data" /\ xfer_buf'.tag = dev.tag
    BY DEF DevSendData
  <2> QED
    BY <2>1, <1>3, <1>6 DEF Filled
<1>10. SizeOf(t) \in Nat
  BY <1>3, <1>4
<1> QED
  BY <1>1, <1>2, <1>3, <1>6, <1>7, <1>8, <1>9, <1>10, AnsweredCalm

\* The drive sends the CSW of the command that asked for it, and is idle.
LEMMA SendStatusCalm ==
  ASSUME TypeOK, Locks, Calm, DevSendStatus
  PROVE  Calm'
<1>1. "in" \in Eps /\ ep["in"].inflight # <<>> /\ dev.phase = "status"
  BY DEF DevSendStatus, Eps
<1>2. PICK t \in Threads :
        /\ Talking(t) /\ sub[t] = "wait" /\ EpOf(t) = "in" /\ Only(t) /\ Posted(t)
        /\ DriveAt(t, stage[t]) /\ Copied(t) /\ Fetched(t)
        /\ HeadUrb("in") = UrbOf(t)
  BY <1>1, Poster
<1>3. /\ stage[t] = "csw" /\ SizeOf(t) = CSWSize /\ dev.tag = cmd[t].tag
      /\ dev.good <=> cmd[t].tag \in performed
  BY <1>1, <1>2 DEF DriveAt, Talking, SizeOf
<1>4. HeadUrb("in").size >= CSWSize
  BY <1>2, <1>3 DEF UrbOf, CSWSize
<1>5. UNCHANGED hostVars /\ UNCHANGED <<stage, cmd, performed>>
  BY DEF DevSendStatus, hostVars
<1>6. /\ dev'.phase = "idle"
      /\ xfer_buf' = [kind |-> "csw", tag |-> dev.tag, dir |-> "none", size |-> 0,
                   good |-> dev.good]
  BY <1>4 DEF DevSendStatus, TypeOK, DevType, Drive
<1>7. Complete("in", TRUE, SizeOf(t))
  <2>1. Complete("in", TRUE, CSWSize)
    BY <1>4, Zenon DEF DevSendStatus
  <2> QED
    BY <2>1, <1>3, Zenon
<1>8. DriveAt(t, NextStage(t))'
  <2>1. NextStage(t)' = "over"
    BY <1>3, <1>5 DEF NextStage
  <2>2. xfer_buf'.kind = "csw" /\ xfer_buf'.tag = cmd[t].tag
        /\ (xfer_buf'.good <=> dev.good)
    BY <1>3, <1>6
  <2> QED
    BY <2>1, <2>2, <1>3, <1>5, <1>6 DEF DriveAt
<1>9. Filled(t)'
  BY <1>3, <1>5 DEF Filled
<1>10. SizeOf(t) \in Nat
  BY <1>3 DEF CSWSize
<1> QED
  BY <1>1, <1>2, <1>3, <1>5, <1>7, <1>8, <1>9, <1>10, AnsweredCalm

\* The drive does not stall in the calm.
LEMMA NeverStalls ==
  ASSUME TypeOK, Locks, Calm, NEW e \in Eps
  PROVE  /\ DevStall(e) => ~clean'
         /\ ~DevStalled(e)
<1>1. ASSUME ep[e].inflight # <<>>
      PROVE  dev.phase # "stalled"
  BY <1>1, Poster DEF DriveAt
<1> QED
  BY <1>1 DEF DevStall, DevStalled, Fault

-----------------------------------------------------------------------------

\* Nothing is on the wire at first.
LEMMA CalmInit == Init => Calm
<1> SUFFICES ASSUME Init PROVE Calm
  OBVIOUS
<1>1. OneTag
  BY DEF Init, OneTag, NoOutcome, NoCmd, NoTag
<1>2. \A t \in Threads : ~Talking(t)
  BY ZenonT(40) DEF Init, Talking
<1>3. ~Overlap
  BY <1>2 DEF Overlap
<1>4. Silent
  BY DEF Init, Silent, Quiet, Clear
<1>5. Verdicts /\ OwnCounts
  BY DEF Init, Verdicts, OwnCounts, NoOutcome, NoCmd
<1> QED
  BY <1>1, <1>2, <1>3, <1>4, <1>5 DEF Calm

(* Every step that is no fault and brings about no overlap keeps thread    *)
(* and drive in step.                                                      *)
LEMMA CalmStep ==
  ASSUME TypeOK, Locks, CleanCalm, [Next]_vars
  PROVE  CleanCalm'
<1> SUFFICES ASSUME clean'
             PROVE  Calm'
  BY DEF CleanCalm
<1>1. Calm
  BY CleanBefore DEF CleanCalm
<1>2. ASSUME NEW t \in Threads, HostStep(t)
      PROVE  Calm'
  <2>1. CASE TakeReport(t)
    <3>1. Talking(t)
      BY <1>1, <2>1, OwnReport
    <3> QED
      BY <1>1, <2>1, <3>1, NextStageCalm, JudgedCalm DEF Talking
  <2>2. ~Refuse(t)
    BY RefuseIs
  <2> QED
    BY <1>1, <1>2, <2>1, <2>2, StartCalm, LockCalm, EnterCalm, PostCalm, OnlyFaultsFail
    DEF HostStep
<1>3. CASE DevStep
  BY <1>1, <1>3, TakeCbwCalm, TakeDataCalm, SendDataCalm, SendStatusCalm, NeverStalls
  DEF DevStep
<1>4. CASE UNCHANGED vars
  <2>1. UNCHANGED <<stage, sub, cmd, data, outcome, nextTag, ep, dev, performed, xfer_buf>>
    BY <1>4 DEF vars, hostVars, devVars
  <2>2. OneTag'
    BY <1>1, <2>1, TagsKept DEF Calm
  <2>3. (Silent => Silent') /\ (~Overlap => ~Overlap')
    BY <2>1 DEF Silent, Quiet, Clear, Overlap, Talking
  <2> QED
    BY <1>1, <2>1, <2>2, <2>3, StepKept, SameTransfer, VerdictsKept DEF Calm
<1> QED
  BY <1>2, <1>3, <1>4 DEF Next, Done

\* Without faults and overlaps, threads and drive stay in the calm.
THEOREM StaysCalm == Spec => []CleanCalm
<1>1. Init => CleanCalm
  BY CalmInit DEF CleanCalm
<1>2. TypeOK /\ Locks /\ CleanCalm /\ [Next]_vars => CleanCalm'
  BY CalmStep
<1> QED
  BY <1>1, <1>2, Typed, PTL DEF Spec

\* A clear endpoint is its initial record.
LEMMA ClearIs ==
  ASSUME EpType, NEW e \in Eps, Clear(e)
  PROVE  ep[e] = [inflight |-> <<>>, reports |-> <<>>, event |-> FALSE]
<1>1. ep[e] \in Endpoint
  BY DEF EpType
<1>2. ep[e].event = FALSE
  BY <1>1 DEF Endpoint, Clear
<1> QED
  BY <1>1, <1>2 DEF Endpoint, Clear

(* Host and drive are at the same stage of the same command whenever a     *)
(* transfer begins, and the endpoints are empty, for any number of threads *)
(* and commands, as long as there is no fault and no overlap.              *)
THEOREM KeepsStep == Spec => []InStep
<1>1. TypeOK /\ Locks /\ CleanCalm => InStep
  <2> SUFFICES ASSUME TypeOK, CleanCalm, clean, NEW t \in Threads, Talking(t), sub[t] = "enter"
               PROVE  /\ \A e \in Eps :
                           ep[e] = [inflight |-> <<>>, reports |-> <<>>, event |-> FALSE]
                      /\ stage[t] = "cbw" <=> dev.phase = "idle"
                      /\ stage[t] = "data" <=> dev.phase \in {"dataIn", "dataOut"}
                      /\ stage[t] # "cbw" => dev.tag = cmd[t].tag
    BY DEF InStep
  <2>1. Quiet /\ DriveAt(t, stage[t])
    BY DEF CleanCalm, Calm, Step
  <2>2. \A e \in Eps : ep[e] = [inflight |-> <<>>, reports |-> <<>>, event |-> FALSE]
    BY <2>1, ClearIs DEF Quiet, TypeOK
  <2> QED
    BY <2>1, <2>2 DEF DriveAt, Talking
<1> QED
  BY <1>1, Typed, StaysCalm, PTL

\* Without faults and overlaps a locked command fails only if the drive said so.
THEOREM VerdictOfDrive == Spec => []CleanVerdict
<1>1. CleanCalm => CleanVerdict
  BY DEF CleanCalm, Calm, Verdicts, CleanVerdict
<1> QED
  BY <1>1, StaysCalm, PTL

(* Without faults and overlaps the count a command returns is that of all  *)
(* its own data.                                                           *)
THEOREM OwnDataCounted == Spec => []OwnData
<1>1. CleanCalm => OwnData
  BY DEF CleanCalm, Calm, OwnCounts, OwnData
<1> QED
  BY <1>1, StaysCalm, PTL

-----------------------------------------------------------------------------
(* No CBW is taken twice *)

\* Thread t's CBW has not been copied to the buffer.
Unsent(t) == stage[t] = "lock" \/ (stage[t] = "cbw" /\ sub[t] = "enter")

(* A CBW in the buffer that the drive has taken is the one it is at work   *)
(* on: it is idle again only after a CSW, which overwrites the buffer or   *)
(* is lost, and from then on the buffer holds CBWs that were not in it     *)
(* before.                                                                 *)
OnceOnly ==
  /\ xfer_buf.tag < nextTag /\ dev.tag < nextTag
  /\ \A tag \in accepted : tag < nextTag
  /\ \A t \in Threads : Unsent(t) =>
       /\ cmd[t].tag < nextTag
       /\ cmd[t].tag \notin accepted
       /\ xfer_buf.kind = "cbw" => xfer_buf.tag # cmd[t].tag
  /\ \A t, u \in Threads : t # u /\ Unsent(t) /\ Unsent(u) => cmd[t].tag # cmd[u].tag
  /\ xfer_buf.kind = "cbw" /\ xfer_buf.tag \in accepted \ lost =>
       dev.phase # "idle" /\ xfer_buf.tag = dev.tag
  /\ \A t \in Threads : stage[t] # "idle" => cmd[t].tag < nextTag

\* At first nothing was sent, and no thread has a command.
LEMMA OnceInit == Init => OnceOnly
<1> SUFFICES ASSUME Init PROVE OnceOnly
  OBVIOUS
<1>1. xfer_buf.tag = 0 /\ xfer_buf.kind = "zero"
  BY DEF Init, Zero, NoTag
<1>2. dev.tag = 0 /\ nextTag = 1 /\ accepted = {}
  BY DEF Init, NoTag
<1>3. \A t \in Threads : stage[t] = "idle" /\ ~Unsent(t)
  BY ZenonT(40) DEF Init, Unsent
<1> QED
  BY <1>1, <1>2, <1>3 DEF OnceOnly

\* A step that leaves buffer and drive alone, and sends nothing.
LEMMA OnceKept ==
  ASSUME OnceOnly, UNCHANGED <<xfer_buf, accepted, lost, dev>>,
         nextTag \in Nat, nextTag' \in {nextTag, nextTag + 1}, NEW t \in Threads,
         xfer_buf.tag \in Nat, dev.tag \in Nat, accepted \subseteq Nat,
         \A u \in Threads : cmd[u].tag \in Nat,
         \A u \in Threads \ {t} : /\ stage'[u] = stage[u] /\ sub'[u] = sub[u]
                                  /\ cmd'[u] = cmd[u],
         \/ cmd'[t].tag = nextTag /\ nextTag' = nextTag + 1
         \/ /\ stage'[t] = "idle" \/ (stage[t] # "idle" /\ cmd'[t] = cmd[t])
            /\ Unsent(t)' => Unsent(t)
  PROVE  OnceOnly'
<1>1. \A u \in Threads \ {t} : Unsent(u)' <=> Unsent(u)
  BY DEF Unsent
<1>2. /\ xfer_buf'.tag < nextTag' /\ dev'.tag < nextTag'
      /\ \A tag \in accepted' : tag < nextTag'
      /\ xfer_buf'.kind = "cbw" /\ xfer_buf'.tag \in accepted' \ lost' =>
           dev'.phase # "idle" /\ xfer_buf'.tag = dev'.tag
  BY DEF OnceOnly
<1>3. \A u \in Threads \ {t} :
        /\ stage'[u] # "idle" => cmd'[u].tag < nextTag /\ cmd'[u].tag < nextTag'
        /\ Unsent(u)' => /\ cmd'[u].tag < nextTag /\ cmd'[u].tag < nextTag'
                         /\ cmd'[u].tag \notin accepted'
                         /\ xfer_buf'.kind = "cbw" => xfer_buf'.tag # cmd'[u].tag
  BY <1>1 DEF OnceOnly
<1>4. /\ stage'[t] # "idle" => cmd'[t].tag < nextTag'
      /\ Unsent(t)' => /\ cmd'[t].tag < nextTag' /\ cmd'[t].tag \notin accepted'
                       /\ xfer_buf'.kind = "cbw" => xfer_buf'.tag # cmd'[t].tag
  <2>1. CASE cmd'[t].tag = nextTag /\ nextTag' = nextTag + 1
    BY <2>1 DEF OnceOnly
  <2>2. CASE /\ stage'[t] = "idle" \/ (stage[t] # "idle" /\ cmd'[t] = cmd[t])
             /\ Unsent(t)' => Unsent(t)
    <3>1. Unsent(t)' => stage'[t] # "idle"
      BY DEF Unsent
    <3>2. stage'[t] # "idle" => cmd'[t].tag < nextTag /\ cmd'[t].tag < nextTag'
      BY <2>2 DEF OnceOnly
    <3> QED
      BY <2>2, <3>1, <3>2 DEF OnceOnly
  <2> QED
    BY <2>1, <2>2
<1>5. \A u \in Threads \ {t} : Unsent(t)' /\ Unsent(u)' => cmd'[t].tag # cmd'[u].tag
  <2> SUFFICES ASSUME NEW u \in Threads \ {t}, Unsent(t)', Unsent(u)'
               PROVE  cmd'[t].tag # cmd'[u].tag
    OBVIOUS
  <2>1. CASE cmd'[t].tag = nextTag /\ nextTag' = nextTag + 1
    BY <1>3, <2>1
  <2>2. CASE /\ stage'[t] = "idle" \/ (stage[t] # "idle" /\ cmd'[t] = cmd[t])
             /\ Unsent(t)' => Unsent(t)
    <3>1. cmd'[t] = cmd[t] /\ cmd'[u] = cmd[u] /\ Unsent(t) /\ Unsent(u) /\ t # u
      BY <1>1, <2>2 DEF Unsent
    <3> QED
      BY <3>1 DEF OnceOnly
  <2> QED
    BY <2>1, <2>2
<1>6. \A u, w \in Threads \ {t} :
        u # w /\ Unsent(u)' /\ Unsent(w)' => cmd'[u].tag # cmd'[w].tag
  BY <1>1 DEF OnceOnly
<1> QED
  BY <1>2, <1>3, <1>4, <1>5, <1>6 DEF OnceOnly

\* The end of a transfer sends nothing; a new command has a new tag.
LEMMA StageDoneOnce ==
  ASSUME TypeOK, OnceOnly, NEW t \in Threads, Talking(t), sub[t] # "enter", NEW ok, NEW moved,
         StageDone(t, ok, moved)
  PROVE  OnceOnly'
<1>1. /\ UNCHANGED <<xfer_buf, accepted, lost, dev>> /\ sub' = [sub EXCEPT ![t] = "enter"]
      /\ nextTag \in Nat /\ xfer_buf.tag \in Nat /\ dev.tag \in Nat /\ accepted \subseteq Nat
      /\ \A u \in Threads : cmd[u].tag \in Nat
  BY DEF StageDone, devVars, TypeOK, HostType, DevType, Tags, Message, Drive, Cmd
<1>2. CASE stage[t] \in {"cbw", "data"}
  <2>1. /\ UNCHANGED <<cmd, nextTag>> /\ stage'[t] \in {"data", "csw"}
        /\ \A u \in Threads \ {t} : stage'[u] = stage[u] /\ sub'[u] = sub[u]
    BY <1>1, <1>2 DEF StageDone, AfterCbw, TypeOK, HostType
  <2> QED
    BY <1>1, <1>2, <2>1, OnceKept DEF Unsent
<1>3. CASE stage[t] = "csw"
  <2>1. JudgeCsw(t, ok, moved)
    BY <1>3 DEF StageDone
  <2>2. (\E ret : Return(t, ret)) \/ Sense(t)
    BY <2>1 DEF JudgeCsw, JudgeLocked, JudgeBare, JudgeSense
  <2>3. CASE \E ret : Return(t, ret)
    <3>1. /\ stage'[t] = "idle" /\ UNCHANGED nextTag
          /\ \A u \in Threads \ {t} : /\ stage'[u] = stage[u] /\ sub'[u] = sub[u]
                                      /\ cmd'[u] = cmd[u]
      BY <1>1, <2>3 DEF Return, TypeOK, HostType
    <3> QED
      BY <1>1, <3>1, OnceKept DEF Unsent
  <2>4. CASE Sense(t)
    <3>1. /\ cmd'[t].tag = nextTag /\ nextTag' = nextTag + 1
          /\ \A u \in Threads \ {t} : /\ stage'[u] = stage[u] /\ sub'[u] = sub[u]
                                      /\ cmd'[u] = cmd[u]
      BY <1>1, <2>4 DEF Sense, TypeOK, HostType
    <3> QED
      BY <1>1, <3>1, OnceKept
  <2> QED
    BY <2>2, <2>3, <2>4
<1> QED
  BY <1>2, <1>3 DEF Talking

\* The threads' steps copy a CBW to the buffer once.
LEMMA HostOnce ==
  ASSUME TypeOK, Locks, OnceOnly, NEW t \in Threads, HostStep(t)
  PROVE  OnceOnly'
<1>0. /\ nextTag \in Nat /\ xfer_buf.tag \in Nat /\ dev.tag \in Nat /\ accepted \subseteq Nat
      /\ \A u \in Threads : cmd[u].tag \in Nat
  BY DEF TypeOK, HostType, DevType, Tags, Message, Drive, Cmd
<1>1. CASE Start(t)
  <2>1. PICK c \in Cmd : c.tag = nextTag /\ cmd' = [cmd EXCEPT ![t] = c]
    BY <1>1, StartCmd
  <2>2. /\ cmd'[t].tag = nextTag /\ nextTag' = nextTag + 1
        /\ UNCHANGED <<xfer_buf, accepted, lost, dev>>
        /\ \A u \in Threads \ {t} : /\ stage'[u] = stage[u] /\ sub'[u] = sub[u]
                                    /\ cmd'[u] = cmd[u]
    BY <1>1, <2>1 DEF Start, TypeOK, HostType, devVars
  <2> QED
    BY <1>0, <2>2, OnceKept
<1>2. CASE LockScsi(t)
  <2>1. /\ stage[t] = "lock" /\ UNCHANGED <<cmd, nextTag, xfer_buf, accepted, lost, dev>>
        /\ \A u \in Threads \ {t} : stage'[u] = stage[u] /\ sub'[u] = sub[u]
    BY <1>2 DEF LockScsi, TypeOK, HostType, devVars
  <2> QED
    BY <1>0, <2>1, OnceKept DEF Unsent
<1>3. CASE EnterTransfer(t)
  <2>1. /\ Talking(t) /\ sub[t] = "enter" /\ sub'[t] = "post"
        /\ UNCHANGED <<stage, cmd, nextTag, accepted, lost, dev>>
        /\ xfer_buf' = IF EpOf(t) = "out" THEN Payload(t) ELSE xfer_buf
        /\ \A u \in Threads \ {t} : sub'[u] = sub[u]
    BY <1>3 DEF EnterTransfer, TypeOK, HostType, devVars
  <2>2. /\ ~Unsent(t)' /\ cmd[t].tag < nextTag
        /\ \A u \in Threads \ {t} : Unsent(u)' <=> Unsent(u)
    BY <2>1 DEF Unsent, OnceOnly, Talking
  <2>3. CASE stage[t] = "cbw"
    <3>1. Unsent(t) /\ xfer_buf'.kind = "cbw" /\ xfer_buf'.tag = cmd[t].tag
      BY <2>1, <2>3 DEF Unsent, EpOf, Payload
    <3> QED
      BY <2>1, <2>2, <3>1 DEF OnceOnly
  <2>4. CASE stage[t] # "cbw" /\ EpOf(t) = "out"
    <3>1. xfer_buf'.kind = "data" /\ xfer_buf'.tag = cmd[t].tag
      BY <2>1, <2>4 DEF Payload
    <3> QED
      BY <2>1, <2>2, <3>1 DEF OnceOnly
  <2>5. CASE EpOf(t) # "out"
    BY <2>1, <2>2, <2>5 DEF OnceOnly
  <2> QED
    BY <2>3, <2>4, <2>5
<1>4. CASE Post(t)
  <2>1. /\ Talking(t) /\ sub[t] = "post" /\ sub'[t] = "wait"
        /\ UNCHANGED <<stage, cmd, nextTag, xfer_buf, accepted, lost, dev>>
        /\ \A u \in Threads \ {t} : sub'[u] = sub[u]
    BY <1>4 DEF Post, TypeOK, HostType, devVars, Locks
  <2> QED
    BY <1>0, <2>1, OnceKept DEF Unsent, Talking
<1>5. CASE TakeReport(t)
  BY <1>5, StageDoneOnce DEF TakeReport, Locks
<1>6. CASE Timeout(t)
  BY <1>6, StageDoneOnce DEF Timeout, Locks
<1>7. CASE PostFails(t)
  BY <1>7, StageDoneOnce DEF PostFails, Locks
<1>8. CASE Refuse(t)
  <2>1. /\ UNCHANGED <<cmd, nextTag, xfer_buf, accepted, lost, dev>>
        /\ stage[t] = "data" /\ stage' = [stage EXCEPT ![t] = "csw"]
        /\ \A u \in Threads : sub'[u] = sub[u]
    BY <1>8, RefuseIs
  <2>2. /\ stage'[t] = "csw"
        /\ \A u \in Threads \ {t} : stage'[u] = stage[u]
    BY <2>1 DEF TypeOK, HostType
  <2> QED
    BY <1>0, <2>1, <2>2, OnceKept DEF Unsent
<1> QED
  BY <1>1, <1>2, <1>3, <1>4, <1>5, <1>6, <1>7, <1>8 DEF HostStep

\* The drive's steps; hostVars hold the stages, the commands and the tags.
LEMMA DevOnce ==
  ASSUME TypeOK, OnceOnly, DevStep
  PROVE  OnceOnly'
<1>0. dev \in Drive
  BY DEF TypeOK, DevType
<1>1. UNCHANGED <<stage, sub, cmd, nextTag>> /\ \A t \in Threads : Unsent(t)' <=> Unsent(t)
  BY DEF DevStep, DevTakeCbw, DevTakeData, DevSendData, DevSendStatus, DevStall,
         DevStalled, hostVars, Unsent
<1>4. CASE DevTakeCbw
  <2>1. /\ accepted' = accepted \union {xfer_buf.tag} /\ UNCHANGED <<xfer_buf, lost>>
        /\ xfer_buf.kind = "cbw" /\ dev'.phase # "idle" /\ dev'.tag = xfer_buf.tag
    BY <1>4 DEF DevTakeCbw, ToStatus
  <2> QED
    BY <1>1, <2>1 DEF OnceOnly
<1>5. CASE DevTakeData \/ DevStall("in") \/ DevStall("out") \/ DevStalled("in") \/ DevStalled("out")
  <2>1. UNCHANGED <<accepted, lost, xfer_buf>>
    BY <1>5 DEF DevTakeData, DevStall, DevStalled, devVars
  <2>2. dev'.tag = dev.tag /\ (dev'.phase = "idle" => dev.phase = "idle")
    <3>1. ASSUME NEW good \in BOOLEAN, ToStatus(dev.tag, good)
          PROVE  dev'.tag = dev.tag /\ dev'.phase # "idle"
      BY <3>1 DEF ToStatus
    <3>2. ASSUME NEW phase \in {dev.phase, "stalled"}, dev' = [dev EXCEPT !.phase = phase]
          PROVE  dev'.tag = dev.tag /\ dev'.phase = phase
      BY <1>0, <3>2 DEF Drive
    <3>3. CASE DevTakeData
      BY <3>1, <3>3 DEF DevTakeData
    <3>4. CASE \E e \in Eps : DevStall(e)
      BY <3>1, <3>2, <3>4 DEF DevStall
    <3>5. CASE \E e \in Eps : DevStalled(e)
      BY <3>5 DEF DevStalled, devVars
    <3> QED
      BY <1>5, <3>3, <3>4, <3>5 DEF Eps
  <2> QED
    BY <1>1, <2>1, <2>2 DEF OnceOnly
<1>6. CASE DevSendData
  <2>1. UNCHANGED <<accepted, lost>> /\ xfer_buf'.kind = "data" /\ xfer_buf'.tag = dev.tag
    BY <1>6 DEF DevSendData
  <2>2. dev'.tag = dev.tag
    <3>1. (\E n : dev' = [dev EXCEPT !.left = n]) \/ \E good \in BOOLEAN : ToStatus(dev.tag, good)
      BY <1>6 DEF DevSendData
    <3> QED
      BY <1>0, <3>1 DEF ToStatus, Drive
  <2> QED
    BY <1>1, <2>1, <2>2 DEF OnceOnly
<1>7. CASE DevSendStatus
  <2>1. UNCHANGED accepted /\ dev'.tag = dev.tag
    BY <1>0, <1>7 DEF DevSendStatus, Drive
  <2>2. CASE HeadUrb("in").size >= CSWSize
    <3>1. UNCHANGED lost /\ xfer_buf'.kind = "csw" /\ xfer_buf'.tag = dev.tag
      <4> DEFINE csw == [kind |-> "csw", tag |-> dev.tag, dir |-> "none", size |-> 0,
                         good |-> dev.good]
      <4>1. UNCHANGED lost /\ xfer_buf' = csw
        BY <1>7, <2>2, Zenon DEF DevSendStatus
      <4>2. csw.kind = "csw" /\ csw.tag = dev.tag
        OBVIOUS
      <4> HIDE DEF csw
      <4> QED
        BY <4>1, <4>2
    <3> QED
      BY <1>1, <2>1, <3>1 DEF OnceOnly
  <2>3. CASE ~(HeadUrb("in").size >= CSWSize)
    <3>1. lost' = lost \union {dev.tag} /\ xfer_buf' \in {xfer_buf, Zero}
      BY <1>7, <2>3 DEF DevSendStatus
    <3>2. CASE xfer_buf' = xfer_buf
      BY <1>1, <2>1, <3>1, <3>2 DEF OnceOnly
    <3>3. CASE xfer_buf' = Zero
      <4>1. nextTag \in Nat \ {0} /\ xfer_buf'.kind = "zero" /\ xfer_buf'.tag = 0
        BY <3>3 DEF TypeOK, HostType, Zero, NoTag
      <4> QED
        BY <1>1, <2>1, <4>1 DEF OnceOnly
    <3> QED
      BY <3>1, <3>2, <3>3
  <2> QED
    BY <2>2, <2>3
<1> QED
  BY <1>4, <1>5, <1>6, <1>7 DEF DevStep, Eps

(* The drive takes a CBW again only if its answer to the first was lost in *)
(* a URB too small for a CSW, whatever time-outs, stalls and overlaps there *)
(* are and whatever the sizes of the data stages.                          *)
THEOREM TakenOnce == Spec => OnceUnlessLost
<1>1. Init => OnceOnly
  BY OnceInit
<1>2. TypeOK /\ Locks /\ OnceOnly /\ [Next]_vars => OnceOnly'
  <2>1. UNCHANGED vars => (OnceOnly => OnceOnly')
    BY DEF vars, hostVars, devVars, OnceOnly, Unsent
  <2> QED
    BY <2>1, HostOnce, DevOnce DEF Next, Done
<1>3. OnceOnly => [DevTakeCbw /\ xfer_buf.tag \in accepted => xfer_buf.tag \in lost]_vars
  BY DEF OnceOnly, DevTakeCbw
<1> QED
  BY <1>1, <1>2, <1>3, Typed, PTL DEF Spec, OnceUnlessLost

-----------------------------------------------------------------------------
(* The abstract service: every step of ScsiBot is an issue, a performance  *)
(* or an answer of ScsiService, or leaves the service's state alone.       *)

Issue(t)     == Service!Issue(t)
Perform(tag) == Service!Perform(tag)
Answer(t)    == Service!Answer(t)
Unseen       == UNCHANGED <<nextTag, cmd, performed, outcome>>

\* Commands under way, in the buffer and in the drive's data phase have tags
\* that were issued, and a caller is told nothing before its command is over.
Tagged ==
  /\ \A t \in Threads : stage[t] # "idle" =>
        cmd[t].tag \in 1 .. nextTag - 1 /\ outcome[t] = NoOutcome
  /\ xfer_buf.kind = "cbw" => xfer_buf.tag \in 1 .. nextTag - 1
  /\ dev.phase \in {"dataIn", "dataOut"} => dev.tag \in 1 .. nextTag - 1

Inv == TypeOK /\ Locks /\ Genuine /\ Tagged

\* A command that replaces another one replaces its tag in the service's calls.
LEMMA TagMap ==
  ASSUME NEW f \in [Threads -> Cmd], NEW t \in Threads, NEW c
  PROVE  [u \in Threads |-> [f EXCEPT ![t] = c][u].tag]
           = [[u \in Threads |-> f[u].tag] EXCEPT ![t] = c.tag]
  OBVIOUS

\* An outcome that replaces another one replaces its verdict.
LEMMA VerdictMap ==
  ASSUME NEW f \in [Threads -> Outcome], NEW t \in Threads, NEW o
  PROVE  [u \in Threads |-> Verdict([f EXCEPT ![t] = o][u])]
           = [[u \in Threads |-> Verdict(f[u])] EXCEPT ![t] = Verdict(o)]
  OBVIOUS

\* No outcome yet is what the service shows for an open call.
LEMMA NoVerdict == Verdict(NoOutcome) = [tag |-> 0, success |-> FALSE]
<1>1. Succeeded(NoOutcome) = FALSE
  BY DEF Succeeded, Checked, NoOutcome
<1>2. NoOutcome.cmd.tag = 0
  BY DEF NoOutcome, NoCmd, NoTag
<1> QED BY <1>1, <1>2 DEF Verdict

-----------------------------------------------------------------------------
(* The end of a transfer, by its four outcomes *)

\* A transfer that ends leads to the next stage, to a nested REQUEST SENSE or to
\* the end of the command, with a success only for a performed one.
LEMMA StageDoneCases ==
  ASSUME Inv, NEW t \in Threads, Talking(t), NEW ok, NEW moved, StageDone(t, ok, moved)
  PROVE  /\ UNCHANGED <<xfer_buf, dev, performed>>
         /\ \/ /\ UNCHANGED <<cmd, outcome, nextTag>>
               /\ \A u \in Threads : stage'[u] # "idle" => stage[u] # "idle"
            \/ Sense(t)
            \/ \E ret \in Int :
                 /\ Return(t, ret)
                 /\ Checked([cmd |-> cmd[t]]) /\ ret >= 0 => cmd[t].tag \in performed
<1>1. UNCHANGED <<xfer_buf, dev, performed>>
  BY DEF StageDone, devVars
<1>2. CASE stage[t] \in {"cbw", "data"}
  <2>1. UNCHANGED <<cmd, outcome, nextTag>>
    BY <1>2 DEF StageDone
  <2>2. \A u \in Threads : stage'[u] # "idle" => stage[u] # "idle"
    BY <1>2 DEF StageDone, Inv, TypeOK, HostType
  <2> QED BY <1>1, <2>1, <2>2
<1>3. CASE stage[t] = "csw"
  <2>1. JudgeCsw(t, ok, moved)
    BY <1>3 DEF StageDone
  <2>2. data[t].moved \in Int
    BY DEF Inv, TypeOK, HostType, Data
  <2>3. CASE cmd[t].kind \in {"command", "pass"}
    <3> DEFINE csw == IF ok THEN xfer_buf ELSE Zero
    <3>1. CASE csw.kind = "csw" /\ csw.tag = cmd[t].tag /\ csw.good
      <4>1. cmd[t].tag \in performed
        BY <3>1 DEF Inv, Genuine, Zero
      <4>2. \E ret \in Int : Return(t, ret)
        BY <2>1, <2>2, <2>3 DEF JudgeCsw, JudgeLocked, JudgeBare, JudgeSense, Mine
      <4> QED BY <1>1, <4>1, <4>2
    <3>2. CASE ~(csw.kind = "csw" /\ csw.tag = cmd[t].tag /\ csw.good)
      <4>1. Return(t, -1)
        BY <2>1, <2>3, <3>2 DEF JudgeCsw, JudgeLocked, JudgeBare, JudgeSense, Mine
      <4> QED BY <1>1, <4>1
    <3> QED BY <3>1, <3>2
  <2>4. CASE cmd[t].kind \notin {"command", "pass"}
    <3>1. Sense(t) \/ \E ret \in Int : Return(t, ret)
      BY <2>1, <2>4 DEF JudgeCsw, JudgeLocked, JudgeBare, JudgeSense, Mine
    <3>2. ~Checked([cmd |-> cmd[t]])
      BY <2>4 DEF Checked
    <3> QED BY <1>1, <3>1, <3>2
  <2> QED BY <2>3, <2>4
<1> QED BY <1>2, <1>3 DEF Talking

\* The end of a transfer preserves Tagged.
LEMMA StageDoneTagged ==
  ASSUME Inv, NEW t \in Threads, Talking(t), NEW ok, NEW moved, StageDone(t, ok, moved)
  PROVE  Tagged'
<1>1. nextTag \in Nat \ {0}
  BY DEF Inv, TypeOK, HostType
<1>2. UNCHANGED <<xfer_buf, dev>>
  BY StageDoneCases
<1>3. CASE /\ UNCHANGED <<cmd, outcome, nextTag>>
           /\ \A u \in Threads : stage'[u] # "idle" => stage[u] # "idle"
  BY <1>2, <1>3 DEF Inv, Tagged
<1>4. CASE Sense(t)
  <2>1. \A u \in Threads \ {t} : stage'[u] = stage[u] /\ cmd'[u] = cmd[u]
    BY <1>4 DEF Sense, Inv, TypeOK, HostType
  <2>2. cmd'[t].tag = nextTag /\ nextTag' = nextTag + 1 /\ outcome' = outcome
    BY <1>4 DEF Sense, Inv, TypeOK, HostType
  <2>3. outcome[t] = NoOutcome
    BY DEF Inv, Tagged, Talking
  <2> QED BY <1>1, <1>2, <2>1, <2>2, <2>3 DEF Inv, Tagged
<1>5. ASSUME NEW ret \in Int, Return(t, ret)
      PROVE  Tagged'
  <2>1. stage'[t] = "idle" /\ nextTag' = nextTag
    BY <1>5 DEF Return, Inv, TypeOK, HostType
  <2>2. \A u \in Threads \ {t} :
          stage'[u] = stage[u] /\ cmd'[u] = cmd[u] /\ outcome'[u] = outcome[u]
    BY <1>5 DEF Return, Inv, TypeOK, HostType
  <2> QED BY <1>2, <2>1, <2>2 DEF Inv, Tagged
<1> QED BY <1>3, <1>4, <1>5, StageDoneCases

\* The end of a transfer is an issue, an answer or nothing to the service.
LEMMA StageDoneRefines ==
  ASSUME Inv, NEW t \in Threads, Talking(t), NEW ok, NEW moved, StageDone(t, ok, moved)
  PROVE  Issue(t) \/ Answer(t) \/ Unseen
<1>1. nextTag \in Nat \ {0} /\ UNCHANGED performed
  BY StageDoneCases DEF Inv, TypeOK, HostType
<1>2. outcome[t] = NoOutcome /\ cmd[t].tag \in 1 .. nextTag - 1
  BY DEF Inv, Tagged, Talking
<1>3. CASE UNCHANGED <<cmd, outcome, nextTag>>
  BY <1>1, <1>3 DEF Unseen
<1>4. CASE Sense(t)
  <2> DEFINE c == [kind |-> "sense", tag |-> nextTag, dir |-> "in", size |-> SenseSize,
                   buf |-> TRUE]
  <2>1. cmd' = [cmd EXCEPT ![t] = c] /\ cmd \in [Threads -> Cmd] /\ c.tag = nextTag
    BY <1>4 DEF Sense, Inv, TypeOK, HostType
  <2> HIDE DEF c
  <2>2. [u \in Threads |-> cmd'[u].tag]
          = [[u \in Threads |-> cmd[u].tag] EXCEPT ![t] = nextTag]
    BY <2>1, TagMap
  <2>3. nextTag' = nextTag + 1 /\ outcome' = outcome
    BY <1>4 DEF Sense
  <2>4. (nextTag - 1) + 1 = nextTag /\ nextTag' - 1 = (nextTag - 1) + 1
    BY <1>1, <2>3
  <2>5. [u \in Threads |-> Verdict(outcome'[u])]
          = [[u \in Threads |-> Verdict(outcome[u])] EXCEPT ![t] = [tag |-> 0, success |-> FALSE]]
    BY <1>2, <2>3, NoVerdict
  <2> QED BY <1>1, <2>2, <2>4, <2>5 DEF Issue, Service!Issue, Service!NoAnswer
<1>5. ASSUME NEW ret \in Int, Return(t, ret),
             Checked([cmd |-> cmd[t]]) /\ ret >= 0 => cmd[t].tag \in performed
      PROVE  Answer(t)
  <2> DEFINE o == [cmd |-> cmd[t], ret |-> ret, from |-> data[t].from]
  <2>1. /\ cmd' = [cmd EXCEPT ![t] = NoCmd] /\ cmd \in [Threads -> Cmd]
        /\ outcome' = [outcome EXCEPT ![t] = o] /\ outcome \in [Threads -> Outcome]
        /\ nextTag' = nextTag
    BY <1>5 DEF Return, Inv, TypeOK, HostType
  <2>2. [u \in Threads |-> cmd'[u].tag]
          = [[u \in Threads |-> cmd[u].tag] EXCEPT ![t] = 0]
    BY <2>1, TagMap DEF NoCmd, NoTag
  <2>3. Verdict(o) = [tag |-> cmd[t].tag, success |-> Succeeded(o)]
    BY DEF Verdict
  <2>4. Succeeded(o) \in BOOLEAN
    BY DEF Succeeded
  <2>5. Succeeded(o) => cmd[t].tag \in performed
    BY <1>5 DEF Succeeded, Checked
  <2> HIDE DEF o
  <2>6. [u \in Threads |-> Verdict(outcome'[u])]
          = [[u \in Threads |-> Verdict(outcome[u])]
             EXCEPT ![t] = [tag |-> cmd[t].tag, success |-> Succeeded(o)]]
    BY <2>1, <2>3, VerdictMap
  <2>7. cmd[t].tag # 0 /\ nextTag' - 1 = nextTag - 1
    BY <1>1, <1>2, <2>1
  <2>8. [u \in Threads |-> cmd[u].tag][t] = cmd[t].tag
    OBVIOUS
  <2> QED BY <1>1, <2>2, <2>4, <2>5, <2>6, <2>7, <2>8 DEF Answer, Service!Answer
<1> QED BY <1>3, <1>4, <1>5, StageDoneCases

-----------------------------------------------------------------------------
(* The steps of the threads and of the drive *)

\* A thread's step preserves Tagged and is an issue, an answer or unseen.
LEMMA HostRefines ==
  ASSUME Inv, NEW t \in Threads, HostStep(t)
  PROVE  Tagged' /\ (Issue(t) \/ Answer(t) \/ Unseen)
<1>1. nextTag \in Nat \ {0}
  BY DEF Inv, TypeOK, HostType
<1>2. CASE Start(t)
  <2>1. PICK c \in Cmd : c.tag = nextTag /\ cmd' = [cmd EXCEPT ![t] = c]
    BY <1>2, StartCmd DEF Inv
  <2>2. cmd' = [cmd EXCEPT ![t] = c] /\ cmd \in [Threads -> Cmd] /\ c.tag = nextTag
    BY <2>1 DEF Inv, TypeOK, HostType
  <2>3. /\ outcome' = [outcome EXCEPT ![t] = NoOutcome] /\ outcome \in [Threads -> Outcome]
        /\ nextTag' = nextTag + 1
        /\ UNCHANGED <<xfer_buf, dev, performed>>
        /\ \A u \in Threads : u # t => stage'[u] = stage[u]
    BY <1>2 DEF Start, devVars, Inv, TypeOK, HostType
  <2>4. Tagged'
    <3>1. \A u \in Threads : u # t => cmd'[u] = cmd[u] /\ outcome'[u] = outcome[u]
      BY <2>2, <2>3
    <3>2. cmd'[t].tag = nextTag /\ outcome'[t] = NoOutcome
      BY <2>2, <2>3
    <3> QED BY <1>1, <2>3, <3>1, <3>2 DEF Inv, Tagged
  <2>5. [u \in Threads |-> cmd'[u].tag]
          = [[u \in Threads |-> cmd[u].tag] EXCEPT ![t] = nextTag]
    BY <2>2, TagMap
  <2>6. [u \in Threads |-> Verdict(outcome'[u])]
          = [[u \in Threads |-> Verdict(outcome[u])] EXCEPT ![t] = [tag |-> 0, success |-> FALSE]]
    BY <2>3, VerdictMap, NoVerdict
  <2>7. (nextTag - 1) + 1 = nextTag /\ nextTag' - 1 = (nextTag - 1) + 1
    BY <1>1, <2>3
  <2>8. Issue(t)
    BY <2>3, <2>5, <2>6, <2>7 DEF Issue, Service!Issue, Service!NoAnswer
  <2> QED BY <2>4, <2>8
<1>3. CASE LockScsi(t)
  <2>1. \A u \in Threads : stage'[u] # "idle" => stage[u] # "idle"
    BY <1>3 DEF LockScsi, Inv, TypeOK, HostType
  <2> QED BY <1>3, <2>1 DEF LockScsi, devVars, Inv, Tagged, Unseen
<1>4. CASE EnterTransfer(t)
  <2>1. UNCHANGED <<stage, cmd, outcome, nextTag, dev, performed>>
    BY <1>4 DEF EnterTransfer, devVars
  <2>2. Payload(t).tag \in 1 .. nextTag - 1
    BY <1>4 DEF EnterTransfer, Payload, Inv, Tagged, Talking
  <2>3. xfer_buf' = xfer_buf \/ xfer_buf' = Payload(t)
    BY <1>4 DEF EnterTransfer
  <2> QED BY <2>1, <2>2, <2>3 DEF Inv, Tagged, Unseen
<1>5. CASE Post(t)
  BY <1>5 DEF Post, devVars, Inv, Tagged, Unseen
<1>6. CASE TakeReport(t) \/ Timeout(t) \/ PostFails(t)
  <2>1. Talking(t) /\ \E ok, moved : StageDone(t, ok, moved)
    BY <1>6 DEF TakeReport, Timeout, PostFails, Inv, Locks
  <2> QED BY <2>1, StageDoneTagged, StageDoneRefines
<1>7. CASE Refuse(t)
  <2>1. \A u \in Threads : stage'[u] # "idle" => stage[u] # "idle"
    BY <1>7, RefuseIs DEF Inv, TypeOK, HostType
  <2>2. UNCHANGED <<cmd, outcome, nextTag, xfer_buf, dev, performed>>
    BY <1>7, RefuseIs DEF Inv
  <2> QED BY <2>1, <2>2 DEF Inv, Tagged, Unseen
<1> QED BY <1>2, <1>3, <1>4, <1>5, <1>6, <1>7 DEF HostStep

\* The status phase of an issued command is the service's performance of it.
LEMMA StatusRefines ==
  ASSUME Inv, UNCHANGED hostVars, NEW tag \in 1 .. nextTag - 1, NEW good \in BOOLEAN,
         ToStatus(tag, good)
  PROVE  Perform(tag) \/ Unseen
  BY DEF ToStatus, Perform, Service!Perform, Unseen, hostVars

\* A drive's step preserves Tagged and is a performance or unseen.
LEMMA DevRefines ==
  ASSUME Inv, DevStep
  PROVE  Tagged' /\ ((\E tag \in 1 .. nextTag - 1 : Perform(tag)) \/ Unseen)
<1>1. UNCHANGED hostVars
  BY DEF DevStep, DevTakeCbw, DevTakeData, DevSendData, DevSendStatus, DevStall, DevStalled
<1>2. ASSUME dev'.phase \in {"dataIn", "dataOut"} => dev'.tag \in 1 .. nextTag - 1,
             xfer_buf'.kind = "cbw" => xfer_buf'.tag \in 1 .. nextTag - 1
      PROVE  Tagged'
  BY <1>1, <1>2 DEF hostVars, Inv, Tagged
<1>3. UNCHANGED performed => Unseen
  BY <1>1 DEF Unseen, hostVars
<1>4. ASSUME NEW tag \in 1 .. nextTag - 1, NEW good \in BOOLEAN, ToStatus(tag, good)
      PROVE  /\ Perform(tag) \/ Unseen
             /\ dev'.phase \notin {"dataIn", "dataOut"}
  <2>1. Perform(tag) \/ Unseen
    BY <1>1, <1>4, StatusRefines
  <2>2. dev'.phase \notin {"dataIn", "dataOut"}
    BY <1>4 DEF ToStatus
  <2> QED BY <2>1, <2>2
<1>5. CASE DevTakeCbw
  <2>1. xfer_buf.tag \in 1 .. nextTag - 1 /\ UNCHANGED xfer_buf
    BY <1>5 DEF DevTakeCbw, Inv, Tagged
  <2>2. CASE /\ UNCHANGED performed
             /\ dev' = [phase |-> IF xfer_buf.dir = "in" THEN "dataIn" ELSE "dataOut",
                        tag |-> xfer_buf.tag, left |-> xfer_buf.size, good |-> FALSE]
    BY <1>2, <1>3, <2>1, <2>2
  <2>3. CASE \E good \in BOOLEAN : ToStatus(xfer_buf.tag, good)
    BY <1>2, <1>4, <2>1, <2>3
  <2> QED BY <1>5, <2>2, <2>3 DEF DevTakeCbw
<1>6. CASE DevTakeData
  <2>1. dev.tag \in 1 .. nextTag - 1 /\ (xfer_buf'.kind = "cbw" => xfer_buf' = xfer_buf)
    BY <1>6 DEF DevTakeData, Inv, Tagged
  <2>2. \E good \in BOOLEAN : ToStatus(dev.tag, good)
    BY <1>6 DEF DevTakeData
  <2> QED BY <1>2, <1>4, <2>1, <2>2 DEF Inv, Tagged
<1>7. CASE DevSendData
  <2>1. dev.tag \in 1 .. nextTag - 1 /\ xfer_buf'.kind # "cbw"
    BY <1>7 DEF DevSendData, Inv, Tagged
  <2>2. CASE UNCHANGED performed /\ \E n : dev' = [dev EXCEPT !.left = n]
    <3>1. dev'.tag = dev.tag
      BY <2>2 DEF Inv, TypeOK, DevType, Drive
    <3> QED BY <1>2, <1>3, <2>1, <2>2, <3>1
  <2>3. CASE \E good \in BOOLEAN : ToStatus(dev.tag, good)
    BY <1>2, <1>4, <2>1, <2>3
  <2> QED BY <1>7, <2>2, <2>3 DEF DevSendData
<1>8. CASE DevSendStatus
  <2>1. UNCHANGED performed /\ dev'.phase = "idle"
    BY <1>8 DEF DevSendStatus, Inv, TypeOK, DevType, Drive
  <2>2. xfer_buf'.kind = "cbw" => xfer_buf' = xfer_buf
    <3>1. CASE xfer_buf' = [kind |-> "csw", tag |-> dev.tag, dir |-> "none",
                            size |-> 0, good |-> dev.good]
      BY <3>1
    <3>2. CASE xfer_buf' = Zero
      BY <3>2 DEF Zero
    <3> QED BY <1>8, <3>1, <3>2 DEF DevSendStatus
  <2> QED BY <1>2, <1>3, <2>1, <2>2 DEF Inv, Tagged
<1>9. ASSUME NEW e \in Eps, DevStall(e) \/ DevStalled(e)
      PROVE  Tagged' /\ ((\E tag \in 1 .. nextTag - 1 : Perform(tag)) \/ Unseen)
  <2>1. UNCHANGED xfer_buf
    BY <1>9 DEF DevStall, DevStalled
  <2>2. CASE /\ dev.phase \in {"dataIn", "dataOut"}
             /\ \E good \in BOOLEAN : ToStatus(dev.tag, good)
    BY <1>2, <1>4, <2>1, <2>2 DEF Inv, Tagged
  <2>3. CASE /\ \E phase \in {dev.phase, "stalled"} : dev' = [dev EXCEPT !.phase = phase]
             /\ UNCHANGED performed
    <3>1. dev'.tag = dev.tag /\ dev'.phase \in {dev.phase, "stalled"}
      BY <2>3 DEF Inv, TypeOK, DevType, Drive
    <3> QED BY <1>2, <1>3, <2>1, <2>3, <3>1 DEF Inv, Tagged
  <2>4. CASE UNCHANGED devVars
    BY <1>2, <1>3, <2>1, <2>4 DEF devVars, Inv, Tagged
  <2> QED BY <1>9, <2>2, <2>3, <2>4 DEF DevStall, DevStalled
<1> QED BY <1>5, <1>6, <1>7, <1>8, <1>9 DEF DevStep

-----------------------------------------------------------------------------

\* Every step is a step of the service or one the service does not see.
LEMMA StepRefines ==
  ASSUME Inv, [Next]_vars
  PROVE  Tagged' /\ [Service!SNext]_(Service!sVars)
<1>1. ASSUME Unseen PROVE UNCHANGED Service!sVars
  BY <1>1 DEF Unseen, Service!sVars
<1>2. CASE \E t \in Threads : HostStep(t)
  BY <1>1, <1>2, HostRefines DEF Issue, Answer, Service!SNext
<1>3. CASE DevStep
  BY <1>1, <1>3, DevRefines DEF Perform, Service!SNext
<1>4. CASE UNCHANGED vars
  BY <1>1, <1>4 DEF vars, hostVars, devVars, Unseen, Inv, Tagged
<1> QED BY <1>2, <1>3, <1>4 DEF Next, Done

\* The command layer implements the service it promises to the library: a
\* success is reported only for a command the drive performed, each tag is
\* issued once, and a late performance changes no verdict.
THEOREM Implements == Spec => ServiceSpec
<1>1. Init => Tagged /\ Genuine /\ Service!SInit
  <2> SUFFICES ASSUME Init PROVE Tagged /\ Genuine /\ Service!SInit
    OBVIOUS
  <2>1. Tagged
    BY DEF Init, Tagged, Zero
  <2>2. Genuine
    BY DEF Init, Genuine, Zero, SuccessGenuine, Succeeded, Checked, NoOutcome
  <2>3. Service!SInit
    BY NoVerdict DEF Init, Service!SInit, Service!NoAnswer, NoCmd, NoTag
  <2> QED BY <2>1, <2>2, <2>3
<1>2. (TypeOK /\ Locks) /\ (Genuine /\ Tagged) /\ [Next]_vars
        => (Genuine /\ Tagged)' /\ [Service!SNext]_(Service!sVars)
  BY GenuineStep, StepRefines DEF Inv
<1> QED BY <1>1, <1>2, Typed, PTL DEF Spec, ServiceSpec, Service!SSpec
=============================================================================
