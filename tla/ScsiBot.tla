------------------------------- MODULE ScsiBot -------------------------------
(***************************************************************************)
(* The SCSI command layer (CUSBSCSI, source/usbdvd_scsi.cpp) over the      *)
(* USB bulk-only transport (CSWITCH_USB, source/os/switch/switch_usb.cpp)  *)
(* and the drive at the other end of the cable.                            *)
(*                                                                         *)
(* A command is up to three bulk transfers: the CBW, an optional data      *)
(* stage and the CSW.  Each transfer is a critical section of usb_mutex    *)
(* around one asynchronous URB: copy to xfer_buf, post, wait at most ten   *)
(* seconds for the endpoint's event, take one report.  A URB whose wait    *)
(* timed out is not cancelled: it may complete during a later transfer,    *)
(* reading or writing the xfer_buf that this later transfer uses.          *)
(*                                                                         *)
(* send_scsi_command and send_scsi_command_pass hold scsi_operation_mutex  *)
(* over the three transfers.  UsbDvdUnitReady, UsbDvdSendPlayerKey and     *)
(* UsbDvdResetStreamingMode ("bare" below) send the same three transfers   *)
(* without it.                                                             *)
(*                                                                         *)
(* Libnx results are positive when they are errors, so the `r < 0` tests   *)
(* after each transfer never hold: a failed CBW or data stage goes on to   *)
(* the next stage, and this is what StageDone does.  So does a data stage  *)
(* that usb_bulk_transfer refuses before it posts anything: the buffer is  *)
(* NULL (UsbDvdInvalidateAGID declares eight bytes and passes none) or the *)
(* data are longer than xfer_buf.                                          *)
(***************************************************************************)
EXTENDS Integers, Sequences

CONSTANTS
  Threads,    \* application threads that issue commands
  NoThread,   \* the holder of a free mutex
  Issued,     \* the commands the threads issue, but for their tags
  MaxCmds,    \* bound: the last tag a new command may take
  MaxFaults   \* bound: faults of the bus and of the drive

\* What the CBW declares of the data, and whether there is a buffer for them.  A
\* bare command has no data-in stage, and a pass-through has its buffer and a
\* length of sixteen bits.
Dirs   == {"none", "in", "out"}
Shapes == [kind : {"command", "pass", "bare"}, dir : Dirs, size : Nat, buf : BOOLEAN]
Sound(s) ==
  /\ s.dir = "none" <=> s.size = 0
  /\ s.kind = "bare" => s.dir # "in" /\ s.buf
  /\ s.kind = "pass" => s.size < 2^16 /\ s.buf

ASSUME NoThreadAssumption  == NoThread \notin Threads
ASSUME IssuedAssumption    == Issued \subseteq {s \in Shapes : Sound(s)}
ASSUME MaxCmdsAssumption   == MaxCmds \in Nat
ASSUME MaxFaultsAssumption == MaxFaults \in Nat

CBWSize == 31
CSWSize == 13
MaxUrb  == 1     \* max_urb_count given to usbHsIfOpenUsbEp
USB_TRANS_BUF_SIZE == 4194304
SenseSize == 18

VARIABLES
  scsiLock,   \* holder of scsi_operation_mutex
  usbLock,    \* holder of usb_mutex
  stage,      \* the stage of each thread's command
  sub,        \* where each thread is in usb_bulk_transfer
  cmd,        \* the CBW each thread is sending
  data,       \* what the data stage of each thread's command reported
  outcome,    \* what each thread's last command returned, until its next one
  xfer_buf,   \* content of the DMA buffer all transfers share
  ep,         \* the two endpoints: URBs in flight, reports, event
  dev,        \* the drive's bulk-only state machine
  accepted,   \* history: tags of the CBWs the drive has taken
  lost,       \* history: tags whose status met a URB too small for a CSW
  performed,  \* history: tags the drive has completed with good status
  nextTag,    \* the tag of the next CBW (randomGet, taken as fresh)
  faults,     \* history: faults so far
  clean       \* history: no fault, no overlap and no refused data stage so far

hostVars == <<scsiLock, usbLock, stage, sub, cmd, data, outcome, nextTag>>
devVars  == <<dev, accepted, lost, performed>>
vars     == <<hostVars, xfer_buf, ep, devVars, faults, clean>>

-----------------------------------------------------------------------------
(* Values *)

Tags   == Nat      \* 0 is no tag
NoTag  == 0
Stages == {"idle", "lock", "cbw", "data", "csw"}
Subs   == {"enter", "post", "wait"}
Kinds  == {"command", "pass", "bare", "sense"}
Eps    == {"in", "out"}
Phases == {"idle", "dataIn", "dataOut", "status", "stalled"}

Cmd     == [kind : Kinds, tag : Tags, dir : Dirs, size : Nat, buf : BOOLEAN]
Message == [kind : {"cbw", "data", "csw", "zero"},
            tag : Tags, dir : Dirs, size : Nat, good : BOOLEAN]
Urb     == [tag : Tags, stage : {"cbw", "data", "csw"}, size : Nat]
Report  == [urb : Urb, moved : Nat, ok : BOOLEAN]
Endpoint == [inflight : Seq(Urb), reports : Seq(Report), event : BOOLEAN]
Drive   == [phase : Phases, tag : Tags, left : Nat, good : BOOLEAN]
Data    == [ok : BOOLEAN, moved : Nat, from : Tags]
Outcome == [cmd : Cmd, ret : Int, from : Tags]

Zero      == [kind |-> "zero", tag |-> NoTag, dir |-> "none", size |-> 0, good |-> FALSE]
NoCmd     == [kind |-> "command", tag |-> NoTag, dir |-> "none", size |-> 0, buf |-> TRUE]
NoOutcome == [cmd |-> NoCmd, ret |-> -1, from |-> NoTag]
NoData    == [ok |-> FALSE, moved |-> 0, from |-> NoTag]

\* The three-transfer commands that hold scsi_operation_mutex.
Locked(t)  == cmd[t].kind # "bare"
Talking(t) == stage[t] \in {"cbw", "data", "csw"}

\* The endpoint a stage of thread t's command uses.
EpOf(t) == IF stage[t] = "csw" \/ (stage[t] = "data" /\ cmd[t].dir = "in")
           THEN "in" ELSE "out"

SizeOf(t) == [cbw |-> CBWSize, data |-> cmd[t].size, csw |-> CSWSize][stage[t]]

\* A bug: the CBW is sent without its tag.
PayloadUntagged(t) == [kind |-> IF stage[t] = "cbw" THEN "cbw" ELSE "data",
                       tag  |-> NoTag, dir |-> cmd[t].dir, size |-> cmd[t].size,
                       good |-> FALSE]

\* What thread t copies into xfer_buf before an OUT transfer.
Payload(t) == [kind |-> IF stage[t] = "cbw" THEN "cbw" ELSE "data",
               tag  |-> cmd[t].tag, dir |-> cmd[t].dir, size |-> cmd[t].size,
               good |-> FALSE]

UrbOf(t) == [tag |-> cmd[t].tag, stage |-> stage[t], size |-> SizeOf(t)]

\* usb_bulk_transfer takes the transfer on: the stages other than data have a
\* buffer of their own.
Accepts(t) == stage[t] = "data" => cmd[t].buf /\ cmd[t].size <= USB_TRANS_BUF_SIZE

\* Two commands are on the wire at once.
Overlap == \E t, u \in Threads : t # u /\ Talking(t) /\ Talking(u)
NotOverlapped == clean' = (clean /\ ~Overlap') /\ UNCHANGED faults

Fault ==
  /\ faults < MaxFaults
  /\ faults' = faults + 1
  /\ clean' = FALSE
NoFault == UNCHANGED <<faults, clean>>

Init ==
  /\ scsiLock = NoThread
  /\ usbLock = NoThread
  /\ stage = [t \in Threads |-> "idle"]
  /\ sub = [t \in Threads |-> "enter"]
  /\ cmd = [t \in Threads |-> NoCmd]
  /\ data = [t \in Threads |-> NoData]
  /\ outcome = [t \in Threads |-> NoOutcome]
  /\ xfer_buf = Zero
  /\ ep = [e \in Eps |-> [inflight |-> <<>>, reports |-> <<>>, event |-> FALSE]]
  /\ dev = [phase |-> "idle", tag |-> NoTag, left |-> 0, good |-> FALSE]
  /\ accepted = {}
  /\ lost = {}
  /\ performed = {}
  /\ nextTag = 1
  /\ faults = 0
  /\ clean = TRUE

\* The drive's phase lets it complete a URB of endpoint e.
DriveAnswers(e) ==
  /\ ep[e].inflight # <<>>
  /\ \/ dev.phase = "stalled"
     \/ e = "in" /\ dev.phase \in {"dataIn", "status"}
     \/ e = "out" /\ dev.phase = "dataOut"
     \/ /\ e = "out" /\ dev.phase = "idle"
        /\ xfer_buf.kind = "cbw" /\ Head(ep[e].inflight).size = CBWSize

-----------------------------------------------------------------------------
(* Issuing a command *)

\* A thread builds a CBW with a new tag and enters the command's function.
Start(t) ==
  /\ stage[t] = "idle"
  /\ nextTag <= MaxCmds
  /\ \E s \in Issued :
       cmd' = [cmd EXCEPT ![t] = [kind |-> s.kind, tag |-> nextTag, dir |-> s.dir,
                                  size |-> s.size, buf |-> s.buf]]
  /\ stage' = [stage EXCEPT ![t] = IF cmd'[t].kind = "bare" THEN "cbw" ELSE "lock"]
  /\ outcome' = [outcome EXCEPT ![t] = NoOutcome]
  /\ nextTag' = nextTag + 1
  /\ NotOverlapped
  /\ UNCHANGED <<scsiLock, usbLock, sub, data, xfer_buf, ep, devVars>>

\* scoped_lock(scsi_operation_mutex)
LockScsi(t) ==
  /\ stage[t] = "lock"
  /\ scsiLock = NoThread
  /\ scsiLock' = t
  /\ stage' = [stage EXCEPT ![t] = "cbw"]
  /\ NotOverlapped
  /\ UNCHANGED <<usbLock, sub, cmd, data, outcome, nextTag, xfer_buf, ep, devVars>>

-----------------------------------------------------------------------------
(* One bulk transfer *)

\* scoped_lock(usb_mutex), then memcpy to xfer_buf when sending.
EnterTransfer(t) ==
  /\ Talking(t)
  /\ sub[t] = "enter"
  /\ usbLock = NoThread
  /\ Accepts(t)
  /\ usbLock' = t
  /\ sub' = [sub EXCEPT ![t] = "post"]
  /\ xfer_buf' = IF EpOf(t) = "out" THEN Payload(t) ELSE xfer_buf
  /\ UNCHANGED <<scsiLock, stage, cmd, data, outcome, nextTag, ep, devVars, faults, clean>>

\* usbHsEpPostBufferAsync; the endpoint takes no URB beyond its limit.
Post(t) ==
  /\ sub[t] = "post"
  /\ Len(ep[EpOf(t)].inflight) < MaxUrb
  /\ ep' = [ep EXCEPT ![EpOf(t)].inflight = Append(@, UrbOf(t))]
  /\ sub' = [sub EXCEPT ![t] = "wait"]
  /\ UNCHANGED <<scsiLock, usbLock, stage, cmd, data, outcome, nextTag, xfer_buf,
                 devVars, faults, clean>>

\* The command of thread t is over and returns ret.
Return(t, ret) ==
  /\ stage' = [stage EXCEPT ![t] = "idle"]
  /\ outcome' = [outcome EXCEPT ![t] = [cmd |-> cmd[t], ret |-> ret,
                                        from |-> data[t].from]]
  /\ scsiLock' = IF Locked(t) THEN NoThread ELSE scsiLock
  /\ cmd' = [cmd EXCEPT ![t] = NoCmd]
  /\ data' = [data EXCEPT ![t] = NoData]
  /\ UNCHANGED nextTag

\* UsbDvdSense after a bare command's bad status: a locked command of its own.
Sense(t) ==
  /\ stage' = [stage EXCEPT ![t] = "lock"]
  /\ cmd' = [cmd EXCEPT ![t] = [kind |-> "sense", tag |-> nextTag, dir |-> "in",
                             size |-> SenseSize, buf |-> TRUE]]
  /\ nextTag' = nextTag + 1
  /\ data' = [data EXCEPT ![t] = NoData]
  /\ UNCHANGED <<scsiLock, outcome>>

\* A bug: the tag of the CSW is not compared with that of the command.
MineAnyTag(t, csw) == csw.kind = "csw"

\* The signature and the tag of the CSW are those of thread t's command.
Mine(t, csw) == csw.kind = "csw" /\ csw.tag = cmd[t].tag

\* A locked command succeeds only with a good CSW of its own; _pass then
\* returns what its data stage counted.
JudgeLocked(t, csw, present) ==
  /\ cmd[t].kind \in {"command", "pass"}
  /\ IF present /\ Mine(t, csw) /\ csw.good
     THEN Return(t, IF cmd[t].kind = "pass" THEN data[t].moved ELSE 0)
     ELSE Return(t, -1)

\* A bare command takes a missing CSW for a good one, and asks for the sense
\* data after a bad one.
JudgeBare(t, csw, present) ==
  /\ cmd[t].kind = "bare"
  /\ \/ ~present /\ Return(t, 0)
     \/ present /\ ~Mine(t, csw) /\ Return(t, -1)
     \/ present /\ Mine(t, csw) /\ csw.good /\ Return(t, 0)
     \/ present /\ Mine(t, csw) /\ ~csw.good /\ Sense(t)

\* After REQUEST SENSE the sense key in the (zeroed) buffer decides; what the
\* command itself returned is not looked at.
JudgeSense(t) ==
  /\ cmd[t].kind = "sense"
  /\ \E ret \in {0, -1, -2} : Return(t, ret)

\* The CSW transfer is over.  A failed transfer leaves the local csw zeroed.
JudgeCsw(t, ok, moved) ==
  LET csw     == IF ok THEN xfer_buf ELSE Zero
      present == moved = CSWSize
  IN JudgeLocked(t, csw, present) \/ JudgeBare(t, csw, present) \/ JudgeSense(t)

\* A bug: the data stage is skipped.
SkipData(t) == "csw"

AfterCbw(t) == IF cmd[t].dir = "none" THEN "csw" ELSE "data"

\* The transfer of t's current stage ends; the next stage follows whatever
\* the transfer returned.  Releases usb_mutex.
StageDone(t, ok, moved) ==
  /\ usbLock' = NoThread
  /\ sub' = [sub EXCEPT ![t] = "enter"]
  /\ \/ /\ stage[t] = "cbw"
        /\ stage' = [stage EXCEPT ![t] = AfterCbw(t)]
        /\ UNCHANGED <<scsiLock, cmd, data, outcome, nextTag>>
     \/ /\ stage[t] = "data"
        /\ stage' = [stage EXCEPT ![t] = "csw"]
        /\ data' = [data EXCEPT ![t] = [ok |-> ok, moved |-> moved,
                      from |-> IF ok /\ cmd[t].dir = "in" /\ xfer_buf.kind = "data"
                               THEN xfer_buf.tag ELSE NoTag]]
        /\ UNCHANGED <<scsiLock, cmd, outcome, nextTag>>
     \/ /\ stage[t] = "csw"
        /\ JudgeCsw(t, ok, moved)
  /\ UNCHANGED <<xfer_buf, devVars>>

\* A bug: the report is left on its queue.
TakenNoReport(q) == [q EXCEPT !.event = FALSE]

Taken(q) == [q EXCEPT !.event = FALSE, !.reports = Tail(@)]

\* The event is signalled: clear it, take one report and believe it.  The
\* report's URB is not compared with the one posted.
TakeReport(t) ==
  LET e == EpOf(t) IN
  /\ sub[t] = "wait"
  /\ ep[e].event
  /\ ep[e].reports # <<>>
  /\ ep' = [ep EXCEPT ![e] = Taken(@)]
  /\ StageDone(t, Head(ep[e].reports).ok, Head(ep[e].reports).moved)
  /\ NoFault

\* A bug: a CBW whose wait timed out is sent again.
TimeoutRetried(t) ==
  /\ sub[t] = "wait"
  /\ ep' = [ep EXCEPT ![EpOf(t)].event = FALSE]
  /\ IF stage[t] = "cbw"
     THEN /\ usbLock' = NoThread
          /\ sub' = [sub EXCEPT ![t] = "enter"]
          /\ UNCHANGED <<scsiLock, stage, cmd, data, outcome, nextTag, xfer_buf, devVars>>
     ELSE StageDone(t, FALSE, 0)
  /\ IF ep[EpOf(t)].event \/ DriveAnswers(EpOf(t)) THEN Fault ELSE NoFault

\* eventWait gives up after USB_POSTBUFFER_TIMEOUT; the event is cleared even
\* if it was signalled in between, and the URB stays posted.  That is a fault
\* of the bus when the drive would answer, and has to happen when it never will.
Timeout(t) ==
  /\ sub[t] = "wait"
  /\ ep' = [ep EXCEPT ![EpOf(t)].event = FALSE]
  /\ StageDone(t, FALSE, 0)
  /\ IF ep[EpOf(t)].event \/ DriveAnswers(EpOf(t)) THEN Fault ELSE NoFault

\* A bug: a post to a full endpoint is retried until it succeeds.
PostRetried(t) ==
  /\ sub[t] = "post"
  /\ IF Len(ep[EpOf(t)].inflight) < MaxUrb
     THEN StageDone(t, FALSE, 0) /\ Fault /\ UNCHANGED ep
     ELSE UNCHANGED vars

\* The post itself fails: the endpoint is full, or (a fault) the bus refuses.
PostFails(t) ==
  /\ sub[t] = "post"
  /\ StageDone(t, FALSE, 0)
  /\ IF Len(ep[EpOf(t)].inflight) < MaxUrb THEN Fault ELSE NoFault
  /\ UNCHANGED ep

\* usb_bulk_transfer returns at once, with usb_mutex taken and released: nothing
\* is copied or posted, and the count its caller passed stays at zero.  The CBW
\* has declared the data, so the drive goes on waiting for them (or to send them)
\* while the host goes on to the CSW.
Refuse(t) ==
  /\ Talking(t)
  /\ sub[t] = "enter"
  /\ usbLock = NoThread
  /\ ~Accepts(t)
  /\ StageDone(t, FALSE, 0)
  /\ clean' = FALSE
  /\ UNCHANGED <<ep, faults>>

-----------------------------------------------------------------------------
(* The drive (external): it completes the URB at the head of an endpoint *)

HeadUrb(e) == Head(ep[e].inflight)

Complete(e, ok, moved) ==
  ep' = [ep EXCEPT ![e] = [inflight |-> Tail(@.inflight),
                           reports  |-> Append(@.reports,
                                          [urb |-> HeadUrb(e), moved |-> moved, ok |-> ok]),
                           event    |-> TRUE]]

\* The drive enters its status phase for tag, with good or bad status.
ToStatus(tag, good) ==
  /\ dev' = [phase |-> "status", tag |-> tag, left |-> 0, good |-> good]
  /\ performed' = IF good THEN performed \union {tag} ELSE performed

\* An idle drive takes the CBW it finds in the buffer.  It goes to the data phase
\* of the command, or at once to status when there is no data or it refuses the
\* command (a bare command that sends data declares none in its CBW: a drive that
\* goes by the CBW and not by the CDB refuses it).
DevTakeCbw ==
  /\ ep["out"].inflight # <<>>
  /\ dev.phase = "idle"
  /\ xfer_buf.kind = "cbw"
  /\ HeadUrb("out").size = CBWSize
  /\ accepted' = accepted \union {xfer_buf.tag}
  /\ \/ /\ xfer_buf.dir # "none"
        /\ dev' = [phase |-> IF xfer_buf.dir = "in" THEN "dataIn" ELSE "dataOut",
                   tag |-> xfer_buf.tag, left |-> xfer_buf.size, good |-> FALSE]
        /\ NoFault
        /\ UNCHANGED performed
     \/ /\ xfer_buf.dir = "none"
        /\ \E good \in BOOLEAN : ToStatus(xfer_buf.tag, good)
        /\ NoFault
     \/ /\ xfer_buf.dir # "none"
        /\ ToStatus(xfer_buf.tag, FALSE)
        /\ Fault
  /\ Complete("out", TRUE, CBWSize)
  /\ UNCHANGED <<hostVars, xfer_buf, lost>>

\* In its data-out phase the drive takes whatever arrives as the data.
DevTakeData ==
  /\ ep["out"].inflight # <<>>
  /\ dev.phase = "dataOut"
  /\ \E good \in BOOLEAN : ToStatus(dev.tag, good)
  /\ Complete("out", TRUE, HeadUrb("out").size)
  /\ NoFault
  /\ UNCHANGED <<hostVars, xfer_buf, accepted, lost>>

\* In its data-in phase the drive fills the IN URB; a URB smaller than what is
\* left of the data leaves it in that phase with the rest.
DevSendData ==
  /\ ep["in"].inflight # <<>>
  /\ dev.phase = "dataIn"
  /\ xfer_buf' = [kind |-> "data", tag |-> dev.tag, dir |-> "in", size |-> 0, good |-> FALSE]
  /\ IF HeadUrb("in").size < dev.left
     THEN /\ Complete("in", TRUE, HeadUrb("in").size)
          /\ dev' = [dev EXCEPT !.left = @ - HeadUrb("in").size]
          /\ UNCHANGED performed
     ELSE /\ Complete("in", TRUE, dev.left)
          /\ \E good \in BOOLEAN : ToStatus(dev.tag, good)
  /\ NoFault
  /\ UNCHANGED <<hostVars, accepted, lost>>

\* In its status phase the drive answers any IN URB with the CSW; a URB too
\* small for it fails, with or without its part of the CSW in the buffer.
DevSendStatus ==
  /\ ep["in"].inflight # <<>>
  /\ dev.phase = "status"
  /\ IF HeadUrb("in").size >= CSWSize
     THEN /\ xfer_buf' = [kind |-> "csw", tag |-> dev.tag, dir |-> "none",
                          size |-> 0, good |-> dev.good]
          /\ Complete("in", TRUE, CSWSize)
          /\ UNCHANGED lost
     ELSE /\ Complete("in", FALSE, HeadUrb("in").size)
          /\ xfer_buf' \in {xfer_buf, Zero}
          /\ lost' = lost \union {dev.tag}
  /\ NoFault
  /\ dev' = [dev EXCEPT !.phase = "idle"]
  /\ UNCHANGED <<hostVars, accepted, performed>>

\* The drive stalls the endpoint.  In a data phase it then has a status ready,
\* good (a short answer) or bad; otherwise it may stay stalled, which only the
\* reset the library never sends would end.
DevStall(e) ==
  /\ ep[e].inflight # <<>>
  /\ dev.phase # "stalled"
  /\ Complete(e, FALSE, 0)
  /\ \/ /\ dev.phase \in {"dataIn", "dataOut"}
        /\ \E good \in BOOLEAN : ToStatus(dev.tag, good)
     \/ /\ \E phase \in {dev.phase, "stalled"} : dev' = [dev EXCEPT !.phase = phase]
        /\ UNCHANGED performed
  /\ Fault
  /\ UNCHANGED <<hostVars, xfer_buf, accepted, lost>>

\* A stalled drive fails every URB.
DevStalled(e) ==
  /\ ep[e].inflight # <<>>
  /\ dev.phase = "stalled"
  /\ Complete(e, FALSE, 0)
  /\ NoFault
  /\ UNCHANGED <<hostVars, xfer_buf, devVars>>

-----------------------------------------------------------------------------

HostStep(t) ==
  \/ Start(t)
  \/ LockScsi(t)
  \/ EnterTransfer(t)
  \/ Post(t)
  \/ TakeReport(t)
  \/ Timeout(t)
  \/ PostFails(t)
  \/ Refuse(t)

DevStep ==
  \/ DevTakeCbw
  \/ DevTakeData
  \/ DevSendData
  \/ DevSendStatus
  \/ \E e \in Eps : DevStall(e) \/ DevStalled(e)

\* Nothing to do: the bound on commands is spent and all have returned.
Done ==
  /\ nextTag > MaxCmds
  /\ \A t \in Threads : stage[t] = "idle"
  /\ UNCHANGED vars

Next == (\E t \in Threads : HostStep(t)) \/ DevStep \/ Done

\* The step of thread t inside a command.
Proceed(t) ==
  \/ LockScsi(t) \/ EnterTransfer(t) \/ Post(t)
  \/ TakeReport(t) \/ Timeout(t) \/ PostFails(t) \/ Refuse(t)

\* The kernel schedules a thread that can proceed, and eventWait ends: the
\* drive answers, or it cannot and the wait times out.
Fairness == (\A t \in Threads : WF_vars(Proceed(t))) /\ WF_vars(DevStep)

Spec     == Init /\ [][Next]_vars
FairSpec == Spec /\ Fairness
-----------------------------------------------------------------------------
(* Properties *)

\* Every variable holds a value of its kind.
HostType ==
  /\ scsiLock \in Threads \union {NoThread}
  /\ usbLock \in Threads \union {NoThread}
  /\ stage \in [Threads -> Stages]
  /\ sub \in [Threads -> Subs]
  /\ cmd \in [Threads -> Cmd]
  /\ data \in [Threads -> Data]
  /\ outcome \in [Threads -> Outcome]
  /\ nextTag \in Nat \ {0}

EpType == ep \in [Eps -> Endpoint]

DevType ==
  /\ dev \in Drive
  /\ accepted \subseteq Tags
  /\ lost \subseteq Tags
  /\ performed \subseteq Tags

TypeOK ==
  /\ HostType
  /\ EpType
  /\ DevType
  /\ xfer_buf \in Message
  /\ faults \in Nat
  /\ clean \in BOOLEAN

\* A locked command whose caller was told it succeeded.
Checked(o)   == o.cmd.kind \in {"command", "pass"}
Succeeded(o) == Checked(o) /\ o.ret >= 0

\* send_scsi_command[_pass] reports success only for a command the drive has
\* performed with good status, whatever timeouts, stalls, late URBs and bare
\* commands of other threads came in between.
SuccessGenuine ==
  \A t \in Threads : Succeeded(outcome[t]) => outcome[t].cmd.tag \in performed

\* While the wire is clean (no fault, no overlapping commands, no data stage that
\* usb_bulk_transfer refused), what send_scsi_command_pass counts is the whole of
\* its own command's data, and that is what its caller is given.  After a fault it
\* need not be: one CBW that times out is enough for a later command to take an
\* older report for its data, copy whatever the buffer holds, and succeed with its
\* own CSW.
OwnData ==
  clean => \A t \in Threads :
    LET o == outcome[t] IN
    o.cmd.kind = "pass" /\ o.cmd.dir = "in" /\ o.ret >= 0 =>
      o.ret = o.cmd.size /\ o.from = o.cmd.tag

\* While the wire is clean, a locked command fails only when the drive said so:
\* no command upsets the transfers of the next one.  A refused data stage does:
\* after UsbDvdInvalidateAGID the drive takes the next command's CBW for the eight
\* bytes, and that command fails unheard.
CleanVerdict ==
  clean => \A t \in Threads :
    Checked(outcome[t]) /\ outcome[t].cmd.tag \in performed => outcome[t].ret >= 0

\* While the wire is clean, host and drive are at the same stage of the same
\* command whenever a transfer begins, and nothing of an earlier transfer is left
\* on the endpoints.  This holds when a data stage is about to be refused, too; it
\* is the refusal that leaves the drive behind.
InStep ==
  clean => \A t \in Threads : Talking(t) /\ sub[t] = "enter" =>
    /\ \A e \in Eps : ep[e] = [inflight |-> <<>>, reports |-> <<>>, event |-> FALSE]
    /\ stage[t] = "cbw" <=> dev.phase = "idle"
    /\ stage[t] = "data" <=> dev.phase \in {"dataIn", "dataOut"}
    /\ stage[t] # "cbw" => dev.tag = cmd[t].tag

\* At most one command that takes scsi_operation_mutex is on the wire, and at
\* most one thread is inside a transfer.
Exclusive ==
  \A t, u \in Threads : t # u =>
    /\ ~(Talking(t) /\ Talking(u) /\ Locked(t) /\ Locked(u))
    /\ sub[t] = "enter" \/ sub[u] = "enter"

\* The drive takes a CBW a second time only if its answer to the first was lost
\* in a URB too small for a CSW.  A timed-out CBW stays posted and the buffer it is
\* sent from is reused, so two URBs can come to send one CBW; in between the drive
\* has to be idle again, for which it sends a CSW over the buffer.  Data stages
\* shorter than a CSW (4, 8 and 12 bytes) are the way round that.
OnceUnlessLost == [][DevTakeCbw /\ xfer_buf.tag \in accepted => xfer_buf.tag \in lost]_vars

\* Every command returns to its caller.
EveryCommandReturns == \A t \in Threads : stage[t] # "idle" ~> stage[t] = "idle"

\* The promise to the callers of the locked commands.
Verdict(o) == [tag |-> o.cmd.tag, success |-> Succeeded(o)]
Service == INSTANCE ScsiService WITH
  issued <- nextTag - 1,
  call   <- [t \in Threads |-> cmd[t].tag],
  answer <- [t \in Threads |-> Verdict(outcome[t])]
ServiceSpec == Service!SSpec
=============================================================================
