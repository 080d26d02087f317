----------------------------- MODULE ScsiService -----------------------------
(***************************************************************************)
(* What send_scsi_command and send_scsi_command_pass promise their         *)
(* callers, with the bus, the buffers and the locks left out: a call is    *)
(* given a tag of its own, the drive performs a call at any time after it  *)
(* was issued (even after the caller was told that it failed), and the     *)
(* caller is told that it succeeded only if the drive has performed it.    *)
(* The calls of the bare functions are answered without such a promise.    *)
(***************************************************************************)
EXTENDS Naturals

CONSTANT Threads

VARIABLES
  issued,     \* number of tags issued so far
  call,       \* the tag of each thread's open call, 0 when it has none
  performed,  \* tags the drive has performed with good status
  answer      \* the tag and the verdict each thread was given, until its next call

sVars == <<issued, call, performed, answer>>

NoAnswer == [tag |-> 0, success |-> FALSE]

SInit ==
  /\ issued = 0
  /\ call = [t \in Threads |-> 0]
  /\ performed = {}
  /\ answer = [t \in Threads |-> NoAnswer]

\* A thread issues a command, the first of its call or a REQUEST SENSE in it.
Issue(t) ==
  /\ issued' = issued + 1
  /\ call' = [call EXCEPT ![t] = issued + 1]
  /\ answer' = [answer EXCEPT ![t] = NoAnswer]
  /\ UNCHANGED performed

Perform(tag) ==
  /\ tag \in 1 .. issued
  /\ performed' = performed \union {tag}
  /\ UNCHANGED <<issued, call, answer>>

Answer(t) ==
  /\ call[t] # 0
  /\ \E success \in BOOLEAN :
       /\ success => call[t] \in performed
       /\ answer' = [answer EXCEPT ![t] = [tag |-> call[t], success |-> success]]
  /\ call' = [call EXCEPT ![t] = 0]
  /\ UNCHANGED <<issued, performed>>

SNext ==
  \/ \E t \in Threads : Issue(t) \/ Answer(t)
  \/ \E tag \in 1 .. issued : Perform(tag)

SSpec == SInit /\ [][SNext]_sVars
=============================================================================
