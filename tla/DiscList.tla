------------------------------- MODULE DiscList -------------------------------
(***************************************************************************)
(* What the directory parsers of both disc file systems share: the list    *)
(* disc_dirlist they fill (fs/usbdvd_datadisc.h), the calls under way, one *)
(* to a directory, and the sectors these read, whose results nobody tests. *)
(*                                                                         *)
(* A path is its sequence of names.  A call's buffer is on the stack: if a *)
(* read fails, it holds nothing the parser recognises, or what a call at   *)
(* the same depth left there.                                              *)
(***************************************************************************)
EXTENDS Integers, Sequences, FiniteSets

CONSTANTS
  Discs,
  Names,      \* of files and directories
  System,     \* of each disc: "iso", "udf" or "audio"
  MaxDepth,   \* bound on the depth of directories
  MaxFaults   \* bound on the reads that fail

ASSUME ListAssumption ==
  /\ System \in [Discs -> {"iso", "udf", "audio"}]
  /\ MaxDepth \in Nat \ {0} /\ MaxFaults \in Nat

\* Names the parsers make of others, or of what is not one.
ASSUME NameAssumption == {"", ".", "..", "garbled", "nul"} \subseteq Names

VARIABLES
  disc,
  how,        \* a disc in the drive, or an image of it
  pc,         \* where the constructor is
  stack,      \* the calls under way, the innermost last
  dirlist,    \* disc_dirlist: of each entry, fullpath and isdir
  left,       \* what the last call at each depth read
  clean,      \* no read failed
  faults

shared == <<disc, how>>
reads  == <<left, clean, faults>>
listvars == <<disc, how, pc, stack, dirlist, left, clean, faults>>

ListInit ==
  /\ disc \in Discs /\ how \in {"drive", "image"} /\ pc = "mount"
  /\ stack = <<>> /\ dirlist = <<>>
  /\ left = [n \in 1..MaxDepth |-> <<>>]
  /\ clean = TRUE /\ faults = 0

Entry(path, isdir) == [path |-> path, isdir |-> isdir]

(* A call: the records of its directory, the number of the next one, the   *)
(* directory's path, the bytes to parse, and the entry for the directory   *)
(* if it is to be listed on return.                                        *)
Call(of, path, size, entry) ==
  [of |-> of, next |-> 1, path |-> path, size |-> size, entry |-> entry]

Top  == stack[Len(stack)]
Here == Top.of[Top.next]

\* A bug: records are stepped over twice.
AdvancedTwice == [stack EXCEPT ![Len(stack)].next = @ + 2]

\* A bug: the record of a directory itself, which is not listed, is not stepped over.
AdvancedIfListed ==
  IF Here.name \in {"", "."} THEN stack ELSE [stack EXCEPT ![Len(stack)].next = @ + 1]

\* The innermost call goes on to its next record.
Advanced == [stack EXCEPT ![Len(stack)].next = @ + 1]

\* A call at depth n reads a directory's records into its buffer.
ReadInto(n, of, got) ==
  /\ \/ got = of /\ UNCHANGED <<clean, faults>>
     \/ /\ faults < MaxFaults /\ faults' = faults + 1 /\ clean' = FALSE
        /\ got \in {<<>>, left[n]}
  /\ left' = [left EXCEPT ![n] = got]

\* The innermost call returns.
Return ==
  /\ stack' = SubSeq(stack, 1, Len(stack) - 1)
  /\ dirlist' = dirlist \o Top.entry
  /\ pc' = IF Len(stack) = 1 THEN "listed" ELSE "parse"
  /\ UNCHANGED <<shared, reads>>

(* Where the k-th of things that follow each other begins, the first at    *)
(* first, lens their lengths.                                              *)
Position(first, lens, k) ==
  LET at[j \in 1 .. Len(lens) + 1] == IF j = 1 THEN first ELSE at[j - 1] + lens[j - 1]
  IN  at[k]

ListTypeOK ==
  /\ disc \in Discs /\ how \in {"drive", "image"}
  /\ pc \in {"mount", "parse", "walk", "entry", "listed", "crashed"}
  /\ Len(stack) \in 0..MaxDepth
  /\ \A n \in DOMAIN stack : stack[n].next \in 1 .. Len(stack[n].of) + 1
  /\ (stack = <<>>) <=> (pc \in {"mount", "listed", "crashed"})
  /\ \A i \in DOMAIN dirlist : dirlist[i].isdir \in BOOLEAN /\ Len(dirlist[i].path) \in 1..MaxDepth
  /\ faults \in 0..MaxFaults /\ (clean <=> faults = 0)

(* All there is below a directory, whatever the parsers make of it: held   *)
(* gives the names, kinds and places of what the directory at a place      *)
(* holds.                                                                  *)
Held(held, at) == IF at \in DOMAIN held THEN held[at] ELSE {}
Node(path, isdir, at) == [path |-> path, isdir |-> isdir, at |-> at]
Below(held, x) == {Node(Append(x.path, e.name), e.isdir, e.at) : e \in Held(held, x.at)}

\* What there is at each depth.
Deeper(held, nodes) == UNION {Below(held, x) : x \in {y \in nodes : y.isdir}}
Levels(held, root) ==
  LET level[k \in 0..MaxDepth] ==
        IF k = 0 THEN {Node(<<>>, TRUE, root)} ELSE Deeper(held, level[k - 1])
  IN  level
TreeBelow(held, root) ==
  {Entry(x.path, x.isdir) : x \in UNION {Levels(held, root)[k] : k \in 1..MaxDepth}}

=============================================================================
