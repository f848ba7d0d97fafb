------------------------------ MODULE FileDisk ------------------------------
(***************************************************************************)
(* The directory of a file provider: one object file and one metadata file *)
(* per key, as the system calls of file.go change them.  Contents are the  *)
(* HTTP call that wrote them.  A process that opened a file keeps writing  *)
(* to it after it is unlinked, to no effect on the directory.              *)
(***************************************************************************)
EXTENDS Integers, FiniteSets

CONSTANTS
  Keys,      \* object identifiers
  Calls,     \* HTTP requests served by the provider
  NoCall,    \* the writer of nothing
  Size,      \* size of the body each call uploads
  MaxFaults  \* bound on the system calls that fail

ASSUME KeysFinite == IsFiniteSet(Keys)
ASSUME NoCallNew == NoCall \notin Calls
ASSUME SizeNat == Size \in [Calls -> Nat]
ASSUME MaxFaultsNat == MaxFaults \in Nat

VARIABLES
  file,   \* per key: the call whose upload is the file linked there
  whole,  \* calls whose upload is all written
  meta,   \* per key: the metadata file, and the calls that have it open
  faults  \* system calls that failed so far

diskVars == <<file, whole, meta, faults>>

NoMeta == [state |-> "absent", expires |-> 0, md |-> NoCall, open |-> {}]

Metas == [state : {"absent", "empty", "garbage", "whole"}, expires : Nat,
          md : Calls \cup {NoCall}, open : SUBSET Calls]

DiskTypeOK ==
  /\ file \in [Keys -> Calls \cup {NoCall}]
  /\ whole \subseteq Calls
  /\ meta \in [Keys -> Metas]
  /\ faults \in 0..MaxFaults

DiskInit ==
  /\ file = [k \in Keys |-> NoCall]
  /\ whole = {}
  /\ meta = [k \in Keys |-> NoMeta]
  /\ faults = 0

Linked(k) == file[k] # NoCall

\* Mutant: the error of json.Unmarshal is not looked at.
Loadable_AnyContent(k) == meta[k].state # "absent"

\* LoadMetadata finds a metadata file and can parse it.
Loadable(k) == meta[k].state = "whole"
SizeAt(k) == IF file[k] \in whole THEN Size[file[k]] ELSE 0

\* A system call fails.
Fault ==
  /\ faults < MaxFaults
  /\ faults' = faults + 1

\* os.OpenFile(O_CREATE|O_EXCL), on a path that does not exist.
CreateFile(k, c) == file' = [file EXCEPT ![k] = c]

\* The copy of the body, into the file the call created, linked or not.
WriteFile(c) == whole' = whole \cup {c}

Unlink(k) == file' = [file EXCEPT ![k] = NoCall]

\* os.Create: truncate, or create, the metadata file.
TruncateMeta(k, c) ==
  meta' = [meta EXCEPT ![k] =
             [NoMeta EXCEPT !.state = "empty", !.open = meta[k].open \cup {c}]]

\* What is at the path when c writes its record at offset 0 of a file that c
\* truncated: nothing, or what another call wrote since.  A shorter record, with
\* another metadata string, leaves that one's tail behind; none is shorter than
\* the record without a metadata string.
Mixes(k, m) ==
  CASE meta[k].state = "empty" -> {FALSE}
    [] meta[k].state = "whole" /\ meta[k].md \in {m, NoCall} -> {FALSE}
    [] OTHER -> BOOLEAN

\* f.Write, into the file c opened if it is still linked, and f.Close.
WriteMeta(k, c, e, m) ==
  IF c \notin meta[k].open THEN UNCHANGED meta
  ELSE \E mixed \in Mixes(k, m) :
         meta' = [meta EXCEPT ![k] =
                    IF mixed THEN [NoMeta EXCEPT !.state = "garbage",
                                               !.open = meta[k].open \ {c}]
                    ELSE [state |-> "whole", expires |-> e, md |-> m,
                          open |-> meta[k].open \ {c}]]

UnlinkMeta(k) == meta' = [meta EXCEPT ![k] = NoMeta]
=============================================================================
