---------------------------- MODULE AtomicUpload ----------------------------
(***************************************************************************)
(* What the chunked upload of the drive promises, with no request, cache   *)
(* or retry in sight: a file is opened, each of its chunks is recorded     *)
(* once, it is assembled when every chunk is there, and the owner is       *)
(* charged for it once.  ChunkUpload implements this specification.        *)
(***************************************************************************)
EXTENDS Naturals

CONSTANTS
  Files,        \* identities a file row may take
  TotalChunks   \* chunks of the uploaded file

VARIABLES
  opened,       \* the files that have a row
  stored,       \* stored[f][i]: how many times chunk i of f is recorded
  assembled,    \* the files whose size has been published
  charged       \* charged[f]: units added to the owner's usage for f

vars == <<opened, stored, assembled, charged>>

Chunks == 0 .. TotalChunks - 1

Init ==
  /\ opened = {}
  /\ stored = [f \in Files |-> [i \in Chunks |-> 0]]
  /\ assembled = {}
  /\ charged = [f \in Files |-> 0]

Open(f) ==
  /\ f \notin opened
  /\ opened' = opened \union {f}
  /\ UNCHANGED <<stored, assembled, charged>>

Store(f, i) ==
  /\ f \in opened \ assembled
  /\ stored[f][i] = 0
  /\ stored' = [stored EXCEPT ![f][i] = 1]
  /\ UNCHANGED <<opened, assembled, charged>>

Assemble(f) ==
  /\ f \in opened \ assembled
  /\ \A i \in Chunks : stored[f][i] = 1
  /\ assembled' = assembled \union {f}
  /\ UNCHANGED <<opened, stored, charged>>

Charge(f) ==
  /\ f \in assembled
  /\ charged[f] = 0
  /\ charged' = [charged EXCEPT ![f] = TotalChunks]
  /\ UNCHANGED <<opened, stored, assembled>>

Next ==
  \E f \in Files :
    \/ Open(f)
    \/ \E i \in Chunks : Store(f, i)
    \/ Assemble(f)
    \/ Charge(f)

Spec == Init /\ [][Next]_vars
=============================================================================
