---------------------------- MODULE FileSession ----------------------------
(***************************************************************************)
(* What Dokan promises a file system application about the callbacks of    *)
(* one open file (DOKAN_OPERATIONS in dokanlib/dokan/dokan.h), with no     *)
(* IRP, event or pointer in sight: CreateFile comes first and, when it     *)
(* fails, is all there is; CloseFile comes last, after Cleanup, while no   *)
(* other callback of the file runs; and all of them are made by the        *)
(* application that the first was made by.                                 *)
(***************************************************************************)
CONSTANTS
  Opens,   \* file objects
  Ops,     \* callbacks between CreateFile and CloseFile, other than Cleanup
  Mounts   \* each mount is served by an application of its own

Callbacks == Ops \cup {"create", "cleanup", "close"}

VARIABLES
  call,    \* "none", "running", "done", and "failed" for a CreateFile
  owner    \* the mounts whose application has got a callback for the file

sessionVars == <<call, owner>>

Init ==
  /\ call = [o \in Opens |-> [k \in Callbacks |-> "none"]]
  /\ owner = [o \in Opens |-> {}]

Running(o) == {k \in Callbacks : call[o][k] = "running"}

\* When a callback may begin.
Due(o, k) ==
  CASE k = "create" -> TRUE
    [] k = "close"  -> call[o]["cleanup"] = "done" /\ Running(o) = {}
    [] OTHER        -> call[o]["create"] = "done" /\ call[o]["close"] = "none"

Begin(o, k) ==
  /\ call[o][k] = "none" /\ Due(o, k)
  /\ call' = [call EXCEPT ![o][k] = "running"]
  /\ \E m \in Mounts :
       /\ owner[o] \in {{}, {m}}
       /\ owner' = [owner EXCEPT ![o] = {m}]

Finish(o, k) ==
  /\ call[o][k] = "running"
  /\ \E result \in IF k = "create" THEN {"done", "failed"} ELSE {"done"} :
       call' = [call EXCEPT ![o][k] = result]
  /\ UNCHANGED owner

Next == \E o \in Opens, k \in Callbacks : Begin(o, k) \/ Finish(o, k)

Spec == Init /\ [][Next]_sessionVars
=============================================================================
