-------------------------- MODULE RenameDelete_proofs --------------------------
(***************************************************************************)
(* Proofs about RenameDelete, for any number of handles and names, any     *)
(* requests and any time-outs.                                             *)
(*                                                                         *)
(* An FCB has the name of its file unless it is known why not: that is     *)
(* NameInv, which follows the name into the events of the create and the   *)
(* cleanup, and through a rename between its callback and its answer.      *)
(***************************************************************************)
EXTENDS RenameDelete, TLAPS

-----------------------------------------------------------------------------
(* The invariant.                                                          *)

Ended(h, k)  == event[h][k] \in {"ran", "done"}
Active(h, k) == event[h][k] \in {"begun", "closed", "ran"}
Sound(h)     == astray[fcb[h]] = {}
Crossed(h)   == \E o \in Handles \ {h} : Moving(o) /\ own[o] = own[h]
Gone(f)      == f \in pendingDelete \/ \A n \in Names : disk[n] # f

\* How the IRP of a request and its event go together.
RequestInv(h, k) ==
  /\ irp[h][k] = "none" <=> event[h][k] = "none"
  /\ irp[h][k] = "pending" => event[h][k] # "done"
  /\ irp[h][k] = "done" /\ k # "close" => event[h][k] = "done"
  /\ event[h][k] # "none" => k \in Asked(h) /\ (k = "create" \/ Opened(h))

StageInv(h) ==
  /\ \A k \in AllKinds : RequestInv(h, k)
  /\ irp[h]["close"] # "none" => irp[h]["cleanup"] # "none" /\ Idle(h)

\* What a create and a rename carry is a name.
InputInv(h) ==
  /\ event[h]["create"] \in {"queued", "begun", "closed", "ran"} => name[h]["create"] \in Names
  /\ event[h]["rename"] \in {"queued", "begun", "closed", "ran"} => target[h].to \in Names

\* A handle is counted in its FCB from create to close.
FcbInv(h) ==
  /\ irp[h]["create"] = "none" => /\ fcbUsers[h] = {}
                                  /\ \A x \in Handles : fcb[x] # h /\ h \notin fcbUsers[x]
  /\ irp[h]["create"] # "none" => fcb[h] \in Handles
  /\ irp[h]["create"] # "none" /\ irp[h]["close"] = "none" => h \in fcbUsers[fcb[h]]

\* A file is new when it is created, and is there while a Win32 handle is open
\* on it; a Win32 handle is open on the file it was opened on.
FileInv(h) ==
  /\ ~Ended(h, "create") => /\ own[h] = None /\ context[h] = "null"
                            /\ \A o \in Handles : own[o] # h
                            /\ \A n \in Names : disk[n] # h
  /\ Ended(h, "create") => (own[h] = None <=> failed[h]["create"])
  /\ win32[h] \in {None, own[h]}
  /\ win32[h] # None => \E n \in Names : disk[n] = win32[h]

OutsideInv ==
  ~outside => (\A o \in Handles : own[o] # "outside") /\ \A n \in Names : disk[n] # "outside"

\* One callback at a time: Context, or its copy, tells whether the Win32
\* handle is open.
ContextInv(h) ==
  h \notin overlapped =>
    /\ \A j, k \in AllKinds : Active(h, j) /\ Active(h, k) => j = k
    /\ (\A k \in AllKinds : ~Active(h, k)) => (context[h] = "handle" <=> win32[h] # None)
    /\ \A k \in AllKinds : Active(h, k) => (copy[h][k] = "handle" <=> win32[h] # None)
    /\ Ended(h, "close") => win32[h] = None

\* The create on its way carries the name of the FCB.
CreateNamed(h) ==
  irp[h]["create"] = "pending" /\ event[h]["create"] \in {"queued", "begun", "closed"} /\ Sound(h) =>
    name[h]["create"] = fcbName[fcb[h]]

\* The FCB has the name of the file, or a rename is to be answered.
FcbNamed(h) ==
  /\ irp[h]["create"] \in {"pending", "done"} /\ Ended(h, "create")
  /\ irp[h]["close"] = "none" /\ Sound(h)
  => \A n \in Names : disk[n] = own[h] /\ disk[n] # None => fcbName[fcb[h]] = n \/ Renaming(h)

\* That rename has the name of the file, or another is to be answered.
RenameNamed(h) ==
  irp[h]["rename"] = "pending" /\ Moving(h) /\ Sound(h) =>
    \A n \in Names : disk[n] = own[h] => n = target[h].to \/ Crossed(h)

\* The cleanup on its way carries the name of the file.
CleanupNamed(h) ==
  event[h]["cleanup"] \in {"queued", "begun", "closed"} /\ Sound(h) /\ h \notin moved =>
    \A n \in Names : disk[n] = own[h] => name[h]["cleanup"] = n

NameInv(h) == CreateNamed(h) /\ FcbNamed(h) /\ RenameNamed(h) /\ CleanupNamed(h)

\* Without a rename the Win32 handle is there for the cleanup.
DeleteInv(h) ==
  /\ h \in strayed => (Undisturbed(h) => h \in outlived) /\ event[h]["cleanup"] # "none"
  /\ /\ Ended(h, "create") /\ ~failed[h]["create"] /\ h \notin overlapped
     /\ event[h]["cleanup"] \in {"none", "queued", "begun"}
     /\ event[h]["rename"] = "none" /\ event[h]["close"] = "none"
     => win32[h] # None

BaseInv ==
  /\ TypeOK /\ OutsideInv
  /\ \A h \in Handles : StageInv(h) /\ InputInv(h) /\ FcbInv(h) /\ FileInv(h)

IInv ==
  /\ BaseInv /\ DeleteDone /\ strayed \subseteq Handles
  /\ \A h \in Handles : ContextInv(h) /\ NameInv(h) /\ DeleteInv(h)

-----------------------------------------------------------------------------
(* What steps change.                                                      *)

\* G is F, with v for the request k of h.
Sets(G, F, h, k, v) ==
  /\ G[h][k] = v
  /\ \A o \in Handles, j \in AllKinds : o # h \/ j # k => G[o][j] = F[o][j]

\* Changing the entry of one request.
LEMMA SetEntry ==
  ASSUME NEW S, NEW F \in [Handles -> [AllKinds -> S]], NEW h \in Handles, NEW k \in AllKinds,
         NEW v \in S
  PROVE  /\ [F EXCEPT ![h][k] = v] \in [Handles -> [AllKinds -> S]]
         /\ Sets([F EXCEPT ![h][k] = v], F, h, k, v)
BY DEF Sets

\* Changing a function at one place.
LEMMA ExceptAt ==
  ASSUME NEW D, NEW S, NEW f \in [D -> S], NEW d \in D, NEW v \in S
  PROVE  /\ [f EXCEPT ![d] = v][d] = v
         /\ \A e \in D : e # d => [f EXCEPT ![d] = v][e] = f[e]
         /\ [f EXCEPT ![d] = v] \in [D -> S]
OBVIOUS

\* No file, handle or name is called "none", and a handle is not a name.
LEMMA NoneApart ==
  /\ None \notin Files /\ None \notin Names /\ None \notin Handles /\ "outside" \notin Handles
  /\ Names \subseteq Files /\ Handles \subseteq Files /\ "outside" \in Files
  /\ Names \cap Handles = {} /\ Names \subseteq FcbNames /\ None \in FcbNames
BY RenameDeleteAssumption DEF Files, None, FcbNames

\* The kinds of requests.
LEMMA KindsTyped ==
  /\ \A h \in Handles : Asked(h) \subseteq AllKinds
  /\ \A h \in Handles : {"create", "cleanup", "close"} \subseteq Asked(h)
  /\ {"create", "rename", "delete", "cleanup", "close"} = AllKinds
  /\ \A h \in Handles : Kinds[h] \subseteq Asked(h) /\ Kinds[h] \subseteq {"rename", "delete"}
BY RenameDeleteAssumption DEF Asked, AllKinds

\* The states and contexts that steps write.
LEMMA StatesListed ==
  /\ "pending" \in IrpStates /\ "done" \in IrpStates /\ "givenUp" \in IrpStates
  /\ "queued" \in EventStates /\ "begun" \in EventStates /\ "closed" \in EventStates
  /\ "ran" \in EventStates /\ "done" \in EventStates
  /\ "null" \in Contexts /\ "handle" \in Contexts
BY DEF IrpStates, EventStates, Contexts

\* What SendEvent writes.
LEMMA SendFacts ==
  ASSUME TypeOK, NEW h \in Handles, NEW k \in AllKinds, NEW n \in FcbNames, SendEvent(h, k, n)
  PROVE  /\ irp' \in [Handles -> [AllKinds -> IrpStates]] /\ Sets(irp', irp, h, k, "pending")
         /\ event' \in [Handles -> [AllKinds -> EventStates]] /\ Sets(event', event, h, k, "queued")
         /\ name' \in [Handles -> [AllKinds -> FcbNames]] /\ Sets(name', name, h, k, n)
<1>1. irp' \in [Handles -> [AllKinds -> IrpStates]] /\ Sets(irp', irp, h, k, "pending")
  BY SetEntry, StatesListed DEF TypeOK, SendEvent
<1>2. event' \in [Handles -> [AllKinds -> EventStates]] /\ Sets(event', event, h, k, "queued")
  BY SetEntry, StatesListed DEF TypeOK, SendEvent
<1>3. name' \in [Handles -> [AllKinds -> FcbNames]] /\ Sets(name', name, h, k, n)
  BY SetEntry DEF TypeOK, SendEvent
<1> QED BY <1>1, <1>2, <1>3

\* What a callback writes.
LEMMA RanFacts ==
  ASSUME TypeOK, NEW h \in Handles, NEW k \in AllKinds, NEW bad \in BOOLEAN, Ran(h, k, bad)
  PROVE  /\ event' \in [Handles -> [AllKinds -> EventStates]] /\ Sets(event', event, h, k, "ran")
         /\ failed' \in [Handles -> [AllKinds -> BOOLEAN]] /\ Sets(failed', failed, h, k, bad)
<1>1. event' \in [Handles -> [AllKinds -> EventStates]] /\ Sets(event', event, h, k, "ran")
  BY SetEntry, StatesListed DEF TypeOK, Ran
<1>2. failed' \in [Handles -> [AllKinds -> BOOLEAN]] /\ Sets(failed', failed, h, k, bad)
  <2>1. PICK B : B = BOOLEAN
    OBVIOUS
  <2>2. failed \in [Handles -> [AllKinds -> B]] /\ bad \in B
    BY <2>1, Zenon DEF TypeOK
  <2>3. failed' \in [Handles -> [AllKinds -> B]] /\ Sets(failed', failed, h, k, bad)
    BY <2>2, SetEntry DEF Ran
  <2> QED BY <2>1, <2>3, Zenon
<1> QED BY <1>1, <1>2

\* What an answer writes.
LEMMA AnsweredFacts ==
  ASSUME TypeOK, NEW h \in Handles, NEW k \in AllKinds, Answered(h, k)
  PROVE  /\ event' \in [Handles -> [AllKinds -> EventStates]] /\ Sets(event', event, h, k, "done")
         /\ name' \in [Handles -> [AllKinds -> FcbNames]] /\ Sets(name', name, h, k, None)
         /\ copy' \in [Handles -> [AllKinds -> Contexts]] /\ Sets(copy', copy, h, k, "null")
         /\ irp' \in [Handles -> [AllKinds -> IrpStates]]
         /\ Sets(irp', irp, h, k, IF irp[h][k] = "pending" THEN "done" ELSE irp[h][k])
         /\ context' \in [Handles -> Contexts] /\ context'[h] = copy[h][k]
         /\ \A o \in Handles : o # h => context'[o] = context[o]
<1>1. event' \in [Handles -> [AllKinds -> EventStates]] /\ Sets(event', event, h, k, "done")
  BY SetEntry, StatesListed DEF TypeOK, Answered
<1>2. name' \in [Handles -> [AllKinds -> FcbNames]] /\ Sets(name', name, h, k, None)
  BY SetEntry, NoneApart DEF TypeOK, Answered
<1>3. copy' \in [Handles -> [AllKinds -> Contexts]] /\ Sets(copy', copy, h, k, "null")
  BY SetEntry, StatesListed DEF TypeOK, Answered
<1>4. irp[h][k] \in IrpStates /\ "done" \in IrpStates
  BY StatesListed DEF TypeOK
<1>5. /\ irp' \in [Handles -> [AllKinds -> IrpStates]]
      /\ Sets(irp', irp, h, k, IF irp[h][k] = "pending" THEN "done" ELSE irp[h][k])
  BY <1>4, SetEntry DEF TypeOK, Answered
<1>6. /\ context' \in [Handles -> Contexts] /\ context'[h] = copy[h][k]
      /\ \A o \in Handles : o # h => context'[o] = context[o]
  BY ExceptAt DEF TypeOK, Answered
<1> QED BY <1>1, <1>2, <1>3, <1>5, <1>6

\* What DispatchCommon writes.
LEMMA BeginFacts ==
  ASSUME TypeOK, NEW h \in Handles, NEW k \in AllKinds, Begin(h, k)
  PROVE  /\ event' \in [Handles -> [AllKinds -> EventStates]] /\ Sets(event', event, h, k, "begun")
         /\ copy' \in [Handles -> [AllKinds -> Contexts]] /\ Sets(copy', copy, h, k, context[h])
<1>1. event' \in [Handles -> [AllKinds -> EventStates]] /\ Sets(event', event, h, k, "begun")
  BY SetEntry, StatesListed DEF TypeOK, Begin
<1>2. context[h] \in Contexts
  BY DEF TypeOK
<1>3. copy' \in [Handles -> [AllKinds -> Contexts]] /\ Sets(copy', copy, h, k, context[h])
  BY <1>2, SetEntry DEF TypeOK, Begin
<1> QED BY <1>1, <1>3

-----------------------------------------------------------------------------
(* The directory.                                                          *)

\* What a callback that closes its handle may do to the directory: files go,
\* and f may move.
Leaves(h, can, f) ==
  /\ win32' \in [Handles -> Files \cup {None}] /\ win32'[h] \in {None, win32[h]}
  /\ \A o \in Handles : o # h => win32'[o] = win32[o]
  /\ \A o \in Handles : win32'[o] # None => \E n \in Names : disk'[n] = win32'[o]
  /\ disk' \in [Names -> Files \cup {None}] /\ pendingDelete' \subseteq Files
  /\ \A m, n \in Names : disk'[m] = disk'[n] => m = n \/ disk'[m] = None
  /\ \A n \in Names : \/ disk'[n] = None \/ disk'[n] = disk[n]
                      \/ can /\ disk'[n] = f /\ n = target[h].to
  /\ can => f \in Files /\ \E m \in Names : disk[m] = f
  /\ \A g \in Files : Gone(g) => Gone(g)'
  /\ outside' = outside /\ own' = own

\* What closing a handle does.
LEMMA CloseFacts ==
  ASSUME BaseInv, NEW h \in Handles, NEW closing \in BOOLEAN, NEW c, c = Close(h, closing)
  PROVE  /\ c.disk \in [Names -> Files \cup {None}]
         /\ \A n \in Names : c.disk[n] = None \/ c.disk[n] = disk[n]
         /\ c.pending \subseteq pendingDelete
         /\ \A f \in pendingDelete : f \in c.pending \/ \A n \in Names : c.disk[n] # f
         /\ c.win32 \in [Handles -> Files \cup {None}]
         /\ closing => c.win32[h] = None
         /\ ~closing => c.win32[h] = win32[h]
         /\ \A o \in Handles : o # h => c.win32[o] = win32[o]
         /\ \A o \in Handles : c.win32[o] # None => \E n \in Names : c.disk[n] = c.win32[o]
<1>a. /\ disk \in [Names -> Files \cup {None}] /\ win32 \in [Handles -> Files \cup {None}]
      /\ pendingDelete \subseteq Files
      /\ \A o \in Handles : win32[o] # None => \E n \in Names : disk[n] = win32[o]
  BY DEF BaseInv, TypeOK, FileInv
<1>1. CASE ~closing
  <2>1. Vanish(disk, {}) = disk
    BY <1>a DEF Vanish
  <2>2. c.disk = disk /\ c.pending = pendingDelete /\ c.win32 = win32
    BY <1>1, <2>1 DEF Close
  <2> QED BY <1>1, <1>a, <2>2
<1>2. CASE closing
  <2> DEFINE gone == LastOf(h)
  <2>1. /\ c.disk = Vanish(disk, gone) /\ c.pending = pendingDelete \ gone
        /\ c.win32 = [win32 EXCEPT ![h] = None]
    BY <1>2 DEF Close
  <2>2. gone \subseteq pendingDelete /\ \A f \in gone : Holders(f) = {h}
    BY DEF LastOf
  <2> HIDE DEF gone
  <2>3. c.disk = [n \in Names |-> IF disk[n] \in gone THEN None ELSE disk[n]]
    BY <2>1 DEF Vanish
  <2>4. /\ c.disk \in [Names -> Files \cup {None}]
        /\ \A n \in Names : c.disk[n] = None \/ c.disk[n] = disk[n]
    BY <2>3, <1>a
  <2>5. /\ c.pending \subseteq pendingDelete
        /\ \A f \in pendingDelete : f \in c.pending \/ \A n \in Names : c.disk[n] # f
    BY <2>1, <2>3, <2>2, <1>a, NoneApart
  <2>6. /\ c.win32 \in [Handles -> Files \cup {None}] /\ c.win32[h] = None
        /\ \A o \in Handles : o # h => c.win32[o] = win32[o]
    BY <2>1, <1>a, ExceptAt
  <2>7. ASSUME NEW o \in Handles, c.win32[o] # None
        PROVE  \E n \in Names : c.disk[n] = c.win32[o]
    <3>1. o # h /\ c.win32[o] = win32[o]
      BY <2>6, <2>7
    <3>2. win32[o] \notin gone
      BY <3>1, <2>2 DEF Holders
    <3>3. PICK n \in Names : disk[n] = win32[o]
      BY <3>1, <2>7, <1>a
    <3> QED BY <3>1, <3>2, <3>3, <2>3
  <2> QED BY <1>2, <2>4, <2>5, <2>6, <2>7
<1> QED BY <1>1, <1>2

\* What MirrorCreateFile does: the file that the name has, or a new one, is
\* opened, or nothing at all.
Fails(h) ==
  /\ Sets(failed', failed, h, "create", TRUE)
  /\ UNCHANGED <<copy, disk, win32, own>>

Opens(h, f) ==
  /\ Sets(failed', failed, h, "create", FALSE) /\ Sets(copy', copy, h, "create", "handle")
  /\ win32'[h] = f /\ own'[h] = f /\ disk'[name[h]["create"]] = f
  /\ \A o \in Handles : o # h => win32'[o] = win32[o] /\ own'[o] = own[o]
  /\ \A n \in Names : n # name[h]["create"] => disk'[n] = disk[n]
  /\ disk[name[h]["create"]] = f \/ (disk[name[h]["create"]] = None /\ f = h)

Creates(h) ==
  /\ TypeOK' /\ event[h]["create"] = "begun" /\ Sets(event', event, h, "create", "ran")
  /\ name[h]["create"] \in Names
  /\ UNCHANGED <<fcbVars, irp, name, target, deletes, context, overlapped, pendingDelete,
                 outside, astray, moved, outlived, strayed, refused>>
  /\ Fails(h) \/ \E f \in Files : Opens(h, f)

\* MirrorCreateFile.
LEMMA CreateFacts ==
  ASSUME BaseInv, NEW h \in Handles, MirrorCreateFile(h)
  PROVE  Creates(h)
<1> DEFINE n == name[h]["create"]
<1>a. /\ TypeOK /\ "create" \in AllKinds /\ event[h]["create"] = "begun"
      /\ n \in Names /\ \A m \in Names : disk[m] # h
  BY KindsTyped DEF BaseInv, InputInv, FileInv, Ended, MirrorCreateFile, Ran
<1>b. UNCHANGED <<fcbVars, irp, name, target, deletes, context, overlapped, pendingDelete,
                  outside, astray, moved, outlived, strayed, refused>>
  BY DEF MirrorCreateFile, Ran, diskVars, cleaned
<1>c. \/ Ran(h, "create", TRUE) /\ UNCHANGED <<copy, disk, win32, own>>
      \/ \E f \in Files :
           /\ Ran(h, "create", FALSE) /\ win32' = [win32 EXCEPT ![h] = f]
           /\ own' = [own EXCEPT ![h] = f] /\ copy' = [copy EXCEPT ![h]["create"] = "handle"]
           /\ (disk[n] = f /\ disk' = disk) \/ (disk[n] = None /\ f = h /\ disk' = [disk EXCEPT ![n] = h])
  <2>1. /\ disk[n] \in Files \cup {None} /\ h \in Files
        /\ CanOpen(n) => disk[n] # None
    BY <1>a, NoneApart DEF TypeOK, CanOpen, FileAt
  <2>2. CASE Ran(h, "create", FALSE) /\ CanOpen(n) /\ win32' = [win32 EXCEPT ![h] = disk[n]]
             /\ own' = [own EXCEPT ![h] = disk[n]] /\ copy' = [copy EXCEPT ![h]["create"] = "handle"]
             /\ disk' = disk
    <3>1. disk[n] \in Files
      BY <2>1, <2>2
    <3> QED BY <3>1, <2>2
  <2>3. CASE Ran(h, "create", FALSE) /\ disk[n] = None /\ disk' = [disk EXCEPT ![n] = h]
             /\ win32' = [win32 EXCEPT ![h] = h] /\ own' = [own EXCEPT ![h] = h]
             /\ copy' = [copy EXCEPT ![h]["create"] = "handle"]
    BY <2>1, <2>3
  <2>4. CASE Ran(h, "create", TRUE) /\ UNCHANGED <<copy, diskVars, own>>
    BY <2>4 DEF diskVars
  <2> QED BY <2>2, <2>3, <2>4, Zenon DEF MirrorCreateFile
<1>1. CASE Ran(h, "create", TRUE) /\ UNCHANGED <<copy, disk, win32, own>>
  <2>1. /\ event' \in [Handles -> [AllKinds -> EventStates]] /\ Sets(event', event, h, "create", "ran")
        /\ failed' \in [Handles -> [AllKinds -> BOOLEAN]] /\ Sets(failed', failed, h, "create", TRUE)
    BY <1>1, <1>a, RanFacts
  <2>2. TypeOK'
    BY <1>1, <1>a, <1>b, <2>1 DEF TypeOK, fcbVars
  <2> QED BY <1>1, <1>a, <1>b, <2>1, <2>2 DEF Creates, Fails
<1>2. ASSUME NEW f \in Files, Ran(h, "create", FALSE), win32' = [win32 EXCEPT ![h] = f],
             own' = [own EXCEPT ![h] = f], copy' = [copy EXCEPT ![h]["create"] = "handle"],
             (disk[n] = f /\ disk' = disk) \/ (disk[n] = None /\ f = h /\ disk' = [disk EXCEPT ![n] = h])
      PROVE  TypeOK' /\ Sets(event', event, h, "create", "ran") /\ Opens(h, f)
  <2>1. /\ event' \in [Handles -> [AllKinds -> EventStates]] /\ Sets(event', event, h, "create", "ran")
        /\ failed' \in [Handles -> [AllKinds -> BOOLEAN]] /\ Sets(failed', failed, h, "create", FALSE)
    BY <1>2, <1>a, RanFacts
  <2>2. /\ copy' \in [Handles -> [AllKinds -> Contexts]]
        /\ Sets(copy', copy, h, "create", "handle")
    BY <1>2, <1>a, SetEntry, StatesListed DEF TypeOK
  <2>3. /\ win32' \in [Handles -> Files \cup {None}] /\ own' \in [Handles -> Files \cup {None}]
        /\ win32'[h] = f /\ own'[h] = f
        /\ \A o \in Handles : o # h => win32'[o] = win32[o] /\ own'[o] = own[o]
    BY <1>2, <1>a, ExceptAt DEF TypeOK
  <2>4. /\ disk' \in [Names -> Files \cup {None}] /\ disk'[n] = f
        /\ \A m \in Names : m # n => disk'[m] = disk[m]
    <3>1. disk \in [Names -> Files \cup {None}] /\ n \in Names
      BY <1>a DEF TypeOK
    <3> HIDE DEF n
    <3>2. CASE disk[n] = f /\ disk' = disk
      BY <3>1, <3>2
    <3>3. CASE disk[n] = None /\ f = h /\ disk' = [disk EXCEPT ![n] = h]
      BY <3>1, <3>3
    <3> QED BY <1>2, <3>2, <3>3
  <2>5. \A l, m \in Names : disk'[l] = disk'[m] => l = m \/ disk'[l] = None
    BY <1>2, <1>a, <2>4 DEF TypeOK
  <2>6. TypeOK'
    BY <1>a, <1>b, <2>1, <2>2, <2>3, <2>4, <2>5 DEF TypeOK, fcbVars
  <2> QED BY <1>2, <2>1, <2>2, <2>3, <2>4, <2>6 DEF Opens
<1> QED BY <1>a, <1>b, <1>c, <1>1, <1>2 DEF Creates

\* What MirrorMoveFile does, to the file f if it can be moved.
Moves(h, can, f) ==
  /\ TypeOK' /\ Leaves(h, can, f)
  /\ event[h]["rename"] = "closed" /\ Sets(event', event, h, "rename", "ran")
  /\ Sets(failed', failed, h, "rename", ~can)
  /\ can => \A n \in Names : disk'[n] = f => n = target[h].to
  /\ moved' = moved \cup
       {o \in Handles : can /\ own[o] = f /\ event[o]["cleanup"] \in {"queued", "begun", "closed"}}
  /\ \A x \in Handles :
       /\ astray[x] \subseteq astray'[x]
       /\ can /\ f # own[h] /\ (x = fcb[h] \/ \E o \in fcbUsers[x] : own[o] = f) =>
            astray'[x] # {}
  /\ UNCHANGED <<fcbVars, irp, name, copy, target, deletes, context, win32, overlapped, outlived,
                 strayed, refused>>

\* MirrorMoveFile: the file may get its new name.
LEMMA MoveFacts ==
  ASSUME BaseInv, NEW h \in Handles, MirrorMoveFile(h)
  PROVE  \E can \in BOOLEAN, f \in Files \cup {None} : Moves(h, can, f)
<1> DEFINE n == name[h]["rename"]
<1> DEFINE t == target[h]
<1> DEFINE f == FileAt(n)
<1> DEFINE can == CanOpen(n) /\ (disk[t.to] = None \/ (t.replace /\ Holders(disk[t.to]) = {}))
<1>a. TypeOK /\ "rename" \in AllKinds /\ event[h]["rename"] = "closed" /\ t.to \in Names
  BY KindsTyped DEF BaseInv, InputInv, MirrorMoveFile
<1>b. /\ Ran(h, "rename", ~can)
      /\ disk' = IF can THEN MoveFile(disk, n, t.to) ELSE disk
      /\ moved' = moved \cup
           {o \in Handles :
              can /\ own[o] = f /\ event[o]["cleanup"] \in {"queued", "begun", "closed"}}
      /\ astray' = [x \in Handles |-> astray[x] \cup
           (IF can /\ f # own[h] /\ (x = fcb[h] \/ \E o \in fcbUsers[x] : own[o] = f)
            THEN {"other file"} ELSE {})]
      /\ UNCHANGED <<copy, win32, pendingDelete, outside, own, outlived, strayed, refused>>
  BY DEF MirrorMoveFile, cleaned
<1>c. UNCHANGED <<fcbVars, irp, name, copy, target, deletes, context, win32, overlapped, outlived,
                  strayed, refused>>
  BY <1>b DEF Ran
<1>d. /\ disk \in [Names -> Files \cup {None}] /\ win32 \in [Handles -> Files \cup {None}]
      /\ pendingDelete \subseteq Files
      /\ \A o \in Handles : win32[o] # None => \E m \in Names : disk[m] = win32[o]
      /\ \A l, m \in Names : disk[l] = disk[m] => l = m \/ disk[l] = None
  BY DEF BaseInv, TypeOK, FileInv
<1>e. f \in Files \cup {None} /\ (f # None => n \in Names /\ f = disk[n])
      /\ (can => /\ f # None /\ f \notin pendingDelete
                 /\ \A o \in Handles : win32[o] # None => win32[o] # disk[t.to])
  BY <1>d DEF FileAt, CanOpen, Holders
<1>f. can \in BOOLEAN
  BY DEF CanOpen
<1>g. /\ \A m \in Names : \/ disk'[m] = None \/ disk'[m] = disk[m]
                          \/ can /\ disk'[m] = f /\ m = t.to
      /\ \A m \in Names : m # n /\ m # t.to => disk'[m] = disk[m]
      /\ can => disk'[t.to] = f /\ (n # t.to => disk'[n] = None)
      /\ ~can => disk' = disk
      /\ disk' \in [Names -> Files \cup {None}]
  <2>1. CASE can
    <3> HIDE DEF can
    <3>1. disk' = [disk EXCEPT ![n] = None, ![t.to] = disk[n]]
      BY <1>b, <2>1 DEF MoveFile
    <3>2. n \in Names /\ f = disk[n]
      BY <1>e, <2>1
    <3> HIDE DEF f, n, t
    <3> QED BY <3>1, <3>2, <2>1, <1>d, <1>a
  <2>2. CASE ~can
    BY <1>b, <2>2, <1>d
  <2> QED BY <2>1, <2>2
<1> HIDE DEF can, f, n, t
<1>i. /\ \A l, m \in Names : disk'[l] = disk'[m] => l = m \/ disk'[l] = None
      /\ can => \A m \in Names : disk'[m] = f => m = t.to
      /\ can => f \in Files /\ \E m \in Names : disk[m] = f
  <2>1. CASE ~can
    BY <2>1, <1>g, <1>d
  <2>2. CASE can
    <3>1. n \in Names /\ f = disk[n] /\ f # None
      BY <2>2, <1>e
    <3>2. \A m \in Names : disk'[m] = f => m = t.to
      BY <2>2, <3>1, <1>g, <1>d
    <3> QED BY <2>2, <3>1, <3>2, <1>g, <1>d, <1>e
  <2> QED BY <2>1, <2>2
<1>j. \A o \in Handles : win32[o] # None => \E m \in Names : disk'[m] = win32[o]
  <2> SUFFICES ASSUME NEW o \in Handles, win32[o] # None
               PROVE  \E m \in Names : disk'[m] = win32[o]
    OBVIOUS
  <2>1. PICK m \in Names : disk[m] = win32[o]
    BY <1>d
  <2>2. CASE can
    <3>1. m # t.to
      BY <2>1, <2>2, <1>e
    <3>2. m = n => disk'[t.to] = win32[o]
      BY <2>1, <2>2, <1>e, <1>g
    <3> QED BY <2>1, <3>1, <3>2, <1>g, <1>a
  <2> QED BY <2>1, <2>2, <1>g
<1>k. \A g \in Files : Gone(g) => Gone(g)'
  <2> SUFFICES ASSUME NEW g \in Files, Gone(g) PROVE Gone(g)'
    OBVIOUS
  <2>2. CASE can
    <3>1. (\A m \in Names : disk[m] # g) => \A m \in Names : disk'[m] # g
      BY <2>2, <1>g, <1>e, NoneApart
    <3> QED BY <3>1, <1>b DEF Gone
  <2>3. CASE ~can
    BY <2>3, <1>g, <1>b DEF Gone
  <2> QED BY <2>2, <2>3
<1>n. Leaves(h, can, f)
  BY <1>b, <1>d, <1>g, <1>i, <1>j, <1>k DEF Leaves, t
<1>o. /\ event' \in [Handles -> [AllKinds -> EventStates]] /\ Sets(event', event, h, "rename", "ran")
      /\ failed' \in [Handles -> [AllKinds -> BOOLEAN]] /\ Sets(failed', failed, h, "rename", ~can)
  BY <1>b, <1>a, <1>f, RanFacts
<1>q. /\ astray' \in [Handles -> SUBSET Reasons]
      /\ \A x \in Handles :
           /\ astray[x] \subseteq astray'[x]
           /\ can /\ f # own[h] /\ (x = fcb[h] \/ \E o \in fcbUsers[x] : own[o] = f) =>
                astray'[x] # {}
  BY <1>b, <1>a DEF TypeOK, Reasons
<1>r. TypeOK'
  BY <1>a, <1>b, <1>c, <1>g, <1>i, <1>o, <1>q DEF TypeOK, fcbVars
<1>s. Moves(h, can, f)
  BY <1>a, <1>b, <1>c, <1>i, <1>n, <1>o, <1>q, <1>r DEF Moves, t
<1> QED BY <1>e, <1>f, <1>s

\* What MirrorCleanup does after closing, and to the file f if it deletes one.
Cleans(h, f) ==
  /\ TypeOK' /\ Leaves(h, FALSE, None)
  /\ event[h]["cleanup"] = "closed" /\ Sets(event', event, h, "cleanup", "ran")
  /\ Sets(failed', failed, h, "cleanup", FALSE)
  /\ f # None => /\ name[h]["cleanup"] \in Names /\ disk[name[h]["cleanup"]] = f /\ Gone(f)'
  /\ deletes[h] /\ h \notin refused' => f = FileAt(name[h]["cleanup"])
  /\ outlived' = IF \A n \in Names : disk[n] # own[h] THEN outlived \cup {h} ELSE outlived
  /\ strayed' = IF f \notin {None, own[h]} THEN strayed \cup {h} ELSE strayed
  /\ refused \subseteq refused'
  /\ UNCHANGED <<fcbVars, irp, name, copy, target, deletes, context, win32, overlapped, astray,
                 moved>>

\* MirrorCleanup, when the handle has been closed.
LEMMA CleanupFacts ==
  ASSUME BaseInv, NEW h \in Handles, MirrorCleanup(h), event[h]["cleanup"] = "closed"
  PROVE  \E f \in Files \cup {None} : Cleans(h, f)
<1> DEFINE n == name[h]["cleanup"]
<1>a. TypeOK /\ "cleanup" \in AllKinds
  BY KindsTyped DEF BaseInv
<1>1. PICK f : /\ f \in {None, FileAt(n)} /\ (deletes[h] /\ h \notin refused' => f = FileAt(n))
               /\ disk' = IF Holders(f) = {} THEN Vanish(disk, {f}) ELSE disk
               /\ pendingDelete' = IF f # None /\ Holders(f) # {}
                                   THEN pendingDelete \cup {f} ELSE pendingDelete
               /\ strayed' = IF f \notin {None, own[h]} THEN strayed \cup {h} ELSE strayed
               /\ refused \subseteq refused'
  <2>1. PICK fails \in BOOLEAN :
          LET file == IF fails THEN None ELSE FileAt(n) IN
          /\ disk' = IF Holders(file) = {} THEN Vanish(disk, {file}) ELSE disk
          /\ pendingDelete' = IF file # None /\ Holders(file) # {}
                              THEN pendingDelete \cup {file} ELSE pendingDelete
          /\ strayed' = IF file \notin {None, own[h]} THEN strayed \cup {h} ELSE strayed
          /\ refused' = IF Deletes(h) /\ fails THEN refused \cup {h} ELSE refused
    BY DEF MirrorCleanup
  <2>2. PICK file : file = IF fails THEN None ELSE FileAt(n)
    OBVIOUS
  <2>3. deletes[h] /\ h \notin refused' => ~fails
    BY <2>1 DEF Deletes
  <2> QED BY <2>1, <2>2, <2>3
<1>b. /\ Ran(h, "cleanup", FALSE)
      /\ outlived' = IF \A m \in Names : disk[m] # own[h] THEN outlived \cup {h} ELSE outlived
      /\ UNCHANGED <<copy, win32, outside, own, astray, moved>>
  BY DEF MirrorCleanup
<1>c. UNCHANGED <<fcbVars, irp, name, copy, target, deletes, context, win32, overlapped, astray,
                  moved>>
  BY <1>b DEF Ran
<1>d. /\ disk \in [Names -> Files \cup {None}] /\ win32 \in [Handles -> Files \cup {None}]
      /\ pendingDelete \subseteq Files
      /\ \A o \in Handles : win32[o] # None => \E m \in Names : disk[m] = win32[o]
      /\ \A l, m \in Names : disk[l] = disk[m] => l = m \/ disk[l] = None
  BY DEF BaseInv, TypeOK, FileInv
<1>e. f \in Files \cup {None} /\ (f # None => n \in Names /\ f = disk[n])
  BY <1>1, <1>d DEF FileAt
<1> DEFINE open == \E o \in Handles : win32[o] = f
<1>f. /\ disk' \in [Names -> Files \cup {None}]
      /\ \A m \in Names : disk'[m] = None \/ disk'[m] = disk[m]
      /\ \A m \in Names : disk'[m] # disk[m] => ~open /\ disk[m] = f
      /\ ~open => f = None \/ \A m \in Names : disk'[m] # f
  <2>1. open <=> Holders(f) # {}
    BY DEF Holders
  <2> HIDE DEF open, n
  <2>2. CASE open
    BY <2>1, <2>2, <1>1, <1>d
  <2>3. CASE ~open
    <3>1. disk' = [m \in Names |-> IF disk[m] \in {f} THEN None ELSE disk[m]]
      BY <2>1, <2>3, <1>1 DEF Vanish
    <3> QED BY <3>1, <2>3, <1>d
  <2> QED BY <2>2, <2>3
<1>g. /\ pendingDelete' \subseteq Files /\ pendingDelete \subseteq pendingDelete'
      /\ f # None /\ open => f \in pendingDelete'
  BY <1>1, <1>d, <1>e DEF Holders
<1>h. \A o \in Handles : win32[o] # None => \E m \in Names : disk'[m] = win32[o]
  <2> SUFFICES ASSUME NEW o \in Handles, win32[o] # None
               PROVE  \E m \in Names : disk'[m] = win32[o]
    OBVIOUS
  <2>1. PICK m \in Names : disk[m] = win32[o]
    BY <1>d
  <2>2. disk'[m] = disk[m]
    BY <2>1, <1>f
  <2> QED BY <2>1, <2>2
<1> HIDE DEF open, n
<1>i. \A l, m \in Names : disk'[l] = disk'[m] => l = m \/ disk'[l] = None
  BY <1>d, <1>f
<1>j. \A g \in Files : Gone(g) => Gone(g)'
  BY <1>f, <1>g, NoneApart DEF Gone
<1>k. f # None => Gone(f)'
  BY <1>f, <1>g DEF Gone
<1>m. Leaves(h, FALSE, None)
  BY <1>b, <1>d, <1>f, <1>g, <1>h, <1>i, <1>j DEF Leaves
<1>n. /\ event' \in [Handles -> [AllKinds -> EventStates]] /\ Sets(event', event, h, "cleanup", "ran")
      /\ failed' \in [Handles -> [AllKinds -> BOOLEAN]] /\ Sets(failed', failed, h, "cleanup", FALSE)
  BY <1>b, <1>a, RanFacts
<1>p. TypeOK'
  BY <1>a, <1>b, <1>c, <1>f, <1>g, <1>i, <1>n DEF TypeOK, fcbVars
<1>r. Cleans(h, f)
  BY <1>1, <1>b, <1>c, <1>e, <1>k, <1>m, <1>n, <1>p DEF Cleans, n
<1> QED BY <1>e, <1>r

\* What MirrorCloseFile does.
Closes(h) ==
  /\ TypeOK' /\ Leaves(h, FALSE, None)
  /\ event[h]["close"] = "begun" /\ Sets(event', event, h, "close", "ran")
  /\ Sets(failed', failed, h, "close", FALSE) /\ Sets(copy', copy, h, "close", "null")
  /\ copy[h]["close"] = "handle" => win32'[h] = None
  /\ copy[h]["close"] # "handle" => win32'[h] = win32[h]
  /\ UNCHANGED <<fcbVars, irp, name, target, deletes, context, overlapped, astray, moved, outlived,
                 strayed, refused>>

\* MirrorCloseFile.
LEMMA CloseFileFacts ==
  ASSUME BaseInv, NEW h \in Handles, MirrorCloseFile(h)
  PROVE  Closes(h)
<1> DEFINE closing == copy[h]["close"] = "handle"
<1>0. PICK c : c = Close(h, closing)
  OBVIOUS
<1>a. TypeOK /\ "close" \in AllKinds /\ event[h]["close"] = "begun"
  BY KindsTyped DEF BaseInv, MirrorCloseFile
<1>b. /\ Ran(h, "close", FALSE)
      /\ disk' = c.disk /\ win32' = c.win32 /\ pendingDelete' = c.pending
      /\ copy' = [copy EXCEPT ![h]["close"] = "null"]
      /\ UNCHANGED <<outside, own, astray, moved, outlived, strayed, refused>>
  BY <1>0 DEF MirrorCloseFile, cleaned
<1>c. UNCHANGED <<fcbVars, irp, name, target, deletes, context, overlapped, astray, moved, outlived,
                  strayed, refused>>
  BY <1>b DEF Ran
<1>d. /\ c.disk \in [Names -> Files \cup {None}]
      /\ \A m \in Names : c.disk[m] = None \/ c.disk[m] = disk[m]
      /\ c.pending \subseteq pendingDelete
      /\ \A g \in pendingDelete : g \in c.pending \/ \A m \in Names : c.disk[m] # g
      /\ c.win32 \in [Handles -> Files \cup {None}]
      /\ closing => c.win32[h] = None
      /\ ~closing => c.win32[h] = win32[h]
      /\ \A o \in Handles : o # h => c.win32[o] = win32[o]
      /\ \A o \in Handles : c.win32[o] # None => \E m \in Names : c.disk[m] = c.win32[o]
  <2>1. closing \in BOOLEAN
    OBVIOUS
  <2> HIDE DEF closing
  <2> QED BY <1>0, <2>1, CloseFacts
<1> HIDE DEF closing
<1>e. \A l, m \in Names : disk'[l] = disk'[m] => l = m \/ disk'[l] = None
  BY <1>a, <1>b, <1>d DEF TypeOK
<1>f. \A g \in Files : Gone(g) => Gone(g)'
  BY <1>b, <1>d, NoneApart DEF Gone
<1>g. pendingDelete' \subseteq Files
  BY <1>b, <1>d, <1>a DEF TypeOK
<1>h. /\ win32' \in [Handles -> Files \cup {None}] /\ win32'[h] \in {None, win32[h]}
      /\ \A o \in Handles : o # h => win32'[o] = win32[o]
      /\ closing => win32'[h] = None
      /\ ~closing => win32'[h] = win32[h]
  BY <1>b, <1>d
<1>m. Leaves(h, FALSE, None)
  BY <1>b, <1>d, <1>e, <1>f, <1>g, <1>h DEF Leaves
<1>n. /\ event' \in [Handles -> [AllKinds -> EventStates]] /\ Sets(event', event, h, "close", "ran")
      /\ failed' \in [Handles -> [AllKinds -> BOOLEAN]] /\ Sets(failed', failed, h, "close", FALSE)
  BY <1>b, <1>a, RanFacts
<1>o. /\ copy' \in [Handles -> [AllKinds -> Contexts]] /\ Sets(copy', copy, h, "close", "null")
  BY <1>b, <1>a, SetEntry, StatesListed DEF TypeOK
<1>p. TypeOK'
  BY <1>a, <1>b, <1>c, <1>d, <1>e, <1>g, <1>n, <1>o DEF TypeOK, fcbVars
<1> QED BY <1>a, <1>b, <1>c, <1>h, <1>m, <1>n, <1>o, <1>p DEF Closes, closing

\* What closing its handle first does in MirrorMoveFile and MirrorCleanup.
Shuts(h, k) ==
  /\ TypeOK' /\ Leaves(h, FALSE, None) /\ k \in {"rename", "cleanup"}
  /\ event[h][k] = "begun" /\ Sets(event', event, h, k, "closed")
  /\ Sets(copy', copy, h, k, "null")
  /\ copy[h][k] = "handle" => win32'[h] = None
  /\ copy[h][k] # "handle" => win32'[h] = win32[h]
  /\ k = "cleanup" => copy[h][k] = "handle"
  /\ UNCHANGED <<fcbVars, irp, name, failed, target, deletes, context, overlapped, astray, moved,
                 outlived, strayed, refused>>

\* CloseHandle.
LEMMA CloseHandleFacts ==
  ASSUME BaseInv, NEW h \in Handles, NEW k \in {"rename", "cleanup"}, CloseHandle(h, k)
  PROVE  Shuts(h, k)
<1> DEFINE closing == copy[h][k] = "handle"
<1>0. PICK c : c = Close(h, closing)
  OBVIOUS
<1>a. TypeOK /\ k \in AllKinds /\ event[h][k] = "begun"
  BY KindsTyped DEF BaseInv, CloseHandle
<1>b. /\ event' = [event EXCEPT ![h][k] = "closed"]
      /\ disk' = c.disk /\ win32' = c.win32 /\ pendingDelete' = c.pending
      /\ copy' = [copy EXCEPT ![h][k] = "null"]
      /\ UNCHANGED <<outside, own, astray, moved, outlived, strayed, refused>>
      /\ k = "cleanup" => copy[h][k] = "handle"
  BY <1>0 DEF CloseHandle, history
<1>c. UNCHANGED <<fcbVars, irp, name, failed, target, deletes, context, overlapped, astray, moved,
                  outlived, strayed, refused>>
  BY DEF CloseHandle, history
<1>d. /\ c.disk \in [Names -> Files \cup {None}]
      /\ \A m \in Names : c.disk[m] = None \/ c.disk[m] = disk[m]
      /\ c.pending \subseteq pendingDelete
      /\ \A g \in pendingDelete : g \in c.pending \/ \A m \in Names : c.disk[m] # g
      /\ c.win32 \in [Handles -> Files \cup {None}]
      /\ closing => c.win32[h] = None
      /\ ~closing => c.win32[h] = win32[h]
      /\ \A o \in Handles : o # h => c.win32[o] = win32[o]
      /\ \A o \in Handles : c.win32[o] # None => \E m \in Names : c.disk[m] = c.win32[o]
  <2>1. closing \in BOOLEAN
    OBVIOUS
  <2> HIDE DEF closing
  <2> QED BY <1>0, <2>1, CloseFacts
<1> HIDE DEF closing
<1>e. \A l, m \in Names : disk'[l] = disk'[m] => l = m \/ disk'[l] = None
  BY <1>a, <1>b, <1>d DEF TypeOK
<1>f. \A g \in Files : Gone(g) => Gone(g)'
  BY <1>b, <1>d, NoneApart DEF Gone
<1>g. pendingDelete' \subseteq Files
  BY <1>b, <1>d, <1>a DEF TypeOK
<1>h. /\ win32' \in [Handles -> Files \cup {None}] /\ win32'[h] \in {None, win32[h]}
      /\ \A o \in Handles : o # h => win32'[o] = win32[o]
      /\ closing => win32'[h] = None
      /\ ~closing => win32'[h] = win32[h]
  BY <1>b, <1>d
<1>m. Leaves(h, FALSE, None)
  BY <1>b, <1>d, <1>e, <1>f, <1>g, <1>h DEF Leaves
<1>n. /\ event' \in [Handles -> [AllKinds -> EventStates]] /\ Sets(event', event, h, k, "closed")
  BY <1>a, <1>b, SetEntry, StatesListed DEF TypeOK
<1>o. /\ copy' \in [Handles -> [AllKinds -> Contexts]] /\ Sets(copy', copy, h, k, "null")
  BY <1>b, <1>a, SetEntry, StatesListed DEF TypeOK
<1>p. TypeOK'
  BY <1>a, <1>b, <1>c, <1>d, <1>e, <1>g, <1>n, <1>o DEF TypeOK, fcbVars
<1> QED BY <1>a, <1>b, <1>c, <1>h, <1>m, <1>n, <1>o, <1>p DEF Shuts, closing

\* What MirrorDeleteFile does.
Agrees(h) ==
  /\ TypeOK' /\ event[h]["delete"] = "begun" /\ Sets(event', event, h, "delete", "ran")
  /\ Sets(failed', failed, h, "delete", FALSE)
  /\ UNCHANGED <<fcbVars, irp, name, copy, target, deletes, context, diskVars, history>>

\* MirrorDeleteFile.
LEMMA DeleteFileFacts ==
  ASSUME BaseInv, NEW h \in Handles, MirrorDeleteFile(h)
  PROVE  Agrees(h)
<1>a. TypeOK /\ "delete" \in AllKinds /\ event[h]["delete"] = "begun" /\ Ran(h, "delete", FALSE)
  BY KindsTyped DEF BaseInv, MirrorDeleteFile, Ran
<1>b. UNCHANGED <<fcbVars, irp, name, copy, target, deletes, context, diskVars, history>>
  BY DEF MirrorDeleteFile, Ran, history, cleaned
<1>1. /\ event' \in [Handles -> [AllKinds -> EventStates]] /\ Sets(event', event, h, "delete", "ran")
      /\ failed' \in [Handles -> [AllKinds -> BOOLEAN]] /\ Sets(failed', failed, h, "delete", FALSE)
  BY <1>a, RanFacts
<1>2. TypeOK'
  BY <1>a, <1>b, <1>1 DEF TypeOK, fcbVars, diskVars, history
<1> QED BY <1>a, <1>b, <1>1, <1>2 DEF Agrees

\* What MirrorCleanup does when the handle is not there.
Skips(h) ==
  /\ TypeOK' /\ event[h]["cleanup"] = "begun" /\ Sets(event', event, h, "cleanup", "ran")
  /\ Sets(failed', failed, h, "cleanup", TRUE) /\ copy[h]["cleanup"] # "handle"
  /\ UNCHANGED <<fcbVars, irp, name, copy, target, deletes, context, diskVars, history>>

\* MirrorCleanup, when the handle is not there.
LEMMA CleanupSkipsFacts ==
  ASSUME BaseInv, NEW h \in Handles, MirrorCleanup(h), event[h]["cleanup"] # "closed"
  PROVE  Skips(h)
<1>a. /\ TypeOK /\ "cleanup" \in AllKinds /\ event[h]["cleanup"] = "begun"
      /\ Ran(h, "cleanup", TRUE) /\ copy[h]["cleanup"] # "handle"
  BY KindsTyped DEF BaseInv, MirrorCleanup
<1>b. UNCHANGED <<fcbVars, irp, name, copy, target, deletes, context, diskVars, history>>
  BY DEF MirrorCleanup, Ran, history, cleaned
<1>1. /\ event' \in [Handles -> [AllKinds -> EventStates]] /\ Sets(event', event, h, "cleanup", "ran")
      /\ failed' \in [Handles -> [AllKinds -> BOOLEAN]] /\ Sets(failed', failed, h, "cleanup", TRUE)
  BY <1>a, RanFacts
<1>2. TypeOK'
  BY <1>a, <1>b, <1>1 DEF TypeOK, fcbVars, diskVars, history
<1> QED BY <1>a, <1>b, <1>1, <1>2 DEF Skips

-----------------------------------------------------------------------------
(* The driver and the answers.                                             *)

\* A create is dispatched, with the FCB of x.
CreateSent(h, n, x) ==
  /\ TypeOK' /\ irp[h]["create"] = "none"
  /\ Sets(irp', irp, h, "create", "pending") /\ Sets(event', event, h, "create", "queued")
  /\ Sets(name', name, h, "create", n)
  /\ fcb'[h] = x /\ fcbName'[x] = n /\ fcbUsers'[x] = fcbUsers[x] \cup {h}
  /\ \A o \in Handles : o # h => fcb'[o] = fcb[o]
  /\ \A o \in Handles : o # x => fcbName'[o] = fcbName[o] /\ fcbUsers'[o] = fcbUsers[o]
  /\ x = h \/ (fcbUsers[x] # {} /\ fcbName[x] = n)
  /\ UNCHANGED <<flag, copy, failed, target, deletes, context, diskVars, history>>

\* DokanDispatchCreate.
LEMMA DispatchCreateFacts ==
  ASSUME BaseInv, NEW h \in Handles, DispatchCreate(h)
  PROVE  \E n \in Names, x \in Handles : CreateSent(h, n, x)
<1> DEFINE same(n) == {x \in Handles : fcbUsers[x] # {} /\ fcbName[x] = n}
<1>1. PICK n \in Names : \E x \in IF same(n) = {} THEN {h} ELSE same(n) :
        /\ SendEvent(h, "create", n) /\ fcb' = [fcb EXCEPT ![h] = x]
        /\ fcbName' = [fcbName EXCEPT ![x] = n] /\ fcbUsers' = [fcbUsers EXCEPT ![x] = @ \cup {h}]
  BY DEF DispatchCreate
<1>2. PICK x \in IF same(n) = {} THEN {h} ELSE same(n) :
        /\ SendEvent(h, "create", n) /\ fcb' = [fcb EXCEPT ![h] = x]
        /\ fcbName' = [fcbName EXCEPT ![x] = n] /\ fcbUsers' = [fcbUsers EXCEPT ![x] = @ \cup {h}]
  BY <1>1
<1>3. x \in Handles /\ (x = h \/ (fcbUsers[x] # {} /\ fcbName[x] = n))
  OBVIOUS
<1> HIDE DEF same
<1>a. /\ TypeOK /\ "create" \in AllKinds /\ n \in FcbNames /\ irp[h]["create"] = "none"
      /\ UNCHANGED <<flag, copy, failed, target, deletes, context, diskVars, history>>
  BY KindsTyped, NoneApart DEF BaseInv, DispatchCreate
<1>4. /\ irp' \in [Handles -> [AllKinds -> IrpStates]] /\ Sets(irp', irp, h, "create", "pending")
      /\ event' \in [Handles -> [AllKinds -> EventStates]] /\ Sets(event', event, h, "create", "queued")
      /\ name' \in [Handles -> [AllKinds -> FcbNames]] /\ Sets(name', name, h, "create", n)
  BY <1>2, <1>a, SendFacts
<1>5. /\ fcb' \in [Handles -> Handles \cup {None}] /\ fcb'[h] = x
      /\ \A o \in Handles : o # h => fcb'[o] = fcb[o]
  BY <1>2, <1>3, <1>a, ExceptAt DEF TypeOK
<1>6. /\ fcbName' \in [Handles -> FcbNames] /\ fcbName'[x] = n
      /\ \A o \in Handles : o # x => fcbName'[o] = fcbName[o]
  BY <1>2, <1>3, <1>a, ExceptAt DEF TypeOK
<1>7. /\ fcbUsers' \in [Handles -> SUBSET Handles] /\ fcbUsers'[x] = fcbUsers[x] \cup {h}
      /\ \A o \in Handles : o # x => fcbUsers'[o] = fcbUsers[o]
  <2>1. fcbUsers[x] \cup {h} \in SUBSET Handles /\ fcbUsers \in [Handles -> SUBSET Handles]
    BY <1>3, <1>a DEF TypeOK
  <2> QED BY <2>1, <1>2, <1>3, ExceptAt
<1>8. TypeOK'
  BY <1>a, <1>4, <1>5, <1>6, <1>7 DEF TypeOK, diskVars, history
<1>9. CreateSent(h, n, x)
  BY <1>3, <1>4, <1>5, <1>6, <1>7, <1>8, <1>a DEF CreateSent
<1> QED BY <1>3, <1>9

\* A rename or delete is dispatched.
RequestSent(h, k) ==
  /\ TypeOK' /\ k \in {"rename", "delete"} /\ k \in Asked(h)
  /\ irp[h][k] = "none" /\ Opened(h) /\ Idle(h) /\ irp[h]["cleanup"] = "none"
  /\ Sets(irp', irp, h, k, "pending") /\ Sets(event', event, h, k, "queued")
  /\ Sets(name', name, h, k, fcbName[fcb[h]])
  /\ k = "rename" => target'[h].to \in Names
  /\ k # "rename" => target'[h] = target[h]
  /\ \A o \in Handles : o # h => target'[o] = target[o]
  /\ UNCHANGED <<fcbVars, copy, failed, deletes, context, diskVars, history>>

\* DokanDispatchSetInformation.
LEMMA DispatchRequestFacts ==
  ASSUME BaseInv, NEW h \in Handles, NEW k \in Kinds[h], DispatchRequest(h, k)
  PROVE  RequestSent(h, k)
<1>a. /\ TypeOK /\ k \in AllKinds /\ k \in {"rename", "delete"} /\ k \in Asked(h)
      /\ irp[h][k] = "none" /\ Opened(h) /\ Idle(h) /\ irp[h]["cleanup"] = "none"
      /\ UNCHANGED <<fcbVars, copy, failed, deletes, context, diskVars, history>>
      /\ SendEvent(h, k, fcbName[fcb[h]])
  BY KindsTyped DEF BaseInv, DispatchRequest
<1>b. fcbName[fcb[h]] \in FcbNames
  BY <1>a DEF BaseInv, FcbInv, Opened, TypeOK
<1>1. /\ irp' \in [Handles -> [AllKinds -> IrpStates]] /\ Sets(irp', irp, h, k, "pending")
      /\ event' \in [Handles -> [AllKinds -> EventStates]] /\ Sets(event', event, h, k, "queued")
      /\ name' \in [Handles -> [AllKinds -> FcbNames]] /\ Sets(name', name, h, k, fcbName[fcb[h]])
  BY <1>a, <1>b, SendFacts
<1> DEFINE Targets == [to : Names \cup {None}, replace : BOOLEAN, bare : BOOLEAN]
<1>2. /\ target' \in [Handles -> Targets]
      /\ k = "rename" => target'[h].to \in Names
      /\ k # "rename" => target'[h] = target[h]
      /\ \A o \in Handles : o # h => target'[o] = target[o]
  <2>0. target \in [Handles -> Targets] /\ Relative \in BOOLEAN
    BY <1>a, RenameDeleteAssumption DEF TypeOK
  <2>1. CASE k = "rename"
    <3>1. PICK n \in Names, replace \in BOOLEAN, bare \in BOOLEAN :
            target' = [target EXCEPT ![h] = [to |-> n, replace |-> replace, bare |-> bare]]
      BY <2>1, <2>0, Zenon DEF DispatchRequest
    <3>2. [to |-> n, replace |-> replace, bare |-> bare] \in Targets
      OBVIOUS
    <3>3. target'[h].to \in Names
      BY <3>1, <2>0
    <3> HIDE DEF Targets
    <3> QED BY <2>1, <2>0, <3>1, <3>2, <3>3, ExceptAt
  <2>2. CASE k # "rename"
    BY <2>2, <2>0 DEF DispatchRequest
  <2> QED BY <2>1, <2>2
<1>3. TypeOK'
  BY <1>a, <1>1, <1>2 DEF TypeOK, fcbVars, diskVars, history
<1> HIDE DEF Targets
<1> QED BY <1>a, <1>1, <1>2, <1>3 DEF RequestSent

\* A cleanup is dispatched.
CleanupSent(h) ==
  /\ TypeOK' /\ irp[h]["cleanup"] = "none" /\ Opened(h) /\ Idle(h)
  /\ Sets(irp', irp, h, "cleanup", "pending") /\ Sets(event', event, h, "cleanup", "queued")
  /\ Sets(name', name, h, "cleanup", fcbName[fcb[h]])
  /\ \A o \in Handles : o # h => deletes'[o] = deletes[o]
  /\ moved' = IF Renaming(h) THEN moved \cup {h} ELSE moved
  /\ UNCHANGED <<fcbVars, copy, failed, target, context, diskVars, own, overlapped, astray,
                 outlived, strayed, refused>>

\* DokanDispatchCleanup.
LEMMA DispatchCleanupFacts ==
  ASSUME BaseInv, NEW h \in Handles, DispatchCleanup(h)
  PROVE  CleanupSent(h)
<1>a. /\ TypeOK /\ "cleanup" \in AllKinds
      /\ irp[h]["cleanup"] = "none" /\ Opened(h) /\ Idle(h)
      /\ SendEvent(h, "cleanup", fcbName[fcb[h]]) /\ deletes' = [deletes EXCEPT ![h] = flag[h]]
      /\ moved' = IF Renaming(h) THEN moved \cup {h} ELSE moved
      /\ UNCHANGED <<fcbVars, copy, failed, target, context, diskVars, own, overlapped, astray,
                     outlived, strayed, refused>>
  BY KindsTyped DEF BaseInv, DispatchCleanup, cleaned
<1>b. fcbName[fcb[h]] \in FcbNames
  BY <1>a DEF BaseInv, FcbInv, Opened, TypeOK
<1>1. /\ irp' \in [Handles -> [AllKinds -> IrpStates]] /\ Sets(irp', irp, h, "cleanup", "pending")
      /\ event' \in [Handles -> [AllKinds -> EventStates]] /\ Sets(event', event, h, "cleanup", "queued")
      /\ name' \in [Handles -> [AllKinds -> FcbNames]]
      /\ Sets(name', name, h, "cleanup", fcbName[fcb[h]])
  BY <1>a, <1>b, SendFacts
<1>2. deletes' \in [Handles -> BOOLEAN] /\ \A o \in Handles : o # h => deletes'[o] = deletes[o]
  BY <1>a DEF TypeOK
<1>3. TypeOK'
  BY <1>a, <1>1, <1>2 DEF TypeOK, fcbVars, diskVars
<1> QED BY <1>a, <1>1, <1>2, <1>3 DEF CleanupSent

\* A close is dispatched.
CloseSent(h) ==
  /\ TypeOK' /\ irp[h]["close"] = "none" /\ irp[h]["cleanup"] \in {"done", "givenUp"} /\ Idle(h)
  /\ Sets(irp', irp, h, "close", "done") /\ Sets(event', event, h, "close", "queued")
  /\ \A x, o \in Handles : o # h => (o \in fcbUsers'[x] <=> o \in fcbUsers[x])
  /\ \A x \in Handles : fcbUsers'[x] \subseteq fcbUsers[x]
  /\ UNCHANGED <<fcb, fcbName, flag, name, copy, failed, target, deletes, context,
                 diskVars, history>>

\* DokanDispatchClose.
LEMMA DispatchCloseFacts ==
  ASSUME BaseInv, NEW h \in Handles, DispatchClose(h)
  PROVE  CloseSent(h)
<1>a. /\ TypeOK /\ "close" \in AllKinds
      /\ irp[h]["close"] = "none" /\ irp[h]["cleanup"] \in {"done", "givenUp"} /\ Idle(h)
      /\ irp' = [irp EXCEPT ![h]["close"] = "done"]
      /\ event' = [event EXCEPT ![h]["close"] = "queued"]
      /\ fcbUsers' = [fcbUsers EXCEPT ![fcb[h]] = @ \ {h}]
      /\ UNCHANGED <<fcb, fcbName, flag, name, copy, failed, target, deletes, context,
                     diskVars, history>>
  BY KindsTyped DEF BaseInv, DispatchClose
<1>1. irp' \in [Handles -> [AllKinds -> IrpStates]] /\ Sets(irp', irp, h, "close", "done")
  BY <1>a, SetEntry, StatesListed DEF TypeOK
<1>2. event' \in [Handles -> [AllKinds -> EventStates]] /\ Sets(event', event, h, "close", "queued")
  BY <1>a, SetEntry, StatesListed DEF TypeOK
<1>3. /\ fcbUsers' \in [Handles -> SUBSET Handles]
      /\ \A x, o \in Handles : o # h => (o \in fcbUsers'[x] <=> o \in fcbUsers[x])
      /\ \A x \in Handles : fcbUsers'[x] \subseteq fcbUsers[x]
  BY <1>a DEF TypeOK
<1>4. TypeOK'
  BY <1>a, <1>1, <1>2, <1>3 DEF TypeOK, diskVars, history
<1> QED BY <1>a, <1>1, <1>2, <1>3, <1>4 DEF CloseSent

\* A request is given up.
GivenUp(h, k) ==
  /\ TypeOK' /\ irp[h][k] = "pending" /\ k \in AllKinds /\ Sets(irp', irp, h, k, "givenUp")
  /\ UNCHANGED <<fcbVars, eventVars, diskVars, history>>

\* ReleaseTimeoutPendingIrp.
LEMMA GiveUpFacts ==
  ASSUME BaseInv, NEW h \in Handles, NEW k \in AllKinds, GiveUp(h, k)
  PROVE  GivenUp(h, k)
<1>1. irp' \in [Handles -> [AllKinds -> IrpStates]] /\ Sets(irp', irp, h, k, "givenUp")
  BY SetEntry, StatesListed DEF BaseInv, TypeOK, GiveUp
<1>2. TypeOK'
  BY <1>1 DEF BaseInv, TypeOK, GiveUp, fcbVars, eventVars, diskVars, history
<1> QED BY <1>1, <1>2 DEF GiveUp, GivenUp

\* A file is created directly.
MadeOutside(n) ==
  /\ TypeOK' /\ ~outside /\ outside' /\ disk[n] = None /\ disk'[n] = "outside"
  /\ \A m \in Names : m # n => disk'[m] = disk[m]
  /\ UNCHANGED <<fcbVars, irp, eventVars, win32, pendingDelete, history>>

\* A file created directly is a new one.
LEMMA OutsideFacts ==
  ASSUME BaseInv, NEW n \in Names, CreateOutside(n)
  PROVE  MadeOutside(n)
<1>1. /\ disk' \in [Names -> Files \cup {None}] /\ disk'[n] = "outside"
      /\ \A m \in Names : m # n => disk'[m] = disk[m]
  BY NoneApart, ExceptAt DEF BaseInv, TypeOK, CreateOutside
<1>2. \A l, m \in Names : disk'[l] = disk'[m] => l = m \/ disk'[l] = None
  BY <1>1 DEF BaseInv, TypeOK, CreateOutside, OutsideInv
<1>3. TypeOK'
  BY <1>1, <1>2 DEF BaseInv, TypeOK, CreateOutside, fcbVars, eventVars, history
<1> QED BY <1>1, <1>3 DEF CreateOutside, MadeOutside

\* A callback begins.
Begun(h, k) ==
  /\ TypeOK' /\ k \in Asked(h) /\ event[h][k] = "queued"
  /\ Sets(event', event, h, k, "begun") /\ Sets(copy', copy, h, k, context[h])
  /\ overlapped' = overlapped \cup
       (IF \E j \in Asked(h) : event[h][j] \in {"begun", "closed", "ran"} THEN {h} ELSE {})
  /\ UNCHANGED <<fcbVars, irp, name, failed, target, deletes, context, diskVars, own,
                 astray, moved, outlived, strayed, refused>>

\* DispatchCommon.
LEMMA BeginEffect ==
  ASSUME BaseInv, NEW h \in Handles, NEW k \in Asked(h), Begin(h, k)
  PROVE  Begun(h, k)
<1>a. TypeOK /\ k \in AllKinds
  BY KindsTyped DEF BaseInv
<1>1. /\ event' \in [Handles -> [AllKinds -> EventStates]] /\ Sets(event', event, h, k, "begun")
      /\ copy' \in [Handles -> [AllKinds -> Contexts]] /\ Sets(copy', copy, h, k, context[h])
  BY <1>a, BeginFacts
<1>2. TypeOK'
  BY <1>a, <1>1 DEF TypeOK, Begin, fcbVars, diskVars
<1> QED BY <1>1, <1>2 DEF Begin, Begun, cleaned

\* An answer arrives.
Got(h, k) ==
  /\ TypeOK' /\ event[h][k] = "ran" /\ Sets(event', event, h, k, "done")
  /\ Sets(name', name, h, k, None) /\ Sets(copy', copy, h, k, "null")
  /\ Sets(irp', irp, h, k, IF irp[h][k] = "pending" THEN "done" ELSE irp[h][k])
  /\ context'[h] = copy[h][k] /\ \A o \in Handles : o # h => context'[o] = context[o]
  /\ UNCHANGED <<fcb, fcbUsers, failed, deletes, diskVars, own, overlapped, moved, outlived,
                 strayed, refused>>

\* One that leaves the names alone.
PlainGot(h, k) == Got(h, k) /\ k \in AllKinds \ {"rename"} /\ UNCHANGED <<fcbName, target, astray>>

\* DispatchCreate, DispatchCleanup, DispatchClose.
LEMMA AnswerFacts ==
  ASSUME BaseInv, NEW h \in Handles, NEW k \in Asked(h), Answer(h, k)
  PROVE  PlainGot(h, k)
<1>a. /\ TypeOK /\ k \in AllKinds \ {"rename"} /\ Answered(h, k)
      /\ UNCHANGED <<fcbName, flag, target, astray>>
  BY KindsTyped DEF BaseInv, Answer
<1>1. /\ event' \in [Handles -> [AllKinds -> EventStates]] /\ Sets(event', event, h, k, "done")
      /\ name' \in [Handles -> [AllKinds -> FcbNames]] /\ Sets(name', name, h, k, None)
      /\ copy' \in [Handles -> [AllKinds -> Contexts]] /\ Sets(copy', copy, h, k, "null")
      /\ irp' \in [Handles -> [AllKinds -> IrpStates]]
      /\ Sets(irp', irp, h, k, IF irp[h][k] = "pending" THEN "done" ELSE irp[h][k])
      /\ context' \in [Handles -> Contexts] /\ context'[h] = copy[h][k]
      /\ \A o \in Handles : o # h => context'[o] = context[o]
  BY <1>a, AnsweredFacts
<1>2. TypeOK'
  BY <1>a, <1>1 DEF TypeOK, Answered, diskVars
<1> QED BY <1>a, <1>1, <1>2 DEF Got, PlainGot, Answered, cleaned

\* DokanCompleteSetInformation, FileDispositionInformation.
LEMMA AnswerDeleteFacts ==
  ASSUME BaseInv, NEW h \in Handles, AnswerDelete(h)
  PROVE  PlainGot(h, "delete")
<1>a. /\ TypeOK /\ "delete" \in AllKinds \ {"rename"} /\ Answered(h, "delete")
      /\ UNCHANGED <<fcbName, target, astray>>
  BY KindsTyped DEF BaseInv, AnswerDelete
<1>1. /\ event' \in [Handles -> [AllKinds -> EventStates]] /\ Sets(event', event, h, "delete", "done")
      /\ name' \in [Handles -> [AllKinds -> FcbNames]] /\ Sets(name', name, h, "delete", None)
      /\ copy' \in [Handles -> [AllKinds -> Contexts]] /\ Sets(copy', copy, h, "delete", "null")
      /\ irp' \in [Handles -> [AllKinds -> IrpStates]]
      /\ Sets(irp', irp, h, "delete", IF irp[h]["delete"] = "pending" THEN "done" ELSE irp[h]["delete"])
      /\ context' \in [Handles -> Contexts] /\ context'[h] = copy[h]["delete"]
      /\ \A o \in Handles : o # h => context'[o] = context[o]
  BY <1>a, AnsweredFacts
<1>2. flag' \in [Handles -> BOOLEAN]
  BY <1>a DEF TypeOK, AnswerDelete
<1>3. TypeOK'
  BY <1>a, <1>1, <1>2 DEF TypeOK, Answered, diskVars
<1> QED BY <1>a, <1>1, <1>3 DEF Got, PlainGot, Answered, cleaned

\* The answer to a rename: what becomes of the FCB of h, and whose names are
\* lost track of.
RenameGot(h) ==
  /\ Got(h, "rename")
  /\ \A o \in Handles : o # h => target'[o] = target[o]
  /\ \A y \in Handles : astray[y] \subseteq astray'[y]
  /\ \A y \in Handles : y # fcb[h] => fcbName'[y] = fcbName[y]
  /\ failed[h]["rename"] \/ irp[h]["rename"] # "pending" => fcbName' = fcbName
  /\ ~failed[h]["rename"] /\ irp[h]["rename"] = "pending" =>
       /\ fcbName'[fcb[h]] = NewName(h)
       /\ astray'[fcb[h]] = {} =>
            /\ ~target[h].bare
            /\ \A o \in fcbUsers[fcb[h]] : irp[o]["create"] # "pending" /\ own[o] = own[h]
       /\ \A y \in Handles : \A o \in fcbUsers[y] :
            astray'[y] = {} /\ own[o] = own[h] => y = fcb[h] /\ ~Crossed(h)
  /\ ~failed[h]["rename"] /\ irp[h]["rename"] # "pending" =>
       \A y \in Handles : \A o \in fcbUsers[y] : astray'[y] = {} => own[o] # own[h]

\* DokanCompleteSetInformation, FileRenameInformation.
LEMMA AnswerRenameFacts ==
  ASSUME BaseInv, NEW h \in Handles, AnswerRename(h)
  PROVE  RenameGot(h)
<1>a. TypeOK /\ "rename" \in AllKinds /\ Answered(h, "rename") /\ UNCHANGED flag
  BY KindsTyped DEF BaseInv, AnswerRename
<1>b. fcb[h] \in Handles /\ target[h].to \in Names
  BY <1>a DEF BaseInv, StageInv, RequestInv, FcbInv, InputInv, Opened, Answered
<1>1. /\ event' \in [Handles -> [AllKinds -> EventStates]] /\ Sets(event', event, h, "rename", "done")
      /\ name' \in [Handles -> [AllKinds -> FcbNames]] /\ Sets(name', name, h, "rename", None)
      /\ copy' \in [Handles -> [AllKinds -> Contexts]] /\ Sets(copy', copy, h, "rename", "null")
      /\ irp' \in [Handles -> [AllKinds -> IrpStates]]
      /\ Sets(irp', irp, h, "rename", IF irp[h]["rename"] = "pending" THEN "done" ELSE irp[h]["rename"])
      /\ context' \in [Handles -> Contexts] /\ context'[h] = copy[h]["rename"]
      /\ \A o \in Handles : o # h => context'[o] = context[o]
  BY <1>a, AnsweredFacts
<1> DEFINE Targets == [to : Names \cup {None}, replace : BOOLEAN, bare : BOOLEAN]
<1>2. target' \in [Handles -> Targets] /\ \A o \in Handles : o # h => target'[o] = target[o]
  <2>1. NoTarget \in Targets /\ target \in [Handles -> Targets]
    BY <1>a DEF NoTarget, TypeOK
  <2> HIDE DEF Targets
  <2> QED BY <2>1, ExceptAt DEF AnswerRename
<1>3. NewName(h) \in FcbNames
  BY <1>b DEF NewName, FcbNames
<1> DEFINE crossed == \E o \in Handles \ {h} : Moving(o) /\ own[o] = own[h]
<1> DEFINE ok == ~failed[h]["rename"]
<1> DEFINE x == fcb[h]
<1> DEFINE Whys(y) == (IF y = x /\ target[h].bare THEN {"bare"} ELSE {}) \cup
               (IF y = x /\ \E o \in fcbUsers[x] : irp[o]["create"] = "pending" \/ own[o] # own[h]
                THEN {"opening"} ELSE {}) \cup
               (IF (y # x \/ crossed) /\ \E o \in fcbUsers[y] : own[o] = own[h]
                THEN {"twice"} ELSE {})
<1> DEFINE Late(y) == IF ok /\ \E o \in fcbUsers[y] : own[o] = own[h] THEN {"late"} ELSE {}
<1>4. CASE ok /\ irp[h]["rename"] = "pending"
  <2>1. /\ fcbName' = [fcbName EXCEPT ![x] = NewName(h)]
        /\ astray' = [y \in Handles |-> astray[y] \cup Whys(y)]
    BY <1>4, Zenon DEF AnswerRename
  <2>2. /\ fcbName' \in [Handles -> FcbNames] /\ fcbName'[x] = NewName(h)
        /\ \A y \in Handles : y # x => fcbName'[y] = fcbName[y]
    BY <2>1, <1>a, <1>b, <1>3, ExceptAt DEF TypeOK
  <2>3. astray' \in [Handles -> SUBSET Reasons] /\ \A y \in Handles : astray[y] \subseteq astray'[y]
    <3>1. \A y : Whys(y) \subseteq Reasons
      BY DEF Reasons
    <3> HIDE DEF Whys
    <3> QED BY <2>1, <3>1, <1>a DEF TypeOK
  <2>4. TypeOK'
    BY <1>a, <1>1, <1>2, <2>2, <2>3 DEF TypeOK, Answered, diskVars
  <2>5. astray'[x] = {} =>
          /\ ~target[h].bare
          /\ \A o \in fcbUsers[x] : irp[o]["create"] # "pending" /\ own[o] = own[h]
    BY <2>1, <1>b
  <2>6. \A y \in Handles : \A o \in fcbUsers[y] :
          astray'[y] = {} /\ own[o] = own[h] => y = x /\ ~crossed
    BY <2>1
  <2>7. Got(h, "rename")
    BY <1>a, <1>1, <2>4 DEF Got, Answered, cleaned
  <2> QED BY <1>2, <1>4, <2>2, <2>3, <2>5, <2>6, <2>7 DEF RenameGot, Crossed
<1>5. CASE ~(ok /\ irp[h]["rename"] = "pending")
  <2>1. fcbName' = fcbName /\ astray' = [y \in Handles |-> astray[y] \cup Late(y)]
    BY <1>5, Zenon DEF AnswerRename
  <2>2. astray' \in [Handles -> SUBSET Reasons] /\ \A y \in Handles : astray[y] \subseteq astray'[y]
    <3>1. \A y : Late(y) \subseteq Reasons
      BY DEF Reasons
    <3> HIDE DEF Late
    <3> QED BY <2>1, <3>1, <1>a DEF TypeOK
  <2>3. TypeOK'
    BY <1>a, <1>1, <1>2, <2>1, <2>2 DEF TypeOK, Answered, diskVars
  <2>4. ok => \A y \in Handles : \A o \in fcbUsers[y] : astray'[y] = {} => own[o] # own[h]
    BY <2>1
  <2>5. Got(h, "rename")
    BY <1>a, <1>1, <2>3 DEF Got, Answered, cleaned
  <2> QED BY <1>2, <1>5, <2>1, <2>2, <2>4, <2>5 DEF RenameGot
<1> QED BY <1>4, <1>5

-----------------------------------------------------------------------------
(* The stages of requests, the names they carry, FCBs and files.           *)

\* All steps, by what they do.
Step ==
  \/ \E h \in Handles :
       \/ \E n \in Names, x \in Handles : CreateSent(h, n, x)
       \/ \E k : RequestSent(h, k)
       \/ CleanupSent(h) \/ CloseSent(h)
       \/ \E k : GivenUp(h, k)
       \/ \E k : Begun(h, k)
       \/ Creates(h)
       \/ \E can \in BOOLEAN, f \in Files \cup {None} : Moves(h, can, f)
       \/ Agrees(h)
       \/ \E f \in Files \cup {None} : Cleans(h, f)
       \/ Closes(h) \/ \E k : Shuts(h, k)
       \/ Skips(h)
       \/ \E k : PlainGot(h, k)
       \/ RenameGot(h)
  \/ \E n \in Names : MadeOutside(n)

\* Every action does one of these.
LEMMA Steps ==
  ASSUME BaseInv, Next
  PROVE  Step
<1>1. ASSUME NEW h \in Handles, Driver(h) PROVE Step
  <2>1. CASE DispatchCreate(h) BY <2>1, DispatchCreateFacts, Zenon DEF Step
  <2>2. CASE DispatchCleanup(h) BY <2>2, DispatchCleanupFacts, Zenon DEF Step
  <2>3. CASE DispatchClose(h) BY <2>3, DispatchCloseFacts, Zenon DEF Step
  <2>4. CASE \E k \in Kinds[h] : DispatchRequest(h, k)
    BY <2>4, DispatchRequestFacts, Zenon DEF Step
  <2>5. CASE \E k \in Asked(h) : GiveUp(h, k)
    <3>1. PICK k \in AllKinds : GiveUp(h, k)
      BY <2>5, KindsTyped
    <3> QED BY <3>1, GiveUpFacts, Zenon DEF Step
  <2> QED BY <1>1, <2>1, <2>2, <2>3, <2>4, <2>5, Zenon DEF Driver
<1>2. ASSUME NEW h \in Handles, Library(h) PROVE Step
  <2>1. CASE \E k \in Asked(h) : Begin(h, k) BY <2>1, BeginEffect, Zenon DEF Step
  <2>2. CASE \E k \in Asked(h) : Answer(h, k) BY <2>2, AnswerFacts, Zenon DEF Step
  <2>3. CASE MirrorCreateFile(h) BY <2>3, CreateFacts, Zenon DEF Step
  <2>4. CASE MirrorCleanup(h) /\ event[h]["cleanup"] = "closed"
    BY <2>4, CleanupFacts, Zenon DEF Step
  <2>11. CASE MirrorCleanup(h) /\ event[h]["cleanup"] # "closed"
    BY <2>11, CleanupSkipsFacts, Zenon DEF Step
  <2>10. CASE \E k \in Asked(h) \cap {"rename", "cleanup"} : CloseHandle(h, k)
    <3>1. PICK k \in {"rename", "cleanup"} : CloseHandle(h, k)
      BY <2>10
    <3> QED BY <3>1, CloseHandleFacts, Zenon DEF Step
  <2>5. CASE MirrorCloseFile(h) BY <2>5, CloseFileFacts, Zenon DEF Step
  <2>6. CASE MirrorMoveFile(h) BY <2>6, MoveFacts, Zenon DEF Step
  <2>7. CASE MirrorDeleteFile(h) BY <2>7, DeleteFileFacts, Zenon DEF Step
  <2>8. CASE AnswerRename(h) BY <2>8, AnswerRenameFacts, Zenon DEF Step
  <2>9. CASE AnswerDelete(h) BY <2>9, AnswerDeleteFacts, Zenon DEF Step
  <2> QED BY <1>2, <2>1, <2>2, <2>3, <2>4, <2>5, <2>6, <2>7, <2>8, <2>9, <2>10, <2>11, Zenon
          DEF Library, Callback
<1>3. ASSUME NEW n \in Names, CreateOutside(n) PROVE Step
  BY <1>3, OutsideFacts, Zenon DEF Step
<1> QED BY <1>1, <1>2, <1>3, Zenon DEF Next

\* The stages a request goes through.
Transition(h, k, i, e) ==
  \/ /\ irp[h][k] = "none" /\ i = "pending" /\ e = "queued" /\ irp[h]["close"] = "none"
     /\ k # "close" /\ (k = "create" \/ Opened(h))
  \/ /\ k = "close" /\ irp[h][k] = "none" /\ i = "done" /\ e = "queued"
     /\ irp[h]["cleanup"] # "none" /\ Idle(h) /\ Opened(h)
  \/ irp[h][k] = "pending" /\ i = "givenUp" /\ e = event[h][k]
  \/ i = irp[h][k] /\ event[h][k] = "queued" /\ e = "begun"
  \/ i = irp[h][k] /\ event[h][k] \in {"begun", "closed"} /\ e \in {"closed", "ran"}
  \/ /\ event[h][k] = "ran" /\ e = "done"
     /\ i = IF irp[h][k] = "pending" THEN "done" ELSE irp[h][k]

\* One request goes on by one stage, and no other.
LEMMA StageKept ==
  ASSUME TypeOK, \A o \in Handles : StageInv(o), NEW h \in Handles, NEW k \in Asked(h),
         NEW i, NEW e, Transition(h, k, i, e),
         Sets(irp', irp, h, k, i), Sets(event', event, h, k, e),
         \A o \in Handles : \/ failed'[o]["create"] = failed[o]["create"]
                            \/ o = h /\ k = "create" /\ event[h][k] = "begun"
  PROVE  \A o \in Handles : StageInv(o)'
<1>a. k \in AllKinds /\ "create" \in AllKinds /\ "cleanup" \in AllKinds /\ "close" \in AllKinds
  BY KindsTyped
<1>b. /\ irp'[h][k] = i /\ event'[h][k] = e
      /\ \A o \in Handles, j \in AllKinds : o # h \/ j # k =>
           irp'[o][j] = irp[o][j] /\ event'[o][j] = event[o][j]
  BY DEF Sets
<1>c. \A o \in Handles, j \in AllKinds : RequestInv(o, j)
  BY DEF StageInv
<1>d. ASSUME NEW o \in Handles, Opened(o)
      PROVE  Opened(o)'
  <2>1. event[o]["create"] = "done" /\ irp[o]["create"] = "done"
    BY <1>a, <1>c, <1>d DEF RequestInv, Opened
  <2>2. o # h \/ k # "create"
    BY <2>1 DEF Transition
  <2> QED BY <1>a, <1>b, <1>d, <2>1, <2>2 DEF Opened
<1>e. ASSUME NEW o \in Handles, NEW j \in AllKinds
      PROVE  RequestInv(o, j)'
  <2>1. CASE o # h \/ j # k
    BY <2>1, <1>b, <1>c, <1>d DEF RequestInv, Asked
  <2>2. CASE o = h /\ j = k
    BY <2>2, <1>a, <1>b, <1>c, <1>d DEF RequestInv, Transition, Asked
  <2> QED BY <2>1, <2>2
<1>f. ASSUME NEW o \in Handles, irp'[o]["close"] # "none"
      PROVE  irp'[o]["cleanup"] # "none" /\ Idle(o)'
  <2>1. irp[o]["close"] # "none" => irp[o]["cleanup"] # "none" /\ Idle(o)
    BY DEF StageInv
  <2>2. CASE o # h
    BY <1>a, <1>b, <1>f, <2>1, <2>2, KindsTyped DEF Idle, Asked
  <2>3. CASE o = h /\ k = "close"
    <3>1. irp[h]["cleanup"] # "none" /\ Idle(h) /\ i # "pending"
      <4>1. CASE i = "done" /\ irp[h]["cleanup"] # "none" /\ Idle(h)
        BY <4>1
      <4>2. CASE irp[h][k] # "none" /\ (i = "givenUp" \/ i = irp[h][k] \/ i = "done")
        <5>1. irp[h]["cleanup"] # "none" /\ Idle(h) /\ irp[h][k] # "pending"
          BY <2>1, <2>3, <4>2 DEF Idle
        <5> QED BY <4>2, <5>1
      <4>3. i # "none" /\ RequestInv(h, k)
        BY <1>a, <1>b, <1>c, <2>3, <1>f
      <4> QED BY <2>3, <4>1, <4>2, <4>3 DEF Transition, RequestInv
    <3> QED BY <1>a, <1>b, <2>3, <3>1, KindsTyped DEF Idle, Asked
  <2>4. CASE o = h /\ k # "close"
    <3>1. irp[h]["close"] # "none" /\ irp[h]["cleanup"] # "none" /\ Idle(h)
      BY <1>a, <1>b, <1>f, <2>1, <2>4
    <3>2. irp[h][k] # "pending"
      BY <3>1 DEF Idle
    <3>3. i # "pending" /\ (irp[h][k] # "none" => i # "none")
      BY <3>1, <3>2 DEF Transition
    <3> QED BY <1>a, <1>b, <2>4, <3>1, <3>3, KindsTyped DEF Idle, Asked
  <2> QED BY <2>2, <2>3, <2>4
<1> QED BY <1>e, <1>f DEF StageInv

\* Requests go on by their stages.
LEMMA StageStep ==
  ASSUME BaseInv, Step
  PROVE  \A o \in Handles : StageInv(o)'
<1>a. TypeOK /\ \A o \in Handles : StageInv(o)
  BY DEF BaseInv
<1>b. \A o \in Handles, k \in AllKinds : RequestInv(o, k)
  BY <1>a DEF StageInv
<1>1. ASSUME NEW h \in Handles, NEW n \in Names, NEW x \in Handles, CreateSent(h, n, x)
      PROVE  \A o \in Handles : StageInv(o)'
  <2>0. "create" \in AllKinds /\ "create" \in Asked(h)
    BY <1>1, <1>a, <1>b, KindsTyped DEF CreateSent, RequestInv
  <2>1. Transition(h, "create", "pending", "queued")
    BY <1>1, <1>a, <1>b, <2>0, KindsTyped DEF CreateSent, Transition, RequestInv, Opened
  <2>2. \A o \in Handles : \/ failed'[o]["create"] = failed[o]["create"]
                           \/ o = h /\ "create" = "create" /\ event[h]["create"] = "begun"
    BY <1>1, <2>0, KindsTyped DEF CreateSent, Sets, Fails, Opens, eventVars
  <2>3. Sets(irp', irp, h, "create", "pending") /\ Sets(event', event, h, "create", "queued")
    BY <1>1, <2>0 DEF CreateSent, Sets, eventVars
  <2> QED BY <1>a, <2>0, <2>1, <2>2, <2>3, StageKept
<1>2. ASSUME NEW h \in Handles, NEW k, RequestSent(h, k)
      PROVE  \A o \in Handles : StageInv(o)'
  <2>0. k \in AllKinds /\ k \in Asked(h)
    BY <1>2, <1>a, <1>b, KindsTyped DEF RequestSent, RequestInv
  <2>1. Transition(h, k, "pending", "queued")
    BY <1>2, <1>a, <1>b, <2>0, KindsTyped DEF RequestSent, Transition, RequestInv, StageInv
  <2>2. \A o \in Handles : \/ failed'[o]["create"] = failed[o]["create"]
                           \/ o = h /\ k = "create" /\ event[h][k] = "begun"
    BY <1>2, <2>0, KindsTyped DEF RequestSent, Sets, Fails, Opens, eventVars
  <2>3. Sets(irp', irp, h, k, "pending") /\ Sets(event', event, h, k, "queued")
    BY <1>2, <2>0 DEF RequestSent, Sets, eventVars
  <2> QED BY <1>a, <2>0, <2>1, <2>2, <2>3, StageKept
<1>3. ASSUME NEW h \in Handles, CleanupSent(h)
      PROVE  \A o \in Handles : StageInv(o)'
  <2>0. "cleanup" \in AllKinds /\ "cleanup" \in Asked(h)
    BY <1>3, <1>a, <1>b, KindsTyped DEF CleanupSent, RequestInv
  <2>1. Transition(h, "cleanup", "pending", "queued")
    BY <1>3, <1>a, <1>b, <2>0, KindsTyped DEF CleanupSent, Transition, RequestInv, StageInv
  <2>2. \A o \in Handles : \/ failed'[o]["create"] = failed[o]["create"]
                           \/ o = h /\ "cleanup" = "create" /\ event[h]["cleanup"] = "begun"
    BY <1>3, <2>0, KindsTyped DEF CleanupSent, Sets, Fails, Opens, eventVars
  <2>3. Sets(irp', irp, h, "cleanup", "pending") /\ Sets(event', event, h, "cleanup", "queued")
    BY <1>3, <2>0 DEF CleanupSent, Sets, eventVars
  <2> QED BY <1>a, <2>0, <2>1, <2>2, <2>3, StageKept
<1>4. ASSUME NEW h \in Handles, CloseSent(h)
      PROVE  \A o \in Handles : StageInv(o)'
  <2>0. "close" \in AllKinds /\ "close" \in Asked(h)
    BY <1>4, <1>a, <1>b, KindsTyped DEF CloseSent, RequestInv
  <2>1. Transition(h, "close", "done", "queued")
    BY <1>4, <1>a, <1>b, <2>0, KindsTyped DEF CloseSent, Transition, RequestInv, StageInv
  <2>2. \A o \in Handles : \/ failed'[o]["create"] = failed[o]["create"]
                           \/ o = h /\ "close" = "create" /\ event[h]["close"] = "begun"
    BY <1>4, <2>0, KindsTyped DEF CloseSent, Sets, Fails, Opens, eventVars
  <2>3. Sets(irp', irp, h, "close", "done") /\ Sets(event', event, h, "close", "queued")
    BY <1>4, <2>0 DEF CloseSent, Sets, eventVars
  <2> QED BY <1>a, <2>0, <2>1, <2>2, <2>3, StageKept
<1>5. ASSUME NEW h \in Handles, NEW k, GivenUp(h, k)
      PROVE  \A o \in Handles : StageInv(o)'
  <2>0. k \in AllKinds /\ k \in Asked(h)
    BY <1>5, <1>a, <1>b, KindsTyped DEF GivenUp, RequestInv
  <2>1. Transition(h, k, "givenUp", event[h][k])
    BY <1>5, <1>a, <1>b, <2>0, KindsTyped DEF GivenUp, Transition, RequestInv, StageInv
  <2>2. \A o \in Handles : \/ failed'[o]["create"] = failed[o]["create"]
                           \/ o = h /\ k = "create" /\ event[h][k] = "begun"
    BY <1>5, <2>0, KindsTyped DEF GivenUp, Sets, Fails, Opens, eventVars
  <2>3. Sets(irp', irp, h, k, "givenUp") /\ Sets(event', event, h, k, event[h][k])
    BY <1>5, <2>0 DEF GivenUp, Sets, eventVars
  <2> QED BY <1>a, <2>0, <2>1, <2>2, <2>3, StageKept
<1>6. ASSUME NEW n \in Names, MadeOutside(n)
      PROVE  \A o \in Handles : StageInv(o)'
  <2>1. UNCHANGED <<irp, event, failed>>
    BY <1>6 DEF MadeOutside, eventVars, fcbVars
  <2> QED BY <1>a, <2>1 DEF StageInv, RequestInv, Idle, Opened, Asked
<1>7. ASSUME NEW h \in Handles, NEW k, Begun(h, k)
      PROVE  \A o \in Handles : StageInv(o)'
  <2>0. k \in AllKinds /\ k \in Asked(h)
    BY <1>7, <1>a, <1>b, KindsTyped DEF Begun, RequestInv
  <2>1. Transition(h, k, irp[h][k], "begun")
    BY <1>7, <1>a, <1>b, <2>0, KindsTyped DEF Begun, Transition, RequestInv, StageInv
  <2>2. \A o \in Handles : \/ failed'[o]["create"] = failed[o]["create"]
                           \/ o = h /\ k = "create" /\ event[h][k] = "begun"
    BY <1>7, <2>0, KindsTyped DEF Begun, Sets, Fails, Opens, eventVars
  <2>3. Sets(irp', irp, h, k, irp[h][k]) /\ Sets(event', event, h, k, "begun")
    BY <1>7, <2>0 DEF Begun, Sets, eventVars
  <2> QED BY <1>a, <2>0, <2>1, <2>2, <2>3, StageKept
<1>8. ASSUME NEW h \in Handles, Creates(h)
      PROVE  \A o \in Handles : StageInv(o)'
  <2>0. "create" \in AllKinds /\ "create" \in Asked(h)
    BY <1>8, <1>a, <1>b, KindsTyped DEF Creates, RequestInv
  <2>1. Transition(h, "create", irp[h]["create"], "ran")
    BY <1>8, <1>a, <1>b, <2>0, KindsTyped DEF Creates, Transition, RequestInv, StageInv
  <2>2. \A o \in Handles : \/ failed'[o]["create"] = failed[o]["create"]
                           \/ o = h /\ "create" = "create" /\ event[h]["create"] = "begun"
    BY <1>8, <2>0, KindsTyped DEF Creates, Sets, Fails, Opens, eventVars
  <2>3. Sets(irp', irp, h, "create", irp[h]["create"]) /\ Sets(event', event, h, "create", "ran")
    BY <1>8, <2>0 DEF Creates, Sets, eventVars
  <2> QED BY <1>a, <2>0, <2>1, <2>2, <2>3, StageKept
<1>9. ASSUME NEW h \in Handles, NEW can \in BOOLEAN, NEW f \in Files \cup {None}, Moves(h, can, f)
      PROVE  \A o \in Handles : StageInv(o)'
  <2>0. "rename" \in AllKinds /\ "rename" \in Asked(h)
    BY <1>9, <1>a, <1>b, KindsTyped DEF Moves, RequestInv
  <2>1. Transition(h, "rename", irp[h]["rename"], "ran")
    BY <1>9, <1>a, <1>b, <2>0, KindsTyped DEF Moves, Transition, RequestInv, StageInv
  <2>2. \A o \in Handles : \/ failed'[o]["create"] = failed[o]["create"]
                           \/ o = h /\ "rename" = "create" /\ event[h]["rename"] = "begun"
    BY <1>9, <2>0, KindsTyped DEF Moves, Sets, Fails, Opens, eventVars
  <2>3. Sets(irp', irp, h, "rename", irp[h]["rename"]) /\ Sets(event', event, h, "rename", "ran")
    BY <1>9, <2>0 DEF Moves, Sets, eventVars
  <2> QED BY <1>a, <2>0, <2>1, <2>2, <2>3, StageKept
<1>10. ASSUME NEW h \in Handles, Agrees(h)
      PROVE  \A o \in Handles : StageInv(o)'
  <2>0. "delete" \in AllKinds /\ "delete" \in Asked(h)
    BY <1>10, <1>a, <1>b, KindsTyped DEF Agrees, RequestInv
  <2>1. Transition(h, "delete", irp[h]["delete"], "ran")
    BY <1>10, <1>a, <1>b, <2>0, KindsTyped DEF Agrees, Transition, RequestInv, StageInv
  <2>2. \A o \in Handles : \/ failed'[o]["create"] = failed[o]["create"]
                           \/ o = h /\ "delete" = "create" /\ event[h]["delete"] = "begun"
    BY <1>10, <2>0, KindsTyped DEF Agrees, Sets, Fails, Opens, eventVars
  <2>3. Sets(irp', irp, h, "delete", irp[h]["delete"]) /\ Sets(event', event, h, "delete", "ran")
    BY <1>10, <2>0 DEF Agrees, Sets, eventVars
  <2> QED BY <1>a, <2>0, <2>1, <2>2, <2>3, StageKept
<1>11. ASSUME NEW h \in Handles, NEW f \in Files \cup {None}, Cleans(h, f)
      PROVE  \A o \in Handles : StageInv(o)'
  <2>0. "cleanup" \in AllKinds /\ "cleanup" \in Asked(h)
    BY <1>11, <1>a, <1>b, KindsTyped DEF Cleans, RequestInv
  <2>1. Transition(h, "cleanup", irp[h]["cleanup"], "ran")
    BY <1>11, <1>a, <1>b, <2>0, KindsTyped DEF Cleans, Transition, RequestInv, StageInv
  <2>2. \A o \in Handles : \/ failed'[o]["create"] = failed[o]["create"]
                           \/ o = h /\ "cleanup" = "create" /\ event[h]["cleanup"] = "begun"
    BY <1>11, <2>0, KindsTyped DEF Cleans, Sets, Fails, Opens, eventVars
  <2>3. Sets(irp', irp, h, "cleanup", irp[h]["cleanup"]) /\ Sets(event', event, h, "cleanup", "ran")
    BY <1>11, <2>0 DEF Cleans, Sets, eventVars
  <2> QED BY <1>a, <2>0, <2>1, <2>2, <2>3, StageKept
<1>12. ASSUME NEW h \in Handles, Closes(h)
      PROVE  \A o \in Handles : StageInv(o)'
  <2>0. "close" \in AllKinds /\ "close" \in Asked(h)
    BY <1>12, <1>a, <1>b, KindsTyped DEF Closes, RequestInv
  <2>1. Transition(h, "close", irp[h]["close"], "ran")
    BY <1>12, <1>a, <1>b, <2>0, KindsTyped DEF Closes, Transition, RequestInv, StageInv
  <2>2. \A o \in Handles : \/ failed'[o]["create"] = failed[o]["create"]
                           \/ o = h /\ "close" = "create" /\ event[h]["close"] = "begun"
    BY <1>12, <2>0, KindsTyped DEF Closes, Sets, Fails, Opens, eventVars
  <2>3. Sets(irp', irp, h, "close", irp[h]["close"]) /\ Sets(event', event, h, "close", "ran")
    BY <1>12, <2>0 DEF Closes, Sets, eventVars
  <2> QED BY <1>a, <2>0, <2>1, <2>2, <2>3, StageKept
<1>13. ASSUME NEW h \in Handles, NEW k, PlainGot(h, k)
      PROVE  \A o \in Handles : StageInv(o)'
  <2>0. k \in AllKinds /\ k \in Asked(h)
    BY <1>13, <1>a, <1>b, KindsTyped DEF PlainGot, RequestInv, Got
  <2>1. Transition(h, k, (IF irp[h][k] = "pending" THEN "done" ELSE irp[h][k]), "done")
    BY <1>13, <1>a, <1>b, <2>0, KindsTyped DEF PlainGot, Transition, RequestInv, StageInv, Got
  <2>2. \A o \in Handles : \/ failed'[o]["create"] = failed[o]["create"]
                           \/ o = h /\ k = "create" /\ event[h][k] = "begun"
    BY <1>13, <2>0, KindsTyped DEF PlainGot, Sets, Fails, Opens, eventVars, Got
  <2>3. Sets(irp', irp, h, k, (IF irp[h][k] = "pending" THEN "done" ELSE irp[h][k])) /\ Sets(event', event, h, k, "done")
    BY <1>13, <2>0 DEF PlainGot, Sets, eventVars, Got
  <2> QED BY <1>a, <2>0, <2>1, <2>2, <2>3, StageKept
<1>14. ASSUME NEW h \in Handles, RenameGot(h)
      PROVE  \A o \in Handles : StageInv(o)'
  <2>0. "rename" \in AllKinds /\ "rename" \in Asked(h)
    BY <1>14, <1>a, <1>b, KindsTyped DEF RenameGot, RequestInv, Got
  <2>1. Transition(h, "rename", (IF irp[h]["rename"] = "pending" THEN "done" ELSE irp[h]["rename"]), "done")
    BY <1>14, <1>a, <1>b, <2>0, KindsTyped DEF RenameGot, Transition, RequestInv, StageInv, Got
  <2>2. \A o \in Handles : \/ failed'[o]["create"] = failed[o]["create"]
                           \/ o = h /\ "rename" = "create" /\ event[h]["rename"] = "begun"
    BY <1>14, <2>0, KindsTyped DEF RenameGot, Sets, Fails, Opens, eventVars, Got
  <2>3. Sets(irp', irp, h, "rename", (IF irp[h]["rename"] = "pending" THEN "done" ELSE irp[h]["rename"])) /\ Sets(event', event, h, "rename", "done")
    BY <1>14, <2>0 DEF RenameGot, Sets, eventVars, Got
  <2> QED BY <1>a, <2>0, <2>1, <2>2, <2>3, StageKept
<1>15. ASSUME NEW h \in Handles, NEW k, Shuts(h, k)
      PROVE  \A o \in Handles : StageInv(o)'
  <2>0. k \in AllKinds /\ k \in Asked(h)
    BY <1>15, <1>a, <1>b, KindsTyped DEF Shuts, RequestInv
  <2>1. Transition(h, k, irp[h][k], "closed")
    BY <1>15, <1>a, <1>b, <2>0, KindsTyped DEF Shuts, Transition, RequestInv, StageInv
  <2>2. \A o \in Handles : \/ failed'[o]["create"] = failed[o]["create"]
                           \/ o = h /\ k = "create" /\ event[h][k] = "begun"
    BY <1>15, <2>0, KindsTyped DEF Shuts, Sets, Fails, Opens, eventVars
  <2>3. Sets(irp', irp, h, k, irp[h][k]) /\ Sets(event', event, h, k, "closed")
    BY <1>15, <2>0 DEF Shuts, Sets, eventVars
  <2> QED BY <1>a, <2>0, <2>1, <2>2, <2>3, StageKept
<1>16. ASSUME NEW h \in Handles, Skips(h)
      PROVE  \A o \in Handles : StageInv(o)'
  <2>0. "cleanup" \in AllKinds /\ "cleanup" \in Asked(h)
    BY <1>16, <1>a, <1>b, KindsTyped DEF Skips, RequestInv
  <2>1. Transition(h, "cleanup", irp[h]["cleanup"], "ran")
    BY <1>16, <1>a, <1>b, <2>0, KindsTyped DEF Skips, Transition, RequestInv, StageInv
  <2>2. \A o \in Handles : \/ failed'[o]["create"] = failed[o]["create"]
                           \/ o = h /\ "cleanup" = "create" /\ event[h]["cleanup"] = "begun"
    BY <1>16, <2>0, KindsTyped DEF Skips, Sets, Fails, Opens, eventVars
  <2>3. Sets(irp', irp, h, "cleanup", irp[h]["cleanup"]) /\ Sets(event', event, h, "cleanup", "ran")
    BY <1>16, <2>0 DEF Skips, Sets, eventVars
  <2> QED BY <1>a, <2>0, <2>1, <2>2, <2>3, StageKept
<1> QED BY <1>1, <1>2, <1>3, <1>4, <1>5, <1>6, <1>7, <1>8, <1>9, <1>10, <1>11, <1>12, <1>13,
           <1>14, <1>15, <1>16, Zenon DEF Step
\* Creates and renames carry names.
LEMMA InputStep ==
  ASSUME BaseInv, Step
  PROVE  \A o \in Handles : InputInv(o)'
<1>a. \A o \in Handles : InputInv(o)
  BY DEF BaseInv
<1>1. ASSUME NEW h \in Handles, NEW n \in Names, NEW x \in Handles, CreateSent(h, n, x)
      PROVE  \A o \in Handles : InputInv(o)'
  BY <1>1, <1>a, KindsTyped DEF CreateSent, InputInv, Sets, Got, eventVars, fcbVars
<1>2. ASSUME NEW h \in Handles, NEW k, RequestSent(h, k)
      PROVE  \A o \in Handles : InputInv(o)'
  BY <1>2, <1>a, KindsTyped DEF RequestSent, InputInv, Sets, Got, eventVars, fcbVars
<1>3. ASSUME NEW h \in Handles, CleanupSent(h)
      PROVE  \A o \in Handles : InputInv(o)'
  BY <1>3, <1>a, KindsTyped DEF CleanupSent, InputInv, Sets, Got, eventVars, fcbVars
<1>4. ASSUME NEW h \in Handles, CloseSent(h)
      PROVE  \A o \in Handles : InputInv(o)'
  BY <1>4, <1>a, KindsTyped DEF CloseSent, InputInv, Sets, Got, eventVars, fcbVars
<1>5. ASSUME NEW h \in Handles, NEW k, GivenUp(h, k)
      PROVE  \A o \in Handles : InputInv(o)'
  BY <1>5, <1>a, KindsTyped DEF GivenUp, InputInv, Sets, Got, eventVars, fcbVars
<1>6. ASSUME NEW n \in Names, MadeOutside(n)
      PROVE  \A o \in Handles : InputInv(o)'
  BY <1>6, <1>a, KindsTyped DEF MadeOutside, InputInv, Sets, Got, eventVars, fcbVars
<1>7. ASSUME NEW h \in Handles, NEW k, Begun(h, k)
      PROVE  \A o \in Handles : InputInv(o)'
  BY <1>7, <1>a, KindsTyped DEF Begun, InputInv, Sets, Got, eventVars, fcbVars
<1>8. ASSUME NEW h \in Handles, Creates(h)
      PROVE  \A o \in Handles : InputInv(o)'
  BY <1>8, <1>a, KindsTyped DEF Creates, InputInv, Sets, Got, eventVars, fcbVars
<1>9. ASSUME NEW h \in Handles, NEW can \in BOOLEAN, NEW f \in Files \cup {None}, Moves(h, can, f)
      PROVE  \A o \in Handles : InputInv(o)'
  <2>1. /\ Sets(event', event, h, "rename", "ran") /\ UNCHANGED <<name, target>>
        /\ event[h]["rename"] = "closed"
    BY <1>9 DEF Moves
  <2> QED BY <1>a, <2>1, KindsTyped DEF InputInv, Sets
<1>10. ASSUME NEW h \in Handles, Agrees(h)
      PROVE  \A o \in Handles : InputInv(o)'
  BY <1>10, <1>a, KindsTyped DEF Agrees, InputInv, Sets, Got, eventVars, fcbVars
<1>11. ASSUME NEW h \in Handles, NEW f \in Files \cup {None}, Cleans(h, f)
      PROVE  \A o \in Handles : InputInv(o)'
  <2>1. Sets(event', event, h, "cleanup", "ran") /\ UNCHANGED <<name, target>>
    BY <1>11 DEF Cleans
  <2> QED BY <1>a, <2>1, KindsTyped DEF InputInv, Sets
<1>12. ASSUME NEW h \in Handles, Closes(h)
      PROVE  \A o \in Handles : InputInv(o)'
  BY <1>12, <1>a, KindsTyped DEF Closes, InputInv, Sets, Got, eventVars, fcbVars
<1>13. ASSUME NEW h \in Handles, NEW k, PlainGot(h, k)
      PROVE  \A o \in Handles : InputInv(o)'
  BY <1>13, <1>a, KindsTyped DEF PlainGot, InputInv, Sets, Got, eventVars, fcbVars
<1>14. ASSUME NEW h \in Handles, RenameGot(h)
      PROVE  \A o \in Handles : InputInv(o)'
  BY <1>14, <1>a, KindsTyped DEF RenameGot, InputInv, Sets, Got, eventVars, fcbVars
<1>15. ASSUME NEW h \in Handles, NEW k, Shuts(h, k)
      PROVE  \A o \in Handles : InputInv(o)'
  BY <1>15, <1>a, KindsTyped DEF Shuts, InputInv, Sets, Got, eventVars, fcbVars
<1>16. ASSUME NEW h \in Handles, Skips(h)
      PROVE  \A o \in Handles : InputInv(o)'
  BY <1>16, <1>a, KindsTyped DEF Skips, InputInv, Sets, Got, eventVars, fcbVars
<1> QED BY <1>1, <1>2, <1>3, <1>4, <1>5, <1>6, <1>7, <1>8, <1>9, <1>10, <1>11, <1>12, <1>13,
           <1>14, <1>15, <1>16, Zenon DEF Step

\* Handles are counted from create to close.
LEMMA FcbStep ==
  ASSUME BaseInv, Step
  PROVE  \A o \in Handles : FcbInv(o)'
<1>a. \A o \in Handles : FcbInv(o)
  BY DEF BaseInv
<1>1. ASSUME NEW h \in Handles, NEW n \in Names, NEW x \in Handles, CreateSent(h, n, x)
      PROVE  \A o \in Handles : FcbInv(o)'
  <2> SUFFICES ASSUME NEW o \in Handles PROVE FcbInv(o)'
    OBVIOUS
  <2>1. /\ irp'[h]["create"] = "pending"
        /\ \A y \in Handles : y # h => irp'[y]["create"] = irp[y]["create"]
        /\ \A y \in Handles : irp'[y]["close"] = irp[y]["close"]
        /\ \A y \in Handles : y # h => fcb'[y] = fcb[y]
        /\ \A y \in Handles : y # x => fcbUsers'[y] = fcbUsers[y]
        /\ fcb'[h] = x /\ fcbUsers'[x] = fcbUsers[x] \cup {h}
        /\ irp[h]["create"] = "none" /\ (x = h \/ fcbUsers[x] # {})
    BY <1>1, KindsTyped DEF CreateSent, Sets
  <2>2. irp[o]["create"] = "none" /\ o # h => o # x
    BY <1>a, <2>1 DEF FcbInv
  <2>3. CASE o = h
    BY <1>a, <2>1, <2>3 DEF FcbInv
  <2>4. CASE o # h
    <3>1. \A y \in Handles : fcbUsers'[y] \subseteq fcbUsers[y] \cup {h} /\ fcbUsers[y] \subseteq fcbUsers'[y]
      BY <2>1
    <3> QED BY <1>a, <2>1, <2>2, <2>4, <3>1 DEF FcbInv
  <2> QED BY <2>3, <2>4
<1>2. ASSUME NEW h \in Handles, NEW k, RequestSent(h, k)
      PROVE  \A o \in Handles : FcbInv(o)'
  <2>1. UNCHANGED <<fcb, fcbUsers>>
    BY <1>2 DEF RequestSent, fcbVars
  <2>2. \A x \in Handles : /\ irp'[x]["create"] = irp[x]["create"]
                           /\ irp'[x]["close"] = irp[x]["close"]
    BY <1>2, KindsTyped DEF RequestSent, Sets
  <2> QED BY <1>a, <2>1, <2>2 DEF FcbInv
<1>3. ASSUME NEW h \in Handles, CleanupSent(h)
      PROVE  \A o \in Handles : FcbInv(o)'
  <2>1. UNCHANGED <<fcb, fcbUsers>>
    BY <1>3 DEF CleanupSent, fcbVars
  <2>2. \A x \in Handles : /\ irp'[x]["create"] = irp[x]["create"]
                           /\ irp'[x]["close"] = irp[x]["close"]
    BY <1>3, KindsTyped DEF CleanupSent, Sets
  <2> QED BY <1>a, <2>1, <2>2 DEF FcbInv
<1>4. ASSUME NEW h \in Handles, CloseSent(h)
      PROVE  \A o \in Handles : FcbInv(o)'
  <2>1. /\ fcb' = fcb /\ irp'[h]["close"] = "done"
        /\ \A x \in Handles : irp'[x]["create"] = irp[x]["create"]
        /\ \A x \in Handles : x # h => irp'[x]["close"] = irp[x]["close"]
        /\ \A x, y \in Handles : y # h => (y \in fcbUsers'[x] <=> y \in fcbUsers[x])
        /\ \A x \in Handles : fcbUsers'[x] \subseteq fcbUsers[x]
    BY <1>4, KindsTyped DEF CloseSent, Sets
  <2> QED BY <1>a, <2>1 DEF FcbInv
<1>5. ASSUME NEW h \in Handles, NEW k, GivenUp(h, k)
      PROVE  \A o \in Handles : FcbInv(o)'
  <2>1. UNCHANGED <<fcb, fcbUsers>>
    BY <1>5 DEF GivenUp, fcbVars, Got
  <2>2. \A x \in Handles : \A j \in AllKinds : irp'[x][j] = "none" <=> irp[x][j] = "none"
    BY <1>5 DEF GivenUp, Sets, eventVars, Got
  <2> QED BY <1>a, <2>1, <2>2, KindsTyped DEF FcbInv
<1>6. ASSUME NEW n \in Names, MadeOutside(n)
      PROVE  \A o \in Handles : FcbInv(o)'
  <2>1. UNCHANGED <<fcb, fcbUsers>>
    BY <1>6 DEF MadeOutside, fcbVars, Got
  <2>2. \A x \in Handles : \A j \in AllKinds : irp'[x][j] = "none" <=> irp[x][j] = "none"
    BY <1>6 DEF MadeOutside, Sets, eventVars, Got
  <2> QED BY <1>a, <2>1, <2>2, KindsTyped DEF FcbInv
<1>7. ASSUME NEW h \in Handles, NEW k, Begun(h, k)
      PROVE  \A o \in Handles : FcbInv(o)'
  <2>1. UNCHANGED <<fcb, fcbUsers>>
    BY <1>7 DEF Begun, fcbVars, Got
  <2>2. \A x \in Handles : \A j \in AllKinds : irp'[x][j] = "none" <=> irp[x][j] = "none"
    BY <1>7 DEF Begun, Sets, eventVars, Got
  <2> QED BY <1>a, <2>1, <2>2, KindsTyped DEF FcbInv
<1>8. ASSUME NEW h \in Handles, Creates(h)
      PROVE  \A o \in Handles : FcbInv(o)'
  <2>1. UNCHANGED <<fcb, fcbUsers>>
    BY <1>8 DEF Creates, fcbVars, Got
  <2>2. \A x \in Handles : \A j \in AllKinds : irp'[x][j] = "none" <=> irp[x][j] = "none"
    BY <1>8 DEF Creates, Sets, eventVars, Got
  <2> QED BY <1>a, <2>1, <2>2, KindsTyped DEF FcbInv
<1>9. ASSUME NEW h \in Handles, NEW can \in BOOLEAN, NEW f \in Files \cup {None}, Moves(h, can, f)
      PROVE  \A o \in Handles : FcbInv(o)'
  <2>1. UNCHANGED <<fcb, fcbUsers>>
    BY <1>9 DEF Moves, fcbVars, Got
  <2>2. \A x \in Handles : \A j \in AllKinds : irp'[x][j] = "none" <=> irp[x][j] = "none"
    BY <1>9 DEF Moves, Sets, eventVars, Got
  <2> QED BY <1>a, <2>1, <2>2, KindsTyped DEF FcbInv
<1>10. ASSUME NEW h \in Handles, Agrees(h)
      PROVE  \A o \in Handles : FcbInv(o)'
  <2>1. UNCHANGED <<fcb, fcbUsers>>
    BY <1>10 DEF Agrees, fcbVars, Got
  <2>2. \A x \in Handles : \A j \in AllKinds : irp'[x][j] = "none" <=> irp[x][j] = "none"
    BY <1>10 DEF Agrees, Sets, eventVars, Got
  <2> QED BY <1>a, <2>1, <2>2, KindsTyped DEF FcbInv
<1>11. ASSUME NEW h \in Handles, NEW f \in Files \cup {None}, Cleans(h, f)
      PROVE  \A o \in Handles : FcbInv(o)'
  <2>1. UNCHANGED <<fcb, fcbUsers>>
    BY <1>11 DEF Cleans, fcbVars, Got
  <2>2. \A x \in Handles : \A j \in AllKinds : irp'[x][j] = "none" <=> irp[x][j] = "none"
    BY <1>11 DEF Cleans, Sets, eventVars, Got
  <2> QED BY <1>a, <2>1, <2>2, KindsTyped DEF FcbInv
<1>12. ASSUME NEW h \in Handles, Closes(h)
      PROVE  \A o \in Handles : FcbInv(o)'
  <2>1. UNCHANGED <<fcb, fcbUsers>>
    BY <1>12 DEF Closes, fcbVars, Got
  <2>2. \A x \in Handles : \A j \in AllKinds : irp'[x][j] = "none" <=> irp[x][j] = "none"
    BY <1>12 DEF Closes, Sets, eventVars, Got
  <2> QED BY <1>a, <2>1, <2>2, KindsTyped DEF FcbInv
<1>13. ASSUME NEW h \in Handles, NEW k, PlainGot(h, k)
      PROVE  \A o \in Handles : FcbInv(o)'
  <2>1. UNCHANGED <<fcb, fcbUsers>>
    BY <1>13 DEF PlainGot, fcbVars, Got
  <2>2. \A x \in Handles : \A j \in AllKinds : irp'[x][j] = "none" <=> irp[x][j] = "none"
    BY <1>13 DEF PlainGot, Sets, PlainGot, eventVars, Got
  <2> QED BY <1>a, <2>1, <2>2, KindsTyped DEF FcbInv
<1>14. ASSUME NEW h \in Handles, RenameGot(h)
      PROVE  \A o \in Handles : FcbInv(o)'
  <2>1. UNCHANGED <<fcb, fcbUsers>>
    BY <1>14 DEF RenameGot, fcbVars, Got
  <2>2. \A x \in Handles : \A j \in AllKinds : irp'[x][j] = "none" <=> irp[x][j] = "none"
    BY <1>14 DEF RenameGot, Sets, eventVars, Got
  <2> QED BY <1>a, <2>1, <2>2, KindsTyped DEF FcbInv
<1>15. ASSUME NEW h \in Handles, NEW k, Shuts(h, k)
      PROVE  \A o \in Handles : FcbInv(o)'
  <2>1. UNCHANGED <<fcb, fcbUsers>>
    BY <1>15 DEF Shuts, fcbVars, Got
  <2>2. \A x \in Handles : \A j \in AllKinds : irp'[x][j] = "none" <=> irp[x][j] = "none"
    BY <1>15 DEF Shuts, Sets, eventVars, Got
  <2> QED BY <1>a, <2>1, <2>2, KindsTyped DEF FcbInv
<1>16. ASSUME NEW h \in Handles, Skips(h)
      PROVE  \A o \in Handles : FcbInv(o)'
  <2>1. UNCHANGED <<fcb, fcbUsers>>
    BY <1>16 DEF Skips, fcbVars, Got
  <2>2. \A x \in Handles : \A j \in AllKinds : irp'[x][j] = "none" <=> irp[x][j] = "none"
    BY <1>16 DEF Skips, Sets, eventVars, Got
  <2> QED BY <1>a, <2>1, <2>2, KindsTyped DEF FcbInv
<1> QED BY <1>1, <1>2, <1>3, <1>4, <1>5, <1>6, <1>7, <1>8, <1>9, <1>10, <1>11, <1>12, <1>13,
           <1>14, <1>15, <1>16, Zenon DEF Step

\* Files stay, apart from those that a callback removes or moves.
LEMMA FileKept ==
  ASSUME BaseInv, NEW h \in Handles, NEW can \in BOOLEAN, NEW f, Leaves(h, can, f),
         \A o \in Handles : /\ Ended(o, "create")' <=> Ended(o, "create")
                            /\ failed'[o]["create"] = failed[o]["create"]
                            /\ Ended(o, "create") \/ context'[o] = context[o]
  PROVE  OutsideInv' /\ \A o \in Handles : FileInv(o)'
<1>a. \A o \in Handles : FileInv(o)
  BY DEF BaseInv
<1>b. \A n \in Names : disk'[n] = None \/ \E m \in Names : disk'[n] = disk[m]
  BY DEF Leaves
<1>1. OutsideInv'
  BY <1>b, NoneApart DEF BaseInv, OutsideInv, Leaves
<1>2. ASSUME NEW o \in Handles PROVE FileInv(o)'
  <2>1. FileInv(o)
    BY <1>a
  <2>2. own' = own /\ win32'[o] \in {None, win32[o]}
    BY DEF Leaves
  <2>3. win32'[o] # None => \E n \in Names : disk'[n] = win32'[o]
    BY DEF Leaves
  <2>4. (\A n \in Names : disk[n] # o) => \A n \in Names : disk'[n] # o
    BY <1>b, NoneApart
  <2> QED BY <2>1, <2>2, <2>3, <2>4 DEF FileInv
<1> QED BY <1>1, <1>2

\* Files stay when the directory does.
LEMMA FileQuiet ==
  ASSUME BaseInv, UNCHANGED <<disk, win32, own, outside>>,
         \A o \in Handles : /\ Ended(o, "create")' <=> Ended(o, "create")
                            /\ failed'[o]["create"] = failed[o]["create"]
                            /\ Ended(o, "create") \/ context'[o] = context[o]
  PROVE  OutsideInv' /\ \A o \in Handles : FileInv(o)'
BY DEF BaseInv, OutsideInv, FileInv

\* Files are new when they are created, and stay while they are open.
LEMMA FileStep ==
  ASSUME BaseInv, Step
  PROVE  OutsideInv' /\ \A o \in Handles : FileInv(o)'
<1>a. TypeOK /\ OutsideInv /\ \A o \in Handles : FileInv(o)
  BY DEF BaseInv
<1>b. \A o \in Handles, k \in AllKinds : RequestInv(o, k)
  BY DEF BaseInv, StageInv
<1>1. ASSUME NEW h \in Handles, NEW n \in Names, NEW x \in Handles, CreateSent(h, n, x)
      PROVE  OutsideInv' /\ \A o \in Handles : FileInv(o)'
  <2>1. UNCHANGED <<disk, win32, own, outside>>
    BY <1>1 DEF CreateSent, diskVars, history, Got
  <2>2. \A o \in Handles : /\ Ended(o, "create")' <=> Ended(o, "create")
                           /\ failed'[o]["create"] = failed[o]["create"]
                           /\ Ended(o, "create") \/ context'[o] = context[o]
    BY <1>1, <1>b, KindsTyped DEF CreateSent, RequestInv, Ended, Sets, eventVars
  <2> QED BY <2>1, <2>2, FileQuiet
<1>2. ASSUME NEW h \in Handles, NEW k, RequestSent(h, k)
      PROVE  OutsideInv' /\ \A o \in Handles : FileInv(o)'
  <2>1. UNCHANGED <<disk, win32, own, outside>>
    BY <1>2 DEF RequestSent, diskVars, history, Got
  <2>2. \A o \in Handles : /\ Ended(o, "create")' <=> Ended(o, "create")
                           /\ failed'[o]["create"] = failed[o]["create"]
                           /\ Ended(o, "create") \/ context'[o] = context[o]
    BY <1>2, <1>b, KindsTyped DEF RequestSent, RequestInv, Ended, Sets, eventVars
  <2> QED BY <2>1, <2>2, FileQuiet
<1>3. ASSUME NEW h \in Handles, CleanupSent(h)
      PROVE  OutsideInv' /\ \A o \in Handles : FileInv(o)'
  <2>1. UNCHANGED <<disk, win32, own, outside>>
    BY <1>3 DEF CleanupSent, diskVars, history, Got
  <2>2. \A o \in Handles : /\ Ended(o, "create")' <=> Ended(o, "create")
                           /\ failed'[o]["create"] = failed[o]["create"]
                           /\ Ended(o, "create") \/ context'[o] = context[o]
    BY <1>3, <1>b, KindsTyped DEF CleanupSent, Ended, Sets, eventVars
  <2> QED BY <2>1, <2>2, FileQuiet
<1>4. ASSUME NEW h \in Handles, CloseSent(h)
      PROVE  OutsideInv' /\ \A o \in Handles : FileInv(o)'
  <2>1. UNCHANGED <<disk, win32, own, outside>>
    BY <1>4 DEF CloseSent, diskVars, history, Got
  <2>2. \A o \in Handles : /\ Ended(o, "create")' <=> Ended(o, "create")
                           /\ failed'[o]["create"] = failed[o]["create"]
                           /\ Ended(o, "create") \/ context'[o] = context[o]
    BY <1>4, <1>b, KindsTyped DEF CloseSent, Ended, Sets, eventVars
  <2> QED BY <2>1, <2>2, FileQuiet
<1>5. ASSUME NEW h \in Handles, NEW k, GivenUp(h, k)
      PROVE  OutsideInv' /\ \A o \in Handles : FileInv(o)'
  <2>1. UNCHANGED <<disk, win32, own, outside>>
    BY <1>5 DEF GivenUp, diskVars, history, Got
  <2>2. \A o \in Handles : /\ Ended(o, "create")' <=> Ended(o, "create")
                           /\ failed'[o]["create"] = failed[o]["create"]
                           /\ Ended(o, "create") \/ context'[o] = context[o]
    BY <1>5, <1>b, KindsTyped DEF GivenUp, Ended, Sets, eventVars
  <2> QED BY <2>1, <2>2, FileQuiet
<1>6. ASSUME NEW n \in Names, MadeOutside(n)
      PROVE  OutsideInv' /\ \A o \in Handles : FileInv(o)'
  <2>1. /\ UNCHANGED <<event, failed, context, own, win32>> /\ ~outside /\ outside'
        /\ disk[n] = None /\ disk'[n] = "outside"
        /\ \A m \in Names : m # n => disk'[m] = disk[m]
    BY <1>6 DEF MadeOutside, eventVars, history
  <2>2. OutsideInv'
    BY <2>1 DEF OutsideInv
  <2>3. ASSUME NEW o \in Handles PROVE FileInv(o)'
    <3>1. FileInv(o)
      BY <1>a
    <3>2. o # "outside"
      BY NoneApart
    <3>3. win32[o] # None => \E m \in Names : disk'[m] = win32[o]
      BY <3>1, <2>1 DEF FileInv
    <3>4. (\A m \in Names : disk[m] # o) => \A m \in Names : disk'[m] # o
      BY <2>1, <3>2
    <3> QED BY <2>1, <3>1, <3>3, <3>4 DEF FileInv, Ended
  <2> QED BY <2>2, <2>3
<1>7. ASSUME NEW h \in Handles, NEW k, Begun(h, k)
      PROVE  OutsideInv' /\ \A o \in Handles : FileInv(o)'
  <2>1. UNCHANGED <<disk, win32, own, outside>>
    BY <1>7 DEF Begun, diskVars, history, Got
  <2>2. \A o \in Handles : /\ Ended(o, "create")' <=> Ended(o, "create")
                           /\ failed'[o]["create"] = failed[o]["create"]
                           /\ Ended(o, "create") \/ context'[o] = context[o]
    BY <1>7, <1>b, KindsTyped DEF Begun, Ended, Sets, eventVars
  <2> QED BY <2>1, <2>2, FileQuiet
<1>8. ASSUME NEW h \in Handles, Creates(h)
      PROVE  OutsideInv' /\ \A o \in Handles : FileInv(o)'
  <2> DEFINE n == name[h]["create"]
  <2>a. /\ event[h]["create"] = "begun" /\ n \in Names /\ ~Ended(h, "create")
        /\ event'[h]["create"] = "ran"
        /\ \A o \in Handles : o # h => event'[o]["create"] = event[o]["create"]
        /\ UNCHANGED <<context, outside>>
        /\ Fails(h) \/ \E f \in Files : Opens(h, f)
    BY <1>8, KindsTyped DEF Creates, Sets, Ended
  <2>b. /\ own[h] = None /\ context[h] = "null" /\ win32[h] = None
        /\ \A o \in Handles : own[o] # h
        /\ \A m \in Names : disk[m] # h
    BY <1>a, <2>a DEF FileInv
  <2>1. CASE Fails(h)
    <3>1. /\ failed'[h]["create"] /\ UNCHANGED <<disk, win32, own>>
          /\ \A o \in Handles : o # h => failed'[o]["create"] = failed[o]["create"]
      BY <2>1, KindsTyped DEF Fails, Sets
    <3> QED BY <1>a, <2>a, <2>b, <3>1 DEF FileInv, Ended, OutsideInv
  <2>2. ASSUME NEW f \in Files, Opens(h, f)
        PROVE  OutsideInv' /\ \A o \in Handles : FileInv(o)'
    <3>1. /\ ~failed'[h]["create"] /\ win32'[h] = f /\ own'[h] = f /\ disk'[n] = f
          /\ \A o \in Handles : o # h => /\ failed'[o]["create"] = failed[o]["create"]
                                       /\ win32'[o] = win32[o] /\ own'[o] = own[o]
          /\ \A m \in Names : m # n => disk'[m] = disk[m]
          /\ disk[n] = f \/ (disk[n] = None /\ f = h)
      BY <2>2, KindsTyped DEF Opens, Sets
    <3>2. f # None /\ (f = "outside" => disk[n] = f)
      BY <3>1, NoneApart
    <3> HIDE DEF n
    <3>3. OutsideInv'
      BY <1>a, <2>a, <3>1, <3>2 DEF OutsideInv
    <3>4. FileInv(h)'
      BY <2>a, <3>1, <3>2 DEF FileInv, Ended
    <3>5. ASSUME NEW o \in Handles, o # h PROVE FileInv(o)'
      <4>1. FileInv(o)
        BY <1>a
      <4>2. ~Ended(o, "create") => f # o
        BY <3>1, <3>5, <4>1, <2>a DEF FileInv
      <4>3. win32[o] # None => \E m \in Names : disk'[m] = win32[o]
        BY <4>1, <3>1, <2>a DEF FileInv
      <4> QED BY <2>a, <3>1, <3>5, <4>1, <4>2, <4>3 DEF FileInv, Ended
    <3> QED BY <3>3, <3>4, <3>5
  <2> QED BY <2>a, <2>1, <2>2
<1>9. ASSUME NEW h \in Handles, NEW can \in BOOLEAN, NEW f \in Files \cup {None}, Moves(h, can, f)
      PROVE  OutsideInv' /\ \A o \in Handles : FileInv(o)'
  <2>1. Leaves(h, can, f)
    BY <1>9 DEF Moves
  <2>2. \A o \in Handles : /\ Ended(o, "create")' <=> Ended(o, "create")
                           /\ failed'[o]["create"] = failed[o]["create"]
                           /\ Ended(o, "create") \/ context'[o] = context[o]
    BY <1>9, KindsTyped DEF Moves, Ended, Sets
  <2> QED BY <2>1, <2>2, FileKept
<1>10. ASSUME NEW h \in Handles, Agrees(h)
      PROVE  OutsideInv' /\ \A o \in Handles : FileInv(o)'
  <2>1. UNCHANGED <<disk, win32, own, outside>>
    BY <1>10 DEF Agrees, diskVars, history, Got
  <2>2. \A o \in Handles : /\ Ended(o, "create")' <=> Ended(o, "create")
                           /\ failed'[o]["create"] = failed[o]["create"]
                           /\ Ended(o, "create") \/ context'[o] = context[o]
    BY <1>10, <1>b, KindsTyped DEF Agrees, Ended, Sets, eventVars
  <2> QED BY <2>1, <2>2, FileQuiet
<1>11. ASSUME NEW h \in Handles, NEW f \in Files \cup {None}, Cleans(h, f)
      PROVE  OutsideInv' /\ \A o \in Handles : FileInv(o)'
  <2>1. Leaves(h, FALSE, None)
    BY <1>11 DEF Cleans
  <2>2. \A o \in Handles : /\ Ended(o, "create")' <=> Ended(o, "create")
                           /\ failed'[o]["create"] = failed[o]["create"]
                           /\ Ended(o, "create") \/ context'[o] = context[o]
    BY <1>11, KindsTyped DEF Cleans, Ended, Sets
  <2> QED BY <2>1, <2>2, FileKept
<1>12. ASSUME NEW h \in Handles, Closes(h)
      PROVE  OutsideInv' /\ \A o \in Handles : FileInv(o)'
  <2>1. Leaves(h, FALSE, None)
    BY <1>12 DEF Closes
  <2>2. \A o \in Handles : /\ Ended(o, "create")' <=> Ended(o, "create")
                           /\ failed'[o]["create"] = failed[o]["create"]
                           /\ Ended(o, "create") \/ context'[o] = context[o]
    BY <1>12, KindsTyped DEF Closes, Ended, Sets
  <2> QED BY <2>1, <2>2, FileKept
<1>13. ASSUME NEW h \in Handles, NEW k, PlainGot(h, k)
      PROVE  OutsideInv' /\ \A o \in Handles : FileInv(o)'
  <2>1. UNCHANGED <<disk, win32, own, outside>>
    BY <1>13 DEF PlainGot, diskVars, history, Got
  <2>2. \A o \in Handles : /\ Ended(o, "create")' <=> Ended(o, "create")
                           /\ failed'[o]["create"] = failed[o]["create"]
                           /\ Ended(o, "create") \/ context'[o] = context[o]
    <3>1. /\ event[h][k] = "ran" /\ Sets(event', event, h, k, "done") /\ k \in AllKinds
          /\ failed' = failed /\ \A o \in Handles : o # h => context'[o] = context[o]
      BY <1>13 DEF PlainGot, Got
    <3>2. event[h]["create"] \in {"ran", "done"}
      BY <1>b, <3>1, KindsTyped DEF RequestInv, Opened
    <3> QED BY <3>1, <3>2, KindsTyped DEF Ended, Sets
  <2> QED BY <2>1, <2>2, FileQuiet
<1>14. ASSUME NEW h \in Handles, RenameGot(h)
      PROVE  OutsideInv' /\ \A o \in Handles : FileInv(o)'
  <2>1. UNCHANGED <<disk, win32, own, outside>>
    BY <1>14 DEF RenameGot, diskVars, history, Got
  <2>2. \A o \in Handles : /\ Ended(o, "create")' <=> Ended(o, "create")
                           /\ failed'[o]["create"] = failed[o]["create"]
                           /\ Ended(o, "create") \/ context'[o] = context[o]
    <3>1. /\ event[h]["rename"] = "ran" /\ Sets(event', event, h, "rename", "done")
          /\ failed' = failed /\ \A o \in Handles : o # h => context'[o] = context[o]
      BY <1>14 DEF RenameGot, Got
    <3>2. event[h]["create"] = "done"
      BY <1>b, <3>1, KindsTyped DEF RequestInv, Opened
    <3> QED BY <3>1, <3>2, KindsTyped DEF Ended, Sets
  <2> QED BY <2>1, <2>2, FileQuiet
<1>15. ASSUME NEW h \in Handles, NEW k, Shuts(h, k)
      PROVE  OutsideInv' /\ \A o \in Handles : FileInv(o)'
  <2>1. Leaves(h, FALSE, None)
    BY <1>15 DEF Shuts
  <2>2. \A o \in Handles : /\ Ended(o, "create")' <=> Ended(o, "create")
                           /\ failed'[o]["create"] = failed[o]["create"]
                           /\ Ended(o, "create") \/ context'[o] = context[o]
    BY <1>15, KindsTyped DEF Shuts, Ended, Sets
  <2> QED BY <2>1, <2>2, FileKept
<1>16. ASSUME NEW h \in Handles, Skips(h)
      PROVE  OutsideInv' /\ \A o \in Handles : FileInv(o)'
  <2>1. UNCHANGED <<disk, win32, own, outside>>
    BY <1>16 DEF Skips, diskVars, history, Got
  <2>2. \A o \in Handles : /\ Ended(o, "create")' <=> Ended(o, "create")
                           /\ failed'[o]["create"] = failed[o]["create"]
                           /\ Ended(o, "create") \/ context'[o] = context[o]
    BY <1>16, <1>b, KindsTyped DEF Skips, Ended, Sets, eventVars
  <2> QED BY <2>1, <2>2, FileQuiet
<1> QED BY <1>1, <1>2, <1>3, <1>4, <1>5, <1>6, <1>7, <1>8, <1>9, <1>10, <1>11, <1>12, <1>13,
           <1>14, <1>15, <1>16, Zenon DEF Step

\* Every step keeps the types.
LEMMA TypeStep ==
  ASSUME BaseInv, Step
  PROVE  TypeOK'
<1>1. ASSUME NEW h \in Handles, NEW n \in Names, NEW x \in Handles, CreateSent(h, n, x)
      PROVE  TypeOK'
  BY <1>1 DEF CreateSent, Got
<1>2. ASSUME NEW h \in Handles, NEW k, RequestSent(h, k)
      PROVE  TypeOK'
  BY <1>2 DEF RequestSent, Got
<1>3. ASSUME NEW h \in Handles, CleanupSent(h)
      PROVE  TypeOK'
  BY <1>3 DEF CleanupSent, Got
<1>4. ASSUME NEW h \in Handles, CloseSent(h)
      PROVE  TypeOK'
  BY <1>4 DEF CloseSent, Got
<1>5. ASSUME NEW h \in Handles, NEW k, GivenUp(h, k)
      PROVE  TypeOK'
  BY <1>5 DEF GivenUp, Got
<1>6. ASSUME NEW n \in Names, MadeOutside(n)
      PROVE  TypeOK'
  BY <1>6 DEF MadeOutside, Got
<1>7. ASSUME NEW h \in Handles, NEW k, Begun(h, k)
      PROVE  TypeOK'
  BY <1>7 DEF Begun, Got
<1>8. ASSUME NEW h \in Handles, Creates(h)
      PROVE  TypeOK'
  BY <1>8 DEF Creates, Got
<1>9. ASSUME NEW h \in Handles, NEW can \in BOOLEAN, NEW f \in Files \cup {None}, Moves(h, can, f)
      PROVE  TypeOK'
  BY <1>9 DEF Moves, Got
<1>10. ASSUME NEW h \in Handles, Agrees(h)
      PROVE  TypeOK'
  BY <1>10 DEF Agrees, Got
<1>11. ASSUME NEW h \in Handles, NEW f \in Files \cup {None}, Cleans(h, f)
      PROVE  TypeOK'
  BY <1>11 DEF Cleans, Got
<1>12. ASSUME NEW h \in Handles, Closes(h)
      PROVE  TypeOK'
  BY <1>12 DEF Closes, Got
<1>13. ASSUME NEW h \in Handles, NEW k, PlainGot(h, k)
      PROVE  TypeOK'
  BY <1>13 DEF PlainGot, Got
<1>14. ASSUME NEW h \in Handles, RenameGot(h)
      PROVE  TypeOK'
  BY <1>14 DEF RenameGot, Got
<1>15. ASSUME NEW h \in Handles, NEW k, Shuts(h, k)
      PROVE  TypeOK'
  BY <1>15 DEF Shuts, Got
<1>16. ASSUME NEW h \in Handles, Skips(h)
      PROVE  TypeOK'
  BY <1>16 DEF Skips, Got
<1> QED BY <1>1, <1>2, <1>3, <1>4, <1>5, <1>6, <1>7, <1>8, <1>9, <1>10, <1>11, <1>12, <1>13,
           <1>14, <1>15, <1>16, Zenon DEF Step

\* What holds of stages, names, FCBs and files goes on to hold.
LEMMA BaseStep ==
  ASSUME BaseInv, Step
  PROVE  BaseInv'
BY TypeStep, StageStep, InputStep, FcbStep, FileStep DEF BaseInv
-----------------------------------------------------------------------------
(* Context.                                                                *)

\* A handle none of whose callbacks does anything.
LEMMA ContextSame ==
  ASSUME NEW o \in Handles, ContextInv(o), o \in overlapped => o \in overlapped',
         \A k \in AllKinds : /\ Active(o, k)' <=> Active(o, k)
                             /\ Active(o, k) => copy'[o][k] = copy[o][k],
         Ended(o, "close")' <=> Ended(o, "close"), context'[o] = context[o], win32'[o] = win32[o]
  PROVE  ContextInv(o)'
BY KindsTyped DEF ContextInv

\* The only callback under way keeps its copy in step with the Win32 handle.
LEMMA ContextRan ==
  ASSUME NEW h \in Handles, NEW k \in AllKinds, ContextInv(h), overlapped' = overlapped,
         NEW e \in {"closed", "ran"}, event[h][k] \in {"begun", "closed"},
         Sets(event', event, h, k, e),
         (copy[h][k] = "handle" <=> win32[h] # None) => (copy'[h][k] = "handle" <=> win32'[h] # None),
         k # "close" => (Ended(h, "close") => win32'[h] = None \/ win32'[h] = win32[h]),
         k = "close" /\ (copy[h][k] = "handle" <=> win32[h] # None) => win32'[h] = None
  PROVE  ContextInv(h)'
<1> SUFFICES ASSUME h \notin overlapped
             PROVE  /\ \A i, j \in AllKinds : Active(h, i)' /\ Active(h, j)' => i = j
                    /\ (\A j \in AllKinds : ~Active(h, j)') => (context'[h] = "handle" <=> win32'[h] # None)
                    /\ \A j \in AllKinds : Active(h, j)' => (copy'[h][j] = "handle" <=> win32'[h] # None)
                    /\ Ended(h, "close")' => win32'[h] = None
  BY DEF ContextInv
<1>1. /\ Active(h, k) /\ \A j \in AllKinds : Active(h, j) => j = k
      /\ copy[h][k] = "handle" <=> win32[h] # None
      /\ Ended(h, "close") => win32[h] = None
  BY DEF ContextInv, Active
<1>2. Active(h, k)' /\ \A j \in AllKinds : Active(h, j)' <=> Active(h, j)
  BY DEF Active, Sets
<1>3. k # "close" => (Ended(h, "close")' <=> Ended(h, "close"))
  BY KindsTyped DEF Ended, Sets
<1> QED BY <1>1, <1>2, <1>3

\* Other handles than the one that a step is about.
LEMMA ContextOthers ==
  ASSUME \A o \in Handles : ContextInv(o), NEW h \in Handles, ContextInv(h)',
         overlapped \subseteq overlapped',
         \A o \in Handles : o # h =>
           /\ context'[o] = context[o] /\ win32'[o] = win32[o]
           /\ \A k \in AllKinds : event'[o][k] = event[o][k] /\ copy'[o][k] = copy[o][k]
  PROVE  \A o \in Handles : ContextInv(o)'
<1>1. ASSUME NEW o \in Handles, o # h PROVE ContextInv(o)'
  BY <1>1, ContextSame, KindsTyped DEF Active, Ended
<1> QED BY <1>1

\* The answer writes the copy of the only callback under way back.
LEMMA ContextGot ==
  ASSUME \A o \in Handles : ContextInv(o), NEW h \in Handles, NEW k \in AllKinds,
         event[h][k] = "ran", Sets(event', event, h, k, "done"),
         context'[h] = copy[h][k], Sets(copy', copy, h, k, "null"), overlapped' = overlapped,
         win32' = win32, \A o \in Handles : o # h => context'[o] = context[o]
  PROVE  \A o \in Handles : ContextInv(o)'
<1>1. CASE h \in overlapped
  <2>1. ContextInv(h)'
    BY <1>1 DEF ContextInv
  <2> QED BY <2>1, ContextOthers DEF Sets
<1>2. CASE h \notin overlapped
  <2>1. /\ \A j \in AllKinds : Active(h, j) => j = k
        /\ copy[h][k] = "handle" <=> win32[h] # None
        /\ Ended(h, "close") => win32[h] = None
    BY <1>2 DEF ContextInv, Active
  <2>2. /\ \A j \in AllKinds : ~Active(h, j)'
        /\ Ended(h, "close")' => Ended(h, "close")
    BY <2>1, KindsTyped DEF Active, Ended, Sets
  <2>3. ContextInv(h)'
    BY <2>1, <2>2 DEF ContextInv
  <2> QED BY <2>3, ContextOthers DEF Sets
<1> QED BY <1>1, <1>2

\* Context tells whether the Win32 handle is open.
LEMMA ContextStep ==
  ASSUME BaseInv, \A o \in Handles : ContextInv(o), Step
  PROVE  \A o \in Handles : ContextInv(o)'
<1>a. \A o \in Handles : ContextInv(o)
  OBVIOUS
<1>b. \A o \in Handles, k \in AllKinds : RequestInv(o, k)
  BY DEF BaseInv, StageInv
<1>1. ASSUME NEW h \in Handles, NEW n \in Names, NEW x \in Handles, CreateSent(h, n, x)
      PROVE  \A o \in Handles : ContextInv(o)'
  <2>1. UNCHANGED <<context, win32, copy, overlapped>>
    BY <1>1 DEF CreateSent, diskVars, history, eventVars
  <2>2. \A o \in Handles : /\ \A j \in AllKinds : Active(o, j)' <=> Active(o, j)
                           /\ Ended(o, "close")' <=> Ended(o, "close")
    BY <1>1, <1>b, KindsTyped DEF CreateSent, Sets, Active, Ended, eventVars, RequestInv
  <2> QED BY <1>a, <2>1, <2>2, ContextSame
<1>2. ASSUME NEW h \in Handles, NEW k, RequestSent(h, k)
      PROVE  \A o \in Handles : ContextInv(o)'
  <2>1. UNCHANGED <<context, win32, copy, overlapped>>
    BY <1>2 DEF RequestSent, diskVars, history, eventVars
  <2>2. \A o \in Handles : /\ \A j \in AllKinds : Active(o, j)' <=> Active(o, j)
                           /\ Ended(o, "close")' <=> Ended(o, "close")
    BY <1>2, <1>b, KindsTyped DEF RequestSent, Sets, Active, Ended, eventVars, RequestInv
  <2> QED BY <1>a, <2>1, <2>2, ContextSame
<1>3. ASSUME NEW h \in Handles, CleanupSent(h)
      PROVE  \A o \in Handles : ContextInv(o)'
  <2>1. UNCHANGED <<context, win32, copy, overlapped>>
    BY <1>3 DEF CleanupSent, diskVars, history, eventVars
  <2>2. \A o \in Handles : /\ \A j \in AllKinds : Active(o, j)' <=> Active(o, j)
                           /\ Ended(o, "close")' <=> Ended(o, "close")
    BY <1>3, <1>b, KindsTyped DEF CleanupSent, Sets, Active, Ended, eventVars, RequestInv
  <2> QED BY <1>a, <2>1, <2>2, ContextSame
<1>4. ASSUME NEW h \in Handles, CloseSent(h)
      PROVE  \A o \in Handles : ContextInv(o)'
  <2>1. UNCHANGED <<context, win32, copy, overlapped>>
    BY <1>4 DEF CloseSent, diskVars, history, eventVars
  <2>2. \A o \in Handles : /\ \A j \in AllKinds : Active(o, j)' <=> Active(o, j)
                           /\ Ended(o, "close")' <=> Ended(o, "close")
    BY <1>4, <1>b, KindsTyped DEF CloseSent, Sets, Active, Ended, eventVars, RequestInv
  <2> QED BY <1>a, <2>1, <2>2, ContextSame
<1>5. ASSUME NEW h \in Handles, NEW k, GivenUp(h, k)
      PROVE  \A o \in Handles : ContextInv(o)'
  <2>1. UNCHANGED <<context, win32, copy, overlapped>>
    BY <1>5 DEF GivenUp, diskVars, history, eventVars
  <2>2. \A o \in Handles : /\ \A j \in AllKinds : Active(o, j)' <=> Active(o, j)
                           /\ Ended(o, "close")' <=> Ended(o, "close")
    BY <1>5, <1>b, KindsTyped DEF GivenUp, Sets, Active, Ended, eventVars, RequestInv
  <2> QED BY <1>a, <2>1, <2>2, ContextSame
<1>6. ASSUME NEW n \in Names, MadeOutside(n)
      PROVE  \A o \in Handles : ContextInv(o)'
  <2>1. UNCHANGED <<context, win32, copy, overlapped, event>>
    BY <1>6 DEF MadeOutside, history, eventVars
  <2> QED BY <1>a, <2>1, ContextSame DEF Active, Ended
<1>7. ASSUME NEW h \in Handles, NEW k, Begun(h, k)
      PROVE  \A o \in Handles : ContextInv(o)'
  <2>1. /\ event[h][k] = "queued" /\ Sets(event', event, h, k, "begun") /\ k \in AllKinds
        /\ copy'[h][k] = context[h] /\ UNCHANGED <<context, win32>>
        /\ (\E j \in Asked(h) : Active(h, j)) => h \in overlapped'
        /\ overlapped \subseteq overlapped'
    BY <1>7, KindsTyped DEF Begun, Sets, diskVars, Active
  <2>2. ASSUME h \in overlapped' PROVE ContextInv(h)'
    BY <2>2 DEF ContextInv
  <2>3. ASSUME h \notin overlapped' PROVE ContextInv(h)'
    <3>1. \A j \in AllKinds : ~Active(h, j)
      BY <1>b, <2>1, <2>3 DEF RequestInv, Active
    <3>2. \A j \in AllKinds : Active(h, j)' <=> j = k
      BY <2>1, <3>1 DEF Active, Sets
    <3>3. Ended(h, "close")' => Ended(h, "close")
      BY <2>1, KindsTyped DEF Ended, Sets
    <3>4. /\ context[h] = "handle" <=> win32[h] # None
          /\ Ended(h, "close") => win32[h] = None
      BY <1>a, <2>1, <2>3, <3>1 DEF ContextInv
    <3> QED BY <2>1, <3>2, <3>3, <3>4 DEF ContextInv
  <2>5. ContextInv(h)'
    BY <2>2, <2>3
  <2>9. \A o \in Handles : o # h =>
          /\ context'[o] = context[o] /\ win32'[o] = win32[o]
          /\ \A j \in AllKinds : event'[o][j] = event[o][j] /\ copy'[o][j] = copy[o][j]
    BY <1>7 DEF Begun, Sets, diskVars
  <2>10. overlapped \subseteq overlapped'
    BY <1>7 DEF Begun
  <2> QED BY <1>a, <2>5, <2>9, <2>10, ContextOthers
<1>8. ASSUME NEW h \in Handles, Creates(h)
      PROVE  \A o \in Handles : ContextInv(o)'
  <2>1. /\ event[h]["create"] = "begun" /\ Sets(event', event, h, "create", "ran")
        /\ "create" \in AllKinds /\ overlapped' = overlapped
        /\ \/ UNCHANGED <<copy, win32>>
           \/ \E f \in Files : /\ copy'[h]["create"] = "handle" /\ win32'[h] = f
                              /\ Sets(copy', copy, h, "create", "handle")
                              /\ \A o \in Handles : o # h => win32'[o] = win32[o]
    BY <1>8, KindsTyped DEF Creates, Sets, Fails, Opens
  <2>2. ~Ended(h, "close")
    BY <1>b, <2>1, KindsTyped DEF RequestInv, Opened, Ended
  <2>5. ContextInv(h)'
    BY <1>a, <2>1, <2>2, ContextRan, NoneApart
  <2>9. \A o \in Handles : o # h =>
          /\ context'[o] = context[o] /\ win32'[o] = win32[o]
          /\ \A j \in AllKinds : event'[o][j] = event[o][j] /\ copy'[o][j] = copy[o][j]
    BY <1>8, <2>1 DEF Creates, Sets
  <2> QED BY <1>a, <2>1, <2>5, <2>9, ContextOthers
<1>9. ASSUME NEW h \in Handles, NEW can \in BOOLEAN, NEW f \in Files \cup {None}, Moves(h, can, f)
      PROVE  \A o \in Handles : ContextInv(o)'
  <2>1. /\ event[h]["rename"] = "closed" /\ Sets(event', event, h, "rename", "ran")
        /\ "rename" \in AllKinds /\ UNCHANGED <<overlapped, copy, win32>>
    BY <1>9, KindsTyped DEF Moves, Sets
  <2>5. ContextInv(h)'
    BY <1>a, <2>1, ContextRan
  <2>9. \A o \in Handles : o # h =>
          /\ context'[o] = context[o] /\ win32'[o] = win32[o]
          /\ \A j \in AllKinds : event'[o][j] = event[o][j] /\ copy'[o][j] = copy[o][j]
    BY <1>9 DEF Moves, Sets, diskVars, Leaves
  <2>10. overlapped \subseteq overlapped'
    BY <1>9 DEF Moves
  <2> QED BY <1>a, <2>5, <2>9, <2>10, ContextOthers
<1>10. ASSUME NEW h \in Handles, Agrees(h)
      PROVE  \A o \in Handles : ContextInv(o)'
  <2>1. UNCHANGED <<context, win32, copy, overlapped>>
    BY <1>10 DEF Agrees, diskVars, history, eventVars
  <2>2. \A o \in Handles : /\ \A j \in AllKinds : Active(o, j)' <=> Active(o, j)
                           /\ Ended(o, "close")' <=> Ended(o, "close")
    BY <1>10, <1>b, KindsTyped DEF Agrees, Sets, Active, Ended, eventVars, RequestInv
  <2> QED BY <1>a, <2>1, <2>2, ContextSame
<1>11. ASSUME NEW h \in Handles, NEW f \in Files \cup {None}, Cleans(h, f)
      PROVE  \A o \in Handles : ContextInv(o)'
  <2>1. /\ event[h]["cleanup"] = "closed" /\ Sets(event', event, h, "cleanup", "ran")
        /\ "cleanup" \in AllKinds /\ UNCHANGED <<overlapped, copy, win32>>
    BY <1>11, KindsTyped DEF Cleans, Sets
  <2>5. ContextInv(h)'
    BY <1>a, <2>1, ContextRan
  <2>9. \A o \in Handles : o # h =>
          /\ context'[o] = context[o] /\ win32'[o] = win32[o]
          /\ \A j \in AllKinds : event'[o][j] = event[o][j] /\ copy'[o][j] = copy[o][j]
    BY <1>11 DEF Cleans, Sets, diskVars, Leaves
  <2>10. overlapped \subseteq overlapped'
    BY <1>11 DEF Cleans
  <2> QED BY <1>a, <2>5, <2>9, <2>10, ContextOthers
<1>12. ASSUME NEW h \in Handles, Closes(h)
      PROVE  \A o \in Handles : ContextInv(o)'
  <2>1. /\ event[h]["close"] = "begun" /\ Sets(event', event, h, "close", "ran")
        /\ "close" \in AllKinds /\ overlapped' = overlapped /\ copy'[h]["close"] = "null"
        /\ copy[h]["close"] = "handle" => win32'[h] = None
        /\ copy[h]["close"] # "handle" => win32'[h] = win32[h]
    BY <1>12, KindsTyped DEF Closes, Sets
  <2>5. ContextInv(h)'
    BY <1>a, <2>1, ContextRan
  <2>9. \A o \in Handles : o # h =>
          /\ context'[o] = context[o] /\ win32'[o] = win32[o]
          /\ \A j \in AllKinds : event'[o][j] = event[o][j] /\ copy'[o][j] = copy[o][j]
    BY <1>12 DEF Closes, Sets, diskVars, Leaves
  <2>10. overlapped \subseteq overlapped'
    BY <1>12 DEF Closes
  <2> QED BY <1>a, <2>5, <2>9, <2>10, ContextOthers
<1>13. ASSUME NEW h \in Handles, NEW k, PlainGot(h, k)
      PROVE  \A o \in Handles : ContextInv(o)'
  <2>1. /\ event[h][k] = "ran" /\ Sets(event', event, h, k, "done") /\ k \in AllKinds
        /\ context'[h] = copy[h][k] /\ Sets(copy', copy, h, k, "null")
        /\ overlapped' = overlapped /\ win32' = win32
        /\ \A o \in Handles : o # h => context'[o] = context[o]
    BY <1>13, KindsTyped DEF PlainGot, Got, diskVars
  <2> QED BY <1>a, <2>1, ContextGot
<1>14. ASSUME NEW h \in Handles, RenameGot(h)
      PROVE  \A o \in Handles : ContextInv(o)'
  <2>1. /\ event[h]["rename"] = "ran" /\ Sets(event', event, h, "rename", "done") /\ "rename" \in AllKinds
        /\ context'[h] = copy[h]["rename"] /\ Sets(copy', copy, h, "rename", "null")
        /\ overlapped' = overlapped /\ win32' = win32
        /\ \A o \in Handles : o # h => context'[o] = context[o]
    BY <1>14, KindsTyped DEF RenameGot, Got, diskVars
  <2> QED BY <1>a, <2>1, ContextGot
<1>15. ASSUME NEW h \in Handles, NEW k, Shuts(h, k)
      PROVE  \A o \in Handles : ContextInv(o)'
  <2>1. /\ event[h][k] = "begun" /\ Sets(event', event, h, k, "closed")
        /\ k \in AllKinds /\ overlapped' = overlapped /\ copy'[h][k] = "null"
        /\ copy[h][k] = "handle" => win32'[h] = None
        /\ copy[h][k] # "handle" => win32'[h] = win32[h]
    BY <1>15, KindsTyped DEF Shuts, Sets
  <2>5. ContextInv(h)'
    BY <1>a, <2>1, ContextRan
  <2>9. \A o \in Handles : o # h =>
          /\ context'[o] = context[o] /\ win32'[o] = win32[o]
          /\ \A j \in AllKinds : event'[o][j] = event[o][j] /\ copy'[o][j] = copy[o][j]
    BY <1>15 DEF Shuts, Sets, diskVars, Leaves
  <2>10. overlapped \subseteq overlapped'
    BY <1>15 DEF Shuts
  <2> QED BY <1>a, <2>5, <2>9, <2>10, ContextOthers
<1>16. ASSUME NEW h \in Handles, Skips(h)
      PROVE  \A o \in Handles : ContextInv(o)'
  <2>1. UNCHANGED <<context, win32, copy, overlapped>>
    BY <1>16 DEF Skips, diskVars, history, eventVars
  <2>2. \A o \in Handles : /\ \A j \in AllKinds : Active(o, j)' <=> Active(o, j)
                           /\ Ended(o, "close")' <=> Ended(o, "close")
    BY <1>16, <1>b, KindsTyped DEF Skips, Sets, Active, Ended, eventVars, RequestInv
  <2> QED BY <1>a, <2>1, <2>2, ContextSame
<1> QED BY <1>1, <1>2, <1>3, <1>4, <1>5, <1>6, <1>7, <1>8, <1>9, <1>10, <1>11, <1>12, <1>13,
           <1>14, <1>15, <1>16, Zenon DEF Step
-----------------------------------------------------------------------------
(* Names.                                                                  *)

\* A handle with a request after its create is on a file.
LEMMA OwnThere ==
  ASSUME BaseInv, NEW o \in Handles, NEW k \in AllKinds, k # "create", event[o][k] # "none"
  PROVE  Opened(o) /\ Ended(o, "create") /\ own[o] # None /\ event[o]["create"] = "done"
<1>1. RequestInv(o, k) /\ RequestInv(o, "create") /\ FileInv(o)
  BY KindsTyped DEF BaseInv, StageInv
<1> QED BY <1>1 DEF RequestInv, Opened, FileInv, Ended

\* A handle is counted in its FCB as long as it has requests under way.
LEMMA Counted ==
  ASSUME BaseInv, NEW o \in Handles, NEW k \in AllKinds \ {"close"},
         (k = "create" /\ irp[o]["close"] = "none") \/ irp[o][k] = "pending", irp[o][k] # "none"
  PROVE  fcb[o] \in Handles /\ o \in fcbUsers[fcb[o]]
<1>1. RequestInv(o, k) /\ RequestInv(o, "create") /\ FcbInv(o) /\ StageInv(o)
  BY KindsTyped DEF BaseInv, StageInv
<1>2. irp[o]["create"] # "none"
  BY <1>1 DEF RequestInv, Opened
<1>3. irp[o][k] = "pending" => irp[o]["close"] = "none"
  BY <1>1 DEF StageInv, RequestInv, Idle
<1> QED BY <1>1, <1>2, <1>3 DEF FcbInv

\* The requests of o do nothing, or nothing that matters for names.
QuietRequests(o) ==
  /\ irp'[o]["create"] = "pending" => irp[o]["create"] = "pending"
  /\ irp'[o]["create"] \in {"pending", "done"} => irp[o]["create"] \in {"pending", "done"}
  /\ irp'[o]["close"] = "none" => irp[o]["close"] = "none"
  /\ Ended(o, "create")' => Ended(o, "create")
  /\ \A k \in {"create", "cleanup"} : event'[o][k] \in {"queued", "begun", "closed"} =>
       event[o][k] \in {"queued", "begun", "closed"} /\ name'[o][k] = name[o][k]

QuietFcb(o) ==
  /\ fcb'[o] = fcb[o] /\ (fcb[o] \in Handles => fcbName'[fcb[o]] = fcbName[fcb[o]])
  /\ Sound(o)' => Sound(o)
  /\ o \in moved => o \in moved'

QuietFile(o) ==
  own'[o] = own[o] /\ \A n \in Names : disk'[n] = own[o] /\ own[o] # None => disk[n] = own[o]

\* No rename is answered, and o does not carry one out.
QuietRenames(o) ==
  /\ \A g \in Handles : Moving(g) => Moving(g)' /\ own'[g] = own[g]
  /\ Moving(o)' => /\ Moving(o) /\ target'[o] = target[o]
                   /\ irp'[o]["rename"] = "pending" => irp[o]["rename"] = "pending"

\* What holds of the names of o goes on to hold.
LEMMA NamesStay ==
  ASSUME BaseInv, NEW o \in Handles, NameInv(o),
         QuietRequests(o), QuietFcb(o), QuietFile(o), QuietRenames(o)
  PROVE  NameInv(o)'
<1>1. CreateNamed(o)'
  <2> SUFFICES ASSUME irp'[o]["create"] = "pending", event'[o]["create"] \in {"queued", "begun", "closed"}, Sound(o)'
               PROVE  name'[o]["create"] = fcbName'[fcb'[o]]
    BY DEF CreateNamed
  <2>1. /\ irp[o]["create"] = "pending" /\ event[o]["create"] \in {"queued", "begun", "closed"} /\ Sound(o)
        /\ name'[o]["create"] = name[o]["create"] /\ fcb'[o] = fcb[o]
        /\ fcb[o] \in Handles => fcbName'[fcb[o]] = fcbName[fcb[o]]
    BY DEF QuietRequests, QuietFcb
  <2>2. fcb[o] \in Handles
    BY <2>1 DEF BaseInv, FcbInv
  <2> QED BY <2>1, <2>2 DEF NameInv, CreateNamed
<1>2. FcbNamed(o)'
  <2> SUFFICES ASSUME irp'[o]["create"] \in {"pending", "done"}, Ended(o, "create")',
                      irp'[o]["close"] = "none", Sound(o)', NEW n \in Names,
                      disk'[n] = own'[o], disk'[n] # None
               PROVE  fcbName'[fcb'[o]] = n \/ Renaming(o)'
    BY DEF FcbNamed
  <2>1. /\ irp[o]["create"] \in {"pending", "done"} /\ Ended(o, "create")
        /\ irp[o]["close"] = "none" /\ Sound(o)
        /\ disk[n] = own[o] /\ disk[n] # None /\ own'[o] = own[o] /\ fcb'[o] = fcb[o]
        /\ fcb[o] \in Handles => fcbName'[fcb[o]] = fcbName[fcb[o]]
    BY DEF QuietRequests, QuietFcb, QuietFile
  <2>2. fcb[o] \in Handles
    BY <2>1 DEF BaseInv, FcbInv
  <2>3. fcbName[fcb[o]] = n \/ Renaming(o)
    BY <2>1 DEF NameInv, FcbNamed
  <2>4. Renaming(o) => Renaming(o)'
    BY <2>1 DEF Renaming, QuietRenames
  <2> QED BY <2>1, <2>2, <2>3, <2>4
<1>3. RenameNamed(o)'
  <2> SUFFICES ASSUME irp'[o]["rename"] = "pending", Moving(o)', Sound(o)', NEW n \in Names, disk'[n] = own'[o]
               PROVE  n = target'[o].to \/ Crossed(o)'
    BY DEF RenameNamed
  <2>1. /\ irp[o]["rename"] = "pending" /\ Moving(o) /\ Sound(o)
        /\ target'[o] = target[o] /\ own'[o] = own[o]
    BY DEF QuietRequests, QuietFcb, QuietFile, QuietRenames
  <2>2. own[o] # None
    BY <2>1, OwnThere, KindsTyped DEF Moving
  <2>3. disk[n] = own[o]
    BY <2>1, <2>2 DEF QuietFile
  <2>4. n = target[o].to \/ Crossed(o)
    BY <2>1, <2>3 DEF NameInv, RenameNamed
  <2>5. Crossed(o) => Crossed(o)'
    BY <2>1 DEF Crossed, QuietRenames
  <2> QED BY <2>1, <2>4, <2>5
<1>4. CleanupNamed(o)'
  <2> SUFFICES ASSUME event'[o]["cleanup"] \in {"queued", "begun", "closed"}, Sound(o)', o \notin moved',
                      NEW n \in Names, disk'[n] = own'[o]
               PROVE  name'[o]["cleanup"] = n
    BY DEF CleanupNamed
  <2>1. /\ event[o]["cleanup"] \in {"queued", "begun", "closed"} /\ Sound(o) /\ o \notin moved
        /\ name'[o]["cleanup"] = name[o]["cleanup"] /\ own'[o] = own[o]
    BY DEF QuietRequests, QuietFcb, QuietFile
  <2>2. own[o] # None
    BY <2>1, OwnThere, KindsTyped
  <2>3. disk[n] = own[o]
    BY <2>1, <2>2 DEF QuietFile
  <2> QED BY <2>1, <2>3 DEF NameInv, CleanupNamed
<1> QED BY <1>1, <1>2, <1>3, <1>4 DEF NameInv
\* A create is dispatched: the new handle has an FCB with its name.
LEMMA NameCreateSent ==
  ASSUME BaseInv, NEW o \in Handles, NameInv(o),
         NEW h \in Handles, NEW n \in Names, NEW x \in Handles, CreateSent(h, n, x)
  PROVE  NameInv(o)'
<1>b. \A g \in Handles, j \in AllKinds : RequestInv(g, j)
  BY DEF BaseInv, StageInv
<1>1. CASE o = h
  <2>1. /\ event'[h]["create"] = "queued" /\ name'[h]["create"] = n
        /\ fcb'[h] = x /\ fcbName'[x] = n
        /\ \A j \in AllKinds : j # "create" => event'[h][j] = "none"
    BY <1>b, KindsTyped DEF CreateSent, Sets, RequestInv, Opened
  <2> QED BY <1>1, <2>1, KindsTyped
          DEF NameInv, CreateNamed, FcbNamed, RenameNamed, CleanupNamed, Ended, Moving
<1>2. CASE o # h
  <2>1. QuietRequests(o)
    BY <1>2, KindsTyped DEF CreateSent, Sets, QuietRequests, Ended
  <2>2. QuietFcb(o)
    <3>1. fcb[o] # h
      BY DEF CreateSent, BaseInv, FcbInv
    <3> QED BY <1>2, <3>1 DEF CreateSent, QuietFcb, Sound, history
  <2>3. QuietFile(o)
    BY DEF CreateSent, QuietFile, diskVars, history
  <2>4. QuietRenames(o)
    BY <1>2, <1>b, KindsTyped DEF CreateSent, Sets, QuietRenames, Moving, RequestInv, history
  <2> QED BY <2>1, <2>2, <2>3, <2>4, NamesStay
<1> QED BY <1>1, <1>2

\* A cleanup is dispatched with the name of the FCB: that is the name of the
\* file, unless a rename is on its way.
LEMMA NameCleanupSent ==
  ASSUME BaseInv, NEW o \in Handles, NameInv(o), NEW h \in Handles, CleanupSent(h)
  PROVE  NameInv(o)'
<1>b. \A g \in Handles, j \in AllKinds : RequestInv(g, j)
  BY DEF BaseInv, StageInv
<1>a. /\ irp[h]["cleanup"] = "none" /\ Opened(h) /\ Idle(h)
      /\ Sets(irp', irp, h, "cleanup", "pending") /\ Sets(event', event, h, "cleanup", "queued")
      /\ Sets(name', name, h, "cleanup", fcbName[fcb[h]])
      /\ moved' = IF Renaming(h) THEN moved \cup {h} ELSE moved
      /\ UNCHANGED <<fcb, fcbName, failed, target, disk, own, astray>>
  BY DEF CleanupSent, fcbVars, diskVars
<1>c. /\ \A g \in Handles : Moving(g)' <=> Moving(g)
      /\ \A g \in Handles, j \in AllKinds : g # h \/ j # "cleanup" =>
           event'[g][j] = event[g][j] /\ irp'[g][j] = irp[g][j] /\ name'[g][j] = name[g][j]
  BY <1>a, KindsTyped DEF Sets, Moving
<1>1. CASE o = h
  <2>1. /\ event[h]["create"] = "done" /\ irp[h]["create"] = "done" /\ irp[h]["close"] = "none"
    BY <1>a, <1>b, KindsTyped DEF BaseInv, StageInv, RequestInv, Opened
  <2>2. irp[h]["rename"] # "pending"
    BY <1>a, <1>b, KindsTyped DEF RequestInv, Idle
  <2>3. CreateNamed(h)' /\ RenameNamed(h)'
    BY <1>c, <2>1, <2>2, KindsTyped DEF CreateNamed, RenameNamed
  <2>4. FcbNamed(h)'
    BY <1>a, <1>c, <1>1, KindsTyped DEF NameInv, FcbNamed, Ended, Sound, Renaming
  <2>5. CleanupNamed(h)'
    <3> SUFFICES ASSUME Sound(h)', h \notin moved', NEW n \in Names, disk'[n] = own'[h]
                 PROVE  name'[h]["cleanup"] = n
      BY DEF CleanupNamed
    <3>1. own[h] # None
      BY <1>a, <2>1, KindsTyped DEF BaseInv, FileInv, Ended, Opened
    <3>2. Sound(h) /\ ~Renaming(h) /\ disk[n] = own[h]
      BY <1>a DEF Sound
    <3>3. fcbName[fcb[h]] = n
      BY <1>1, <2>1, <3>1, <3>2 DEF NameInv, FcbNamed, Ended
    <3> QED BY <1>a, <3>3 DEF Sets
  <2> QED BY <1>1, <2>3, <2>4, <2>5 DEF NameInv
<1>2. CASE o # h
  <2>1. QuietRequests(o)
    BY <1>2, <1>c, KindsTyped DEF QuietRequests, Ended
  <2>2. QuietFcb(o) /\ QuietFile(o) /\ QuietRenames(o)
    BY <1>2, <1>a, <1>c, KindsTyped DEF QuietFcb, QuietFile, QuietRenames, Sound
  <2> QED BY <2>1, <2>2, NamesStay
<1> QED BY <1>1, <1>2

\* A file is opened by the name of the FCB.
LEMMA NameCreates ==
  ASSUME BaseInv, NEW o \in Handles, NameInv(o), NEW h \in Handles, Creates(h)
  PROVE  NameInv(o)'
<1> DEFINE n == name[h]["create"]
<1>b. \A g \in Handles, j \in AllKinds : RequestInv(g, j)
  BY DEF BaseInv, StageInv
<1>a. /\ TypeOK' /\ event[h]["create"] = "begun" /\ Sets(event', event, h, "create", "ran") /\ n \in Names
      /\ UNCHANGED <<fcb, fcbName, irp, name, target, astray, moved>>
      /\ Fails(h) \/ \E f \in Files : Opens(h, f)
  BY DEF Creates, fcbVars
<1>c. /\ \A j \in AllKinds : j # "create" => event[h][j] = "none"
      /\ \A g \in Handles, j \in AllKinds : g # h \/ j # "create" =>
           event'[g][j] = event[g][j] /\ failed'[g][j] = failed[g][j]
      /\ \A g \in Handles : g # h => own'[g] = own[g]
      /\ event'[h]["create"] = "ran" /\ irp[h]["create"] # "done"
  BY <1>a, <1>b, KindsTyped DEF RequestInv, Opened, Sets, Fails, Opens
<1>d. /\ own[h] = None /\ \A g \in Handles : own[g] # h
  BY <1>a DEF BaseInv, FileInv, Ended
<1>e. \A g \in Handles : (Moving(g)' <=> Moving(g)) /\ (Moving(g) => g # h)
  BY <1>a, <1>c, KindsTyped DEF Moving
<1> HIDE DEF n
<1>1. CASE o = h
  <2>1. CreateNamed(h)' /\ RenameNamed(h)' /\ CleanupNamed(h)'
    BY <1>c, <1>e, KindsTyped DEF CreateNamed, RenameNamed, CleanupNamed
  <2>2. FcbNamed(h)'
    <3> SUFFICES ASSUME irp'[h]["create"] \in {"pending", "done"}, Sound(h)', NEW m \in Names,
                        disk'[m] = own'[h], disk'[m] # None
                 PROVE  fcbName'[fcb'[h]] = m
      BY DEF FcbNamed
    <3>1. irp[h]["create"] = "pending" /\ Sound(h)
      BY <1>a, <1>c DEF Sound
    <3>2. n = fcbName[fcb[h]]
      BY <1>1, <1>a, <3>1 DEF NameInv, CreateNamed, n
    <3>3. disk'[n] = own'[h]
      BY <1>a, <1>d DEF Fails, Opens, n
    <3>4. m = n
      BY <1>a, <3>3 DEF TypeOK
    <3> QED BY <1>a, <3>2, <3>4
  <2> QED BY <1>1, <2>1, <2>2 DEF NameInv
<1>2. CASE o # h
  <2>1. QuietRequests(o)
    BY <1>2, <1>a, <1>c, KindsTyped DEF QuietRequests, Ended
  <2>2. QuietFcb(o) /\ QuietRenames(o)
    BY <1>2, <1>a, <1>c, <1>e DEF QuietFcb, QuietRenames, Sound
  <2>3. QuietFile(o)
    <3>1. CASE Fails(h)
      BY <3>1 DEF QuietFile, Fails
    <3>2. ASSUME NEW f \in Files, Opens(h, f) PROVE QuietFile(o)
      <4>1. /\ disk'[n] = f /\ \A m \in Names : m # n => disk'[m] = disk[m]
            /\ disk[n] = f \/ (disk[n] = None /\ f = h)
        BY <3>2 DEF Opens, n
      <4> QED BY <4>1, <1>2, <1>c, <1>d DEF QuietFile
    <3> QED BY <1>a, <3>1, <3>2
  <2> QED BY <2>1, <2>2, <2>3, NamesStay
<1> QED BY <1>1, <1>2

\* A file moves: those who are on it wait for the answer.
LEMMA NameMoves ==
  ASSUME BaseInv, NEW o \in Handles, NameInv(o),
         NEW h \in Handles, NEW can \in BOOLEAN, NEW f \in Files \cup {None}, Moves(h, can, f)
  PROVE  NameInv(o)'
<1>b. \A g \in Handles, j \in AllKinds : RequestInv(g, j)
  BY DEF BaseInv, StageInv
<1>a. /\ Leaves(h, can, f) /\ event[h]["rename"] = "closed" /\ Sets(event', event, h, "rename", "ran")
      /\ Sets(failed', failed, h, "rename", ~can)
      /\ can => \A n \in Names : disk'[n] = f => n = target[h].to
      /\ moved' = moved \cup
           {g \in Handles : can /\ own[g] = f /\ event[g]["cleanup"] \in {"queued", "begun", "closed"}}
      /\ \A y \in Handles :
           /\ astray[y] \subseteq astray'[y]
           /\ can /\ f # own[h] /\ (y = fcb[h] \/ \E g \in fcbUsers[y] : own[g] = f) =>
                astray'[y] # {}
      /\ UNCHANGED <<fcb, fcbName, irp, name, target>>
  BY DEF Moves, fcbVars
<1>c. /\ \A g \in Handles, j \in AllKinds : g # h \/ j # "rename" =>
           event'[g][j] = event[g][j] /\ failed'[g][j] = failed[g][j]
      /\ event'[h]["rename"] = "ran" /\ own' = own
      /\ can <=> ~failed'[h]["rename"]
  <2>1. failed'[h]["rename"] = ~can
    BY <1>a DEF Sets
  <2>2. can <=> ~failed'[h]["rename"]
    BY <2>1
  <2>3. event'[h]["rename"] = "ran" /\ own' = own
    BY <1>a DEF Sets, Leaves
  <2>4. \A g \in Handles, j \in AllKinds : g # h \/ j # "rename" =>
          event'[g][j] = event[g][j] /\ failed'[g][j] = failed[g][j]
    BY <1>a, Zenon DEF Sets
  <2> QED BY <2>2, <2>3, <2>4
<1>d. /\ \A g \in Handles : g # h => (Moving(g)' <=> Moving(g))
      /\ ~Moving(h) /\ (Moving(h)' <=> can)
  BY <1>a, <1>c, KindsTyped DEF Moving
<1>e. fcb[h] \in Handles /\ (can => f # None)
  BY <1>a, <1>b, NoneApart, KindsTyped DEF RequestInv, Opened, Leaves, BaseInv, FcbInv
<1>f. /\ Sound(o)' => (fcb[o] \in Handles => Sound(o))
      /\ o \in moved => o \in moved'
  BY <1>a DEF Sound
<1>1. CASE ~can \/ own[o] # f
  <2>1. QuietRequests(o)
    BY <1>a, <1>c, KindsTyped DEF QuietRequests, Ended
  <2>2. QuietFile(o)
    BY <1>1, <1>a, <1>c DEF QuietFile, Leaves
  <2>3. CASE o # h \/ ~can
    <3>1. QuietRenames(o)
      BY <2>3, <1>a, <1>c, <1>d DEF QuietRenames
    <3>2. CASE fcb[o] \in Handles
      <4>1. QuietFcb(o)
        BY <1>a, <1>f, <3>2 DEF QuietFcb
      <4> QED BY <2>1, <2>2, <3>1, <4>1, NamesStay
    <3>3. CASE fcb[o] \notin Handles
      <4>1. irp[o]["create"] = "none" /\ irp'[o]["create"] = "none"
        BY <1>a, <3>3 DEF BaseInv, FcbInv
      <4>2. event[o]["rename"] = "none" /\ event[o]["cleanup"] = "none"
        BY <1>b, <4>1, KindsTyped DEF RequestInv, Opened
      <4>3. o # h
        BY <1>a, <4>2
      <4> QED BY <1>c, <1>d, <4>1, <4>2, <4>3, KindsTyped
              DEF NameInv, CreateNamed, FcbNamed, RenameNamed, CleanupNamed, Moving
    <3> QED BY <3>2, <3>3
  <2>4. CASE o = h /\ can
    <3>1. ~Sound(h)'
      BY <1>1, <1>a, <1>e, <2>4 DEF Sound
    <3> QED BY <2>4, <3>1 DEF NameInv, CreateNamed, FcbNamed, RenameNamed, CleanupNamed
  <2> QED BY <2>3, <2>4
<1>2. CASE can /\ own[o] = f
  <2>1. f # None /\ Ended(o, "create") /\ event[o]["create"] \in {"ran", "done"}
    BY <1>2, <1>a, NoneApart DEF Leaves, BaseInv, FileInv, Ended
  <2>2. CreateNamed(o)'
    BY <2>1, <1>c, KindsTyped DEF CreateNamed
  <2>3. CleanupNamed(o)'
    BY <1>2, <1>a, <1>c, KindsTyped DEF CleanupNamed
  <2>4. FcbNamed(o)'
    <3>1. CASE f = own[h]
      <4>1. Renaming(o)'
        BY <1>2, <1>c, <1>d, <3>1 DEF Renaming
      <4> QED BY <4>1 DEF FcbNamed
    <3>2. CASE f # own[h]
      <4> SUFFICES ASSUME irp[o]["create"] \in {"pending", "done"}, irp[o]["close"] = "none", Sound(o)'
                   PROVE  FALSE
        BY <1>a DEF FcbNamed
      <4>1. fcb[o] \in Handles /\ o \in fcbUsers[fcb[o]]
        BY DEF BaseInv, FcbInv
      <4> QED BY <4>1, <3>2, <1>2, <1>a DEF Sound
    <3> QED BY <3>1, <3>2
  <2>5. RenameNamed(o)'
    <3> SUFFICES ASSUME irp[o]["rename"] = "pending", Sound(o)', NEW n \in Names, disk'[n] = own'[o]
                 PROVE  n = target'[o].to \/ Crossed(o)'
      BY <1>a DEF RenameNamed
    <3>1. fcb[o] \in Handles /\ o \in fcbUsers[fcb[o]]
      BY Counted, KindsTyped
    <3>2. f = own[h]
      BY <3>1, <1>2, <1>a DEF Sound
    <3>3. CASE o = h
      BY <3>3, <1>2, <1>a, <1>c
    <3>4. CASE o # h
      BY <3>2, <3>4, <1>2, <1>c, <1>d DEF Crossed
    <3> QED BY <3>3, <3>4
  <2> QED BY <2>2, <2>3, <2>4, <2>5 DEF NameInv
<1> QED BY <1>1, <1>2

\* A rename is answered: its FCB gets the name of the file, and nobody else
\* counts on that answer.
LEMMA NameRenameGot ==
  ASSUME BaseInv, \A o \in Handles : NameInv(o), NEW o \in Handles, NEW h \in Handles, RenameGot(h)
  PROVE  NameInv(o)'
<1> DEFINE x == fcb[h]
<1>b. \A g \in Handles, j \in AllKinds : RequestInv(g, j)
  BY DEF BaseInv, StageInv
<1>a. /\ event[h]["rename"] = "ran" /\ Sets(event', event, h, "rename", "done")
      /\ Sets(name', name, h, "rename", None)
      /\ Sets(irp', irp, h, "rename", IF irp[h]["rename"] = "pending" THEN "done" ELSE irp[h]["rename"])
      /\ UNCHANGED <<fcb, fcbUsers, failed, disk, own, moved>>
  BY DEF RenameGot, Got, diskVars
<1>c. /\ \A g \in Handles, j \in AllKinds : g # h \/ j # "rename" =>
           event'[g][j] = event[g][j] /\ irp'[g][j] = irp[g][j] /\ name'[g][j] = name[g][j]
      /\ event'[h]["rename"] = "done" /\ irp'[h]["rename"] # "pending"
  BY <1>a, KindsTyped DEF Sets
<1>d. /\ Opened(h) /\ event[h]["create"] = "done" /\ x \in Handles
      /\ Moving(h) <=> ~failed[h]["rename"]
  BY <1>a, OwnThere, KindsTyped DEF Opened, BaseInv, FcbInv, Moving
<1>e. /\ \A g \in Handles : g # h => (Moving(g)' <=> Moving(g))
      /\ ~Moving(h)'
  BY <1>a, <1>c, KindsTyped DEF Moving
<1>f. /\ \A g \in Handles : g # h => target'[g] = target[g]
      /\ \A y \in Handles : astray[y] \subseteq astray'[y]
      /\ \A y \in Handles : y # x => fcbName'[y] = fcbName[y]
      /\ failed[h]["rename"] \/ irp[h]["rename"] # "pending" => fcbName' = fcbName
      /\ ~failed[h]["rename"] /\ irp[h]["rename"] = "pending" =>
           /\ fcbName'[x] = NewName(h)
           /\ astray'[x] = {} =>
                /\ ~target[h].bare
                /\ \A u \in fcbUsers[x] : irp[u]["create"] # "pending" /\ own[u] = own[h]
           /\ \A y \in Handles : \A u \in fcbUsers[y] :
                astray'[y] = {} /\ own[u] = own[h] => y = x /\ ~Crossed(h)
      /\ ~failed[h]["rename"] /\ irp[h]["rename"] # "pending" =>
           \A y \in Handles : \A u \in fcbUsers[y] : astray'[y] = {} => own[u] # own[h]
  BY DEF RenameGot
<1> HIDE DEF x
<1>g. fcb[o] \in Handles => (Sound(o)' => Sound(o))
  BY <1>a, <1>f DEF Sound
<1>1. CreateNamed(o)'
  <2> SUFFICES ASSUME irp'[o]["create"] = "pending", event'[o]["create"] \in {"queued", "begun", "closed"}, Sound(o)'
               PROVE  name'[o]["create"] = fcbName'[fcb'[o]]
    BY DEF CreateNamed
  <2>1. /\ irp[o]["create"] = "pending" /\ event[o]["create"] \in {"queued", "begun", "closed"}
        /\ name'[o]["create"] = name[o]["create"]
    BY <1>c, KindsTyped
  <2>2. fcb[o] \in Handles /\ o \in fcbUsers[fcb[o]] /\ Sound(o)
    BY <2>1, <1>g, Counted, KindsTyped
  <2>3. name[o]["create"] = fcbName[fcb[o]]
    BY <2>1, <2>2 DEF NameInv, CreateNamed
  <2>4. fcbName'[fcb[o]] = fcbName[fcb[o]]
    BY <2>1, <2>2, <1>a, <1>f DEF Sound
  <2> QED BY <1>a, <2>1, <2>3, <2>4
<1>2. FcbNamed(o)'
  <2> SUFFICES ASSUME irp'[o]["create"] \in {"pending", "done"}, Ended(o, "create")',
                      irp'[o]["close"] = "none", Sound(o)', NEW n \in Names,
                      disk'[n] = own'[o], disk'[n] # None
               PROVE  fcbName'[fcb'[o]] = n \/ Renaming(o)'
    BY DEF FcbNamed
  <2>1. /\ irp[o]["create"] \in {"pending", "done"} /\ Ended(o, "create") /\ irp[o]["close"] = "none"
        /\ disk[n] = own[o] /\ disk[n] # None
    BY <1>a, <1>c, KindsTyped DEF Ended
  <2>2. fcb[o] \in Handles /\ o \in fcbUsers[fcb[o]] /\ Sound(o) /\ astray'[fcb[o]] = {}
    BY <2>1, <1>a, <1>g DEF BaseInv, FcbInv, Sound
  <2>3. fcbName[fcb[o]] = n \/ Renaming(o)
    BY <2>1, <2>2 DEF NameInv, FcbNamed
  <2>4. CASE fcb[o] = x /\ ~failed[h]["rename"] /\ irp[h]["rename"] = "pending"
    <3>1. ~target[h].bare /\ own[o] = own[h] /\ ~Crossed(h) /\ astray'[x] = {}
      BY <2>2, <2>4, <1>f
    <3>2. Sound(h)
      BY <2>2, <2>4 DEF x, Sound
    <3>3. n = target[h].to
      BY <2>1, <2>4, <3>1, <3>2, <1>d DEF NameInv, RenameNamed
    <3> QED BY <1>a, <1>f, <2>4, <3>1, <3>3 DEF NewName
  <2>5. CASE ~(fcb[o] = x /\ ~failed[h]["rename"] /\ irp[h]["rename"] = "pending")
    <3>1. fcbName'[fcb[o]] = fcbName[fcb[o]]
      BY <2>2, <2>5, <1>f
    <3>2. Renaming(o) => Renaming(o)'
      <4> SUFFICES ASSUME NEW g \in Handles, Moving(g), own[g] = own[o]
                   PROVE  Renaming(o)'
        BY DEF Renaming
      <4>1. g # h
        BY <2>2, <2>5, <1>d, <1>f
      <4> QED BY <4>1, <1>a, <1>e DEF Renaming
    <3> QED BY <1>a, <2>3, <3>1, <3>2
  <2> QED BY <2>4, <2>5
<1>3. RenameNamed(o)'
  <2> SUFFICES ASSUME irp'[o]["rename"] = "pending", Moving(o)', Sound(o)', NEW n \in Names, disk'[n] = own'[o]
               PROVE  n = target'[o].to \/ Crossed(o)'
    BY DEF RenameNamed
  <2>1. /\ o # h /\ irp[o]["rename"] = "pending" /\ Moving(o) /\ target'[o] = target[o] /\ disk[n] = own[o]
    BY <1>a, <1>c, <1>e, <1>f, KindsTyped
  <2>2. fcb[o] \in Handles /\ o \in fcbUsers[fcb[o]] /\ Sound(o) /\ astray'[fcb[o]] = {}
    BY <2>1, <1>a, <1>g, Counted, KindsTyped DEF Sound
  <2>3. n = target[o].to \/ Crossed(o)
    BY <2>1, <2>2 DEF NameInv, RenameNamed
  <2>4. ASSUME NEW g \in Handles \ {o}, Moving(g), own[g] = own[o]
        PROVE  Crossed(o)'
    <3>1. g # h
      <4> SUFFICES ASSUME g = h PROVE FALSE
        OBVIOUS
      <4>1. Crossed(h)
        BY <2>1, <2>4 DEF Crossed
      <4> QED BY <2>2, <2>4, <4>1, <1>d, <1>f
    <3> QED BY <2>4, <3>1, <1>a, <1>e DEF Crossed
  <2> QED BY <2>1, <2>3, <2>4 DEF Crossed
<1>4. CleanupNamed(o)'
  <2> SUFFICES ASSUME event'[o]["cleanup"] \in {"queued", "begun", "closed"}, Sound(o)', o \notin moved',
                      NEW n \in Names, disk'[n] = own'[o]
               PROVE  name'[o]["cleanup"] = n
    BY DEF CleanupNamed
  <2>1. /\ event[o]["cleanup"] \in {"queued", "begun", "closed"} /\ name'[o]["cleanup"] = name[o]["cleanup"]
        /\ o \notin moved /\ disk[n] = own[o]
    BY <1>a, <1>c, KindsTyped
  <2>2. Sound(o)
    BY <2>1, <1>g, OwnThere, KindsTyped DEF BaseInv, FcbInv, Opened
  <2> QED BY <2>1, <2>2 DEF NameInv, CleanupNamed
<1> QED BY <1>1, <1>2, <1>3, <1>4 DEF NameInv

\* Names are kept track of.
LEMMA NameStep ==
  ASSUME BaseInv, \A o \in Handles : NameInv(o), Step, NEW o \in Handles
  PROVE  NameInv(o)'
<1>a. NameInv(o)
  OBVIOUS
<1>b. \A g \in Handles, j \in AllKinds : RequestInv(g, j)
  BY DEF BaseInv, StageInv
<1>1. ASSUME NEW h \in Handles, NEW n \in Names, NEW x \in Handles, CreateSent(h, n, x)
      PROVE  NameInv(o)'
  BY <1>1, <1>a, NameCreateSent
<1>2. ASSUME NEW h \in Handles, NEW k, RequestSent(h, k)
      PROVE  NameInv(o)'
  <2>1. QuietRequests(o)
    BY <1>2, <1>a, <1>b, KindsTyped DEF RequestSent, Sets, QuietRequests, Ended, RequestInv,
       eventVars
  <2>2. QuietFcb(o)
    BY <1>2 DEF RequestSent, QuietFcb, Sound, fcbVars, history
  <2>3. QuietFile(o)
    BY <1>2 DEF RequestSent, QuietFile, diskVars, history, eventVars
  <2>4. QuietRenames(o)
    BY <1>2, <1>b, KindsTyped DEF RequestSent, Sets, QuietRenames, Moving, RequestInv,
       history, eventVars
  <2> QED BY <1>a, <2>1, <2>2, <2>3, <2>4, NamesStay
<1>3. ASSUME NEW h \in Handles, CleanupSent(h)
      PROVE  NameInv(o)'
  BY <1>3, <1>a, NameCleanupSent
<1>4. ASSUME NEW h \in Handles, CloseSent(h)
      PROVE  NameInv(o)'
  <2>1. QuietRequests(o)
    BY <1>4, <1>a, <1>b, KindsTyped DEF CloseSent, Sets, QuietRequests, Ended, RequestInv,
       eventVars
  <2>2. QuietFcb(o)
    BY <1>4 DEF CloseSent, QuietFcb, Sound, fcbVars, history
  <2>3. QuietFile(o)
    BY <1>4 DEF CloseSent, QuietFile, diskVars, history, eventVars
  <2>4. QuietRenames(o)
    BY <1>4, <1>b, KindsTyped DEF CloseSent, Sets, QuietRenames, Moving, RequestInv, history,
       eventVars
  <2> QED BY <1>a, <2>1, <2>2, <2>3, <2>4, NamesStay
<1>5. ASSUME NEW h \in Handles, NEW k, GivenUp(h, k)
      PROVE  NameInv(o)'
  <2>1. QuietRequests(o)
    BY <1>5, <1>a, <1>b, KindsTyped DEF GivenUp, Sets, QuietRequests, Ended, RequestInv,
       eventVars
  <2>2. QuietFcb(o)
    BY <1>5 DEF GivenUp, QuietFcb, Sound, fcbVars, history
  <2>3. QuietFile(o)
    BY <1>5 DEF GivenUp, QuietFile, diskVars, history, eventVars
  <2>4. QuietRenames(o)
    BY <1>5, <1>b, KindsTyped DEF GivenUp, Sets, QuietRenames, Moving, RequestInv, history,
       eventVars
  <2> QED BY <1>a, <2>1, <2>2, <2>3, <2>4, NamesStay
<1>6. ASSUME NEW n \in Names, MadeOutside(n)
      PROVE  NameInv(o)'
  <2>1. QuietRequests(o)
    BY <1>6, <1>a, <1>b, KindsTyped DEF MadeOutside, Sets, QuietRequests, Ended, RequestInv,
       eventVars
  <2>2. QuietFcb(o)
    BY <1>6 DEF MadeOutside, QuietFcb, Sound, fcbVars, history
  <2>3. QuietFile(o)
    BY <1>6 DEF MadeOutside, QuietFile, diskVars, history, eventVars, BaseInv, OutsideInv
  <2>4. QuietRenames(o)
    BY <1>6, <1>b, KindsTyped DEF MadeOutside, Sets, QuietRenames, Moving, RequestInv,
       history, eventVars
  <2> QED BY <1>a, <2>1, <2>2, <2>3, <2>4, NamesStay
<1>7. ASSUME NEW h \in Handles, NEW k, Begun(h, k)
      PROVE  NameInv(o)'
  <2>1. QuietRequests(o)
    BY <1>7, <1>a, <1>b, KindsTyped DEF Begun, Sets, QuietRequests, Ended, RequestInv, eventVars
  <2>2. QuietFcb(o)
    BY <1>7 DEF Begun, QuietFcb, Sound, fcbVars, history
  <2>3. QuietFile(o)
    BY <1>7 DEF Begun, QuietFile, diskVars, history, eventVars
  <2>4. QuietRenames(o)
    BY <1>7, <1>b, KindsTyped DEF Begun, Sets, QuietRenames, Moving, RequestInv, history,
       eventVars
  <2> QED BY <1>a, <2>1, <2>2, <2>3, <2>4, NamesStay
<1>8. ASSUME NEW h \in Handles, Creates(h)
      PROVE  NameInv(o)'
  BY <1>8, <1>a, NameCreates
<1>9. ASSUME NEW h \in Handles, NEW can \in BOOLEAN, NEW f \in Files \cup {None}, Moves(h, can, f)
      PROVE  NameInv(o)'
  BY <1>9, <1>a, NameMoves
<1>10. ASSUME NEW h \in Handles, Agrees(h)
      PROVE  NameInv(o)'
  <2>1. QuietRequests(o)
    BY <1>10, <1>a, <1>b, KindsTyped DEF Agrees, Sets, QuietRequests, Ended, RequestInv,
       eventVars
  <2>2. QuietFcb(o)
    BY <1>10 DEF Agrees, QuietFcb, Sound, fcbVars, history
  <2>3. QuietFile(o)
    BY <1>10 DEF Agrees, QuietFile, diskVars, history, eventVars
  <2>4. QuietRenames(o)
    BY <1>10, <1>b, KindsTyped DEF Agrees, Sets, QuietRenames, Moving, RequestInv, history,
       eventVars
  <2> QED BY <1>a, <2>1, <2>2, <2>3, <2>4, NamesStay
<1>11. ASSUME NEW h \in Handles, NEW f \in Files \cup {None}, Cleans(h, f)
      PROVE  NameInv(o)'
  <2>1. QuietRequests(o)
    BY <1>11, KindsTyped DEF Cleans, Sets, QuietRequests, Ended
  <2>2. QuietFcb(o)
    BY <1>11 DEF Cleans, QuietFcb, Sound, fcbVars
  <2>3. QuietFile(o)
    BY <1>11 DEF Cleans, QuietFile, Leaves
  <2>4. QuietRenames(o)
    BY <1>11, KindsTyped DEF Cleans, Sets, QuietRenames, Moving, Leaves
  <2> QED BY <1>a, <2>1, <2>2, <2>3, <2>4, NamesStay
<1>12. ASSUME NEW h \in Handles, Closes(h)
      PROVE  NameInv(o)'
  <2>1. QuietRequests(o)
    BY <1>12, KindsTyped DEF Closes, Sets, QuietRequests, Ended
  <2>2. QuietFcb(o)
    BY <1>12 DEF Closes, QuietFcb, Sound, fcbVars
  <2>3. QuietFile(o)
    BY <1>12 DEF Closes, QuietFile, Leaves
  <2>4. QuietRenames(o)
    BY <1>12, KindsTyped DEF Closes, Sets, QuietRenames, Moving, Leaves
  <2> QED BY <1>a, <2>1, <2>2, <2>3, <2>4, NamesStay
<1>13. ASSUME NEW h \in Handles, NEW k, PlainGot(h, k)
      PROVE  NameInv(o)'
  <2>1. QuietRequests(o)
    BY <1>13, <1>a, <1>b, KindsTyped DEF PlainGot, Sets, QuietRequests, Ended, RequestInv,
       eventVars, Got
  <2>2. QuietFcb(o)
    BY <1>13 DEF PlainGot, QuietFcb, Sound, fcbVars, history, Got
  <2>3. QuietFile(o)
    BY <1>13 DEF PlainGot, QuietFile, diskVars, history, eventVars, Got
  <2>4. QuietRenames(o)
    BY <1>13, <1>b, KindsTyped DEF PlainGot, Sets, QuietRenames, Moving, RequestInv, history,
       eventVars, Got
  <2> QED BY <1>a, <2>1, <2>2, <2>3, <2>4, NamesStay
<1>14. ASSUME NEW h \in Handles, RenameGot(h)
      PROVE  NameInv(o)'
  BY <1>14, NameRenameGot
<1>15. ASSUME NEW h \in Handles, NEW k, Shuts(h, k)
      PROVE  NameInv(o)'
  <2>1. QuietRequests(o)
    BY <1>15, KindsTyped DEF Shuts, Sets, QuietRequests, Ended
  <2>2. QuietFcb(o)
    BY <1>15 DEF Shuts, QuietFcb, Sound, fcbVars
  <2>3. QuietFile(o)
    BY <1>15 DEF Shuts, QuietFile, Leaves
  <2>4. QuietRenames(o)
    BY <1>15, KindsTyped DEF Shuts, Sets, QuietRenames, Moving, Leaves
  <2> QED BY <1>a, <2>1, <2>2, <2>3, <2>4, NamesStay
<1>16. ASSUME NEW h \in Handles, Skips(h)
      PROVE  NameInv(o)'
  <2>1. QuietRequests(o)
    BY <1>16, <1>a, <1>b, KindsTyped DEF Skips, Sets, QuietRequests, Ended, RequestInv,
       eventVars
  <2>2. QuietFcb(o)
    BY <1>16 DEF Skips, QuietFcb, Sound, fcbVars, history
  <2>3. QuietFile(o)
    BY <1>16 DEF Skips, QuietFile, diskVars, history, eventVars
  <2>4. QuietRenames(o)
    BY <1>16, <1>b, KindsTyped DEF Skips, Sets, QuietRenames, Moving, RequestInv, history,
       eventVars
  <2> QED BY <1>a, <2>1, <2>2, <2>3, <2>4, NamesStay
<1> QED BY <1>1, <1>2, <1>3, <1>4, <1>5, <1>6, <1>7, <1>8, <1>9, <1>10, <1>11, <1>12, <1>13,
           <1>14, <1>15, <1>16, Zenon DEF Step
-----------------------------------------------------------------------------
(* Delete on close.                                                        *)

\* What DeleteDone says of one handle.
DoneFor(h) ==
  /\ event[h]["cleanup"] = "ran" /\ irp[h]["cleanup"] # "givenUp"
  /\ deletes[h] /\ h \notin refused /\ Undisturbed(h)
  /\ "rename" \in Kinds[h] => event[h]["rename"] = "none"
  => Gone(own[h])

\* DeleteDone says it of all.
LEMMA DoneForAll == DeleteDone <=> \A h \in Handles : DoneFor(h)
BY DEF DeleteDone, DoneFor, Gone

\* What has been lost track of stays so, and what has been asked for stays
\* asked for.
LEMMA Grows ==
  ASSUME BaseInv, Step
  PROVE  /\ moved \subseteq moved' /\ overlapped \subseteq overlapped'
         /\ outlived \subseteq outlived' /\ refused \subseteq refused'
         /\ \A y \in Handles : /\ astray[y] \subseteq astray'[y]
                               /\ irp[y]["create"] # "none" => fcb'[y] = fcb[y]
                               /\ \A j \in AllKinds : event[y][j] # "none" => event'[y][j] # "none"
<1>1. ASSUME NEW h \in Handles, NEW n \in Names, NEW x \in Handles, CreateSent(h, n, x)
      PROVE  /\ moved \subseteq moved' /\ overlapped \subseteq overlapped'
         /\ outlived \subseteq outlived' /\ refused \subseteq refused'
         /\ \A y \in Handles : /\ astray[y] \subseteq astray'[y]
                               /\ irp[y]["create"] # "none" => fcb'[y] = fcb[y]
                               /\ \A j \in AllKinds : event[y][j] # "none" => event'[y][j] # "none"
  BY <1>1, KindsTyped DEF CreateSent, Sets, Got, eventVars, fcbVars, history
<1>2. ASSUME NEW h \in Handles, NEW k, RequestSent(h, k)
      PROVE  /\ moved \subseteq moved' /\ overlapped \subseteq overlapped'
         /\ outlived \subseteq outlived' /\ refused \subseteq refused'
         /\ \A y \in Handles : /\ astray[y] \subseteq astray'[y]
                               /\ irp[y]["create"] # "none" => fcb'[y] = fcb[y]
                               /\ \A j \in AllKinds : event[y][j] # "none" => event'[y][j] # "none"
  BY <1>2, KindsTyped DEF RequestSent, Sets, Got, eventVars, fcbVars, history
<1>3. ASSUME NEW h \in Handles, CleanupSent(h)
      PROVE  /\ moved \subseteq moved' /\ overlapped \subseteq overlapped'
         /\ outlived \subseteq outlived' /\ refused \subseteq refused'
         /\ \A y \in Handles : /\ astray[y] \subseteq astray'[y]
                               /\ irp[y]["create"] # "none" => fcb'[y] = fcb[y]
                               /\ \A j \in AllKinds : event[y][j] # "none" => event'[y][j] # "none"
  BY <1>3, KindsTyped DEF CleanupSent, Sets, Got, eventVars, fcbVars, history
<1>4. ASSUME NEW h \in Handles, CloseSent(h)
      PROVE  /\ moved \subseteq moved' /\ overlapped \subseteq overlapped'
         /\ outlived \subseteq outlived' /\ refused \subseteq refused'
         /\ \A y \in Handles : /\ astray[y] \subseteq astray'[y]
                               /\ irp[y]["create"] # "none" => fcb'[y] = fcb[y]
                               /\ \A j \in AllKinds : event[y][j] # "none" => event'[y][j] # "none"
  BY <1>4, KindsTyped DEF CloseSent, Sets, Got, eventVars, fcbVars, history
<1>5. ASSUME NEW h \in Handles, NEW k, GivenUp(h, k)
      PROVE  /\ moved \subseteq moved' /\ overlapped \subseteq overlapped'
         /\ outlived \subseteq outlived' /\ refused \subseteq refused'
         /\ \A y \in Handles : /\ astray[y] \subseteq astray'[y]
                               /\ irp[y]["create"] # "none" => fcb'[y] = fcb[y]
                               /\ \A j \in AllKinds : event[y][j] # "none" => event'[y][j] # "none"
  BY <1>5, KindsTyped DEF GivenUp, Sets, Got, eventVars, fcbVars, history
<1>6. ASSUME NEW n \in Names, MadeOutside(n)
      PROVE  /\ moved \subseteq moved' /\ overlapped \subseteq overlapped'
         /\ outlived \subseteq outlived' /\ refused \subseteq refused'
         /\ \A y \in Handles : /\ astray[y] \subseteq astray'[y]
                               /\ irp[y]["create"] # "none" => fcb'[y] = fcb[y]
                               /\ \A j \in AllKinds : event[y][j] # "none" => event'[y][j] # "none"
  BY <1>6, KindsTyped DEF MadeOutside, Sets, Got, eventVars, fcbVars, history
<1>7. ASSUME NEW h \in Handles, NEW k, Begun(h, k)
      PROVE  /\ moved \subseteq moved' /\ overlapped \subseteq overlapped'
         /\ outlived \subseteq outlived' /\ refused \subseteq refused'
         /\ \A y \in Handles : /\ astray[y] \subseteq astray'[y]
                               /\ irp[y]["create"] # "none" => fcb'[y] = fcb[y]
                               /\ \A j \in AllKinds : event[y][j] # "none" => event'[y][j] # "none"
  BY <1>7, KindsTyped DEF Begun, Sets, Got, eventVars, fcbVars, history
<1>8. ASSUME NEW h \in Handles, Creates(h)
      PROVE  /\ moved \subseteq moved' /\ overlapped \subseteq overlapped'
         /\ outlived \subseteq outlived' /\ refused \subseteq refused'
         /\ \A y \in Handles : /\ astray[y] \subseteq astray'[y]
                               /\ irp[y]["create"] # "none" => fcb'[y] = fcb[y]
                               /\ \A j \in AllKinds : event[y][j] # "none" => event'[y][j] # "none"
  BY <1>8, KindsTyped DEF Creates, Sets, Got, eventVars, fcbVars, history
<1>9. ASSUME NEW h \in Handles, NEW can \in BOOLEAN, NEW f \in Files \cup {None}, Moves(h, can, f)
      PROVE  /\ moved \subseteq moved' /\ overlapped \subseteq overlapped'
         /\ outlived \subseteq outlived' /\ refused \subseteq refused'
         /\ \A y \in Handles : /\ astray[y] \subseteq astray'[y]
                               /\ irp[y]["create"] # "none" => fcb'[y] = fcb[y]
                               /\ \A j \in AllKinds : event[y][j] # "none" => event'[y][j] # "none"
  BY <1>9, KindsTyped DEF Moves, Sets, Got, eventVars, fcbVars, history
<1>10. ASSUME NEW h \in Handles, Agrees(h)
      PROVE  /\ moved \subseteq moved' /\ overlapped \subseteq overlapped'
         /\ outlived \subseteq outlived' /\ refused \subseteq refused'
         /\ \A y \in Handles : /\ astray[y] \subseteq astray'[y]
                               /\ irp[y]["create"] # "none" => fcb'[y] = fcb[y]
                               /\ \A j \in AllKinds : event[y][j] # "none" => event'[y][j] # "none"
  BY <1>10, KindsTyped DEF Agrees, Sets, Got, eventVars, fcbVars, history
<1>11. ASSUME NEW h \in Handles, NEW f \in Files \cup {None}, Cleans(h, f)
      PROVE  /\ moved \subseteq moved' /\ overlapped \subseteq overlapped'
         /\ outlived \subseteq outlived' /\ refused \subseteq refused'
         /\ \A y \in Handles : /\ astray[y] \subseteq astray'[y]
                               /\ irp[y]["create"] # "none" => fcb'[y] = fcb[y]
                               /\ \A j \in AllKinds : event[y][j] # "none" => event'[y][j] # "none"
  BY <1>11, KindsTyped DEF Cleans, Sets, Got, eventVars, fcbVars, history
<1>12. ASSUME NEW h \in Handles, Closes(h)
      PROVE  /\ moved \subseteq moved' /\ overlapped \subseteq overlapped'
         /\ outlived \subseteq outlived' /\ refused \subseteq refused'
         /\ \A y \in Handles : /\ astray[y] \subseteq astray'[y]
                               /\ irp[y]["create"] # "none" => fcb'[y] = fcb[y]
                               /\ \A j \in AllKinds : event[y][j] # "none" => event'[y][j] # "none"
  BY <1>12, KindsTyped DEF Closes, Sets, Got, eventVars, fcbVars, history
<1>13. ASSUME NEW h \in Handles, NEW k, PlainGot(h, k)
      PROVE  /\ moved \subseteq moved' /\ overlapped \subseteq overlapped'
         /\ outlived \subseteq outlived' /\ refused \subseteq refused'
         /\ \A y \in Handles : /\ astray[y] \subseteq astray'[y]
                               /\ irp[y]["create"] # "none" => fcb'[y] = fcb[y]
                               /\ \A j \in AllKinds : event[y][j] # "none" => event'[y][j] # "none"
  BY <1>13, KindsTyped DEF PlainGot, Sets, Got, eventVars, fcbVars, history
<1>14. ASSUME NEW h \in Handles, RenameGot(h)
      PROVE  /\ moved \subseteq moved' /\ overlapped \subseteq overlapped'
         /\ outlived \subseteq outlived' /\ refused \subseteq refused'
         /\ \A y \in Handles : /\ astray[y] \subseteq astray'[y]
                               /\ irp[y]["create"] # "none" => fcb'[y] = fcb[y]
                               /\ \A j \in AllKinds : event[y][j] # "none" => event'[y][j] # "none"
  BY <1>14, KindsTyped DEF RenameGot, Sets, Got, eventVars, fcbVars, history
<1>15. ASSUME NEW h \in Handles, NEW k, Shuts(h, k)
      PROVE  /\ moved \subseteq moved' /\ overlapped \subseteq overlapped'
         /\ outlived \subseteq outlived' /\ refused \subseteq refused'
         /\ \A y \in Handles : /\ astray[y] \subseteq astray'[y]
                               /\ irp[y]["create"] # "none" => fcb'[y] = fcb[y]
                               /\ \A j \in AllKinds : event[y][j] # "none" => event'[y][j] # "none"
  BY <1>15, KindsTyped DEF Shuts, Sets, Got, eventVars, fcbVars, history
<1>16. ASSUME NEW h \in Handles, Skips(h)
      PROVE  /\ moved \subseteq moved' /\ overlapped \subseteq overlapped'
         /\ outlived \subseteq outlived' /\ refused \subseteq refused'
         /\ \A y \in Handles : /\ astray[y] \subseteq astray'[y]
                               /\ irp[y]["create"] # "none" => fcb'[y] = fcb[y]
                               /\ \A j \in AllKinds : event[y][j] # "none" => event'[y][j] # "none"
  BY <1>16, KindsTyped DEF Skips, Sets, Got, eventVars, fcbVars, history
<1> QED BY <1>1, <1>2, <1>3, <1>4, <1>5, <1>6, <1>7, <1>8, <1>9, <1>10, <1>11, <1>12, <1>13,
           <1>14, <1>15, <1>16, Zenon DEF Step

\* A file that is gone, or goes with the last handle, is not there again.
LEMMA GoneStays ==
  ASSUME BaseInv, Step, NEW o \in Handles, Ended(o, "create"), own[o] # None, Gone(own[o])
  PROVE  own'[o] = own[o] /\ (Gone(own[o]))'
<1>a. own[o] \in Files
  BY DEF BaseInv, TypeOK
<1>1. ASSUME NEW h \in Handles, NEW n \in Names, NEW x \in Handles, CreateSent(h, n, x)
      PROVE  own'[o] = own[o] /\ (Gone(own[o]))'
  BY <1>1 DEF CreateSent, Gone, diskVars, history, Got
<1>2. ASSUME NEW h \in Handles, NEW k, RequestSent(h, k)
      PROVE  own'[o] = own[o] /\ (Gone(own[o]))'
  BY <1>2 DEF RequestSent, Gone, diskVars, history, Got
<1>3. ASSUME NEW h \in Handles, CleanupSent(h)
      PROVE  own'[o] = own[o] /\ (Gone(own[o]))'
  BY <1>3 DEF CleanupSent, Gone, diskVars, history, Got
<1>4. ASSUME NEW h \in Handles, CloseSent(h)
      PROVE  own'[o] = own[o] /\ (Gone(own[o]))'
  BY <1>4 DEF CloseSent, Gone, diskVars, history, Got
<1>5. ASSUME NEW h \in Handles, NEW k, GivenUp(h, k)
      PROVE  own'[o] = own[o] /\ (Gone(own[o]))'
  BY <1>5 DEF GivenUp, Gone, diskVars, history, Got
<1>6. ASSUME NEW n \in Names, MadeOutside(n)
      PROVE  own'[o] = own[o] /\ (Gone(own[o]))'
  BY <1>6 DEF MadeOutside, Gone, BaseInv, OutsideInv, history
<1>7. ASSUME NEW h \in Handles, NEW k, Begun(h, k)
      PROVE  own'[o] = own[o] /\ (Gone(own[o]))'
  BY <1>7 DEF Begun, Gone, diskVars, history, Got
<1>8. ASSUME NEW h \in Handles, Creates(h)
      PROVE  own'[o] = own[o] /\ (Gone(own[o]))'
  <2>1. o # h /\ own[o] # h
    BY <1>8 DEF Creates, Ended, BaseInv, FileInv
  <2>2. own'[o] = own[o] /\ pendingDelete' = pendingDelete
    BY <1>8, <2>1 DEF Creates, Fails, Opens
  <2>3. \A n \in Names : disk'[n] = own[o] => disk[n] = own[o]
    BY <1>8, <2>1 DEF Creates, Fails, Opens
  <2> QED BY <2>2, <2>3 DEF Gone
<1>9. ASSUME NEW h \in Handles, NEW can \in BOOLEAN, NEW f \in Files \cup {None}, Moves(h, can, f)
      PROVE  own'[o] = own[o] /\ (Gone(own[o]))'
  BY <1>9, <1>a DEF Moves, Leaves
<1>10. ASSUME NEW h \in Handles, Agrees(h)
      PROVE  own'[o] = own[o] /\ (Gone(own[o]))'
  BY <1>10 DEF Agrees, Gone, diskVars, history, Got
<1>11. ASSUME NEW h \in Handles, NEW f \in Files \cup {None}, Cleans(h, f)
      PROVE  own'[o] = own[o] /\ (Gone(own[o]))'
  BY <1>11, <1>a DEF Cleans, Leaves
<1>12. ASSUME NEW h \in Handles, Closes(h)
      PROVE  own'[o] = own[o] /\ (Gone(own[o]))'
  BY <1>12, <1>a DEF Closes, Leaves
<1>13. ASSUME NEW h \in Handles, NEW k, PlainGot(h, k)
      PROVE  own'[o] = own[o] /\ (Gone(own[o]))'
  BY <1>13 DEF PlainGot, Gone, diskVars, history, Got
<1>14. ASSUME NEW h \in Handles, RenameGot(h)
      PROVE  own'[o] = own[o] /\ (Gone(own[o]))'
  BY <1>14 DEF RenameGot, Gone, diskVars, history, Got
<1>15. ASSUME NEW h \in Handles, NEW k, Shuts(h, k)
      PROVE  own'[o] = own[o] /\ (Gone(own[o]))'
  BY <1>15, <1>a DEF Shuts, Leaves
<1>16. ASSUME NEW h \in Handles, Skips(h)
      PROVE  own'[o] = own[o] /\ (Gone(own[o]))'
  BY <1>16 DEF Skips, Gone, diskVars, history, Got
<1> QED BY <1>1, <1>2, <1>3, <1>4, <1>5, <1>6, <1>7, <1>8, <1>9, <1>10, <1>11, <1>12, <1>13,
           <1>14, <1>15, <1>16, Zenon DEF Step

\* The cleanup of a handle that nothing has disturbed deletes its file or none,
\* unless that file is gone, and not none if it is to delete one.
LEMMA CleansRight ==
  ASSUME IInv, NEW h \in Handles, NEW f \in Files \cup {None}, Cleans(h, f), Undisturbed(h)
  PROVE  /\ f \in {None, own[h]} \/ h \in outlived'
         /\ deletes[h] /\ h \notin refused' => Gone(own[h])'
<1> DEFINE n == name[h]["cleanup"]
<1>a. /\ BaseInv /\ TypeOK /\ NameInv(h) /\ h \notin moved /\ Sound(h)
  BY DEF IInv, BaseInv, Undisturbed, Sound
<1>b. /\ Leaves(h, FALSE, None) /\ event[h]["cleanup"] = "closed"
      /\ f # None => n \in Names /\ disk[n] = f /\ Gone(f)'
      /\ deletes[h] /\ h \notin refused' => f = FileAt(n)
      /\ (\A m \in Names : disk[m] # own[h]) => h \in outlived'
  BY DEF Cleans
<1>c. /\ own[h] # None /\ own' = own
      /\ \A m \in Names : disk[m] = own[h] => n = m
      /\ \A m \in Names : disk'[m] = None \/ disk'[m] = disk[m]
  <2>1. own[h] # None
    BY <1>a, <1>b, OwnThere, KindsTyped
  <2>2. own' = own /\ \A m \in Names : disk'[m] = None \/ disk'[m] = disk[m]
    BY <1>b DEF Leaves
  <2>3. \A m \in Names : disk[m] = own[h] => n = m
    BY <1>a, <1>b DEF NameInv, CleanupNamed
  <2> QED BY <2>1, <2>2, <2>3
<1> HIDE DEF n
<1>1. CASE \A m \in Names : disk[m] # own[h]
  <2>1. Gone(own[h])'
    BY <1>1, <1>c DEF Gone
  <2> QED BY <1>1, <1>b, <2>1
<1>2. CASE ~\A m \in Names : disk[m] # own[h]
  <2>1. n \in Names /\ disk[n] = own[h]
    BY <1>2, <1>c
  <2>2. f \in {None, own[h]} /\ (f = FileAt(n) => f = own[h])
    BY <1>b, <2>1 DEF FileAt
  <2> QED BY <2>2, <1>b, <1>c
<1> QED BY <1>1, <1>2

\* Without a rename the Win32 handle is there for the cleanup.
HandleThere(h) ==
  /\ Ended(h, "create") /\ ~failed[h]["create"] /\ h \notin overlapped
  /\ event[h]["cleanup"] \in {"none", "queued", "begun"}
  /\ event[h]["rename"] = "none" /\ event[h]["close"] = "none"
  => win32[h] # None

\* It is opened by the create and closed by the other callbacks.
LEMMA HandleStep ==
  ASSUME BaseInv, Step, NEW o \in Handles, HandleThere(o)
  PROVE  HandleThere(o)'
<1>a. HandleThere(o)
  OBVIOUS
<1>b. overlapped \subseteq overlapped'
  BY Grows
<1>c. \A g \in Handles, j \in AllKinds : RequestInv(g, j)
  BY DEF BaseInv, StageInv
<1>1. ASSUME NEW h \in Handles, NEW n \in Names, NEW x \in Handles, CreateSent(h, n, x)
      PROVE  HandleThere(o)'
  <2>1. \A g \in Handles : win32'[g] = win32[g]
    BY <1>1 DEF CreateSent, diskVars, history, Got
  <2>2. /\ Ended(o, "create")' => Ended(o, "create") /\ failed'[o]["create"] = failed[o]["create"]
        /\ event'[o]["cleanup"] \in {"none", "queued", "begun"} =>
             event[o]["cleanup"] \in {"none", "queued", "begun"}
        /\ \A j \in {"rename", "close"} : event'[o][j] = "none" => event[o][j] = "none"
    BY <1>1, <1>c, KindsTyped DEF CreateSent, Sets, Got, Ended, eventVars, RequestInv
  <2> QED BY <1>a, <1>b, <2>1, <2>2 DEF HandleThere
<1>2. ASSUME NEW h \in Handles, NEW k, RequestSent(h, k)
      PROVE  HandleThere(o)'
  <2>1. \A g \in Handles : win32'[g] = win32[g]
    BY <1>2 DEF RequestSent, diskVars, history, Got
  <2>2. /\ Ended(o, "create")' => Ended(o, "create") /\ failed'[o]["create"] = failed[o]["create"]
        /\ event'[o]["cleanup"] \in {"none", "queued", "begun"} =>
             event[o]["cleanup"] \in {"none", "queued", "begun"}
        /\ \A j \in {"rename", "close"} : event'[o][j] = "none" => event[o][j] = "none"
    BY <1>2, <1>c, KindsTyped DEF RequestSent, Sets, Got, Ended, eventVars, RequestInv
  <2> QED BY <1>a, <1>b, <2>1, <2>2 DEF HandleThere
<1>3. ASSUME NEW h \in Handles, CleanupSent(h)
      PROVE  HandleThere(o)'
  <2>1. \A g \in Handles : win32'[g] = win32[g]
    BY <1>3 DEF CleanupSent, diskVars, history, Got
  <2>2. /\ Ended(o, "create")' => Ended(o, "create") /\ failed'[o]["create"] = failed[o]["create"]
        /\ event'[o]["cleanup"] \in {"none", "queued", "begun"} =>
             event[o]["cleanup"] \in {"none", "queued", "begun"}
        /\ \A j \in {"rename", "close"} : event'[o][j] = "none" => event[o][j] = "none"
    BY <1>3, <1>c, KindsTyped DEF CleanupSent, Sets, Got, Ended, eventVars, RequestInv
  <2> QED BY <1>a, <1>b, <2>1, <2>2 DEF HandleThere
<1>4. ASSUME NEW h \in Handles, CloseSent(h)
      PROVE  HandleThere(o)'
  <2>1. \A g \in Handles : win32'[g] = win32[g]
    BY <1>4 DEF CloseSent, diskVars, history, Got
  <2>2. /\ Ended(o, "create")' => Ended(o, "create") /\ failed'[o]["create"] = failed[o]["create"]
        /\ event'[o]["cleanup"] \in {"none", "queued", "begun"} =>
             event[o]["cleanup"] \in {"none", "queued", "begun"}
        /\ \A j \in {"rename", "close"} : event'[o][j] = "none" => event[o][j] = "none"
    BY <1>4, <1>c, KindsTyped DEF CloseSent, Sets, Got, Ended, eventVars, RequestInv
  <2> QED BY <1>a, <1>b, <2>1, <2>2 DEF HandleThere
<1>5. ASSUME NEW h \in Handles, NEW k, GivenUp(h, k)
      PROVE  HandleThere(o)'
  <2>1. \A g \in Handles : win32'[g] = win32[g]
    BY <1>5 DEF GivenUp, diskVars, history, Got
  <2>2. /\ Ended(o, "create")' => Ended(o, "create") /\ failed'[o]["create"] = failed[o]["create"]
        /\ event'[o]["cleanup"] \in {"none", "queued", "begun"} =>
             event[o]["cleanup"] \in {"none", "queued", "begun"}
        /\ \A j \in {"rename", "close"} : event'[o][j] = "none" => event[o][j] = "none"
    BY <1>5, <1>c, KindsTyped DEF GivenUp, Sets, Got, Ended, eventVars, RequestInv
  <2> QED BY <1>a, <1>b, <2>1, <2>2 DEF HandleThere
<1>6. ASSUME NEW n \in Names, MadeOutside(n)
      PROVE  HandleThere(o)'
  <2>1. \A g \in Handles : win32'[g] = win32[g]
    BY <1>6 DEF MadeOutside, diskVars, history, Got
  <2>2. /\ Ended(o, "create")' => Ended(o, "create") /\ failed'[o]["create"] = failed[o]["create"]
        /\ event'[o]["cleanup"] \in {"none", "queued", "begun"} =>
             event[o]["cleanup"] \in {"none", "queued", "begun"}
        /\ \A j \in {"rename", "close"} : event'[o][j] = "none" => event[o][j] = "none"
    BY <1>6, <1>c, KindsTyped DEF MadeOutside, Sets, Got, Ended, eventVars, RequestInv
  <2> QED BY <1>a, <1>b, <2>1, <2>2 DEF HandleThere
<1>7. ASSUME NEW h \in Handles, NEW k, Begun(h, k)
      PROVE  HandleThere(o)'
  <2>1. \A g \in Handles : win32'[g] = win32[g]
    BY <1>7 DEF Begun, diskVars, history, Got
  <2>2. /\ Ended(o, "create")' => Ended(o, "create") /\ failed'[o]["create"] = failed[o]["create"]
        /\ event'[o]["cleanup"] \in {"none", "queued", "begun"} =>
             event[o]["cleanup"] \in {"none", "queued", "begun"}
        /\ \A j \in {"rename", "close"} : event'[o][j] = "none" => event[o][j] = "none"
    BY <1>7, <1>c, KindsTyped DEF Begun, Sets, Got, Ended, eventVars, RequestInv
  <2> QED BY <1>a, <1>b, <2>1, <2>2 DEF HandleThere
<1>8. ASSUME NEW h \in Handles, Creates(h)
      PROVE  HandleThere(o)'
  <2>1. CASE o # h
    <3>1. /\ \A g \in Handles : g # h => win32'[g] = win32[g]
          /\ Ended(o, "create")' => Ended(o, "create") /\ failed'[o]["create"] = failed[o]["create"]
          /\ \A j \in AllKinds : event'[o][j] = event[o][j]
      BY <1>8, <2>1, KindsTyped DEF Creates, Fails, Opens, Sets, Ended
    <3> QED BY <1>a, <1>b, <2>1, <3>1, KindsTyped DEF HandleThere
  <2>2. CASE o = h
    BY <1>8, <2>2, NoneApart DEF Creates, Fails, Opens, Sets, HandleThere
  <2> QED BY <2>1, <2>2
<1>9. ASSUME NEW h \in Handles, NEW can \in BOOLEAN, NEW f \in Files \cup {None}, Moves(h, can, f)
      PROVE  HandleThere(o)'
  <2>1. /\ \A g \in Handles : g # h => win32'[g] = win32[g]
        /\ event'[h]["rename"] = "ran"
    BY <1>9, KindsTyped DEF Moves, Sets, Leaves
  <2>2. o # h => /\ Ended(o, "create")' => Ended(o, "create") /\ failed'[o]["create"] = failed[o]["create"]
                 /\ \A j \in AllKinds : event'[o][j] = event[o][j]
    BY <1>9, KindsTyped DEF Moves, Sets, Ended
  <2> QED BY <1>a, <1>b, <2>1, <2>2, KindsTyped DEF HandleThere
<1>10. ASSUME NEW h \in Handles, Agrees(h)
      PROVE  HandleThere(o)'
  <2>1. \A g \in Handles : win32'[g] = win32[g]
    BY <1>10 DEF Agrees, diskVars, history, Got
  <2>2. /\ Ended(o, "create")' => Ended(o, "create") /\ failed'[o]["create"] = failed[o]["create"]
        /\ event'[o]["cleanup"] \in {"none", "queued", "begun"} =>
             event[o]["cleanup"] \in {"none", "queued", "begun"}
        /\ \A j \in {"rename", "close"} : event'[o][j] = "none" => event[o][j] = "none"
    BY <1>10, <1>c, KindsTyped DEF Agrees, Sets, Got, Ended, eventVars, RequestInv
  <2> QED BY <1>a, <1>b, <2>1, <2>2 DEF HandleThere
<1>11. ASSUME NEW h \in Handles, NEW f \in Files \cup {None}, Cleans(h, f)
      PROVE  HandleThere(o)'
  <2>1. /\ \A g \in Handles : g # h => win32'[g] = win32[g]
        /\ event'[h]["cleanup"] = "ran"
    BY <1>11, KindsTyped DEF Cleans, Sets, Leaves
  <2>2. o # h => /\ Ended(o, "create")' => Ended(o, "create") /\ failed'[o]["create"] = failed[o]["create"]
                 /\ \A j \in AllKinds : event'[o][j] = event[o][j]
    BY <1>11, KindsTyped DEF Cleans, Sets, Ended
  <2> QED BY <1>a, <1>b, <2>1, <2>2, KindsTyped DEF HandleThere
<1>12. ASSUME NEW h \in Handles, Closes(h)
      PROVE  HandleThere(o)'
  <2>1. /\ \A g \in Handles : g # h => win32'[g] = win32[g]
        /\ event'[h]["close"] = "ran"
    BY <1>12, KindsTyped DEF Closes, Sets, Leaves
  <2>2. o # h => /\ Ended(o, "create")' => Ended(o, "create") /\ failed'[o]["create"] = failed[o]["create"]
                 /\ \A j \in AllKinds : event'[o][j] = event[o][j]
    BY <1>12, KindsTyped DEF Closes, Sets, Ended
  <2> QED BY <1>a, <1>b, <2>1, <2>2, KindsTyped DEF HandleThere
<1>13. ASSUME NEW h \in Handles, NEW k, PlainGot(h, k)
      PROVE  HandleThere(o)'
  <2>1. \A g \in Handles : win32'[g] = win32[g]
    BY <1>13 DEF PlainGot, diskVars, history, Got
  <2>2. /\ Ended(o, "create")' => Ended(o, "create") /\ failed'[o]["create"] = failed[o]["create"]
        /\ event'[o]["cleanup"] \in {"none", "queued", "begun"} =>
             event[o]["cleanup"] \in {"none", "queued", "begun"}
        /\ \A j \in {"rename", "close"} : event'[o][j] = "none" => event[o][j] = "none"
    BY <1>13, <1>c, KindsTyped DEF PlainGot, Sets, Got, Ended, eventVars, RequestInv
  <2> QED BY <1>a, <1>b, <2>1, <2>2 DEF HandleThere
<1>14. ASSUME NEW h \in Handles, RenameGot(h)
      PROVE  HandleThere(o)'
  <2>1. \A g \in Handles : win32'[g] = win32[g]
    BY <1>14 DEF RenameGot, diskVars, history, Got
  <2>2. /\ Ended(o, "create")' => Ended(o, "create") /\ failed'[o]["create"] = failed[o]["create"]
        /\ event'[o]["cleanup"] \in {"none", "queued", "begun"} =>
             event[o]["cleanup"] \in {"none", "queued", "begun"}
        /\ \A j \in {"rename", "close"} : event'[o][j] = "none" => event[o][j] = "none"
    BY <1>14, <1>c, KindsTyped DEF RenameGot, Sets, Got, Ended, eventVars, RequestInv
  <2> QED BY <1>a, <1>b, <2>1, <2>2 DEF HandleThere
<1>15. ASSUME NEW h \in Handles, NEW k, Shuts(h, k)
      PROVE  HandleThere(o)'
  <2>1. /\ \A g \in Handles : g # h => win32'[g] = win32[g]
        /\ event'[h][k] = "closed" /\ k \in {"rename", "cleanup"}
    BY <1>15, KindsTyped DEF Shuts, Sets, Leaves
  <2>2. o # h => /\ Ended(o, "create")' => Ended(o, "create") /\ failed'[o]["create"] = failed[o]["create"]
                 /\ \A j \in AllKinds : event'[o][j] = event[o][j]
    BY <1>15, KindsTyped DEF Shuts, Sets, Ended
  <2> QED BY <1>a, <1>b, <2>1, <2>2, KindsTyped DEF HandleThere
<1>16. ASSUME NEW h \in Handles, Skips(h)
      PROVE  HandleThere(o)'
  <2>1. \A g \in Handles : win32'[g] = win32[g]
    BY <1>16 DEF Skips, diskVars, history, Got
  <2>2. /\ Ended(o, "create")' => Ended(o, "create") /\ failed'[o]["create"] = failed[o]["create"]
        /\ event'[o]["cleanup"] \in {"none", "queued", "begun"} =>
             event[o]["cleanup"] \in {"none", "queued", "begun"}
        /\ \A j \in {"rename", "close"} : event'[o][j] = "none" => event[o][j] = "none"
    BY <1>16, <1>c, KindsTyped DEF Skips, Sets, Got, Ended, eventVars, RequestInv
  <2> QED BY <1>a, <1>b, <2>1, <2>2 DEF HandleThere
<1> QED BY <1>1, <1>2, <1>3, <1>4, <1>5, <1>6, <1>7, <1>8, <1>9, <1>10, <1>11, <1>12, <1>13,
           <1>14, <1>15, <1>16, Zenon DEF Step

\* Who deletes the file of another has been disturbed before.
LEMMA StrayedStep ==
  ASSUME IInv, Step, NEW o \in Handles, o \in strayed'
  PROVE  (Undisturbed(o)' => o \in outlived') /\ event'[o]["cleanup"] # "none"
<1>a. BaseInv /\ DeleteInv(o)
  BY DEF IInv
<1>b. /\ event[o]["cleanup"] # "none" => irp[o]["create"] # "none" /\ fcb[o] \in Handles
      /\ event[o]["cleanup"] # "none" /\ ~Undisturbed(o) => ~Undisturbed(o)'
  <2> SUFFICES ASSUME event[o]["cleanup"] # "none"
               PROVE  /\ irp[o]["create"] # "none" /\ fcb[o] \in Handles
                      /\ ~Undisturbed(o) => ~Undisturbed(o)'
    OBVIOUS
  <2>1. irp[o]["create"] # "none" /\ fcb[o] \in Handles
    BY <1>a, OwnThere, KindsTyped DEF Opened, BaseInv, FcbInv
  <2> QED BY <1>a, <2>1, Grows DEF Undisturbed
<1>c. o \in strayed => (Undisturbed(o)' => o \in outlived') /\ event'[o]["cleanup"] # "none"
  BY <1>a, <1>b, Grows, KindsTyped DEF DeleteInv
<1>1. ASSUME NEW h \in Handles, NEW n \in Names, NEW x \in Handles, CreateSent(h, n, x)
      PROVE  (Undisturbed(o)' => o \in outlived') /\ event'[o]["cleanup"] # "none"
  <2>1. strayed' = strayed
    BY <1>1 DEF CreateSent, history, Got
  <2> QED BY <1>c, <2>1
<1>2. ASSUME NEW h \in Handles, NEW k, RequestSent(h, k)
      PROVE  (Undisturbed(o)' => o \in outlived') /\ event'[o]["cleanup"] # "none"
  <2>1. strayed' = strayed
    BY <1>2 DEF RequestSent, history, Got
  <2> QED BY <1>c, <2>1
<1>3. ASSUME NEW h \in Handles, CleanupSent(h)
      PROVE  (Undisturbed(o)' => o \in outlived') /\ event'[o]["cleanup"] # "none"
  <2>1. strayed' = strayed
    BY <1>3 DEF CleanupSent, history, Got
  <2> QED BY <1>c, <2>1
<1>4. ASSUME NEW h \in Handles, CloseSent(h)
      PROVE  (Undisturbed(o)' => o \in outlived') /\ event'[o]["cleanup"] # "none"
  <2>1. strayed' = strayed
    BY <1>4 DEF CloseSent, history, Got
  <2> QED BY <1>c, <2>1
<1>5. ASSUME NEW h \in Handles, NEW k, GivenUp(h, k)
      PROVE  (Undisturbed(o)' => o \in outlived') /\ event'[o]["cleanup"] # "none"
  <2>1. strayed' = strayed
    BY <1>5 DEF GivenUp, history, Got
  <2> QED BY <1>c, <2>1
<1>6. ASSUME NEW n \in Names, MadeOutside(n)
      PROVE  (Undisturbed(o)' => o \in outlived') /\ event'[o]["cleanup"] # "none"
  <2>1. strayed' = strayed
    BY <1>6 DEF MadeOutside, history, Got
  <2> QED BY <1>c, <2>1
<1>7. ASSUME NEW h \in Handles, NEW k, Begun(h, k)
      PROVE  (Undisturbed(o)' => o \in outlived') /\ event'[o]["cleanup"] # "none"
  <2>1. strayed' = strayed
    BY <1>7 DEF Begun, history, Got
  <2> QED BY <1>c, <2>1
<1>8. ASSUME NEW h \in Handles, Creates(h)
      PROVE  (Undisturbed(o)' => o \in outlived') /\ event'[o]["cleanup"] # "none"
  <2>1. strayed' = strayed
    BY <1>8 DEF Creates, history, Got
  <2> QED BY <1>c, <2>1
<1>9. ASSUME NEW h \in Handles, NEW can \in BOOLEAN, NEW f \in Files \cup {None}, Moves(h, can, f)
      PROVE  (Undisturbed(o)' => o \in outlived') /\ event'[o]["cleanup"] # "none"
  <2>1. strayed' = strayed
    BY <1>9 DEF Moves, history, Got
  <2> QED BY <1>c, <2>1
<1>10. ASSUME NEW h \in Handles, Agrees(h)
      PROVE  (Undisturbed(o)' => o \in outlived') /\ event'[o]["cleanup"] # "none"
  <2>1. strayed' = strayed
    BY <1>10 DEF Agrees, history, Got
  <2> QED BY <1>c, <2>1
<1>11. ASSUME NEW h \in Handles, NEW f \in Files \cup {None}, Cleans(h, f)
      PROVE  (Undisturbed(o)' => o \in outlived') /\ event'[o]["cleanup"] # "none"
  <2>1. CASE o \in strayed
    BY <1>c, <2>1
  <2>2. CASE o \notin strayed
    <3>1. o = h /\ f \notin {None, own[h]} /\ event[h]["cleanup"] = "closed"
      BY <1>11, <2>2 DEF Cleans
    <3>2. Undisturbed(o) => o \in outlived'
      BY <1>11, <3>1, CleansRight
    <3> QED BY <1>a, <1>b, <3>1, <3>2, Grows, KindsTyped
  <2> QED BY <2>1, <2>2
<1>12. ASSUME NEW h \in Handles, Closes(h)
      PROVE  (Undisturbed(o)' => o \in outlived') /\ event'[o]["cleanup"] # "none"
  <2>1. strayed' = strayed
    BY <1>12 DEF Closes, history, Got
  <2> QED BY <1>c, <2>1
<1>13. ASSUME NEW h \in Handles, NEW k, PlainGot(h, k)
      PROVE  (Undisturbed(o)' => o \in outlived') /\ event'[o]["cleanup"] # "none"
  <2>1. strayed' = strayed
    BY <1>13 DEF PlainGot, history, Got
  <2> QED BY <1>c, <2>1
<1>14. ASSUME NEW h \in Handles, RenameGot(h)
      PROVE  (Undisturbed(o)' => o \in outlived') /\ event'[o]["cleanup"] # "none"
  <2>1. strayed' = strayed
    BY <1>14 DEF RenameGot, history, Got
  <2> QED BY <1>c, <2>1
<1>15. ASSUME NEW h \in Handles, NEW k, Shuts(h, k)
      PROVE  (Undisturbed(o)' => o \in outlived') /\ event'[o]["cleanup"] # "none"
  <2>1. strayed' = strayed
    BY <1>15 DEF Shuts, history, Got
  <2> QED BY <1>c, <2>1
<1>16. ASSUME NEW h \in Handles, Skips(h)
      PROVE  (Undisturbed(o)' => o \in outlived') /\ event'[o]["cleanup"] # "none"
  <2>1. strayed' = strayed
    BY <1>16 DEF Skips, history, Got
  <2> QED BY <1>c, <2>1
<1> QED BY <1>1, <1>2, <1>3, <1>4, <1>5, <1>6, <1>7, <1>8, <1>9, <1>10, <1>11, <1>12, <1>13,
           <1>14, <1>15, <1>16, Zenon DEF Step

\* A cleanup that is to delete the file does, and the file stays away.
LEMMA DoneStep ==
  ASSUME IInv, Step, NEW o \in Handles
  PROVE  DoneFor(o)'
<1>a. BaseInv /\ DoneFor(o)
  BY DoneForAll DEF IInv
<1>b. event[o]["cleanup"] # "none" =>
        /\ Undisturbed(o)' => Undisturbed(o)
        /\ event'[o]["rename"] = "none" => event[o]["rename"] = "none"
        /\ own[o] # None /\ Ended(o, "create")
  <2> SUFFICES ASSUME event[o]["cleanup"] # "none"
               PROVE  /\ Undisturbed(o)' => Undisturbed(o)
                      /\ event'[o]["rename"] = "none" => event[o]["rename"] = "none"
                      /\ own[o] # None /\ Ended(o, "create")
    OBVIOUS
  <2>1. irp[o]["create"] # "none" /\ fcb[o] \in Handles /\ own[o] # None /\ Ended(o, "create")
    BY <1>a, OwnThere, KindsTyped DEF Opened, BaseInv, FcbInv
  <2> QED BY <1>a, <2>1, Grows, KindsTyped DEF Undisturbed
<1>c. ASSUME event'[o]["cleanup"] = "ran" => event[o]["cleanup"] = "ran" /\ deletes'[o] = deletes[o],
             irp'[o]["cleanup"] # "givenUp" => irp[o]["cleanup"] # "givenUp"
      PROVE  DoneFor(o)'
  <2> SUFFICES ASSUME event'[o]["cleanup"] = "ran", irp'[o]["cleanup"] # "givenUp", deletes'[o],
                      o \notin refused', Undisturbed(o)', "rename" \in Kinds[o] => event'[o]["rename"] = "none"
               PROVE  Gone(own[o])'
    BY DEF DoneFor
  <2>1. Gone(own[o])
    BY <1>a, <1>b, <1>c, Grows DEF DoneFor
  <2>2. own'[o] = own[o] /\ (Gone(own[o]))'
    BY <1>a, <1>b, <1>c, <2>1, GoneStays
  <2> QED BY <2>2
<1>1. ASSUME NEW h \in Handles, NEW n \in Names, NEW x \in Handles, CreateSent(h, n, x)
      PROVE  DoneFor(o)'
  <2>1. event'[o]["cleanup"] = "ran" => event[o]["cleanup"] = "ran" /\ deletes'[o] = deletes[o]
    BY <1>1, KindsTyped DEF CreateSent, Sets, Got, eventVars
  <2>2. irp'[o]["cleanup"] # "givenUp" => irp[o]["cleanup"] # "givenUp"
    BY <1>1, KindsTyped DEF CreateSent, Sets, Got, eventVars
  <2> QED BY <1>c, <2>1, <2>2
<1>2. ASSUME NEW h \in Handles, NEW k, RequestSent(h, k)
      PROVE  DoneFor(o)'
  <2>1. event'[o]["cleanup"] = "ran" => event[o]["cleanup"] = "ran" /\ deletes'[o] = deletes[o]
    BY <1>2, KindsTyped DEF RequestSent, Sets, Got, eventVars
  <2>2. irp'[o]["cleanup"] # "givenUp" => irp[o]["cleanup"] # "givenUp"
    BY <1>2, KindsTyped DEF RequestSent, Sets, Got, eventVars
  <2> QED BY <1>c, <2>1, <2>2
<1>3. ASSUME NEW h \in Handles, CleanupSent(h)
      PROVE  DoneFor(o)'
  <2>1. event'[o]["cleanup"] = "ran" => event[o]["cleanup"] = "ran" /\ deletes'[o] = deletes[o]
    BY <1>3, KindsTyped DEF CleanupSent, Sets, Got, eventVars
  <2>2. irp'[o]["cleanup"] # "givenUp" => irp[o]["cleanup"] # "givenUp"
    BY <1>3, KindsTyped DEF CleanupSent, Sets, Got, eventVars
  <2> QED BY <1>c, <2>1, <2>2
<1>4. ASSUME NEW h \in Handles, CloseSent(h)
      PROVE  DoneFor(o)'
  <2>1. event'[o]["cleanup"] = "ran" => event[o]["cleanup"] = "ran" /\ deletes'[o] = deletes[o]
    BY <1>4, KindsTyped DEF CloseSent, Sets, Got, eventVars
  <2>2. irp'[o]["cleanup"] # "givenUp" => irp[o]["cleanup"] # "givenUp"
    BY <1>4, KindsTyped DEF CloseSent, Sets, Got, eventVars
  <2> QED BY <1>c, <2>1, <2>2
<1>5. ASSUME NEW h \in Handles, NEW k, GivenUp(h, k)
      PROVE  DoneFor(o)'
  <2>1. event'[o]["cleanup"] = "ran" => event[o]["cleanup"] = "ran" /\ deletes'[o] = deletes[o]
    BY <1>5, KindsTyped DEF GivenUp, Sets, Got, eventVars
  <2>2. irp'[o]["cleanup"] # "givenUp" => irp[o]["cleanup"] # "givenUp"
    BY <1>5, KindsTyped DEF GivenUp, Sets, Got, eventVars
  <2> QED BY <1>c, <2>1, <2>2
<1>6. ASSUME NEW n \in Names, MadeOutside(n)
      PROVE  DoneFor(o)'
  <2>1. event'[o]["cleanup"] = "ran" => event[o]["cleanup"] = "ran" /\ deletes'[o] = deletes[o]
    BY <1>6, KindsTyped DEF MadeOutside, Sets, Got, eventVars
  <2>2. irp'[o]["cleanup"] # "givenUp" => irp[o]["cleanup"] # "givenUp"
    BY <1>6, KindsTyped DEF MadeOutside, Sets, Got, eventVars
  <2> QED BY <1>c, <2>1, <2>2
<1>7. ASSUME NEW h \in Handles, NEW k, Begun(h, k)
      PROVE  DoneFor(o)'
  <2>1. event'[o]["cleanup"] = "ran" => event[o]["cleanup"] = "ran" /\ deletes'[o] = deletes[o]
    BY <1>7, KindsTyped DEF Begun, Sets, Got, eventVars
  <2>2. irp'[o]["cleanup"] # "givenUp" => irp[o]["cleanup"] # "givenUp"
    BY <1>7, KindsTyped DEF Begun, Sets, Got, eventVars
  <2> QED BY <1>c, <2>1, <2>2
<1>8. ASSUME NEW h \in Handles, Creates(h)
      PROVE  DoneFor(o)'
  <2>1. event'[o]["cleanup"] = "ran" => event[o]["cleanup"] = "ran" /\ deletes'[o] = deletes[o]
    BY <1>8, KindsTyped DEF Creates, Sets, Got, eventVars
  <2>2. irp'[o]["cleanup"] # "givenUp" => irp[o]["cleanup"] # "givenUp"
    BY <1>8, KindsTyped DEF Creates, Sets, Got, eventVars
  <2> QED BY <1>c, <2>1, <2>2
<1>9. ASSUME NEW h \in Handles, NEW can \in BOOLEAN, NEW f \in Files \cup {None}, Moves(h, can, f)
      PROVE  DoneFor(o)'
  <2>1. event'[o]["cleanup"] = "ran" => event[o]["cleanup"] = "ran" /\ deletes'[o] = deletes[o]
    BY <1>9, KindsTyped DEF Moves, Sets, Got, eventVars
  <2>2. irp'[o]["cleanup"] # "givenUp" => irp[o]["cleanup"] # "givenUp"
    BY <1>9, KindsTyped DEF Moves, Sets, Got, eventVars
  <2> QED BY <1>c, <2>1, <2>2
<1>10. ASSUME NEW h \in Handles, Agrees(h)
      PROVE  DoneFor(o)'
  <2>1. event'[o]["cleanup"] = "ran" => event[o]["cleanup"] = "ran" /\ deletes'[o] = deletes[o]
    BY <1>10, KindsTyped DEF Agrees, Sets, Got, eventVars
  <2>2. irp'[o]["cleanup"] # "givenUp" => irp[o]["cleanup"] # "givenUp"
    BY <1>10, KindsTyped DEF Agrees, Sets, Got, eventVars
  <2> QED BY <1>c, <2>1, <2>2
<1>11. ASSUME NEW h \in Handles, NEW f \in Files \cup {None}, Cleans(h, f)
      PROVE  DoneFor(o)'
  <2>1. CASE o # h
    <3>1. event'[o]["cleanup"] = event[o]["cleanup"] /\ deletes' = deletes /\ irp' = irp
      BY <1>11, <2>1, KindsTyped DEF Cleans, Sets
    <3> QED BY <1>c, <3>1
  <2>2. CASE o = h
    <3> SUFFICES ASSUME irp'[o]["cleanup"] # "givenUp", deletes'[o],
                        o \notin refused', Undisturbed(o)', "rename" \in Kinds[o] => event'[o]["rename"] = "none"
                 PROVE  Gone(own[o])'
      BY DEF DoneFor
    <3>1. event[h]["cleanup"] = "closed" /\ irp' = irp /\ deletes' = deletes
      BY <1>11 DEF Cleans
    <3>2. event[o]["rename"] = "none"
      BY <1>a, <1>b, <2>2, <3>1, KindsTyped DEF BaseInv, StageInv, RequestInv, Asked
    <3>3. Undisturbed(o)
      BY <1>b, <2>2, <3>1
    <3> QED BY <1>11, <2>2, <3>1, <3>2, <3>3, CleansRight
  <2> QED BY <2>1, <2>2
<1>12. ASSUME NEW h \in Handles, Closes(h)
      PROVE  DoneFor(o)'
  <2>1. event'[o]["cleanup"] = "ran" => event[o]["cleanup"] = "ran" /\ deletes'[o] = deletes[o]
    BY <1>12, KindsTyped DEF Closes, Sets, Got, eventVars
  <2>2. irp'[o]["cleanup"] # "givenUp" => irp[o]["cleanup"] # "givenUp"
    BY <1>12, KindsTyped DEF Closes, Sets, Got, eventVars
  <2> QED BY <1>c, <2>1, <2>2
<1>13. ASSUME NEW h \in Handles, NEW k, PlainGot(h, k)
      PROVE  DoneFor(o)'
  <2>1. event'[o]["cleanup"] = "ran" => event[o]["cleanup"] = "ran" /\ deletes'[o] = deletes[o]
    BY <1>13, KindsTyped DEF PlainGot, Sets, Got, eventVars
  <2>2. irp'[o]["cleanup"] # "givenUp" => irp[o]["cleanup"] # "givenUp"
    BY <1>13, KindsTyped DEF PlainGot, Sets, Got, eventVars
  <2> QED BY <1>c, <2>1, <2>2
<1>14. ASSUME NEW h \in Handles, RenameGot(h)
      PROVE  DoneFor(o)'
  <2>1. event'[o]["cleanup"] = "ran" => event[o]["cleanup"] = "ran" /\ deletes'[o] = deletes[o]
    BY <1>14, KindsTyped DEF RenameGot, Sets, Got, eventVars
  <2>2. irp'[o]["cleanup"] # "givenUp" => irp[o]["cleanup"] # "givenUp"
    BY <1>14, KindsTyped DEF RenameGot, Sets, Got, eventVars
  <2> QED BY <1>c, <2>1, <2>2
<1>15. ASSUME NEW h \in Handles, NEW k, Shuts(h, k)
      PROVE  DoneFor(o)'
  <2>1. event'[o]["cleanup"] = "ran" => event[o]["cleanup"] = "ran" /\ deletes'[o] = deletes[o]
    BY <1>15, KindsTyped DEF Shuts, Sets, Got, eventVars
  <2>2. irp'[o]["cleanup"] # "givenUp" => irp[o]["cleanup"] # "givenUp"
    BY <1>15, KindsTyped DEF Shuts, Sets, Got, eventVars
  <2> QED BY <1>c, <2>1, <2>2
<1>16. ASSUME NEW h \in Handles, Skips(h)
      PROVE  DoneFor(o)'
  <2>1. CASE o # h
    <3>1. event'[o]["cleanup"] = event[o]["cleanup"] /\ deletes' = deletes /\ irp' = irp
      BY <1>16, <2>1, KindsTyped DEF Skips, Sets, eventVars
    <3> QED BY <1>c, <3>1
  <2>2. CASE o = h
    <3> SUFFICES ASSUME irp'[o]["cleanup"] # "givenUp", deletes'[o],
                        o \notin refused', Undisturbed(o)', "rename" \in Kinds[o] => event'[o]["rename"] = "none"
                 PROVE  FALSE
      BY DEF DoneFor
    <3>1. /\ event[o]["cleanup"] = "begun" /\ irp' = irp /\ copy[o]["cleanup"] # "handle"
          /\ "cleanup" \in AllKinds
      BY <1>16, <2>2, KindsTyped DEF Skips
    <3>2. event[o]["rename"] = "none"
      BY <1>a, <1>b, <3>1, KindsTyped DEF BaseInv, StageInv, RequestInv, Asked
    <3>3. Undisturbed(o)
      BY <1>b, <3>1
    <3>4. irp[o]["cleanup"] = "pending"
      <4>1. RequestInv(o, "cleanup") /\ irp[o]["cleanup"] \in {"none", "pending", "done", "givenUp"}
        BY <1>a, <3>1 DEF BaseInv, StageInv, TypeOK, IrpStates
      <4> QED BY <3>1, <4>1 DEF RequestInv
    <3>5. event[o]["close"] = "none"
      BY <1>a, <3>4, KindsTyped DEF BaseInv, StageInv, RequestInv, Idle
    <3>6. Ended(o, "create") /\ ~failed[o]["create"]
      BY <1>a, <3>1, OwnThere, KindsTyped DEF Opened
    <3>7. win32[o] # None
      BY <3>1, <3>2, <3>3, <3>5, <3>6 DEF IInv, DeleteInv, Undisturbed
    <3> QED BY <3>1, <3>3, <3>7 DEF IInv, ContextInv, Undisturbed, Active
  <2> QED BY <2>1, <2>2
<1> QED BY <1>1, <1>2, <1>3, <1>4, <1>5, <1>6, <1>7, <1>8, <1>9, <1>10, <1>11, <1>12, <1>13,
           <1>14, <1>15, <1>16, Zenon DEF Step

\* Only handles stray.
LEMMA StrayedTyped ==
  ASSUME Step, strayed \subseteq Handles
  PROVE  strayed' \subseteq Handles
<1>1. ASSUME NEW h \in Handles, NEW n \in Names, NEW x \in Handles, CreateSent(h, n, x)
      PROVE  strayed' \subseteq Handles
  BY <1>1 DEF CreateSent, history, Got
<1>2. ASSUME NEW h \in Handles, NEW k, RequestSent(h, k)
      PROVE  strayed' \subseteq Handles
  BY <1>2 DEF RequestSent, history, Got
<1>3. ASSUME NEW h \in Handles, CleanupSent(h)
      PROVE  strayed' \subseteq Handles
  BY <1>3 DEF CleanupSent, history, Got
<1>4. ASSUME NEW h \in Handles, CloseSent(h)
      PROVE  strayed' \subseteq Handles
  BY <1>4 DEF CloseSent, history, Got
<1>5. ASSUME NEW h \in Handles, NEW k, GivenUp(h, k)
      PROVE  strayed' \subseteq Handles
  BY <1>5 DEF GivenUp, history, Got
<1>6. ASSUME NEW n \in Names, MadeOutside(n)
      PROVE  strayed' \subseteq Handles
  BY <1>6 DEF MadeOutside, history, Got
<1>7. ASSUME NEW h \in Handles, NEW k, Begun(h, k)
      PROVE  strayed' \subseteq Handles
  BY <1>7 DEF Begun, history, Got
<1>8. ASSUME NEW h \in Handles, Creates(h)
      PROVE  strayed' \subseteq Handles
  BY <1>8 DEF Creates, history, Got
<1>9. ASSUME NEW h \in Handles, NEW can \in BOOLEAN, NEW f \in Files \cup {None}, Moves(h, can, f)
      PROVE  strayed' \subseteq Handles
  BY <1>9 DEF Moves, history, Got
<1>10. ASSUME NEW h \in Handles, Agrees(h)
      PROVE  strayed' \subseteq Handles
  BY <1>10 DEF Agrees, history, Got
<1>11. ASSUME NEW h \in Handles, NEW f \in Files \cup {None}, Cleans(h, f)
      PROVE  strayed' \subseteq Handles
  BY <1>11 DEF Cleans, history, Got
<1>12. ASSUME NEW h \in Handles, Closes(h)
      PROVE  strayed' \subseteq Handles
  BY <1>12 DEF Closes, history, Got
<1>13. ASSUME NEW h \in Handles, NEW k, PlainGot(h, k)
      PROVE  strayed' \subseteq Handles
  BY <1>13 DEF PlainGot, history, Got
<1>14. ASSUME NEW h \in Handles, RenameGot(h)
      PROVE  strayed' \subseteq Handles
  BY <1>14 DEF RenameGot, history, Got
<1>15. ASSUME NEW h \in Handles, NEW k, Shuts(h, k)
      PROVE  strayed' \subseteq Handles
  BY <1>15 DEF Shuts, history, Got
<1>16. ASSUME NEW h \in Handles, Skips(h)
      PROVE  strayed' \subseteq Handles
  BY <1>16 DEF Skips, history, Got
<1> QED BY <1>1, <1>2, <1>3, <1>4, <1>5, <1>6, <1>7, <1>8, <1>9, <1>10, <1>11, <1>12, <1>13,
           <1>14, <1>15, <1>16, Zenon DEF Step
-----------------------------------------------------------------------------
(* The theorems.                                                           *)

\* The initial state.
LEMMA InitInv ==
  ASSUME Init
  PROVE  IInv
<1>1. /\ \A h \in Handles : /\ fcb[h] = None /\ fcbUsers[h] = {} /\ own[h] = None /\ win32[h] = None
                            /\ context[h] = "null" /\ astray[h] = {}
                            /\ \A k \in AllKinds : irp[h][k] = "none" /\ event[h][k] = "none"
      /\ strayed = {} /\ refused = {} /\ moved = {} /\ overlapped = {} /\ ~outside /\ pendingDelete = {}
  BY DEF Init, PerHandle, Each
<1>2. disk = [n \in Names |-> IF n \in Existing THEN n ELSE None]
  BY DEF Init
<1>3. TypeOK
  <2>1. /\ fcb \in [Handles -> Handles \cup {None}] /\ fcbName \in [Handles -> FcbNames]
        /\ fcbUsers \in [Handles -> SUBSET Handles] /\ flag \in [Handles -> BOOLEAN]
        /\ deletes \in [Handles -> BOOLEAN]
        /\ win32 \in [Handles -> Files \cup {None}] /\ own \in [Handles -> Files \cup {None}]
        /\ astray \in [Handles -> SUBSET Reasons]
    BY NoneApart DEF Init, PerHandle
  <2>2. /\ irp \in [Handles -> [AllKinds -> IrpStates]]
        /\ event \in [Handles -> [AllKinds -> EventStates]]
        /\ name \in [Handles -> [AllKinds -> FcbNames]]
        /\ copy \in [Handles -> [AllKinds -> Contexts]]
        /\ failed \in [Handles -> [AllKinds -> BOOLEAN]]
    BY NoneApart DEF Init, Each, IrpStates, EventStates, Contexts
  <2>3. /\ target \in [Handles -> [to : Names \cup {None}, replace : BOOLEAN, bare : BOOLEAN]]
        /\ context \in [Handles -> Contexts]
    BY DEF Init, PerHandle, NoTarget, Contexts
  <2>4. /\ disk \in [Names -> Files \cup {None}]
        /\ \A m, n \in Names : disk[m] = disk[n] => m = n \/ disk[m] = None
    BY <1>2, NoneApart
  <2>5. pendingDelete \subseteq Files /\ outside \in BOOLEAN
    BY DEF Init
  <2> QED BY <2>1, <2>2, <2>3, <2>4, <2>5, Zenon DEF TypeOK
<1>4. OutsideInv
  BY <1>1, <1>2, NoneApart, RenameDeleteAssumption DEF OutsideInv
<1>5. ASSUME NEW h \in Handles
      PROVE  StageInv(h) /\ InputInv(h) /\ FcbInv(h) /\ FileInv(h)
  <2>1. StageInv(h) /\ InputInv(h)
    BY <1>1, KindsTyped DEF StageInv, RequestInv, InputInv
  <2>2. FcbInv(h)
    BY <1>1, KindsTyped, NoneApart DEF FcbInv
  <2>3. FileInv(h)
    BY <1>1, <1>2, KindsTyped, NoneApart DEF FileInv, Ended
  <2> QED BY <2>1, <2>2, <2>3
<1>6. ASSUME NEW h \in Handles
      PROVE  ContextInv(h) /\ NameInv(h) /\ DeleteInv(h) /\ DoneFor(h)
  <2>1. ContextInv(h) /\ DeleteInv(h)
    BY <1>1, KindsTyped DEF ContextInv, Active, Ended, DeleteInv
  <2>2. NameInv(h) /\ DoneFor(h)
    BY <1>1, KindsTyped
       DEF NameInv, CreateNamed, FcbNamed, RenameNamed, CleanupNamed, Moving, DoneFor
  <2> QED BY <2>1, <2>2
<1> QED BY <1>1, <1>3, <1>4, <1>5, <1>6, DoneForAll DEF IInv, BaseInv

\* Steps of the system.
LEMMA NextInv ==
  ASSUME IInv, Next
  PROVE  IInv'
<1>1. BaseInv /\ \A h \in Handles : ContextInv(h) /\ NameInv(h) /\ DeleteInv(h)
  BY DEF IInv
<1>2. Step
  BY <1>1, Steps
<1>3. BaseInv'
  BY <1>1, <1>2, BaseStep
<1>4. \A h \in Handles : ContextInv(h)'
  BY <1>1, <1>2, ContextStep
<1>5. \A h \in Handles : NameInv(h)'
  BY <1>1, <1>2, NameStep
<1>6. ASSUME NEW h \in Handles PROVE DeleteInv(h)'
  <2>1. HandleThere(h)'
    BY <1>1, <1>2, HandleStep DEF DeleteInv, HandleThere
  <2>2. h \in strayed' => (Undisturbed(h)' => h \in outlived') /\ event'[h]["cleanup"] # "none"
    BY <1>2, StrayedStep
  <2> QED BY <2>1, <2>2 DEF DeleteInv, HandleThere
<1>7. \A h \in Handles : DoneFor(h)'
  BY <1>2, DoneStep
<1>8. DeleteDone'
  BY <1>7 DEF DeleteDone, DoneFor, Gone
<1>9. strayed' \subseteq Handles
  BY <1>2, StrayedTyped DEF IInv
<1> QED BY <1>3, <1>4, <1>5, <1>6, <1>8, <1>9 DEF IInv

\* Stuttering.
LEMMA StutterInv ==
  ASSUME IInv, UNCHANGED vars
  PROVE  IInv'
<1>1. UNCHANGED <<fcb, fcbName, fcbUsers, flag, irp, event, name, copy, failed, target, deletes,
                  context, disk, win32, pendingDelete, outside, own, overlapped, astray, moved, outlived, strayed, refused>>
  BY DEF vars, fcbVars, eventVars, diskVars, history
<1>2. TypeOK' /\ OutsideInv' /\ DeleteDone'
  BY <1>1 DEF IInv, BaseInv, TypeOK, OutsideInv, DeleteDone, Undisturbed
<1>3. ASSUME NEW h \in Handles
      PROVE  StageInv(h)' /\ InputInv(h)' /\ FcbInv(h)' /\ FileInv(h)'
  <2>1. StageInv(h) /\ InputInv(h) /\ FcbInv(h) /\ FileInv(h)
    BY DEF IInv, BaseInv
  <2> QED BY <2>1, <1>1
          DEF StageInv, RequestInv, Opened, Idle, Asked, InputInv, FcbInv, FileInv, Ended
<1>4. ASSUME NEW h \in Handles
      PROVE  ContextInv(h)' /\ NameInv(h)' /\ DeleteInv(h)'
  <2>1. ContextInv(h) /\ NameInv(h) /\ DeleteInv(h)
    BY DEF IInv
  <2>2. ContextInv(h)' /\ DeleteInv(h)'
    BY <2>1, <1>1 DEF ContextInv, Active, Ended, DeleteInv, Undisturbed
  <2>3. NameInv(h)'
    BY <2>1, <1>1 DEF NameInv, CreateNamed, FcbNamed, RenameNamed, CleanupNamed, Ended, Sound,
       Moving,
                      Renaming, Crossed
  <2> QED BY <2>2, <2>3
<1>5. strayed' \subseteq Handles
  BY <1>1 DEF IInv
<1> QED BY <1>2, <1>3, <1>4, <1>5 DEF IInv, BaseInv

\* The inductive invariant.
THEOREM Invariance == Spec => []IInv
<1>1. Init => IInv
  BY InitInv
<1>2. IInv /\ [Next]_vars => IInv'
  BY NextInv, StutterInv
<1> QED BY <1>1, <1>2, PTL DEF Spec

\* Every variable keeps its type, and no two names have the same file.
THEOREM TypeCorrect == Spec => []TypeOK
<1>1. IInv => TypeOK
  BY DEF IInv, BaseInv
<1> QED BY <1>1, Invariance, PTL

\* One callback after the other gets the Win32 handle in Context as long as it
\* is open, and none is left open.
THEOREM ContextSoundHolds == Spec => []ContextSound
<1>1. IInv => ContextSound
  <2> SUFFICES ASSUME IInv, NEW h \in Handles, h \notin overlapped
               PROVE  /\ \A k \in Asked(h) : event[h][k] = "begun" =>
                           (copy[h][k] = "handle" <=> win32[h] # None)
                      /\ event[h]["close"] \in {"ran", "done"} => win32[h] = None
    BY DEF ContextSound
  <2> QED BY KindsTyped DEF IInv, ContextInv, Active, Ended
<1> QED BY <1>1, Invariance, PTL

\* The name that the next event carries is that of the file, but for a rename
\* on its way and the five things that lose track of a name.
THEOREM NameCurrentHolds == Spec => []NameCurrent
<1>1. IInv => NameCurrent
  <2> SUFFICES ASSUME IInv, NEW h \in Handles, NEW n \in Names, Opened(h), irp[h]["close"] = "none",
                      disk[n] = own[h], disk[n] # None, astray[fcb[h]] = {}
               PROVE  fcbName[fcb[h]] = n \/ Renaming(h)
    BY DEF NameCurrent
  <2>1. RequestInv(h, "create") /\ NameInv(h)
    BY KindsTyped DEF IInv, BaseInv, StageInv
  <2> QED BY <2>1 DEF RequestInv, Opened, NameInv, FcbNamed, Ended, Sound
<1> QED BY <1>1, Invariance, PTL

\* Delete on close deletes the file that was opened, and no other.
THEOREM DeleteOnCloseHolds == Spec => []DeleteOnClose
<1>1. IInv => DeleteOnClose
  <2>1. IInv => \A h \in strayed : Undisturbed(h) => h \in outlived
    BY DEF IInv, DeleteInv
  <2> QED BY <2>1 DEF IInv, DeleteOnClose, DeletesOwnFile
<1> QED BY <1>1, Invariance, PTL
=============================================================================
