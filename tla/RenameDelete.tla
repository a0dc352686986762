----------------------------- MODULE RenameDelete -----------------------------
(***************************************************************************)
(* Renaming and deleting through open handles (dokanlib/sys: create.c,     *)
(* fileinfo.c, cleanup.c; dokanlib/dokan: setfile.c, cleanup.c, close.c;   *)
(* dokanlib/dokan_mirror/mirror.c).                                        *)
(*                                                                         *)
(* The driver knows a file by the name in its FCB and puts that name into  *)
(* each event when it dispatches the request.  The mirror sample keeps the *)
(* Win32 handle of the mirrored file in the Context of the open file, of   *)
(* which every callback gets a copy that is written back afterwards.       *)
(* Between the dispatch and the callback, and between the callback and its *)
(* answer, other handles go on.                                            *)
(*                                                                         *)
(* The lists of IRPs and events are in other modules, and so are mounts.   *)
(***************************************************************************)
EXTENDS Naturals, FiniteSets

CONSTANTS
  Names,      \* full names of files, in one directory
  Existing,   \* those that have a file at first
  Handles,    \* file objects: each is opened once
  Kinds,      \* Kinds[h]: what is asked for with h, besides create, cleanup
              \* and close, each once: "rename", "delete"
  GiveUps,    \* kinds of requests the driver may time out
  Relative    \* may the new name of a rename be a name without directory?

Asked(h) == Kinds[h] \cup {"create", "cleanup", "close"}
AllKinds == {"create", "rename", "delete", "cleanup", "close"}
None     == "none"
Bare(n)  == <<"bare", n>>                       \* n without its directory
Files    == Names \cup Handles \cup {"outside"} \* at first, created through h, or directly

ASSUME RenameDeleteAssumption ==
  /\ Kinds \in [Handles -> SUBSET {"rename", "delete"}]
  /\ GiveUps \subseteq AllKinds \ {"close"} /\ Relative \in BOOLEAN
  /\ Existing \subseteq Names /\ Names \cap Handles = {} /\ None \notin Names \cup Handles
  /\ "outside" \notin Names \cup Handles

VARIABLES
  \* the driver
  fcb,        \* ccb->Fcb: an FCB is known by the handle that made it
  fcbName,    \* fcb->FileName
  fcbUsers,   \* fcb->FileCount, as the set of handles counted
  flag,       \* DOKAN_DELETE_ON_CLOSE of ccb->Flags
  irp,        \* the IRP of each request: "none", "pending", "done", "givenUp"
  \* the library
  event,      \* its event: "none", "queued", "begun", "closed" (the callback has
              \* closed its handle), "ran", "done"
  name,       \* ... the file name in it
  copy,       \* ... the copy of Context in DOKAN_FILE_INFO
  failed,     \* ... did the callback return an error?
  target,     \* FILE_RENAME_INFORMATION: FileName, ReplaceIfExists
  deletes,    \* EventContext->FileFlags of the cleanup
  context,    \* openInfo->UserContext
  \* the mirrored directory
  disk,       \* the file each name has
  win32,      \* the file that the Win32 handle made for h is open on
  pendingDelete, \* files deleted while a Win32 handle is open on them
  outside,    \* has a file been created directly? (bound: once)
  \* history
  own,        \* the file that h was opened on
  overlapped, \* handles with two callbacks at a time
  astray,     \* FCBs whose name was lost track of, with the reasons
  moved,      \* handles whose file was renamed while a cleanup was on its way
  outlived,   \* handles whose cleanup came to delete when their file was gone
  strayed,    \* handles whose cleanup deleted the file of another
  refused     \* handles whose cleanup could not delete

fcbVars   == <<fcb, fcbName, fcbUsers, flag>>
eventVars == <<event, name, copy, failed, target, deletes, context>>
diskVars  == <<disk, win32, pendingDelete, outside>>
history   == <<own, overlapped, astray, moved, outlived, strayed, refused>>
cleaned   == <<outlived, strayed, refused>>
vars == <<fcbVars, irp, eventVars, diskVars, history>>

Each(v) == [h \in Handles |-> [k \in AllKinds |-> v]]
PerHandle(v) == [h \in Handles |-> v]

NoTarget == [to |-> None, replace |-> FALSE, bare |-> FALSE]

Init ==
  /\ fcb = PerHandle(None) /\ fcbName = PerHandle(None) /\ fcbUsers = PerHandle({})
  /\ flag = PerHandle(FALSE) /\ irp = Each("none")
  /\ event = Each("none") /\ name = Each(None) /\ copy = Each("null") /\ failed = Each(FALSE)
  /\ target = PerHandle(NoTarget) /\ deletes = PerHandle(FALSE)
  /\ context = PerHandle("null")
  /\ disk = [n \in Names |-> IF n \in Existing THEN n ELSE None]
  /\ win32 = PerHandle(None) /\ pendingDelete = {} /\ outside = FALSE
  /\ own = PerHandle(None) /\ overlapped = {} /\ astray = PerHandle({})
  /\ moved = {} /\ outlived = {} /\ strayed = {} /\ refused = {}

-----------------------------------------------------------------------------
(* The driver dispatches a request.                                        *)

\* The rename of o has been carried out, and is not answered yet.
Moving(o) == event[o]["rename"] = "ran" /\ ~failed[o]["rename"]

\* A rename of the file of h is between callback and answer.
Renaming(h) == \E o \in Handles : Moving(o) /\ own[o] = own[h]

Idle(h)   == \A k \in Asked(h) : irp[h][k] # "pending"
Opened(h) == irp[h]["create"] = "done" /\ ~failed[h]["create"]

\* The event carries the name of the FCB and waits for a loop thread.
SendEvent(h, k, fileName) ==
  /\ irp' = [irp EXCEPT ![h][k] = "pending"]
  /\ event' = [event EXCEPT ![h][k] = "queued"]
  /\ name' = [name EXCEPT ![h][k] = fileName]

\* DokanDispatchCreate: the FCB with that name, or a new one.
DispatchCreate(h) ==
  /\ irp[h]["create"] = "none"
  /\ \E n \in Names :
       LET same == {x \in Handles : fcbUsers[x] # {} /\ fcbName[x] = n} IN
       /\ SendEvent(h, "create", n)
       /\ \E x \in IF same = {} THEN {h} ELSE same :
            /\ fcb' = [fcb EXCEPT ![h] = x]
            /\ fcbName' = [fcbName EXCEPT ![x] = n]
            /\ fcbUsers' = [fcbUsers EXCEPT ![x] = @ \cup {h}]
  /\ UNCHANGED <<flag, copy, failed, target, deletes, context, diskVars, history>>

\* DokanDispatchSetInformation.  One request of a handle follows the other, as a
\* file opened for synchronous use has it.
DispatchRequest(h, k) ==
  /\ k \in Kinds[h] /\ irp[h][k] = "none" /\ Opened(h) /\ Idle(h)
  /\ irp[h]["cleanup"] = "none"
  /\ SendEvent(h, k, fcbName[fcb[h]])
  /\ IF k = "rename"
     THEN \E n \in Names, replace \in BOOLEAN, bare \in IF Relative THEN BOOLEAN ELSE {FALSE} :
            /\ n # fcbName[fcb[h]]
            /\ target' = [target EXCEPT ![h] = [to |-> n, replace |-> replace, bare |-> bare]]
     ELSE UNCHANGED target
  /\ UNCHANGED <<fcbVars, copy, failed, deletes, context, diskVars, history>>

\* DokanDispatchCleanup; the flags of the event are those of the CCB.
DispatchCleanup(h) ==
  /\ irp[h]["cleanup"] = "none" /\ Opened(h) /\ Idle(h)
  /\ SendEvent(h, "cleanup", fcbName[fcb[h]])
  /\ deletes' = [deletes EXCEPT ![h] = flag[h]]
  /\ moved' = IF Renaming(h) THEN moved \cup {h} ELSE moved
  /\ UNCHANGED <<fcbVars, copy, failed, target, context, diskVars, own, overlapped, astray,
                 cleaned>>

\* DokanDispatchClose, after which the handle is gone; nobody waits for the
\* event.
DispatchClose(h) ==
  /\ irp[h]["close"] = "none" /\ irp[h]["cleanup"] \in {"done", "givenUp"} /\ Idle(h)
  /\ irp' = [irp EXCEPT ![h]["close"] = "done"]
  /\ event' = [event EXCEPT ![h]["close"] = "queued"]
  /\ fcbUsers' = [fcbUsers EXCEPT ![fcb[h]] = @ \ {h}]
  /\ UNCHANGED <<fcb, fcbName, flag, name, copy, failed, target, deletes, context,
                 diskVars, history>>

\* ReleaseTimeoutPendingIrp.
GiveUp(h, k) ==
  /\ k \in GiveUps /\ irp[h][k] = "pending"
  /\ irp' = [irp EXCEPT ![h][k] = "givenUp"]
  /\ UNCHANGED <<fcbVars, eventVars, diskVars, history>>

-----------------------------------------------------------------------------
(* The mirrored directory, all of whose handles share it for everything.   *)

Holders(f)    == {h \in Handles : win32[h] = f}
FileAt(n)     == IF n \in Names THEN disk[n] ELSE None
CanOpen(n)    == FileAt(n) # None /\ FileAt(n) \notin pendingDelete
Vanish(d, fs) == [n \in Names |-> IF d[n] \in fs THEN None ELSE d[n]]

\* Files that go when the Win32 handle of h is closed.
LastOf(h) == {f \in pendingDelete : Holders(f) = {h}}

\* A file created directly, in place of one that is gone.
CreateOutside(n) ==
  /\ disk[n] = None /\ ~outside /\ outside' = TRUE
  /\ disk' = [disk EXCEPT ![n] = "outside"]
  /\ UNCHANGED <<fcbVars, irp, eventVars, win32, pendingDelete, history>>

-----------------------------------------------------------------------------
(* The library runs the callbacks.                                         *)

\* DispatchCommon copies UserContext.
Begin(h, k) ==
  /\ event[h][k] = "queued"
  /\ k # "create" => event[h]["create"] = "done"
  /\ event' = [event EXCEPT ![h][k] = "begun"]
  /\ copy' = [copy EXCEPT ![h][k] = context[h]]
  /\ overlapped' = overlapped \cup
       (IF \E j \in Asked(h) : event[h][j] \in {"begun", "closed", "ran"} THEN {h} ELSE {})
  /\ UNCHANGED <<fcbVars, irp, name, failed, target, deletes, context, diskVars, own,
                 astray, moved, cleaned>>

\* The callback returns.
Ran(h, k, bad) ==
  /\ event' = [event EXCEPT ![h][k] = "ran"]
  /\ failed' = [failed EXCEPT ![h][k] = bad]
  /\ UNCHANGED <<fcbVars, irp, name, target, deletes, context, overlapped>>

\* MirrorCreateFile, to open a file or to create one if there is none.
MirrorCreateFile(h) ==
  LET n == name[h]["create"] IN
  /\ event[h]["create"] = "begun"
  /\ \/ /\ Ran(h, "create", FALSE) /\ CanOpen(n)
        /\ win32' = [win32 EXCEPT ![h] = disk[n]] /\ own' = [own EXCEPT ![h] = disk[n]]
        /\ copy' = [copy EXCEPT ![h]["create"] = "handle"]
        /\ UNCHANGED <<disk, pendingDelete, outside>>
     \/ /\ Ran(h, "create", FALSE) /\ disk[n] = None
        /\ disk' = [disk EXCEPT ![n] = h]
        /\ win32' = [win32 EXCEPT ![h] = h] /\ own' = [own EXCEPT ![h] = h]
        /\ copy' = [copy EXCEPT ![h]["create"] = "handle"]
        /\ UNCHANGED <<pendingDelete, outside>>
     \/ Ran(h, "create", TRUE) /\ UNCHANGED <<copy, diskVars, own>>
  /\ UNCHANGED <<astray, moved, cleaned>>

\* A slip: the handle is forgotten and stays open.
CloseForgotten(h, closing) == [disk |-> disk, pending |-> pendingDelete, win32 |-> win32]

\* CloseHandle: a file deleted meanwhile goes with the last handle on it.
Close(h, closing) ==
  LET gone == IF closing THEN LastOf(h) ELSE {} IN
  [disk |-> Vanish(disk, gone), pending |-> pendingDelete \ gone,
   win32 |-> IF closing THEN [win32 EXCEPT ![h] = None] ELSE win32]

\* A slip: the file keeps its old name too.
MoveFileByCopy(d, n, to) == [d EXCEPT ![to] = d[n]]

\* The file with the name n gets the name to.
MoveFile(d, n, to) == [d EXCEPT ![n] = None, ![to] = d[n]]

\* MirrorMoveFile and MirrorCleanup first close the handle; MirrorCleanup goes
\* on only if it is there.  Before the next step other callbacks may run.
CloseHandle(h, k) ==
  LET c == Close(h, copy[h][k] = "handle") IN
  /\ event[h][k] = "begun" /\ (k = "cleanup" => copy[h][k] = "handle")
  /\ event' = [event EXCEPT ![h][k] = "closed"] /\ copy' = [copy EXCEPT ![h][k] = "null"]
  /\ disk' = c.disk /\ win32' = c.win32 /\ pendingDelete' = c.pending
  /\ UNCHANGED <<fcbVars, irp, name, failed, target, deletes, context, outside, history>>

\* MirrorMoveFile then moves what has the old name, unless it is being deleted;
\* a file with the new name must not be there or not be open.
MirrorMoveFile(h) ==
  LET n == name[h]["rename"]
      t == target[h]
      f == FileAt(n)
      inTheWay == disk[t.to]
      can == /\ CanOpen(n)
             /\ inTheWay = None \/ (t.replace /\ Holders(inTheWay) = {})
  IN
  /\ event[h]["rename"] = "closed" /\ Ran(h, "rename", ~can)
  /\ disk' = IF can THEN MoveFile(disk, n, t.to) ELSE disk
  /\ moved' = moved \cup
       {o \in Handles :
          can /\ own[o] = f /\ event[o]["cleanup"] \in {"queued", "begun", "closed"}}
  /\ astray' = [x \in Handles |-> astray[x] \cup
       (IF can /\ f # own[h] /\ (x = fcb[h] \/ \E o \in fcbUsers[x] : own[o] = f)
        THEN {"other file"} ELSE {})]
  /\ UNCHANGED <<copy, win32, pendingDelete, outside, own, cleaned>>

\* MirrorDeleteFile agrees to everything.
MirrorDeleteFile(h) ==
  /\ event[h]["delete"] = "begun" /\ Ran(h, "delete", FALSE)
  /\ UNCHANGED <<copy, diskVars, own, astray, moved, cleaned>>

\* A slip: only the last handle of the file deletes it.
DeletesAsLast(h) == deletes[h] /\ Holders(own[h]) = {}

\* DeleteOnClose is set.
Deletes(h) == deletes[h]

\* MirrorCleanup ends at once if the handle is not there.  After closing it
\* deletes what has the name now; that it could not is only logged.
MirrorCleanup(h) ==
  LET f == FileAt(name[h]["cleanup"]) IN
  \/ /\ event[h]["cleanup"] = "begun" /\ copy[h]["cleanup"] # "handle"
     /\ Ran(h, "cleanup", TRUE)
     /\ UNCHANGED <<copy, diskVars, own, astray, moved, cleaned>>
  \/ /\ event[h]["cleanup"] = "closed" /\ Ran(h, "cleanup", FALSE)
     /\ \E fails \in IF Deletes(h) THEN BOOLEAN ELSE {TRUE} :
          LET file == IF fails THEN None ELSE f IN
          /\ disk' = IF Holders(file) = {} THEN Vanish(disk, {file}) ELSE disk
          /\ pendingDelete' = IF file # None /\ Holders(file) # {}
                              THEN pendingDelete \cup {file} ELSE pendingDelete
          /\ strayed' = IF file \notin {None, own[h]} THEN strayed \cup {h} ELSE strayed
          /\ refused' = IF Deletes(h) /\ fails THEN refused \cup {h} ELSE refused
     /\ outlived' = IF \A n \in Names : disk[n] # own[h] THEN outlived \cup {h} ELSE outlived
     /\ UNCHANGED <<copy, win32, outside, own, astray, moved>>

\* MirrorCloseFile closes a handle that Cleanup has left.
MirrorCloseFile(h) ==
  LET c == Close(h, copy[h]["close"] = "handle") IN
  /\ event[h]["close"] = "begun" /\ Ran(h, "close", FALSE)
  /\ disk' = c.disk /\ win32' = c.win32 /\ pendingDelete' = c.pending
  /\ copy' = [copy EXCEPT ![h]["close"] = "null"]
  /\ UNCHANGED <<outside, own, astray, moved, cleaned>>

-----------------------------------------------------------------------------
(* The Dispatch functions write Context back and answer, and the driver    *)
(* completes the request unless it has given it up.                        *)

Answered(h, k) ==
  /\ event[h][k] = "ran" /\ event' = [event EXCEPT ![h][k] = "done"]
  /\ context' = [context EXCEPT ![h] = copy[h][k]]
  /\ name' = [name EXCEPT ![h][k] = None] /\ copy' = [copy EXCEPT ![h][k] = "null"]
  /\ irp' = [irp EXCEPT ![h][k] = IF @ = "pending" THEN "done" ELSE @]
  /\ UNCHANGED <<fcb, fcbUsers, failed, deletes, diskVars, own, overlapped, moved, cleaned>>

\* DispatchCreate, DispatchCleanup, DispatchClose.
Answer(h, k) ==
  /\ k \in {"create", "cleanup", "close"} /\ Answered(h, k)
  /\ UNCHANGED <<fcbName, flag, target, astray>>

\* DokanCompleteSetInformation, FileDispositionInformation.
AnswerDelete(h) ==
  /\ Answered(h, "delete")
  /\ flag' = [flag EXCEPT ![h] = @ \/ irp[h]["delete"] = "pending"]
  /\ UNCHANGED <<fcbName, target, astray>>

\* A slip: the FCB keeps its name.
NameKept(h) == fcbName[fcb[h]]

\* The name that the FCB gets: the one asked for, as it was asked for.
NewName(h) == IF target[h].bare THEN Bare(target[h].to) ELSE target[h].to

\* ... and FileRenameInformation: the FCB gets the new name if the
\* request has not been given up.
AnswerRename(h) ==
  LET x == fcb[h]
      t == target[h]
      ok == ~failed[h]["rename"]
      crossed == \E o \in Handles \ {h} : Moving(o) /\ own[o] = own[h]
  IN
  /\ Answered(h, "rename")
  /\ IF ok /\ irp[h]["rename"] = "pending"
     THEN /\ fcbName' = [fcbName EXCEPT ![x] = NewName(h)]
          /\ astray' = [y \in Handles |-> astray[y] \cup
               (IF y = x /\ t.bare THEN {"bare"} ELSE {}) \cup
               (IF y = x /\ \E o \in fcbUsers[x] : irp[o]["create"] = "pending" \/ own[o] # own[h]
                THEN {"opening"} ELSE {}) \cup
               (IF (y # x \/ crossed) /\ \E o \in fcbUsers[y] : own[o] = own[h]
                THEN {"twice"} ELSE {})]
     ELSE /\ astray' = [y \in Handles |-> astray[y] \cup
               (IF ok /\ \E o \in fcbUsers[y] : own[o] = own[h] THEN {"late"} ELSE {})]
          /\ UNCHANGED fcbName
  /\ target' = [target EXCEPT ![h] = NoTarget]
  /\ UNCHANGED flag

-----------------------------------------------------------------------------
Driver(h) ==
  \/ DispatchCreate(h) \/ DispatchCleanup(h) \/ DispatchClose(h)
  \/ \E k \in Kinds[h] : DispatchRequest(h, k)
  \/ \E k \in Asked(h) : GiveUp(h, k)

Callback(h) ==
  \/ MirrorCreateFile(h) \/ MirrorCleanup(h) \/ MirrorCloseFile(h)
  \/ \E k \in Asked(h) \cap {"rename", "cleanup"} : CloseHandle(h, k)
  \/ "rename" \in Kinds[h] /\ MirrorMoveFile(h)
  \/ "delete" \in Kinds[h] /\ MirrorDeleteFile(h)

Library(h) ==
  \/ \E k \in Asked(h) : Begin(h, k) \/ Answer(h, k)
  \/ Callback(h)
  \/ "rename" \in Kinds[h] /\ AnswerRename(h)
  \/ "delete" \in Kinds[h] /\ AnswerDelete(h)

Next ==
  \/ \E h \in Handles : Driver(h) \/ Library(h)
  \/ \E n \in Names : CreateOutside(n)

Spec == Init /\ [][Next]_vars

-----------------------------------------------------------------------------
(* Properties.                                                             *)

FcbNames    == Names \cup {Bare(n) : n \in Names} \cup {None}
IrpStates   == {"none", "pending", "done", "givenUp"}
EventStates == {"none", "queued", "begun", "closed", "ran", "done"}
Contexts    == {"null", "handle"}
Reasons     == {"bare", "late", "opening", "other file", "twice"}

\* The type of every variable; no two names have the same file.
TypeOK ==
  /\ fcb \in [Handles -> Handles \cup {None}] /\ fcbName \in [Handles -> FcbNames]
  /\ fcbUsers \in [Handles -> SUBSET Handles] /\ flag \in [Handles -> BOOLEAN]
  /\ irp \in [Handles -> [AllKinds -> IrpStates]] /\ event \in [Handles -> [AllKinds -> EventStates]]
  /\ name \in [Handles -> [AllKinds -> FcbNames]] /\ copy \in [Handles -> [AllKinds -> Contexts]]
  /\ failed \in [Handles -> [AllKinds -> BOOLEAN]]
  /\ target \in [Handles -> [to : Names \cup {None}, replace : BOOLEAN, bare : BOOLEAN]]
  /\ deletes \in [Handles -> BOOLEAN] /\ context \in [Handles -> Contexts]
  /\ disk \in [Names -> Files \cup {None}] /\ win32 \in [Handles -> Files \cup {None}]
  /\ \A m, n \in Names : disk[m] = disk[n] => m = n \/ disk[m] = None
  /\ pendingDelete \subseteq Files /\ outside \in BOOLEAN
  /\ own \in [Handles -> Files \cup {None}] /\ astray \in [Handles -> SUBSET Reasons]

\* When one callback of a handle follows the other, each gets the Win32 handle
\* in Context exactly as long as it is open, and none is left open at the end.
ContextSound ==
  \A h \in Handles : h \notin overlapped =>
    /\ \A k \in Asked(h) : event[h][k] = "begun" => (copy[h][k] = "handle" <=> win32[h] # None)
    /\ event[h]["close"] \in {"ran", "done"} => win32[h] = None

\* The name that the next event of a handle will carry is that of the file it
\* was opened on, as long as that file exists, except while a rename is on its
\* way, and after one of five things: a rename to a name without directory, a
\* rename the driver gave up, a rename during an open of the same name, a
\* rename that found another file under the old name, and a rename of a file
\* that has two FCBs, or that another rename has moved too and not answered.
NameCurrent ==
  \A h \in Handles : \A n \in Names :
    /\ Opened(h) /\ irp[h]["close"] = "none" /\ disk[n] = own[h] /\ disk[n] # None
    => fcbName[fcb[h]] = n \/ Renaming(h) \/ astray[fcb[h]] # {}

\* What a handle may expect of delete on close: no rename of its file crossed
\* the cleanup, its FCB has its name, and no two of its callbacks overlapped.
Undisturbed(h) == h \notin moved \cup overlapped /\ astray[fcb[h]] = {}

\* Delete on close deletes no file but the one that was opened, unless that one
\* was gone between the closing of the handle and the deleting, and another had
\* got its name.
DeletesOwnFile == \A h \in strayed : Undisturbed(h) => h \in outlived

\* It does delete that file, or sees to it that it goes with the last handle,
\* unless the directory refuses, or the file was renamed through the same
\* handle, which closed what the cleanup looks for, or the cleanup was given
\* up, so that the close may come before it.
DeleteDone ==
  \A h \in Handles :
    /\ event[h]["cleanup"] = "ran" /\ irp[h]["cleanup"] # "givenUp"
    /\ deletes[h] /\ h \notin refused /\ Undisturbed(h)
    /\ "rename" \in Kinds[h] => event[h]["rename"] = "none"
    => own[h] \in pendingDelete \/ \A n \in Names : disk[n] # own[h]

\* Delete on close does to the right file what it was asked for.
DeleteOnClose == DeletesOwnFile /\ DeleteDone

\* What dokan.h:94 asks of Cleanup: with DeleteOnClose it deletes the file, the
\* one that was opened.
DeletesTheFile == \A h \in strayed : ~Undisturbed(h)
=============================================================================
