------------------------------ MODULE OpenFiles ------------------------------
(***************************************************************************)
(* The life of an open file across the driver and the user library         *)
(* (dokanlib/sys: create.c, cleanup.c, read.c, dokan.c; dokanlib/dokan:    *)
(* create.c, cleanup.c, close.c, read.c).                                  *)
(*                                                                         *)
(* In the driver a file object has a context block (CCB), and the file     *)
(* objects with one name share a counted file block (FCB).  In the         *)
(* application it has a DOKAN_OPEN_INFO, which DispatchCreate allocates    *)
(* and DispatchClose frees; the driver keeps its address in                *)
(* ccb->UserContext and sends it along with every event.                   *)
(*                                                                         *)
(* The lists of IRPs and of events are in PendingIrp and EventDelivery:    *)
(* here an IRP is pending or done, an event queued, running or done.  The  *)
(* handlers of the operations between create and cleanup all have the      *)
(* shape of DokanDispatchRead and DispatchRead.                            *)
(***************************************************************************)
EXTENDS Naturals, FiniteSets

CONSTANTS
  Files,      \* file names
  Opens,      \* file objects: each is opened once
  Ops,        \* operations asked for with a file object, each once
  MaxMounts   \* bound: how many times the device is mounted

Mounts   == 1..MaxMounts
Requests == Ops \cup {"create", "cleanup", "close"}   \* IRP_MJ_...
None     == "none"

Stages      == {"new", "creating", "open", "failed", "cleaning", "cleaned", "closing", "closed"}
IrpStates   == {"none", "fcb", "checked", "pending", "allocated", "stale", "ccbFreed",
                "fcbFreed", "done"}
EventStates == {"none", "allocated", "queued", "running", "done", "failed", "dropped"}

ASSUME OpenFilesAssumption ==
  /\ MaxMounts \in Nat /\ IsFiniteSet(Opens)
  /\ Ops \cap {"create", "cleanup", "close"} = {}
  /\ None \notin Opens \cup Files

VARIABLES
  mounted,      \* DeviceExtension->Mounted
  mountId,      \* DeviceExtension->MountId
  listed,       \* Vcb->NextFCB: the FCB of each name; an FCB is known by the
                \* file object whose create allocated it
  fileCount,    \* FCB->FileCount
  fcb,          \* the FCB a file object has got; ccb->Fcb while it has a CCB
  ccb,          \* FsContext2: "none", "live" or "freed"
  ccbMount,     \* ccb->MountId
  userContext,  \* has ccb->UserContext the address of the DOKAN_OPEN_INFO?
  stage,        \* the file object, as the I/O manager sees it
  irp,          \* progress of each IRP through the driver
  event,        \* progress of its event through the application
  eventMount,   \* EventContext->MountId
  eventContext, \* has EventContext->Context the address?
  openInfo,     \* DOKAN_OPEN_INFO: "none", "live" or "freed"
  givenUp,      \* history: file objects of which the driver has finished an
                \* operation or a cleanup that the application had not answered
  crossed       \* history: file objects for which a mount has begun between
                \* the DokanCheckCCB (or DokanAllocateCCB) of a handler and
                \* its AllocateEventContext

mountVars == <<mounted, mountId>>
fcbVars   == <<listed, fileCount, fcb>>
ccbVars   == <<ccb, ccbMount, userContext>>
eventVars == <<event, eventMount, eventContext>>
history   == <<givenUp, crossed>>
vars == <<mountVars, fcbVars, ccbVars, stage, irp, eventVars, openInfo, history>>

Each(v) == [o \in Opens |-> [k \in Requests |-> v]]

Init ==
  /\ mounted = FALSE /\ mountId = 0
  /\ listed = [f \in Files |-> None] /\ fileCount = [x \in Opens |-> 0]
  /\ fcb = [o \in Opens |-> None]
  /\ ccb = [o \in Opens |-> "none"] /\ ccbMount = [o \in Opens |-> 0]
  /\ userContext = [o \in Opens |-> FALSE]
  /\ stage = [o \in Opens |-> "new"]
  /\ irp = Each("none") /\ event = Each("none")
  /\ eventMount = Each(0) /\ eventContext = Each(FALSE)
  /\ openInfo = [o \in Opens |-> "none"]
  /\ givenUp = {} /\ crossed = {}

-----------------------------------------------------------------------------
(* The mount, as far as open files see it.                                 *)

\* DokanEventStart.
EventStart ==
  /\ ~mounted /\ mountId < MaxMounts
  /\ mounted' = TRUE /\ mountId' = mountId + 1
  /\ crossed' = crossed \cup {o \in Opens : \E k \in Requests : irp[o][k] = "checked"}
  /\ UNCHANGED <<fcbVars, ccbVars, stage, irp, eventVars, openInfo, givenUp>>

\* DokanEventRelease clears Mounted before it releases the IRPs.
EventRelease ==
  /\ mounted /\ mounted' = FALSE
  /\ UNCHANGED <<mountId, fcbVars, ccbVars, stage, irp, eventVars, openInfo, history>>

DokanCheckCCB(o) ==
  /\ ccb[o] = "live"
  /\ ccbMount[o] = mountId
  /\ mounted

\* The I/O manager learns that an IRP is complete.  It sends no cleanup and
\* no close for a file object whose create failed.
NextStage(o, k, ok) ==
  CASE k = "create"  -> IF ok THEN "open" ELSE "failed"
    [] k = "cleanup" -> "cleaned"
    [] k = "close"   -> "closed"
    [] OTHER         -> stage[o]

CompleteRequest(o, k, ok) ==
  /\ irp' = [irp EXCEPT ![o][k] = "done"]
  /\ stage' = [stage EXCEPT ![o] = NextStage(o, k, ok)]

-----------------------------------------------------------------------------
(* FCBs and CCBs.                                                          *)

\* A slip: the count of a new FCB only.
GetFCBUncounted(o, f) ==
  /\ stage[o] = "new"
  /\ stage' = [stage EXCEPT ![o] = "creating"]
  /\ irp' = [irp EXCEPT ![o]["create"] = "fcb"]
  /\ IF listed[f] = None
     THEN /\ listed' = [listed EXCEPT ![f] = o] /\ fcb' = [fcb EXCEPT ![o] = o]
          /\ fileCount' = [fileCount EXCEPT ![o] = 1]
     ELSE /\ fcb' = [fcb EXCEPT ![o] = listed[f]] /\ UNCHANGED <<listed, fileCount>>
  /\ UNCHANGED <<mountVars, ccbVars, eventVars, openInfo, history>>

\* DokanDispatchCreate up to DokanGetFCB, which runs under the Resource of
\* the VCB: the FCB of that name, or a new one.
GetFCB(o, f) ==
  LET x == IF listed[f] = None THEN o ELSE listed[f] IN
  /\ stage[o] = "new"
  /\ stage' = [stage EXCEPT ![o] = "creating"]
  /\ irp' = [irp EXCEPT ![o]["create"] = "fcb"]
  /\ listed' = [listed EXCEPT ![f] = x]
  /\ fileCount' = [fileCount EXCEPT ![x] = @ + 1]
  /\ fcb' = [fcb EXCEPT ![o] = x]
  /\ UNCHANGED <<mountVars, ccbVars, eventVars, openInfo, history>>

AllocateCCB(o) ==
  /\ irp[o]["create"] = "fcb"
  /\ irp' = [irp EXCEPT ![o]["create"] = "checked"]
  /\ ccb' = [ccb EXCEPT ![o] = "live"]
  /\ ccbMount' = [ccbMount EXCEPT ![o] = mountId]
  /\ UNCHANGED <<mountVars, fcbVars, userContext, stage, eventVars, openInfo, history>>

\* DokanFreeFCB, also under that Resource.
FreeFCB(o) ==
  LET x    == fcb[o]
      last == fileCount[x] = 1
  IN
  /\ irp[o]["close"] = "ccbFreed"
  /\ fileCount' = [fileCount EXCEPT ![x] = @ - 1]
  /\ listed' = [f \in Files |-> IF last /\ listed[f] = x THEN None ELSE listed[f]]
  /\ fcb' = [fcb EXCEPT ![o] = None]
  /\ irp' = [irp EXCEPT ![o]["close"] = "fcbFreed"]
  /\ UNCHANGED <<mountVars, ccbVars, stage, eventVars, openInfo, history>>

-----------------------------------------------------------------------------
(* Dispatching an IRP.                                                     *)

\* AllocateEventContext, for a handler that goes on to register the IRP or,
\* when it is a close, to keep the event for later.
StampEvent(o, k, progress) ==
  /\ event' = [event EXCEPT ![o][k] = progress]
  /\ eventMount' = [eventMount EXCEPT ![o][k] = mountId]
  /\ eventContext' = [eventContext EXCEPT ![o][k] = userContext[o]]

\* DokanRegisterPendingIrp refuses the IRP of a device that is not mounted,
\* and the handler completes it.
RegisterPendingIrp(o, k) ==
  /\ irp[o][k] = "checked"
  /\ IF mounted
     THEN /\ StampEvent(o, k, "queued")
          /\ irp' = [irp EXCEPT ![o][k] = "pending"]
          /\ UNCHANGED stage
     ELSE /\ CompleteRequest(o, k, FALSE)
          /\ UNCHANGED eventVars
  /\ UNCHANGED <<mountVars, fcbVars, ccbVars, openInfo, history>>

\* The rest of DokanDispatchCreate.
SendCreate(o) == RegisterPendingIrp(o, "create")

\* DokanDispatchCleanup, when the last handle of the file object is closed,
\* also with operations in progress.
CheckCleanup(o) ==
  /\ stage[o] = "open" /\ irp[o]["cleanup"] = "none"
  /\ IF DokanCheckCCB(o)
     THEN /\ irp' = [irp EXCEPT ![o]["cleanup"] = "checked"]
          /\ stage' = [stage EXCEPT ![o] = "cleaning"]
     ELSE CompleteRequest(o, "cleanup", FALSE)
  /\ UNCHANGED <<mountVars, fcbVars, ccbVars, eventVars, openInfo, history>>

SendCleanup(o) == RegisterPendingIrp(o, "cleanup")

\* DokanDispatchRead and its like.  Paging operations come after the cleanup
\* too.
CheckOperation(o, k) ==
  /\ k \in Ops /\ irp[o][k] = "none"
  /\ stage[o] \in {"open", "cleaning", "cleaned"}
  /\ IF DokanCheckCCB(o)
     THEN irp' = [irp EXCEPT ![o][k] = "checked"] /\ UNCHANGED stage
     ELSE CompleteRequest(o, k, FALSE)
  /\ UNCHANGED <<mountVars, fcbVars, ccbVars, eventVars, openInfo, history>>

SendOperation(o, k) == k \in Ops /\ RegisterPendingIrp(o, k)

-----------------------------------------------------------------------------
(* Close, which is never pending: DokanDispatchClose.                      *)

\* The I/O manager closes a file object when no IRP refers to it any more.
CheckClose(o) ==
  /\ stage[o] = "cleaned" /\ irp[o]["close"] = "none"
  /\ \A k \in Ops : irp[o][k] \in {"none", "done"}
  /\ irp' = [irp EXCEPT ![o]["close"] = IF DokanCheckCCB(o) THEN "checked" ELSE "stale"]
  /\ stage' = [stage EXCEPT ![o] = "closing"]
  /\ UNCHANGED <<mountVars, fcbVars, ccbVars, eventVars, openInfo, history>>

AllocateClose(o) ==
  /\ irp[o]["close"] = "checked"
  /\ irp' = [irp EXCEPT ![o]["close"] = "allocated"]
  /\ StampEvent(o, "close", "allocated")
  /\ UNCHANGED <<mountVars, fcbVars, ccbVars, stage, openInfo, history>>

FreeCCB(o) ==
  /\ irp[o]["close"] \in {"allocated", "stale"}
  /\ irp' = [irp EXCEPT ![o]["close"] = "ccbFreed"]
  /\ ccb' = [ccb EXCEPT ![o] = "freed"]
  /\ UNCHANGED <<mountVars, fcbVars, ccbMount, userContext, stage, eventVars, openInfo,
                 history>>

\* A slip: the event of a close is allocated and never sent.
CompleteCloseSilently(o) ==
  /\ irp[o]["close"] = "fcbFreed"
  /\ event' = [event EXCEPT ![o]["close"] = "none"]
  /\ CompleteRequest(o, "close", TRUE)
  /\ UNCHANGED <<mountVars, fcbVars, ccbVars, eventMount, eventContext, openInfo, history>>

\* DokanEventNotification, mounted or not, if there is an event to send.
CompleteClose(o) ==
  /\ irp[o]["close"] = "fcbFreed"
  /\ event' = [event EXCEPT ![o]["close"] = IF @ = "allocated" THEN "queued" ELSE @]
  /\ CompleteRequest(o, "close", TRUE)
  /\ UNCHANGED <<mountVars, fcbVars, ccbVars, eventMount, eventContext, openInfo, history>>

-----------------------------------------------------------------------------
(* The application.                                                        *)

\* DokanLoop hands the event to the Dispatch function of its kind, which
\* calls the application; DispatchCreate first allocates the open info.
Begin(o, k) ==
  /\ event[o][k] = "queued"
  /\ event' = [event EXCEPT ![o][k] = "running"]
  /\ openInfo' = [openInfo EXCEPT ![o] = IF k = "create" THEN "live" ELSE @]
  /\ UNCHANGED <<mountVars, fcbVars, ccbVars, stage, irp, eventMount, eventContext, history>>

\* The loop of another mount drops the event: of a later one, or of an earlier
\* one whose wait came after the release (AddPendingWait of EventDelivery).
Drop(o, k) ==
  /\ event[o][k] = "queued" /\ \E m \in 1..mountId : m # eventMount[o][k]
  /\ event' = [event EXCEPT ![o][k] = "dropped"]
  /\ UNCHANGED <<mountVars, fcbVars, ccbVars, stage, irp, eventMount, eventContext,
                 openInfo, history>>

\* IOCTL_EVENT_INFO.  The IRP is completed if it is still pending, and every
\* DokanComplete... function stores the context of the answer, also when a
\* create failed: a create answers with its new open info, the others with the
\* context of their event.
Answer(o, k, ok) ==
  IF irp[o][k] = "pending"
  THEN /\ userContext' = [userContext EXCEPT ![o] = (k = "create") \/ eventContext[o][k]]
       /\ CompleteRequest(o, k, ok)
  ELSE UNCHANGED <<userContext, stage, irp>>

\* A slip: the status of the answer is not looked at.
FinishCreateAlways(o) ==
  /\ event[o]["create"] = "running"
  /\ \E ok \in BOOLEAN :
       event' = [event EXCEPT ![o]["create"] = IF ok THEN "done" ELSE "failed"]
  /\ Answer(o, "create", TRUE)
  /\ UNCHANGED <<mountVars, fcbVars, ccb, ccbMount, eventMount, eventContext, openInfo,
                 history>>

\* The callback of a create returns.
FinishCreate(o) ==
  /\ event[o]["create"] = "running"
  /\ \E ok \in BOOLEAN :
       /\ event' = [event EXCEPT ![o]["create"] = IF ok THEN "done" ELSE "failed"]
       /\ Answer(o, "create", ok)
  /\ UNCHANGED <<mountVars, fcbVars, ccb, ccbMount, eventMount, eventContext, openInfo,
                 history>>

\* The callback of an operation returns; openInfo->UserContext is written, and
\* the driver answered.
FinishOperation(o, k) ==
  /\ k \in Ops /\ event[o][k] = "running"
  /\ event' = [event EXCEPT ![o][k] = "done"]
  /\ Answer(o, k, TRUE)
  /\ UNCHANGED <<mountVars, fcbVars, ccb, ccbMount, eventMount, eventContext, openInfo,
                 history>>

\* A slip: Cleanup frees the open info already.
FinishCleanupFrees(o) ==
  /\ event[o]["cleanup"] = "running"
  /\ event' = [event EXCEPT ![o]["cleanup"] = "done"]
  /\ Answer(o, "cleanup", TRUE)
  /\ openInfo' = [openInfo EXCEPT ![o] = "freed"]
  /\ UNCHANGED <<mountVars, fcbVars, ccb, ccbMount, eventMount, eventContext, history>>

\* So does that of a cleanup.
FinishCleanup(o) ==
  /\ event[o]["cleanup"] = "running"
  /\ event' = [event EXCEPT ![o]["cleanup"] = "done"]
  /\ Answer(o, "cleanup", TRUE)
  /\ UNCHANGED <<mountVars, fcbVars, ccb, ccbMount, eventMount, eventContext, openInfo,
                 history>>

\* The callback of a close returns, and nothing is sent to the driver.
FinishClose(o) ==
  /\ event[o]["close"] = "running"
  /\ event' = [event EXCEPT ![o]["close"] = "done"]
  /\ openInfo' = [openInfo EXCEPT ![o] = "freed"]
  /\ UNCHANGED <<mountVars, fcbVars, ccbVars, stage, irp, eventMount, eventContext, history>>

-----------------------------------------------------------------------------
(* The driver finishes an IRP without an answer.                           *)

\* ReleaseTimeoutPendingIrp, or the cancel routine: a failure status.
GiveUp(o, k) ==
  /\ irp[o][k] = "pending"
  /\ CompleteRequest(o, k, FALSE)
  /\ givenUp' = givenUp \cup {p \in {o} : k # "create"}
  /\ UNCHANGED <<mountVars, fcbVars, ccbVars, eventVars, openInfo, crossed>>

\* ReleasePendingIrp: STATUS_SUCCESS.  An IRP it misses stays pending.
Release(o, k) ==
  /\ ~mounted /\ irp[o][k] = "pending"
  /\ CompleteRequest(o, k, TRUE)
  /\ UNCHANGED <<mountVars, fcbVars, ccbVars, eventVars, openInfo, history>>

-----------------------------------------------------------------------------
Driver(o) ==
  \/ \E f \in Files : GetFCB(o, f)
  \/ AllocateCCB(o) \/ SendCreate(o)
  \/ CheckCleanup(o) \/ SendCleanup(o)
  \/ \E k \in Ops : CheckOperation(o, k) \/ SendOperation(o, k)
  \/ CheckClose(o) \/ AllocateClose(o) \/ FreeCCB(o) \/ FreeFCB(o) \/ CompleteClose(o)
  \/ \E k \in Requests : GiveUp(o, k) \/ Release(o, k)

Application(o) ==
  \/ \E k \in Requests : Begin(o, k) \/ Drop(o, k)
  \/ \E k \in Ops : FinishOperation(o, k)
  \/ FinishCreate(o) \/ FinishCleanup(o) \/ FinishClose(o)

Next ==
  \/ EventStart \/ EventRelease
  \/ \E o \in Opens : Driver(o) \/ Application(o)

Spec == Init /\ [][Next]_vars

-----------------------------------------------------------------------------
(* Properties.                                                             *)

TypeOK ==
  /\ mounted \in BOOLEAN /\ mountId \in 0..MaxMounts
  /\ listed \in [Files -> Opens \cup {None}]
  /\ fileCount \in [Opens -> 0..Cardinality(Opens)]
  /\ fcb \in [Opens -> Opens \cup {None}]
  /\ ccb \in [Opens -> {"none", "live", "freed"}]
  /\ ccbMount \in [Opens -> 0..MaxMounts]
  /\ userContext \in [Opens -> BOOLEAN]
  /\ stage \in [Opens -> Stages]
  /\ irp \in [Opens -> [Requests -> IrpStates]]
  /\ event \in [Opens -> [Requests -> EventStates]]
  /\ eventMount \in [Opens -> [Requests -> 0..MaxMounts]]
  /\ eventContext \in [Opens -> [Requests -> BOOLEAN]]
  /\ openInfo \in [Opens -> {"none", "live", "freed"}]
  /\ givenUp \subseteq Opens /\ crossed \subseteq Opens

\* The FCB of every file object that still needs one is in the list of the
\* VCB, and its FileCount is the number of file objects that hold it: no FCB
\* is freed too early or twice, or given to a name after it was freed.
FcbShared ==
  /\ \A o \in Opens : fcb[o] # None => \E f \in Files : listed[f] = fcb[o]
  /\ \A f \in Files : listed[f] # None =>
       /\ fileCount[listed[f]] > 0
       /\ fileCount[listed[f]] = Cardinality({o \in Opens : fcb[o] = listed[f]})

\* A callback after create runs with the open info of its file object: the
\* event has its address, it is an address of the same process, and nobody has
\* freed it yet.  Only a request that was given up can have it freed too early,
\* and only a mount between a check and an event can carry it to another process.
ContextLive ==
  \A o \in Opens, k \in Requests \ {"create"} :
    event[o][k] = "running" =>
      /\ eventContext[o][k]
      /\ o \in givenUp \/ openInfo[o] = "live"
      /\ o \in crossed \/ eventMount[o][k] = eventMount[o]["create"]

\* When the driver has closed a file, in the mount that opened it, the open
\* info is freed or the event that will have it freed is on its way, unless a
\* loop that an earlier mount has left has taken that event.
InfoFreed ==
  \A o \in Opens :
    /\ stage[o] = "closed" /\ openInfo[o] = "live"
    /\ mounted /\ ccbMount[o] = mountId
    => event[o]["close"] \in {"queued", "running"} \cup {x \in {"dropped"} : mountId > 1}

\* The callbacks of an open file, as its application sees them.
Begun(o) == {k \in Requests : event[o][k] \in {"running", "done", "failed"}}

SessionCall  == [o \in Opens |-> [k \in Requests |->
                   IF k \in Begun(o) THEN event[o][k] ELSE "none"]]
SessionOwner == [o \in Opens |-> {eventMount[o][k] : k \in Begun(o)}]

Session == INSTANCE FileSession WITH call <- SessionCall, owner <- SessionOwner

\* A step of the session of a file that was given up or crossed, and of no other.
Disturbed ==
  \E o \in givenUp \cup crossed : \A p \in Opens \ {o} :
    SessionCall'[p] = SessionCall[p] /\ SessionOwner'[p] = SessionOwner[p]

\* The callbacks of a file come in the order of a session: create first,
\* close last with no other running, all in one application; but for a file
\* of which the driver has given up a request, or sent one over a remount.
RefinesSession == Session!Init /\ [][Session!Next \/ Disturbed]_(Session!sessionVars)
=============================================================================
