----------------------------- MODULE PendingIrp -----------------------------
(***************************************************************************)
(* The pending-IRP list of one Dokan device (dokanlib/sys: event.c,        *)
(* timeout.c, notification.c, write.c, read.c).                            *)
(*                                                                         *)
(* A file request enters the driver, is registered in                      *)
(* DeviceExtension->PendingIrp and stays there until one of five parties   *)
(* completes it: the user-mode answer (DokanCompleteIrp), the timeout      *)
(* thread, the release at unmount, the cancel routine, or the dispatch     *)
(* routine itself when it cannot be pended.  The parties share three       *)
(* things: the list and its spin lock, the IRP's cancel routine pointer    *)
(* (exchanged atomically by the I/O manager, NOT under the list lock), and *)
(* IRP_ENTRY, which the cancel routine finds through DriverContext without *)
(* taking the lock.                                                        *)
(*                                                                         *)
(* One IRP has at most one IRP_ENTRY, one serial number and one event, so  *)
(* the IRP's name stands for all of them.  An IRP is used once.  Reads     *)
(* stands for every request without a write buffer: create, cleanup,       *)
(* directory, query, set, lock and flush requests are pended by the same   *)
(* DokanRegisterPendingIrp call as a read.                                 *)
(***************************************************************************)
EXTENDS Naturals, Sequences, Lists

CONSTANTS
  Reads,            \* requests that carry no data to the file system
  SmallWrites,      \* writes whose data fits in the event (EVENT_CONTEXT_MAX_SIZE)
  BigWrites,        \* writes whose data the application fetches with EventWrite
  Cancellable,      \* the IRPs somebody may cancel with IoCancelIrp, at any
                    \* time: CancelIoEx does not wait for the dispatch routine
  TimeoutTicks,     \* DOKAN_IPR_PENDING_TIMEOUT in timer ticks
  MaxReleases,      \* bound: how many times the volume is unmounted
  MaxMounts         \* bound: how many times it is mounted

Irps == Reads \cup SmallWrites \cup BigWrites

ASSUME PendingIrpAssumption ==
  /\ Reads \cap SmallWrites = {}
  /\ Reads \cap BigWrites = {}
  /\ SmallWrites \cap BigWrites = {}
  /\ Cancellable \subseteq Irps
  /\ TimeoutTicks \in Nat \ {0}
  /\ MaxReleases \in Nat
  /\ MaxMounts \in Nat \ {0}

VARIABLES
  mounted,     \* DeviceExtension->Mounted # 0
  mounts,      \* EventStart calls that mounted (bounded by MaxMounts)
  releases,    \* EventRelease calls (bounded by MaxReleases)
  list,        \* PendingIrp.ListHead, oldest entry first
  lock,        \* who holds PendingIrp.ListLock
  phase,       \* how far each IRP's dispatch routine has come
  cancel,      \* Irp->Cancel
  armed,       \* Irp->CancelRoutine # NULL
  ctx,         \* DriverContext[DRIVER_CONTEXT_IRP_ENTRY] # NULL
  bufCtx,      \* DriverContext[DRIVER_CONTEXT_EVENT] # NULL
  mem,         \* the IRP_ENTRY: not allocated, live or freed
  entryIrp,    \* irpEntry->Irp # NULL
  freeMem,     \* irpEntry->CancelRoutineFreeMemory
  linked,      \* the entry's own links lead into the list
  age,         \* ticks since irpEntry->TickCount, saturating at TimeoutTicks
  taker,       \* who has moved the entry to a private list to complete it
  routine,     \* progress of DokanIrpCancelRoutine for the IRP
  event,       \* the EVENT_CONTEXT handed to DokanEventNotification
  user,        \* what the application has done with the event
  timeout,     \* progress of DokanTimeoutThread; "dead" when there is none
  release,     \* progress of DokanEventRelease
  completions, \* IoCompleteRequest calls for the IRP
  outcome,     \* the status it was completed with
  missed,      \* history: the IRPs whose cancel routine came before the
               \* registration had stored the pointer it looks for
  outrun,      \* history: the IRPs whose cancel routine unlinked the entry
               \* before their dispatch routine had returned
  rearmed      \* history: has IOCTL_EVENT_WRITE put a cancel routine back while
               \* it was running?

mountVars == <<mounted, mounts, releases>>
entryVars == <<mem, entryIrp, freeMem, linked, age, taker>>
irpVars   == <<cancel, armed, ctx, bufCtx, routine>>
doneVars  == <<completions, outcome>>
history   == <<missed, outrun, rearmed>>
vars == <<mountVars, list, lock, phase, irpVars, entryVars, event, user,
          timeout, release, doneVars, history>>

Phases   == {"idle", "entered", "allocated", "armed", "inserting", "listed",
             "notified", "returned"}
Outcomes == {"none", "rejected", "replied", "timedOut", "released", "cancelled"}

Writes == SmallWrites \cup BigWrites

-----------------------------------------------------------------------------
(* The list of pending IRPs.                                               *)

InList(i) == Occurs(i, list)

\* RemoveEntryList: nothing happens in the list when the entry's own links
\* lead back to itself (InitializeListHead).
RemoveEntryList(i) ==
  IF linked[i]
  THEN \E k \in 1..Len(list) : list[k] = i /\ list' = Without(list, k)
  ELSE list' = list

Complete(i, status) ==
  /\ completions' = [completions EXCEPT ![i] = @ + 1]
  /\ outcome' = [outcome EXCEPT ![i] = status]

-----------------------------------------------------------------------------
Init ==
  /\ mounted = TRUE /\ mounts = 1 /\ releases = 0
  /\ list = <<>> /\ lock = "free"
  /\ phase    = [i \in Irps |-> "idle"]
  /\ cancel   = [i \in Irps |-> FALSE]
  /\ armed    = [i \in Irps |-> FALSE]
  /\ ctx      = [i \in Irps |-> FALSE]
  /\ bufCtx   = [i \in Irps |-> FALSE]
  /\ routine  = [i \in Irps |-> "idle"]
  /\ mem      = [i \in Irps |-> "none"]
  /\ entryIrp = [i \in Irps |-> FALSE]
  /\ freeMem  = [i \in Irps |-> FALSE]
  /\ linked   = [i \in Irps |-> FALSE]
  /\ age      = [i \in Irps |-> 0]
  /\ taker    = [i \in Irps |-> "none"]
  /\ event    = [i \in Irps |-> "none"]
  /\ user     = [i \in Irps |-> "idle"]
  /\ timeout = "waiting" /\ release = "idle"
  /\ completions = [i \in Irps |-> 0]
  /\ outcome     = [i \in Irps |-> "none"]
  /\ missed = {} /\ outrun = {} /\ rearmed = FALSE

-----------------------------------------------------------------------------
(* The dispatch routine of a request, on the thread that issued it.        *)

\* DokanCheckCCB finds the volume unmounted: the request fails at once.
DispatchUnmounted(i) ==
  /\ phase[i] = "idle" /\ ~mounted
  /\ phase' = [phase EXCEPT ![i] = "returned"]
  /\ Complete(i, "rejected")
  /\ UNCHANGED <<history, mountVars, list, lock, irpVars, entryVars, event,
                 user, timeout, release>>

\* DokanCheckCCB passes and the event is allocated.  A small write stores the
\* event in DriverContext, a big one the separate buffer with the data.
Dispatch(i) ==
  /\ phase[i] = "idle" /\ mounted
  /\ phase'  = [phase EXCEPT ![i] = "entered"]
  /\ event'  = [event EXCEPT ![i] = "owned"]
  /\ bufCtx' = [bufCtx EXCEPT ![i] = i \in Writes]
  /\ UNCHANGED <<history, mountVars, list, lock, cancel, armed, ctx, routine,
                 entryVars, user, timeout, release, doneVars>>

\* RegisterPendingIrpMain returns without pending the IRP: the event is freed
\* (DokanRegisterPendingIrp), a small write clears its pointer to it, and the
\* dispatch routine completes the IRP.  The buffer of a big write stays.
GiveUp(i, status) ==
  /\ phase'  = [phase EXCEPT ![i] = "returned"]
  /\ event'  = [event EXCEPT ![i] = "freed"]
  /\ bufCtx' = [bufCtx EXCEPT ![i] = i \in BigWrites]
  /\ Complete(i, status)

\* The unlocked read of Mounted in RegisterPendingIrpMain finds it cleared
\* after DokanCheckCCB found it set.
RegisterUnmounted(i) ==
  /\ phase[i] = "entered" /\ ~mounted
  /\ GiveUp(i, "rejected")
  /\ UNCHANGED <<history, mountVars, list, lock, cancel, armed, ctx, routine,
                 entryVars, user, timeout, release>>

\* Mounted is set: IRP_ENTRY is allocated and filled in, its tick is taken.
RegisterAllocate(i) ==
  /\ phase[i] = "entered" /\ mounted
  /\ phase'    = [phase EXCEPT ![i] = "allocated"]
  /\ mem'      = [mem EXCEPT ![i] = "live"]
  /\ entryIrp' = [entryIrp EXCEPT ![i] = TRUE]
  /\ UNCHANGED <<history, mountVars, list, lock, irpVars, freeMem, linked, age,
                 taker, event, user, timeout, release, doneVars>>

\* The list lock is taken and the cancel routine set.
RegisterArm(i) ==
  /\ phase[i] = "allocated" /\ lock = "free"
  /\ lock'  = "register"
  /\ phase' = [phase EXCEPT ![i] = "armed"]
  /\ armed' = [armed EXCEPT ![i] = TRUE]
  /\ UNCHANGED <<history, mountVars, list, cancel, ctx, bufCtx, routine,
                 entryVars, event, user, timeout, release, doneVars>>

\* Irp->Cancel is set and the cancel routine could be taken back: the IRP is
\* not pended.
RegisterCancelled(i) ==
  /\ phase[i] = "armed" /\ cancel[i] /\ armed[i]
  /\ lock'  = "free"
  /\ armed' = [armed EXCEPT ![i] = FALSE]
  /\ mem'   = [mem EXCEPT ![i] = "freed"]
  /\ GiveUp(i, "cancelled")
  /\ UNCHANGED <<history, mountVars, list, cancel, ctx, routine, entryIrp,
                 freeMem, linked, age, taker, user, timeout, release>>

\* Irp->Cancel is clear, or it is set and the cancel routine is already
\* running: the code goes on in both cases.
RegisterGoOn(i) ==
  /\ phase[i] = "armed" /\ ~(cancel[i] /\ armed[i])
  /\ phase' = [phase EXCEPT ![i] = "inserting"]
  /\ UNCHANGED <<history, mountVars, list, lock, irpVars, entryVars, event,
                 user, timeout, release, doneVars>>

\* InsertTailList, the pointer for the cancel routine, and the lock released.
RegisterInsert(i) ==
  /\ phase[i] = "inserting"
  /\ lock'    = "free"
  /\ phase'   = [phase EXCEPT ![i] = "listed"]
  /\ list'    = Append(list, i)
  /\ linked'  = [linked EXCEPT ![i] = TRUE]
  /\ freeMem' = [freeMem EXCEPT ![i] = FALSE]
  /\ ctx'     = [ctx EXCEPT ![i] = TRUE]
  /\ UNCHANGED <<history, mountVars, cancel, armed, bufCtx, routine, mem,
                 entryIrp, age, taker, event, user, timeout, release, doneVars>>

\* DokanEventNotification queues the event.  A small write has one more
\* statement to run, every other dispatch routine returns STATUS_PENDING.
\* (A cancel routine that ran meanwhile has freed a small write's event.)
Notify(i) ==
  /\ phase[i] = "listed"
  /\ phase' = [phase EXCEPT ![i] = IF i \in SmallWrites THEN "notified"
                                                        ELSE "returned"]
  /\ event' = [event EXCEPT ![i] = IF @ = "owned" THEN "queued" ELSE "dangling"]
  /\ UNCHANGED <<history, mountVars, list, lock, irpVars, entryVars, user,
                 timeout, release, doneVars>>

\* A slip: the pointer is left in DriverContext.
ClearEventPointerForgets(i) ==
  /\ phase[i] = "notified"
  /\ phase'  = [phase EXCEPT ![i] = "returned"]
  /\ UNCHANGED <<history, mountVars, list, lock, irpVars, entryVars, event,
                 user, timeout, release, doneVars>>

\* DokanDispatchWrite: "EventContext is no longer valid, clears it".
ClearEventPointer(i) ==
  /\ phase[i] = "notified"
  /\ phase'  = [phase EXCEPT ![i] = "returned"]
  /\ bufCtx' = [bufCtx EXCEPT ![i] = FALSE]
  /\ UNCHANGED <<history, mountVars, list, lock, cancel, armed, ctx, routine,
                 entryVars, event, user, timeout, release, doneVars>>

-----------------------------------------------------------------------------
(* Cancellation: IoCancelIrp of the I/O manager and the driver's routine.  *)

\* The I/O manager sets Irp->Cancel and takes the cancel routine, if any, in
\* one exchange.  An IRP that has been completed is no longer cancelled.
IoCancelIrp(i) ==
  /\ i \in Cancellable /\ completions[i] = 0 /\ ~(cancel[i] /\ ~armed[i])
  /\ cancel' = [cancel EXCEPT ![i] = TRUE]
  /\ armed'  = [armed EXCEPT ![i] = FALSE]
  /\ routine' = [routine EXCEPT ![i] = IF armed[i] THEN "entered" ELSE @]
  /\ UNCHANGED <<history, mountVars, list, lock, phase, ctx, bufCtx, entryVars,
                 event, user, timeout, release, doneVars>>

\* DriverContext is read before any lock is taken.
CancelReadContext(i) ==
  /\ routine[i] = "entered"
  /\ routine' = [routine EXCEPT ![i] = IF ctx[i] THEN "locking" ELSE "completing"]
  /\ missed' = IF ctx[i] THEN missed ELSE missed \cup {i}
  /\ UNCHANGED <<outrun, rearmed, mountVars, list, lock, phase, cancel, armed,
                 ctx, bufCtx, entryVars, event, user, timeout, release, doneVars>>

\* What freeing the event through DriverContext does to it.
FreedByCancel(e) ==
  CASE e = "queued" -> "dangling"      \* still linked in NotifyEvent
    [] e = "freed"  -> "doubleFreed"   \* the notification loop freed it
    [] OTHER        -> "freed"

\* Under the list lock: unlink, free a write's buffer, and free the entry only
\* when somebody who met it first has asked for it.
CancelUnlink(i) ==
  /\ routine[i] = "locking" /\ lock = "free"
  /\ routine' = [routine EXCEPT ![i] = "completing"]
  /\ RemoveEntryList(i)
  /\ entryIrp' = [entryIrp EXCEPT ![i] = FALSE]
  /\ mem'    = [mem EXCEPT ![i] = IF freeMem[i] THEN "freed" ELSE @]
  /\ linked' = [linked EXCEPT ![i] = FALSE]
  /\ ctx'    = [ctx EXCEPT ![i] = FALSE]
  /\ bufCtx' = [bufCtx EXCEPT ![i] = FALSE]
  /\ event'  = [event EXCEPT ![i] =
                  IF i \in SmallWrites /\ bufCtx[i] THEN FreedByCancel(@) ELSE @]
  /\ outrun' = IF phase[i] = "returned" THEN outrun ELSE outrun \cup {i}
  /\ UNCHANGED <<missed, rearmed, mountVars, lock, phase, cancel, armed,
                 freeMem, age, taker, user, timeout, release, doneVars>>

CancelComplete(i) ==
  /\ routine[i] = "completing"
  /\ routine' = [routine EXCEPT ![i] = "idle"]
  /\ Complete(i, "cancelled")
  /\ UNCHANGED <<history, mountVars, list, lock, phase, cancel, armed, ctx,
                 bufCtx, entryVars, event, user, timeout, release>>

-----------------------------------------------------------------------------
(* What DokanCompleteIrp, ReleaseTimeoutPendingIrp and ReleasePendingIrp   *)
(* do, under the lock, with an entry they have just unlinked.              *)

\* Variants of TakeEntry with a slip: ... the result of IoSetCancelRoutine is
\* not looked at,
TakeEntryIgnoresCancel(i, who, clear) ==
  /\ linked' = [linked EXCEPT ![i] = FALSE]
  /\ armed'  = [armed EXCEPT ![i] = FALSE]
  /\ ctx'    = [ctx EXCEPT ![i] = @ /\ ~clear]
  /\ taker'  = [taker EXCEPT ![i] = who]
  /\ UNCHANGED <<mem, freeMem>>

\* the cancel routine is not taken back,
TakeEntryLeavesArmed(i, who, clear) ==
  /\ linked' = [linked EXCEPT ![i] = FALSE]
  /\ taker'  = [taker EXCEPT ![i] = IF armed[i] THEN who ELSE @]
  /\ freeMem' = [freeMem EXCEPT ![i] = @ \/ ~armed[i]]
  /\ UNCHANGED <<mem, armed, ctx>>

\* DriverContext is cleared before the cancel routine is taken back,
TakeEntryClearsFirst(i, who, clear) ==
  /\ linked' = [linked EXCEPT ![i] = FALSE]
  /\ freeMem' = [freeMem EXCEPT ![i] = @ \/ ~armed[i]]
  /\ armed'  = [armed EXCEPT ![i] = FALSE]
  /\ ctx'    = [ctx EXCEPT ![i] = FALSE]
  /\ taker'  = [taker EXCEPT ![i] = IF armed[i] THEN who ELSE @]
  /\ UNCHANGED mem

\* an entry whose cancel routine is running is freed at once.
TakeEntryFreesNow(i, who, clear) ==
  /\ linked' = [linked EXCEPT ![i] = FALSE]
  /\ mem'    = [mem EXCEPT ![i] = IF armed[i] THEN @ ELSE "freed"]
  /\ armed'  = [armed EXCEPT ![i] = FALSE]
  /\ ctx'    = [ctx EXCEPT ![i] = @ /\ ~(armed[i] /\ clear)]
  /\ taker'  = [taker EXCEPT ![i] = IF armed[i] THEN who ELSE @]
  /\ UNCHANGED freeMem

\* entry->Irp == NULL: already cancelled, free the entry.  No cancel routine
\* to take back: it is running, let it free the entry.  Otherwise the caller
\* owns the IRP.  clear: the caller also clears DriverContext.
TakeEntry(i, who, clear) ==
  LET ours    == entryIrp[i] /\ armed[i]
      handOff == entryIrp[i] /\ ~armed[i]
  IN /\ mem'     = [mem EXCEPT ![i] = IF entryIrp[i] THEN @ ELSE "freed"]
     /\ linked'  = [linked EXCEPT ![i] = FALSE]
     /\ freeMem' = [freeMem EXCEPT ![i] = @ \/ handOff]
     /\ armed'   = [armed EXCEPT ![i] = FALSE]
     /\ ctx'     = [ctx EXCEPT ![i] = @ /\ ~(ours /\ clear)]
     /\ taker'   = [taker EXCEPT ![i] = IF ours THEN who ELSE @]

\* The private list is drained: free the entry, complete the IRP.
FinishEntry(i, status) ==
  /\ taker' = [taker EXCEPT ![i] = "none"]
  /\ mem'   = [mem EXCEPT ![i] = "freed"]
  /\ Complete(i, status)

-----------------------------------------------------------------------------
(* The application's side: DokanLoop and the dispatch functions of the     *)
(* user library, seen through the IOCTLs they send.                        *)

\* NotificationLoop copies the event to a waiting DokanLoop thread and frees it.
Deliver(i) ==
  /\ event[i] = "queued"
  /\ event' = [event EXCEPT ![i] = "freed"]
  /\ user'  = [user EXCEPT ![i] = "got"]
  /\ UNCHANGED <<history, mountVars, list, lock, phase, irpVars, entryVars,
                 timeout, release, doneVars>>

\* IOCTL_EVENT_WRITE: the data of a big write is copied out and its buffer
\* freed.  IoSetCancelRoutine puts the routine back whatever it returns, and
\* an entry whose cancel routine is running is left in the list, its own links
\* cut.
DokanEventWrite(i) ==
  /\ i \in BigWrites /\ user[i] = "got" /\ lock = "free"
  /\ user' = [user EXCEPT ![i] = "fetched"]
  /\ rearmed' = (rearmed \/ (InList(i) /\ entryIrp[i] /\ ~armed[i]))
  /\ IF ~InList(i)
     THEN UNCHANGED <<armed, bufCtx, linked, freeMem, mem>>
     ELSE LET live    == entryIrp[i] /\ armed[i]
              handOff == entryIrp[i] /\ ~armed[i]
          IN /\ mem'     = [mem EXCEPT ![i] = IF entryIrp[i] THEN @ ELSE "freed"]
             /\ armed'   = [armed EXCEPT ![i] = entryIrp[i]]
             /\ linked'  = [linked EXCEPT ![i] = @ /\ ~handOff]
             /\ freeMem' = [freeMem EXCEPT ![i] = @ \/ handOff]
             /\ bufCtx'  = [bufCtx EXCEPT ![i] = @ /\ ~live]
  /\ UNCHANGED <<missed, outrun, mountVars, list, lock, phase, cancel, ctx,
                 routine, entryIrp, age, taker, event, timeout, release,
                 doneVars>>

\* A slip: any pending entry is taken for the answered one.
DokanCompleteIrpAny(i) ==
  /\ user[i] = (IF i \in BigWrites THEN "fetched" ELSE "got") /\ lock = "free"
  /\ user' = [user EXCEPT ![i] = "answered"]
  /\ list # <<>> /\ list' = Without(list, 1)
  /\ TakeEntry(Head(list), "reply", TRUE)
  /\ UNCHANGED <<history, mountVars, lock, phase, cancel, bufCtx, routine,
                 entryIrp, age, event, timeout, release, doneVars>>

\* IOCTL_EVENT_INFO with the serial number of the event: an answer that finds
\* no entry is accepted and ignored.
DokanCompleteIrp(i) ==
  /\ user[i] = (IF i \in BigWrites THEN "fetched" ELSE "got") /\ lock = "free"
  /\ user' = [user EXCEPT ![i] = "answered"]
  /\ IF InList(i)
     THEN /\ RemoveEntryList(i)
          /\ TakeEntry(i, "reply", TRUE)
     ELSE UNCHANGED <<list, mem, linked, freeMem, armed, ctx, taker>>
  /\ UNCHANGED <<history, mountVars, lock, phase, cancel, bufCtx, routine,
                 entryIrp, age, event, timeout, release, doneVars>>

\* DokanCompleteRead and its siblings, after the lock has been released.
CompleteReply(i) ==
  /\ taker[i] = "reply"
  /\ FinishEntry(i, "replied")
  /\ UNCHANGED <<history, mountVars, list, lock, phase, irpVars, entryIrp,
                 freeMem, linked, age, event, user, timeout, release>>

-----------------------------------------------------------------------------
(* DokanTimeoutThread.                                                     *)

\* Time passes for every entry at once; a sweep reads the clock once, so it
\* does not pass during a sweep.
Tick ==
  /\ timeout # "sweeping"
  /\ \E i \in Irps : mem[i] = "live" /\ age[i] < TimeoutTicks
  /\ age' = [i \in Irps |-> IF mem[i] = "live" /\ age[i] < TimeoutTicks
                            THEN age[i] + 1 ELSE age[i]]
  /\ UNCHANGED <<history, mountVars, list, lock, phase, irpVars, mem, entryIrp,
                 freeMem, linked, taker, event, user, timeout, release, doneVars>>

\* The timer fires: ReleaseTimeoutPendingIrp takes the lock of a list that is
\* not empty.
TimeoutSweep ==
  /\ timeout = "waiting" /\ lock = "free" /\ list # <<>>
  /\ timeout' = "sweeping" /\ lock' = "timeout"
  /\ UNCHANGED <<history, mountVars, list, phase, irpVars, entryVars, event,
                 user, release, doneVars>>

TimedOut(i) == age[i] >= TimeoutTicks

\* One iteration: the oldest entry has timed out.
TimeoutTake(i) ==
  /\ timeout = "sweeping" /\ list # <<>> /\ i = Head(list) /\ TimedOut(i)
  /\ RemoveEntryList(i)
  /\ TakeEntry(i, "timeout", TRUE)
  /\ UNCHANGED <<history, mountVars, lock, phase, cancel, bufCtx, routine,
                 entryIrp, age, event, user, timeout, release, doneVars>>

\* The first entry that has not timed out ends the sweep.
TimeoutUnlock ==
  /\ timeout = "sweeping"
  /\ list # <<>> => ~TimedOut(Head(list))
  /\ timeout' = "completing" /\ lock' = "free"
  /\ UNCHANGED <<history, mountVars, list, phase, irpVars, entryVars, event,
                 user, release, doneVars>>

TimeoutComplete(i) ==
  /\ timeout = "completing" /\ taker[i] = "timeout"
  /\ FinishEntry(i, "timedOut")
  /\ UNCHANGED <<history, mountVars, list, lock, phase, irpVars, entryIrp,
                 freeMem, linked, age, event, user, timeout, release>>

\* A slip: the thread ends after its first sweep.
TimeoutDoneStops ==
  /\ timeout = "completing" /\ \A i \in Irps : taker[i] # "timeout"
  /\ timeout' = "dead"
  /\ UNCHANGED <<history, mountVars, list, lock, phase, irpVars, entryVars,
                 event, user, release, doneVars>>

TimeoutDone ==
  /\ timeout = "completing" /\ \A i \in Irps : taker[i] # "timeout"
  /\ timeout' = "waiting"
  /\ UNCHANGED <<history, mountVars, list, lock, phase, irpVars, entryVars,
                 event, user, release, doneVars>>

-----------------------------------------------------------------------------
(* Unmount (DokanEventRelease) and mount (DokanEventStart).                *)

\* Mounted is cleared without any lock.
EventRelease ==
  /\ release = "idle" /\ mounted /\ releases < MaxReleases
  /\ mounted' = FALSE /\ releases' = releases + 1
  /\ release' = "unmounted"
  /\ UNCHANGED <<history, mounts, list, lock, phase, irpVars, entryVars, event,
                 user, timeout, doneVars>>

\* ReleasePendingIrp(&PendingIrp) takes the list lock,
ReleaseSweep ==
  /\ release = "unmounted" /\ lock = "free"
  /\ release' = "sweeping" /\ lock' = "release"
  /\ UNCHANGED <<history, mountVars, list, phase, irpVars, entryVars, event,
                 user, timeout, doneVars>>

\* takes entry after entry from the head,
ReleaseTake(i) ==
  /\ release = "sweeping" /\ list # <<>> /\ i = Head(list)
  /\ RemoveEntryList(i)
  /\ TakeEntry(i, "release", FALSE)
  /\ UNCHANGED <<history, mountVars, lock, phase, cancel, bufCtx, routine,
                 entryIrp, age, event, user, timeout, release, doneVars>>

\* releases the lock of the empty list,
ReleaseUnlock ==
  /\ release = "sweeping" /\ list = <<>>
  /\ release' = "completing" /\ lock' = "free"
  /\ UNCHANGED <<history, mountVars, list, phase, irpVars, entryVars, event,
                 user, timeout, doneVars>>

\* and completes what it has taken.
ReleaseComplete(i) ==
  /\ release = "completing" /\ taker[i] = "release"
  /\ FinishEntry(i, "released")
  /\ UNCHANGED <<history, mountVars, list, lock, phase, irpVars, entryIrp,
                 freeMem, linked, age, event, user, timeout, release>>

\* DokanStopCheckThread: KillEvent is set and the thread waited for; the
\* thread looks at KillEvent only between two sweeps.
ReleaseStopThread ==
  /\ release = "completing" /\ \A i \in Irps : taker[i] # "release"
  /\ timeout = "waiting"
  /\ timeout' = "dead" /\ release' = "idle"
  /\ UNCHANGED <<history, mountVars, list, lock, phase, irpVars, entryVars,
                 event, user, doneVars>>

\* DokanEventStart: only a device that is not mounted is mounted, and a new
\* timeout thread is started.  A mount that overlaps a release is left to
\* the model of the device threads.
EventStart ==
  /\ ~mounted /\ release = "idle" /\ mounts < MaxMounts
  /\ mounted' = TRUE /\ mounts' = mounts + 1
  /\ timeout' = "waiting"
  /\ UNCHANGED <<history, releases, list, lock, phase, irpVars, entryVars,
                 event, user, release, doneVars>>

-----------------------------------------------------------------------------
RequestThread(i) ==
  \/ DispatchUnmounted(i) \/ Dispatch(i) \/ RegisterUnmounted(i)
  \/ RegisterAllocate(i) \/ RegisterArm(i) \/ RegisterCancelled(i)
  \/ RegisterGoOn(i) \/ RegisterInsert(i) \/ Notify(i) \/ ClearEventPointer(i)

CancelRoutine(i) == CancelReadContext(i) \/ CancelUnlink(i) \/ CancelComplete(i)

Application(i) == Deliver(i) \/ DokanEventWrite(i) \/ DokanCompleteIrp(i)

TimeoutThread ==
  \/ TimeoutSweep \/ TimeoutUnlock \/ TimeoutDone
  \/ \E i \in Irps : TimeoutTake(i) \/ TimeoutComplete(i)

ReleaseThread ==
  \/ ReleaseSweep \/ ReleaseUnlock \/ ReleaseStopThread
  \/ \E i \in Irps : ReleaseTake(i) \/ ReleaseComplete(i)

Next ==
  \/ \E i \in Irps : RequestThread(i)
  \/ \E i \in Irps : IoCancelIrp(i) \/ CancelRoutine(i)
  \/ \E i \in Irps : Application(i) \/ CompleteReply(i)
  \/ Tick \/ TimeoutThread
  \/ EventRelease \/ ReleaseThread \/ EventStart

Spec == Init /\ [][Next]_vars

\* The scheduler runs every thread that can run, a spinner eventually gets the
\* spin lock, and time passes.  Nobody promises that the application answers,
\* that an IRP is issued or cancelled, or that the volume is unmounted.
Fairness ==
  /\ \A i \in Irps : /\ WF_vars(phase[i] # "idle" /\ RequestThread(i))
                     /\ SF_vars(RegisterArm(i))
                     /\ WF_vars(CancelRoutine(i))
                     /\ SF_vars(CancelUnlink(i))
                     /\ WF_vars(CompleteReply(i))
  /\ SF_vars(Tick) /\ SF_vars(TimeoutSweep) /\ WF_vars(TimeoutThread)
  /\ SF_vars(ReleaseSweep) /\ WF_vars(ReleaseThread)

FairSpec == Spec /\ Fairness

-----------------------------------------------------------------------------
\* Every field keeps to the values the code gives it; among them, an IRP is
\* completed with a final status, never with STATUS_PENDING.
TypeOK ==
  /\ mounted \in BOOLEAN /\ mounts \in Nat /\ releases \in Nat
  /\ list \in Seq(Irps)
  /\ lock \in {"free", "register", "timeout", "release"}
  /\ phase \in [Irps -> Phases]
  /\ cancel \in [Irps -> BOOLEAN] /\ armed \in [Irps -> BOOLEAN]
  /\ ctx \in [Irps -> BOOLEAN] /\ bufCtx \in [Irps -> BOOLEAN]
  /\ routine \in [Irps -> {"idle", "entered", "locking", "completing"}]
  /\ mem \in [Irps -> {"none", "live", "freed"}]
  /\ entryIrp \in [Irps -> BOOLEAN] /\ freeMem \in [Irps -> BOOLEAN]
  /\ linked \in [Irps -> BOOLEAN]
  /\ age \in [Irps -> 0..TimeoutTicks]
  /\ taker \in [Irps -> {"none", "reply", "timeout", "release"}]
  /\ event \in [Irps -> {"none", "owned", "queued", "freed", "dangling", "doubleFreed"}]
  /\ user \in [Irps -> {"idle", "got", "fetched", "answered"}]
  /\ timeout \in {"dead", "waiting", "sweeping", "completing"}
  /\ release \in {"idle", "unmounted", "sweeping", "completing"}
  /\ completions \in [Irps -> Nat]
  /\ outcome \in [Irps -> Outcomes]
  /\ missed \subseteq Irps /\ outrun \subseteq Irps /\ rearmed \in BOOLEAN

-----------------------------------------------------------------------------
(* Properties.                                                             *)

\* Once IOCTL_EVENT_WRITE has put a cancel routine back while it was running,
\* the list leads to an entry that routine frees, and nothing can be said of the
\* list any more: the properties that follow speak of the time before that, and
\* CancelRoutineNotTwice says what comes of it.

\* The parties that still have to complete IRP i, or have done so.  A dispatch
\* routine that finds the cancel routine gone goes on registering the IRP, but
\* completes it no more.
Holders(i) ==
  {h \in {"dispatch", "list", "cancel", "taker", "done"} :
     \/ /\ h = "dispatch"
        /\ \/ phase[i] \in {"idle", "entered", "allocated"}
           \/ phase[i] \in {"armed", "inserting"} /\ armed[i]
     \/ h = "list"     /\ InList(i) /\ armed[i]
     \/ h = "cancel"   /\ routine[i] # "idle"
     \/ h = "taker"    /\ taker[i] # "none"
     \/ h = "done"     /\ completions[i] > 0}

\* At every moment exactly one party answers for an IRP: its dispatch routine,
\* the list with the cancel routine still in place, the running cancel routine,
\* or the thread that took it off the list.  No IRP is lost (nobody completes
\* it) and none is completed twice, whatever the order of answer, timeout,
\* release and cancellation.
OneHolder == ~rearmed => \A i \in Irps : \E h \in Holders(i) : Holders(i) = {h}

\* IoCompleteRequest is called at most once for an IRP.
CompletedOnce == ~rearmed => \A i \in Irps : completions[i] <= 1

\* The same without the reservation: "Clear it to prevent to be completed by
\* CancelRoutine twice" (event.c, timeout.c).
CancelRoutineNotTwice == \A i \in Irps : completions[i] <= 1

\* An entry handed over to the cancel routine is off the list, and that routine
\* has still to reach the lock, to unlink and free it.
HandedOver(i) ==
  freeMem[i] /\ mem[i] = "live" =>
     ~InList(i) /\ (routine[i] = "locking" \/ (routine[i] = "entered" /\ ctx[i]))

\* Whoever meets a running cancel routine may leave the entry to it, unless the
\* routine came before the registration had stored the pointer it reads.
HandOver == ~rearmed => \A i \in Irps \ missed : HandedOver(i)

\* The same of every IRP: "Cancel routine will run as soon as we release the
\* lock" (event.c, timeout.c, notification.c).
CancelRoutineWillRun == \A i \in Irps : HandedOver(i)

\* Nobody can reach a freed IRP_ENTRY: not through the list, not through a
\* private list, not through DriverContext from the cancel routine; and no
\* entry is linked twice.
NoDanglingEntry ==
  ~rearmed =>
     /\ \A i \in Irps :
          InList(i) \/ taker[i] # "none" \/ routine[i] = "locking"
             \/ (routine[i] = "entered" /\ ctx[i]) => mem[i] = "live"
     /\ Distinct(list)

EventValid(i) == event[i] \notin {"dangling", "doubleFreed"}

\* The event of a small write is freed once, by the notification loop or on
\* the way out of a failed registration, and never by the cancel routine while
\* NotifyEvent still holds it, unless that routine unlinked the entry before the
\* dispatch routine had cleared its pointer to the event.
EventFreedOnce == ~rearmed => \A i \in Irps \ outrun : EventValid(i)

\* The same of every write: "EventContext is no longer valid, clears it"
\* (write.c) in time for nobody to use the pointer.
EventPointerCleared == \A i \in Irps : EventValid(i)

\* A pended IRP is completed in the end, answered or not, cancelled or not:
\* the timeout thread sees to it as long as the volume stays mounted.
PendedCompletes ==
  \A i \in Irps : (phase[i] \in {"listed", "notified"}) ~> (completions[i] = 1)

\* What the issuer of a request may rely on: RequestService.
Request(i) == IF outcome[i] # "none" THEN outcome[i]
              ELSE IF phase[i] = "idle" THEN "new" ELSE "open"

Service == INSTANCE RequestService WITH
  Requests  <- Irps,
  request   <- [i \in Irps |-> Request(i)],
  cancelled <- {i \in Irps : cancel[i]},
  answered  <- {i \in Irps : user[i] = "answered"},
  unmounted <- releases > 0

\* Every step is one of RequestService or invisible, up to the first step that
\* puts a running cancel routine back.
RefinesService == Service!Init /\ [][rearmed' \/ Service!Next]_Service!serviceVars
=============================================================================
