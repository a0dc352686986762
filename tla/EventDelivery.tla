--------------------------- MODULE EventDelivery ---------------------------
(***************************************************************************)
(* How events reach the file system application (dokanlib/sys:             *)
(* notification.c, event.c; dokanlib/dokan: DokanLoop of dokan.c).         *)
(*                                                                         *)
(* Two lists meet in the notification thread of the device: NotifyEvent,   *)
(* the events nobody has fetched, and PendingEvent, the IOCTL_EVENT_WAIT   *)
(* IRPs of the DokanLoop threads that wait for one.  Each list has a spin  *)
(* lock and a manual-reset event NotEmpty; the thread sleeps on the two    *)
(* NotEmpty events and on ReleaseEvent, and pairs the lists with both      *)
(* locks held.  Neither list belongs to one mount of the device: events    *)
(* and waiting threads of an unmounted instance may meet those of the next *)
(* one, and only DokanLoop compares the mount identifiers.                 *)
(*                                                                         *)
(* A loop thread <<m, n>> is the n-th DokanLoop thread of the m-th mount;  *)
(* its one outstanding IOCTL_EVENT_WAIT IRP has its name.                  *)
(***************************************************************************)
EXTENDS Naturals, Sequences, FiniteSets, Lists

CONSTANTS
  Events,       \* the events to deliver
  Long,         \* those longer than the buffer of DokanLoop
  NoEvent,      \* what a wait that ends without an event returns
  ThreadCount,  \* DokanOptions->ThreadCount
  MaxMounts,    \* bound: how many times the device is mounted
  Kills         \* may loop threads be terminated while they wait?

Loops == (1..MaxMounts) \X (1..ThreadCount)
Instance(t) == t[1]

ASSUME EventDeliveryAssumption ==
  /\ Long \subseteq Events /\ NoEvent \notin Events
  /\ ThreadCount \in Nat \ {0} /\ MaxMounts \in Nat \ {0}
  /\ Kills \in BOOLEAN

VARIABLES
  mounted,     \* DeviceExtension->Mounted # 0
  mountId,     \* DeviceExtension->MountId
  notify,      \* NotifyEvent.ListHead
  notifySet,   \* NotifyEvent.NotEmpty
  posting,     \* events inserted whose sender has yet to set NotEmpty
  pending,     \* PendingEvent.ListHead
  pendingSet,  \* PendingEvent.NotEmpty
  armed,       \* the waits whose cancel routine is in place
  canceled,    \* the waits whose cancel routine has been called and not run
  worker,      \* progress of NotificationThread; "none" when there is none
  releaseSet,  \* DeviceExtension->ReleaseEvent
  completing,  \* completeList of NotificationLoop
  release,     \* progress of DokanEventRelease
  released,    \* completeList of ReleasePendingIrp(PendingEvent)
  loop,        \* progress of each DokanLoop thread
  got,         \* the event in the buffer of a loop thread
  failed,      \* the waits completed with STATUS_INSUFFICIENT_RESOURCES
  fate,        \* what has become of each event
  eventMount   \* EventContext->MountId

queueVars  == <<notify, notifySet, posting>>
waitVars   == <<pending, pendingSet, armed, canceled>>
workerVars == <<worker, releaseSet, completing>>
mountVars  == <<mounted, mountId, release, released>>
loopVars   == <<loop, got, failed>>
eventVars  == <<fate, eventMount>>
vars == <<mountVars, queueVars, waitVars, workerVars, loopVars, eventVars>>

Init ==
  /\ mounted = FALSE /\ mountId = 0 /\ release = "idle" /\ released = {}
  /\ notify = <<>> /\ notifySet = FALSE /\ posting = {}
  /\ pending = <<>> /\ pendingSet = FALSE /\ armed = {} /\ canceled = {}
  /\ worker = "none" /\ releaseSet = FALSE /\ completing = <<>>
  /\ loop = [t \in Loops |-> "unborn"]
  /\ got = [t \in Loops |-> NoEvent] /\ failed = {}
  /\ fate = [e \in Events |-> "new"]
  /\ eventMount = [e \in Events |-> 0]

\* The spin locks of both lists are held by NotificationLoop.
Locked == worker = "pairing"

-----------------------------------------------------------------------------
(* Events: a dispatch routine allocates one, pends its IRP and sends it.   *)

\* AllocateEventContext stamps the event with the current MountId.
AllocateEventContext(e) ==
  /\ fate[e] = "new" /\ mounted
  /\ fate' = [fate EXCEPT ![e] = "allocated"]
  /\ eventMount' = [eventMount EXCEPT ![e] = mountId]
  /\ UNCHANGED <<mountVars, queueVars, waitVars, workerVars, loopVars>>

\* DokanEventNotification: ExInterlockedInsertTailList,
InsertEvent(e) ==
  /\ fate[e] = "allocated" /\ ~Locked
  /\ fate' = [fate EXCEPT ![e] = "queued"]
  /\ notify' = Append(notify, e)
  /\ posting' = posting \cup {e}
  /\ UNCHANGED <<mountVars, notifySet, waitVars, workerVars, loopVars, eventMount>>

\* then, without the lock, KeSetEvent.
SetNotEmpty(e) ==
  /\ e \in posting
  /\ posting' = posting \ {e} /\ notifySet' = TRUE
  /\ UNCHANGED <<mountVars, notify, waitVars, workerVars, loopVars, eventVars>>

-----------------------------------------------------------------------------
(* DokanLoop.                                                              *)

\* IOCTL_EVENT_WAIT: RegisterPendingIrpMain looks at Mounted without a lock.
\* The thread whose wait is refused ends.
AskWait(t) ==
  /\ loop[t] = "asking"
  /\ loop' = [loop EXCEPT ![t] = IF mounted THEN "registering" ELSE "ended"]
  /\ UNCHANGED <<mountVars, queueVars, waitVars, workerVars, got, failed, eventVars>>

\* A slip: the thread that waits does not wake the notification thread.
RegisterSilently(t) ==
  /\ loop[t] = "registering" /\ ~Locked
  /\ loop' = [loop EXCEPT ![t] = "waiting"]
  /\ pending' = Append(pending, t) /\ armed' = armed \cup {t}
  /\ UNCHANGED <<mountVars, queueVars, pendingSet, canceled, workerVars, got, failed,
                 eventVars>>

\* The IRP is armed, inserted and NotEmpty set under the list lock.
RegisterWait(t) ==
  /\ loop[t] = "registering" /\ ~Locked
  /\ loop' = [loop EXCEPT ![t] = "waiting"]
  /\ pending' = Append(pending, t) /\ pendingSet' = TRUE
  /\ armed' = armed \cup {t}
  /\ UNCHANGED <<mountVars, queueVars, canceled, workerVars, got, failed, eventVars>>

\* The wait returned an event: one of another mount is dropped, one of this
\* mount dispatched.
LoopGot(t) ==
  /\ loop[t] = "woken" /\ got[t] # NoEvent
  /\ IF eventMount[got[t]] = Instance(t)
     THEN /\ loop' = [loop EXCEPT ![t] = "busy"]
          /\ fate' = [fate EXCEPT ![got[t]] = "dispatched"]
          /\ got' = got
     ELSE /\ loop' = [loop EXCEPT ![t] = "asking"]
          /\ fate' = [fate EXCEPT ![got[t]] = "dropped"]
          /\ got' = [got EXCEPT ![t] = NoEvent]
  /\ UNCHANGED <<mountVars, queueVars, waitVars, workerVars, failed, eventMount>>

\* The wait returned zero bytes (it was released), or failed.
LoopGotNothing(t) ==
  /\ loop[t] = "woken" /\ got[t] = NoEvent
  /\ loop' = [loop EXCEPT ![t] = IF t \in failed THEN "ended" ELSE "asking"]
  /\ UNCHANGED <<mountVars, queueVars, waitVars, workerVars, got, failed, eventVars>>

\* The file system function has returned, its answer has been sent.
LoopDispatched(t) ==
  /\ loop[t] = "busy"
  /\ loop' = [loop EXCEPT ![t] = "asking"]
  /\ got' = [got EXCEPT ![t] = NoEvent]
  /\ UNCHANGED <<mountVars, queueVars, waitVars, workerVars, failed, eventVars>>

\* The process of a waiting thread is terminated: the I/O manager cancels its
\* IRP, which takes the cancel routine from it.
KillWaiter(t) ==
  /\ Kills /\ t \in armed
  /\ armed' = armed \ {t} /\ canceled' = canceled \cup {t}
  /\ UNCHANGED <<mountVars, queueVars, pending, pendingSet, workerVars, loopVars,
                 eventVars>>

\* DokanIrpCancelRoutine under the list lock, and the IRP completed.
CancelWait(t) ==
  /\ t \in canceled /\ ~Locked
  /\ pending' = Minus(pending, t)
  /\ pendingSet' = (pendingSet /\ Minus(pending, t) # <<>>)
  /\ canceled' = canceled \ {t}
  /\ loop' = [loop EXCEPT ![t] = "ended"]
  /\ UNCHANGED <<mountVars, queueVars, armed, workerVars, got, failed, eventVars>>

-----------------------------------------------------------------------------
(* NotificationThread.                                                     *)

\* KeWaitForMultipleObjects: ReleaseEvent is the first of the three.
NotificationExit ==
  /\ worker = "waiting" /\ releaseSet
  /\ worker' = "none"
  /\ UNCHANGED <<mountVars, queueVars, waitVars, releaseSet, completing, loopVars,
                 eventVars>>

\* NotificationLoop takes the locks of both lists.
NotificationWake ==
  /\ worker = "waiting" /\ ~releaseSet /\ (notifySet \/ pendingSet)
  /\ worker' = "pairing"
  /\ UNCHANGED <<mountVars, queueVars, waitVars, releaseSet, completing, loopVars,
                 eventVars>>

\* A slip: the event taken for a wait that is being cancelled is not put back.
PairOneForgets ==
  /\ worker = "pairing" /\ notify # <<>> /\ pending # <<>>
  /\ pending' = Tail(pending) /\ notify' = Tail(notify)
  /\ LET e == Head(notify)
         t == Head(pending)
     IN \/ t \notin armed /\ UNCHANGED <<armed, completing, got, fate>>
        \/ /\ t \in armed
           /\ armed' = armed \ {t}
           /\ got' = [got EXCEPT ![t] = e]
           /\ fate' = [fate EXCEPT ![e] = "copied"]
           /\ completing' = Append(completing, t)
  /\ UNCHANGED <<mountVars, notifySet, posting, pendingSet, canceled, worker,
                 releaseSet, loop, failed, eventMount>>

\* One iteration takes the oldest event and the oldest wait.  A wait that is
\* being cancelled is left to its cancel routine, and the event pushed back to
\* the tail; so is an event too long for the buffer, and the wait fails.
PairOne ==
  /\ worker = "pairing" /\ notify # <<>> /\ pending # <<>>
  /\ pending' = Tail(pending)
  /\ LET e == Head(notify)
         t == Head(pending)
     IN \/ /\ t \notin armed
           /\ notify' = Append(Tail(notify), e)
           /\ UNCHANGED <<armed, completing, got, failed, fate>>
        \/ /\ t \in armed /\ e \in Long
           /\ notify' = Append(Tail(notify), e)
           /\ armed' = armed \ {t}
           /\ failed' = failed \cup {t}
           /\ completing' = Append(completing, t)
           /\ UNCHANGED <<got, fate>>
        \/ /\ t \in armed /\ e \notin Long
           /\ notify' = Tail(notify)
           /\ armed' = armed \ {t}
           /\ got' = [got EXCEPT ![t] = e]
           /\ fate' = [fate EXCEPT ![e] = "copied"]
           /\ completing' = Append(completing, t)
           /\ UNCHANGED failed
  /\ UNCHANGED <<mountVars, notifySet, posting, pendingSet, canceled, worker,
                 releaseSet, loop, eventMount>>

\* A slip: one event per wakeup.
PairDoneEarly ==
  /\ worker = "pairing"
  /\ worker' = "completing"
  /\ notifySet' = FALSE /\ pendingSet' = FALSE
  /\ UNCHANGED <<mountVars, notify, posting, pending, armed, canceled, releaseSet,
                 completing, loopVars, eventVars>>

\* One list is empty: both NotEmpty events are cleared, the locks released.
PairDone ==
  /\ worker = "pairing" /\ (notify = <<>> \/ pending = <<>>)
  /\ worker' = "completing"
  /\ notifySet' = FALSE /\ pendingSet' = FALSE
  /\ UNCHANGED <<mountVars, notify, posting, pending, armed, canceled, releaseSet,
                 completing, loopVars, eventVars>>

\* The waits on the private list are completed, one by one,
CompleteWait ==
  /\ worker = "completing" /\ completing # <<>>
  /\ completing' = Tail(completing)
  /\ loop' = [loop EXCEPT ![Head(completing)] = "woken"]
  /\ UNCHANGED <<mountVars, queueVars, waitVars, worker, releaseSet, got, failed,
                 eventVars>>

\* and the thread sleeps again.
NotificationSleep ==
  /\ worker = "completing" /\ completing = <<>>
  /\ worker' = "waiting"
  /\ UNCHANGED <<mountVars, queueVars, waitVars, releaseSet, completing, loopVars,
                 eventVars>>

-----------------------------------------------------------------------------
(* Mount and unmount.  The lists are initialised with the device and never *)
(* emptied by a mount; overlapping mounts and releases are left to         *)
(* DeviceThreads.                                                          *)

\* DokanEventStart, and DokanMain starting the loop threads of the instance.
EventStart ==
  /\ ~mounted /\ release = "idle" /\ mountId < MaxMounts
  /\ mounted' = TRUE /\ mountId' = mountId + 1
  /\ worker' = "waiting" /\ releaseSet' = FALSE
  /\ loop' = [t \in Loops |-> IF Instance(t) = mountId' THEN "asking" ELSE loop[t]]
  /\ UNCHANGED <<release, released, queueVars, waitVars, completing, got, failed,
                 eventVars>>

\* DokanEventRelease: Mounted is cleared,
EventRelease ==
  /\ mounted /\ release = "idle"
  /\ mounted' = FALSE /\ release' = "unmounted"
  /\ UNCHANGED <<mountId, released, queueVars, waitVars, workerVars, loopVars,
                 eventVars>>

\* Three slips: the entries stay on the list; waits that are being cancelled
\* are completed as well; or only the first wait is completed.
ReleaseWaitsKeeps ==
  /\ release = "unmounted" /\ ~Locked
  /\ release' = "completing"
  /\ released' = {t \in armed : Occurs(t, pending)}
  /\ armed' = armed \ released'
  /\ pendingSet' = FALSE
  /\ UNCHANGED <<mounted, mountId, queueVars, pending, canceled, workerVars, loopVars,
                 eventVars>>

ReleaseWaitsAll ==
  /\ release = "unmounted" /\ ~Locked
  /\ release' = "completing"
  /\ released' = {t \in Loops : Occurs(t, pending)}
  /\ armed' = armed \ released'
  /\ pending' = <<>> /\ pendingSet' = FALSE
  /\ UNCHANGED <<mounted, mountId, queueVars, canceled, workerVars, loopVars, eventVars>>

ReleaseWaitsFirst ==
  /\ release = "unmounted" /\ ~Locked
  /\ release' = "completing"
  /\ released' = {t \in armed : pending # <<>> /\ t = Head(pending)}
  /\ armed' = armed \ released'
  /\ pending' = <<>> /\ pendingSet' = FALSE
  /\ UNCHANGED <<mounted, mountId, queueVars, canceled, workerVars, loopVars, eventVars>>

\* ReleasePendingIrp(PendingEvent) empties the list under its lock; waits that
\* are being cancelled are left to their cancel routines,
ReleaseWaits ==
  /\ release = "unmounted" /\ ~Locked
  /\ release' = "completing"
  /\ released' = {t \in armed : Occurs(t, pending)}
  /\ armed' = armed \ released'
  /\ pending' = <<>> /\ pendingSet' = FALSE
  /\ UNCHANGED <<mounted, mountId, queueVars, canceled, workerVars, loopVars, eventVars>>

\* the waits are completed with zero bytes,
ReleaseWait(t) ==
  /\ t \in released
  /\ released' = released \ {t}
  /\ loop' = [loop EXCEPT ![t] = "woken"]
  /\ UNCHANGED <<mounted, mountId, release, queueVars, waitVars, workerVars, got,
                 failed, eventVars>>

\* A slip: ReleaseEvent is not set.
StopNotificationForgets ==
  /\ release = "completing" /\ released = {}
  /\ release' = "stopping"
  /\ UNCHANGED <<mounted, mountId, released, queueVars, waitVars, workerVars, loopVars,
                 eventVars>>

\* and DokanStopEventNotificationThread sets ReleaseEvent
StopNotification ==
  /\ release = "completing" /\ released = {}
  /\ release' = "stopping" /\ releaseSet' = TRUE
  /\ UNCHANGED <<mounted, mountId, released, queueVars, waitVars, worker, completing,
                 loopVars, eventVars>>

\* and waits for the thread to end.
ReleaseReturns ==
  /\ release = "stopping" /\ worker = "none"
  /\ release' = "idle"
  /\ UNCHANGED <<mounted, mountId, released, queueVars, waitVars, workerVars, loopVars,
                 eventVars>>

-----------------------------------------------------------------------------
Sender(e) == AllocateEventContext(e) \/ InsertEvent(e) \/ SetNotEmpty(e)

LoopStep(t) ==
  \/ AskWait(t) \/ RegisterWait(t) \/ LoopGot(t) \/ LoopGotNothing(t)

NotificationThread ==
  \/ NotificationExit \/ NotificationWake \/ PairOne \/ PairDone
  \/ CompleteWait \/ NotificationSleep

Release ==
  \/ ReleaseWaits \/ StopNotification \/ ReleaseReturns
  \/ \E t \in Loops : ReleaseWait(t)

Next ==
  \/ \E e \in Events : Sender(e)
  \/ \E t \in Loops : LoopStep(t) \/ LoopDispatched(t) \/ KillWaiter(t) \/ CancelWait(t)
  \/ NotificationThread
  \/ EventStart \/ EventRelease \/ Release

Spec == Init /\ [][Next]_vars

\* The scheduler runs every thread of the driver and of DokanMain, the spin
\* locks are fair, and the functions of the file system return.  Nobody
\* promises a mount, an unmount or a request.
Fairness ==
  /\ \A e \in Events : SF_vars(InsertEvent(e)) /\ WF_vars(SetNotEmpty(e))
  /\ \A t \in Loops : /\ WF_vars(LoopStep(t)) /\ SF_vars(RegisterWait(t))
                      /\ WF_vars(LoopDispatched(t)) /\ SF_vars(CancelWait(t))
  /\ WF_vars(NotificationThread)
  /\ WF_vars(Release) /\ SF_vars(ReleaseWaits)

FairSpec == Spec /\ Fairness

-----------------------------------------------------------------------------
(* Properties.                                                             *)

TypeOK ==
  /\ mounted \in BOOLEAN /\ mountId \in 0..MaxMounts
  /\ notify \in Seq(Events) /\ Distinct(notify)
  /\ pending \in Seq(Loops) /\ Distinct(pending)
  /\ completing \in Seq(Loops) /\ Distinct(completing)
  /\ notifySet \in BOOLEAN /\ pendingSet \in BOOLEAN /\ releaseSet \in BOOLEAN
  /\ posting \subseteq Events
  /\ armed \subseteq Loops /\ canceled \subseteq Loops
  /\ released \subseteq Loops /\ failed \subseteq Loops
  /\ worker \in {"none", "waiting", "pairing", "completing"}
  /\ release \in {"idle", "unmounted", "completing", "stopping"}
  /\ loop \in [Loops -> {"unborn", "asking", "registering", "waiting", "woken", "busy",
                         "ended"}]
  /\ got \in [Loops -> Events \cup {NoEvent}]
  /\ fate \in [Events -> {"new", "allocated", "queued", "copied", "dispatched", "dropped"}]
  /\ eventMount \in [Events -> 0..MaxMounts]

\* The notification thread never sleeps on work: while an event and a wait are
\* both listed, one of its NotEmpty events is set or the sender of an event is
\* about to set it.  (Both events are cleared at the end of every pairing, and
\* set by threads that do not hold both locks.)
NoLostWakeup ==
  worker = "waiting" /\ notify # <<>> /\ pending # <<>>
    => notifySet \/ pendingSet \/ posting # {}

\* An event that was sent is on the list or in the hands of exactly one loop
\* thread: a push-back neither loses nor doubles it.
EventKept ==
  \A e \in Events :
    /\ fate[e] = "queued" <=> Occurs(e, notify)
    /\ fate[e] \in {"copied", "dispatched"} =>
         Cardinality({t \in Loops : got[t] = e}) <= 1
    /\ fate[e] = "copied" =>
         \E t \in Loops : got[t] = e /\ loop[t] \in {"waiting", "woken"}

\* A waiting thread will be answered by exactly one party: the list it is on,
\* the pairing or the release that took it off, or its cancel routine.
WaitHeldOnce ==
  \A t \in Loops : loop[t] = "waiting" =>
    LET held == {h \in {"list", "pairing", "release", "cancel"} :
                   \/ h = "list"    /\ t \in armed /\ Occurs(t, pending)
                   \/ h = "pairing" /\ Occurs(t, completing)
                   \/ h = "release" /\ t \in released
                   \/ h = "cancel"  /\ t \in canceled}
    IN \E h \in held : held = {h}

\* A thread that waits while events are queued is not left waiting.
WaiterServed ==
  \A t \in Loops : (loop[t] = "waiting" /\ notify # <<>>)
                     ~> (loop[t] # "waiting" \/ notify = <<>> \/ ~mounted)

\* DokanEventRelease returns.
ReleaseEnds == (release # "idle") ~> (release = "idle")

\* A wait that was registered after the release of its mount had emptied the
\* list: nobody completes it.
Stranded(t) == ~mounted /\ release = "idle" /\ t \in armed /\ Occurs(t, pending)

\* DokanMain "blocks until the file system is unmounted" (readme.txt): after
\* the unmount its loop threads end, and it returns, unless one of them is
\* stranded or the device is mounted again.
LoopsEnd ==
  \A t \in Loops : (~mounted /\ loop[t] # "unborn")
                     ~> (loop[t] = "ended" \/ Stranded(t) \/ mounted)
=============================================================================
