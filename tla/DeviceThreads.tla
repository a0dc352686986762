---------------------------- MODULE DeviceThreads ----------------------------
(***************************************************************************)
(* The two system threads of a Dokan device and who starts and stops them  *)
(* (dokanlib/sys: event.c, timeout.c, notification.c, device.c).           *)
(*                                                                         *)
(* DokanEventStart, under the Resource of the device, starts a             *)
(* notification thread and a timeout thread and keeps a pointer to each.   *)
(* DokanEventRelease, under no lock, tells them to end through two         *)
(* manual-reset events and waits for them.  It is called for               *)
(* IOCTL_EVENT_RELEASE, and by the timeout thread itself when the          *)
(* application has sent no IOCTL_KEEPALIVE for too long.                   *)
(*                                                                         *)
(* Nothing keeps a mount and a release apart, nor a release from a device  *)
(* that is not mounted; where properties make an exception for that, two   *)
(* history variables say of which mounts.                                  *)
(*                                                                         *)
(* The n-th mount starts threads n.  What the threads do with IRPs is in   *)
(* PendingIrp and EventDelivery.                                           *)
(***************************************************************************)
EXTENDS Naturals, FiniteSets

CONSTANTS
  Users,             \* the processes that may send IOCTL_EVENT_RELEASE
  KeepAliveOptions,  \* the values of DOKAN_EVENT_KEEP_ALIVE_ON mounts use
  KeepAliveTicks,    \* DOKAN_KEEPALIVE_TIMEOUT in ticks
  MaxReleases,       \* bound: how many IOCTL_EVENT_RELEASE are sent
  MaxMounts          \* bound: how many times the device is mounted

Mounts    == 1..MaxMounts
Null      == 0                    \* the NULL thread pointer
Releasers == Users \cup Mounts    \* thread n releases in DokanCheckKeepAlive

ASSUME DeviceThreadsAssumption ==
  /\ KeepAliveOptions \subseteq BOOLEAN /\ KeepAliveOptions # {}
  /\ KeepAliveTicks \in Nat \ {0}
  /\ MaxReleases \in Nat /\ MaxMounts \in Nat \ {0}
  /\ Users \cap (Mounts \cup {Null}) = {}

VARIABLES
  mounted,             \* DeviceExtension->Mounted # 0
  mountId,             \* DeviceExtension->MountId
  starting,            \* progress of DokanEventStart, which holds Resource
  useKeepAlive,        \* DeviceExtension->UseKeepAlive
  silent,              \* ticks since DeviceExtension->TickCount; KeepAliveTicks
                       \* stands for every time longer than the timeout
  alive,               \* does the application still send IOCTL_KEEPALIVE?
  timeoutThread,       \* DeviceExtension->TimeoutThread
  notificationThread,  \* DeviceExtension->EventNotificationThread
  killEvent,           \* DeviceExtension->KillEvent
  releaseEvent,        \* DeviceExtension->ReleaseEvent
  check,               \* progress of each DokanTimeoutThread
  note,                \* progress of each NotificationThread
  step,                \* progress of each DokanEventRelease
  target,              \* the thread a release waits for
  checkDerefs,         \* ObDereferenceObject calls for each timeout thread
  noteDerefs,          \* ... and for each notification thread
  notices,             \* NotifyService: the mounts the service is to hear of
  releases,            \* IOCTL_EVENT_RELEASE so far (bounded by MaxReleases)
  overlapped,          \* history: the mounts whose start overlapped a release
  twice                \* history: the mounts of which a release began when they
                       \* were no longer mounted

mountVars  == <<mounted, mountId, starting, useKeepAlive>>
clockVars  == <<silent, alive>>
threadVars == <<timeoutThread, notificationThread, killEvent, releaseEvent>>
derefVars  == <<checkDerefs, noteDerefs>>
releaseVars == <<step, target>>
boundVars   == <<notices, releases>>
history     == <<overlapped, twice>>
vars == <<mountVars, clockVars, threadVars, check, note, releaseVars, derefVars,
          boundVars, history>>

Init ==
  /\ mounted = FALSE /\ mountId = 0 /\ starting = "no" /\ useKeepAlive = FALSE
  /\ silent = 0 /\ alive = FALSE
  /\ timeoutThread = Null /\ notificationThread = Null
  /\ killEvent = FALSE /\ releaseEvent = FALSE
  /\ check = [m \in Mounts |-> "none"] /\ note = [m \in Mounts |-> "none"]
  /\ step = [r \in Releasers |-> "idle"] /\ target = [r \in Releasers |-> Null]
  /\ checkDerefs = [m \in Mounts \cup {Null} |-> 0]
  /\ noteDerefs = [m \in Mounts \cup {Null} |-> 0]
  /\ notices = {} /\ releases = 0
  /\ overlapped = {} /\ twice = {}

\* A thread that waits for itself never goes on, nor does whoever waits for it.
SelfWait(m) == m \in Mounts /\ step[m] = "waitCheck" /\ target[m] = m
Stuck(r)    == step[r] = "waitCheck" /\ SelfWait(target[r])

\* No release is under way, apart from those that will never end.
Quiet == \A r \in Releasers : step[r] = "idle" \/ Stuck(r)

-----------------------------------------------------------------------------
(* Mounting.                                                               *)

\* DokanEventStart takes Resource; a mounted device is DOKAN_USED.
EventStart ==
  /\ starting = "no" /\ ~mounted /\ mountId < MaxMounts
  /\ starting' = "mounted" /\ mounted' = TRUE /\ mountId' = mountId + 1
  /\ useKeepAlive' \in KeepAliveOptions
  /\ silent' = 0 /\ alive' = TRUE
  /\ overlapped' = IF Quiet THEN overlapped ELSE overlapped \cup {mountId + 1}
  /\ UNCHANGED <<threadVars, check, note, releaseVars, derefVars, boundVars, twice>>

\* DokanStartEventNotificationThread resets the event, creates the thread
StartNotificationThread ==
  /\ starting = "mounted" /\ starting' = "notifying"
  /\ releaseEvent' = FALSE
  /\ note' = [note EXCEPT ![mountId] = "waiting"]
  /\ UNCHANGED <<mounted, mountId, useKeepAlive, clockVars, timeoutThread,
                 notificationThread, killEvent, check, releaseVars, derefVars, boundVars,
                 history>>

\* and stores a reference to it.
KeepNotificationThread ==
  /\ starting = "notifying" /\ starting' = "notified"
  /\ notificationThread' = mountId
  /\ UNCHANGED <<mounted, mountId, useKeepAlive, clockVars, timeoutThread, killEvent,
                 releaseEvent, check, note, releaseVars, derefVars, boundVars, history>>

\* A slip: KillEvent is created once, with the device.
StartCheckThreadKilled ==
  /\ starting = "notified" /\ starting' = "checking"
  /\ check' = [check EXCEPT ![mountId] = "waiting"]
  /\ UNCHANGED <<mounted, mountId, useKeepAlive, clockVars, threadVars, note,
                 releaseVars, derefVars, boundVars, history>>

\* DokanStartCheckThread does the same for the other thread,
StartCheckThread ==
  /\ starting = "notified" /\ starting' = "checking"
  /\ killEvent' = FALSE
  /\ check' = [check EXCEPT ![mountId] = "waiting"]
  /\ UNCHANGED <<mounted, mountId, useKeepAlive, clockVars, timeoutThread,
                 notificationThread, releaseEvent, note, releaseVars, derefVars,
                 boundVars, history>>

\* and Resource is released.
KeepCheckThread ==
  /\ starting = "checking" /\ starting' = "no"
  /\ timeoutThread' = mountId
  /\ UNCHANGED <<mounted, mountId, useKeepAlive, clockVars, notificationThread,
                 killEvent, releaseEvent, check, note, releaseVars, derefVars, boundVars,
                 history>>

-----------------------------------------------------------------------------
(* Keep-alive.                                                             *)

Tick ==
  /\ silent < KeepAliveTicks /\ silent' = silent + 1
  /\ UNCHANGED <<mountVars, alive, threadVars, check, note, releaseVars, derefVars,
                 boundVars, history>>

\* IOCTL_KEEPALIVE, under Resource.
KeepAlive ==
  /\ alive /\ starting = "no" /\ silent > 0
  /\ silent' = 0
  /\ UNCHANGED <<mountVars, alive, threadVars, check, note, releaseVars, derefVars,
                 boundVars, history>>

ApplicationDies ==
  /\ alive /\ alive' = FALSE
  /\ UNCHANGED <<mountVars, silent, threadVars, check, note, releaseVars, derefVars,
                 boundVars, history>>

-----------------------------------------------------------------------------
(* The threads.                                                            *)

\* NotificationThread sees ReleaseEvent.
NotificationExit(m) ==
  /\ note[m] = "waiting" /\ releaseEvent
  /\ note' = [note EXCEPT ![m] = "ended"]
  /\ UNCHANGED <<mountVars, clockVars, threadVars, check, releaseVars, derefVars,
                 boundVars, history>>

\* DokanTimeoutThread sees KillEvent, the first of the two it waits for,
CheckExit(m) ==
  /\ check[m] = "waiting" /\ killEvent
  /\ check' = [check EXCEPT ![m] = "ended"]
  /\ UNCHANGED <<mountVars, clockVars, threadVars, note, releaseVars, derefVars,
                 boundVars, history>>

\* or its timer: ReleaseTimeoutPendingIrp.
CheckSweep(m) ==
  /\ check[m] = "waiting" /\ ~killEvent
  /\ check' = [check EXCEPT ![m] = "sweeping"]
  /\ UNCHANGED <<mountVars, clockVars, threadVars, note, releaseVars, derefVars,
                 boundVars, history>>

\* A slip: ">" where time stops at the limit.
CheckKeepAliveLate(m) ==
  /\ check[m] = "sweeping" /\ (useKeepAlive => starting = "no")
  /\ check' = [check EXCEPT ![m] =
       IF useKeepAlive /\ mounted /\ silent > KeepAliveTicks THEN "forcing" ELSE "waiting"]
  /\ UNCHANGED <<mountVars, clockVars, threadVars, note, releaseVars, derefVars,
                 boundVars, history>>

\* DokanCheckKeepAlive compares the clocks and reads Mounted under Resource,
\* which it releases before it acts on them.
CheckKeepAlive(m) ==
  /\ check[m] = "sweeping" /\ (useKeepAlive => starting = "no")
  /\ check' = [check EXCEPT ![m] =
       IF useKeepAlive /\ mounted /\ silent >= KeepAliveTicks THEN "forcing" ELSE "waiting"]
  /\ UNCHANGED <<mountVars, clockVars, threadVars, note, releaseVars, derefVars,
                 boundVars, history>>

-----------------------------------------------------------------------------
(* DokanEventRelease by r: Mounted is cleared, the lists are released      *)
(* (PendingIrp, EventDelivery) and the threads are stopped.                *)

\* Mounted is cleared, whether it was set or not, and without the lock that a
\* mount holds.
BeginRelease(r) ==
  /\ mounted' = FALSE
  /\ step' = [step EXCEPT ![r] = "unmounted"]
  /\ overlapped' = IF starting = "no" THEN overlapped ELSE overlapped \cup {mountId}
  /\ twice' = IF mounted THEN twice ELSE twice \cup ({mountId} \cap Mounts)

\* IOCTL_EVENT_RELEASE.
UserRelease(u) ==
  /\ step[u] = "idle" /\ releases < MaxReleases
  /\ releases' = releases + 1
  /\ BeginRelease(u)
  /\ UNCHANGED <<mountId, starting, useKeepAlive, clockVars, threadVars, check, note,
                 target, derefVars, notices>>

\* DokanCheckKeepAlive queues an event for the mount service, if there is
\* memory for one, and calls DokanEventRelease on the timeout thread.
ForceUnmount(m) ==
  /\ check[m] = "forcing"
  /\ check' = [check EXCEPT ![m] = "releasing"]
  /\ notices' \in {notices, notices \cup {mountId}}
  /\ BeginRelease(m)
  /\ UNCHANGED <<mountId, starting, useKeepAlive, clockVars, threadVars, note, target,
                 derefVars, releases>>

\* A slip: KillEvent is not set.
StopCheckThreadSilently(r) ==
  /\ step[r] = "unmounted"
  /\ step' = [step EXCEPT ![r] = "killing"]
  /\ UNCHANGED <<mountVars, clockVars, threadVars, check, note, target, derefVars,
                 boundVars, history>>

\* DokanStopCheckThread sets KillEvent
StopCheckThread(r) ==
  /\ step[r] = "unmounted"
  /\ killEvent' = TRUE
  /\ step' = [step EXCEPT ![r] = "killing"]
  /\ UNCHANGED <<mountVars, clockVars, timeoutThread, notificationThread, releaseEvent,
                 check, note, target, derefVars, boundVars, history>>

\* A slip: the thread is not waited for.
AwaitCheckThreadNot(r) ==
  /\ step[r] = "killing"
  /\ step' = [step EXCEPT ![r] = "checkStopped"]
  /\ UNCHANGED <<mountVars, clockVars, threadVars, check, note, target, derefVars,
                 boundVars, history>>

\* and waits for the thread it points to, if any,
AwaitCheckThread(r) ==
  /\ step[r] = "killing"
  /\ target' = [target EXCEPT ![r] = timeoutThread]
  /\ step' = [step EXCEPT ![r] = IF timeoutThread = Null THEN "checkStopped" ELSE "waitCheck"]
  /\ UNCHANGED <<mountVars, clockVars, threadVars, check, note, derefVars, boundVars,
                 history>>

\* A slip: the reference is dropped before the thread has ended.
CheckStoppedEarly(r) ==
  /\ step[r] = "waitCheck"
  /\ checkDerefs' = [checkDerefs EXCEPT ![timeoutThread] = @ + 1]
  /\ step' = [step EXCEPT ![r] = "checkStopped"]
  /\ UNCHANGED <<mountVars, clockVars, threadVars, check, note, target, noteDerefs,
                 boundVars, history>>

\* and drops the reference of the pointer, which it leaves as it is.
CheckStopped(r) ==
  /\ step[r] = "waitCheck" /\ check[target[r]] = "ended"
  /\ checkDerefs' = [checkDerefs EXCEPT ![timeoutThread] = @ + 1]
  /\ step' = [step EXCEPT ![r] = "checkStopped"]
  /\ UNCHANGED <<mountVars, clockVars, threadVars, check, note, target, noteDerefs,
                 boundVars, history>>

\* A user's release returns; that of a timeout thread goes back to its loop.
Return(r) ==
  /\ step' = [step EXCEPT ![r] = "idle"]
  /\ check' = IF r \in Mounts THEN [check EXCEPT ![r] = "waiting"] ELSE check

\* DokanStopEventNotificationThread sets ReleaseEvent
StopNotificationThread(r) ==
  /\ step[r] = "checkStopped"
  /\ releaseEvent' = TRUE
  /\ step' = [step EXCEPT ![r] = "telling"]
  /\ UNCHANGED <<mountVars, clockVars, timeoutThread, notificationThread, killEvent,
                 check, note, target, derefVars, boundVars, history>>

\* A slip: the pointer is not looked at before it is waited for.
AwaitNotificationThreadAny(r) ==
  /\ step[r] = "telling"
  /\ target' = [target EXCEPT ![r] = notificationThread]
  /\ step' = [step EXCEPT ![r] = "waitNote"]
  /\ UNCHANGED <<mountVars, clockVars, threadVars, check, note, derefVars, boundVars,
                 history>>

\* and waits for the thread it points to, if any,
AwaitNotificationThread(r) ==
  /\ step[r] = "telling"
  /\ target' = [target EXCEPT ![r] = notificationThread]
  /\ IF notificationThread = Null
     THEN Return(r)
     ELSE step' = [step EXCEPT ![r] = "waitNote"] /\ check' = check
  /\ UNCHANGED <<mountVars, clockVars, threadVars, note, derefVars, boundVars, history>>

\* drops the reference
NotificationStopped(r) ==
  /\ step[r] = "waitNote" /\ note[target[r]] = "ended"
  /\ noteDerefs' = [noteDerefs EXCEPT ![notificationThread] = @ + 1]
  /\ step' = [step EXCEPT ![r] = "clearing"]
  /\ UNCHANGED <<mountVars, clockVars, threadVars, check, note, target, checkDerefs,
                 boundVars, history>>

\* and clears the pointer; the release is over.
ForgetNotificationThread(r) ==
  /\ step[r] = "clearing"
  /\ notificationThread' = Null
  /\ Return(r)
  /\ UNCHANGED <<mountVars, clockVars, timeoutThread, killEvent, releaseEvent, note, target,
                 derefVars, boundVars, history>>

-----------------------------------------------------------------------------
Mounting ==
  \/ StartNotificationThread \/ KeepNotificationThread
  \/ StartCheckThread \/ KeepCheckThread

TimeoutThread(m) == CheckExit(m) \/ CheckSweep(m) \/ CheckKeepAlive(m) \/ ForceUnmount(m)

Release(r) ==
  \/ StopCheckThread(r) \/ AwaitCheckThread(r) \/ CheckStopped(r)
  \/ StopNotificationThread(r) \/ AwaitNotificationThread(r)
  \/ NotificationStopped(r) \/ ForgetNotificationThread(r)

Next ==
  \/ EventStart \/ Mounting
  \/ Tick \/ KeepAlive \/ ApplicationDies
  \/ \E m \in Mounts : NotificationExit(m) \/ TimeoutThread(m)
  \/ \E u \in Users : UserRelease(u)
  \/ \E r \in Releasers : Release(r)

Spec == Init /\ [][Next]_vars

\* The scheduler runs every thread of the driver and time passes; Resource is
\* fair.  Nobody promises a mount, a release or a keep-alive.
Fairness ==
  /\ WF_vars(Mounting) /\ WF_vars(Tick)
  /\ \A m \in Mounts : /\ WF_vars(NotificationExit(m)) /\ WF_vars(TimeoutThread(m))
                       /\ SF_vars(CheckKeepAlive(m))
  /\ \A r \in Releasers : WF_vars(Release(r))

FairSpec == Spec /\ Fairness

-----------------------------------------------------------------------------
(* Properties.                                                             *)

CheckAlive(m) == check[m] \notin {"none", "ended"}

\* Every field keeps to the values the code gives it; among them, no release
\* ever waits for a NULL thread.
TypeOK ==
  /\ mounted \in BOOLEAN /\ mountId \in 0..MaxMounts /\ useKeepAlive \in BOOLEAN
  /\ starting \in {"no", "mounted", "notifying", "notified", "checking"}
  /\ silent \in 0..KeepAliveTicks /\ alive \in BOOLEAN
  /\ timeoutThread \in Mounts \cup {Null} /\ notificationThread \in Mounts \cup {Null}
  /\ killEvent \in BOOLEAN /\ releaseEvent \in BOOLEAN
  /\ check \in [Mounts -> {"none", "waiting", "sweeping", "forcing", "releasing", "ended"}]
  /\ note \in [Mounts -> {"none", "waiting", "ended"}]
  /\ step \in [Releasers -> {"idle", "unmounted", "killing", "waitCheck", "checkStopped",
                             "telling", "waitNote", "clearing"}]
  /\ target \in [Releasers -> Mounts \cup {Null}]
  /\ \A r \in Releasers : step[r] \in {"waitCheck", "waitNote"} => target[r] # Null
  /\ checkDerefs \in [Mounts \cup {Null} -> Nat] /\ noteDerefs \in [Mounts \cup {Null} -> Nat]
  /\ notices \subseteq Mounts /\ releases \in Nat
  /\ overlapped \subseteq Mounts /\ twice \subseteq Mounts

BothEnded(m) == check[m] = "ended" /\ note[m] = "ended"

\* A mount that did not overlap a release when it was started has its own two
\* threads, neither of them told to end, as long as it is mounted: no earlier
\* mount or release, not even one that hangs, has taken them away.
ServicedNow ==
  mounted /\ starting = "no" /\ mountId \notin overlapped =>
    /\ CheckAlive(mountId) /\ timeoutThread = mountId /\ ~killEvent
    /\ note[mountId] = "waiting" /\ notificationThread = mountId /\ ~releaseEvent

\* Such a mount leaves no thread behind, unless its timeout thread waits for
\* itself: not when it has been released, and not to the next mount, if that
\* one did not overlap a release either.
NoneLeftBehind ==
  \A m \in Mounts \ overlapped :
    \/ m = mountId /\ ~mounted /\ (\A r \in Releasers : step[r] = "idle")
    \/ m < mountId /\ m + 1 \notin overlapped
    => BothEnded(m) \/ SelfWait(m)

Serviced == ServicedNow /\ NoneLeftBehind

\* The thread objects of a mount that did not overlap a release are dereferenced
\* only when the thread has ended, and once, unless the mount was released once
\* more or the next overlapped a release.  A NULL timeout thread is never
\* dereferenced, and a NULL notification thread only after one of the two.
ThreadFreedOnce ==
  /\ \A m \in Mounts \ overlapped :
       /\ checkDerefs[m] > 0 => check[m] = "ended"
       /\ noteDerefs[m] > 0 => note[m] = "ended"
       /\ m \notin twice /\ m + 1 \notin overlapped => checkDerefs[m] <= 1 /\ noteDerefs[m] <= 1
  /\ checkDerefs[Null] = 0
  /\ overlapped = {} /\ twice = {} => noteDerefs[Null] = 0

\* The keep-alive check unmounts the mount it found silent, never a later one,
\* although it acts after it has released Resource: unless this mount or the
\* next was started during a release.
ForcesOwnMount ==
  \A m \in Mounts :
    check[m] = "forcing" /\ m \notin overlapped /\ m + 1 \notin overlapped => mountId = m

\* "use auto unmount" (dokan.h, UseKeepAlive): the device of an application
\* that has died is unmounted.
SilentUnmounted ==
  (mounted /\ useKeepAlive /\ ~alive /\ mountId \notin overlapped) ~> ~mounted

\* IOCTL_EVENT_RELEASE returns, unless it waits for a timeout thread that hangs
\* in its own release, or a mount was started during a release.
ReleaseReturns ==
  \A u \in Users :
    (step[u] # "idle") ~> (step[u] = "idle" \/ Stuck(u) \/ mountId \in overlapped)

\* DokanStopCheckThread "exits DokanTimeoutThread" (timeout.c): whoever calls
\* it sees the thread end.
StopsTimeoutThread ==
  \A r \in Releasers : (step[r] = "waitCheck") ~> (step[r] # "waitCheck")
=============================================================================
