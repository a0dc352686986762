------------------------- MODULE DeviceThreads_proofs -------------------------
(***************************************************************************)
(* Proofs about DeviceThreads, for any number of processes, mounts,        *)
(* releases and ticks, and for every interleaving of mounts and releases.  *)
(*                                                                         *)
(* A mount is clean when no release was under way while it was started.    *)
(* The inductive invariant says how far a clean mount may be, what the     *)
(* releases of it rely on, and that it is over, or hangs, when the next    *)
(* clean mount is started; what holds of the other mounts is only what the *)
(* pointers may be.                                                        *)
(***************************************************************************)
EXTENDS DeviceThreads, TLAPS

-----------------------------------------------------------------------------
(* The inductive invariant.                                                *)

\* r carries out a release that does not hang.
Releasing(r) == step[r] # "idle" /\ ~Stuck(r)

\* The latest mount did not overlap a release when it was started.
Clean == mountId # 0 /\ mountId \notin overlapped

\* Threads of mounts to come, and those of the latest not started yet.
FutureInv ==
  /\ \A m \in Mounts :
       /\ m > mountId => step[m] = "idle" /\ checkDerefs[m] = 0 /\ noteDerefs[m] = 0
                         /\ m \notin overlapped /\ m \notin twice
       /\ check[m] = "none" <=>
            m > mountId \/ (m = mountId /\ starting \in {"mounted", "notifying", "notified"})
       /\ note[m] = "none" <=> m > mountId \/ (m = mountId /\ starting = "mounted")

\* A timeout thread is releasing the device when it is in DokanEventRelease.
OwnReleaseInv == \A m \in Mounts : step[m] = "idle" <=> check[m] # "releasing"

\* What the pointers may be, whoever overlaps whom.
PointerInv ==
  /\ mounted \/ starting # "no" => mountId # 0
  /\ timeoutThread = IF starting = "no" THEN mountId ELSE mountId - 1
  /\ \/ notificationThread = Null
     \/ notificationThread =
          IF starting \in {"mounted", "notifying"} THEN mountId - 1 ELSE mountId
  /\ \A r \in Releasers :
       /\ step[r] = "waitCheck" => timeoutThread # Null
       /\ step[r] \in {"waitNote", "clearing"} => mountId # 0

\* A clean mount is not released while it is started or mounted, and its threads
\* run undisturbed.
MountedInv ==
  Clean /\ (mounted \/ starting # "no") =>
    /\ mounted /\ \A r \in Releasers : ~Releasing(r)
    /\ starting # "mounted" => note[mountId] = "waiting" /\ ~releaseEvent
    /\ starting \notin {"mounted", "notifying"} => notificationThread = mountId
    /\ starting \in {"checking", "no"} =>
         check[mountId] \in {"waiting", "sweeping", "forcing"} /\ ~killEvent

\* Where the releases of a clean mount are.
ReleaseInv ==
  Clean =>
    /\ starting = "no" =>
         notificationThread = mountId \/ (notificationThread = Null /\ note[mountId] = "ended")
    /\ \A r \in Releasers :
       Releasing(r) =>
         /\ step[r] \in {"waitCheck", "waitNote"} => target[r] = mountId
         /\ step[r] \in {"checkStopped", "telling", "waitNote", "clearing"} =>
              check[mountId] = "ended"
         /\ step[r] = "clearing" => note[mountId] = "ended"

\* A clean mount, once released, is over or hangs or is being released.
ReleasedInv ==
  Clean /\ ~mounted =>
    \/ BothEnded(mountId) \/ SelfWait(mountId)
    \/ \E r \in Releasers : Releasing(r)

\* The mounts before: one that is clean, as the next is, is over or hangs.
PastInv ==
  \A m \in Mounts : m < mountId /\ m \notin overlapped /\ m + 1 \notin overlapped =>
    BothEnded(m) \/ SelfWait(m)

\* Whoever waits for a thread waits for the one that the pointer is set to.
WaitInv ==
  \A r \in Releasers :
    /\ step[r] = "waitCheck" /\ timeoutThread \notin overlapped =>
         target[r] = timeoutThread \/ Stuck(r)
    /\ step[r] = "waitNote" /\ notificationThread \notin overlapped \cup {Null} =>
         target[r] = notificationThread

\* A clean mount released once has one release, which dereferences once.
OnceInv ==
  Clean /\ mountId \notin twice =>
    /\ checkDerefs[mountId] <= 1 /\ noteDerefs[mountId] <= 1
    /\ mounted => checkDerefs[mountId] = 0 /\ noteDerefs[mountId] = 0
    /\ \A r, s \in Releasers : Releasing(r) /\ Releasing(s) => r = s
    /\ \A r \in Releasers :
         Releasing(r) =>
           /\ notificationThread = mountId
           /\ step[r] \in {"unmounted", "killing", "waitCheck"} => checkDerefs[mountId] = 0
           /\ step[r] # "clearing" => noteDerefs[mountId] = 0

\* The dereferences of each thread.
DerefInv ==
  /\ checkDerefs[Null] = 0
  /\ overlapped = {} /\ twice = {} => noteDerefs[Null] = 0
  /\ \A m \in Mounts \ overlapped :
       /\ checkDerefs[m] > 0 => check[m] = "ended"
       /\ noteDerefs[m] > 0 => note[m] = "ended"
       /\ m < mountId /\ m \notin twice /\ m + 1 \notin overlapped =>
            checkDerefs[m] <= 1 /\ noteDerefs[m] <= 1

IInv ==
  /\ TypeOK
  /\ FutureInv /\ OwnReleaseInv /\ PointerInv /\ MountedInv /\ ReleaseInv /\ ReleasedInv
  /\ PastInv /\ WaitInv /\ OnceInv /\ DerefInv

-----------------------------------------------------------------------------
(* What a step relies on.                                                  *)

\* Who waits is told by the steps and targets alone.
LEMMA SameWaits ==
  ASSUME step' = step, target' = target
  PROVE  /\ \A r \in Releasers : (Releasing(r)' <=> Releasing(r)) /\ (Stuck(r)' <=> Stuck(r))
         /\ \A m \in Mounts : SelfWait(m)' <=> SelfWait(m)
BY DEF Releasing, Stuck, SelfWait

\* A thread that waits for itself is in a release, and not at its end.
LEMMA SelfWaitHangs ==
  ASSUME IInv, NEW m \in Mounts, SelfWait(m)
  PROVE  check[m] = "releasing" /\ step[m] = "waitCheck" /\ Stuck(m)
BY DEF IInv, OwnReleaseInv, SelfWait, Stuck

\* A step of a release that goes on takes nobody out of a wait that hangs.
LEMMA StillHangs ==
  ASSUME IInv, NEW r \in Releasers, ~Stuck(r),
         step' = [step EXCEPT ![r] = step'[r]], target' = [target EXCEPT ![r] = target'[r]]
  PROVE  /\ \A m \in Mounts : SelfWait(m) => SelfWait(m)'
         /\ \A s \in Releasers \ {r} : /\ Releasing(s)' => Releasing(s)
                                       /\ Stuck(s) => Stuck(s)'
                                       /\ step'[s] = step[s] /\ target'[s] = target[s]
<1>1. ASSUME NEW m \in Mounts, SelfWait(m)
      PROVE  SelfWait(m)'
  <2>1. m # r
    BY <1>1, SelfWaitHangs
  <2> QED BY <2>1, <1>1 DEF SelfWait, IInv, TypeOK, Releasers
<1>2. ASSUME NEW s \in Releasers \ {r}
      PROVE  step'[s] = step[s] /\ target'[s] = target[s]
  BY <1>2 DEF IInv, TypeOK
<1>3. ASSUME NEW s \in Releasers \ {r}, Stuck(s)
      PROVE  Stuck(s)'
  BY <1>1, <1>2, <1>3 DEF Stuck, SelfWait
<1> QED BY <1>1, <1>2, <1>3 DEF Releasing

\* A release that is past its waits for threads does not hang.
LEMMA GoesOn ==
  ASSUME IInv, NEW r \in Releasers, step[r] # "idle",
         step[r] # "waitCheck" \/ check[target[r]] = "ended"
  PROVE  Releasing(r) /\ ~Stuck(r)
BY DEF Releasing, Stuck, IInv, OwnReleaseInv, SelfWait

\* The latest mount and its threads.
LEMMA Latest ==
  ASSUME IInv
  PROVE  /\ mountId \in Nat /\ (mountId # 0 => mountId \in Mounts)
         /\ \A m \in Mounts : /\ m \in Nat /\ m # 0
                             /\ (check[m] # "none" \/ note[m] # "none" => m <= mountId)
BY DeviceThreadsAssumption DEF IInv, TypeOK, FutureInv, Mounts

-----------------------------------------------------------------------------
(* The steps.                                                              *)

\* The notification thread is started, ReleaseEvent reset before.
LEMMA StartNotificationThreadKeeps ==
  ASSUME IInv, StartNotificationThread
  PROVE  IInv'
<1> USE DeviceThreadsAssumption DEF mountVars, clockVars, threadVars, releaseVars, derefVars,
         boundVars, history, Mounts, Null
<1>1. /\ \A r \in Releasers : (Releasing(r)' <=> Releasing(r)) /\ (Stuck(r)' <=> Stuck(r))
      /\ \A k \in Mounts : SelfWait(k)' <=> SelfWait(k)
  BY SameWaits DEF StartNotificationThread
<1>2. /\ mountId \in Nat /\ (mountId # 0 => mountId \in Mounts)
      /\ \A k \in Mounts : /\ k \in Nat /\ k # 0
                          /\ (check[k] # "none" \/ note[k] # "none" => k <= mountId)
  BY Latest
<1>3. mountId # 0 /\ (Clean => mounted /\ \A r \in Releasers : ~Releasing(r))
  BY DEF StartNotificationThread, IInv, MountedInv, PointerInv, Clean
<1>4. TypeOK'
  BY <1>2, <1>3 DEF IInv, TypeOK, PointerInv, StartNotificationThread
<1>5. FutureInv'
  BY <1>1, <1>2, <1>3 DEF IInv, TypeOK, FutureInv, Clean, BothEnded, StartNotificationThread
<1>6. OwnReleaseInv'
  BY <1>1, <1>2, <1>3 DEF IInv, TypeOK, FutureInv, OwnReleaseInv, StartNotificationThread
<1>7. PointerInv'
  BY <1>1, <1>2, <1>3 DEF IInv, TypeOK, PointerInv, Clean, BothEnded, StartNotificationThread
<1>8. MountedInv'
  BY <1>1, <1>2, <1>3 DEF IInv, TypeOK, MountedInv, Clean, BothEnded, StartNotificationThread
<1>9. ReleaseInv'
  BY <1>1, <1>2, <1>3 DEF IInv, TypeOK, MountedInv, ReleaseInv, Clean, StartNotificationThread
<1>10. ReleasedInv'
  BY <1>1, <1>2, <1>3 DEF IInv, TypeOK, ReleasedInv, Clean, BothEnded, StartNotificationThread
<1>11. PastInv'
  BY <1>1, <1>2, <1>3 DEF IInv, TypeOK, PastInv, Clean, BothEnded, StartNotificationThread
<1>12. WaitInv'
  BY <1>1, <1>2, <1>3 DEF IInv, TypeOK, WaitInv, Clean, Releasing, Stuck,
     StartNotificationThread
<1>13. OnceInv'
  BY <1>1, <1>2, <1>3 DEF IInv, TypeOK, OnceInv, Clean, BothEnded, StartNotificationThread
<1>14. DerefInv'
  BY <1>1, <1>2, <1>3 DEF IInv, TypeOK, FutureInv, DerefInv, StartNotificationThread
<1> QED BY <1>4, <1>5, <1>6, <1>7, <1>8, <1>9, <1>10, <1>11, <1>12, <1>13, <1>14 DEF IInv

\* The pointer to it is set: nobody waits for it yet.
LEMMA KeepNotificationThreadKeeps ==
  ASSUME IInv, KeepNotificationThread
  PROVE  IInv'
<1> USE DeviceThreadsAssumption DEF mountVars, clockVars, threadVars, releaseVars, derefVars,
         boundVars, history, Mounts, Null
<1>1. /\ \A r \in Releasers : (Releasing(r)' <=> Releasing(r)) /\ (Stuck(r)' <=> Stuck(r))
      /\ \A k \in Mounts : SelfWait(k)' <=> SelfWait(k)
  BY SameWaits DEF KeepNotificationThread
<1>2. /\ mountId \in Nat /\ (mountId # 0 => mountId \in Mounts)
      /\ \A k \in Mounts : /\ k \in Nat /\ k # 0
                          /\ (check[k] # "none" \/ note[k] # "none" => k <= mountId)
  BY Latest
<1>3. mountId # 0 /\ (Clean => mounted /\ \A r \in Releasers : ~Releasing(r))
  BY DEF KeepNotificationThread, IInv, MountedInv, PointerInv, Clean
<1>4. TypeOK'
  BY <1>2, <1>3 DEF IInv, TypeOK, PointerInv, KeepNotificationThread
<1>5. FutureInv'
  BY <1>1, <1>2, <1>3 DEF IInv, TypeOK, FutureInv, Clean, BothEnded, KeepNotificationThread
<1>6. OwnReleaseInv'
  BY <1>1, <1>2, <1>3 DEF IInv, TypeOK, FutureInv, OwnReleaseInv, KeepNotificationThread
<1>7. PointerInv'
  BY <1>1, <1>2, <1>3 DEF IInv, TypeOK, PointerInv, Clean, BothEnded, KeepNotificationThread
<1>8. MountedInv'
  BY <1>1, <1>2, <1>3 DEF IInv, TypeOK, MountedInv, Clean, BothEnded, KeepNotificationThread
<1>9. ReleaseInv'
  BY <1>1, <1>2, <1>3 DEF IInv, TypeOK, MountedInv, ReleaseInv, Clean, KeepNotificationThread
<1>10. ReleasedInv'
  BY <1>1, <1>2, <1>3 DEF IInv, TypeOK, ReleasedInv, Clean, BothEnded, KeepNotificationThread
<1>11. PastInv'
  BY <1>1, <1>2, <1>3 DEF IInv, TypeOK, PastInv, Clean, BothEnded, KeepNotificationThread
<1>12. WaitInv'
  BY <1>1, <1>2, <1>3 DEF IInv, TypeOK, WaitInv, Clean, Releasing, Stuck, KeepNotificationThread
<1>13. OnceInv'
  BY <1>1, <1>2, <1>3 DEF IInv, TypeOK, OnceInv, Clean, BothEnded, KeepNotificationThread
<1>14. DerefInv'
  BY <1>1, <1>2, <1>3 DEF IInv, TypeOK, FutureInv, DerefInv, KeepNotificationThread
<1> QED BY <1>4, <1>5, <1>6, <1>7, <1>8, <1>9, <1>10, <1>11, <1>12, <1>13, <1>14 DEF IInv

\* The timeout thread is started, KillEvent reset before.
LEMMA StartCheckThreadKeeps ==
  ASSUME IInv, StartCheckThread
  PROVE  IInv'
<1> USE DeviceThreadsAssumption DEF mountVars, clockVars, threadVars, releaseVars, derefVars,
         boundVars, history, Mounts, Null
<1>1. /\ \A r \in Releasers : (Releasing(r)' <=> Releasing(r)) /\ (Stuck(r)' <=> Stuck(r))
      /\ \A k \in Mounts : SelfWait(k)' <=> SelfWait(k)
  BY SameWaits DEF StartCheckThread
<1>2. /\ mountId \in Nat /\ (mountId # 0 => mountId \in Mounts)
      /\ \A k \in Mounts : /\ k \in Nat /\ k # 0
                          /\ (check[k] # "none" \/ note[k] # "none" => k <= mountId)
  BY Latest
<1>3. mountId # 0 /\ (Clean => mounted /\ \A r \in Releasers : ~Releasing(r))
  BY DEF StartCheckThread, IInv, MountedInv, PointerInv, Clean
<1>4. TypeOK'
  BY <1>2, <1>3 DEF IInv, TypeOK, PointerInv, StartCheckThread
<1>5. FutureInv'
  BY <1>1, <1>2, <1>3 DEF IInv, TypeOK, FutureInv, Clean, BothEnded, StartCheckThread
<1>6. OwnReleaseInv'
  BY <1>1, <1>2, <1>3 DEF IInv, TypeOK, FutureInv, OwnReleaseInv, StartCheckThread
<1>7. PointerInv'
  BY <1>1, <1>2, <1>3 DEF IInv, TypeOK, PointerInv, Clean, BothEnded, StartCheckThread
<1>8. MountedInv'
  BY <1>1, <1>2, <1>3 DEF IInv, TypeOK, MountedInv, Clean, BothEnded, StartCheckThread
<1>9. ReleaseInv'
  BY <1>1, <1>2, <1>3 DEF IInv, TypeOK, MountedInv, ReleaseInv, Clean, StartCheckThread
<1>10. ReleasedInv'
  BY <1>1, <1>2, <1>3 DEF IInv, TypeOK, ReleasedInv, Clean, BothEnded, StartCheckThread
<1>11. PastInv'
  BY <1>1, <1>2, <1>3 DEF IInv, TypeOK, PastInv, Clean, BothEnded, StartCheckThread
<1>12. WaitInv'
  BY <1>1, <1>2, <1>3 DEF IInv, TypeOK, WaitInv, Clean, Releasing, Stuck, StartCheckThread
<1>13. OnceInv'
  BY <1>1, <1>2, <1>3 DEF IInv, TypeOK, OnceInv, Clean, BothEnded, StartCheckThread
<1>14. DerefInv'
  BY <1>1, <1>2, <1>3 DEF IInv, TypeOK, FutureInv, DerefInv, StartCheckThread
<1> QED BY <1>4, <1>5, <1>6, <1>7, <1>8, <1>9, <1>10, <1>11, <1>12, <1>13, <1>14 DEF IInv

\* The pointer to it is set, and the mount is complete.
LEMMA KeepCheckThreadKeeps ==
  ASSUME IInv, KeepCheckThread
  PROVE  IInv'
<1> USE DeviceThreadsAssumption DEF mountVars, clockVars, threadVars, releaseVars, derefVars,
         boundVars, history, Mounts, Null
<1>1. /\ \A r \in Releasers : (Releasing(r)' <=> Releasing(r)) /\ (Stuck(r)' <=> Stuck(r))
      /\ \A k \in Mounts : SelfWait(k)' <=> SelfWait(k)
  BY SameWaits DEF KeepCheckThread
<1>2. /\ mountId \in Nat /\ (mountId # 0 => mountId \in Mounts)
      /\ \A k \in Mounts : /\ k \in Nat /\ k # 0
                          /\ (check[k] # "none" \/ note[k] # "none" => k <= mountId)
  BY Latest
<1>3. mountId # 0 /\ (Clean => mounted /\ \A r \in Releasers : ~Releasing(r))
  BY DEF KeepCheckThread, IInv, MountedInv, PointerInv, Clean
<1>4. TypeOK'
  BY <1>2, <1>3 DEF IInv, TypeOK, PointerInv, KeepCheckThread
<1>5. FutureInv'
  BY <1>1, <1>2, <1>3 DEF IInv, TypeOK, FutureInv, Clean, BothEnded, KeepCheckThread
<1>6. OwnReleaseInv'
  BY <1>1, <1>2, <1>3 DEF IInv, TypeOK, FutureInv, OwnReleaseInv, KeepCheckThread
<1>7. PointerInv'
  BY <1>1, <1>2, <1>3 DEF IInv, TypeOK, PointerInv, Clean, BothEnded, KeepCheckThread
<1>8. MountedInv'
  BY <1>1, <1>2, <1>3 DEF IInv, TypeOK, MountedInv, Clean, BothEnded, KeepCheckThread
<1>9. ReleaseInv'
  BY <1>1, <1>2, <1>3 DEF IInv, TypeOK, MountedInv, ReleaseInv, Clean, KeepCheckThread
<1>10. ReleasedInv'
  BY <1>1, <1>2, <1>3 DEF IInv, TypeOK, ReleasedInv, Clean, BothEnded, KeepCheckThread
<1>11. PastInv'
  BY <1>1, <1>2, <1>3 DEF IInv, TypeOK, PastInv, Clean, BothEnded, KeepCheckThread
<1>12. WaitInv'
  BY <1>1, <1>2, <1>3 DEF IInv, TypeOK, WaitInv, Clean, Releasing, Stuck, KeepCheckThread
<1>13. OnceInv'
  BY <1>1, <1>2, <1>3 DEF IInv, TypeOK, OnceInv, Clean, BothEnded, KeepCheckThread
<1>14. DerefInv'
  BY <1>1, <1>2, <1>3 DEF IInv, TypeOK, FutureInv, DerefInv, KeepCheckThread
<1> QED BY <1>4, <1>5, <1>6, <1>7, <1>8, <1>9, <1>10, <1>11, <1>12, <1>13, <1>14 DEF IInv

\* A notification thread ends when it is told to.
LEMMA NotificationExitKeeps ==
  ASSUME IInv, NEW m \in Mounts, NotificationExit(m)
  PROVE  IInv'
<1> USE DeviceThreadsAssumption DEF mountVars, clockVars, threadVars, releaseVars, derefVars,
         boundVars, history, Mounts, Null
<1>1. /\ \A r \in Releasers : (Releasing(r)' <=> Releasing(r)) /\ (Stuck(r)' <=> Stuck(r))
      /\ \A k \in Mounts : SelfWait(k)' <=> SelfWait(k)
  BY SameWaits DEF NotificationExit
<1>2. /\ mountId \in Nat /\ (mountId # 0 => mountId \in Mounts)
      /\ \A k \in Mounts : /\ k \in Nat /\ k # 0
                          /\ (check[k] # "none" \/ note[k] # "none" => k <= mountId)
  BY Latest
<1>3. TypeOK'
  BY <1>2 DEF IInv, TypeOK, PointerInv, NotificationExit
<1>4. FutureInv'
  BY <1>2 DEF IInv, TypeOK, FutureInv, PointerInv, NotificationExit
<1>5. OwnReleaseInv'
  BY <1>1, <1>2 DEF IInv, TypeOK, OwnReleaseInv, Clean, BothEnded, NotificationExit
<1>6. PointerInv'
  BY <1>1, <1>2 DEF IInv, TypeOK, PointerInv, Clean, BothEnded, NotificationExit
<1>7. MountedInv'
  BY <1>1, <1>2 DEF IInv, TypeOK, MountedInv, Clean, BothEnded, NotificationExit
<1>8. ReleaseInv'
  BY <1>1, <1>2 DEF IInv, TypeOK, ReleaseInv, Clean, BothEnded, NotificationExit
<1>9. ReleasedInv'
  BY <1>1, <1>2 DEF IInv, TypeOK, ReleasedInv, Clean, BothEnded, NotificationExit
<1>10. PastInv'
  BY <1>1, <1>2 DEF IInv, TypeOK, PastInv, Clean, BothEnded, NotificationExit
<1>11. WaitInv'
  BY <1>1, <1>2 DEF IInv, TypeOK, WaitInv, Clean, BothEnded, NotificationExit
<1>12. OnceInv'
  BY <1>1, <1>2 DEF IInv, TypeOK, OnceInv, Clean, BothEnded, NotificationExit
<1>13. DerefInv'
  BY <1>1, <1>2 DEF IInv, TypeOK, DerefInv, Clean, BothEnded, NotificationExit
<1> QED BY <1>3, <1>4, <1>5, <1>6, <1>7, <1>8, <1>9, <1>10, <1>11, <1>12, <1>13 DEF IInv

\* So does a timeout thread,
LEMMA CheckExitKeeps ==
  ASSUME IInv, NEW m \in Mounts, CheckExit(m)
  PROVE  IInv'
<1> USE DeviceThreadsAssumption DEF mountVars, clockVars, threadVars, releaseVars, derefVars,
         boundVars, history, Mounts, Null
<1>1. /\ \A r \in Releasers : (Releasing(r)' <=> Releasing(r)) /\ (Stuck(r)' <=> Stuck(r))
      /\ \A k \in Mounts : SelfWait(k)' <=> SelfWait(k)
  BY SameWaits DEF CheckExit
<1>2. /\ mountId \in Nat /\ (mountId # 0 => mountId \in Mounts)
      /\ \A k \in Mounts : /\ k \in Nat /\ k # 0
                          /\ (check[k] # "none" \/ note[k] # "none" => k <= mountId)
  BY Latest
<1>3. TypeOK'
  BY <1>2 DEF IInv, TypeOK, PointerInv, CheckExit
<1>4. FutureInv'
  BY <1>2 DEF IInv, TypeOK, FutureInv, PointerInv, CheckExit
<1>5. OwnReleaseInv'
  BY <1>1, <1>2 DEF IInv, TypeOK, OwnReleaseInv, Clean, BothEnded, CheckExit
<1>6. PointerInv'
  BY <1>1, <1>2 DEF IInv, TypeOK, PointerInv, Clean, BothEnded, CheckExit
<1>7. MountedInv'
  BY <1>1, <1>2 DEF IInv, TypeOK, MountedInv, Clean, BothEnded, CheckExit
<1>8. ReleaseInv'
  BY <1>1, <1>2 DEF IInv, TypeOK, ReleaseInv, Clean, BothEnded, CheckExit
<1>9. ReleasedInv'
  BY <1>1, <1>2 DEF IInv, TypeOK, ReleasedInv, Clean, BothEnded, CheckExit
<1>10. PastInv'
  BY <1>1, <1>2 DEF IInv, TypeOK, PastInv, Clean, BothEnded, CheckExit
<1>11. WaitInv'
  BY <1>1, <1>2 DEF IInv, TypeOK, WaitInv, Clean, BothEnded, CheckExit
<1>12. OnceInv'
  BY <1>1, <1>2 DEF IInv, TypeOK, OnceInv, Clean, BothEnded, CheckExit
<1>13. DerefInv'
  BY <1>1, <1>2 DEF IInv, TypeOK, DerefInv, Clean, BothEnded, CheckExit
<1> QED BY <1>3, <1>4, <1>5, <1>6, <1>7, <1>8, <1>9, <1>10, <1>11, <1>12, <1>13 DEF IInv

\* which otherwise goes through its loop.
LEMMA CheckSweepKeeps ==
  ASSUME IInv, NEW m \in Mounts, CheckSweep(m)
  PROVE  IInv'
<1> USE DeviceThreadsAssumption DEF mountVars, clockVars, threadVars, releaseVars, derefVars,
         boundVars, history, Mounts, Null
<1>1. /\ \A r \in Releasers : (Releasing(r)' <=> Releasing(r)) /\ (Stuck(r)' <=> Stuck(r))
      /\ \A k \in Mounts : SelfWait(k)' <=> SelfWait(k)
  BY SameWaits DEF CheckSweep
<1>2. /\ mountId \in Nat /\ (mountId # 0 => mountId \in Mounts)
      /\ \A k \in Mounts : /\ k \in Nat /\ k # 0
                          /\ (check[k] # "none" \/ note[k] # "none" => k <= mountId)
  BY Latest
<1>3. TypeOK'
  BY <1>2 DEF IInv, TypeOK, PointerInv, CheckSweep
<1>4. FutureInv'
  BY <1>2 DEF IInv, TypeOK, FutureInv, PointerInv, CheckSweep
<1>5. OwnReleaseInv'
  BY <1>1, <1>2 DEF IInv, TypeOK, OwnReleaseInv, Clean, BothEnded, CheckSweep
<1>6. PointerInv'
  BY <1>1, <1>2 DEF IInv, TypeOK, PointerInv, Clean, BothEnded, CheckSweep
<1>7. MountedInv'
  BY <1>1, <1>2 DEF IInv, TypeOK, MountedInv, Clean, BothEnded, CheckSweep
<1>8. ReleaseInv'
  BY <1>1, <1>2 DEF IInv, TypeOK, ReleaseInv, Clean, BothEnded, CheckSweep
<1>9. ReleasedInv'
  BY <1>1, <1>2 DEF IInv, TypeOK, ReleasedInv, Clean, BothEnded, CheckSweep
<1>10. PastInv'
  BY <1>1, <1>2 DEF IInv, TypeOK, PastInv, Clean, BothEnded, CheckSweep
<1>11. WaitInv'
  BY <1>1, <1>2 DEF IInv, TypeOK, WaitInv, Clean, BothEnded, CheckSweep
<1>12. OnceInv'
  BY <1>1, <1>2 DEF IInv, TypeOK, OnceInv, Clean, BothEnded, CheckSweep
<1>13. DerefInv'
  BY <1>1, <1>2 DEF IInv, TypeOK, DerefInv, Clean, BothEnded, CheckSweep
<1> QED BY <1>3, <1>4, <1>5, <1>6, <1>7, <1>8, <1>9, <1>10, <1>11, <1>12, <1>13 DEF IInv

\* It looks at the clock.
LEMMA CheckKeepAliveKeeps ==
  ASSUME IInv, NEW m \in Mounts, CheckKeepAlive(m)
  PROVE  IInv'
<1> USE DeviceThreadsAssumption DEF mountVars, clockVars, threadVars, releaseVars, derefVars,
         boundVars, history, Mounts, Null
<1>1. /\ \A r \in Releasers : (Releasing(r)' <=> Releasing(r)) /\ (Stuck(r)' <=> Stuck(r))
      /\ \A k \in Mounts : SelfWait(k)' <=> SelfWait(k)
  BY SameWaits DEF CheckKeepAlive
<1>2. /\ mountId \in Nat /\ (mountId # 0 => mountId \in Mounts)
      /\ \A k \in Mounts : /\ k \in Nat /\ k # 0
                          /\ (check[k] # "none" \/ note[k] # "none" => k <= mountId)
  BY Latest
<1>3. TypeOK'
  BY <1>2 DEF IInv, TypeOK, PointerInv, CheckKeepAlive
<1>4. FutureInv'
  BY <1>2 DEF IInv, TypeOK, FutureInv, PointerInv, CheckKeepAlive
<1>5. OwnReleaseInv'
  BY <1>1, <1>2 DEF IInv, TypeOK, OwnReleaseInv, Clean, BothEnded, CheckKeepAlive
<1>6. PointerInv'
  BY <1>1, <1>2 DEF IInv, TypeOK, PointerInv, Clean, BothEnded, CheckKeepAlive
<1>7. MountedInv'
  BY <1>1, <1>2 DEF IInv, TypeOK, MountedInv, Clean, BothEnded, CheckKeepAlive
<1>8. ReleaseInv'
  BY <1>1, <1>2 DEF IInv, TypeOK, ReleaseInv, Clean, BothEnded, CheckKeepAlive
<1>9. ReleasedInv'
  BY <1>1, <1>2 DEF IInv, TypeOK, ReleasedInv, Clean, BothEnded, CheckKeepAlive
<1>10. PastInv'
  BY <1>1, <1>2 DEF IInv, TypeOK, PastInv, Clean, BothEnded, CheckKeepAlive
<1>11. WaitInv'
  BY <1>1, <1>2 DEF IInv, TypeOK, WaitInv, Clean, BothEnded, CheckKeepAlive
<1>12. OnceInv'
  BY <1>1, <1>2 DEF IInv, TypeOK, OnceInv, Clean, BothEnded, CheckKeepAlive
<1>13. DerefInv'
  BY <1>1, <1>2 DEF IInv, TypeOK, DerefInv, Clean, BothEnded, CheckKeepAlive
<1> QED BY <1>3, <1>4, <1>5, <1>6, <1>7, <1>8, <1>9, <1>10, <1>11, <1>12, <1>13 DEF IInv

\* Time, the keep-alives and the end of the application.
LEMMA ClockKeeps ==
  ASSUME IInv, Tick \/ KeepAlive \/ ApplicationDies
  PROVE  IInv'
<1> USE DeviceThreadsAssumption DEF mountVars, threadVars, releaseVars, derefVars, boundVars,
         history, Mounts, Null
<1>1. TypeOK'
  <2>1. CASE Tick
    BY <2>1 DEF IInv, TypeOK, Tick
  <2>2. CASE KeepAlive
    <3>1. silent' \in 0..KeepAliveTicks
      BY <2>2 DEF KeepAlive
    <3> QED BY <3>1, <2>2 DEF IInv, TypeOK, KeepAlive
  <2>3. CASE ApplicationDies
    BY <2>3 DEF IInv, TypeOK, ApplicationDies
  <2> QED BY <2>1, <2>2, <2>3
<1>2. UNCHANGED <<mountVars, threadVars, check, note, releaseVars, derefVars, history>>
  BY DEF Tick, KeepAlive, ApplicationDies
<1> QED BY <1>1, <1>2 DEF IInv, FutureInv, OwnReleaseInv, PointerInv, MountedInv, ReleaseInv,
     ReleasedInv, PastInv, WaitInv, OnceInv, DerefInv, Clean, BothEnded, Releasing, Stuck, SelfWait

\* A mount starts: if it is clean, nobody is in a release but those that hang, and the
\* mount before is over or hangs.
LEMMA EventStartKeeps ==
  ASSUME IInv, EventStart
  PROVE  IInv'
<1> USE DeviceThreadsAssumption DEF mountVars, clockVars, threadVars, releaseVars, derefVars,
         boundVars, history, Mounts, Null
<1>1. /\ \A r \in Releasers : (Releasing(r)' <=> Releasing(r)) /\ (Stuck(r)' <=> Stuck(r))
      /\ \A k \in Mounts : SelfWait(k)' <=> SelfWait(k)
  BY SameWaits DEF EventStart
<1>2. /\ mountId \in Nat /\ (mountId # 0 => mountId \in Mounts)
      /\ \A k \in Mounts : /\ k \in Nat /\ k # 0
                          /\ (check[k] # "none" \/ note[k] # "none" => k <= mountId)
  BY Latest
<1>3. Clean' => /\ \A r \in Releasers : ~Releasing(r)
                /\ Clean => BothEnded(mountId) \/ SelfWait(mountId)
  BY DEF EventStart, IInv, TypeOK, ReleasedInv, Quiet, Clean, Releasing
<1>4. /\ mountId' = mountId + 1 /\ mounted' = TRUE /\ starting' = "mounted" /\ ~mounted
      /\ starting = "no" /\ mountId' \in Mounts
      /\ overlapped \subseteq overlapped' /\ overlapped' \subseteq overlapped \cup {mountId'}
  BY <1>2 DEF EventStart, IInv, TypeOK
<1>5. UNCHANGED <<threadVars, check, note, releaseVars, derefVars, twice>>
  BY DEF EventStart
<1>6. TypeOK'
  BY <1>2, <1>4 DEF IInv, TypeOK, EventStart
<1>7. FutureInv'
  BY <1>1, <1>2, <1>3, <1>4, <1>5 DEF IInv, TypeOK, FutureInv, Clean, BothEnded
<1>8. OwnReleaseInv'
  BY <1>1, <1>2, <1>3, <1>4, <1>5 DEF IInv, TypeOK, OwnReleaseInv, FutureInv, Clean, BothEnded
<1>9. PointerInv'
  BY <1>1, <1>2, <1>3, <1>4, <1>5 DEF IInv, TypeOK, PointerInv
<1>10. MountedInv'
  BY <1>1, <1>2, <1>3, <1>4, <1>5 DEF IInv, TypeOK, MountedInv, FutureInv, Clean, BothEnded
<1>11. ReleaseInv'
  BY <1>1, <1>2, <1>3, <1>4, <1>5 DEF IInv, TypeOK, ReleaseInv, FutureInv, Clean, BothEnded
<1>12. ReleasedInv'
  BY <1>1, <1>2, <1>3, <1>4, <1>5 DEF IInv, TypeOK, ReleasedInv, FutureInv, Clean, BothEnded
<1>13. PastInv'
  <2> SUFFICES ASSUME NEW m \in Mounts, m < mountId + 1, m \notin overlapped', m + 1 \notin overlapped'
               PROVE  BothEnded(m)' \/ SelfWait(m)'
    BY <1>4 DEF PastInv
  <2>1. CASE m = mountId
    BY <2>1, <1>1, <1>2, <1>3, <1>4, <1>5 DEF Clean, BothEnded
  <2>2. CASE m < mountId
    BY <2>2, <1>1, <1>4, <1>5 DEF IInv, PastInv, BothEnded
  <2> QED BY <2>1, <2>2, <1>2
<1>14. WaitInv'
  BY <1>1, <1>2, <1>3, <1>4, <1>5 DEF IInv, TypeOK, WaitInv, FutureInv, Clean, BothEnded
<1>15. OnceInv'
  BY <1>1, <1>2, <1>3, <1>4, <1>5 DEF IInv, TypeOK, OnceInv, FutureInv, Clean
<1>16. DerefInv'
  <2>1. ASSUME NEW m \in Mounts \ overlapped', m < mountId + 1, m \notin twice, m + 1 \notin overlapped'
        PROVE  checkDerefs[m] <= 1 /\ noteDerefs[m] <= 1
    <3>1. CASE m = mountId
      BY <2>1, <3>1, <1>2, <1>4 DEF IInv, OnceInv, Clean
    <3>2. CASE m < mountId
      BY <2>1, <3>2, <1>4 DEF IInv, DerefInv
    <3> QED BY <2>1, <3>1, <3>2, <1>2
  <2> QED BY <2>1, <1>4, <1>5 DEF IInv, DerefInv
<1> QED BY <1>6, <1>7, <1>8, <1>9, <1>10, <1>11, <1>12, <1>13, <1>14, <1>15, <1>16 DEF IInv

\* A process begins a release: of a clean mount only when it has been started.
LEMMA UserReleaseKeeps ==
  ASSUME IInv, NEW r \in Users, UserRelease(r)
  PROVE  IInv'
<1> USE DeviceThreadsAssumption DEF mountVars, clockVars, threadVars, releaseVars, derefVars,
         boundVars, history, Mounts, Null
<1>1. /\ mountId \in Nat /\ (mountId # 0 => mountId \in Mounts)
      /\ \A k \in Mounts : /\ k \in Nat /\ k # 0
                          /\ (check[k] # "none" \/ note[k] # "none" => k <= mountId)
  BY Latest
<1>2. /\ mounted' = FALSE /\ step' = [step EXCEPT ![r] = "unmounted"]
      /\ UNCHANGED <<mountId, starting, threadVars, note, target, derefVars>>
      /\ overlapped' = IF starting = "no" THEN overlapped ELSE overlapped \cup {mountId}
      /\ twice' = IF mounted THEN twice ELSE twice \cup ({mountId} \cap Mounts)
  BY DEF UserRelease, BeginRelease
<1>3. /\ step[r] = "idle" /\ ~Stuck(r) /\ r \in Releasers /\ step'[r] = "unmounted"
      /\ step' = [step EXCEPT ![r] = step'[r]] /\ target' = [target EXCEPT ![r] = target'[r]]
  BY <1>2 DEF UserRelease, IInv, TypeOK, Stuck, Releasers
<1>4. /\ \A k \in Mounts : SelfWait(k) => SelfWait(k)'
      /\ \A s \in Releasers \ {r} : /\ Releasing(s)' => Releasing(s)
                                    /\ Stuck(s) => Stuck(s)'
                                    /\ step'[s] = step[s] /\ target'[s] = target[s]
  BY <1>3, StillHangs
<1>5. Releasing(r)' /\ ~Stuck(r)'
  BY <1>3 DEF Releasing, Stuck
<1>6. /\ Clean' => Clean /\ starting = "no"
      /\ (Clean /\ mounted => \A s \in Releasers : ~Releasing(s))
  BY <1>2 DEF Clean, IInv, MountedInv
<1>7. check' = check /\ r \notin Mounts
  BY DEF UserRelease
<1>8. TypeOK'
  <2>1. step' \in [Releasers -> {"idle", "unmounted", "killing", "waitCheck", "checkStopped",
                                 "telling", "waitNote", "clearing"}]
    BY <1>2 DEF IInv, TypeOK
  <2>2. \A s \in Releasers : step'[s] \in {"waitCheck", "waitNote"} => target[s] # Null
    BY <1>2 DEF IInv, TypeOK
  <2>3. mounted' \in BOOLEAN /\ overlapped' \subseteq Mounts /\ twice' \subseteq Mounts
    BY <1>1, <1>2 DEF IInv, TypeOK, PointerInv
  <2>4. releases' \in Nat /\ UNCHANGED <<mountId, starting, useKeepAlive, clockVars, threadVars, check,
                                         note, target, derefVars, notices>>
    BY DEF UserRelease, IInv, TypeOK
  <2> QED BY <2>1, <2>2, <2>3, <2>4 DEF IInv, TypeOK
<1>9. FutureInv'
  BY <1>1, <1>2, <1>3, <1>4, <1>5, <1>6, <1>7 DEF IInv, TypeOK, FutureInv, Releasers, Clean,
     BothEnded
<1>10. OwnReleaseInv'
  BY <1>1, <1>2, <1>3, <1>4, <1>5, <1>6, <1>7 DEF IInv, TypeOK, OwnReleaseInv, Releasers,
     Clean, BothEnded
<1>11. PointerInv'
  BY <1>1, <1>2, <1>3, <1>4, <1>5, <1>6, <1>7 DEF IInv, TypeOK, PointerInv, Clean, BothEnded
<1>12. MountedInv'
  BY <1>1, <1>2, <1>3, <1>4, <1>5, <1>6, <1>7 DEF IInv, TypeOK, MountedInv, Clean, BothEnded
<1>13. ReleaseInv'
  BY <1>1, <1>2, <1>3, <1>4, <1>5, <1>6, <1>7 DEF IInv, TypeOK, ReleaseInv, Clean, BothEnded
<1>14. ReleasedInv'
  BY <1>1, <1>2, <1>3, <1>4, <1>5, <1>6, <1>7 DEF IInv, TypeOK, ReleasedInv, Clean, BothEnded
<1>15. PastInv'
  BY <1>1, <1>2, <1>3, <1>4, <1>5, <1>6, <1>7 DEF IInv, TypeOK, PastInv, Clean, BothEnded
<1>16. WaitInv'
  BY <1>1, <1>2, <1>3, <1>4, <1>5, <1>6, <1>7 DEF IInv, TypeOK, WaitInv, Clean, BothEnded
<1>17. OnceInv'
  BY <1>1, <1>2, <1>3, <1>4, <1>5, <1>6, <1>7 DEF IInv, TypeOK, OnceInv, MountedInv, Clean,
     BothEnded
<1>18. DerefInv'
  BY <1>1, <1>2, <1>3, <1>4, <1>5, <1>6, <1>7 DEF IInv, TypeOK, DerefInv, Clean, BothEnded
<1> QED BY <1>8, <1>9, <1>10, <1>11, <1>12, <1>13, <1>14, <1>15, <1>16, <1>17, <1>18 DEF IInv

\* So does a timeout thread.
LEMMA ForceUnmountKeeps ==
  ASSUME IInv, NEW r \in Mounts, ForceUnmount(r)
  PROVE  IInv'
<1> USE DeviceThreadsAssumption DEF mountVars, clockVars, threadVars, releaseVars, derefVars,
         boundVars, history, Mounts, Null
<1>1. /\ mountId \in Nat /\ (mountId # 0 => mountId \in Mounts)
      /\ \A k \in Mounts : /\ k \in Nat /\ k # 0
                          /\ (check[k] # "none" \/ note[k] # "none" => k <= mountId)
  BY Latest
<1>2. /\ mounted' = FALSE /\ step' = [step EXCEPT ![r] = "unmounted"]
      /\ UNCHANGED <<mountId, starting, threadVars, note, target, derefVars>>
      /\ overlapped' = IF starting = "no" THEN overlapped ELSE overlapped \cup {mountId}
      /\ twice' = IF mounted THEN twice ELSE twice \cup ({mountId} \cap Mounts)
  BY DEF ForceUnmount, BeginRelease
<1>3. /\ step[r] = "idle" /\ ~Stuck(r) /\ r \in Releasers /\ step'[r] = "unmounted"
      /\ step' = [step EXCEPT ![r] = step'[r]] /\ target' = [target EXCEPT ![r] = target'[r]]
  <2>1. step[r] = "idle" /\ r \in Releasers
    BY DEF ForceUnmount, IInv, OwnReleaseInv, Releasers
  <2> QED BY <2>1, <1>2 DEF IInv, TypeOK, Stuck
<1>4. /\ \A k \in Mounts : SelfWait(k) => SelfWait(k)'
      /\ \A s \in Releasers \ {r} : /\ Releasing(s)' => Releasing(s)
                                    /\ Stuck(s) => Stuck(s)'
                                    /\ step'[s] = step[s] /\ target'[s] = target[s]
  BY <1>3, StillHangs
<1>5. Releasing(r)' /\ ~Stuck(r)'
  BY <1>3 DEF Releasing, Stuck
<1>6. /\ Clean' => Clean /\ starting = "no"
      /\ (Clean /\ mounted => \A s \in Releasers : ~Releasing(s))
  BY <1>2 DEF Clean, IInv, MountedInv
<1>7. check' = [check EXCEPT ![r] = "releasing"] /\ check[r] = "forcing"
  BY DEF ForceUnmount
<1>8. TypeOK'
  <2>1. notices' \subseteq Mounts
    BY <1>1, <1>7 DEF ForceUnmount, IInv, TypeOK
  <2>2. /\ step' \in [Releasers -> {"idle", "unmounted", "killing", "waitCheck", "checkStopped",
                                    "telling", "waitNote", "clearing"}]
        /\ \A s \in Releasers : step'[s] \in {"waitCheck", "waitNote"} => target[s] # Null
    BY <1>2 DEF IInv, TypeOK
  <2>3. check' \in [Mounts -> {"none", "waiting", "sweeping", "forcing", "releasing", "ended"}]
    BY <1>7 DEF IInv, TypeOK
  <2>4. mounted' \in BOOLEAN /\ overlapped' \subseteq Mounts /\ twice' \subseteq Mounts
    BY <1>1, <1>2 DEF IInv, TypeOK, PointerInv
  <2> QED BY <2>1, <2>2, <2>3, <2>4 DEF ForceUnmount, IInv, TypeOK
<1>9. FutureInv'
  BY <1>1, <1>2, <1>3, <1>4, <1>5, <1>6, <1>7 DEF IInv, TypeOK, FutureInv, Clean, BothEnded
<1>10. OwnReleaseInv'
  BY <1>1, <1>2, <1>3, <1>4, <1>5, <1>6, <1>7 DEF IInv, TypeOK, OwnReleaseInv, Clean, BothEnded
<1>11. PointerInv'
  BY <1>1, <1>2, <1>3, <1>4, <1>5, <1>6, <1>7 DEF IInv, TypeOK, PointerInv, Clean, BothEnded
<1>12. MountedInv'
  BY <1>1, <1>2, <1>3, <1>4, <1>5, <1>6, <1>7 DEF IInv, TypeOK, MountedInv, Clean, BothEnded
<1>13. ReleaseInv'
  BY <1>1, <1>2, <1>3, <1>4, <1>5, <1>6, <1>7 DEF IInv, TypeOK, ReleaseInv, Clean, BothEnded
<1>14. ReleasedInv'
  BY <1>1, <1>2, <1>3, <1>4, <1>5, <1>6, <1>7 DEF IInv, TypeOK, ReleasedInv, Clean, BothEnded
<1>15. PastInv'
  BY <1>1, <1>2, <1>3, <1>4, <1>5, <1>6, <1>7 DEF IInv, TypeOK, PastInv, Clean, BothEnded
<1>16. WaitInv'
  BY <1>1, <1>2, <1>3, <1>4, <1>5, <1>6, <1>7 DEF IInv, TypeOK, WaitInv, Clean, BothEnded
<1>17. OnceInv'
  BY <1>1, <1>2, <1>3, <1>4, <1>5, <1>6, <1>7 DEF IInv, TypeOK, OnceInv, MountedInv, Clean,
     BothEnded
<1>18. DerefInv'
  BY <1>1, <1>2, <1>3, <1>4, <1>5, <1>6, <1>7 DEF IInv, TypeOK, DerefInv, Clean, BothEnded
<1> QED BY <1>8, <1>9, <1>10, <1>11, <1>12, <1>13, <1>14, <1>15, <1>16, <1>17, <1>18 DEF IInv

\* KillEvent is set.
LEMMA StopCheckThreadKeeps ==
  ASSUME IInv, NEW r \in Releasers, StopCheckThread(r)
  PROVE  IInv'
<1> USE DeviceThreadsAssumption DEF mountVars, clockVars, threadVars, releaseVars, derefVars,
         boundVars, history, Mounts, Null
<1>1. /\ mountId \in Nat /\ (mountId # 0 => mountId \in Mounts)
      /\ \A k \in Mounts : /\ k \in Nat /\ k # 0
                          /\ (check[k] # "none" \/ note[k] # "none" => k <= mountId)
  BY Latest
<1>2. Releasing(r) /\ ~Stuck(r) /\ r \in Releasers
  BY GoesOn DEF StopCheckThread
<1>3. /\ step' = [step EXCEPT ![r] = step'[r]] /\ target' = [target EXCEPT ![r] = target'[r]]
      /\ step[r] = "unmounted" /\ step'[r] = "killing"
  BY <1>1, <1>2 DEF StopCheckThread, Return, IInv, TypeOK, PointerInv
<1>4. /\ \A k \in Mounts : SelfWait(k) => SelfWait(k)'
      /\ \A s \in Releasers \ {r} : /\ Releasing(s)' => Releasing(s)
                                    /\ Stuck(s) => Stuck(s)'
                                    /\ step'[s] = step[s] /\ target'[s] = target[s]
  BY <1>2, <1>3, StillHangs
<1>5. Clean => ~mounted /\ starting = "no" /\ starting' = "no"
  BY <1>2 DEF StopCheckThread, IInv, MountedInv
<1>6. UNCHANGED <<mounted, mountId, starting, overlapped, twice,
                  timeoutThread, notificationThread, releaseEvent, check, note, target, derefVars>>
  BY DEF StopCheckThread
<1>7. Clean' <=> Clean
  BY <1>6 DEF Clean
<1>8. Releasing(r)' /\ ~Stuck(r)'
  BY <1>3 DEF Releasing, Stuck
<1>9. TypeOK'
  BY <1>1, <1>2 DEF IInv, TypeOK, PointerInv, Return, StopCheckThread
<1>10. FutureInv'
  BY <1>1, <1>2, <1>3, <1>4, <1>5, <1>6, <1>7, <1>8 DEF IInv, TypeOK, FutureInv, Releasers,
     Clean, BothEnded
<1>11. OwnReleaseInv'
  BY <1>1, <1>2, <1>3, <1>4, <1>5, <1>6, <1>7, <1>8 DEF IInv, TypeOK, OwnReleaseInv,
     Releasers, Clean, BothEnded
<1>12. PointerInv'
  BY <1>1, <1>2, <1>3, <1>4, <1>5, <1>6, <1>7, <1>8 DEF IInv, TypeOK, PointerInv, Clean,
     BothEnded
<1>13. MountedInv'
  BY <1>1, <1>2, <1>3, <1>4, <1>5, <1>6, <1>7, <1>8 DEF IInv, TypeOK, MountedInv, Clean,
     BothEnded
<1>14. ReleaseInv'
  BY <1>1, <1>2, <1>3, <1>4, <1>5, <1>6, <1>7, <1>8 DEF IInv, TypeOK, ReleaseInv, Clean,
     BothEnded
<1>15. ReleasedInv'
  BY <1>1, <1>2, <1>3, <1>4, <1>5, <1>6, <1>7, <1>8 DEF IInv, TypeOK, ReleasedInv, Clean,
     BothEnded
<1>16. PastInv'
  BY <1>1, <1>2, <1>3, <1>4, <1>5, <1>6, <1>7, <1>8 DEF IInv, TypeOK, PastInv, Clean, BothEnded
<1>17. WaitInv'
  BY <1>1, <1>2, <1>3, <1>4, <1>5, <1>6, <1>7, <1>8 DEF IInv, TypeOK, WaitInv, Clean, BothEnded
<1>18. OnceInv'
  <2> SUFFICES ASSUME Clean, mountId \notin twice PROVE OnceInv'
    BY <1>6, <1>7 DEF OnceInv
  <2>1. ASSUME NEW s \in Releasers, Releasing(s)' PROVE s = r
    BY <2>1, <1>2, <1>4 DEF IInv, OnceInv
  <2>2. /\ notificationThread = mountId /\ checkDerefs[mountId] <= 1 /\ noteDerefs[mountId] <= 1
        /\ step[r] \in {"unmounted", "killing", "waitCheck"} => checkDerefs[mountId] = 0
        /\ step[r] # "clearing" => noteDerefs[mountId] = 0
    BY <1>2 DEF IInv, OnceInv
  <2> QED BY <2>1, <2>2, <1>1, <1>2, <1>3, <1>4, <1>5, <1>6, <1>7, <1>8 DEF IInv, TypeOK,
         OnceInv, Clean
<1>19. DerefInv'
  BY <1>1, <1>2, <1>3, <1>4, <1>5, <1>6, <1>7, <1>8 DEF IInv, TypeOK, DerefInv, Clean, BothEnded
<1> QED BY <1>9, <1>10, <1>11, <1>12, <1>13, <1>14, <1>15, <1>16, <1>17, <1>18, <1>19 DEF IInv

\* The wait for the timeout thread begins; the thread itself hangs in it.
LEMMA AwaitCheckThreadKeeps ==
  ASSUME IInv, NEW r \in Releasers, AwaitCheckThread(r)
  PROVE  IInv'
<1> USE DeviceThreadsAssumption DEF mountVars, clockVars, threadVars, releaseVars, derefVars,
         boundVars, history, Mounts, Null
<1>1. /\ mountId \in Nat /\ (mountId # 0 => mountId \in Mounts)
      /\ \A k \in Mounts : /\ k \in Nat /\ k # 0
                          /\ (check[k] # "none" \/ note[k] # "none" => k <= mountId)
  BY Latest
<1>2. Releasing(r) /\ ~Stuck(r) /\ r \in Releasers
  BY GoesOn DEF AwaitCheckThread
<1>3. /\ step' = [step EXCEPT ![r] = step'[r]] /\ target' = [target EXCEPT ![r] = target'[r]]
      /\ step[r] = "killing" /\ target'[r] = timeoutThread
      /\ step'[r] = IF timeoutThread = Null THEN "checkStopped" ELSE "waitCheck"
  BY <1>1, <1>2 DEF AwaitCheckThread, Return, IInv, TypeOK, PointerInv
<1>4. /\ \A k \in Mounts : SelfWait(k) => SelfWait(k)'
      /\ \A s \in Releasers \ {r} : /\ Releasing(s)' => Releasing(s)
                                    /\ Stuck(s) => Stuck(s)'
                                    /\ step'[s] = step[s] /\ target'[s] = target[s]
  BY <1>2, <1>3, StillHangs
<1>5. Clean => ~mounted /\ starting = "no" /\ starting' = "no"
  BY <1>2 DEF AwaitCheckThread, IInv, MountedInv
<1>6. UNCHANGED <<mounted, mountId, starting, overlapped, twice,
                  threadVars, check, note, derefVars>>
  BY DEF AwaitCheckThread
<1>7. Clean' <=> Clean
  BY <1>6 DEF Clean
<1>8. timeoutThread # Null => Stuck(r)' \/ Releasing(r)'
  BY <1>3 DEF Releasing
<1>9. Clean => timeoutThread = mountId
  BY <1>5 DEF IInv, PointerInv
<1>10. Clean => Releasing(r)' \/ SelfWait(mountId)'
  BY <1>1, <1>3, <1>6, <1>9 DEF Releasing, Stuck, Clean, IInv, TypeOK
<1>11. TypeOK'
  BY <1>1, <1>2 DEF IInv, TypeOK, PointerInv, Return, AwaitCheckThread
<1>12. FutureInv'
  BY <1>1, <1>2, <1>3, <1>4, <1>5, <1>6, <1>7, <1>8, <1>9, <1>10 DEF IInv, TypeOK, FutureInv,
     Releasers, Clean, BothEnded
<1>13. OwnReleaseInv'
  BY <1>1, <1>2, <1>3, <1>4, <1>5, <1>6, <1>7, <1>8, <1>9, <1>10 DEF IInv, TypeOK,
     OwnReleaseInv, Releasers, Clean, BothEnded
<1>14. PointerInv'
  BY <1>1, <1>2, <1>3, <1>4, <1>5, <1>6, <1>7, <1>8, <1>9, <1>10 DEF IInv, TypeOK, PointerInv,
     Clean, BothEnded
<1>15. MountedInv'
  BY <1>1, <1>2, <1>3, <1>4, <1>5, <1>6, <1>7, <1>8, <1>9, <1>10 DEF IInv, TypeOK, MountedInv,
     Clean, BothEnded
<1>16. ReleaseInv'
  BY <1>1, <1>2, <1>3, <1>4, <1>5, <1>6, <1>7, <1>8, <1>9, <1>10 DEF IInv, TypeOK, ReleaseInv,
     Clean, BothEnded
<1>17. ReleasedInv'
  BY <1>1, <1>2, <1>3, <1>4, <1>5, <1>6, <1>7, <1>8, <1>9, <1>10 DEF IInv, TypeOK,
     ReleasedInv, Clean, BothEnded
<1>18. PastInv'
  BY <1>1, <1>2, <1>3, <1>4, <1>5, <1>6, <1>7, <1>8, <1>9, <1>10 DEF IInv, TypeOK, PastInv,
     Clean, BothEnded
<1>19. WaitInv'
  BY <1>1, <1>2, <1>3, <1>4, <1>5, <1>6, <1>7, <1>8, <1>9, <1>10 DEF IInv, TypeOK, WaitInv,
     Clean, BothEnded
<1>20. OnceInv'
  <2> SUFFICES ASSUME Clean, mountId \notin twice PROVE OnceInv'
    BY <1>6, <1>7 DEF OnceInv
  <2>1. ASSUME NEW s \in Releasers, Releasing(s)' PROVE s = r
    BY <2>1, <1>2, <1>4 DEF IInv, OnceInv
  <2>2. /\ notificationThread = mountId /\ checkDerefs[mountId] <= 1 /\ noteDerefs[mountId] <= 1
        /\ step[r] \in {"unmounted", "killing", "waitCheck"} => checkDerefs[mountId] = 0
        /\ step[r] # "clearing" => noteDerefs[mountId] = 0
    BY <1>2 DEF IInv, OnceInv
  <2> QED BY <2>1, <2>2, <1>1, <1>2, <1>3, <1>4, <1>5, <1>6, <1>7, <1>8, <1>9, <1>10 DEF IInv,
         TypeOK, OnceInv, Clean
<1>21. DerefInv'
  BY <1>1, <1>2, <1>3, <1>4, <1>5, <1>6, <1>7, <1>8, <1>9, <1>10 DEF IInv, TypeOK, DerefInv,
     Clean, BothEnded
<1> QED BY <1>11, <1>12, <1>13, <1>14, <1>15, <1>16, <1>17, <1>18, <1>19, <1>20, <1>21 DEF IInv

\* The timeout thread has ended and is dereferenced.
LEMMA CheckStoppedKeeps ==
  ASSUME IInv, NEW r \in Releasers, CheckStopped(r)
  PROVE  IInv'
<1> USE DeviceThreadsAssumption DEF mountVars, clockVars, threadVars, releaseVars, derefVars,
         boundVars, history, Mounts, Null
<1>1. /\ mountId \in Nat /\ (mountId # 0 => mountId \in Mounts)
      /\ \A k \in Mounts : /\ k \in Nat /\ k # 0
                          /\ (check[k] # "none" \/ note[k] # "none" => k <= mountId)
  BY Latest
<1>2. Releasing(r) /\ ~Stuck(r) /\ r \in Releasers
  BY GoesOn DEF CheckStopped
<1>3. /\ step' = [step EXCEPT ![r] = step'[r]] /\ target' = [target EXCEPT ![r] = target'[r]]
      /\ step[r] = "waitCheck" /\ check[target[r]] = "ended" /\ step'[r] = "checkStopped"
  BY <1>1, <1>2 DEF CheckStopped, Return, IInv, TypeOK, PointerInv
<1>4. /\ \A k \in Mounts : SelfWait(k) => SelfWait(k)'
      /\ \A s \in Releasers \ {r} : /\ Releasing(s)' => Releasing(s)
                                    /\ Stuck(s) => Stuck(s)'
                                    /\ step'[s] = step[s] /\ target'[s] = target[s]
  BY <1>2, <1>3, StillHangs
<1>5. Clean => ~mounted /\ starting = "no" /\ starting' = "no"
  BY <1>2 DEF CheckStopped, IInv, MountedInv
<1>6. UNCHANGED <<mounted, mountId, starting, overlapped, twice,
                  threadVars, check, note, target, noteDerefs>>
  BY DEF CheckStopped
<1>7. Clean' <=> Clean
  BY <1>6 DEF Clean
<1>8. Releasing(r)' /\ ~Stuck(r)'
  BY <1>3 DEF Releasing, Stuck
<1>9. /\ timeoutThread \in Mounts /\ checkDerefs' = [checkDerefs EXCEPT ![timeoutThread] = @ + 1]
      /\ timeoutThread \notin overlapped => target[r] = timeoutThread
      /\ timeoutThread <= mountId /\ (Clean => timeoutThread = mountId)
  BY <1>1, <1>2, <1>3, <1>5 DEF CheckStopped, IInv, TypeOK, PointerInv, WaitInv
<1>10. TypeOK'
  <2>1. step' \in [Releasers -> {"idle", "unmounted", "killing", "waitCheck", "checkStopped",
                                 "telling", "waitNote", "clearing"}]
    BY <1>3 DEF IInv, TypeOK
  <2>2. \A s \in Releasers : step'[s] \in {"waitCheck", "waitNote"} => target[s] # Null
    BY <1>3 DEF IInv, TypeOK
  <2>3. checkDerefs' \in [Mounts \cup {Null} -> Nat]
    <3>1. checkDerefs \in [Mounts \cup {Null} -> Nat]
      BY DEF IInv, TypeOK
    <3>2. /\ timeoutThread \in Mounts \cup {Null}
          /\ checkDerefs' = [checkDerefs EXCEPT ![timeoutThread] = @ + 1]
      BY <1>9
    <3> HIDE DEF Mounts, Null
    <3> QED BY <3>1, <3>2
  <2> QED BY <2>1, <2>2, <2>3 DEF CheckStopped, IInv, TypeOK
<1>11. FutureInv'
  <2>1. ASSUME NEW m \in Mounts, m > mountId
        PROVE  step'[m] = "idle" /\ checkDerefs'[m] = 0 /\ noteDerefs'[m] = 0
    <3>1. step'[m] = "idle"
      BY <2>1, <1>3, <1>4 DEF IInv, FutureInv, Releasers
    <3>2. checkDerefs'[m] = 0 /\ noteDerefs'[m] = 0
      BY <2>1, <1>1, <1>9, <1>6 DEF IInv, TypeOK, FutureInv
    <3> QED BY <3>1, <3>2
  <2>2. \A m \in Mounts : check'[m] = "none" <=> check[m] = "none"
    BY <1>6
  <2> QED BY <2>1, <2>2, <1>6 DEF IInv, FutureInv
<1>12. OwnReleaseInv'
  BY <1>1, <1>2, <1>3, <1>4, <1>5, <1>6, <1>7, <1>8, <1>9 DEF IInv, TypeOK, OwnReleaseInv,
     Releasers, Clean, BothEnded
<1>13. PointerInv'
  BY <1>1, <1>2, <1>3, <1>4, <1>5, <1>6, <1>7, <1>8, <1>9 DEF IInv, TypeOK, PointerInv, Clean,
     BothEnded
<1>14. MountedInv'
  BY <1>1, <1>2, <1>3, <1>4, <1>5, <1>6, <1>7, <1>8, <1>9 DEF IInv, TypeOK, MountedInv, Clean,
     BothEnded
<1>15. ReleaseInv'
  BY <1>1, <1>2, <1>3, <1>4, <1>5, <1>6, <1>7, <1>8, <1>9 DEF IInv, TypeOK, ReleaseInv, Clean,
     BothEnded
<1>16. ReleasedInv'
  BY <1>1, <1>2, <1>3, <1>4, <1>5, <1>6, <1>7, <1>8, <1>9 DEF IInv, TypeOK, ReleasedInv,
     Clean, BothEnded
<1>17. PastInv'
  BY <1>1, <1>2, <1>3, <1>4, <1>5, <1>6, <1>7, <1>8, <1>9 DEF IInv, TypeOK, PastInv, Clean,
     BothEnded
<1>18. WaitInv'
  BY <1>1, <1>2, <1>3, <1>4, <1>5, <1>6, <1>7, <1>8, <1>9 DEF IInv, TypeOK, WaitInv, Clean,
     BothEnded
<1>19. OnceInv'
  <2> SUFFICES ASSUME Clean, mountId \notin twice PROVE OnceInv'
    BY <1>6, <1>7 DEF OnceInv
  <2>1. ASSUME NEW s \in Releasers, Releasing(s)' PROVE s = r
    BY <2>1, <1>2, <1>4 DEF IInv, OnceInv
  <2>2. /\ notificationThread = mountId /\ checkDerefs[mountId] <= 1 /\ noteDerefs[mountId] <= 1
        /\ step[r] \in {"unmounted", "killing", "waitCheck"} => checkDerefs[mountId] = 0
        /\ step[r] # "clearing" => noteDerefs[mountId] = 0
    BY <1>2 DEF IInv, OnceInv
  <2> QED BY <2>1, <2>2, <1>1, <1>2, <1>3, <1>4, <1>5, <1>6, <1>7, <1>8, <1>9 DEF IInv,
         TypeOK, OnceInv, Clean
<1>20. DerefInv'
  <2>1. ASSUME NEW m \in Mounts \ overlapped
        PROVE  /\ checkDerefs'[m] > 0 => check[m] = "ended"
               /\ m < mountId /\ m \notin twice /\ m + 1 \notin overlapped => checkDerefs'[m] <= 1
    <3>1. CASE m = timeoutThread
      <4>1. check[m] = "ended"
        BY <3>1, <2>1, <1>3, <1>9
      <4>2. ~(m < mountId /\ m + 1 \notin overlapped)
        BY <3>1, <1>1, <1>5 DEF IInv, PointerInv, Clean
      <4> QED BY <4>1, <4>2
    <3>2. CASE m # timeoutThread
      BY <3>2, <2>1, <1>9 DEF IInv, TypeOK, DerefInv
    <3> QED BY <3>1, <3>2
  <2>2. checkDerefs'[Null] = 0
    BY <1>9 DEF IInv, TypeOK, DerefInv
  <2> QED BY <2>1, <2>2, <1>6 DEF IInv, DerefInv
<1> QED BY <1>10, <1>11, <1>12, <1>13, <1>14, <1>15, <1>16, <1>17, <1>18, <1>19, <1>20 DEF IInv

\* ReleaseEvent is set.
LEMMA StopNotificationThreadKeeps ==
  ASSUME IInv, NEW r \in Releasers, StopNotificationThread(r)
  PROVE  IInv'
<1> USE DeviceThreadsAssumption DEF mountVars, clockVars, threadVars, releaseVars, derefVars,
         boundVars, history, Mounts, Null
<1>1. /\ mountId \in Nat /\ (mountId # 0 => mountId \in Mounts)
      /\ \A k \in Mounts : /\ k \in Nat /\ k # 0
                          /\ (check[k] # "none" \/ note[k] # "none" => k <= mountId)
  BY Latest
<1>2. Releasing(r) /\ ~Stuck(r) /\ r \in Releasers
  BY GoesOn DEF StopNotificationThread
<1>3. /\ step' = [step EXCEPT ![r] = step'[r]] /\ target' = [target EXCEPT ![r] = target'[r]]
      /\ step[r] = "checkStopped" /\ step'[r] = "telling"
  BY <1>1, <1>2 DEF StopNotificationThread, Return, IInv, TypeOK, PointerInv
<1>4. /\ \A k \in Mounts : SelfWait(k) => SelfWait(k)'
      /\ \A s \in Releasers \ {r} : /\ Releasing(s)' => Releasing(s)
                                    /\ Stuck(s) => Stuck(s)'
                                    /\ step'[s] = step[s] /\ target'[s] = target[s]
  BY <1>2, <1>3, StillHangs
<1>5. Clean => ~mounted /\ starting = "no" /\ starting' = "no"
  BY <1>2 DEF StopNotificationThread, IInv, MountedInv
<1>6. UNCHANGED <<mounted, mountId, starting, overlapped, twice,
                  timeoutThread, notificationThread, killEvent, check, note, target, derefVars>>
  BY DEF StopNotificationThread
<1>7. Clean' <=> Clean
  BY <1>6 DEF Clean
<1>8. Releasing(r)' /\ ~Stuck(r)'
  BY <1>3 DEF Releasing, Stuck
<1>9. TypeOK'
  BY <1>1, <1>2 DEF IInv, TypeOK, PointerInv, Return, StopNotificationThread
<1>10. FutureInv'
  BY <1>1, <1>2, <1>3, <1>4, <1>5, <1>6, <1>7, <1>8 DEF IInv, TypeOK, FutureInv, Releasers,
     Clean, BothEnded
<1>11. OwnReleaseInv'
  BY <1>1, <1>2, <1>3, <1>4, <1>5, <1>6, <1>7, <1>8 DEF IInv, TypeOK, OwnReleaseInv,
     Releasers, Clean, BothEnded
<1>12. PointerInv'
  BY <1>1, <1>2, <1>3, <1>4, <1>5, <1>6, <1>7, <1>8 DEF IInv, TypeOK, PointerInv, Clean,
     BothEnded
<1>13. MountedInv'
  BY <1>1, <1>2, <1>3, <1>4, <1>5, <1>6, <1>7, <1>8 DEF IInv, TypeOK, MountedInv, Clean,
     BothEnded
<1>14. ReleaseInv'
  BY <1>1, <1>2, <1>3, <1>4, <1>5, <1>6, <1>7, <1>8 DEF IInv, TypeOK, ReleaseInv, Clean,
     BothEnded
<1>15. ReleasedInv'
  BY <1>1, <1>2, <1>3, <1>4, <1>5, <1>6, <1>7, <1>8 DEF IInv, TypeOK, ReleasedInv, Clean,
     BothEnded
<1>16. PastInv'
  BY <1>1, <1>2, <1>3, <1>4, <1>5, <1>6, <1>7, <1>8 DEF IInv, TypeOK, PastInv, Clean, BothEnded
<1>17. WaitInv'
  BY <1>1, <1>2, <1>3, <1>4, <1>5, <1>6, <1>7, <1>8 DEF IInv, TypeOK, WaitInv, Clean, BothEnded
<1>18. OnceInv'
  <2> SUFFICES ASSUME Clean, mountId \notin twice PROVE OnceInv'
    BY <1>6, <1>7 DEF OnceInv
  <2>1. ASSUME NEW s \in Releasers, Releasing(s)' PROVE s = r
    BY <2>1, <1>2, <1>4 DEF IInv, OnceInv
  <2>2. /\ notificationThread = mountId /\ checkDerefs[mountId] <= 1 /\ noteDerefs[mountId] <= 1
        /\ step[r] \in {"unmounted", "killing", "waitCheck"} => checkDerefs[mountId] = 0
        /\ step[r] # "clearing" => noteDerefs[mountId] = 0
    BY <1>2 DEF IInv, OnceInv
  <2> QED BY <2>1, <2>2, <1>1, <1>2, <1>3, <1>4, <1>5, <1>6, <1>7, <1>8 DEF IInv, TypeOK,
         OnceInv, Clean
<1>19. DerefInv'
  BY <1>1, <1>2, <1>3, <1>4, <1>5, <1>6, <1>7, <1>8 DEF IInv, TypeOK, DerefInv, Clean, BothEnded
<1> QED BY <1>9, <1>10, <1>11, <1>12, <1>13, <1>14, <1>15, <1>16, <1>17, <1>18, <1>19 DEF IInv

\* The wait for the notification thread begins, or there is none to wait for and the
\* release is over.
LEMMA AwaitNotificationThreadKeeps ==
  ASSUME IInv, NEW r \in Releasers, AwaitNotificationThread(r)
  PROVE  IInv'
<1> USE DeviceThreadsAssumption DEF mountVars, clockVars, threadVars, releaseVars, derefVars,
         boundVars, history, Mounts, Null
<1>1. /\ mountId \in Nat /\ (mountId # 0 => mountId \in Mounts)
      /\ \A k \in Mounts : /\ k \in Nat /\ k # 0
                          /\ (check[k] # "none" \/ note[k] # "none" => k <= mountId)
  BY Latest
<1>2. Releasing(r) /\ ~Stuck(r) /\ r \in Releasers
  BY GoesOn DEF AwaitNotificationThread
<1>3. /\ step' = [step EXCEPT ![r] = step'[r]] /\ target' = [target EXCEPT ![r] = target'[r]]
      /\ step[r] = "telling" /\ target'[r] = notificationThread
      /\ step'[r] = IF notificationThread = Null THEN "idle" ELSE "waitNote"
  BY <1>1, <1>2 DEF AwaitNotificationThread, Return, IInv, TypeOK, PointerInv
<1>4. /\ \A k \in Mounts : SelfWait(k) => SelfWait(k)'
      /\ \A s \in Releasers \ {r} : /\ Releasing(s)' => Releasing(s)
                                    /\ Stuck(s) => Stuck(s)'
                                    /\ step'[s] = step[s] /\ target'[s] = target[s]
  BY <1>2, <1>3, StillHangs
<1>5. Clean => ~mounted /\ starting = "no" /\ starting' = "no"
  BY <1>2 DEF AwaitNotificationThread, IInv, MountedInv
<1>6. UNCHANGED <<mounted, mountId, starting, overlapped, twice,
                  threadVars, note, derefVars>>
  BY DEF AwaitNotificationThread
<1>7. Clean' <=> Clean
  BY <1>6 DEF Clean
<1>8. \A k \in Mounts : check'[k] = IF k = r /\ step'[r] = "idle" THEN "waiting" ELSE check[k]
  BY <1>3 DEF AwaitNotificationThread, Return, IInv, TypeOK
<1>9. Releasing(r)' <=> notificationThread # Null
  BY <1>3 DEF Releasing, Stuck
<1>10. r \in Mounts => /\ check[r] = "releasing"
                        /\ check'[r] = IF step'[r] = "idle" THEN "waiting" ELSE check[r]
  BY <1>8, <1>3 DEF IInv, OwnReleaseInv
<1>11. TypeOK'
  <2>1. step' \in [Releasers -> {"idle", "unmounted", "killing", "waitCheck", "checkStopped",
                                 "telling", "waitNote", "clearing"}]
    BY <1>3 DEF IInv, TypeOK
  <2>2. target' \in [Releasers -> Mounts \cup {Null}]
    BY <1>3 DEF IInv, TypeOK
  <2>3. \A s \in Releasers : step'[s] \in {"waitCheck", "waitNote"} => target'[s] # Null
    BY <1>3, <1>4 DEF IInv, TypeOK
  <2>4. check' \in [Mounts -> {"none", "waiting", "sweeping", "forcing", "releasing", "ended"}]
    BY DEF AwaitNotificationThread, Return, IInv, TypeOK
  <2> QED BY <2>1, <2>2, <2>3, <2>4 DEF AwaitNotificationThread, IInv, TypeOK
<1>12. FutureInv'
  <2>1. ASSUME NEW m \in Mounts, m > mountId
        PROVE  step'[m] = "idle" /\ checkDerefs'[m] = 0 /\ noteDerefs'[m] = 0
    <3>1. step'[m] = "idle"
      BY <2>1, <1>3, <1>4 DEF IInv, FutureInv, Releasers
    <3>2. checkDerefs'[m] = 0 /\ noteDerefs'[m] = 0
      BY <2>1, <1>1, <1>6 DEF IInv, TypeOK, FutureInv
    <3> QED BY <3>1, <3>2
  <2>2. \A m \in Mounts : check'[m] = "none" <=> check[m] = "none"
    BY <1>8, <1>10, <1>6
  <2> QED BY <2>1, <2>2, <1>6 DEF IInv, FutureInv
<1>13. OwnReleaseInv'
  <2> SUFFICES ASSUME NEW m \in Mounts PROVE step'[m] = "idle" <=> check'[m] # "releasing"
    BY DEF OwnReleaseInv
  <2>1. CASE m = r
    BY <2>1, <1>3, <1>8, <1>10
  <2>2. CASE m # r
    <3>1. step'[m] = step[m] /\ check'[m] = check[m]
      BY <2>2, <1>4, <1>8 DEF Releasers
    <3> QED BY <3>1 DEF IInv, OwnReleaseInv
  <2> QED BY <2>1, <2>2
<1>14. PointerInv'
  BY <1>1, <1>2, <1>3, <1>4, <1>5, <1>6, <1>7, <1>8, <1>9, <1>10 DEF IInv, TypeOK, PointerInv,
     Clean, BothEnded
<1>15. MountedInv'
  BY <1>1, <1>2, <1>3, <1>4, <1>5, <1>6, <1>7, <1>8, <1>9, <1>10 DEF IInv, TypeOK, MountedInv,
     Clean, BothEnded
<1>16. ReleaseInv'
  BY <1>1, <1>2, <1>3, <1>4, <1>5, <1>6, <1>7, <1>8, <1>9, <1>10 DEF IInv, TypeOK, ReleaseInv,
     Clean, BothEnded
<1>17. ReleasedInv'
  BY <1>1, <1>2, <1>3, <1>4, <1>5, <1>6, <1>7, <1>8, <1>9, <1>10 DEF IInv, TypeOK,
     ReleasedInv, ReleaseInv, Clean, BothEnded
<1>18. PastInv'
  BY <1>1, <1>2, <1>3, <1>4, <1>5, <1>6, <1>7, <1>8, <1>9, <1>10 DEF IInv, TypeOK, PastInv,
     Clean, BothEnded
<1>19. WaitInv'
  BY <1>1, <1>2, <1>3, <1>4, <1>5, <1>6, <1>7, <1>8, <1>9, <1>10 DEF IInv, TypeOK, WaitInv,
     Clean, BothEnded
<1>20. OnceInv'
  <2> SUFFICES ASSUME Clean, mountId \notin twice PROVE OnceInv'
    BY <1>6, <1>7 DEF OnceInv
  <2>1. ASSUME NEW s \in Releasers, Releasing(s)' PROVE s = r
    BY <2>1, <1>2, <1>4 DEF IInv, OnceInv
  <2>2. /\ notificationThread = mountId /\ checkDerefs[mountId] <= 1 /\ noteDerefs[mountId] <= 1
        /\ step[r] \in {"unmounted", "killing", "waitCheck"} => checkDerefs[mountId] = 0
        /\ step[r] # "clearing" => noteDerefs[mountId] = 0
    BY <1>2 DEF IInv, OnceInv
  <2> QED BY <2>1, <2>2, <1>1, <1>2, <1>3, <1>4, <1>5, <1>6, <1>7, <1>8, <1>9, <1>10 DEF IInv,
         TypeOK, OnceInv, Clean
<1>21. DerefInv'
  BY <1>1, <1>6, <1>8, <1>10 DEF IInv, DerefInv
<1> QED BY <1>11, <1>12, <1>13, <1>14, <1>15, <1>16, <1>17, <1>18, <1>19, <1>20, <1>21 DEF IInv

\* The notification thread has ended and is dereferenced.
LEMMA NotificationStoppedKeeps ==
  ASSUME IInv, NEW r \in Releasers, NotificationStopped(r)
  PROVE  IInv'
<1> USE DeviceThreadsAssumption DEF mountVars, clockVars, threadVars, releaseVars, derefVars,
         boundVars, history, Mounts, Null
<1>1. /\ mountId \in Nat /\ (mountId # 0 => mountId \in Mounts)
      /\ \A k \in Mounts : /\ k \in Nat /\ k # 0
                          /\ (check[k] # "none" \/ note[k] # "none" => k <= mountId)
  BY Latest
<1>2. Releasing(r) /\ ~Stuck(r) /\ r \in Releasers
  BY GoesOn DEF NotificationStopped
<1>3. /\ step' = [step EXCEPT ![r] = step'[r]] /\ target' = [target EXCEPT ![r] = target'[r]]
      /\ step[r] = "waitNote" /\ note[target[r]] = "ended" /\ step'[r] = "clearing"
  BY <1>1, <1>2 DEF NotificationStopped, Return, IInv, TypeOK, PointerInv
<1>4. /\ \A k \in Mounts : SelfWait(k) => SelfWait(k)'
      /\ \A s \in Releasers \ {r} : /\ Releasing(s)' => Releasing(s)
                                    /\ Stuck(s) => Stuck(s)'
                                    /\ step'[s] = step[s] /\ target'[s] = target[s]
  BY <1>2, <1>3, StillHangs
<1>5. Clean => ~mounted /\ starting = "no" /\ starting' = "no"
  BY <1>2 DEF NotificationStopped, IInv, MountedInv
<1>6. UNCHANGED <<mounted, mountId, starting, overlapped, twice,
                  threadVars, check, note, target, checkDerefs>>
  BY DEF NotificationStopped
<1>7. Clean' <=> Clean
  BY <1>6 DEF Clean
<1>8. Releasing(r)' /\ ~Stuck(r)'
  BY <1>3 DEF Releasing, Stuck
<1>9. /\ notificationThread \in Mounts \cup {Null}
      /\ noteDerefs' = [noteDerefs EXCEPT ![notificationThread] = @ + 1]
      /\ notificationThread \notin overlapped \cup {Null} => target[r] = notificationThread
      /\ notificationThread <= mountId
  BY <1>1, <1>3 DEF PointerInv, NotificationStopped, IInv, TypeOK, WaitInv
<1>10. TypeOK'
  <2>1. step' \in [Releasers -> {"idle", "unmounted", "killing", "waitCheck", "checkStopped",
                                 "telling", "waitNote", "clearing"}]
    BY <1>3 DEF IInv, TypeOK
  <2>2. \A s \in Releasers : step'[s] \in {"waitCheck", "waitNote"} => target[s] # Null
    BY <1>3 DEF IInv, TypeOK
  <2>3. noteDerefs' \in [Mounts \cup {Null} -> Nat]
    <3>1. noteDerefs \in [Mounts \cup {Null} -> Nat]
      BY DEF IInv, TypeOK
    <3>2. /\ notificationThread \in Mounts \cup {Null}
          /\ noteDerefs' = [noteDerefs EXCEPT ![notificationThread] = @ + 1]
      BY <1>9
    <3> HIDE DEF Mounts, Null
    <3> QED BY <3>1, <3>2
  <2> QED BY <2>1, <2>2, <2>3 DEF NotificationStopped, IInv, TypeOK
<1>11. FutureInv'
  <2>1. ASSUME NEW m \in Mounts, m > mountId
        PROVE  step'[m] = "idle" /\ checkDerefs'[m] = 0 /\ noteDerefs'[m] = 0
    <3>1. step'[m] = "idle"
      BY <2>1, <1>3, <1>4 DEF IInv, FutureInv, Releasers
    <3>2. checkDerefs'[m] = 0 /\ noteDerefs'[m] = 0
      BY <2>1, <1>1, <1>9, <1>6 DEF IInv, TypeOK, FutureInv
    <3> QED BY <3>1, <3>2
  <2>2. \A m \in Mounts : check'[m] = "none" <=> check[m] = "none"
    BY <1>6
  <2> QED BY <2>1, <2>2, <1>6 DEF IInv, FutureInv
<1>12. OwnReleaseInv'
  BY <1>1, <1>2, <1>3, <1>4, <1>5, <1>6, <1>7, <1>8, <1>9 DEF IInv, TypeOK, OwnReleaseInv,
     Releasers, Clean, BothEnded
<1>13. PointerInv'
  BY <1>1, <1>2, <1>3, <1>4, <1>5, <1>6, <1>7, <1>8, <1>9 DEF IInv, TypeOK, PointerInv, Clean,
     BothEnded
<1>14. MountedInv'
  BY <1>1, <1>2, <1>3, <1>4, <1>5, <1>6, <1>7, <1>8, <1>9 DEF IInv, TypeOK, MountedInv, Clean,
     BothEnded
<1>15. ReleaseInv'
  BY <1>1, <1>2, <1>3, <1>4, <1>5, <1>6, <1>7, <1>8, <1>9 DEF IInv, TypeOK, ReleaseInv, Clean,
     BothEnded
<1>16. ReleasedInv'
  BY <1>1, <1>2, <1>3, <1>4, <1>5, <1>6, <1>7, <1>8, <1>9 DEF IInv, TypeOK, ReleasedInv,
     Clean, BothEnded
<1>17. PastInv'
  BY <1>1, <1>2, <1>3, <1>4, <1>5, <1>6, <1>7, <1>8, <1>9 DEF IInv, TypeOK, PastInv, Clean,
     BothEnded
<1>18. WaitInv'
  BY <1>1, <1>2, <1>3, <1>4, <1>5, <1>6, <1>7, <1>8, <1>9 DEF IInv, TypeOK, WaitInv, Clean,
     BothEnded
<1>19. OnceInv'
  <2> SUFFICES ASSUME Clean, mountId \notin twice PROVE OnceInv'
    BY <1>6, <1>7 DEF OnceInv
  <2>1. ASSUME NEW s \in Releasers, Releasing(s)' PROVE s = r
    BY <2>1, <1>2, <1>4 DEF IInv, OnceInv
  <2>2. /\ notificationThread = mountId /\ checkDerefs[mountId] <= 1 /\ noteDerefs[mountId] <= 1
        /\ step[r] \in {"unmounted", "killing", "waitCheck"} => checkDerefs[mountId] = 0
        /\ step[r] # "clearing" => noteDerefs[mountId] = 0
    BY <1>2 DEF IInv, OnceInv
  <2> QED BY <2>1, <2>2, <1>1, <1>2, <1>3, <1>4, <1>5, <1>6, <1>7, <1>8, <1>9 DEF IInv,
         TypeOK, OnceInv, Clean
<1>20. DerefInv'
  <2>1. ASSUME NEW m \in Mounts \ overlapped
        PROVE  /\ noteDerefs'[m] > 0 => note[m] = "ended"
               /\ m < mountId /\ m \notin twice /\ m + 1 \notin overlapped => noteDerefs'[m] <= 1
    <3>1. CASE m = notificationThread
      <4>1. note[m] = "ended"
        BY <3>1, <2>1, <1>3, <1>9
      <4>2. ~(m < mountId /\ m + 1 \notin overlapped)
        BY <3>1, <2>1, <1>1, <1>5 DEF IInv, PointerInv, Clean
      <4> QED BY <4>1, <4>2
    <3>2. CASE m # notificationThread
      BY <3>2, <2>1, <1>9 DEF IInv, TypeOK, DerefInv
    <3> QED BY <3>1, <3>2
  <2>2. ASSUME overlapped = {}, twice = {}
        PROVE  noteDerefs'[Null] = 0
    <3>1. notificationThread = mountId /\ mountId # Null
      BY <2>2, <1>2, <1>3 DEF IInv, PointerInv, OnceInv, Clean
    <3> QED BY <3>1, <2>2, <1>9 DEF IInv, TypeOK, DerefInv
  <2> QED BY <2>1, <2>2, <1>6 DEF IInv, DerefInv
<1> QED BY <1>10, <1>11, <1>12, <1>13, <1>14, <1>15, <1>16, <1>17, <1>18, <1>19, <1>20 DEF IInv

\* The pointer is cleared and the release is over.
LEMMA ForgetNotificationThreadKeeps ==
  ASSUME IInv, NEW r \in Releasers, ForgetNotificationThread(r)
  PROVE  IInv'
<1> USE DeviceThreadsAssumption DEF mountVars, clockVars, threadVars, releaseVars, derefVars,
         boundVars, history, Mounts, Null
<1>1. /\ mountId \in Nat /\ (mountId # 0 => mountId \in Mounts)
      /\ \A k \in Mounts : /\ k \in Nat /\ k # 0
                          /\ (check[k] # "none" \/ note[k] # "none" => k <= mountId)
  BY Latest
<1>2. Releasing(r) /\ ~Stuck(r) /\ r \in Releasers
  BY GoesOn DEF ForgetNotificationThread
<1>3. /\ step' = [step EXCEPT ![r] = step'[r]] /\ target' = [target EXCEPT ![r] = target'[r]]
      /\ step[r] = "clearing" /\ step'[r] = "idle"
  BY <1>1, <1>2 DEF ForgetNotificationThread, Return, IInv, TypeOK, PointerInv
<1>4. /\ \A k \in Mounts : SelfWait(k) => SelfWait(k)'
      /\ \A s \in Releasers \ {r} : /\ Releasing(s)' => Releasing(s)
                                    /\ Stuck(s) => Stuck(s)'
                                    /\ step'[s] = step[s] /\ target'[s] = target[s]
  BY <1>2, <1>3, StillHangs
<1>5. Clean => ~mounted /\ starting = "no" /\ starting' = "no"
  BY <1>2 DEF ForgetNotificationThread, IInv, MountedInv
<1>6. UNCHANGED <<mounted, mountId, starting, overlapped, twice,
                  timeoutThread, killEvent, releaseEvent, note, target, derefVars>>
  BY DEF ForgetNotificationThread
<1>7. Clean' <=> Clean
  BY <1>6 DEF Clean
<1>8. \A k \in Mounts : check'[k] = IF k = r THEN "waiting" ELSE check[k]
  BY DEF ForgetNotificationThread, Return, IInv, TypeOK
<1>9. ~Releasing(r)' /\ notificationThread' = Null
  BY <1>3 DEF Releasing, ForgetNotificationThread
<1>10. r \in Mounts => /\ check[r] = "releasing"
                        /\ check'[r] = IF step'[r] = "idle" THEN "waiting" ELSE check[r]
  BY <1>8, <1>3 DEF IInv, OwnReleaseInv
<1>11. TypeOK'
  BY <1>1, <1>2 DEF IInv, TypeOK, PointerInv, Return, ForgetNotificationThread
<1>12. FutureInv'
  <2>1. ASSUME NEW m \in Mounts, m > mountId
        PROVE  step'[m] = "idle" /\ checkDerefs'[m] = 0 /\ noteDerefs'[m] = 0
    <3>1. step'[m] = "idle"
      BY <2>1, <1>3, <1>4 DEF IInv, FutureInv, Releasers
    <3>2. checkDerefs'[m] = 0 /\ noteDerefs'[m] = 0
      BY <2>1, <1>1, <1>6 DEF IInv, TypeOK, FutureInv
    <3> QED BY <3>1, <3>2
  <2>2. \A m \in Mounts : check'[m] = "none" <=> check[m] = "none"
    BY <1>8, <1>10, <1>6
  <2> QED BY <2>1, <2>2, <1>6 DEF IInv, FutureInv
<1>13. OwnReleaseInv'
  <2> SUFFICES ASSUME NEW m \in Mounts PROVE step'[m] = "idle" <=> check'[m] # "releasing"
    BY DEF OwnReleaseInv
  <2>1. CASE m = r
    BY <2>1, <1>3, <1>8, <1>10
  <2>2. CASE m # r
    <3>1. step'[m] = step[m] /\ check'[m] = check[m]
      BY <2>2, <1>4, <1>8 DEF Releasers
    <3> QED BY <3>1 DEF IInv, OwnReleaseInv
  <2> QED BY <2>1, <2>2
<1>14. PointerInv'
  BY <1>1, <1>2, <1>3, <1>4, <1>5, <1>6, <1>7, <1>8, <1>9, <1>10 DEF IInv, TypeOK, PointerInv,
     Clean, BothEnded
<1>15. MountedInv'
  BY <1>1, <1>2, <1>3, <1>4, <1>5, <1>6, <1>7, <1>8, <1>9, <1>10 DEF IInv, TypeOK, MountedInv,
     Clean, BothEnded
<1>16. ReleaseInv'
  BY <1>1, <1>2, <1>3, <1>4, <1>5, <1>6, <1>7, <1>8, <1>9, <1>10 DEF IInv, TypeOK, ReleaseInv,
     Clean, BothEnded
<1>17. ReleasedInv'
  BY <1>1, <1>2, <1>3, <1>4, <1>5, <1>6, <1>7, <1>8, <1>9, <1>10 DEF IInv, TypeOK,
     ReleasedInv, ReleaseInv, Clean, BothEnded
<1>18. PastInv'
  BY <1>1, <1>2, <1>3, <1>4, <1>5, <1>6, <1>7, <1>8, <1>9, <1>10 DEF IInv, TypeOK, PastInv,
     Clean, BothEnded
<1>19. WaitInv'
  BY <1>1, <1>2, <1>3, <1>4, <1>5, <1>6, <1>7, <1>8, <1>9, <1>10 DEF IInv, TypeOK, WaitInv,
     Clean, BothEnded
<1>20. OnceInv'
  <2> SUFFICES ASSUME Clean, mountId \notin twice PROVE OnceInv'
    BY <1>6, <1>7 DEF OnceInv
  <2>1. ASSUME NEW s \in Releasers, Releasing(s)' PROVE s = r
    BY <2>1, <1>2, <1>4 DEF IInv, OnceInv
  <2>2. /\ notificationThread = mountId /\ checkDerefs[mountId] <= 1 /\ noteDerefs[mountId] <= 1
        /\ step[r] \in {"unmounted", "killing", "waitCheck"} => checkDerefs[mountId] = 0
        /\ step[r] # "clearing" => noteDerefs[mountId] = 0
    BY <1>2 DEF IInv, OnceInv
  <2> QED BY <2>1, <2>2, <1>1, <1>2, <1>3, <1>4, <1>5, <1>6, <1>7, <1>8, <1>9, <1>10 DEF IInv,
         TypeOK, OnceInv, Clean
<1>21. DerefInv'
  BY <1>1, <1>6, <1>8, <1>10 DEF IInv, DerefInv
<1> QED BY <1>11, <1>12, <1>13, <1>14, <1>15, <1>16, <1>17, <1>18, <1>19, <1>20, <1>21 DEF IInv

-----------------------------------------------------------------------------
(* The theorems.                                                           *)

\* IInv holds at first and no step of DeviceThreads breaks it.
THEOREM Invariance == Spec => []IInv
<1>1. Init => IInv
  <2> SUFFICES ASSUME Init PROVE IInv
    OBVIOUS
  <2> USE DeviceThreadsAssumption DEF Mounts, Null
  <2>1. TypeOK
    <3>1. /\ mounted \in BOOLEAN /\ useKeepAlive \in BOOLEAN /\ alive \in BOOLEAN
          /\ killEvent \in BOOLEAN /\ releaseEvent \in BOOLEAN
      BY Zenon DEF Init
    <3>2. /\ starting = "no" /\ mountId \in 0..MaxMounts /\ silent \in 0..KeepAliveTicks
          /\ timeoutThread \in Mounts \cup {Null} /\ notificationThread \in Mounts \cup {Null}
          /\ notices \subseteq Mounts /\ releases \in Nat
          /\ overlapped \subseteq Mounts /\ twice \subseteq Mounts
      BY DEF Init
    <3>3. /\ check \in [Mounts -> {"none", "waiting", "sweeping", "forcing", "releasing", "ended"}]
          /\ note \in [Mounts -> {"none", "waiting", "ended"}]
      BY DEF Init
    <3>4. /\ step \in [Releasers -> {"idle", "unmounted", "killing", "waitCheck", "checkStopped",
                                     "telling", "waitNote", "clearing"}]
          /\ target \in [Releasers -> Mounts \cup {Null}]
          /\ \A r \in Releasers : step[r] = "idle"
      BY DEF Init
    <3>5. checkDerefs \in [Mounts \cup {Null} -> Nat] /\ noteDerefs \in [Mounts \cup {Null} -> Nat]
      BY DEF Init
    <3> HIDE DEF Mounts, Null
    <3> QED BY <3>1, <3>2, <3>3, <3>4, <3>5 DEF TypeOK
  <2>2. FutureInv /\ OwnReleaseInv /\ PointerInv
    BY DEF Init, FutureInv, OwnReleaseInv, PointerInv, Releasers
  <2>3. MountedInv /\ ReleaseInv /\ ReleasedInv /\ OnceInv
    BY DEF Init, MountedInv, ReleaseInv, ReleasedInv, OnceInv, Clean
  <2>4. PastInv /\ WaitInv /\ DerefInv
    BY DEF Init, PastInv, WaitInv, DerefInv
  <2> QED BY <2>1, <2>2, <2>3, <2>4 DEF IInv
<1>2. IInv /\ [Next]_vars => IInv'
  <2> SUFFICES ASSUME IInv, [Next]_vars PROVE IInv'
    OBVIOUS
  <2>1. CASE UNCHANGED vars
    BY <2>1 DEF vars, mountVars, clockVars, threadVars, releaseVars, derefVars, boundVars,
         history, IInv, TypeOK, FutureInv, OwnReleaseInv, PointerInv, MountedInv, ReleaseInv,
         ReleasedInv, PastInv, WaitInv, OnceInv, DerefInv, Clean, BothEnded, Releasing, Stuck,
         SelfWait
  <2>2. CASE Next
    BY <2>2, EventStartKeeps, StartNotificationThreadKeeps, KeepNotificationThreadKeeps,
       StartCheckThreadKeeps, KeepCheckThreadKeeps, ClockKeeps, NotificationExitKeeps,
       CheckExitKeeps, CheckSweepKeeps, CheckKeepAliveKeeps, ForceUnmountKeeps,
       UserReleaseKeeps, StopCheckThreadKeeps, AwaitCheckThreadKeeps, CheckStoppedKeeps,
       StopNotificationThreadKeeps, AwaitNotificationThreadKeeps, NotificationStoppedKeeps,
       ForgetNotificationThreadKeeps
    DEF Next, Mounting, TimeoutThread, Release
  <2> QED BY <2>1, <2>2
<1> QED BY <1>1, <1>2, PTL DEF Spec

\* The types: among them, that no release ever waits for a NULL thread.
THEOREM TypeCorrect == Spec => []TypeOK
<1>1. IInv => TypeOK
  BY DEF IInv
<1> QED BY <1>1, Invariance, PTL

\* A mount that did not overlap a release has its own two threads while it is
\* mounted, and leaves none behind, whatever earlier releases hang.
THEOREM DeviceServiced == Spec => []Serviced
<1>1. IInv => Serviced
  <2> SUFFICES ASSUME IInv PROVE Serviced
    OBVIOUS
  <2> USE DeviceThreadsAssumption DEF Mounts, Null
  <2>1. ServicedNow
    BY DEF IInv, TypeOK, MountedInv, PointerInv, FutureInv, ServicedNow, CheckAlive, Clean
  <2>2. ASSUME NEW m \in Mounts \ overlapped, m = mountId, ~mounted,
               \A r \in Releasers : step[r] = "idle"
        PROVE  BothEnded(m) \/ SelfWait(m)
    BY <2>2 DEF IInv, ReleasedInv, Clean, Releasing
  <2>3. ASSUME NEW m \in Mounts \ overlapped, m < mountId, m + 1 \notin overlapped
        PROVE  BothEnded(m) \/ SelfWait(m)
    BY <2>3 DEF IInv, PastInv
  <2> QED BY <2>1, <2>2, <2>3 DEF Serviced, NoneLeftBehind
<1> QED BY <1>1, Invariance, PTL

\* The threads of a mount that did not overlap a release are dereferenced when
\* they have ended, and once, unless it was released once more or the next mount
\* overlapped a release.
THEOREM FreedOnce == Spec => []ThreadFreedOnce
<1>1. IInv => ThreadFreedOnce
  <2> SUFFICES ASSUME IInv PROVE ThreadFreedOnce
    OBVIOUS
  <2>1. ASSUME NEW m \in Mounts \ overlapped, m \notin twice, m + 1 \notin overlapped
        PROVE  checkDerefs[m] <= 1 /\ noteDerefs[m] <= 1
    <3>1. m < mountId \/ m = mountId \/ m > mountId
      BY DeviceThreadsAssumption DEF IInv, TypeOK, Mounts
    <3>2. CASE m < mountId
      BY <2>1, <3>2 DEF IInv, DerefInv
    <3>3. CASE m = mountId
      BY <2>1, <3>3 DEF IInv, OnceInv, Clean, Mounts
    <3>4. CASE m > mountId
      BY <2>1, <3>4 DEF IInv, FutureInv
    <3> QED BY <3>1, <3>2, <3>3, <3>4
  <2> QED BY <2>1 DEF IInv, DerefInv, ThreadFreedOnce
<1> QED BY <1>1, Invariance, PTL

\* The keep-alive check unmounts the mount it looked at, unless this one or the
\* next was started during a release.
THEOREM ForcesOwn == Spec => []ForcesOwnMount
<1>1. IInv => ForcesOwnMount
  <2> SUFFICES ASSUME IInv, NEW m \in Mounts, check[m] = "forcing", m \notin overlapped,
                      m + 1 \notin overlapped
               PROVE  mountId = m
    BY DEF ForcesOwnMount
  <2>1. m <= mountId /\ mountId \in Nat /\ m \in Nat
    BY Latest
  <2>2. ~(m < mountId)
    BY SelfWaitHangs DEF IInv, PastInv, BothEnded
  <2> QED BY <2>1, <2>2
<1> QED BY <1>1, Invariance, PTL
=============================================================================
