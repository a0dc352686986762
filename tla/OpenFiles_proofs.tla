--------------------------- MODULE OpenFiles_proofs ---------------------------
(***************************************************************************)
(* Proofs about OpenFiles, for any number of files, file objects,          *)
(* operations and mounts.                                                  *)
(*                                                                         *)
(* The first invariant is about the driver alone: which IRPs a file object *)
(* can have at each stage of its life, and who holds which FCB.  The       *)
(* second is about the events and the open info.  Two of its parts have an *)
(* exception: what an IRP that is done says of its event, for a file       *)
(* object of which the driver has given up a request, and which mount an   *)
(* event is of, for one that a mount has crossed.                          *)
(***************************************************************************)
EXTENDS OpenFiles, FiniteSetTheorems, TLAPS

-----------------------------------------------------------------------------
(* The driver.                                                             *)

\* The IRPs and the context block of file object o at each stage.
StageInv(o) ==
  /\ stage[o] = "new" <=> irp[o]["create"] = "none"
  /\ stage[o] = "creating" <=> irp[o]["create"] \in {"fcb", "checked", "pending"}
  /\ irp[o]["create"] \in {"none", "fcb", "checked", "pending", "done"}
  /\ irp[o]["cleanup"] = "none" <=> stage[o] \in {"new", "creating", "open", "failed"}
  /\ irp[o]["cleanup"] \in {"checked", "pending"} <=> stage[o] = "cleaning"
  /\ irp[o]["cleanup"] = "done" <=> stage[o] \in {"cleaned", "closing", "closed"}
  /\ irp[o]["close"] = "none" <=> stage[o] \notin {"closing", "closed"}
  /\ irp[o]["close"] = "done" <=> stage[o] = "closed"
  /\ irp[o]["close"] \notin {"fcb", "pending"}
  /\ \A k \in Ops :
       /\ irp[o][k] \in {"none", "checked", "pending", "done"}
       /\ stage[o] \in {"new", "creating", "failed"} => irp[o][k] = "none"
       /\ stage[o] \in {"closing", "closed"} => irp[o][k] \in {"none", "done"}
  /\ ccb[o] = "none" <=> irp[o]["create"] \in {"none", "fcb"}
  /\ ccb[o] = "freed" <=> irp[o]["close"] \in {"ccbFreed", "fcbFreed", "done"}
  /\ ccbMount[o] <= mountId

\* The file objects that hold FCB x.
Holders(x) == {o \in Opens : fcb[o] = x}

\* An FCB is known by a file object that has asked for one.
FcbInv ==
  /\ \A o \in Opens : fcb[o] = None <=> stage[o] = "new" \/ irp[o]["close"] \in {"fcbFreed", "done"}
  /\ \A o \in Opens : fcb[o] # None => stage[fcb[o]] # "new" /\ \E f \in Files : listed[f] = fcb[o]
  /\ \A f \in Files : listed[f] # None => stage[listed[f]] # "new" /\ fileCount[listed[f]] > 0
  /\ \A x \in Opens : fileCount[x] = Cardinality(Holders(x))

DriverInv == TypeOK /\ (\A o \in Opens : StageInv(o)) /\ FcbInv

-----------------------------------------------------------------------------
(* The events and the open info.                                           *)

\* The file object was opened in the present mount.
Valid(o) == mounted /\ ccbMount[o] = mountId

\* All that a close has to wait for is over.
Settled(o) == event[o]["cleanup"] = "done" /\ \A k \in Ops : event[o][k] \in {"none", "done"}

CreateInv(o) ==
  /\ irp[o]["create"] \in {"none", "fcb", "checked"} => event[o]["create"] = "none"
  /\ irp[o]["create"] = "pending" => event[o]["create"] \in {"queued", "running", "dropped"}
  /\ event[o]["create"] # "allocated"
  /\ Valid(o) /\ stage[o] \in {"open", "cleaning", "cleaned", "closing", "closed"} =>
       event[o]["create"] = "done" /\ userContext[o]
  /\ openInfo[o] = "none" <=> event[o]["create"] \in {"none", "queued", "dropped"}
  /\ openInfo[o] = "freed" <=> event[o]["close"] = "done"

OperationInv(o) ==
  \A k \in Ops \cup {"cleanup"} :
    /\ event[o][k] \in {"none", "queued", "running", "done", "dropped"}
    /\ irp[o][k] \in {"none", "checked"} => event[o][k] = "none"
    /\ irp[o][k] = "pending" => event[o][k] \in {"queued", "running", "dropped"}
    /\ irp[o][k] = "done" /\ Valid(o) /\ o \notin givenUp => event[o][k] = "done"

CloseInv(o) ==
  /\ event[o]["close"] \in {"none", "allocated", "queued", "running", "done", "dropped"}
  /\ irp[o]["close"] = "checked" \/ event[o]["close"] # "none" => Settled(o) \/ o \in givenUp
  /\ irp[o]["close"] \in {"none", "checked", "stale"} => event[o]["close"] = "none"
  /\ irp[o]["close"] \in {"allocated", "ccbFreed", "fcbFreed"} =>
       event[o]["close"] \in {"none", "allocated"}
  /\ irp[o]["close"] = "done" => event[o]["close"] # "allocated"
  /\ irp[o]["close"] = "stale" => ~Valid(o)
  /\ irp[o]["close"] \in {"allocated", "ccbFreed", "fcbFreed", "done"} /\ Valid(o) =>
       event[o]["close"] # "none"

\* What an event carries.
StampInv(o) ==
  \A k \in Requests :
    /\ event[o][k] # "none" => eventMount[o][k] \in 1..mountId
    /\ event[o][k] # "none" => eventMount[o][k] = ccbMount[o] \/ o \in crossed
    /\ irp[o][k] = "checked" => ccbMount[o] = mountId \/ o \in crossed
    /\ event[o][k] = "dropped" => mountId > 1
    /\ k # "create" /\ (irp[o][k] = "checked" \/ event[o][k] # "none") =>
         event[o]["create"] = "done" /\ userContext[o]
    /\ k # "create" /\ event[o][k] # "none" => eventContext[o][k]

EventInv(o) == CreateInv(o) /\ OperationInv(o) /\ CloseInv(o) /\ StampInv(o)

IInv == DriverInv /\ (mounted => mountId > 0) /\ \A o \in Opens : EventInv(o)

-----------------------------------------------------------------------------
(* The steps of the driver.                                                *)

\* An assignment to one entry of a table of file objects and requests.
LEMMA SetEntry ==
  ASSUME NEW S, NEW F \in [Opens -> [Requests -> S]],
         NEW o \in Opens, NEW k \in Requests, NEW v \in S
  PROVE  /\ [F EXCEPT ![o][k] = v] \in [Opens -> [Requests -> S]]
         /\ \A p \in Opens, j \in Requests :
              [F EXCEPT ![o][k] = v][p][j] = IF p = o /\ j = k THEN v ELSE F[p][j]
OBVIOUS

\* Who holds which FCB changes only in DokanGetFCB and DokanFreeFCB.
LEMMA FcbKeeps ==
  ASSUME DriverInv, UNCHANGED fcbVars,
         \A p \in Opens :
           /\ stage'[p] = "new" <=> stage[p] = "new"
           /\ irp'[p]["close"] \in {"fcbFreed", "done"} <=> irp[p]["close"] \in {"fcbFreed", "done"}
  PROVE  FcbInv'
<1> USE OpenFilesAssumption DEF fcbVars
<1>1. \A x : Holders(x)' = Holders(x)
  BY DEF Holders
<1>2. \A o \in Opens : fcb[o] # None => fcb[o] \in Opens
  BY DEF DriverInv, TypeOK
<1>3. \A f \in Files : listed[f] # None => listed[f] \in Opens
  BY DEF DriverInv, TypeOK
<1> QED BY <1>1, <1>2, <1>3 DEF DriverInv, FcbInv

\* What CompleteRequest does.
LEMMA Completed ==
  ASSUME TypeOK, NEW o \in Opens, NEW k \in Requests, NEW ok \in BOOLEAN,
         CompleteRequest(o, k, ok)
  PROVE  /\ irp' \in [Opens -> [Requests -> IrpStates]] /\ stage' \in [Opens -> Stages]
         /\ \A p \in Opens, j \in Requests :
              irp'[p][j] = IF p = o /\ j = k THEN "done" ELSE irp[p][j]
         /\ \A p \in Opens : p # o => stage'[p] = stage[p]
         /\ k = "create" => stage'[o] = IF ok THEN "open" ELSE "failed"
         /\ k = "cleanup" => stage'[o] = "cleaned"
         /\ k = "close" => stage'[o] = "closed"
         /\ k \in Ops => stage'[o] = stage[o]
<1>1. irp' = [irp EXCEPT ![o][k] = "done"] /\ "done" \in IrpStates
  BY DEF CompleteRequest, IrpStates
<1>2. stage' = [stage EXCEPT ![o] = NextStage(o, k, ok)]
  BY DEF CompleteRequest
<1>3. /\ NextStage(o, k, ok) \in Stages
      /\ k = "create" => NextStage(o, k, ok) = IF ok THEN "open" ELSE "failed"
      /\ k = "cleanup" => NextStage(o, k, ok) = "cleaned"
      /\ k = "close" => NextStage(o, k, ok) = "closed"
      /\ k \in Ops => NextStage(o, k, ok) = stage[o]
  BY OpenFilesAssumption DEF NextStage, Stages, TypeOK, Requests
<1> QED BY <1>1, <1>2, <1>3, SetEntry DEF TypeOK

\* An IRP is completed once, at the stage of the file object that it belongs to.
LEMMA CompletionDrives ==
  ASSUME DriverInv, NEW o \in Opens, NEW k \in Requests, NEW ok \in BOOLEAN,
         CompleteRequest(o, k, ok),
         k = "create" => irp[o][k] \in {"checked", "pending"},
         k = "cleanup" => irp[o][k] \in {"checked", "pending"} \/ stage[o] = "open",
         k = "close" => irp[o][k] = "fcbFreed",
         k \in Ops => irp[o][k] \in {"checked", "pending"}
                      \/ stage[o] \in {"open", "cleaning", "cleaned"},
         UNCHANGED <<mountVars, fcbVars, ccb, ccbMount>>
  PROVE  /\ irp' \in [Opens -> [Requests -> IrpStates]] /\ stage' \in [Opens -> Stages]
         /\ \A p \in Opens : StageInv(p)'
         /\ FcbInv'
<1>1. /\ irp' \in [Opens -> [Requests -> IrpStates]] /\ stage' \in [Opens -> Stages]
      /\ \A p \in Opens, j \in Requests :
           irp'[p][j] = IF p = o /\ j = k THEN "done" ELSE irp[p][j]
      /\ \A p \in Opens : p # o => stage'[p] = stage[p]
      /\ k = "create" => stage'[o] = IF ok THEN "open" ELSE "failed"
      /\ k = "cleanup" => stage'[o] = "cleaned"
      /\ k = "close" => stage'[o] = "closed"
      /\ k \in Ops => stage'[o] = stage[o]
  BY Completed DEF DriverInv
<1> USE OpenFilesAssumption DEF mountVars, Requests
<1>2. StageInv(o)
  BY DEF DriverInv
<1>3. StageInv(o)'
  <2>1. CASE k = "create"
    BY <1>1, <1>2, <2>1 DEF StageInv
  <2>2. CASE k = "cleanup"
    BY <1>1, <1>2, <2>2 DEF StageInv
  <2>3. CASE k = "close"
    BY <1>1, <1>2, <2>3 DEF StageInv
  <2>4. CASE k \in Ops
    BY <1>1, <1>2, <2>4 DEF StageInv
  <2> QED BY <2>1, <2>2, <2>3, <2>4
<1>4. ASSUME NEW p \in Opens, p # o PROVE StageInv(p)'
  BY <1>1, <1>4 DEF DriverInv, StageInv
<1>5. FcbInv'
  <2>1. stage[o] # "new" /\ stage'[o] # "new"
    BY <1>1, <1>2 DEF StageInv
  <2> QED BY <1>1, <2>1, FcbKeeps
<1> QED BY <1>1, <1>3, <1>4, <1>5


\* The mount and the unmount.
LEMMA EventStartDrives ==
  ASSUME DriverInv, EventStart
  PROVE  DriverInv'
<1> USE OpenFilesAssumption DEF fcbVars, ccbVars, eventVars, history
<1>1. TypeOK'
  <2>1. mountId' \in 0..MaxMounts /\ mounted' = TRUE
    BY DEF EventStart, DriverInv, TypeOK
  <2> QED BY <2>1 DEF EventStart, DriverInv, TypeOK
<1>2. ASSUME NEW p \in Opens PROVE StageInv(p)'
  BY DEF EventStart, DriverInv, TypeOK, StageInv
<1>3. FcbInv'
  BY FcbKeeps DEF EventStart
<1> QED BY <1>1, <1>2, <1>3 DEF DriverInv

LEMMA EventReleaseDrives ==
  ASSUME DriverInv, EventRelease
  PROVE  DriverInv'
<1> USE OpenFilesAssumption DEF fcbVars, ccbVars, eventVars, history
<1>1. TypeOK'
  BY DEF EventRelease, DriverInv, TypeOK
<1>2. ASSUME NEW p \in Opens PROVE StageInv(p)'
  BY DEF EventRelease, DriverInv, TypeOK, StageInv
<1>3. FcbInv'
  BY FcbKeeps DEF EventRelease
<1> QED BY <1>1, <1>2, <1>3 DEF DriverInv

\* A file object gets the FCB of its name, which counts it: a listed one, or a new
\* one that nobody else holds.
LEMMA GetFCBDrives ==
  ASSUME DriverInv, NEW o \in Opens, NEW f \in Files, GetFCB(o, f)
  PROVE  DriverInv'
<1> USE OpenFilesAssumption DEF mountVars, ccbVars, eventVars, history
<1>1. PICK x \in Opens :
      /\ x = IF listed[f] = None THEN o ELSE listed[f]
      /\ fcb[o] = None /\ stage[o] = "new"
      /\ listed' = [listed EXCEPT ![f] = x] /\ fcb' = [fcb EXCEPT ![o] = x]
      /\ fileCount' = [fileCount EXCEPT ![x] = @ + 1]
      /\ stage' = [stage EXCEPT ![o] = "creating"]
  <2>1. listed[f] \in Opens \cup {None} /\ (fcb[o] = None <=> stage[o] = "new" \/ irp[o]["close"] \in {"fcbFreed", "done"})
    BY DEF DriverInv, TypeOK, FcbInv
  <2> QED BY <2>1 DEF GetFCB
<1>2. /\ irp' \in [Opens -> [Requests -> IrpStates]]
      /\ \A p \in Opens, j \in Requests :
           irp'[p][j] = IF p = o /\ j = "create" THEN "fcb" ELSE irp[p][j]
  <2>1. irp' = [irp EXCEPT ![o]["create"] = "fcb"] /\ "create" \in Requests /\ "fcb" \in IrpStates
    BY DEF GetFCB, Requests, IrpStates
  <2> QED BY <2>1, SetEntry DEF DriverInv, TypeOK
<1>3. /\ Holders(x)' = Holders(x) \cup {o} /\ o \notin Holders(x)
      /\ \A y \in Opens : y # x => Holders(y)' = Holders(y)
  BY <1>1 DEF Holders, DriverInv, TypeOK
<1>4. ASSUME NEW y \in Opens
      PROVE  /\ IsFiniteSet(Holders(y)) /\ IsFiniteSet(Holders(y)')
             /\ Cardinality(Holders(y)') \in 0..Cardinality(Opens)
  <2>1. Holders(y) \subseteq Opens /\ Holders(y)' \subseteq Opens
    BY DEF Holders
  <2> QED BY <2>1, FS_Subset, FS_CardinalityType
<1>5. ASSUME NEW y \in Opens
      PROVE  fileCount'[y] = Cardinality(Holders(y)') /\ fileCount'[y] >= fileCount[y]
  <2>1. fileCount[y] = Cardinality(Holders(y)) /\ fileCount[y] \in Nat
    BY <1>4, FS_CardinalityType DEF DriverInv, FcbInv
  <2>2. CASE y = x
    <3>1. fileCount'[x] = fileCount[x] + 1
      BY <1>1 DEF DriverInv, TypeOK
    <3>2. Cardinality(Holders(x) \cup {o}) = Cardinality(Holders(x)) + 1
      BY <1>3, <1>4, FS_AddElement
    <3>3. Holders(y)' = Holders(x) \cup {o}
      BY <1>3, <2>2
    <3> QED BY <2>1, <2>2, <3>1, <3>2, <3>3
  <2>3. CASE y # x
    BY <1>1, <1>3, <2>1, <2>3 DEF DriverInv, TypeOK
  <2> QED BY <2>2, <2>3
<1>6. TypeOK'
  <2>1. fileCount' \in [Opens -> 0..Cardinality(Opens)]
    BY <1>1, <1>4, <1>5 DEF DriverInv, TypeOK
  <2>2. stage' \in [Opens -> Stages]
    BY <1>1 DEF DriverInv, TypeOK, Stages
  <2>3. listed' \in [Files -> Opens \cup {None}] /\ fcb' \in [Opens -> Opens \cup {None}]
    BY <1>1 DEF DriverInv, TypeOK
  <2> QED BY <1>2, <2>1, <2>2, <2>3 DEF GetFCB, DriverInv, TypeOK
<1>7. ASSUME NEW p \in Opens PROVE StageInv(p)'
  BY <1>1, <1>2 DEF GetFCB, DriverInv, TypeOK, StageInv, Requests
<1>8. FcbInv'
  <2>1. \A p \in Opens : /\ stage'[p] = IF p = o THEN "creating" ELSE stage[p]
                         /\ fcb'[p] = IF p = o THEN x ELSE fcb[p]
                         /\ irp'[p]["close"] = irp[p]["close"]
    BY <1>1, <1>2 DEF DriverInv, TypeOK, Requests
  <2>2. \A h \in Files : listed'[h] = IF h = f THEN x ELSE listed[h]
    BY <1>1 DEF DriverInv, TypeOK
  <2>3. \A p \in Opens : fcb'[p] = None <=> stage'[p] = "new" \/ irp'[p]["close"] \in {"fcbFreed", "done"}
    <3>1. irp[o]["close"] = "none"
      BY <1>1 DEF DriverInv, StageInv
    <3> QED BY <1>1, <2>1, <3>1 DEF DriverInv, FcbInv
  <2>4. stage'[x] # "new" /\ fileCount'[x] > 0
    <3>1. x # o => x = listed[f] /\ listed[f] # None
      BY <1>1
    <3>2. fileCount'[x] = fileCount[x] + 1 /\ fileCount[x] \in Nat
      BY <1>1 DEF DriverInv, TypeOK
    <3> QED BY <1>1, <2>1, <3>1, <3>2 DEF DriverInv, FcbInv
  <2>5. ASSUME NEW p \in Opens, fcb'[p] # None
        PROVE  stage'[fcb'[p]] # "new" /\ \E h \in Files : listed'[h] = fcb'[p]
    <3>1. CASE p = o
      BY <1>1, <2>1, <2>2, <2>4, <3>1
    <3>2. CASE p # o
      <4>1. /\ fcb[p] = fcb'[p] /\ stage[fcb[p]] # "new" /\ fcb[p] \in Opens
            /\ \E h \in Files : listed[h] = fcb[p]
        BY <2>1, <2>5, <3>2 DEF DriverInv, TypeOK, FcbInv
      <4>2. PICK h \in Files : listed[h] = fcb[p]
        BY <4>1
      <4>3. listed[f] # None => x = listed[f]
        BY <1>1
      <4>4. listed'[h] = fcb[p]
        BY <2>2, <4>1, <4>2, <4>3
      <4> QED BY <2>1, <4>1, <4>4
    <3> QED BY <3>1, <3>2
  <2>6. ASSUME NEW h \in Files, listed'[h] # None
        PROVE  stage'[listed'[h]] # "new" /\ fileCount'[listed'[h]] > 0
    <3>1. CASE h = f
      BY <2>2, <2>4, <3>1
    <3>2. CASE h # f
      <4>1. /\ listed'[h] = listed[h] /\ listed[h] \in Opens
            /\ stage[listed[h]] # "new" /\ fileCount[listed[h]] > 0
            /\ fileCount[listed[h]] \in Nat /\ fileCount'[listed[h]] \in Nat
        BY <1>6, <2>2, <2>6, <3>2 DEF DriverInv, TypeOK, FcbInv
      <4> QED BY <1>5, <2>1, <4>1
    <3> QED BY <3>1, <3>2
  <2>7. \A y \in Opens : fileCount'[y] = Cardinality(Holders(y)')
    BY <1>5
  <2> QED BY <2>3, <2>5, <2>6, <2>7 DEF FcbInv
<1> QED BY <1>6, <1>7, <1>8 DEF DriverInv

\* The context block comes after the FCB.
LEMMA AllocateCCBDrives ==
  ASSUME DriverInv, NEW o \in Opens, AllocateCCB(o)
  PROVE  DriverInv'
<1> USE OpenFilesAssumption DEF mountVars, fcbVars, eventVars, history
<1>1. TypeOK'
  BY DEF AllocateCCB, DriverInv, TypeOK, Requests, IrpStates
<1>2. ASSUME NEW p \in Opens PROVE StageInv(p)'
  BY DEF AllocateCCB, DriverInv, TypeOK, StageInv, Requests
<1>3. FcbInv'
  <2>1. \A p \in Opens : irp'[p]["close"] = irp[p]["close"]
    BY DEF AllocateCCB, DriverInv, TypeOK, Requests
  <2> QED BY <2>1, FcbKeeps DEF AllocateCCB
<1> QED BY <1>1, <1>2, <1>3 DEF DriverInv

\* An IRP is registered, or completed because the device is not mounted.
LEMMA RegisterDrives ==
  ASSUME DriverInv, NEW o \in Opens, NEW k \in Requests, k # "close", RegisterPendingIrp(o, k)
  PROVE  DriverInv'
<1> USE OpenFilesAssumption DEF mountVars, fcbVars, ccbVars, eventVars, history
<1>1. CASE mounted
  <2>1. /\ irp[o][k] = "checked" /\ irp' = [irp EXCEPT ![o][k] = "pending"] /\ stage' = stage
        /\ StampEvent(o, k, "queued") /\ UNCHANGED <<mountVars, fcbVars, ccbVars, openInfo, history>>
    BY <1>1 DEF RegisterPendingIrp
  <2>2. /\ irp' \in [Opens -> [Requests -> IrpStates]]
        /\ \A p \in Opens, j \in Requests :
             irp'[p][j] = IF p = o /\ j = k THEN "pending" ELSE irp[p][j]
    <3>1. irp \in [Opens -> [Requests -> IrpStates]] /\ "pending" \in IrpStates
      BY DEF DriverInv, TypeOK, IrpStates
    <3> QED BY <2>1, <3>1, SetEntry
  <2>3. TypeOK'
    <3>1. /\ event' \in [Opens -> [Requests -> EventStates]]
          /\ eventMount' \in [Opens -> [Requests -> 0..MaxMounts]]
      <4>1. /\ event \in [Opens -> [Requests -> EventStates]] /\ "queued" \in EventStates
            /\ eventMount \in [Opens -> [Requests -> 0..MaxMounts]] /\ mountId \in 0..MaxMounts
            /\ event' = [event EXCEPT ![o][k] = "queued"]
            /\ eventMount' = [eventMount EXCEPT ![o][k] = mountId]
        BY <2>1 DEF StampEvent, DriverInv, TypeOK, EventStates
      <4> QED BY <4>1
    <3>2. eventContext' \in [Opens -> [Requests -> BOOLEAN]]
      BY <2>1, SetEntry DEF StampEvent, DriverInv, TypeOK
    <3> QED BY <2>1, <2>2, <3>1, <3>2 DEF DriverInv, TypeOK
  <2>4. ASSUME NEW p \in Opens PROVE StageInv(p)'
    BY <2>1, <2>2 DEF DriverInv, StageInv, Requests
  <2>5. FcbInv'
    BY <2>1, <2>2, FcbKeeps DEF Requests
  <2> QED BY <2>3, <2>4, <2>5 DEF DriverInv
<1>2. CASE ~mounted
  <2>1. /\ irp[o][k] = "checked" /\ CompleteRequest(o, k, FALSE)
        /\ UNCHANGED <<mountVars, fcbVars, ccb, ccbMount>>
        /\ UNCHANGED <<userContext, event, eventMount, eventContext, openInfo, givenUp, crossed>>
    BY <1>2 DEF RegisterPendingIrp
  <2>2. /\ irp' \in [Opens -> [Requests -> IrpStates]] /\ stage' \in [Opens -> Stages]
        /\ \A p \in Opens : StageInv(p)'
        /\ FcbInv'
    BY <2>1, CompletionDrives
  <2>3. TypeOK'
    BY <2>1, <2>2 DEF DriverInv, TypeOK
  <2> QED BY <2>2, <2>3 DEF DriverInv
<1> QED BY <1>1, <1>2

\* Cleanup and the operations are checked at the stages that allow them.
LEMMA CheckCleanupDrives ==
  ASSUME DriverInv, NEW o \in Opens, CheckCleanup(o)
  PROVE  DriverInv'
<1> USE OpenFilesAssumption DEF mountVars, fcbVars, ccbVars, eventVars, history
<1>1. CASE DokanCheckCCB(o)
  <2>1. /\ stage[o] = "open" /\ irp[o]["cleanup"] = "none"
        /\ irp' = [irp EXCEPT ![o]["cleanup"] = "checked"]
        /\ stage' = [stage EXCEPT ![o] = "cleaning"]
        /\ UNCHANGED <<mountVars, fcbVars, ccbVars, eventVars, openInfo, history>>
    BY <1>1 DEF CheckCleanup
  <2>2. /\ irp' \in [Opens -> [Requests -> IrpStates]]
        /\ \A p \in Opens, j \in Requests :
             irp'[p][j] = IF p = o /\ j = "cleanup" THEN "checked" ELSE irp[p][j]
    <3>1. /\ irp \in [Opens -> [Requests -> IrpStates]]
          /\ "checked" \in IrpStates /\ "cleanup" \in Requests
      BY DEF DriverInv, TypeOK, IrpStates, Requests
    <3> QED BY <2>1, <3>1, SetEntry
  <2>3. TypeOK'
    BY <2>1, <2>2 DEF DriverInv, TypeOK, Stages
  <2>4. ASSUME NEW p \in Opens PROVE StageInv(p)'
    BY <2>1, <2>2 DEF DriverInv, TypeOK, StageInv, Requests
  <2>5. FcbInv'
    <3>1. \A p \in Opens : stage'[p] = "new" <=> stage[p] = "new"
      BY <2>1 DEF DriverInv, TypeOK
    <3>2. \A p \in Opens : irp'[p]["close"] = irp[p]["close"]
      BY <2>2 DEF Requests
    <3> QED BY <2>1, <3>1, <3>2, FcbKeeps
  <2> QED BY <2>3, <2>4, <2>5 DEF DriverInv
<1>2. CASE ~DokanCheckCCB(o)
  <2>1. /\ stage[o] = "open" /\ CompleteRequest(o, "cleanup", FALSE) /\ "cleanup" \in Requests
        /\ UNCHANGED <<mountVars, fcbVars, ccb, ccbMount>>
        /\ UNCHANGED <<userContext, event, eventMount, eventContext, openInfo, givenUp, crossed>>
    BY <1>2 DEF CheckCleanup, Requests
  <2>2. /\ irp' \in [Opens -> [Requests -> IrpStates]] /\ stage' \in [Opens -> Stages]
        /\ \A p \in Opens : StageInv(p)'
        /\ FcbInv'
    BY <2>1, CompletionDrives
  <2>3. TypeOK'
    BY <2>1, <2>2 DEF DriverInv, TypeOK
  <2> QED BY <2>2, <2>3 DEF DriverInv
<1> QED BY <1>1, <1>2

LEMMA CheckOperationDrives ==
  ASSUME DriverInv, NEW o \in Opens, NEW k \in Ops, CheckOperation(o, k)
  PROVE  DriverInv'
<1> USE OpenFilesAssumption DEF mountVars, fcbVars, ccbVars, eventVars, history
<1>0. k \in Requests
  BY DEF Requests
<1>1. CASE DokanCheckCCB(o)
  <2>1. /\ stage[o] \in {"open", "cleaning", "cleaned"} /\ irp[o][k] = "none"
        /\ irp' = [irp EXCEPT ![o][k] = "checked"] /\ stage' = stage
        /\ UNCHANGED <<mountVars, fcbVars, ccbVars, eventVars, openInfo, history>>
    BY <1>1 DEF CheckOperation
  <2>2. /\ irp' \in [Opens -> [Requests -> IrpStates]]
        /\ \A p \in Opens, j \in Requests :
             irp'[p][j] = IF p = o /\ j = k THEN "checked" ELSE irp[p][j]
    <3>1. irp \in [Opens -> [Requests -> IrpStates]] /\ "checked" \in IrpStates
      BY DEF DriverInv, TypeOK, IrpStates
    <3> QED BY <1>0, <2>1, <3>1, SetEntry
  <2>3. TypeOK'
    BY <2>1, <2>2 DEF DriverInv, TypeOK
  <2>4. ASSUME NEW p \in Opens PROVE StageInv(p)'
    BY <2>1, <2>2 DEF DriverInv, StageInv, Requests
  <2>5. FcbInv'
    BY <2>1, <2>2, FcbKeeps DEF Requests
  <2> QED BY <2>3, <2>4, <2>5 DEF DriverInv
<1>2. CASE ~DokanCheckCCB(o)
  <2>1. /\ stage[o] \in {"open", "cleaning", "cleaned"} /\ CompleteRequest(o, k, FALSE)
        /\ UNCHANGED <<mountVars, fcbVars, ccb, ccbMount>>
        /\ UNCHANGED <<userContext, event, eventMount, eventContext, openInfo, givenUp, crossed>>
    BY <1>2 DEF CheckOperation
  <2>2. /\ irp' \in [Opens -> [Requests -> IrpStates]] /\ stage' \in [Opens -> Stages]
        /\ \A p \in Opens : StageInv(p)'
        /\ FcbInv'
    BY <1>0, <2>1, CompletionDrives
  <2>3. TypeOK'
    BY <2>1, <2>2 DEF DriverInv, TypeOK
  <2> QED BY <2>2, <2>3 DEF DriverInv
<1> QED BY <1>1, <1>2

\* A close goes through its steps: checked, allocated, the context block freed,
LEMMA CheckCloseDrives ==
  ASSUME DriverInv, NEW o \in Opens, CheckClose(o)
  PROVE  DriverInv'
<1> USE OpenFilesAssumption DEF mountVars, fcbVars, ccbVars, eventVars, history
<1>1. PICK v \in {"checked", "stale"} :
        irp' = [irp EXCEPT ![o]["close"] = v] /\ stage' = [stage EXCEPT ![o] = "closing"]
  BY DEF CheckClose
<1>2. /\ irp' \in [Opens -> [Requests -> IrpStates]]
      /\ \A p \in Opens, j \in Requests :
           irp'[p][j] = IF p = o /\ j = "close" THEN v ELSE irp[p][j]
  <2>1. irp \in [Opens -> [Requests -> IrpStates]] /\ v \in IrpStates /\ "close" \in Requests
    BY DEF DriverInv, TypeOK, IrpStates, Requests
  <2> QED BY <1>1, <2>1, SetEntry
<1>3. TypeOK'
  BY <1>1, <1>2 DEF CheckClose, DriverInv, TypeOK, Stages
<1>4. ASSUME NEW p \in Opens PROVE StageInv(p)'
  BY <1>1, <1>2 DEF CheckClose, DriverInv, TypeOK, StageInv, Requests
<1>5. FcbInv'
  <2>1. stage[o] # "new" /\ irp[o]["close"] = "none" /\ UNCHANGED fcbVars
    BY DEF CheckClose
  <2>2. \A p \in Opens : stage'[p] = "new" <=> stage[p] = "new"
    BY <1>1, <2>1 DEF DriverInv, TypeOK
  <2>3. \A p \in Opens : irp'[p]["close"] \in {"fcbFreed", "done"} <=> irp[p]["close"] \in {"fcbFreed", "done"}
    BY <1>2, <2>1 DEF Requests
  <2> QED BY <2>1, <2>2, <2>3, FcbKeeps
<1> QED BY <1>3, <1>4, <1>5 DEF DriverInv

LEMMA AllocateCloseDrives ==
  ASSUME DriverInv, NEW o \in Opens, AllocateClose(o)
  PROVE  DriverInv'
<1> USE OpenFilesAssumption DEF mountVars, fcbVars, ccbVars, eventVars, history
<1>1. /\ irp' \in [Opens -> [Requests -> IrpStates]]
      /\ \A p \in Opens, j \in Requests :
           irp'[p][j] = IF p = o /\ j = "close" THEN "allocated" ELSE irp[p][j]
  <2>1. /\ irp \in [Opens -> [Requests -> IrpStates]]
        /\ "allocated" \in IrpStates /\ "close" \in Requests
    BY DEF DriverInv, TypeOK, IrpStates, Requests
  <2> QED BY <2>1, SetEntry DEF AllocateClose
<1>2. TypeOK'
  <2>1. /\ event' \in [Opens -> [Requests -> EventStates]]
        /\ eventMount' \in [Opens -> [Requests -> 0..MaxMounts]]
        /\ eventContext' \in [Opens -> [Requests -> BOOLEAN]]
    BY DEF AllocateClose, StampEvent, DriverInv, TypeOK, EventStates, Requests
  <2> QED BY <1>1, <2>1 DEF AllocateClose, DriverInv, TypeOK
<1>3. ASSUME NEW p \in Opens PROVE StageInv(p)'
  BY <1>1 DEF AllocateClose, DriverInv, StageInv, Requests
<1>4. FcbInv'
  <2>1. stage' = stage /\ irp[o]["close"] = "checked" /\ UNCHANGED fcbVars
    BY DEF AllocateClose
  <2> QED BY <1>1, <2>1, FcbKeeps DEF Requests
<1> QED BY <1>2, <1>3, <1>4 DEF DriverInv

LEMMA FreeCCBDrives ==
  ASSUME DriverInv, NEW o \in Opens, FreeCCB(o)
  PROVE  DriverInv'
<1> USE OpenFilesAssumption DEF mountVars, fcbVars, ccbVars, eventVars, history
<1>1. /\ irp' \in [Opens -> [Requests -> IrpStates]]
      /\ \A p \in Opens, j \in Requests :
           irp'[p][j] = IF p = o /\ j = "close" THEN "ccbFreed" ELSE irp[p][j]
  <2>1. /\ irp \in [Opens -> [Requests -> IrpStates]]
        /\ "ccbFreed" \in IrpStates /\ "close" \in Requests
    BY DEF DriverInv, TypeOK, IrpStates, Requests
  <2> QED BY <2>1, SetEntry DEF FreeCCB
<1>2. TypeOK'
  BY <1>1 DEF FreeCCB, DriverInv, TypeOK
<1>3. ASSUME NEW p \in Opens PROVE StageInv(p)'
  BY <1>1 DEF FreeCCB, DriverInv, TypeOK, StageInv, Requests
<1>4. FcbInv'
  <2>1. stage' = stage /\ irp[o]["close"] \in {"allocated", "stale"} /\ UNCHANGED fcbVars
    BY DEF FreeCCB
  <2> QED BY <1>1, <2>1, FcbKeeps DEF Requests
<1> QED BY <1>2, <1>3, <1>4 DEF DriverInv

\* the FCB given back, which the last holder takes off the list with it,
LEMMA FreeFCBDrives ==
  ASSUME DriverInv, NEW o \in Opens, FreeFCB(o)
  PROVE  DriverInv'
<1> USE OpenFilesAssumption DEF mountVars, ccbVars, eventVars, history
<1>1. /\ irp' \in [Opens -> [Requests -> IrpStates]]
      /\ \A p \in Opens, j \in Requests :
           irp'[p][j] = IF p = o /\ j = "close" THEN "fcbFreed" ELSE irp[p][j]
  <2>1. /\ irp \in [Opens -> [Requests -> IrpStates]]
        /\ "fcbFreed" \in IrpStates /\ "close" \in Requests
    BY DEF DriverInv, TypeOK, IrpStates, Requests
  <2> QED BY <2>1, SetEntry DEF FreeFCB
<1>2. irp[o]["close"] = "ccbFreed" /\ stage[o] # "new" /\ stage' = stage
  BY DEF FreeFCB, DriverInv, StageInv
<1>3. PICK x \in Opens :
      /\ x = fcb[o] /\ fcb' = [fcb EXCEPT ![o] = None]
      /\ fileCount' = [fileCount EXCEPT ![x] = @ - 1]
      /\ listed' = [f \in Files |-> IF fileCount[x] = 1 /\ listed[f] = x THEN None ELSE listed[f]]
  <2>1. fcb[o] \in Opens \cup {None} /\ fcb[o] # None
    <3>1. /\ fcb \in [Opens -> Opens \cup {None}]
          /\ fcb[o] = None <=> stage[o] = "new" \/ irp[o]["close"] \in {"fcbFreed", "done"}
      BY DEF DriverInv, TypeOK, FcbInv
    <3> QED BY <1>2, <3>1
  <2> QED BY <2>1 DEF FreeFCB
<1>4. /\ Holders(x)' = Holders(x) \ {o} /\ o \in Holders(x)
      /\ \A y \in Opens : y # x => Holders(y)' = Holders(y)
  BY <1>3 DEF Holders, DriverInv, TypeOK
<1>5. ASSUME NEW y \in Opens
      PROVE  /\ IsFiniteSet(Holders(y)) /\ IsFiniteSet(Holders(y)')
             /\ Cardinality(Holders(y)') \in 0..Cardinality(Opens)
  <2>1. Holders(y) \subseteq Opens /\ Holders(y)' \subseteq Opens
    BY DEF Holders
  <2> QED BY <2>1, FS_Subset, FS_CardinalityType
<1>6. fileCount'[x] = fileCount[x] - 1 /\ \A y \in Opens : y # x => fileCount'[y] = fileCount[y]
  BY <1>3 DEF DriverInv, TypeOK
<1>7. ASSUME NEW y \in Opens PROVE fileCount'[y] = Cardinality(Holders(y)')
  <2>1. fileCount[y] = Cardinality(Holders(y))
    BY DEF DriverInv, FcbInv
  <2>2. Cardinality(Holders(x) \ {o}) = Cardinality(Holders(x)) - 1
    BY <1>4, <1>5, FS_RemoveElement
  <2> QED BY <1>4, <1>6, <2>1, <2>2
<1>8. TypeOK'
  <2>1. fileCount' \in [Opens -> 0..Cardinality(Opens)]
    BY <1>3, <1>5, <1>7 DEF DriverInv, TypeOK
  <2>2. listed' \in [Files -> Opens \cup {None}] /\ fcb' \in [Opens -> Opens \cup {None}]
    BY <1>3 DEF DriverInv, TypeOK
  <2> QED BY <1>1, <2>1, <2>2 DEF FreeFCB, DriverInv, TypeOK
<1>9. ASSUME NEW p \in Opens PROVE StageInv(p)'
  BY <1>1, <1>2 DEF FreeFCB, DriverInv, StageInv, Requests
<1>10. FcbInv'
  <2>1. \A p \in Opens : fcb'[p] = IF p = o THEN None ELSE fcb[p]
    BY <1>3 DEF DriverInv, TypeOK
  <2>2. \A f \in Files : listed'[f] = IF fileCount[x] = 1 /\ listed[f] = x THEN None ELSE listed[f]
    BY <1>3
  <2>3. \A p \in Opens : fcb'[p] = None <=> stage'[p] = "new" \/ irp'[p]["close"] \in {"fcbFreed", "done"}
    BY <1>1, <1>2, <2>1 DEF DriverInv, FcbInv, Requests
  <2>4. ASSUME NEW p \in Opens, fcb'[p] # None
        PROVE  stage'[fcb'[p]] # "new" /\ \E f \in Files : listed'[f] = fcb'[p]
    <3>1. p # o /\ fcb'[p] = fcb[p] /\ stage[fcb[p]] # "new"
      BY <1>2, <2>1, <2>4 DEF DriverInv, FcbInv
    <3>2. PICK f \in Files : listed[f] = fcb[p]
      BY <2>1, <2>4 DEF DriverInv, FcbInv
    <3>3. ~(fileCount[x] = 1 /\ fcb[p] = x)
      <4>1. ASSUME fcb[p] = x PROVE fileCount[x] # 1
        <5>1. p \in Holders(x)' /\ IsFiniteSet(Holders(x)')
          BY <1>4, <1>5, <3>1, <4>1 DEF Holders
        <5>2. Cardinality(Holders(x)') # 0
          BY <5>1, FS_EmptySet
        <5> QED BY <1>6, <1>7, <5>2 DEF DriverInv, TypeOK
      <4> QED BY <4>1
    <3> QED BY <1>2, <2>2, <3>1, <3>2, <3>3
  <2>5. ASSUME NEW f \in Files, listed'[f] # None
        PROVE  stage'[listed'[f]] # "new" /\ fileCount'[listed'[f]] > 0
    <3>1. /\ listed'[f] = listed[f] /\ listed[f] \in Opens
          /\ stage[listed[f]] # "new" /\ fileCount[listed[f]] > 0
          /\ ~(fileCount[x] = 1 /\ listed[f] = x) /\ fileCount[listed[f]] \in Nat
      BY <2>2, <2>5 DEF DriverInv, TypeOK, FcbInv
    <3> QED BY <1>2, <1>6, <3>1
  <2> QED BY <1>7, <2>3, <2>4, <2>5 DEF FcbInv
<1> QED BY <1>8, <1>9, <1>10 DEF DriverInv

\* and completed.
LEMMA CompleteCloseDrives ==
  ASSUME DriverInv, NEW o \in Opens, CompleteClose(o)
  PROVE  DriverInv'
<1> USE OpenFilesAssumption DEF mountVars, fcbVars, ccbVars, eventVars, history
<1>1. /\ irp[o]["close"] = "fcbFreed" /\ CompleteRequest(o, "close", TRUE) /\ "close" \in Requests
      /\ UNCHANGED <<mountVars, fcbVars, ccb, ccbMount>>
      /\ UNCHANGED <<userContext, eventMount, eventContext, openInfo, givenUp, crossed>>
  BY DEF CompleteClose, Requests
<1>2. /\ irp' \in [Opens -> [Requests -> IrpStates]] /\ stage' \in [Opens -> Stages]
      /\ \A p \in Opens : StageInv(p)'
      /\ FcbInv'
  BY <1>1, CompletionDrives
<1>3. event' \in [Opens -> [Requests -> EventStates]]
  <2>1. event[o]["close"] \in EventStates
    BY <1>1 DEF DriverInv, TypeOK
  <2>2. PICK v \in EventStates : event' = [event EXCEPT ![o]["close"] = v]
    BY <2>1 DEF CompleteClose, EventStates
  <2> QED BY <1>1, <2>2, SetEntry DEF DriverInv, TypeOK
<1>4. TypeOK'
  BY <1>1, <1>2, <1>3 DEF DriverInv, TypeOK
<1> QED BY <1>2, <1>4 DEF DriverInv

\* The application gets an event, drops it, or is done with a close: the driver does
\* not notice.
LEMMA EventDrives ==
  ASSUME DriverInv, NEW o \in Opens, NEW k \in Requests,
         Begin(o, k) \/ Drop(o, k) \/ FinishClose(o)
  PROVE  DriverInv'
<1> USE OpenFilesAssumption DEF mountVars, fcbVars, ccbVars, eventVars, history
<1>1. UNCHANGED <<mounted, mountId, listed, fileCount, fcb>>
      /\ UNCHANGED <<ccb, ccbMount, stage, irp, givenUp, crossed>>
  BY DEF Begin, Drop, FinishClose
<1>2. TypeOK'
  <2>1. event' \in [Opens -> [Requests -> EventStates]]
    <3>1. PICK j \in Requests, v \in EventStates : event' = [event EXCEPT ![o][j] = v]
      BY DEF Begin, Drop, FinishClose, EventStates, Requests
    <3> QED BY <3>1, SetEntry DEF DriverInv, TypeOK
  <2>2. openInfo' \in [Opens -> {"none", "live", "freed"}]
    BY DEF Begin, Drop, FinishClose, DriverInv, TypeOK
  <2>3. UNCHANGED <<mounted, userContext, eventMount, eventContext>>
    BY DEF Begin, Drop, FinishClose
  <2> QED BY <1>1, <2>1, <2>2, <2>3 DEF DriverInv, TypeOK
<1>3. ASSUME NEW p \in Opens PROVE StageInv(p)'
  BY <1>1 DEF DriverInv, StageInv
<1>4. FcbInv'
  BY <1>1, FcbKeeps
<1> QED BY <1>2, <1>3, <1>4 DEF DriverInv

\* The answer of the application completes the IRP, or comes too late.
LEMMA AnswerDrives ==
  ASSUME DriverInv, NEW o \in Opens, NEW k \in Requests, NEW ok \in BOOLEAN, Answer(o, k, ok),
         event' \in [Opens -> [Requests -> EventStates]],
         UNCHANGED <<mountVars, fcbVars, ccb, ccbMount, eventMount, eventContext, openInfo>>,
         UNCHANGED history
  PROVE  DriverInv'
<1>1. CASE irp[o][k] = "pending"
  <2>1. /\ CompleteRequest(o, k, ok)
        /\ userContext' = [userContext EXCEPT ![o] = (k = "create") \/ eventContext[o][k]]
    BY <1>1 DEF Answer
  <2>2. k # "close"
    BY <1>1 DEF DriverInv, StageInv
  <2>3. /\ irp' \in [Opens -> [Requests -> IrpStates]] /\ stage' \in [Opens -> Stages]
        /\ \A p \in Opens : StageInv(p)'
        /\ FcbInv'
    BY <1>1, <2>1, <2>2, CompletionDrives
  <2>4. userContext' \in [Opens -> BOOLEAN]
    BY <2>1 DEF DriverInv, TypeOK
  <2>5. TypeOK'
    BY <2>3, <2>4 DEF DriverInv, TypeOK, mountVars, fcbVars, history
  <2> QED BY <2>3, <2>5 DEF DriverInv
<1>2. CASE irp[o][k] # "pending"
  <2>1. UNCHANGED <<userContext, stage, irp>>
    BY <1>2 DEF Answer
  <2>2. TypeOK'
    BY <2>1 DEF DriverInv, TypeOK, mountVars, fcbVars, history
  <2>3. ASSUME NEW p \in Opens PROVE StageInv(p)'
    BY <2>1 DEF DriverInv, StageInv, mountVars
  <2>4. FcbInv'
    BY <2>1, FcbKeeps
  <2> QED BY <2>2, <2>3, <2>4 DEF DriverInv
<1> QED BY <1>1, <1>2

LEMMA FinishDrives ==
  ASSUME DriverInv, NEW o \in Opens, NEW k \in Requests,
         FinishCreate(o) \/ FinishOperation(o, k) \/ FinishCleanup(o)
  PROVE  DriverInv'
<1>1. PICK j \in Requests, ok \in BOOLEAN, v \in {"done", "failed"} :
        /\ Answer(o, j, ok) /\ event' = [event EXCEPT ![o][j] = v]
        /\ UNCHANGED <<mountVars, fcbVars, ccb, ccbMount, eventMount, eventContext, openInfo>>
        /\ UNCHANGED history
  <2>1. CASE FinishCreate(o)
    BY <2>1 DEF FinishCreate, Requests
  <2>2. CASE FinishOperation(o, k)
    BY <2>2 DEF FinishOperation
  <2>3. CASE FinishCleanup(o)
    BY <2>3 DEF FinishCleanup, Requests
  <2> QED BY <2>1, <2>2, <2>3
<1>2. event' \in [Opens -> [Requests -> EventStates]]
  BY <1>1 DEF DriverInv, TypeOK, EventStates
<1> QED BY <1>1, <1>2, AnswerDrives

\* The driver completes a pending IRP by itself.
LEMMA GiveUpDrives ==
  ASSUME DriverInv, NEW o \in Opens, NEW k \in Requests, GiveUp(o, k) \/ Release(o, k)
  PROVE  DriverInv'
<1>1. PICK ok \in BOOLEAN :
        /\ irp[o][k] = "pending" /\ CompleteRequest(o, k, ok)
        /\ UNCHANGED <<mountVars, fcbVars, ccb, ccbMount>>
        /\ UNCHANGED <<userContext, event, eventMount, eventContext, openInfo>>
        /\ givenUp' \subseteq Opens /\ crossed' \subseteq Opens
  BY DEF GiveUp, Release, ccbVars, eventVars, history, DriverInv, TypeOK
<1>2. k # "close"
  BY <1>1 DEF DriverInv, StageInv
<1>3. /\ irp' \in [Opens -> [Requests -> IrpStates]] /\ stage' \in [Opens -> Stages]
      /\ \A p \in Opens : StageInv(p)'
      /\ FcbInv'
  BY <1>1, <1>2, CompletionDrives
<1>4. TypeOK'
  BY <1>1, <1>3 DEF DriverInv, TypeOK, mountVars, fcbVars
<1> QED BY <1>3, <1>4 DEF DriverInv

-----------------------------------------------------------------------------
(* The steps, for the events and the open info.                            *)

\* Nothing is said of another file object than the one that takes the step.
LEMMA OthersKeep ==
  ASSUME NEW p \in Opens, EventInv(p), UNCHANGED mountVars,
         ccbMount'[p] = ccbMount[p], userContext'[p] = userContext[p], stage'[p] = stage[p],
         openInfo'[p] = openInfo[p],
         p \in givenUp' <=> p \in givenUp, p \in crossed' <=> p \in crossed,
         \A k \in Requests : /\ irp'[p][k] = irp[p][k] /\ event'[p][k] = event[p][k]
                             /\ eventMount'[p][k] = eventMount[p][k]
                             /\ eventContext'[p][k] = eventContext[p][k]
  PROVE  EventInv(p)'
BY DEF mountVars, Requests, Mounts, EventInv, CreateInv, OperationInv, CloseInv, StampInv,
   Valid, Settled

\* A mount makes every file object that was opened before it stale.
LEMMA EventStartKeeps ==
  ASSUME IInv, EventStart
  PROVE  \A p \in Opens : EventInv(p)'
<1> USE OpenFilesAssumption DEF fcbVars, ccbVars, eventVars, history
<1> SUFFICES ASSUME NEW o \in Opens PROVE EventInv(o)'
  OBVIOUS
<1>1. StageInv(o) /\ EventInv(o) /\ TypeOK /\ (mounted => mountId > 0)
  BY DEF IInv, DriverInv
<1> USE <1>1 DEF EventStart, Requests, StageInv, TypeOK, EventInv, Valid, Settled
<1>2. CreateInv(o)'
  BY DEF CreateInv
<1>3. OperationInv(o)'
  BY DEF OperationInv
<1>4. CloseInv(o)'
  BY DEF CloseInv
<1>5. StampInv(o)'
  BY DEF StampInv
<1> QED BY <1>2, <1>3, <1>4, <1>5

\* An unmount says nothing of the events that are out.
LEMMA EventReleaseKeeps ==
  ASSUME IInv, EventRelease
  PROVE  \A p \in Opens : EventInv(p)'
<1> USE OpenFilesAssumption DEF fcbVars, ccbVars, eventVars, history
<1> SUFFICES ASSUME NEW o \in Opens PROVE EventInv(o)'
  OBVIOUS
<1>1. StageInv(o) /\ EventInv(o) /\ TypeOK /\ (mounted => mountId > 0)
  BY DEF IInv, DriverInv
<1> USE <1>1 DEF EventRelease, Requests, StageInv, TypeOK, EventInv, Valid, Settled
<1>2. CreateInv(o)'
  BY DEF CreateInv
<1>3. OperationInv(o)'
  BY DEF OperationInv
<1>4. CloseInv(o)'
  BY DEF CloseInv
<1>5. StampInv(o)'
  BY DEF StampInv
<1> QED BY <1>2, <1>3, <1>4, <1>5

\* A new file object has no event yet.
LEMMA GetFCBKeeps ==
  ASSUME IInv, NEW o \in Opens, NEW f \in Files, GetFCB(o, f)
  PROVE  \A p \in Opens : EventInv(p)'
<1> USE OpenFilesAssumption DEF mountVars, fcbVars, ccbVars, eventVars, history
<1>1. StageInv(o) /\ EventInv(o) /\ TypeOK
  BY DEF IInv, DriverInv
<1>2. EventInv(o)'
  <2> USE <1>1 DEF Requests, GetFCB, StageInv, TypeOK, EventInv, Valid, Settled
  <2>1. CreateInv(o)'
    BY DEF CreateInv, OperationInv, CloseInv, StampInv
  <2>2. OperationInv(o)'
    BY DEF CreateInv, OperationInv, CloseInv, StampInv
  <2>3. CloseInv(o)'
    BY DEF CreateInv, OperationInv, CloseInv, StampInv
  <2>4. StampInv(o)'
    BY DEF CreateInv, OperationInv, CloseInv, StampInv
  <2> QED BY <2>1, <2>2, <2>3, <2>4
<1>3. ASSUME NEW p \in Opens, p # o PROVE EventInv(p)'
  BY <1>3, OthersKeep DEF IInv, DriverInv, TypeOK, GetFCB
<1> QED BY <1>2, <1>3

\* The context block is of the present mount, and has no context.
LEMMA AllocateCCBKeeps ==
  ASSUME IInv, NEW o \in Opens, AllocateCCB(o)
  PROVE  \A p \in Opens : EventInv(p)'
<1> USE OpenFilesAssumption DEF mountVars, fcbVars, ccbVars, eventVars, history
<1>1. StageInv(o) /\ EventInv(o) /\ TypeOK
  BY DEF IInv, DriverInv
<1>2. EventInv(o)'
  <2> USE <1>1 DEF Requests, AllocateCCB, StageInv, TypeOK, EventInv, Valid, Settled
  <2>1. CreateInv(o)'
    BY DEF CreateInv, OperationInv, CloseInv, StampInv
  <2>2. OperationInv(o)'
    BY DEF CreateInv, OperationInv, CloseInv, StampInv
  <2>3. CloseInv(o)'
    BY DEF CreateInv, OperationInv, CloseInv, StampInv
  <2>4. StampInv(o)'
    BY DEF CreateInv, OperationInv, CloseInv, StampInv
  <2> QED BY <2>1, <2>2, <2>3, <2>4
<1>3. ASSUME NEW p \in Opens, p # o PROVE EventInv(p)'
  BY <1>3, OthersKeep DEF IInv, DriverInv, TypeOK, AllocateCCB
<1> QED BY <1>2, <1>3

\* An event is made for the mount that the file object was checked against, with the
\* context that its create has left.
LEMMA RegisterPendingIrpKeeps ==
  ASSUME IInv, NEW o \in Opens, NEW k \in Requests, k # "close", RegisterPendingIrp(o, k)
  PROVE  \A p \in Opens : EventInv(p)'
<1> USE OpenFilesAssumption DEF mountVars, fcbVars, ccbVars, eventVars, history
<1>1. StageInv(o) /\ EventInv(o) /\ TypeOK /\ (mounted => mountId \in 1..mountId)
  BY DEF IInv, DriverInv, TypeOK
<1>2. EventInv(o)'
  <2> USE <1>1 DEF Requests, RegisterPendingIrp, StampEvent, CompleteRequest, NextStage, StageInv, TypeOK, EventInv, Valid, Settled
  <2>1. CreateInv(o)'
    BY DEF CreateInv, OperationInv, CloseInv, StampInv
  <2>2. OperationInv(o)'
    <3>1. /\ UNCHANGED <<mounted, mountId, ccbMount, givenUp>>
          /\ event[o][k] = "none" /\ irp[o][k] = "checked"
          /\ Valid(o) => mounted
      BY DEF CreateInv, OperationInv
    <3> QED BY <3>1 DEF OperationInv
  <2>3. CloseInv(o)'
    BY DEF CreateInv, OperationInv, CloseInv, StampInv
  <2>4. StampInv(o)'
    <3>1. CASE mounted
      <4>1. /\ mountId' = mountId /\ ccbMount'[o] = ccbMount[o] /\ userContext'[o] = userContext[o]
            /\ irp[o][k] = "checked" /\ (ccbMount[o] = mountId \/ o \in crossed)
            /\ mountId \in 1..mountId /\ crossed' = crossed
        BY <3>1 DEF StampInv
      <4>2. /\ k # "create" => event[o]["create"] = "done" /\ userContext[o]
            /\ k = "create" => event[o]["create"] = "none"
        BY <3>1, <4>1 DEF StampInv, CreateInv
      <4>3. \A j \in Requests :
              /\ irp'[o][j] = IF j = k THEN "pending" ELSE irp[o][j]
              /\ event'[o][j] = IF j = k THEN "queued" ELSE event[o][j]
              /\ eventMount'[o][j] = IF j = k THEN mountId ELSE eventMount[o][j]
              /\ eventContext'[o][j] = IF j = k THEN userContext[o] ELSE eventContext[o][j]
        BY <3>1
      <4>4. StampInv(o)
        OBVIOUS
      <4> HIDE <1>1 DEF RegisterPendingIrp, StampEvent, CompleteRequest, NextStage, TypeOK, StageInv,
                        Requests
      <4>5. "create" \in Requests
        BY DEF Requests
      <4> SUFFICES ASSUME NEW j \in Requests
                   PROVE  /\ event'[o][j] # "none" => eventMount'[o][j] \in 1..mountId'
                          /\ event'[o][j] # "none" =>
                               eventMount'[o][j] = ccbMount'[o] \/ o \in crossed'
                          /\ irp'[o][j] = "checked" => ccbMount'[o] = mountId' \/ o \in crossed'
                          /\ event'[o][j] = "dropped" => mountId' > 1
                          /\ j # "create" /\ (irp'[o][j] = "checked" \/ event'[o][j] # "none") =>
                               event'[o]["create"] = "done" /\ userContext'[o]
                          /\ j # "create" /\ event'[o][j] # "none" => eventContext'[o][j]
        BY DEF StampInv
      <4>6. CASE j = k
        BY <4>1, <4>2, <4>3, <4>5, <4>6
      <4>7. CASE j # k
        <5>1. /\ irp'[o][j] = irp[o][j] /\ event'[o][j] = event[o][j]
              /\ eventMount'[o][j] = eventMount[o][j] /\ eventContext'[o][j] = eventContext[o][j]
          BY <4>3, <4>7
        <5>2. event[o]["create"] = "done" => event'[o]["create"] = "done"
          BY <4>2, <4>3, <4>5
        <5> QED BY <4>1, <4>4, <5>1, <5>2 DEF StampInv
      <4> QED BY <4>6, <4>7
    <3>2. CASE ~mounted
      BY <3>2 DEF StampInv
    <3> QED BY <3>1, <3>2
  <2> QED BY <2>1, <2>2, <2>3, <2>4
<1>3. ASSUME NEW p \in Opens, p # o PROVE EventInv(p)'
  <2>1. \A j \in Requests : /\ irp'[p][j] = irp[p][j] /\ event'[p][j] = event[p][j]
                             /\ eventMount'[p][j] = eventMount[p][j]
                             /\ eventContext'[p][j] = eventContext[p][j]
    BY <1>1, <1>3 DEF TypeOK, RegisterPendingIrp, StampEvent, CompleteRequest
  <2>2. /\ UNCHANGED mountVars /\ stage'[p] = stage[p]
        /\ UNCHANGED <<ccbMount, userContext, openInfo, givenUp, crossed>>
    BY <1>1, <1>3 DEF TypeOK, RegisterPendingIrp, CompleteRequest
  <2> HIDE DEF mountVars
  <2> QED BY <2>1, <2>2, OthersKeep DEF IInv
<1> QED BY <1>2, <1>3

\* What passes the check is of the present mount, so its create has been answered.
LEMMA CheckCleanupKeeps ==
  ASSUME IInv, NEW o \in Opens, CheckCleanup(o)
  PROVE  \A p \in Opens : EventInv(p)'
<1> USE OpenFilesAssumption DEF mountVars, fcbVars, ccbVars, eventVars, history
<1>1. StageInv(o) /\ EventInv(o) /\ TypeOK
  BY DEF IInv, DriverInv
<1>2. EventInv(o)'
  <2> USE <1>1 DEF Requests, CheckCleanup, CompleteRequest, NextStage, DokanCheckCCB, StageInv, TypeOK, EventInv, Valid, Settled
  <2>1. CreateInv(o)'
    BY DEF CreateInv, OperationInv, CloseInv, StampInv
  <2>2. OperationInv(o)'
    BY DEF CreateInv, OperationInv, CloseInv, StampInv
  <2>3. CloseInv(o)'
    BY DEF CreateInv, OperationInv, CloseInv, StampInv
  <2>4. StampInv(o)'
    BY DEF CreateInv, OperationInv, CloseInv, StampInv
  <2> QED BY <2>1, <2>2, <2>3, <2>4
<1>3. ASSUME NEW p \in Opens, p # o PROVE EventInv(p)'
  BY <1>3, OthersKeep DEF IInv, DriverInv, TypeOK, CheckCleanup, CompleteRequest, NextStage,
     DokanCheckCCB
<1> QED BY <1>2, <1>3

\* So it is for an operation.
LEMMA CheckOperationKeeps ==
  ASSUME IInv, NEW o \in Opens, NEW k \in Requests, CheckOperation(o, k)
  PROVE  \A p \in Opens : EventInv(p)'
<1> USE OpenFilesAssumption DEF mountVars, fcbVars, ccbVars, eventVars, history
<1>1. StageInv(o) /\ EventInv(o) /\ TypeOK
  BY DEF IInv, DriverInv
<1>2. EventInv(o)'
  <2> USE <1>1 DEF Requests, CheckOperation, CompleteRequest, NextStage, DokanCheckCCB, StageInv, TypeOK, EventInv, Valid, Settled
  <2>1. CreateInv(o)'
    BY DEF CreateInv, OperationInv, CloseInv, StampInv
  <2>2. OperationInv(o)'
    BY DEF CreateInv, OperationInv, CloseInv, StampInv
  <2>3. CloseInv(o)'
    BY DEF CreateInv, OperationInv, CloseInv, StampInv
  <2>4. StampInv(o)'
    BY DEF CreateInv, OperationInv, CloseInv, StampInv
  <2> QED BY <2>1, <2>2, <2>3, <2>4
<1>3. ASSUME NEW p \in Opens, p # o PROVE EventInv(p)'
  BY <1>3, OthersKeep DEF IInv, DriverInv, TypeOK, CheckOperation, CompleteRequest, NextStage,
     DokanCheckCCB
<1> QED BY <1>2, <1>3

\* A close that passes the check finds that every operation before it was answered.
LEMMA CheckCloseKeeps ==
  ASSUME IInv, NEW o \in Opens, CheckClose(o)
  PROVE  \A p \in Opens : EventInv(p)'
<1> USE OpenFilesAssumption DEF mountVars, fcbVars, ccbVars, eventVars, history
<1>1. StageInv(o) /\ EventInv(o) /\ TypeOK
  BY DEF IInv, DriverInv
<1>2. EventInv(o)'
  <2> USE <1>1 DEF Requests, CheckClose, DokanCheckCCB, StageInv, TypeOK, EventInv, Valid, Settled
  <2>1. CreateInv(o)'
    BY DEF CreateInv, OperationInv, CloseInv, StampInv
  <2>2. OperationInv(o)'
    BY DEF CreateInv, OperationInv, CloseInv, StampInv
  <2>3. CloseInv(o)'
    BY DEF CreateInv, OperationInv, CloseInv, StampInv
  <2>4. StampInv(o)'
    BY DEF CreateInv, OperationInv, CloseInv, StampInv
  <2> QED BY <2>1, <2>2, <2>3, <2>4
<1>3. ASSUME NEW p \in Opens, p # o PROVE EventInv(p)'
  BY <1>3, OthersKeep DEF IInv, DriverInv, TypeOK, CheckClose, DokanCheckCCB
<1> QED BY <1>2, <1>3

\* The event of a close takes the context along,
LEMMA AllocateCloseKeeps ==
  ASSUME IInv, NEW o \in Opens, AllocateClose(o)
  PROVE  \A p \in Opens : EventInv(p)'
<1> USE OpenFilesAssumption DEF mountVars, fcbVars, ccbVars, eventVars, history
<1>1. StageInv(o) /\ EventInv(o) /\ TypeOK
  BY DEF IInv, DriverInv
<1>2. EventInv(o)'
  <2> USE <1>1 DEF Requests, AllocateClose, StampEvent, StageInv, TypeOK, EventInv, Valid, Settled
  <2>1. CreateInv(o)'
    BY DEF CreateInv, OperationInv, CloseInv, StampInv
  <2>2. OperationInv(o)'
    BY DEF CreateInv, OperationInv, CloseInv, StampInv
  <2>3. CloseInv(o)'
    BY DEF CreateInv, OperationInv, CloseInv, StampInv
  <2>4. StampInv(o)'
    BY DEF CreateInv, OperationInv, CloseInv, StampInv
  <2> QED BY <2>1, <2>2, <2>3, <2>4
<1>3. ASSUME NEW p \in Opens, p # o PROVE EventInv(p)'
  BY <1>3, OthersKeep DEF IInv, DriverInv, TypeOK, AllocateClose, StampEvent
<1> QED BY <1>2, <1>3

\* and does not need the context block,
LEMMA FreeCCBKeeps ==
  ASSUME IInv, NEW o \in Opens, FreeCCB(o)
  PROVE  \A p \in Opens : EventInv(p)'
<1> USE OpenFilesAssumption DEF mountVars, fcbVars, ccbVars, eventVars, history
<1>1. StageInv(o) /\ EventInv(o) /\ TypeOK
  BY DEF IInv, DriverInv
<1>2. EventInv(o)'
  <2> USE <1>1 DEF Requests, FreeCCB, StageInv, TypeOK, EventInv, Valid, Settled
  <2>1. CreateInv(o)'
    BY DEF CreateInv, OperationInv, CloseInv, StampInv
  <2>2. OperationInv(o)'
    BY DEF CreateInv, OperationInv, CloseInv, StampInv
  <2>3. CloseInv(o)'
    BY DEF CreateInv, OperationInv, CloseInv, StampInv
  <2>4. StampInv(o)'
    BY DEF CreateInv, OperationInv, CloseInv, StampInv
  <2> QED BY <2>1, <2>2, <2>3, <2>4
<1>3. ASSUME NEW p \in Opens, p # o PROVE EventInv(p)'
  BY <1>3, OthersKeep DEF IInv, DriverInv, TypeOK, FreeCCB
<1> QED BY <1>2, <1>3

\* nor the FCB,
LEMMA FreeFCBKeeps ==
  ASSUME IInv, NEW o \in Opens, FreeFCB(o)
  PROVE  \A p \in Opens : EventInv(p)'
<1> USE OpenFilesAssumption DEF mountVars, fcbVars, ccbVars, eventVars, history
<1>1. StageInv(o) /\ EventInv(o) /\ TypeOK
  BY DEF IInv, DriverInv
<1>2. EventInv(o)'
  <2> USE <1>1 DEF Requests, FreeFCB, StageInv, TypeOK, EventInv, Valid, Settled
  <2>1. CreateInv(o)'
    BY DEF CreateInv, OperationInv, CloseInv, StampInv
  <2>2. OperationInv(o)'
    BY DEF CreateInv, OperationInv, CloseInv, StampInv
  <2>3. CloseInv(o)'
    BY DEF CreateInv, OperationInv, CloseInv, StampInv
  <2>4. StampInv(o)'
    BY DEF CreateInv, OperationInv, CloseInv, StampInv
  <2> QED BY <2>1, <2>2, <2>3, <2>4
<1>3. ASSUME NEW p \in Opens, p # o PROVE EventInv(p)'
  BY <1>3, OthersKeep DEF IInv, DriverInv, TypeOK, FreeFCB
<1> QED BY <1>2, <1>3

\* to be sent.
LEMMA CompleteCloseKeeps ==
  ASSUME IInv, NEW o \in Opens, CompleteClose(o)
  PROVE  \A p \in Opens : EventInv(p)'
<1> USE OpenFilesAssumption DEF mountVars, fcbVars, ccbVars, eventVars, history
<1>1. StageInv(o) /\ EventInv(o) /\ TypeOK
  BY DEF IInv, DriverInv
<1>2. EventInv(o)'
  <2> USE <1>1 DEF Requests, CompleteClose, CompleteRequest, NextStage, StageInv, TypeOK, EventInv, Valid, Settled
  <2>1. CreateInv(o)'
    BY DEF CreateInv, OperationInv, CloseInv, StampInv
  <2>2. OperationInv(o)'
    BY DEF CreateInv, OperationInv, CloseInv, StampInv
  <2>3. CloseInv(o)'
    BY DEF CreateInv, OperationInv, CloseInv, StampInv
  <2>4. StampInv(o)'
    BY DEF CreateInv, OperationInv, CloseInv, StampInv
  <2> QED BY <2>1, <2>2, <2>3, <2>4
<1>3. ASSUME NEW p \in Opens, p # o PROVE EventInv(p)'
  BY <1>3, OthersKeep DEF IInv, DriverInv, TypeOK, CompleteClose, CompleteRequest, NextStage
<1> QED BY <1>2, <1>3

\* The application gets an event: a create its open info.
LEMMA BeginKeeps ==
  ASSUME IInv, NEW o \in Opens, NEW k \in Requests, Begin(o, k)
  PROVE  \A p \in Opens : EventInv(p)'
<1> USE OpenFilesAssumption DEF mountVars, fcbVars, ccbVars, eventVars, history
<1>1. StageInv(o) /\ EventInv(o) /\ TypeOK
  BY DEF IInv, DriverInv
<1>2. EventInv(o)'
  <2> USE <1>1 DEF Requests, Begin, StageInv, TypeOK, EventInv, Valid, Settled
  <2>1. CreateInv(o)'
    BY DEF CreateInv, OperationInv, CloseInv, StampInv
  <2>2. OperationInv(o)'
    BY DEF CreateInv, OperationInv, CloseInv, StampInv
  <2>3. CloseInv(o)'
    BY DEF CreateInv, OperationInv, CloseInv, StampInv
  <2>4. StampInv(o)'
    BY DEF CreateInv, OperationInv, CloseInv, StampInv
  <2> QED BY <2>1, <2>2, <2>3, <2>4
<1>3. ASSUME NEW p \in Opens, p # o PROVE EventInv(p)'
  BY <1>3, OthersKeep DEF IInv, DriverInv, TypeOK, Begin
<1> QED BY <1>2, <1>3

\* Only an event of an earlier mount is dropped.
LEMMA DropKeeps ==
  ASSUME IInv, NEW o \in Opens, NEW k \in Requests, Drop(o, k)
  PROVE  \A p \in Opens : EventInv(p)'
<1> USE OpenFilesAssumption DEF mountVars, fcbVars, ccbVars, eventVars, history
<1>1. StageInv(o) /\ EventInv(o) /\ TypeOK
  BY DEF IInv, DriverInv
<1>2. EventInv(o)'
  <2> USE <1>1 DEF Requests, Drop, StageInv, TypeOK, EventInv, Valid, Settled
  <2>0. mountId > 1
    <3>1. event[o][k] = "queued" /\ \E m \in 1..mountId : m # eventMount[o][k]
      BY DEF Drop
    <3>2. eventMount[o][k] \in 1..mountId
      BY <3>1 DEF StampInv
    <3>3. mountId \in Nat
      OBVIOUS
    <3> HIDE <1>1
    <3> QED BY <3>1, <3>2, <3>3
  <2>1. CreateInv(o)'
    BY DEF CreateInv, OperationInv, CloseInv, StampInv
  <2>2. OperationInv(o)'
    BY DEF CreateInv, OperationInv, CloseInv, StampInv
  <2>3. CloseInv(o)'
    BY DEF CreateInv, OperationInv, CloseInv, StampInv
  <2>4. StampInv(o)'
    BY <2>0 DEF CreateInv, OperationInv, CloseInv, StampInv
  <2> QED BY <2>1, <2>2, <2>3, <2>4
<1>3. ASSUME NEW p \in Opens, p # o PROVE EventInv(p)'
  BY <1>3, OthersKeep DEF IInv, DriverInv, TypeOK, Drop
<1> QED BY <1>2, <1>3

\* The answer of a create leaves the context in the context block.
LEMMA FinishCreateKeeps ==
  ASSUME IInv, NEW o \in Opens, FinishCreate(o)
  PROVE  \A p \in Opens : EventInv(p)'
<1> USE OpenFilesAssumption DEF mountVars, fcbVars, ccbVars, eventVars, history
<1>1. StageInv(o) /\ EventInv(o) /\ TypeOK
  BY DEF IInv, DriverInv
<1>2. EventInv(o)'
  <2> USE <1>1 DEF Requests, FinishCreate, Answer, CompleteRequest, NextStage, StageInv, TypeOK, EventInv, Valid, Settled
  <2>1. CreateInv(o)'
    BY DEF CreateInv, OperationInv, CloseInv, StampInv
  <2>2. OperationInv(o)'
    BY DEF CreateInv, OperationInv, CloseInv, StampInv
  <2>3. CloseInv(o)'
    BY DEF CreateInv, OperationInv, CloseInv, StampInv
  <2>4. StampInv(o)'
    BY DEF CreateInv, OperationInv, CloseInv, StampInv
  <2> QED BY <2>1, <2>2, <2>3, <2>4
<1>3. ASSUME NEW p \in Opens, p # o PROVE EventInv(p)'
  BY <1>3, OthersKeep DEF IInv, DriverInv, TypeOK, FinishCreate, Answer, CompleteRequest,
     NextStage
<1> QED BY <1>2, <1>3

\* The answer of an operation leaves the context that its event had.
LEMMA FinishOperationKeeps ==
  ASSUME IInv, NEW o \in Opens, NEW k \in Requests, FinishOperation(o, k)
  PROVE  \A p \in Opens : EventInv(p)'
<1> USE OpenFilesAssumption DEF mountVars, fcbVars, ccbVars, eventVars, history
<1>1. StageInv(o) /\ EventInv(o) /\ TypeOK
  BY DEF IInv, DriverInv
<1>2. EventInv(o)'
  <2> USE <1>1 DEF Requests, FinishOperation, Answer, CompleteRequest, NextStage, StageInv, TypeOK, EventInv, Valid, Settled
  <2>1. CreateInv(o)'
    BY DEF CreateInv, OperationInv, CloseInv, StampInv
  <2>2. OperationInv(o)'
    BY DEF CreateInv, OperationInv, CloseInv, StampInv
  <2>3. CloseInv(o)'
    BY DEF CreateInv, OperationInv, CloseInv, StampInv
  <2>4. StampInv(o)'
    BY DEF CreateInv, OperationInv, CloseInv, StampInv
  <2> QED BY <2>1, <2>2, <2>3, <2>4
<1>3. ASSUME NEW p \in Opens, p # o PROVE EventInv(p)'
  BY <1>3, OthersKeep DEF IInv, DriverInv, TypeOK, FinishOperation, Answer, CompleteRequest,
     NextStage
<1> QED BY <1>2, <1>3

\* So does that of a cleanup.
LEMMA FinishCleanupKeeps ==
  ASSUME IInv, NEW o \in Opens, FinishCleanup(o)
  PROVE  \A p \in Opens : EventInv(p)'
<1> USE OpenFilesAssumption DEF mountVars, fcbVars, ccbVars, eventVars, history
<1>1. StageInv(o) /\ EventInv(o) /\ TypeOK
  BY DEF IInv, DriverInv
<1>2. EventInv(o)'
  <2> USE <1>1 DEF Requests, FinishCleanup, Answer, CompleteRequest, NextStage, StageInv, TypeOK, EventInv, Valid, Settled
  <2>1. CreateInv(o)'
    BY DEF CreateInv, OperationInv, CloseInv, StampInv
  <2>2. OperationInv(o)'
    BY DEF CreateInv, OperationInv, CloseInv, StampInv
  <2>3. CloseInv(o)'
    BY DEF CreateInv, OperationInv, CloseInv, StampInv
  <2>4. StampInv(o)'
    BY DEF CreateInv, OperationInv, CloseInv, StampInv
  <2> QED BY <2>1, <2>2, <2>3, <2>4
<1>3. ASSUME NEW p \in Opens, p # o PROVE EventInv(p)'
  BY <1>3, OthersKeep DEF IInv, DriverInv, TypeOK, FinishCleanup, Answer, CompleteRequest,
     NextStage
<1> QED BY <1>2, <1>3

\* A close frees the open info, which nobody needs.
LEMMA FinishCloseKeeps ==
  ASSUME IInv, NEW o \in Opens, FinishClose(o)
  PROVE  \A p \in Opens : EventInv(p)'
<1> USE OpenFilesAssumption DEF mountVars, fcbVars, ccbVars, eventVars, history
<1>1. StageInv(o) /\ EventInv(o) /\ TypeOK
  BY DEF IInv, DriverInv
<1>2. EventInv(o)'
  <2> USE <1>1 DEF Requests, FinishClose, StageInv, TypeOK, EventInv, Valid, Settled
  <2>0. event[o]["create"] = "done"
    BY DEF FinishClose, StampInv
  <2>1. CreateInv(o)'
    BY <2>0 DEF CreateInv
  <2>2. OperationInv(o)'
    BY DEF CreateInv, OperationInv, CloseInv, StampInv
  <2>3. CloseInv(o)'
    BY DEF CreateInv, OperationInv, CloseInv, StampInv
  <2>4. StampInv(o)'
    BY DEF CreateInv, OperationInv, CloseInv, StampInv
  <2> QED BY <2>1, <2>2, <2>3, <2>4
<1>3. ASSUME NEW p \in Opens, p # o PROVE EventInv(p)'
  BY <1>3, OthersKeep DEF IInv, DriverInv, TypeOK, FinishClose
<1> QED BY <1>2, <1>3

\* A create may be given up: its file object is not opened.
LEMMA GiveUpKeeps ==
  ASSUME IInv, NEW o \in Opens, NEW k \in Requests, GiveUp(o, k)
  PROVE  \A p \in Opens : EventInv(p)'
<1> USE OpenFilesAssumption DEF mountVars, fcbVars, ccbVars, eventVars, history
<1>1. StageInv(o) /\ EventInv(o) /\ TypeOK
  BY DEF IInv, DriverInv
<1>2. EventInv(o)'
  <2> USE <1>1 DEF Requests, GiveUp, CompleteRequest, NextStage, StageInv, TypeOK, EventInv, Valid, Settled
  <2>1. CreateInv(o)'
    BY DEF CreateInv, OperationInv, CloseInv, StampInv
  <2>2. OperationInv(o)'
    BY DEF CreateInv, OperationInv, CloseInv, StampInv
  <2>3. CloseInv(o)'
    BY DEF CreateInv, OperationInv, CloseInv, StampInv
  <2>4. StampInv(o)'
    BY DEF CreateInv, OperationInv, CloseInv, StampInv
  <2> QED BY <2>1, <2>2, <2>3, <2>4
<1>3. ASSUME NEW p \in Opens, p # o PROVE EventInv(p)'
  BY <1>3, OthersKeep DEF IInv, DriverInv, TypeOK, GiveUp, CompleteRequest, NextStage
<1> QED BY <1>2, <1>3

\* What an unmount releases is of a mount that is over.
LEMMA ReleaseKeeps ==
  ASSUME IInv, NEW o \in Opens, NEW k \in Requests, Release(o, k)
  PROVE  \A p \in Opens : EventInv(p)'
<1> USE OpenFilesAssumption DEF mountVars, fcbVars, ccbVars, eventVars, history
<1>1. StageInv(o) /\ EventInv(o) /\ TypeOK
  BY DEF IInv, DriverInv
<1>2. EventInv(o)'
  <2> USE <1>1 DEF Requests, Release, CompleteRequest, NextStage, StageInv, TypeOK, EventInv, Valid, Settled
  <2>1. CreateInv(o)'
    BY DEF CreateInv, OperationInv, CloseInv, StampInv
  <2>2. OperationInv(o)'
    BY DEF CreateInv, OperationInv, CloseInv, StampInv
  <2>3. CloseInv(o)'
    BY DEF CreateInv, OperationInv, CloseInv, StampInv
  <2>4. StampInv(o)'
    BY DEF CreateInv, OperationInv, CloseInv, StampInv
  <2> QED BY <2>1, <2>2, <2>3, <2>4
<1>3. ASSUME NEW p \in Opens, p # o PROVE EventInv(p)'
  BY <1>3, OthersKeep DEF IInv, DriverInv, TypeOK, Release, CompleteRequest, NextStage
<1> QED BY <1>2, <1>3

-----------------------------------------------------------------------------
(* The theorems.                                                           *)

\* At first nobody holds an FCB.
LEMMA InitDrives == Init => DriverInv
<1> SUFFICES ASSUME Init PROVE DriverInv
  OBVIOUS
<1> USE OpenFilesAssumption DEF Init, Each
<1>1. TypeOK
  <2>1. Cardinality(Opens) \in Nat
    BY FS_CardinalityType
  <2>2. /\ mounted \in BOOLEAN /\ userContext \in [Opens -> BOOLEAN]
        /\ eventContext \in [Opens -> [Requests -> BOOLEAN]]
    BY Zenon
  <2> QED BY <2>1, <2>2 DEF TypeOK, Stages, IrpStates, EventStates
<1>2. ASSUME NEW o \in Opens PROVE StageInv(o)
  BY DEF StageInv, Requests
<1>3. FcbInv
  <2>1. ASSUME NEW x \in Opens PROVE Cardinality(Holders(x)) = 0
    <3>1. Holders(x) = {}
      BY DEF Holders
    <3> QED BY <3>1, FS_EmptySet
  <2> QED BY <2>1 DEF FcbInv, Requests
<1> QED BY <1>1, <1>2, <1>3 DEF DriverInv

\* Every step keeps the invariant of the driver.
LEMMA NextDrives ==
  ASSUME DriverInv, Next
  PROVE  DriverInv'
<1>1. CASE EventStart \/ EventRelease
  BY <1>1, EventStartDrives, EventReleaseDrives
<1>2. ASSUME NEW o \in Opens, Driver(o) PROVE DriverInv'
  <2>1. CASE \E f \in Files : GetFCB(o, f)
    BY <2>1, GetFCBDrives
  <2>2. CASE AllocateCCB(o)
    BY <2>2, AllocateCCBDrives
  <2>3. CASE SendCreate(o) \/ SendCleanup(o)
    BY <2>3, RegisterDrives DEF SendCreate, SendCleanup, Requests
  <2>4. CASE CheckCleanup(o)
    BY <2>4, CheckCleanupDrives
  <2>5. ASSUME NEW k \in Ops, CheckOperation(o, k) PROVE DriverInv'
    BY <2>5, CheckOperationDrives
  <2>6. ASSUME NEW k \in Ops, SendOperation(o, k) PROVE DriverInv'
    <3>1. k \in Requests /\ k # "close" /\ RegisterPendingIrp(o, k)
      BY <2>6, OpenFilesAssumption DEF SendOperation, Requests
    <3> QED BY <3>1, RegisterDrives
  <2>7. CASE CheckClose(o)
    BY <2>7, CheckCloseDrives
  <2>8. CASE AllocateClose(o)
    BY <2>8, AllocateCloseDrives
  <2>9. CASE FreeCCB(o)
    BY <2>9, FreeCCBDrives
  <2>10. CASE FreeFCB(o)
    BY <2>10, FreeFCBDrives
  <2>11. CASE CompleteClose(o)
    BY <2>11, CompleteCloseDrives
  <2>12. CASE \E k \in Requests : GiveUp(o, k) \/ Release(o, k)
    BY <2>12, GiveUpDrives
  <2> QED BY <1>2, <2>1, <2>2, <2>3, <2>4, <2>5, <2>6, <2>7, <2>8, <2>9, <2>10, <2>11, <2>12
          DEF Driver
<1>3. ASSUME NEW o \in Opens, Application(o) PROVE DriverInv'
  <2>1. \A k \in Ops : k \in Requests
    BY DEF Requests
  <2>2. "close" \in Requests
    BY DEF Requests
  <2> QED BY <1>3, <2>1, <2>2, EventDrives, FinishDrives DEF Application
<1> QED BY <1>1, <1>2, <1>3 DEF Next

\* Nothing the invariant is about changes in a stuttering step.
LEMMA StutterDrives ==
  ASSUME DriverInv, UNCHANGED vars
  PROVE  DriverInv'
<1>1. UNCHANGED <<mounted, mountId, listed, fileCount, fcb>>
      /\ UNCHANGED <<ccb, ccbMount, stage, irp, userContext>>
      /\ UNCHANGED <<event, eventMount, eventContext, openInfo, givenUp, crossed>>
  BY DEF vars, mountVars, fcbVars, ccbVars, eventVars, history
<1>2. TypeOK'
  BY <1>1 DEF DriverInv, TypeOK
<1>3. ASSUME NEW o \in Opens PROVE StageInv(o)'
  BY <1>1 DEF DriverInv, StageInv
<1>4. FcbInv'
  BY <1>1, FcbKeeps DEF fcbVars
<1> QED BY <1>2, <1>3, <1>4 DEF DriverInv

\* The IRPs of a file object go along with the stages of its life, its context block
\* is allocated before the first check and freed by the close, and its FCB is held from
\* create to close, whatever is given up, released or remounted in between.
THEOREM DriverInvariance == Spec => []DriverInv
<1>1. DriverInv /\ [Next]_vars => DriverInv'
  BY NextDrives, StutterDrives
<1> QED BY <1>1, InitDrives, PTL DEF Spec

\* The model is well typed; in particular no FileCount exceeds the file objects.
THEOREM TypeCorrect == Spec => []TypeOK
<1>1. DriverInv => TypeOK
  BY DEF DriverInv
<1> QED BY <1>1, DriverInvariance, PTL

\* DokanGetFCB and DokanFreeFCB share FCBs safely: who needs an FCB finds it on the
\* list, and its FileCount is the number of those who hold it.
THEOREM FcbSharedHolds == Spec => []FcbShared
<1>1. DriverInv => FcbShared
  BY DEF DriverInv, TypeOK, FcbInv, Holders, FcbShared
<1> QED BY <1>1, DriverInvariance, PTL

-----------------------------------------------------------------------------
(* The events and the open info.                                           *)

\* At first there are no events.
LEMMA InitKeeps == Init => IInv
<1> SUFFICES ASSUME Init PROVE IInv
  OBVIOUS
<1>1. DriverInv
  BY InitDrives
<1>2. ASSUME NEW o \in Opens PROVE EventInv(o)
  <2> USE DEF Init, Each, Requests, Valid
  <2>1. CreateInv(o)
    BY DEF CreateInv
  <2>2. OperationInv(o)
    BY DEF OperationInv
  <2>3. CloseInv(o)
    BY DEF CloseInv
  <2>4. StampInv(o)
    BY DEF StampInv
  <2> QED BY <2>1, <2>2, <2>3, <2>4 DEF EventInv
<1>3. mounted => mountId > 0
  BY DEF Init
<1> QED BY <1>1, <1>2, <1>3 DEF IInv

\* Every step keeps the invariant.
LEMMA NextKeeps ==
  ASSUME IInv, Next
  PROVE  IInv'
<1>1. DriverInv'
  BY NextDrives DEF IInv
<1>2. mounted' => mountId' > 0
  <2>1. CASE EventStart
    BY <2>1 DEF EventStart, IInv, DriverInv, TypeOK
  <2>2. CASE EventRelease
    BY <2>2 DEF EventRelease
  <2>3. ASSUME NEW o \in Opens, Driver(o) \/ Application(o) PROVE UNCHANGED mountVars
    BY <2>3 DEF Driver, Application, GetFCB, AllocateCCB, SendCreate, SendCleanup,
       SendOperation,
                RegisterPendingIrp, CheckCleanup, CheckOperation, CheckClose, AllocateClose,
                FreeCCB, FreeFCB, CompleteClose, GiveUp, Release, Begin, Drop, FinishOperation,
                FinishCreate, FinishCleanup, FinishClose
  <2> QED BY <2>1, <2>2, <2>3 DEF Next, IInv, mountVars
<1>3. \A p \in Opens : EventInv(p)'
  <2>1. CASE EventStart \/ EventRelease
    BY <2>1, EventStartKeeps, EventReleaseKeeps
  <2> USE DEF Requests
  <2>2. ASSUME NEW o \in Opens, Driver(o) PROVE \A p \in Opens : EventInv(p)'
    <3>1. CASE \E f \in Files : GetFCB(o, f)
      BY <3>1, GetFCBKeeps
    <3>2. CASE AllocateCCB(o)
      BY <3>2, AllocateCCBKeeps
    <3>3. CASE SendCreate(o) \/ SendCleanup(o)
      BY <3>3, RegisterPendingIrpKeeps DEF SendCreate, SendCleanup
    <3>4. CASE CheckCleanup(o)
      BY <3>4, CheckCleanupKeeps
    <3>5. CASE \E k \in Ops : CheckOperation(o, k)
      BY <3>5, CheckOperationKeeps
    <3>6. ASSUME NEW k \in Ops, SendOperation(o, k) PROVE \A p \in Opens : EventInv(p)'
      <4>1. k \in Requests /\ k # "close" /\ RegisterPendingIrp(o, k)
        BY <3>6, OpenFilesAssumption DEF SendOperation
      <4> QED BY <4>1, RegisterPendingIrpKeeps
    <3>7. CASE CheckClose(o)
      BY <3>7, CheckCloseKeeps
    <3>8. CASE AllocateClose(o)
      BY <3>8, AllocateCloseKeeps
    <3>9. CASE FreeCCB(o)
      BY <3>9, FreeCCBKeeps
    <3>10. CASE FreeFCB(o)
      BY <3>10, FreeFCBKeeps
    <3>11. CASE CompleteClose(o)
      BY <3>11, CompleteCloseKeeps
    <3>12. CASE \E k \in Requests : GiveUp(o, k) \/ Release(o, k)
      BY <3>12, GiveUpKeeps, ReleaseKeeps
    <3> QED BY <2>2, <3>1, <3>2, <3>3, <3>4, <3>5, <3>6, <3>7, <3>8, <3>9, <3>10, <3>11, <3>12
            DEF Driver
  <2>3. ASSUME NEW o \in Opens, Application(o) PROVE \A p \in Opens : EventInv(p)'
    <3>1. CASE \E k \in Requests : Begin(o, k) \/ Drop(o, k)
      BY <3>1, BeginKeeps, DropKeeps
    <3>2. CASE \E k \in Ops : FinishOperation(o, k)
      BY <3>2, FinishOperationKeeps
    <3>3. CASE FinishCreate(o) \/ FinishCleanup(o) \/ FinishClose(o)
      BY <3>3, FinishCreateKeeps, FinishCleanupKeeps, FinishCloseKeeps
    <3> QED BY <2>3, <3>1, <3>2, <3>3 DEF Application
  <2> QED BY <2>1, <2>2, <2>3 DEF Next
<1> QED BY <1>1, <1>2, <1>3 DEF IInv

\* A stuttering step keeps it too.
LEMMA StutterKeeps ==
  ASSUME IInv, UNCHANGED vars
  PROVE  IInv'
<1>1. DriverInv'
  BY StutterDrives DEF IInv
<1>2. UNCHANGED mountVars /\ UNCHANGED <<ccbMount, userContext, stage, openInfo, irp, event,
                                         eventMount, eventContext, givenUp, crossed>>
  BY DEF vars, ccbVars, eventVars, history
<1>3. \A p \in Opens : EventInv(p)'
  BY <1>2, OthersKeep DEF IInv
<1> QED BY <1>1, <1>2, <1>3 DEF IInv, mountVars

\* An event carries the context of its file object; it also carries its mount, an
\* operation that is over in that mount was answered, and a close waits for all of them,
\* but for the file objects that were crossed or given up.
THEOREM Invariance == Spec => []IInv
<1>1. IInv /\ [Next]_vars => IInv'
  BY NextKeeps, StutterKeeps
<1> QED BY <1>1, InitKeeps, PTL DEF Spec

\* No callback runs without the address of an open info, nor with one that DispatchClose
\* has freed unless a request was given up, nor with one of another process unless a
\* mount came between a check and an event.
THEOREM ContextLiveHolds == Spec => []ContextLive
<1>1. ASSUME IInv, NEW o \in Opens, NEW k \in Requests \ {"create"}, event[o][k] = "running"
      PROVE  /\ eventContext[o][k]
             /\ o \in givenUp \/ openInfo[o] = "live"
             /\ o \in crossed \/ eventMount[o][k] = eventMount[o]["create"]
  <2>1. StampInv(o) /\ CreateInv(o) /\ CloseInv(o) /\ TypeOK /\ "create" \in Requests
    BY <1>1 DEF IInv, EventInv, DriverInv, Requests
  <2>2. eventContext[o][k] /\ event[o]["create"] = "done"
    BY <1>1, <2>1 DEF StampInv
  <2>3. o \notin givenUp => event[o]["close"] # "done"
    <3>1. CASE k = "close"
      BY <1>1, <3>1
    <3>2. CASE k # "close"
      <4>1. ~Settled(o)
        BY <1>1, <3>2 DEF Settled, Requests
      <4> QED BY <2>1, <4>1 DEF CloseInv
    <3> QED BY <3>1, <3>2
  <2>4. o \notin givenUp => openInfo[o] = "live"
    <3>1. openInfo[o] \in {"none", "live", "freed"}
      BY <2>1 DEF TypeOK
    <3> QED BY <2>1, <2>2, <2>3, <3>1 DEF CreateInv
  <2>5. o \notin crossed => eventMount[o][k] = eventMount[o]["create"]
    BY <1>1, <2>1, <2>2 DEF StampInv
  <2> QED BY <2>2, <2>4, <2>5
<1>2. IInv => ContextLive
  <2> SUFFICES ASSUME IInv, NEW o \in Opens, NEW k \in Requests \ {"create"},
                      event[o][k] = "running"
               PROVE  /\ eventContext[o][k]
                      /\ o \in givenUp \/ openInfo[o] = "live"
                      /\ o \in crossed \/ eventMount[o][k] = eventMount[o]["create"]
    BY DEF ContextLive
  <2> QED BY <1>1
<1> QED BY <1>2, Invariance, PTL

\* The driver has the application free the open info of every file that it closes in the
\* mount that opened it, unless a loop of an earlier mount takes the event away.
THEOREM InfoFreedHolds == Spec => []InfoFreed
<1>1. ASSUME IInv, NEW o \in Opens, stage[o] = "closed", openInfo[o] = "live", Valid(o)
      PROVE  event[o]["close"] \in {"queued", "running"} \cup {x \in {"dropped"} : mountId > 1}
  <2>1. StageInv(o) /\ CreateInv(o) /\ CloseInv(o) /\ StampInv(o) /\ "close" \in Requests
    BY <1>1 DEF IInv, EventInv, DriverInv, Requests
  <2>2. event[o]["close"] \in {"queued", "running", "dropped"}
    BY <1>1, <2>1 DEF StageInv, CreateInv, CloseInv
  <2>3. event[o]["close"] = "dropped" => mountId > 1
    BY <2>1 DEF StampInv
  <2> QED BY <2>2, <2>3
<1>2. IInv => InfoFreed
  BY <1>1 DEF InfoFreed, Valid
<1> QED BY <1>2, Invariance, PTL

-----------------------------------------------------------------------------
(* The sessions that the application sees.                                 *)

\* A step that begins and ends no callback leaves the sessions alone.
LEMMA Quiet ==
  ASSUME \A o \in Opens : Begun(o)' = Begun(o),
         \A o \in Opens : \A k \in Begun(o) :
           event'[o][k] = event[o][k] /\ eventMount'[o][k] = eventMount[o][k]
  PROVE  UNCHANGED Session!sessionVars
<1>1. SessionCall' = SessionCall
  BY DEF SessionCall
<1>2. SessionOwner' = SessionOwner
  <2>1. ASSUME NEW o \in Opens
        PROVE  {eventMount'[o][k] : k \in Begun(o)'} = {eventMount[o][k] : k \in Begun(o)}
    OBVIOUS
  <2> QED BY <2>1 DEF SessionOwner
<1> QED BY <1>1, <1>2 DEF SessionCall, SessionOwner, Session!sessionVars

\* All callbacks of a file object that was not crossed are made by the application of
\* its mount.
LEMMA OneOwner ==
  ASSUME IInv, NEW o \in Opens \ crossed
  PROVE  /\ SessionOwner[o] = IF Begun(o) = {} THEN {} ELSE {ccbMount[o]}
         /\ \A k \in Begun(o) : ccbMount[o] \in Mounts
<1>1. ASSUME NEW k \in Begun(o)
      PROVE  eventMount[o][k] = ccbMount[o] /\ ccbMount[o] \in Mounts
  <2>1. StampInv(o) /\ k \in Requests /\ event[o][k] # "none"
    BY DEF IInv, EventInv, Begun
  <2>2. eventMount[o][k] \in 1..mountId /\ eventMount[o][k] = ccbMount[o]
    BY <2>1 DEF StampInv
  <2>3. mountId \in 0..MaxMounts /\ MaxMounts \in Nat
    BY OpenFilesAssumption DEF IInv, DriverInv, TypeOK
  <2> QED BY <2>2, <2>3 DEF Mounts
<1> QED BY <1>1 DEF SessionOwner

\* A table that differs from another one in one entry is that one with the entry changed.
LEMMA EntrySet ==
  ASSUME NEW S, NEW F \in [Opens -> [Requests -> S]], NEW G \in [Opens -> [Requests -> S]],
         NEW o \in Opens, NEW k \in Requests, NEW v \in S,
         \A p \in Opens, j \in Requests : G[p][j] = IF p = o /\ j = k THEN v ELSE F[p][j]
  PROVE  G = [F EXCEPT ![o][k] = v]
<1>1. ASSUME NEW p \in Opens PROVE G[p] = [F EXCEPT ![o][k] = v][p]
  <2>1. CASE p = o
    <3>1. G[o] \in [Requests -> S] /\ [F[o] EXCEPT ![k] = v] \in [Requests -> S]
      OBVIOUS
    <3>2. \A j \in Requests : G[o][j] = [F[o] EXCEPT ![k] = v][j]
      OBVIOUS
    <3>3. G[o] = [F[o] EXCEPT ![k] = v]
      BY <3>1, <3>2
    <3> QED BY <2>1, <3>3
  <2>2. CASE p # o
    <3>1. G[p] \in [Requests -> S] /\ F[p] \in [Requests -> S]
      OBVIOUS
    <3>2. \A j \in Requests : G[p][j] = F[p][j]
      BY <2>2
    <3>3. G[p] = F[p]
      BY <3>1, <3>2
    <3> QED BY <2>2, <3>3
  <2> QED BY <2>1, <2>2
<1>2. [F EXCEPT ![o][k] = v] \in [Opens -> [Requests -> S]]
  OBVIOUS
<1> QED BY <1>1, <1>2

\* The states of the callbacks are states of events.
LEMMA SessionCallType ==
  ASSUME TypeOK, TypeOK'
  PROVE  SessionCall \in [Opens -> [Requests -> EventStates]]
         /\ SessionCall' \in [Opens -> [Requests -> EventStates]]
BY DEF TypeOK, SessionCall, EventStates

\* A callback that begins is due, if its file object was neither given up nor crossed.
LEMMA BeginMaps ==
  ASSUME IInv, IInv', NEW o \in Opens, NEW k \in Requests, Begin(o, k),
         o \notin givenUp \cup crossed
  PROVE  Session!Begin(o, k)
<1>1. StampInv(o) /\ CreateInv(o) /\ CloseInv(o) /\ OperationInv(o) /\ TypeOK
  BY DEF IInv, EventInv, DriverInv
<1>2. event[o][k] = "queued" /\ event' = [event EXCEPT ![o][k] = "running"]
      /\ UNCHANGED <<ccbMount, eventMount>>
  BY DEF Begin, ccbVars
<1>3. \A p \in Opens, j \in Requests :
        event'[p][j] = IF p = o /\ j = k THEN "running" ELSE event[p][j]
  BY <1>1, <1>2 DEF TypeOK
<1>4. /\ k \notin Begun(o) /\ Begun(o)' = Begun(o) \cup {k}
      /\ \A p \in Opens : p # o => Begun(p)' = Begun(p)
  BY <1>2, <1>3 DEF Begun
<1>5. SessionCall[o][k] = "none"
  BY <1>4 DEF SessionCall
<1>6. /\ k = "close" => SessionCall[o]["cleanup"] = "done"
                         /\ \A j \in Requests : SessionCall[o][j] # "running"
      /\ k \notin {"create", "close"} =>
           SessionCall[o]["create"] = "done" /\ SessionCall[o]["close"] = "none"
  <2>1. k # "create" => event[o]["create"] = "done"
    BY <1>1, <1>2 DEF StampInv
  <2>2. k = "close" => Settled(o)
    BY <1>1, <1>2 DEF CloseInv
  <2>3. k \notin {"create", "close"} => event[o]["close"] = "none"
    <3>1. k \notin {"create", "close"} => ~Settled(o)
      BY <1>2 DEF Settled, Requests
    <3> QED BY <1>1, <3>1 DEF CloseInv
  <2>4. \A j \in Requests : SessionCall[o][j] =
          IF event[o][j] \in {"running", "done", "failed"} THEN event[o][j] ELSE "none"
    BY DEF SessionCall, Begun
  <2>5. ASSUME k = "close", NEW j \in Requests PROVE SessionCall[o][j] # "running"
    BY <1>2, <2>1, <2>2, <2>4, <2>5 DEF Settled, Requests
  <2>6. k = "close" => SessionCall[o]["cleanup"] = "done"
    BY <2>2, <2>4 DEF Settled, Requests
  <2>7. k \notin {"create", "close"} =>
          SessionCall[o]["create"] = "done" /\ SessionCall[o]["close"] = "none"
    BY <2>1, <2>3, <2>4 DEF Requests
  <2> QED BY <2>5, <2>6, <2>7
<1>7. SessionCall' = [SessionCall EXCEPT ![o][k] = "running"]
  <2>1. \A p \in Opens, j \in Requests : SessionCall'[p][j] =
          IF p = o /\ j = k THEN "running" ELSE SessionCall[p][j]
    BY <1>3, <1>4 DEF SessionCall
  <2>2. "running" \in EventStates
    BY DEF EventStates
  <2>3. TypeOK /\ TypeOK'
    BY DEF IInv, DriverInv
  <2> HIDE DEF SessionCall
  <2> QED BY <2>1, <2>2, <2>3, SessionCallType, EntrySet
<1>8. ccbMount[o] \in Mounts /\ SessionOwner[o] \in {{}, {ccbMount[o]}}
  <2>1. eventMount[o][k] \in 1..mountId /\ eventMount[o][k] = ccbMount[o]
    BY <1>1, <1>2 DEF StampInv
  <2>2. mountId \in 0..MaxMounts /\ MaxMounts \in Nat
    BY <1>1, OpenFilesAssumption DEF TypeOK
  <2>3. ccbMount[o] \in Mounts
    BY <2>1, <2>2 DEF Mounts
  <2> QED BY <2>3, OneOwner
<1>9. SessionOwner' = [SessionOwner EXCEPT ![o] = {ccbMount[o]}]
  <2>1. ASSUME NEW p \in Opens
        PROVE  {eventMount'[p][j] : j \in Begun(p)'} = IF p = o THEN {ccbMount[o]} ELSE SessionOwner[p]
    <3>1. CASE p = o
      <4>1. \A j \in Begun(o)' : eventMount[o][j] = ccbMount[o]
        <5>1. \A j \in Begun(o)' : j \in Requests /\ event[o][j] # "none"
          BY <1>2, <1>4 DEF Begun
        <5> QED BY <1>1, <1>2, <5>1 DEF StampInv
      <4> QED BY <1>2, <1>4, <3>1, <4>1
    <3>2. CASE p # o
      BY <1>2, <1>4, <3>2 DEF SessionOwner
    <3> QED BY <3>1, <3>2
  <2> QED BY <2>1 DEF SessionOwner
<1>10. Session!Due(o, k)
  BY <1>6 DEF Session!Due, Session!Running, Session!Callbacks, Requests, SessionCall
<1> QED BY <1>5, <1>7, <1>8, <1>9, <1>10 DEF Session!Begin, SessionCall, SessionOwner

\* A callback that returns was running.
LEMMA FinishMaps ==
  ASSUME IInv, IInv', NEW o \in Opens, NEW k \in Requests, event[o][k] = "running",
         NEW v \in IF k = "create" THEN {"done", "failed"} ELSE {"done"},
         event' = [event EXCEPT ![o][k] = v], UNCHANGED eventMount
  PROVE  Session!Finish(o, k)
<1>1. \A p \in Opens, j \in Requests : event'[p][j] = IF p = o /\ j = k THEN v ELSE event[p][j]
  BY DEF IInv, DriverInv, TypeOK
<1>2. k \in Begun(o) /\ \A p \in Opens : Begun(p)' = Begun(p)
  BY <1>1 DEF Begun
<1>3. SessionCall[o][k] = "running"
  BY <1>2 DEF SessionCall
<1>4. SessionCall' = [SessionCall EXCEPT ![o][k] = v]
  <2>1. \A p \in Opens, j \in Requests : SessionCall'[p][j] =
          IF p = o /\ j = k THEN v ELSE SessionCall[p][j]
    BY <1>1, <1>2 DEF SessionCall
  <2>2. v \in EventStates
    BY DEF EventStates
  <2>3. TypeOK /\ TypeOK'
    BY DEF IInv, DriverInv
  <2> HIDE DEF SessionCall
  <2> QED BY <2>1, <2>2, <2>3, SessionCallType, EntrySet
<1>5. SessionOwner' = SessionOwner
  <2>1. \A p \in Opens : {eventMount'[p][j] : j \in Begun(p)'} = {eventMount[p][j] : j \in Begun(p)}
    BY <1>2
  <2> QED BY <2>1 DEF SessionOwner
<1> QED BY <1>3, <1>4, <1>5 DEF Session!Finish, SessionCall, SessionOwner

\* An event that is made, sent or dropped is no callback yet.
LEMMA QuietEvent ==
  ASSUME IInv, NEW o \in Opens, NEW k \in Requests,
         event[o][k] \notin {"running", "done", "failed"},
         NEW v \in EventStates \ {"running", "done", "failed"}, NEW m,
         event' = [event EXCEPT ![o][k] = v],
         eventMount' = [eventMount EXCEPT ![o][k] = m]
  PROVE  UNCHANGED Session!sessionVars
<1>1. \A p \in Opens, j \in Requests :
        /\ event'[p][j] = IF p = o /\ j = k THEN v ELSE event[p][j]
        /\ eventMount'[p][j] = IF p = o /\ j = k THEN m ELSE eventMount[p][j]
  BY DEF IInv, DriverInv, TypeOK
<1> QED BY <1>1, Quiet DEF Begun

\* Steps that do not touch the events.
LEMMA QuietElse ==
  ASSUME UNCHANGED <<event, eventMount>>
  PROVE  UNCHANGED Session!sessionVars
BY Quiet DEF Begun

\* What the driver does is a step of no session.
LEMMA DriverMaps ==
  ASSUME IInv, NEW o \in Opens, Driver(o)
  PROVE  UNCHANGED Session!sessionVars
<1> USE DEF eventVars, history
<1>1. ASSUME NEW k \in Requests, k # "close", RegisterPendingIrp(o, k)
      PROVE  UNCHANGED Session!sessionVars
  <2>1. CASE mounted
    <3>1. event[o][k] = "none"
      <4>1. irp[o][k] = "checked" /\ CreateInv(o) /\ OperationInv(o)
        BY <1>1 DEF RegisterPendingIrp, IInv, EventInv
      <4> QED BY <1>1, <4>1 DEF CreateInv, OperationInv, Requests
    <3>2. /\ event' = [event EXCEPT ![o][k] = "queued"]
          /\ eventMount' = [eventMount EXCEPT ![o][k] = mountId]
      BY <1>1, <2>1 DEF RegisterPendingIrp, StampEvent
    <3>3. "queued" \in EventStates
      BY DEF EventStates
    <3> QED BY <3>1, <3>2, <3>3, QuietEvent
  <2>2. CASE ~mounted
    BY <1>1, <2>2, QuietElse DEF RegisterPendingIrp
  <2> QED BY <2>1, <2>2
<1>2. CASE AllocateClose(o)
  <2>1. event[o]["close"] = "none"
    BY <1>2 DEF AllocateClose, IInv, EventInv, CloseInv
  <2>2. /\ event' = [event EXCEPT ![o]["close"] = "allocated"]
        /\ eventMount' = [eventMount EXCEPT ![o]["close"] = mountId]
    BY <1>2 DEF AllocateClose, StampEvent
  <2>3. "allocated" \in EventStates /\ "close" \in Requests
    BY DEF EventStates, Requests
  <2> QED BY <2>1, <2>2, <2>3, QuietEvent
<1>3. CASE CompleteClose(o)
  <2>1. event[o]["close"] \in {"none", "allocated"}
    BY <1>3 DEF CompleteClose, IInv, EventInv, CloseInv
  <2>2. PICK v \in {"none", "queued"} : event' = [event EXCEPT ![o]["close"] = v]
    BY <1>3, <2>1 DEF CompleteClose
  <2>3. eventMount' = [eventMount EXCEPT ![o]["close"] = eventMount[o]["close"]]
    BY <1>3 DEF CompleteClose, IInv, DriverInv, TypeOK
  <2>4. v \in EventStates \ {"running", "done", "failed"} /\ "close" \in Requests
    BY DEF EventStates, Requests
  <2> QED BY <2>1, <2>2, <2>3, <2>4, QuietEvent
<1>4. CASE \/ \E f \in Files : GetFCB(o, f)
           \/ AllocateCCB(o) \/ CheckCleanup(o) \/ (\E k \in Ops : CheckOperation(o, k))
           \/ CheckClose(o) \/ FreeCCB(o) \/ FreeFCB(o)
           \/ \E k \in Requests : GiveUp(o, k) \/ Release(o, k)
  BY <1>4, QuietElse DEF GetFCB, AllocateCCB, CheckCleanup, CheckOperation, CheckClose, FreeCCB,
                         FreeFCB, GiveUp, Release
<1>5. CASE SendCreate(o) \/ SendCleanup(o)
  BY <1>1, <1>5 DEF SendCreate, SendCleanup, Requests
<1>6. ASSUME NEW k \in Ops, SendOperation(o, k) PROVE UNCHANGED Session!sessionVars
  <2>1. k \in Requests /\ k # "close" /\ RegisterPendingIrp(o, k)
    BY <1>6, OpenFilesAssumption DEF SendOperation, Requests
  <2> QED BY <1>1, <2>1
<1> HIDE DEF eventVars
<1> QED BY <1>1, <1>2, <1>3, <1>4, <1>5, <1>6 DEF Driver

\* A callback of another file object does not begin with it.
LEMMA BeginDisturbs ==
  ASSUME IInv, NEW o \in givenUp \cup crossed, NEW k \in Requests, Begin(o, k)
  PROVE  Disturbed
<1>1. o \in Opens /\ event \in [Opens -> [Requests -> EventStates]]
  BY DEF IInv, DriverInv, TypeOK
<1>2. event' = [event EXCEPT ![o][k] = "running"] /\ eventMount' = eventMount
  BY DEF Begin
<1>3. ASSUME NEW p \in Opens \ {o}
      PROVE  SessionCall'[p] = SessionCall[p] /\ SessionOwner'[p] = SessionOwner[p]
  <2>1. event'[p] = event[p] /\ eventMount'[p] = eventMount[p]
    BY <1>1, <1>2
  <2>2. Begun(p)' = Begun(p)
    BY <2>1 DEF Begun
  <2> QED BY <2>1, <2>2 DEF SessionCall, SessionOwner
<1> QED BY <1>3 DEF Disturbed

\* What the application does is a step of a session, unless it drops an event.
LEMMA ApplicationMaps ==
  ASSUME IInv, IInv', NEW o \in Opens, Application(o)
  PROVE  Session!Next \/ Disturbed \/ UNCHANGED Session!sessionVars
<1>1. Session!Callbacks = Requests
  BY DEF Session!Callbacks, Requests
<1>2. ASSUME NEW k \in Requests, Begin(o, k) PROVE Session!Next \/ Disturbed
  <2>1. CASE o \in givenUp \cup crossed
    BY <1>2, <2>1, BeginDisturbs
  <2>2. CASE o \notin givenUp \cup crossed
    BY <1>1, <1>2, <2>2, BeginMaps DEF Session!Next
  <2> QED BY <2>1, <2>2
<1>3. ASSUME NEW k \in Requests, Drop(o, k) PROVE UNCHANGED Session!sessionVars
  <2>1. /\ event[o][k] = "queued" /\ event' = [event EXCEPT ![o][k] = "dropped"]
        /\ eventMount' = eventMount
    BY <1>3 DEF Drop
  <2>2. eventMount' = [eventMount EXCEPT ![o][k] = eventMount[o][k]]
    BY <2>1 DEF IInv, DriverInv, TypeOK
  <2>3. "dropped" \in EventStates
    BY DEF EventStates
  <2> QED BY <2>1, <2>2, <2>3, QuietEvent
<1>4. ASSUME NEW k \in Requests,
             \/ k = "create" /\ FinishCreate(o)
             \/ k \in Ops /\ FinishOperation(o, k)
             \/ k = "cleanup" /\ FinishCleanup(o)
             \/ k = "close" /\ FinishClose(o)
      PROVE  Session!Next
  <2>1. PICK v \in IF k = "create" THEN {"done", "failed"} ELSE {"done"} :
          event[o][k] = "running" /\ event' = [event EXCEPT ![o][k] = v] /\ UNCHANGED eventMount
    BY <1>4, OpenFilesAssumption DEF FinishCreate, FinishOperation, FinishCleanup, FinishClose
  <2>2. Session!Finish(o, k)
    BY <2>1, FinishMaps
  <2> QED BY <1>1, <2>2 DEF Session!Next
<1> QED BY <1>2, <1>3, <1>4 DEF Application, Requests

\* The callbacks of each file come in the order that DOKAN_OPERATIONS promises, all in
\* the application that created it: every step of driver and application is a step of
\* its session or of none, or disturbs a file that was given up or crossed.
THEOREM Refinement == Spec => RefinesSession
<1>1. Init => Session!Init
  <2> SUFFICES ASSUME Init PROVE Session!Init
    OBVIOUS
  <2>1. \A o \in Opens : Begun(o) = {}
    BY DEF Init, Each, Begun
  <2> QED BY <2>1 DEF Session!Init, SessionCall, SessionOwner, Session!Callbacks, Requests
<1>2. IInv /\ IInv' /\ [Next]_vars => [Session!Next \/ Disturbed]_(Session!sessionVars)
  <2> SUFFICES ASSUME IInv, IInv', [Next]_vars
               PROVE  Session!Next \/ Disturbed \/ UNCHANGED Session!sessionVars
    OBVIOUS
  <2>1. CASE EventStart \/ EventRelease
    BY <2>1, QuietElse DEF EventStart, EventRelease, eventVars
  <2>2. ASSUME NEW o \in Opens, Driver(o) PROVE UNCHANGED Session!sessionVars
    BY <2>2, DriverMaps
  <2>3. ASSUME NEW o \in Opens, Application(o)
        PROVE  Session!Next \/ Disturbed \/ UNCHANGED Session!sessionVars
    BY <2>3, ApplicationMaps
  <2>4. CASE UNCHANGED vars
    BY <2>4, QuietElse DEF vars, eventVars
  <2> QED BY <2>1, <2>2, <2>3, <2>4 DEF Next
<1> QED BY <1>1, <1>2, Invariance, PTL DEF Spec, RefinesSession
=============================================================================
