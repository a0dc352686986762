-------------------------- MODULE PendingIrp_proofs --------------------------
(***************************************************************************)
(* Proofs about PendingIrp, for any number of IRPs, mounts and ticks.      *)
(*                                                                         *)
(* The inductive invariant says in which of eight situations an IRP is, and *)
(* what every field the parties share looks like in it.  An action moves   *)
(* one IRP from a situation to another and leaves the rest alone; all the  *)
(* rest is bookkeeping about the list and its lock.                        *)
(***************************************************************************)
EXTENDS PendingIrp, TLAPS

-----------------------------------------------------------------------------
(* The primitives of a list without repetitions: which entries are on it   *)
(* afterwards, and that none is on it twice.                               *)

\* Without takes one element out of a sequence and keeps the order of the rest.
LEMMA WithoutType ==
  ASSUME NEW S, NEW s \in Seq(S), NEW k \in 1..Len(s)
  PROVE  /\ Without(s, k) \in Seq(S)
         /\ Len(Without(s, k)) = Len(s) - 1
         /\ \A j \in 1..(Len(s) - 1) :
              Without(s, k)[j] = IF j < k THEN s[j] ELSE s[j + 1]
<1> DEFINE n == Len(s) - 1
<1>1. Len(s) \in Nat /\ n \in Nat /\ s \in [1..Len(s) -> S]
  OBVIOUS
<1>2. Without(s, k) \in [1..n -> S]
  <2>1. \A j \in 1..n : j \in 1..Len(s) /\ j + 1 \in 1..Len(s)
    BY <1>1
  <2>2. \A j \in 1..n : (IF j < k THEN s[j] ELSE s[j + 1]) \in S
    BY <1>1, <2>1
  <2> QED BY <2>2 DEF Without
<1>3. Without(s, k) \in Seq(S)
  BY <1>1, <1>2
<1>4. Len(Without(s, k)) = n
  BY <1>1 DEF Without
<1> QED BY <1>1, <1>3, <1>4 DEF Without

\* told to: unlinking an entry loses no other.
LEMMA WithoutRemoves ==
  ASSUME NEW S, NEW s \in Seq(S), NEW k \in 1..Len(s), Distinct(s)
  PROVE  /\ Distinct(Without(s, k))
         /\ \A x : Occurs(x, Without(s, k)) <=> Occurs(x, s) /\ x # s[k]
<1> DEFINE t == Without(s, k)
           n == Len(s)
<1>1. /\ n \in Nat /\ Len(t) = n - 1 /\ t \in Seq(S)
      /\ \A j \in 1..(n - 1) : t[j] = IF j < k THEN s[j] ELSE s[j + 1]
  BY WithoutType
<1> HIDE DEF t
<1>2. Distinct(t)
  <2> SUFFICES ASSUME NEW i \in 1..Len(t), NEW j \in 1..Len(t), t[i] = t[j]
               PROVE  i = j
    BY DEF Distinct
  <2> DEFINE f(m) == IF m < k THEN m ELSE m + 1
  <2>1. f(i) \in 1..n /\ f(j) \in 1..n /\ t[i] = s[f(i)] /\ t[j] = s[f(j)]
    BY <1>1
  <2>2. f(i) = f(j)
    BY <2>1 DEF Distinct
  <2> QED BY <2>2, <1>1
<1>3. ASSUME NEW x, Occurs(x, t) PROVE Occurs(x, s) /\ x # s[k]
  <2>1. PICK j \in 1..Len(t) : t[j] = x
    BY <1>3 DEF Occurs
  <2>2. CASE j < k
    BY <2>1, <2>2, <1>1 DEF Occurs, Distinct
  <2>3. CASE ~(j < k)
    <3>1. j + 1 \in 1..n /\ s[j + 1] = x /\ j + 1 # k
      BY <2>1, <2>3, <1>1
    <3> QED BY <3>1 DEF Occurs, Distinct
  <2> QED BY <2>2, <2>3
<1>4. ASSUME NEW x, Occurs(x, s), x # s[k] PROVE Occurs(x, t)
  <2>1. PICK j \in 1..n : s[j] = x
    BY <1>4 DEF Occurs
  <2>2. CASE j < k
    <3>1. j \in 1..Len(t) /\ t[j] = x
      BY <2>1, <2>2, <1>1
    <3> QED BY <3>1 DEF Occurs
  <2>3. CASE j > k
    <3>1. j - 1 \in 1..Len(t) /\ t[j - 1] = s[(j - 1) + 1]
      BY <2>3, <1>1
    <3> QED BY <3>1, <2>1 DEF Occurs
  <2> QED BY <2>1, <2>2, <2>3, <1>4
<1> QED BY <1>2, <1>3, <1>4 DEF t

\* InsertTailList adds the one element, at the end.
LEMMA AppendAdds ==
  ASSUME NEW S, NEW s \in Seq(S), NEW e \in S, Distinct(s), ~Occurs(e, s)
  PROVE  /\ Append(s, e) \in Seq(S)
         /\ Distinct(Append(s, e))
         /\ \A x : Occurs(x, Append(s, e)) <=> Occurs(x, s) \/ x = e
<1> DEFINE t == Append(s, e)
           n == Len(s)
<1>1. /\ n \in Nat /\ Len(t) = n + 1 /\ t \in Seq(S) /\ t[n + 1] = e
      /\ \A j \in 1..n : t[j] = s[j]
  OBVIOUS
<1> HIDE DEF t
<1>2. Distinct(t)
  BY <1>1 DEF Distinct, Occurs
<1>3. ASSUME NEW x, Occurs(x, t) PROVE Occurs(x, s) \/ x = e
  <2>1. PICK j \in 1..n + 1 : t[j] = x
    BY <1>3, <1>1 DEF Occurs
  <2> QED BY <2>1, <1>1 DEF Occurs
<1>4. ASSUME NEW x, Occurs(x, s) \/ x = e PROVE Occurs(x, t)
  <2>1. CASE x = e
    BY <2>1, <1>1 DEF Occurs
  <2>2. CASE Occurs(x, s)
    <3>1. PICK j \in 1..n : s[j] = x
      BY <2>2 DEF Occurs
    <3>2. j \in 1..Len(t) /\ t[j] = x
      BY <3>1, <1>1
    <3> QED BY <3>2 DEF Occurs
  <2> QED BY <2>1, <2>2, <1>4
<1> QED BY <1>1, <1>2, <1>3, <1>4 DEF t

-----------------------------------------------------------------------------
(* The list.                                                               *)

ListInv ==
  /\ Distinct(list)
  /\ \A i \in Irps : linked[i] <=> InList(i)

(* The lock is held by whoever the phases and thread states say.           *)
Registering(i) == phase[i] \in {"armed", "inserting"}

LockInv ==
  /\ timeout = "sweeping" <=> lock = "timeout"
  /\ release = "sweeping" <=> lock = "release"
  /\ \A i \in Irps : Registering(i) => lock = "register"
  /\ \A i, j \in Irps : Registering(i) /\ Registering(j) => i = j

-----------------------------------------------------------------------------
(* The situations of an IRP.                                               *)

Pended(i) == phase[i] \in {"listed", "notified", "returned"}

\* Nobody but the dispatch routine knows the IRP.
Private(i) ==
  /\ ~ctx[i] /\ routine[i] = "idle"
  /\ ~freeMem[i] /\ ~linked[i] /\ taker[i] = "none"
  /\ completions[i] = 0 /\ outcome[i] = "none" /\ user[i] = "idle"
  /\ \/ /\ phase[i] = "idle" /\ event[i] = "none"
        /\ mem[i] = "none" /\ ~armed[i] /\ ~bufCtx[i]
     \/ /\ phase[i] = "entered" /\ event[i] = "owned"
        /\ mem[i] = "none" /\ ~armed[i]
     \/ /\ phase[i] = "allocated" /\ event[i] = "owned"
        /\ mem[i] = "live" /\ entryIrp[i] /\ ~armed[i]
     \/ /\ Registering(i) /\ event[i] = "owned"
        /\ mem[i] = "live" /\ entryIrp[i] /\ armed[i]

\* The cancel routine has the IRP, with or without having completed it, and has
\* found, or will find, no entry in its context.
CancelledAlone(i) ==
  /\ i \in missed /\ cancel[i] /\ ~armed[i] /\ taker[i] = "none"
  /\ mem[i] = "live" /\ entryIrp[i]
  /\ \/ routine[i] = "completing" /\ completions[i] = 0 /\ outcome[i] = "none"
     \/ routine[i] = "idle" /\ completions[i] = 1 /\ outcome[i] # "none"

\* The cancel routine was called while the entry was not on the list yet.
Overtaken(i) ==
  /\ Registering(i) /\ ~ctx[i] /\ ~freeMem[i] /\ ~linked[i]
  /\ user[i] = "idle" /\ event[i] = "owned"
  /\ \/ CancelledAlone(i)
     \/ /\ cancel[i] /\ ~armed[i] /\ taker[i] = "none"
        /\ mem[i] = "live" /\ entryIrp[i]
        /\ routine[i] = "entered" /\ completions[i] = 0 /\ outcome[i] = "none"

\* An entry that joined the list after that: nobody will free it.
Stranded(i) ==
  Pended(i) /\ ctx[i] /\ linked[i] = ~freeMem[i] /\ CancelledAlone(i)

\* On the list, its cancel routine in place.
Waiting(i) ==
  /\ Pended(i) /\ linked[i] /\ armed[i] /\ ctx[i] /\ mem[i] = "live"
  /\ entryIrp[i] /\ ~freeMem[i] /\ routine[i] = "idle" /\ taker[i] = "none"
  /\ completions[i] = 0 /\ outcome[i] = "none"

\* The cancel routine has been called and has yet to unlink the entry: either
\* the entry is on the list, or it has been handed over.
Cancelling(i) ==
  /\ Pended(i) /\ ~armed[i] /\ ctx[i] /\ mem[i] = "live"
  /\ entryIrp[i] /\ linked[i] = ~freeMem[i]
  /\ routine[i] \in {"entered", "locking"} /\ taker[i] = "none" /\ cancel[i]
  /\ completions[i] = 0 /\ outcome[i] = "none"

\* The cancel routine has unlinked the entry and will complete the IRP.
Unlinked(i) ==
  /\ Pended(i) /\ ~armed[i] /\ ~ctx[i] /\ ~linked[i]
  /\ routine[i] = "completing" /\ taker[i] = "none" /\ cancel[i]
  /\ freeMem[i] => mem[i] = "freed"
  /\ completions[i] = 0 /\ outcome[i] = "none"

\* A thread has taken the entry off the list and will complete the IRP.
Taken(i) ==
  /\ Pended(i) /\ ~armed[i] /\ ~linked[i] /\ mem[i] = "live" /\ ~freeMem[i]
  /\ routine[i] = "idle" /\ taker[i] # "none"
  /\ taker[i] = "reply" => user[i] = "answered"
  /\ taker[i] = "release" => releases > 0
  /\ completions[i] = 0 /\ outcome[i] = "none"

\* The IRP has been completed.
Finished(i) ==
  /\ Pended(i) /\ ~armed[i] /\ ~linked[i] /\ routine[i] = "idle"
  /\ taker[i] = "none"
  /\ freeMem[i] => mem[i] = "freed"
  /\ completions[i] = 1 /\ outcome[i] # "none"

Situation(i) ==
  \/ Private(i) \/ Waiting(i) \/ Cancelling(i) \/ Unlinked(i) \/ Taken(i) \/ Finished(i)
  \/ Overtaken(i) \/ Stranded(i)

\* The event and the write buffer.
EventInv(i) ==
  /\ i \notin outrun => event[i] \notin {"dangling", "doubleFreed"}
  /\ i \notin outrun /\ phase[i] = "listed" => event[i] = "owned"
  /\ phase[i] = "listed" => event[i] # "queued" /\ user[i] = "idle"
  /\ user[i] # "idle" => event[i] \in {"freed", "doubleFreed"}
  /\ bufCtx[i] => i \in Writes
  /\ phase[i] = "returned" /\ bufCtx[i] => i \in BigWrites
  /\ phase[i] = "notified" => i \in SmallWrites

\* Only IRPs somebody may cancel are cancelled.
CancelInv(i) == cancel[i] => i \in Cancellable

\* A release in progress or done has cleared Mounted, and a device that is not
\* mounted has no timeout thread once the release is over.
MountInv ==
  /\ ~mounted \/ release # "idle" => releases > 0
  /\ ~mounted /\ release = "idle" => timeout = "dead"

IrpInv(i) == Situation(i) /\ EventInv(i) /\ CancelInv(i)

IInv ==
  /\ TypeOK /\ ListInv /\ LockInv /\ MountInv
  /\ \A i \in Irps : IrpInv(i)

\* All of the proofs but that of the types follow the code up to the first
\* IOCTL_EVENT_WRITE that puts a running cancel routine back; rearmed is never
\* reset, so it was clear in every state before one in which it is clear.

USE DEF mountVars, entryVars, irpVars, doneVars, history

\* A request refused because the device is not mounted.
LEMMA DispatchUnmountedStep ==
  ASSUME ~rearmed', IInv, NEW i \in Irps, DispatchUnmounted(i)
  PROVE  IInv'
<1> USE DEF DispatchUnmounted, Complete
<1>1. TypeOK'
  BY PendingIrpAssumption DEF IInv, TypeOK, Phases, Outcomes
<1>2. ListInv' /\ LockInv' /\ MountInv'
  BY DEF IInv, ListInv, InList, LockInv, Registering, MountInv, TypeOK
<1>3. ASSUME NEW j \in Irps PROVE IrpInv(j)'
  BY <1>3, PendingIrpAssumption
  DEF IInv, TypeOK, LockInv, IrpInv, EventInv, CancelInv, Writes, Situation,
      Private, Waiting, Cancelling, Unlinked, Taken, Finished, Overtaken, Stranded,
      CancelledAlone, Pended, Registering
<1> QED BY <1>1, <1>2, <1>3 DEF IInv

\* A dispatch routine starts; nothing is shared yet.
LEMMA DispatchStep ==
  ASSUME ~rearmed', IInv, NEW i \in Irps, Dispatch(i)
  PROVE  IInv'
<1> USE DEF Dispatch, Writes
<1>1. TypeOK'
  BY PendingIrpAssumption DEF IInv, TypeOK, Phases, Outcomes
<1>2. ListInv' /\ LockInv' /\ MountInv'
  BY DEF IInv, ListInv, InList, LockInv, Registering, MountInv, TypeOK
<1>3. ASSUME NEW j \in Irps PROVE IrpInv(j)'
  BY <1>3, PendingIrpAssumption
  DEF IInv, TypeOK, LockInv, IrpInv, EventInv, CancelInv, Writes, Situation,
      Private, Waiting, Cancelling, Unlinked, Taken, Finished, Overtaken, Stranded,
      CancelledAlone, Pended, Registering
<1> QED BY <1>1, <1>2, <1>3 DEF IInv

\* RegisterPendingIrpMain refuses: the IRP is completed where it was issued.
LEMMA RegisterUnmountedStep ==
  ASSUME ~rearmed', IInv, NEW i \in Irps, RegisterUnmounted(i)
  PROVE  IInv'
<1> USE DEF RegisterUnmounted, GiveUp, Complete
<1>1. TypeOK'
  BY PendingIrpAssumption DEF IInv, TypeOK, Phases, Outcomes
<1>2. ListInv' /\ LockInv' /\ MountInv'
  BY DEF IInv, ListInv, InList, LockInv, Registering, MountInv, TypeOK
<1>3. ASSUME NEW j \in Irps PROVE IrpInv(j)'
  BY <1>3, PendingIrpAssumption
  DEF IInv, TypeOK, LockInv, IrpInv, EventInv, CancelInv, Writes, Situation,
      Private, Waiting, Cancelling, Unlinked, Taken, Finished, Overtaken, Stranded,
      CancelledAlone, Pended, Registering
<1> QED BY <1>1, <1>2, <1>3 DEF IInv

\* The IRP_ENTRY is allocated and still private.
LEMMA RegisterAllocateStep ==
  ASSUME ~rearmed', IInv, NEW i \in Irps, RegisterAllocate(i)
  PROVE  IInv'
<1> USE DEF RegisterAllocate
<1>1. TypeOK'
  BY PendingIrpAssumption DEF IInv, TypeOK, Phases, Outcomes
<1>2. ListInv' /\ LockInv' /\ MountInv'
  BY DEF IInv, ListInv, InList, LockInv, Registering, MountInv, TypeOK
<1>3. ASSUME NEW j \in Irps PROVE IrpInv(j)'
  BY <1>3, PendingIrpAssumption
  DEF IInv, TypeOK, LockInv, IrpInv, EventInv, CancelInv, Writes, Situation,
      Private, Waiting, Cancelling, Unlinked, Taken, Finished, Overtaken, Stranded,
      CancelledAlone, Pended, Registering
<1> QED BY <1>1, <1>2, <1>3 DEF IInv

\* The cancel routine is set under the lock, before the entry is in the list.
LEMMA RegisterArmStep ==
  ASSUME ~rearmed', IInv, NEW i \in Irps, RegisterArm(i)
  PROVE  IInv'
<1> USE DEF RegisterArm
<1>1. TypeOK'
  BY PendingIrpAssumption DEF IInv, TypeOK, Phases, Outcomes
<1>2. ListInv' /\ LockInv' /\ MountInv'
  BY DEF IInv, ListInv, InList, LockInv, Registering, MountInv, TypeOK
<1>3. ASSUME NEW j \in Irps PROVE IrpInv(j)'
  BY <1>3, PendingIrpAssumption
  DEF IInv, TypeOK, LockInv, IrpInv, EventInv, CancelInv, Writes, Situation,
      Private, Waiting, Cancelling, Unlinked, Taken, Finished, Overtaken, Stranded,
      CancelledAlone, Pended, Registering
<1> QED BY <1>1, <1>2, <1>3 DEF IInv

\* An IRP cancelled before that is completed, its entry freed.
LEMMA RegisterCancelledStep ==
  ASSUME ~rearmed', IInv, NEW i \in Irps, RegisterCancelled(i)
  PROVE  IInv'
<1> USE DEF RegisterCancelled, GiveUp, Complete
<1>1. TypeOK'
  BY PendingIrpAssumption DEF IInv, TypeOK, Phases, Outcomes
<1>2. ListInv' /\ LockInv' /\ MountInv'
  BY DEF IInv, ListInv, InList, LockInv, Registering, MountInv, TypeOK
<1>3. ASSUME NEW j \in Irps PROVE IrpInv(j)'
  BY <1>3, PendingIrpAssumption
  DEF IInv, TypeOK, LockInv, IrpInv, EventInv, CancelInv, Writes, Situation,
      Private, Waiting, Cancelling, Unlinked, Taken, Finished, Overtaken, Stranded,
      CancelledAlone, Pended, Registering
<1> QED BY <1>1, <1>2, <1>3 DEF IInv

\* An IRP not cancelled goes on to the list, under the lock.
LEMMA RegisterGoOnStep ==
  ASSUME ~rearmed', IInv, NEW i \in Irps, RegisterGoOn(i)
  PROVE  IInv'
<1> USE DEF RegisterGoOn
<1>1. TypeOK'
  BY PendingIrpAssumption DEF IInv, TypeOK, Phases, Outcomes
<1>2. ListInv' /\ LockInv' /\ MountInv'
  BY DEF IInv, ListInv, InList, LockInv, Registering, MountInv, TypeOK
<1>3. ASSUME NEW j \in Irps PROVE IrpInv(j)'
  BY <1>3, PendingIrpAssumption
  DEF IInv, TypeOK, LockInv, IrpInv, EventInv, CancelInv, Writes, Situation,
      Private, Waiting, Cancelling, Unlinked, Taken, Finished, Overtaken, Stranded,
      CancelledAlone, Pended, Registering
<1> QED BY <1>1, <1>2, <1>3 DEF IInv

\* The event is queued after the entry is in the list.
LEMMA NotifyStep ==
  ASSUME ~rearmed', IInv, NEW i \in Irps, Notify(i)
  PROVE  IInv'
<1> USE DEF Notify
<1>1. TypeOK'
  BY PendingIrpAssumption DEF IInv, TypeOK, Phases, Outcomes
<1>2. ListInv' /\ LockInv' /\ MountInv'
  BY DEF IInv, ListInv, InList, LockInv, Registering, MountInv, TypeOK
<1>3. ASSUME NEW j \in Irps PROVE IrpInv(j)'
  BY <1>3, PendingIrpAssumption
  DEF IInv, TypeOK, LockInv, IrpInv, EventInv, CancelInv, Writes, Situation,
      Private, Waiting, Cancelling, Unlinked, Taken, Finished, Overtaken, Stranded,
      CancelledAlone, Pended, Registering
<1> QED BY <1>1, <1>2, <1>3 DEF IInv

\* A small write forgets its event once it is registered.
LEMMA ClearEventPointerStep ==
  ASSUME ~rearmed', IInv, NEW i \in Irps, ClearEventPointer(i)
  PROVE  IInv'
<1> USE DEF ClearEventPointer
<1>1. TypeOK'
  BY PendingIrpAssumption DEF IInv, TypeOK, Phases, Outcomes
<1>2. ListInv' /\ LockInv' /\ MountInv'
  BY DEF IInv, ListInv, InList, LockInv, Registering, MountInv, TypeOK
<1>3. ASSUME NEW j \in Irps PROVE IrpInv(j)'
  BY <1>3, PendingIrpAssumption
  DEF IInv, TypeOK, LockInv, IrpInv, EventInv, CancelInv, Writes, Situation,
      Private, Waiting, Cancelling, Unlinked, Taken, Finished, Overtaken, Stranded,
      CancelledAlone, Pended, Registering
<1> QED BY <1>1, <1>2, <1>3 DEF IInv

\* A cancellation takes the cancel routine, so nobody else can.
LEMMA IoCancelIrpStep ==
  ASSUME ~rearmed', IInv, NEW i \in Irps, IoCancelIrp(i)
  PROVE  IInv'
<1> USE DEF IoCancelIrp
<1>1. TypeOK'
  BY PendingIrpAssumption DEF IInv, TypeOK, Phases, Outcomes
<1>2. ListInv' /\ LockInv' /\ MountInv'
  BY DEF IInv, ListInv, InList, LockInv, Registering, MountInv, TypeOK
<1>3. ASSUME NEW j \in Irps PROVE IrpInv(j)'
  BY <1>3, PendingIrpAssumption
  DEF IInv, TypeOK, LockInv, IrpInv, EventInv, CancelInv, Writes, Situation,
      Private, Waiting, Cancelling, Unlinked, Taken, Finished, Overtaken, Stranded,
      CancelledAlone, Pended, Registering
<1> QED BY <1>1, <1>2, <1>3 DEF IInv

\* The cancel routine reads its DriverContext before it has the lock.
LEMMA CancelReadContextStep ==
  ASSUME ~rearmed', IInv, NEW i \in Irps, CancelReadContext(i)
  PROVE  IInv'
<1> USE DEF CancelReadContext
<1>1. TypeOK'
  BY PendingIrpAssumption DEF IInv, TypeOK, Phases, Outcomes
<1>2. ListInv' /\ LockInv' /\ MountInv'
  BY DEF IInv, ListInv, InList, LockInv, Registering, MountInv, TypeOK
<1>3. ASSUME NEW j \in Irps PROVE IrpInv(j)'
  BY <1>3, PendingIrpAssumption
  DEF IInv, TypeOK, LockInv, IrpInv, EventInv, CancelInv, Writes, Situation,
      Private, Waiting, Cancelling, Unlinked, Taken, Finished, Overtaken, Stranded,
      CancelledAlone, Pended, Registering
<1> QED BY <1>1, <1>2, <1>3 DEF IInv

\* The cancel routine completes the IRP, which nobody else holds.
LEMMA CancelCompleteStep ==
  ASSUME ~rearmed', IInv, NEW i \in Irps, CancelComplete(i)
  PROVE  IInv'
<1> USE DEF CancelComplete, Complete
<1>1. TypeOK'
  BY PendingIrpAssumption DEF IInv, TypeOK, Phases, Outcomes
<1>2. ListInv' /\ LockInv' /\ MountInv'
  BY DEF IInv, ListInv, InList, LockInv, Registering, MountInv, TypeOK
<1>3. ASSUME NEW j \in Irps PROVE IrpInv(j)'
  BY <1>3, PendingIrpAssumption
  DEF IInv, TypeOK, LockInv, IrpInv, EventInv, CancelInv, Writes, Situation,
      Private, Waiting, Cancelling, Unlinked, Taken, Finished, Overtaken, Stranded,
      CancelledAlone, Pended, Registering
<1> QED BY <1>1, <1>2, <1>3 DEF IInv

\* Time passes for the entries in the list.
LEMMA TickStep ==
  ASSUME ~rearmed', IInv, Tick
  PROVE  IInv'
<1> USE DEF Tick
<1>1. TypeOK'
  BY PendingIrpAssumption DEF IInv, TypeOK, Phases, Outcomes
<1>2. ListInv' /\ LockInv' /\ MountInv'
  BY DEF IInv, ListInv, InList, LockInv, Registering, MountInv, TypeOK
<1>3. ASSUME NEW j \in Irps PROVE IrpInv(j)'
  BY <1>3, PendingIrpAssumption
  DEF IInv, TypeOK, LockInv, IrpInv, EventInv, CancelInv, Writes, Situation,
      Private, Waiting, Cancelling, Unlinked, Taken, Finished, Overtaken, Stranded,
      CancelledAlone, Pended, Registering
<1> QED BY <1>1, <1>2, <1>3 DEF IInv

\* The timeout thread takes the lock.
LEMMA TimeoutSweepStep ==
  ASSUME ~rearmed', IInv, TimeoutSweep
  PROVE  IInv'
<1> USE DEF TimeoutSweep
<1>1. TypeOK'
  BY PendingIrpAssumption DEF IInv, TypeOK, Phases, Outcomes
<1>2. ListInv' /\ LockInv' /\ MountInv'
  BY DEF IInv, ListInv, InList, LockInv, Registering, MountInv, TypeOK
<1>3. ASSUME NEW j \in Irps PROVE IrpInv(j)'
  BY <1>3, PendingIrpAssumption
  DEF IInv, TypeOK, LockInv, IrpInv, EventInv, CancelInv, Writes, Situation,
      Private, Waiting, Cancelling, Unlinked, Taken, Finished, Overtaken, Stranded,
      CancelledAlone, Pended, Registering
<1> QED BY <1>1, <1>2, <1>3 DEF IInv

\* It gives the lock back.
LEMMA TimeoutUnlockStep ==
  ASSUME ~rearmed', IInv, TimeoutUnlock
  PROVE  IInv'
<1> USE DEF TimeoutUnlock
<1>1. TypeOK'
  BY PendingIrpAssumption DEF IInv, TypeOK, Phases, Outcomes
<1>2. ListInv' /\ LockInv' /\ MountInv'
  BY DEF IInv, ListInv, InList, LockInv, Registering, MountInv, TypeOK
<1>3. ASSUME NEW j \in Irps PROVE IrpInv(j)'
  BY <1>3, PendingIrpAssumption
  DEF IInv, TypeOK, LockInv, IrpInv, EventInv, CancelInv, Writes, Situation,
      Private, Waiting, Cancelling, Unlinked, Taken, Finished, Overtaken, Stranded,
      CancelledAlone, Pended, Registering
<1> QED BY <1>1, <1>2, <1>3 DEF IInv

\* A sweep ends with nothing left to complete.
LEMMA TimeoutDoneStep ==
  ASSUME ~rearmed', IInv, TimeoutDone
  PROVE  IInv'
<1> USE DEF TimeoutDone
<1>1. TypeOK'
  BY PendingIrpAssumption DEF IInv, TypeOK, Phases, Outcomes
<1>2. ListInv' /\ LockInv' /\ MountInv'
  BY DEF IInv, ListInv, InList, LockInv, Registering, MountInv, TypeOK
<1>3. ASSUME NEW j \in Irps PROVE IrpInv(j)'
  BY <1>3, PendingIrpAssumption
  DEF IInv, TypeOK, LockInv, IrpInv, EventInv, CancelInv, Writes, Situation,
      Private, Waiting, Cancelling, Unlinked, Taken, Finished, Overtaken, Stranded,
      CancelledAlone, Pended, Registering
<1> QED BY <1>1, <1>2, <1>3 DEF IInv

\* DokanEventRelease clears Mounted.
LEMMA EventReleaseStep ==
  ASSUME ~rearmed', IInv, EventRelease
  PROVE  IInv'
<1> USE DEF EventRelease
<1>1. TypeOK'
  <2>1. releases' \in Nat
    BY DEF IInv, TypeOK
  <2> QED BY <2>1 DEF IInv, TypeOK
<1>2. ListInv' /\ LockInv' /\ MountInv'
  BY DEF IInv, ListInv, InList, LockInv, Registering, MountInv, TypeOK
<1>3. ASSUME NEW j \in Irps PROVE IrpInv(j)'
  BY <1>3, PendingIrpAssumption
  DEF IInv, TypeOK, LockInv, IrpInv, EventInv, CancelInv, Writes, Situation,
      Private, Waiting, Cancelling, Unlinked, Taken, Finished, Overtaken, Stranded,
      CancelledAlone, Pended, Registering
<1> QED BY <1>1, <1>2, <1>3 DEF IInv

\* The release takes the lock.
LEMMA ReleaseSweepStep ==
  ASSUME ~rearmed', IInv, ReleaseSweep
  PROVE  IInv'
<1> USE DEF ReleaseSweep
<1>1. TypeOK'
  BY PendingIrpAssumption DEF IInv, TypeOK, Phases, Outcomes
<1>2. ListInv' /\ LockInv' /\ MountInv'
  BY DEF IInv, ListInv, InList, LockInv, Registering, MountInv, TypeOK
<1>3. ASSUME NEW j \in Irps PROVE IrpInv(j)'
  BY <1>3, PendingIrpAssumption
  DEF IInv, TypeOK, LockInv, IrpInv, EventInv, CancelInv, Writes, Situation,
      Private, Waiting, Cancelling, Unlinked, Taken, Finished, Overtaken, Stranded,
      CancelledAlone, Pended, Registering
<1> QED BY <1>1, <1>2, <1>3 DEF IInv

\* The release gives the lock back.
LEMMA ReleaseUnlockStep ==
  ASSUME ~rearmed', IInv, ReleaseUnlock
  PROVE  IInv'
<1> USE DEF ReleaseUnlock
<1>1. TypeOK'
  BY PendingIrpAssumption DEF IInv, TypeOK, Phases, Outcomes
<1>2. ListInv' /\ LockInv' /\ MountInv'
  BY DEF IInv, ListInv, InList, LockInv, Registering, MountInv, TypeOK
<1>3. ASSUME NEW j \in Irps PROVE IrpInv(j)'
  BY <1>3, PendingIrpAssumption
  DEF IInv, TypeOK, LockInv, IrpInv, EventInv, CancelInv, Writes, Situation,
      Private, Waiting, Cancelling, Unlinked, Taken, Finished, Overtaken, Stranded,
      CancelledAlone, Pended, Registering
<1> QED BY <1>1, <1>2, <1>3 DEF IInv

\* The release stops the timeout thread.
LEMMA ReleaseStopThreadStep ==
  ASSUME ~rearmed', IInv, ReleaseStopThread
  PROVE  IInv'
<1> USE DEF ReleaseStopThread
<1>1. TypeOK'
  BY PendingIrpAssumption DEF IInv, TypeOK, Phases, Outcomes
<1>2. ListInv' /\ LockInv' /\ MountInv'
  BY DEF IInv, ListInv, InList, LockInv, Registering, MountInv, TypeOK
<1>3. ASSUME NEW j \in Irps PROVE IrpInv(j)'
  BY <1>3, PendingIrpAssumption
  DEF IInv, TypeOK, LockInv, IrpInv, EventInv, CancelInv, Writes, Situation,
      Private, Waiting, Cancelling, Unlinked, Taken, Finished, Overtaken, Stranded,
      CancelledAlone, Pended, Registering
<1> QED BY <1>1, <1>2, <1>3 DEF IInv

\* A mount touches no IRP.
LEMMA EventStartStep ==
  ASSUME ~rearmed', IInv, EventStart
  PROVE  IInv'
<1> USE DEF EventStart
<1>1. TypeOK'
  BY PendingIrpAssumption DEF IInv, TypeOK, Phases, Outcomes
<1>2. ListInv' /\ LockInv' /\ MountInv'
  BY DEF IInv, ListInv, InList, LockInv, Registering, MountInv, TypeOK
<1>3. ASSUME NEW j \in Irps PROVE IrpInv(j)'
  BY <1>3, PendingIrpAssumption
  DEF IInv, TypeOK, LockInv, IrpInv, EventInv, CancelInv, Writes, Situation,
      Private, Waiting, Cancelling, Unlinked, Taken, Finished, Overtaken, Stranded,
      CancelledAlone, Pended, Registering
<1> QED BY <1>1, <1>2, <1>3 DEF IInv

-----------------------------------------------------------------------------
(* What the steps have in common.                                          *)

\* The invariant of an IRP nobody touches.
Untouched(j) ==
  /\ phase'[j] = phase[j] /\ cancel'[j] = cancel[j] /\ armed'[j] = armed[j]
  /\ ctx'[j] = ctx[j] /\ bufCtx'[j] = bufCtx[j] /\ routine'[j] = routine[j]
  /\ mem'[j] = mem[j] /\ entryIrp'[j] = entryIrp[j] /\ freeMem'[j] = freeMem[j]
  /\ linked'[j] = linked[j] /\ taker'[j] = taker[j]
  /\ event'[j] = event[j] /\ user'[j] = user[j]
  /\ completions'[j] = completions[j] /\ outcome'[j] = outcome[j]
  /\ j \in missed' <=> j \in missed
  /\ j \in outrun' <=> j \in outrun

\* An IRP none of whose fields change stays in its situation.
LEMMA UntouchedKeeps ==
  ASSUME NEW j \in Irps, IrpInv(j), Untouched(j), releases' = releases
  PROVE  IrpInv(j)'
BY DEF IrpInv, Untouched, Situation, Private, Waiting, Cancelling, Unlinked,
       Taken, Finished, Overtaken, Stranded, CancelledAlone, Pended, Registering,
       EventInv, CancelInv

\* RemoveEntryList of the k-th entry keeps the list and the links in step.
LEMMA RemovalKeepsList ==
  ASSUME IInv, NEW k \in 1..Len(list), list' = Without(list, k),
         linked' = [linked EXCEPT ![list[k]] = FALSE]
  PROVE  list' \in Seq(Irps) /\ ListInv'
<1>1. list \in Seq(Irps) /\ list[k] \in Irps /\ linked \in [Irps -> BOOLEAN]
  BY DEF IInv, TypeOK
<1>2. list' \in Seq(Irps)
  BY <1>1, WithoutType
<1>3. /\ Distinct(list')
      /\ \A x : Occurs(x, list') <=> Occurs(x, list) /\ x # list[k]
  BY <1>1, WithoutRemoves DEF IInv, ListInv
<1> QED BY <1>1, <1>2, <1>3 DEF IInv, ListInv, InList

\* An entry on the list waits, or its cancel routine is on its way to it, or
\* has passed it by.
LEMMA ListedSituation ==
  ASSUME IInv, NEW i \in Irps, InList(i)
  PROVE  /\ Waiting(i) \/ Cancelling(i) \/ Stranded(i)
         /\ linked[i] /\ entryIrp[i] /\ mem[i] = "live"
BY DEF IInv, ListInv, IrpInv, Situation, Private, Waiting, Cancelling, Unlinked,
       Taken, Finished, Overtaken, Stranded, CancelledAlone

\* Taking an entry off the list to complete it: the taker owns the IRP, or the
\* running cancel routine has been told to free the entry.
LEMMA TakeEntryKeeps ==
  ASSUME IInv, NEW i \in Irps, NEW who \in {"reply", "timeout", "release"},
         NEW clear \in BOOLEAN, InList(i), TakeEntry(i, who, clear),
         UNCHANGED <<phase, cancel, bufCtx, routine, entryIrp, event, doneVars, releases,
                     history>>,
         who = "reply" => user' = [user EXCEPT ![i] = "answered"],
         who = "reply" => user[i] # "idle",
         who # "reply" => user' = user,
         who = "release" => releases > 0
  PROVE  /\ linked' = [linked EXCEPT ![i] = FALSE]
         /\ mem' \in [Irps -> {"none", "live", "freed"}]
         /\ freeMem' \in [Irps -> BOOLEAN] /\ armed' \in [Irps -> BOOLEAN]
         /\ ctx' \in [Irps -> BOOLEAN]
         /\ taker' \in [Irps -> {"none", "reply", "timeout", "release"}]
         /\ \A j \in Irps : IrpInv(j)'
<1>1. /\ Waiting(i) \/ Cancelling(i) \/ Stranded(i)
      /\ linked[i] /\ entryIrp[i] /\ mem[i] = "live"
  BY ListedSituation
<1>2. /\ linked' = [linked EXCEPT ![i] = FALSE] /\ mem' = mem
      /\ armed' = [armed EXCEPT ![i] = FALSE]
      /\ freeMem' = [freeMem EXCEPT ![i] = freeMem[i] \/ ~armed[i]]
      /\ ctx' = [ctx EXCEPT ![i] = ctx[i] /\ ~(armed[i] /\ clear)]
      /\ taker' = [taker EXCEPT ![i] = IF armed[i] THEN who ELSE taker[i]]
  <2>1. mem' = [mem EXCEPT ![i] = mem[i]]
    BY <1>1 DEF TakeEntry
  <2>2. mem' = mem
    BY <2>1 DEF IInv, TypeOK
  <2>3. /\ linked' = [linked EXCEPT ![i] = FALSE] /\ armed' = [armed EXCEPT ![i] = FALSE]
        /\ freeMem' = [freeMem EXCEPT ![i] = freeMem[i] \/ ~armed[i]]
    BY <1>1 DEF TakeEntry
  <2>4. /\ ctx' = [ctx EXCEPT ![i] = ctx[i] /\ ~(armed[i] /\ clear)]
        /\ taker' = [taker EXCEPT ![i] = IF armed[i] THEN who ELSE taker[i]]
    BY <1>1 DEF TakeEntry
  <2> QED BY <2>2, <2>3, <2>4
<1>3. /\ mem' \in [Irps -> {"none", "live", "freed"}]
      /\ freeMem' \in [Irps -> BOOLEAN] /\ armed' \in [Irps -> BOOLEAN]
      /\ ctx' \in [Irps -> BOOLEAN]
      /\ taker' \in [Irps -> {"none", "reply", "timeout", "release"}]
  BY <1>2 DEF IInv, TypeOK
<1>4. Taken(i)' \/ Cancelling(i)' \/ Stranded(i)'
  <2>1. CASE Waiting(i)
    BY <1>2, <2>1 DEF Waiting, Taken, Pended, IInv, TypeOK
  <2>2. CASE Cancelling(i)
    BY <1>2, <2>2 DEF Cancelling, Pended, IInv, TypeOK
  <2>3. CASE Stranded(i)
    BY <1>2, <2>3 DEF Stranded, CancelledAlone, Pended, IInv, TypeOK
  <2> QED BY <1>1, <2>1, <2>2, <2>3
<1>5. EventInv(i)' /\ CancelInv(i)'
  <2>1. EventInv(i) /\ CancelInv(i)
    BY DEF IInv, IrpInv
  <2>2. user'[i] # "idle" => event[i] \in {"freed", "doubleFreed"}
    BY <2>1 DEF EventInv, IInv, TypeOK
  <2>3. phase[i] = "listed" => user'[i] = "idle"
    BY <2>1 DEF EventInv
  <2> QED BY <2>1, <2>2, <2>3 DEF EventInv, CancelInv
<1>6. ASSUME NEW j \in Irps, j # i PROVE IrpInv(j)'
  <2>1. Untouched(j)
    BY <1>2, <1>6 DEF Untouched, IInv, TypeOK
  <2> QED BY <2>1, UntouchedKeeps DEF IInv
<1> QED BY <1>2, <1>3, <1>4, <1>5, <1>6 DEF IrpInv, Situation

\* A thread completes what it has taken.
LEMMA FinishEntryKeeps ==
  ASSUME IInv, NEW i \in Irps, NEW status \in Outcomes \ {"none"},
         taker[i] # "none", FinishEntry(i, status),
         UNCHANGED <<history, mountVars, list, lock, phase, irpVars, entryIrp, freeMem, linked,
                     age, event, user, timeout, release>>
  PROVE  IInv'
<1>1. Taken(i) /\ mem[i] = "live"
  BY DEF IInv, IrpInv, Situation, Private, Waiting, Cancelling, Unlinked, Taken, Finished,
         Overtaken, Stranded, CancelledAlone
<1>2. /\ taker' = [taker EXCEPT ![i] = "none"] /\ mem' = [mem EXCEPT ![i] = "freed"]
      /\ completions' = [completions EXCEPT ![i] = 1]
      /\ outcome' = [outcome EXCEPT ![i] = status]
  BY <1>1 DEF FinishEntry, Complete, Taken
<1>3. TypeOK'
  BY <1>2 DEF IInv, TypeOK
<1>4. ListInv' /\ LockInv' /\ MountInv'
  BY DEF IInv, ListInv, InList, LockInv, Registering, MountInv
<1>5. IrpInv(i)'
  <2>1. Finished(i)'
    BY <1>1, <1>2 DEF Taken, Finished, Pended, IInv, TypeOK
  <2>2. EventInv(i)' /\ CancelInv(i)'
    BY DEF IInv, IrpInv, EventInv, CancelInv
  <2> QED BY <2>1, <2>2 DEF IrpInv, Situation
<1>6. ASSUME NEW j \in Irps, j # i PROVE IrpInv(j)'
  <2>1. Untouched(j)
    BY <1>2, <1>6 DEF Untouched, IInv, TypeOK
  <2> QED BY <2>1, UntouchedKeeps DEF IInv
<1> QED BY <1>3, <1>4, <1>5, <1>6 DEF IInv

-----------------------------------------------------------------------------
(* The steps that change the list, or complete what was on it.             *)

\* The entry joins the list: from private to waiting.
LEMMA RegisterInsertStep ==
  ASSUME ~rearmed', IInv, NEW i \in Irps, RegisterInsert(i)
  PROVE  IInv'
<1> USE DEF RegisterInsert
<1>1. (Private(i) \/ Overtaken(i)) /\ ~InList(i) /\ lock = "register"
  BY DEF IInv, IrpInv, Situation, Private, Waiting, Cancelling, Unlinked, Taken,
         Finished, Overtaken, Stranded,
         CancelledAlone, Pended, ListInv, LockInv, Registering
<1>2. list \in Seq(Irps) /\ Distinct(list) /\ ~Occurs(i, list)
  BY <1>1 DEF IInv, TypeOK, ListInv, InList
<1>3. /\ list' \in Seq(Irps) /\ Distinct(list')
      /\ \A x : Occurs(x, list') <=> Occurs(x, list) \/ x = i
  BY <1>2, AppendAdds
<1>4. TypeOK'
  BY <1>3 DEF IInv, TypeOK, Phases
<1>5. ListInv'
  BY <1>3 DEF IInv, ListInv, InList, TypeOK
<1>6. LockInv' /\ MountInv'
  BY <1>1 DEF IInv, LockInv, Registering, MountInv, TypeOK
<1>7. IrpInv(i)'
  <2>1. ASSUME Private(i) PROVE Waiting(i)'
    BY <2>1 DEF Private, Waiting, Pended, Registering, IInv, TypeOK
  <2>2. ASSUME Overtaken(i) PROVE Cancelling(i)' \/ Stranded(i)'
    BY <2>2 DEF Overtaken, CancelledAlone, Cancelling, Stranded, Pended, IInv, TypeOK
  <2>3. EventInv(i)' /\ CancelInv(i)'
    BY <1>1 DEF Private, Overtaken, Registering, IInv, TypeOK, IrpInv, EventInv, CancelInv
  <2> QED BY <1>1, <2>1, <2>2, <2>3 DEF IrpInv, Situation
<1>8. ASSUME NEW j \in Irps, j # i PROVE IrpInv(j)'
  <2>1. Untouched(j)
    BY <1>8 DEF Untouched, IInv, TypeOK
  <2> QED BY <2>1, UntouchedKeeps DEF IInv
<1> QED BY <1>4, <1>5, <1>6, <1>7, <1>8 DEF IInv

\* The cancel routine unlinks its entry unless the taker has left it to free.
LEMMA CancelUnlinkStep ==
  ASSUME ~rearmed', IInv, NEW i \in Irps, CancelUnlink(i)
  PROVE  IInv'
<1> USE DEF CancelUnlink
<1>1. Cancelling(i)
  <2>1. routine[i] = "locking" /\ IrpInv(i)
    BY DEF IInv
  <2> QED BY <2>1 DEF IrpInv, Situation, Private, Waiting, Cancelling, Unlinked, Taken,
                      Finished, Overtaken, Stranded,
         CancelledAlone
<1>2. i \notin outrun' => i \notin SmallWrites \/ ~bufCtx[i]
  BY <1>1, PendingIrpAssumption DEF Cancelling, IInv, IrpInv, EventInv
<1>3. /\ event' = [event EXCEPT ![i] =
                     IF i \in SmallWrites /\ bufCtx[i] THEN FreedByCancel(event[i])
                     ELSE event[i]]
      /\ FreedByCancel(event[i]) \in {"freed", "dangling", "doubleFreed"}
  BY DEF IInv, TypeOK, FreedByCancel
<1>4. list' \in Seq(Irps) /\ ListInv'
  <2>1. CASE linked[i]
    <3>1. PICK k \in 1..Len(list) : list[k] = i /\ list' = Without(list, k)
      BY <2>1 DEF RemoveEntryList
    <3> QED BY <3>1, RemovalKeepsList
  <2>2. CASE ~linked[i]
    <3>1. list' = list /\ linked' = linked
      BY <2>2 DEF RemoveEntryList, IInv, TypeOK
    <3> QED BY <3>1 DEF IInv, TypeOK, ListInv, InList
  <2> QED BY <2>1, <2>2
<1>5. TypeOK'
  BY <1>3, <1>4 DEF IInv, TypeOK
<1>6. LockInv' /\ MountInv'
  BY DEF IInv, LockInv, Registering, MountInv
<1>7. IrpInv(i)'
  <2>1. Unlinked(i)'
    BY <1>1 DEF Cancelling, Unlinked, Pended, IInv, TypeOK
  <2>2. EventInv(i)' /\ CancelInv(i)'
    BY <1>2, <1>3 DEF IInv, TypeOK, IrpInv, EventInv, CancelInv, FreedByCancel
  <2> QED BY <2>1, <2>2 DEF IrpInv, Situation
<1>8. ASSUME NEW j \in Irps, j # i PROVE IrpInv(j)'
  <2>1. Untouched(j)
    BY <1>3, <1>8 DEF Untouched, IInv, TypeOK
  <2> QED BY <2>1, UntouchedKeeps DEF IInv
<1> QED BY <1>4, <1>5, <1>6, <1>7, <1>8 DEF IInv

\* A loop thread gets the event.
LEMMA DeliverStep ==
  ASSUME ~rearmed', IInv, NEW i \in Irps, Deliver(i)
  PROVE  IInv'
<1> USE DEF Deliver
<1>1. TypeOK'
  BY DEF IInv, TypeOK
<1>2. ListInv' /\ LockInv' /\ MountInv'
  BY DEF IInv, ListInv, InList, LockInv, Registering, MountInv
<1>3. user[i] = "idle"
  BY DEF IInv, TypeOK, IrpInv, EventInv
<1>4. IrpInv(i)'
  <2>1. Situation(i)'
    BY <1>3 DEF IInv, TypeOK, IrpInv, Situation, Private, Waiting, Cancelling, Unlinked,
                Taken, Finished, Overtaken, Stranded, CancelledAlone, Pended, Registering
  <2>2. EventInv(i)' /\ CancelInv(i)'
    BY DEF IInv, TypeOK, IrpInv, EventInv, CancelInv
  <2> QED BY <2>1, <2>2 DEF IrpInv
<1>5. ASSUME NEW j \in Irps, j # i PROVE IrpInv(j)'
  <2>1. Untouched(j)
    BY <1>5 DEF Untouched, IInv, TypeOK
  <2> QED BY <2>1, UntouchedKeeps DEF IInv
<1> QED BY <1>1, <1>2, <1>4, <1>5 DEF IInv

\* DokanEventWrite fetches the data of a big write: the IRP stays waiting,
\* unless the cancel routine has it.
LEMMA DokanEventWriteStep ==
  ASSUME ~rearmed', IInv, NEW i \in Irps, DokanEventWrite(i)
  PROVE  IInv'
<1> USE DEF DokanEventWrite
<1>1. InList(i) => armed[i]
  BY ListedSituation
<1>2. InList(i) => Waiting(i)
  BY <1>1, ListedSituation DEF Cancelling, Stranded, CancelledAlone
<1>3. /\ user' = [user EXCEPT ![i] = "fetched"]
      /\ mem' = mem /\ armed' = armed /\ linked' = linked /\ freeMem' = freeMem
      /\ \E b \in BOOLEAN : bufCtx' = [bufCtx EXCEPT ![i] = b /\ @]
  <2>1. CASE ~InList(i)
    BY <2>1 DEF IInv, TypeOK
  <2>2. CASE InList(i)
    <3>1. /\ entryIrp[i] = TRUE /\ armed[i] = TRUE /\ linked[i] = TRUE
          /\ mem[i] = "live" /\ freeMem[i] = FALSE
      BY <1>2, <2>2 DEF Waiting, IInv, TypeOK
    <3>2. /\ mem' = [mem EXCEPT ![i] = mem[i]]
          /\ armed' = [armed EXCEPT ![i] = entryIrp[i]]
          /\ linked' = [linked EXCEPT ![i] = linked[i]]
          /\ freeMem' = [freeMem EXCEPT ![i] = freeMem[i]]
          /\ bufCtx' = [bufCtx EXCEPT ![i] = FALSE /\ bufCtx[i]]
      BY <2>2, <3>1 DEF IInv, TypeOK
    <3>3. mem' = mem /\ armed' = armed /\ linked' = linked /\ freeMem' = freeMem
      BY <3>1, <3>2 DEF IInv, TypeOK
    <3> QED BY <3>2, <3>3
  <2> QED BY <2>1, <2>2
<1>4. TypeOK'
  BY <1>3 DEF IInv, TypeOK
<1>5. ListInv' /\ LockInv' /\ MountInv'
  BY <1>3 DEF IInv, ListInv, InList, LockInv, Registering, MountInv
<1>6. IrpInv(i)'
  <2>1. Situation(i)'
    BY <1>3 DEF IInv, TypeOK, IrpInv, Situation, Private, Waiting, Cancelling, Unlinked,
                Taken, Finished, Overtaken, Stranded, CancelledAlone, Pended, Registering
  <2>2. EventInv(i)' /\ CancelInv(i)'
    BY <1>3 DEF IInv, TypeOK, IrpInv, EventInv, CancelInv
  <2> QED BY <2>1, <2>2 DEF IrpInv
<1>7. ASSUME NEW j \in Irps, j # i PROVE IrpInv(j)'
  <2>1. Untouched(j)
    BY <1>3, <1>7 DEF Untouched, IInv, TypeOK
  <2> QED BY <2>1, UntouchedKeeps DEF IInv
<1> QED BY <1>4, <1>5, <1>6, <1>7 DEF IInv

\* DokanCompleteIrp takes the answered entry out of the list, if it is there.
LEMMA DokanCompleteIrpStep ==
  ASSUME ~rearmed', IInv, NEW i \in Irps, DokanCompleteIrp(i)
  PROVE  IInv'
<1> USE DEF DokanCompleteIrp
<1>1. event[i] \in {"freed", "doubleFreed"} /\ phase[i] # "listed" /\ user[i] # "idle"
  BY DEF IInv, IrpInv, EventInv
<1>2. LockInv' /\ MountInv'
  BY DEF IInv, LockInv, Registering, MountInv
<1>3. CASE InList(i)
  <2>1. PICK k \in 1..Len(list) : list[k] = i /\ list' = Without(list, k)
    BY <1>3, ListedSituation DEF RemoveEntryList
  <2>2. TakeEntry(i, "reply", TRUE)
    BY <1>3
  <2>3. /\ linked' = [linked EXCEPT ![i] = FALSE]
        /\ mem' \in [Irps -> {"none", "live", "freed"}]
        /\ freeMem' \in [Irps -> BOOLEAN] /\ armed' \in [Irps -> BOOLEAN]
        /\ ctx' \in [Irps -> BOOLEAN]
        /\ taker' \in [Irps -> {"none", "reply", "timeout", "release"}]
        /\ \A j \in Irps : IrpInv(j)'
    BY <1>1, <1>3, <2>2, TakeEntryKeeps
  <2>4. list' \in Seq(Irps) /\ ListInv'
    BY <2>1, <2>3, RemovalKeepsList
  <2>5. TypeOK'
    BY <2>3, <2>4 DEF IInv, TypeOK
  <2> QED BY <1>2, <2>3, <2>4, <2>5 DEF IInv
<1>4. CASE ~InList(i)
  <2>1. UNCHANGED <<list, mem, linked, freeMem, armed, ctx, taker>>
    BY <1>4
  <2>2. TypeOK' /\ ListInv'
    BY <2>1 DEF IInv, TypeOK, ListInv, InList
  <2>3. IrpInv(i)'
    <3>1. Situation(i) /\ user'[i] = "answered"
      BY DEF IInv, IrpInv, TypeOK
    <3>2. Situation(i)'
      BY <2>1 DEF IInv, TypeOK, IrpInv, Situation, Private, Waiting, Cancelling, Unlinked,
                  Taken, Finished, Overtaken, Stranded, CancelledAlone, Pended, Registering
    <3>3. EventInv(i)' /\ CancelInv(i)'
      BY <1>1 DEF IInv, TypeOK, IrpInv, EventInv, CancelInv
    <3> QED BY <3>2, <3>3 DEF IrpInv
  <2>4. ASSUME NEW j \in Irps, j # i PROVE IrpInv(j)'
    <3>1. Untouched(j)
      BY <2>1, <2>4 DEF Untouched, IInv, TypeOK
    <3> QED BY <3>1, UntouchedKeeps DEF IInv
  <2> QED BY <1>2, <2>2, <2>3, <2>4 DEF IInv
<1> QED BY <1>3, <1>4

\* The sweeps of the timeout thread and of the release take the head entry.
LEMMA HeadIsListed ==
  ASSUME IInv, list # <<>>
  PROVE  1 \in 1..Len(list) /\ Head(list) = list[1] /\ InList(Head(list))
<1>1. list \in Seq(Irps)
  BY DEF IInv, TypeOK
<1>2. 1 \in 1..Len(list) /\ Head(list) = list[1]
  BY <1>1
<1> QED BY <1>2 DEF InList, Occurs

\* It takes the head of the list when its time is up.
LEMMA TimeoutTakeStep ==
  ASSUME ~rearmed', IInv, NEW i \in Irps, TimeoutTake(i)
  PROVE  IInv'
<1> USE DEF TimeoutTake
<1>1. 1 \in 1..Len(list) /\ i = list[1] /\ InList(i)
  BY HeadIsListed
<1>2. /\ linked' = [linked EXCEPT ![i] = FALSE]
      /\ mem' \in [Irps -> {"none", "live", "freed"}]
      /\ freeMem' \in [Irps -> BOOLEAN] /\ armed' \in [Irps -> BOOLEAN]
      /\ ctx' \in [Irps -> BOOLEAN]
      /\ taker' \in [Irps -> {"none", "reply", "timeout", "release"}]
      /\ \A j \in Irps : IrpInv(j)'
  BY <1>1, TakeEntryKeeps
<1>3. list' \in Seq(Irps) /\ ListInv'
  <2>1. PICK k \in 1..Len(list) : list[k] = i /\ list' = Without(list, k)
    BY <1>1, ListedSituation DEF RemoveEntryList
  <2> QED BY <2>1, <1>2, RemovalKeepsList
<1>4. TypeOK'
  BY <1>2, <1>3 DEF IInv, TypeOK
<1>5. LockInv' /\ MountInv'
  BY DEF IInv, LockInv, Registering, MountInv
<1> QED BY <1>2, <1>3, <1>4, <1>5 DEF IInv

\* The release takes the head of the list.
LEMMA ReleaseTakeStep ==
  ASSUME ~rearmed', IInv, NEW i \in Irps, ReleaseTake(i)
  PROVE  IInv'
<1> USE DEF ReleaseTake
<1>1. 1 \in 1..Len(list) /\ i = list[1] /\ InList(i) /\ releases > 0
  BY HeadIsListed DEF IInv, MountInv
<1>2. /\ linked' = [linked EXCEPT ![i] = FALSE]
      /\ mem' \in [Irps -> {"none", "live", "freed"}]
      /\ freeMem' \in [Irps -> BOOLEAN] /\ armed' \in [Irps -> BOOLEAN]
      /\ ctx' \in [Irps -> BOOLEAN]
      /\ taker' \in [Irps -> {"none", "reply", "timeout", "release"}]
      /\ \A j \in Irps : IrpInv(j)'
  BY <1>1, TakeEntryKeeps
<1>3. list' \in Seq(Irps) /\ ListInv'
  <2>1. PICK k \in 1..Len(list) : list[k] = i /\ list' = Without(list, k)
    BY <1>1, ListedSituation DEF RemoveEntryList
  <2> QED BY <2>1, <1>2, RemovalKeepsList
<1>4. TypeOK'
  BY <1>2, <1>3 DEF IInv, TypeOK
<1>5. LockInv' /\ MountInv'
  BY DEF IInv, LockInv, Registering, MountInv
<1> QED BY <1>2, <1>3, <1>4, <1>5 DEF IInv

\* The answered IRP is completed.
LEMMA CompleteReplyStep ==
  ASSUME ~rearmed', IInv, NEW i \in Irps, CompleteReply(i)
  PROVE  IInv'
<1> USE DEF CompleteReply
<1> QED BY FinishEntryKeeps DEF Outcomes

\* It completes what it has taken.
LEMMA TimeoutCompleteStep ==
  ASSUME ~rearmed', IInv, NEW i \in Irps, TimeoutComplete(i)
  PROVE  IInv'
<1> USE DEF TimeoutComplete
<1> QED BY FinishEntryKeeps DEF Outcomes

\* The release completes what it has taken.
LEMMA ReleaseCompleteStep ==
  ASSUME ~rearmed', IInv, NEW i \in Irps, ReleaseComplete(i)
  PROVE  IInv'
<1> USE DEF ReleaseComplete
<1> QED BY FinishEntryKeeps DEF Outcomes

-----------------------------------------------------------------------------
(* The invariant.                                                          *)

\* With no request issued the invariant holds.
LEMMA InitEstablishes == Init => IInv
<1> SUFFICES ASSUME Init PROVE IInv
  OBVIOUS
<1> USE DEF Init
<1>1. TypeOK
  <2>1. missed \subseteq Irps /\ outrun \subseteq Irps
    OBVIOUS
  <2>2. 0 \in 0..TimeoutTicks /\ <<>> \in Seq(Irps)
    BY PendingIrpAssumption
  <2> QED BY <2>1, <2>2 DEF TypeOK, Phases, Outcomes
<1>2. ListInv /\ LockInv /\ MountInv
  BY DEF ListInv, InList, Distinct, Occurs, LockInv, Registering, MountInv
<1>3. ASSUME NEW i \in Irps PROVE IrpInv(i)
  BY DEF IrpInv, Situation, Private, EventInv, CancelInv
<1> QED BY <1>1, <1>2, <1>3 DEF IInv

\* The invariant is a state predicate over vars.
LEMMA StutterKeeps == ASSUME IInv, UNCHANGED vars PROVE IInv'
<1> USE DEF vars
<1>1. TypeOK' /\ ListInv' /\ LockInv' /\ MountInv'
  BY DEF IInv, TypeOK, ListInv, InList, LockInv, Registering, MountInv
<1>2. ASSUME NEW j \in Irps PROVE IrpInv(j)'
  BY UntouchedKeeps DEF IInv, Untouched
<1> QED BY <1>1, <1>2 DEF IInv

\* Every step of every party keeps the inductive invariant.
LEMMA StepKeeps == ASSUME ~rearmed', IInv, [Next]_vars PROVE IInv'
<1>1. ASSUME NEW i \in Irps, RequestThread(i) PROVE IInv'
  BY <1>1, DispatchUnmountedStep, DispatchStep, RegisterUnmountedStep,
     RegisterAllocateStep, RegisterArmStep, RegisterCancelledStep, RegisterGoOnStep,
     RegisterInsertStep, NotifyStep, ClearEventPointerStep
  DEF RequestThread
<1>2. ASSUME NEW i \in Irps, IoCancelIrp(i) \/ CancelRoutine(i) PROVE IInv'
  BY <1>2, IoCancelIrpStep, CancelReadContextStep, CancelUnlinkStep, CancelCompleteStep
  DEF CancelRoutine
<1>3. ASSUME NEW i \in Irps, Application(i) \/ CompleteReply(i) PROVE IInv'
  BY <1>3, DeliverStep, DokanEventWriteStep, DokanCompleteIrpStep, CompleteReplyStep
  DEF Application
<1>4. ASSUME Tick \/ TimeoutThread PROVE IInv'
  BY <1>4, TickStep, TimeoutSweepStep, TimeoutUnlockStep, TimeoutDoneStep,
     TimeoutTakeStep, TimeoutCompleteStep
  DEF TimeoutThread
<1>5. ASSUME EventRelease \/ ReleaseThread \/ EventStart PROVE IInv'
  BY <1>5, EventReleaseStep, ReleaseSweepStep, ReleaseUnlockStep, ReleaseStopThreadStep,
     ReleaseTakeStep, ReleaseCompleteStep, EventStartStep
  DEF ReleaseThread
<1> QED BY <1>1, <1>2, <1>3, <1>4, <1>5, StutterKeeps DEF Next

\* What has been put back stays so.
LEMMA RearmedStays == ASSUME [Next]_vars, rearmed PROVE rearmed'
BY DEF Next, RequestThread, CancelRoutine, Application, TimeoutThread, ReleaseThread,
       DispatchUnmounted, Dispatch, RegisterUnmounted, RegisterAllocate, RegisterArm,
       RegisterCancelled, RegisterGoOn, RegisterInsert, Notify, ClearEventPointer,
       IoCancelIrp, CancelReadContext, CancelUnlink, CancelComplete, Deliver,
       DokanEventWrite, DokanCompleteIrp, CompleteReply, Tick, TimeoutSweep, TimeoutTake,
       TimeoutUnlock, TimeoutComplete, TimeoutDone, EventRelease, ReleaseSweep,
       ReleaseTake, ReleaseUnlock, ReleaseComplete, ReleaseStopThread, EventStart, vars

Sound == ~rearmed => IInv

\* The inductive invariant holds in every reachable state, for any number of
\* requests, ticks, mounts and releases, whoever is cancelled and when, as long
\* as no running cancel routine has been put back.
THEOREM Invariance == Spec => []Sound
<1>1. Init => Sound
  BY InitEstablishes DEF Sound
<1>2. Sound /\ [Next]_vars => Sound'
  BY StepKeeps, RearmedStays DEF Sound
<1> QED BY <1>1, <1>2, PTL DEF Spec

-----------------------------------------------------------------------------
(* The theorems.                                                           *)

\* An entry taken off the list, completed or not, keeps the types.
LEMMA TakeEntryTypes ==
  ASSUME TypeOK, NEW i \in Irps, NEW who \in {"reply", "timeout", "release"},
         NEW clear \in BOOLEAN, TakeEntry(i, who, clear)
  PROVE  /\ mem' \in [Irps -> {"none", "live", "freed"}]
         /\ linked' \in [Irps -> BOOLEAN] /\ freeMem' \in [Irps -> BOOLEAN]
         /\ armed' \in [Irps -> BOOLEAN] /\ ctx' \in [Irps -> BOOLEAN]
         /\ taker' \in [Irps -> {"none", "reply", "timeout", "release"}]
BY DEF TakeEntry, TypeOK

\* So does what RemoveEntryList leaves of the list.
LEMMA RemoveEntryListType ==
  ASSUME TypeOK, NEW i \in Irps, RemoveEntryList(i)
  PROVE  list' \in Seq(Irps)
BY WithoutType DEF RemoveEntryList, TypeOK

\* The variables keep their types, whoever may be cancelled and when.
LEMMA StepKeepsTypes == ASSUME TypeOK, [Next]_vars PROVE TypeOK'
<1>1. ASSUME NEW i \in Irps, RequestThread(i) PROVE TypeOK'
  <2>1. CASE DispatchUnmounted(i)
    BY <2>1 DEF DispatchUnmounted, Complete, TypeOK, Phases, Outcomes
  <2>2. CASE Dispatch(i)
    BY <2>2 DEF Dispatch, TypeOK, Phases, Writes
  <2>3. CASE RegisterUnmounted(i)
    BY <2>3 DEF RegisterUnmounted, GiveUp, Complete, TypeOK, Phases, Outcomes
  <2>4. CASE RegisterAllocate(i)
    BY <2>4 DEF RegisterAllocate, TypeOK, Phases
  <2>5. CASE RegisterArm(i)
    BY <2>5 DEF RegisterArm, TypeOK, Phases
  <2>6. CASE RegisterCancelled(i)
    BY <2>6 DEF RegisterCancelled, GiveUp, Complete, TypeOK, Phases, Outcomes
  <2>7. CASE RegisterGoOn(i)
    BY <2>7 DEF RegisterGoOn, TypeOK, Phases
  <2>8. CASE RegisterInsert(i)
    <3>1. list' \in Seq(Irps)
      BY <2>8 DEF RegisterInsert, TypeOK
    <3> QED BY <2>8, <3>1 DEF RegisterInsert, TypeOK, Phases
  <2>9. CASE Notify(i)
    BY <2>9 DEF Notify, TypeOK, Phases
  <2>10. CASE ClearEventPointer(i)
    BY <2>10 DEF ClearEventPointer, TypeOK, Phases
  <2> QED BY <1>1, <2>1, <2>2, <2>3, <2>4, <2>5, <2>6, <2>7, <2>8, <2>9, <2>10
          DEF RequestThread
<1>2. ASSUME NEW i \in Irps, IoCancelIrp(i) \/ CancelRoutine(i) PROVE TypeOK'
  <2>1. CASE IoCancelIrp(i)
    BY <2>1 DEF IoCancelIrp, TypeOK
  <2>2. CASE CancelReadContext(i)
    BY <2>2 DEF CancelReadContext, TypeOK
  <2>3. CASE CancelUnlink(i)
    <3>1. list' \in Seq(Irps)
      BY <2>3, RemoveEntryListType DEF CancelUnlink
    <3> QED BY <2>3, <3>1 DEF CancelUnlink, FreedByCancel, TypeOK
  <2>4. CASE CancelComplete(i)
    BY <2>4 DEF CancelComplete, Complete, TypeOK, Outcomes
  <2> QED BY <1>2, <2>1, <2>2, <2>3, <2>4 DEF CancelRoutine
<1>3. ASSUME NEW i \in Irps, Application(i) \/ CompleteReply(i) PROVE TypeOK'
  <2>1. CASE Deliver(i)
    BY <2>1 DEF Deliver, TypeOK
  <2>2. CASE DokanEventWrite(i)
    <3>1. /\ mem' \in [Irps -> {"none", "live", "freed"}]
          /\ armed' \in [Irps -> BOOLEAN] /\ bufCtx' \in [Irps -> BOOLEAN]
          /\ linked' \in [Irps -> BOOLEAN] /\ freeMem' \in [Irps -> BOOLEAN]
      <4>1. CASE InList(i)
        <5>1. \E m \in {mem[i], "freed"} : mem' = [mem EXCEPT ![i] = m]
          BY <2>2, <4>1 DEF DokanEventWrite
        <5>2. armed' = [armed EXCEPT ![i] = entryIrp[i]] /\ entryIrp[i] \in BOOLEAN
          BY <2>2, <4>1 DEF DokanEventWrite, TypeOK
        <5>3. \E b \in BOOLEAN : bufCtx' = [bufCtx EXCEPT ![i] = b]
          BY <2>2, <4>1 DEF DokanEventWrite
        <5>4. \E b \in BOOLEAN : linked' = [linked EXCEPT ![i] = b]
          BY <2>2, <4>1 DEF DokanEventWrite
        <5>5. \E b \in BOOLEAN : freeMem' = [freeMem EXCEPT ![i] = b]
          BY <2>2, <4>1 DEF DokanEventWrite
        <5>6. mem' \in [Irps -> {"none", "live", "freed"}]
          BY <5>1 DEF TypeOK
        <5>7. armed' \in [Irps -> BOOLEAN] /\ bufCtx' \in [Irps -> BOOLEAN]
          BY <5>2, <5>3 DEF TypeOK
        <5>8. linked' \in [Irps -> BOOLEAN] /\ freeMem' \in [Irps -> BOOLEAN]
          BY <5>4, <5>5 DEF TypeOK
        <5> QED BY <5>6, <5>7, <5>8
      <4>2. CASE ~InList(i)
        BY <2>2, <4>2 DEF DokanEventWrite, TypeOK
      <4> QED BY <4>1, <4>2
    <3>2. /\ user' \in [Irps -> {"idle", "got", "fetched", "answered"}]
          /\ UNCHANGED <<missed, outrun, mountVars, list, lock, phase, cancel, ctx, routine,
                         entryIrp, age, taker, event, timeout, release, doneVars>>
          /\ rearmed' \in BOOLEAN
      BY <2>2 DEF DokanEventWrite, TypeOK
    <3> QED BY <3>1, <3>2 DEF TypeOK
  <2>3. CASE DokanCompleteIrp(i)
    <3>1. CASE InList(i)
      <4>1. RemoveEntryList(i)
        BY <2>3, <3>1 DEF DokanCompleteIrp
      <4>2. list' \in Seq(Irps)
        BY <4>1, RemoveEntryListType
      <4> QED BY <2>3, <3>1, <4>2, TakeEntryTypes DEF DokanCompleteIrp, TypeOK
    <3>2. CASE ~InList(i)
      BY <2>3, <3>2 DEF DokanCompleteIrp, TypeOK
    <3> QED BY <3>1, <3>2
  <2>4. CASE CompleteReply(i)
    BY <2>4 DEF CompleteReply, FinishEntry, Complete, TypeOK, Outcomes
  <2> QED BY <1>3, <2>1, <2>2, <2>3, <2>4 DEF Application
<1>4. ASSUME NEW i \in Irps, TimeoutTake(i) \/ ReleaseTake(i) PROVE TypeOK'
  <2>1. list' \in Seq(Irps)
    <3>1. RemoveEntryList(i)
      BY <1>4 DEF TimeoutTake, ReleaseTake
    <3> QED BY <3>1, RemoveEntryListType
  <2>2. CASE TimeoutTake(i)
    BY <2>1, <2>2, TakeEntryTypes DEF TimeoutTake, TypeOK
  <2>3. CASE ReleaseTake(i)
    BY <2>1, <2>3, TakeEntryTypes DEF ReleaseTake, TypeOK
  <2> QED BY <1>4, <2>1, <2>2, <2>3
<1>5. ASSUME NEW i \in Irps, TimeoutComplete(i) \/ ReleaseComplete(i) PROVE TypeOK'
  <2>1. CASE TimeoutComplete(i)
    BY <2>1 DEF TimeoutComplete, FinishEntry, Complete, TypeOK, Outcomes
  <2>2. CASE ReleaseComplete(i)
    BY <2>2 DEF ReleaseComplete, FinishEntry, Complete, TypeOK, Outcomes
  <2> QED BY <1>5, <2>1, <2>2
<1>6. CASE Tick
  <2>1. age' \in [Irps -> 0..TimeoutTicks]
    BY <1>6, PendingIrpAssumption DEF Tick, TypeOK
  <2> QED BY <1>6, <2>1 DEF Tick, TypeOK
<1>7. CASE TimeoutSweep
  BY <1>7 DEF TimeoutSweep, TypeOK
<1>8. CASE TimeoutUnlock
  BY <1>8 DEF TimeoutUnlock, TypeOK
<1>9. CASE TimeoutDone
  BY <1>9 DEF TimeoutDone, TypeOK
<1>10. CASE EventRelease
  <2>1. releases' \in Nat
    BY <1>10 DEF EventRelease, TypeOK
  <2> QED BY <1>10, <2>1 DEF EventRelease, TypeOK
<1>11. CASE ReleaseSweep
  BY <1>11 DEF ReleaseSweep, TypeOK
<1>12. CASE ReleaseUnlock
  BY <1>12 DEF ReleaseUnlock, TypeOK
<1>13. CASE ReleaseStopThread
  BY <1>13 DEF ReleaseStopThread, TypeOK
<1>14. CASE EventStart
  BY <1>14 DEF EventStart, TypeOK
<1>15. CASE UNCHANGED vars
  BY <1>15 DEF vars, TypeOK
<1> QED BY <1>1, <1>2, <1>3, <1>4, <1>5, <1>6, <1>7, <1>8,
          <1>9, <1>10, <1>11, <1>12, <1>13, <1>14, <1>15
        DEF Next, TimeoutThread, ReleaseThread

\* The variables keep their types: no step of any party, not even of one that
\* should not be possible, leaves a phase, a list or a counter undefined.
THEOREM TypeCorrect == Spec => []TypeOK
<1>1. Init => TypeOK
  BY InitEstablishes DEF IInv
<1> QED BY <1>1, StepKeepsTypes, PTL DEF Spec

\* Exactly one party answers for an IRP at any time (event.c, timeout.c and
\* notification.c complete or hand over every entry they unlink).
THEOREM OneHolderHolds == Spec => []OneHolder
<1>1. ASSUME IInv, NEW i \in Irps
      PROVE  \E h \in Holders(i) : Holders(i) = {h}
  <2>1. linked[i] <=> InList(i)
    BY <1>1 DEF IInv, ListInv
  <2>2. CASE Private(i)
    <3>1. Holders(i) = {"dispatch"}
      BY <1>1, <2>1, <2>2 DEF Private, Registering, Holders, Phases, IInv, TypeOK
    <3> QED BY <3>1
  <2>3. CASE Waiting(i)
    <3>1. Holders(i) = {"list"}
      BY <1>1, <2>1, <2>3 DEF Waiting, Pended, Holders, Phases, IInv, TypeOK
    <3> QED BY <3>1
  <2>4. CASE Cancelling(i) \/ Unlinked(i)
    <3>1. Holders(i) = {"cancel"}
      BY <1>1, <2>1, <2>4
      DEF Cancelling, Unlinked, Pended, Holders, Phases, IInv, TypeOK
    <3> QED BY <3>1
  <2>5. CASE Taken(i)
    <3>1. Holders(i) = {"taker"}
      BY <1>1, <2>1, <2>5 DEF Taken, Pended, Holders, Phases, IInv, TypeOK
    <3> QED BY <3>1
  <2>6. CASE Finished(i)
    <3>1. Holders(i) = {"done"}
      BY <1>1, <2>1, <2>6 DEF Finished, Pended, Holders, Phases, IInv, TypeOK
    <3> QED BY <3>1
  <2>7. CASE Overtaken(i) \/ Stranded(i)
    <3>1. ~armed[i] /\ taker[i] = "none"
          /\ phase[i] \in {"armed", "inserting", "listed", "notified", "returned"}
      BY <2>7 DEF Overtaken, Stranded, CancelledAlone, Registering, Pended
    <3>2. \/ routine[i] # "idle" /\ completions[i] = 0
          \/ routine[i] = "idle" /\ completions[i] = 1
      BY <2>7 DEF Overtaken, Stranded, CancelledAlone
    <3>3. Holders(i) = {"cancel"} \/ Holders(i) = {"done"}
      BY <3>1, <3>2 DEF Holders
    <3> QED BY <3>3
  <2> QED BY <1>1, <2>2, <2>3, <2>4, <2>5, <2>6, <2>7 DEF IInv, IrpInv, Situation
<1>2. Sound => OneHolder
  BY <1>1 DEF OneHolder, Sound
<1> QED BY <1>2, Invariance, PTL

\* An IRP is completed at most once.
THEOREM CompletedOnceHolds == Spec => []CompletedOnce
<1>1. Sound => CompletedOnce
  BY DEF Sound, IInv, IrpInv, Situation, Private, Waiting, Cancelling, Unlinked, Taken,
         Finished, Overtaken, Stranded,
         CancelledAlone, CompletedOnce
<1> QED BY <1>1, Invariance, PTL

\* An entry handed over to the cancel routine is freed by it: that routine has
\* still to take the list lock.
THEOREM HandOverHolds == Spec => []HandOver
<1>1. Sound => HandOver
  BY DEF Sound, IInv, ListInv, IrpInv, Situation, Private, Waiting, Cancelling, Unlinked, Taken,
         Finished, Overtaken, Stranded,
         CancelledAlone, HandOver, HandedOver
<1> QED BY <1>1, Invariance, PTL

\* No freed IRP_ENTRY can be reached.
THEOREM NoDanglingEntryHolds == Spec => []NoDanglingEntry
<1>1. ASSUME Sound, ~rearmed PROVE NoDanglingEntry
  <2>1. ASSUME NEW i \in Irps,
               \/ InList(i) \/ taker[i] # "none" \/ routine[i] = "locking"
               \/ routine[i] = "entered" /\ ctx[i]
        PROVE  mem[i] = "live"
    BY <1>1, <2>1 DEF Sound, IInv, ListInv, IrpInv, Situation, Private, Waiting, Cancelling,
                      Unlinked, Taken, Finished, Overtaken, Stranded, CancelledAlone
  <2>2. Distinct(list)
    BY <1>1 DEF Sound, IInv, ListInv
  <2> QED BY <2>1, <2>2 DEF NoDanglingEntry
<1>2. Sound => NoDanglingEntry
  BY <1>1 DEF NoDanglingEntry
<1> QED BY <1>2, Invariance, PTL

\* The event of a write is freed once.
THEOREM EventFreedOnceHolds == Spec => []EventFreedOnce
<1>1. Sound => EventFreedOnce
  BY DEF Sound, IInv, IrpInv, EventInv, EventFreedOnce, EventValid
<1> QED BY <1>1, Invariance, PTL

-----------------------------------------------------------------------------
(* PendingIrp implements RequestService.                                   *)

\* A step the issuer of a request cannot see.
Silent ==
  /\ outcome' = outcome /\ cancel' = cancel
  /\ releases' > 0 <=> releases > 0
  /\ \A i \in Irps : /\ phase'[i] = "idle" <=> phase[i] = "idle"
                     /\ user'[i] = "answered" <=> user[i] = "answered"

\* A silent step leaves the abstract variables as they are.
LEMMA SilentStutters == Silent => UNCHANGED Service!serviceVars
<1> SUFFICES ASSUME Silent PROVE UNCHANGED Service!serviceVars
  OBVIOUS
<1> USE DEF Silent
<1>1. [i \in Irps |-> Request(i)]' = [i \in Irps |-> Request(i)]
  BY DEF Request
<1>2. /\ {i \in Irps : cancel[i]}' = {i \in Irps : cancel[i]}
      /\ {i \in Irps : user[i] = "answered"}' = {i \in Irps : user[i] = "answered"}
      /\ (releases > 0)' = (releases > 0)
  OBVIOUS
<1> QED BY <1>1, <1>2 DEF Service!serviceVars

\* Completing an IRP finishes the request, for the reason RequestService asks.
LEMMA CompleteFinishes ==
  ASSUME IInv, NEW i \in Irps, NEW v \in Outcomes \ {"none"}, Complete(i, v),
         UNCHANGED <<cancel, user, releases>>,
         \A j \in Irps : j # i => phase'[j] = phase[j],
         completions[i] = 0,
         v \in {"rejected", "released"} => releases > 0,
         v = "replied" => user[i] = "answered",
         v = "cancelled" => cancel[i],
         v # "rejected" => phase[i] # "idle"
  PROVE  Service!Finish(i)
<1>1. outcome[i] = "none" /\ outcome \in [Irps -> Outcomes]
  BY DEF IInv, TypeOK, IrpInv, Situation, Private, Waiting, Cancelling, Unlinked, Taken,
         Finished, Overtaken, Stranded,
         CancelledAlone
<1>2. outcome' = [outcome EXCEPT ![i] = v]
  BY DEF Complete
<1>3. Request(i) \in {"new", "open"} /\ (v # "rejected" => Request(i) = "open")
  BY <1>1 DEF Request
<1>4. [j \in Irps |-> Request(j)]' = [[j \in Irps |-> Request(j)] EXCEPT ![i] = v]
  <2>1. Request(i)' = v
    BY <1>1, <1>2 DEF Request
  <2>2. ASSUME NEW j \in Irps, j # i PROVE Request(j)' = Request(j)
    BY <1>1, <1>2, <2>2 DEF Request
  <2> QED BY <2>1, <2>2
<1>5. v \in Service!Verdicts /\ Service!Reason(i, v)
  BY <1>3 DEF Outcomes, Service!Verdicts, Service!Reason
<1>6. /\ {j \in Irps : cancel[j]}' = {j \in Irps : cancel[j]}
      /\ {j \in Irps : user[j] = "answered"}' = {j \in Irps : user[j] = "answered"}
      /\ (releases > 0)' = (releases > 0)
  OBVIOUS
<1> QED BY <1>3, <1>4, <1>5, <1>6 DEF Service!Finish

\* A dispatch routine that starts is a submission.
LEMMA DispatchSubmits ==
  ASSUME IInv, NEW i \in Irps, Dispatch(i)
  PROVE  Service!Submit(i)
<1>1. /\ phase' = [phase EXCEPT ![i] = "entered"] /\ phase[i] = "idle"
      /\ UNCHANGED <<outcome, cancel, user, releases>>
  BY DEF Dispatch
<1>2. outcome[i] = "none" /\ phase \in [Irps -> Phases]
  BY <1>1 DEF IInv, TypeOK, IrpInv, Situation, Private, Waiting, Cancelling, Unlinked,
              Taken, Finished, Overtaken, Stranded, CancelledAlone, Pended, Registering
<1>3. [j \in Irps |-> Request(j)]' = [[j \in Irps |-> Request(j)] EXCEPT ![i] = "open"]
  <2>1. Request(i)' = "open" /\ Request(i) = "new"
    BY <1>1, <1>2 DEF Request
  <2>2. ASSUME NEW j \in Irps, j # i PROVE Request(j)' = Request(j)
    BY <1>1, <1>2, <2>2 DEF Request
  <2> QED BY <2>1, <2>2
<1>4. Request(i) = "new"
  BY <1>1, <1>2 DEF Request
<1>5. /\ {j \in Irps : cancel[j]}' = {j \in Irps : cancel[j]}
      /\ {j \in Irps : user[j] = "answered"}' = {j \in Irps : user[j] = "answered"}
      /\ (releases > 0)' = (releases > 0)
  BY <1>1
<1> QED BY <1>3, <1>4, <1>5 DEF Service!Submit

\* A cancellation is asked for.
LEMMA IoCancelAsks ==
  ASSUME IInv, NEW i \in Irps, IoCancelIrp(i)
  PROVE  Service!AskCancel(i)
<1>1. /\ cancel' = [cancel EXCEPT ![i] = TRUE] /\ completions[i] = 0
      /\ UNCHANGED <<phase, outcome, user, releases>>
  BY DEF IoCancelIrp, doneVars, mountVars
<1>2. outcome[i] = "none" /\ cancel \in [Irps -> BOOLEAN]
  <2>1. Situation(i) /\ completions[i] = 0 /\ cancel \in [Irps -> BOOLEAN]
    BY <1>1 DEF IInv, TypeOK, IrpInv
  <2> QED BY <2>1 DEF Situation, Private, Waiting, Cancelling, Unlinked, Taken, Finished,
                      Overtaken, Stranded, CancelledAlone
<1>3. Request(i) \in {"new", "open"}
  BY <1>2 DEF Request
<1>4. {j \in Irps : cancel[j]}' = {j \in Irps : cancel[j]} \cup {i}
  BY <1>1, <1>2
<1>5. /\ [j \in Irps |-> Request(j)]' = [j \in Irps |-> Request(j)]
      /\ {j \in Irps : user[j] = "answered"}' = {j \in Irps : user[j] = "answered"}
      /\ (releases > 0)' = (releases > 0)
  BY <1>1 DEF Request
<1> QED BY <1>3, <1>4, <1>5 DEF Service!AskCancel

\* The answer of the application is an answer, in time or late.
LEMMA CompleteIrpAnswers ==
  ASSUME IInv, NEW i \in Irps, DokanCompleteIrp(i)
  PROVE  Service!Answer(i)
<1>1. /\ user' = [user EXCEPT ![i] = "answered"] /\ user[i] # "idle"
      /\ UNCHANGED <<phase, outcome, cancel, releases>>
  BY DEF DokanCompleteIrp, doneVars, mountVars
<1>2. /\ event[i] \in {"freed", "doubleFreed"}
      /\ user \in [Irps -> {"idle", "got", "fetched", "answered"}]
  BY <1>1 DEF IInv, TypeOK, IrpInv, EventInv
<1>3. Request(i) # "new"
  BY <1>2 DEF Request, IInv, TypeOK, Outcomes, IrpInv, Situation, Private, Waiting,
              Cancelling, Unlinked, Taken, Finished, Overtaken, Stranded, CancelledAlone,
              Pended, Registering
<1>4. {j \in Irps : user[j] = "answered"}' = {j \in Irps : user[j] = "answered"} \cup {i}
  BY <1>1, <1>2
<1>5. /\ [j \in Irps |-> Request(j)]' = [j \in Irps |-> Request(j)]
      /\ {j \in Irps : cancel[j]}' = {j \in Irps : cancel[j]}
      /\ (releases > 0)' = (releases > 0)
  BY <1>1 DEF Request
<1> QED BY <1>3, <1>4, <1>5 DEF Service!Answer

\* DokanEventRelease is the unmount.
LEMMA ReleaseUnmounts == ASSUME IInv, EventRelease PROVE Service!Unmount
<1>1. releases' > 0 /\ UNCHANGED <<phase, outcome, cancel, user>>
  BY DEF EventRelease, IInv, TypeOK, irpVars, doneVars
<1>2. /\ [j \in Irps |-> Request(j)]' = [j \in Irps |-> Request(j)]
      /\ {j \in Irps : cancel[j]}' = {j \in Irps : cancel[j]}
      /\ {j \in Irps : user[j] = "answered"}' = {j \in Irps : user[j] = "answered"}
  BY <1>1 DEF Request
<1> QED BY <1>1, <1>2 DEF Service!Unmount

\* Every step of the driver is a step of RequestService or invisible.
LEMMA StepRefines ==
  ASSUME ~rearmed', IInv, [Next]_vars
  PROVE  [Service!Next]_Service!serviceVars
<1> USE DEF mountVars, entryVars, irpVars, doneVars, history
<1>0. ASSUME NEW i \in Irps PROVE IrpInv(i)
  BY DEF IInv
<1>1. ASSUME NEW i \in Irps, RequestThread(i)
      PROVE  Silent \/ Service!Submit(i) \/ Service!Finish(i)
  <2>1. CASE DispatchUnmounted(i) \/ RegisterUnmounted(i)
    <3>1. Complete(i, "rejected") /\ releases > 0 /\ completions[i] = 0
      BY <2>1, <1>0 DEF DispatchUnmounted, RegisterUnmounted, GiveUp, IInv, MountInv,
           IrpInv, Situation, Private, Waiting, Cancelling, Unlinked, Taken, Finished,
           Overtaken, Stranded, CancelledAlone, Pended, Registering
    <3>2. /\ UNCHANGED <<cancel, user, releases>>
          /\ \A j \in Irps : j # i => phase'[j] = phase[j]
      BY <2>1 DEF DispatchUnmounted, RegisterUnmounted, GiveUp, IInv, TypeOK
    <3> QED BY <3>1, <3>2, CompleteFinishes DEF Outcomes
  <2>2. CASE Dispatch(i)
    BY <2>2, DispatchSubmits
  <2>3. CASE RegisterCancelled(i)
    <3>1. completions[i] = 0 /\ cancel[i] /\ phase[i] = "armed"
      BY <2>3, <1>0 DEF RegisterCancelled, IrpInv, Situation, Private, Waiting, Cancelling,
                        Unlinked, Taken, Finished, Overtaken, Stranded, CancelledAlone, Pended
    <3>2. /\ Complete(i, "cancelled") /\ UNCHANGED <<cancel, user, releases>>
          /\ \A j \in Irps : j # i => phase'[j] = phase[j]
      BY <2>3 DEF RegisterCancelled, GiveUp, IInv, TypeOK
    <3> QED BY <3>1, <3>2, CompleteFinishes DEF Outcomes
  <2>4. CASE RegisterAllocate(i) \/ RegisterArm(i) \/ RegisterGoOn(i)
             \/ RegisterInsert(i) \/ Notify(i) \/ ClearEventPointer(i)
    BY <2>4 DEF RegisterAllocate, RegisterArm, RegisterGoOn, RegisterInsert, Notify,
                ClearEventPointer, Silent, IInv, TypeOK
  <2> QED BY <1>1, <2>1, <2>2, <2>3, <2>4 DEF RequestThread
<1>2. ASSUME NEW i \in Irps, CancelRoutine(i)
      PROVE  Silent \/ Service!Finish(i)
  <2>1. CASE CancelComplete(i)
    <3>1. completions[i] = 0 /\ cancel[i] /\ phase[i] # "idle"
      BY <2>1, <1>0 DEF CancelComplete, IrpInv, Situation, Private, Waiting, Cancelling,
                        Unlinked, Taken, Finished, Overtaken, Stranded, CancelledAlone,
                        Pended, Registering
    <3>2. Complete(i, "cancelled") /\ UNCHANGED <<phase, cancel, user, releases>>
      BY <2>1 DEF CancelComplete
    <3> QED BY <3>1, <3>2, CompleteFinishes DEF Outcomes
  <2>2. CASE CancelReadContext(i) \/ CancelUnlink(i)
    BY <2>2 DEF CancelReadContext, CancelUnlink, Silent
  <2> QED BY <1>2, <2>1, <2>2 DEF CancelRoutine
<1>3. ASSUME NEW i \in Irps, CompleteReply(i) \/ TimeoutComplete(i) \/ ReleaseComplete(i)
      PROVE  Service!Finish(i)
  <2>1. Taken(i)
    BY <1>0, <1>3 DEF CompleteReply, TimeoutComplete, ReleaseComplete, IrpInv, Situation,
         Private, Waiting, Cancelling, Unlinked, Finished, Overtaken, Stranded, CancelledAlone
  <2>2. PICK v \in {"replied", "timedOut", "released"} :
          /\ Complete(i, v) /\ UNCHANGED <<phase, cancel, user, releases>>
          /\ v = "replied" => taker[i] = "reply"
          /\ v = "released" => taker[i] = "release"
    BY <1>3 DEF CompleteReply, TimeoutComplete, ReleaseComplete, FinishEntry
  <2> QED BY <2>1, <2>2, CompleteFinishes DEF Taken, Pended, Outcomes
<1>4. ASSUME NEW i \in Irps, Application(i)
      PROVE  Silent \/ Service!Answer(i)
  <2>1. CASE Deliver(i) \/ DokanEventWrite(i)
    <3>1. user[i] # "answered"
      BY <2>1, <1>0 DEF Deliver, DokanEventWrite, IrpInv, EventInv
    <3> QED BY <2>1, <3>1 DEF Deliver, DokanEventWrite, Silent, IInv, TypeOK
  <2> QED BY <1>4, <2>1, CompleteIrpAnswers DEF Application
<1>5. ASSUME NEW i \in Irps, TimeoutTake(i) \/ ReleaseTake(i)
      PROVE  Silent
  BY <1>5 DEF TimeoutTake, ReleaseTake, Silent
<1>6. ASSUME \/ Tick \/ TimeoutSweep \/ TimeoutUnlock \/ TimeoutDone
             \/ ReleaseSweep \/ ReleaseUnlock \/ ReleaseStopThread \/ EventStart
      PROVE  Silent
  BY <1>6 DEF Tick, TimeoutSweep, TimeoutUnlock, TimeoutDone, ReleaseSweep, ReleaseUnlock,
              ReleaseStopThread, EventStart, Silent
<1>7. CASE Next
  BY <1>1, <1>2, <1>3, <1>4, <1>5, <1>6, <1>7, SilentStutters, IoCancelAsks, ReleaseUnmounts
  DEF Next, TimeoutThread, ReleaseThread, Service!Next
<1>8. CASE UNCHANGED vars
  BY <1>8, SilentStutters DEF vars, Silent
<1> QED BY <1>7, <1>8

\* The issuer of a request sees only what RequestService allows: one verdict,
\* for its own reason.
THEOREM Refinement == Spec => RefinesService
<1>1. Init => Service!Init
  <2> SUFFICES ASSUME Init PROVE Service!Init
    OBVIOUS
  <2>1. [i \in Irps |-> Request(i)] = [i \in Irps |-> "new"]
    BY DEF Init, Request
  <2>2. /\ {i \in Irps : cancel[i]} = {} /\ {i \in Irps : user[i] = "answered"} = {}
        /\ (releases > 0) = FALSE
    BY DEF Init
  <2> QED BY <2>1, <2>2 DEF Service!Init
<1>2. Sound /\ [Next]_vars => [rearmed' \/ Service!Next]_Service!serviceVars
  BY StepRefines, RearmedStays DEF Sound
<1> QED BY <1>1, <1>2, Invariance, PTL DEF Spec, RefinesService
=============================================================================
