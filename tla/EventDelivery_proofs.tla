------------------------- MODULE EventDelivery_proofs -------------------------
(***************************************************************************)
(* Proofs about EventDelivery, for any number of events, loop threads and  *)
(* mounts.                                                                 *)
(*                                                                         *)
(* The inductive invariant says where the IOCTL_EVENT_WAIT of a loop       *)
(* thread is (nowhere, or in one of four hands), and ties each event to    *)
(* the list or to the one thread whose buffer it is in.                    *)
(***************************************************************************)
EXTENDS EventDelivery, FiniteSetTheorems, TLAPS

-----------------------------------------------------------------------------
(* The primitives of a list without repetitions: which entries are on it   *)
(* afterwards, and that none is on it twice.                               *)

\* Without takes one element out of a sequence and keeps the order of the rest.
LEMMA WithoutType ==
  ASSUME NEW S, NEW s \in Seq(S), NEW k \in 1..Len(s)
  PROVE  /\ Without(s, k) \in Seq(S)
         /\ Len(Without(s, k)) = Len(s) - 1
         /\ \A j \in 1..(Len(s) - 1) :
              Without(s, k)[j] = IF j < k THEN s[j] ELSE s[j + 1]
<1> DEFINE n == Len(s) - 1
<1>1. Len(s) \in Nat /\ n \in Nat /\ s \in [1..Len(s) -> S]
  OBVIOUS
<1>2. Without(s, k) \in [1..n -> S]
  <2>1. \A j \in 1..n : j \in 1..Len(s) /\ j + 1 \in 1..Len(s)
    BY <1>1
  <2>2. \A j \in 1..n : (IF j < k THEN s[j] ELSE s[j + 1]) \in S
    BY <1>1, <2>1
  <2> QED BY <2>2 DEF Without
<1>3. Without(s, k) \in Seq(S)
  BY <1>1, <1>2
<1>4. Len(Without(s, k)) = n
  BY <1>1 DEF Without
<1> QED BY <1>1, <1>3, <1>4 DEF Without

\* told to: unlinking an entry loses no other.
LEMMA WithoutRemoves ==
  ASSUME NEW S, NEW s \in Seq(S), NEW k \in 1..Len(s), Distinct(s)
  PROVE  /\ Distinct(Without(s, k))
         /\ \A x : Occurs(x, Without(s, k)) <=> Occurs(x, s) /\ x # s[k]
<1> DEFINE t == Without(s, k)
           n == Len(s)
<1>1. /\ n \in Nat /\ Len(t) = n - 1 /\ t \in Seq(S)
      /\ \A j \in 1..(n - 1) : t[j] = IF j < k THEN s[j] ELSE s[j + 1]
  BY WithoutType
<1> HIDE DEF t
<1>2. Distinct(t)
  <2> SUFFICES ASSUME NEW i \in 1..Len(t), NEW j \in 1..Len(t), t[i] = t[j]
               PROVE  i = j
    BY DEF Distinct
  <2> DEFINE f(m) == IF m < k THEN m ELSE m + 1
  <2>1. f(i) \in 1..n /\ f(j) \in 1..n /\ t[i] = s[f(i)] /\ t[j] = s[f(j)]
    BY <1>1
  <2>2. f(i) = f(j)
    BY <2>1 DEF Distinct
  <2> QED BY <2>2, <1>1
<1>3. ASSUME NEW x, Occurs(x, t) PROVE Occurs(x, s) /\ x # s[k]
  <2>1. PICK j \in 1..Len(t) : t[j] = x
    BY <1>3 DEF Occurs
  <2>2. CASE j < k
    BY <2>1, <2>2, <1>1 DEF Occurs, Distinct
  <2>3. CASE ~(j < k)
    <3>1. j + 1 \in 1..n /\ s[j + 1] = x /\ j + 1 # k
      BY <2>1, <2>3, <1>1
    <3> QED BY <3>1 DEF Occurs, Distinct
  <2> QED BY <2>2, <2>3
<1>4. ASSUME NEW x, Occurs(x, s), x # s[k] PROVE Occurs(x, t)
  <2>1. PICK j \in 1..n : s[j] = x
    BY <1>4 DEF Occurs
  <2>2. CASE j < k
    <3>1. j \in 1..Len(t) /\ t[j] = x
      BY <2>1, <2>2, <1>1
    <3> QED BY <3>1 DEF Occurs
  <2>3. CASE j > k
    <3>1. j - 1 \in 1..Len(t) /\ t[j - 1] = s[(j - 1) + 1]
      BY <2>3, <1>1
    <3> QED BY <3>1, <2>1 DEF Occurs
  <2> QED BY <2>1, <2>2, <2>3, <1>4
<1> QED BY <1>2, <1>3, <1>4 DEF t

\* InsertTailList adds the one element, at the end.
LEMMA AppendAdds ==
  ASSUME NEW S, NEW s \in Seq(S), NEW e \in S, Distinct(s), ~Occurs(e, s)
  PROVE  /\ Append(s, e) \in Seq(S)
         /\ Distinct(Append(s, e))
         /\ \A x : Occurs(x, Append(s, e)) <=> Occurs(x, s) \/ x = e
<1> DEFINE t == Append(s, e)
           n == Len(s)
<1>1. /\ n \in Nat /\ Len(t) = n + 1 /\ t \in Seq(S) /\ t[n + 1] = e
      /\ \A j \in 1..n : t[j] = s[j]
  OBVIOUS
<1> HIDE DEF t
<1>2. Distinct(t)
  BY <1>1 DEF Distinct, Occurs
<1>3. ASSUME NEW x, Occurs(x, t) PROVE Occurs(x, s) \/ x = e
  <2>1. PICK j \in 1..n + 1 : t[j] = x
    BY <1>3, <1>1 DEF Occurs
  <2> QED BY <2>1, <1>1 DEF Occurs
<1>4. ASSUME NEW x, Occurs(x, s) \/ x = e PROVE Occurs(x, t)
  <2>1. CASE x = e
    BY <2>1, <1>1 DEF Occurs
  <2>2. CASE Occurs(x, s)
    <3>1. PICK j \in 1..n : s[j] = x
      BY <2>2 DEF Occurs
    <3>2. j \in 1..Len(t) /\ t[j] = x
      BY <3>1, <1>1
    <3> QED BY <3>2 DEF Occurs
  <2> QED BY <2>1, <2>2, <1>4
<1> QED BY <1>1, <1>2, <1>3, <1>4 DEF t

\* RemoveHeadList takes off the first entry and no other.
LEMMA TailRemoves ==
  ASSUME NEW S, NEW s \in Seq(S), s # <<>>, Distinct(s)
  PROVE  /\ Head(s) \in S /\ Occurs(Head(s), s)
         /\ Tail(s) \in Seq(S) /\ Distinct(Tail(s))
         /\ \A x : Occurs(x, Tail(s)) <=> Occurs(x, s) /\ x # Head(s)
<1>1. /\ Len(s) \in Nat \ {0} /\ Head(s) = s[1] /\ s[1] \in S
      /\ Tail(s) \in Seq(S) /\ Len(Tail(s)) = Len(s) - 1
      /\ \A j \in 1..(Len(s) - 1) : Tail(s)[j] = s[j + 1]
  OBVIOUS
<1>2. Distinct(Tail(s))
  BY <1>1 DEF Distinct
<1>3. ASSUME NEW x, Occurs(x, Tail(s)) PROVE Occurs(x, s) /\ x # Head(s)
  <2>1. PICK j \in 1..(Len(s) - 1) : Tail(s)[j] = x
    BY <1>1, <1>3 DEF Occurs
  <2>2. j + 1 \in 1..Len(s) /\ 1 \in 1..Len(s) /\ s[j + 1] = x /\ j + 1 # 1
    BY <1>1, <2>1
  <2> QED BY <1>1, <2>2 DEF Occurs, Distinct
<1>4. ASSUME NEW x, Occurs(x, s), x # Head(s) PROVE Occurs(x, Tail(s))
  <2>1. PICK k \in 1..Len(s) : s[k] = x
    BY <1>4 DEF Occurs
  <2>2. k - 1 \in 1..Len(Tail(s)) /\ Tail(s)[k - 1] = s[(k - 1) + 1]
    BY <1>1, <1>4, <2>1
  <2> QED BY <2>1, <2>2 DEF Occurs
<1> QED BY <1>1, <1>2, <1>3, <1>4 DEF Occurs

\* RemoveEntryList takes off the entry it is given, if it is there, and no other.
LEMMA MinusRemoves ==
  ASSUME NEW S, NEW s \in Seq(S), NEW e, Distinct(s)
  PROVE  /\ Minus(s, e) \in Seq(S) /\ Distinct(Minus(s, e))
         /\ \A x : Occurs(x, Minus(s, e)) <=> Occurs(x, s) /\ x # e
<1>1. CASE Occurs(e, s)
  <2> DEFINE k == CHOOSE j \in 1..Len(s) : s[j] = e
  <2>1. k \in 1..Len(s) /\ s[k] = e
    BY <1>1 DEF Occurs
  <2>2. Minus(s, e) = Without(s, k)
    BY <1>1 DEF Minus
  <2> HIDE DEF k
  <2> QED BY <2>1, <2>2, WithoutType, WithoutRemoves
<1>2. CASE ~Occurs(e, s)
  BY <1>2 DEF Minus
<1> QED BY <1>1, <1>2

\* A list is empty when no entry is on it.
LEMMA EmptyList ==
  ASSUME NEW S, NEW s \in Seq(S)
  PROVE  s = <<>> <=> \A x : ~Occurs(x, s)
<1>1. Len(s) \in Nat /\ (s = <<>> <=> Len(s) = 0)
  OBVIOUS
<1>2. ASSUME s # <<>> PROVE Occurs(s[1], s)
  BY <1>1, <1>2 DEF Occurs
<1> QED BY <1>1, <1>2 DEF Occurs

-----------------------------------------------------------------------------
(* The inductive invariant.                                                *)

\* Nobody answers for the wait of t.
Nowhere(t) ==
  /\ t \notin armed /\ t \notin canceled /\ t \notin released
  /\ ~Occurs(t, pending) /\ ~Occurs(t, completing)

\* The four hands a wait can be in.
Listed(t) ==
  /\ t \in armed /\ Occurs(t, pending)
  /\ t \notin canceled /\ t \notin released /\ ~Occurs(t, completing)
  /\ got[t] = NoEvent /\ t \notin failed
Paired(t) ==
  /\ Occurs(t, completing)
  /\ t \notin armed /\ t \notin canceled /\ t \notin released /\ ~Occurs(t, pending)
Freed(t) ==
  /\ t \in released
  /\ t \notin armed /\ t \notin canceled /\ ~Occurs(t, pending) /\ ~Occurs(t, completing)
  /\ got[t] = NoEvent /\ t \notin failed
Cancelling(t) ==
  /\ t \in canceled
  /\ t \notin armed /\ t \notin released /\ ~Occurs(t, completing)
  /\ got[t] = NoEvent /\ t \notin failed

\* A thread that waits is in one hand, any other in none.
WaitInv ==
  \A t \in Loops :
    IF loop[t] = "waiting"
    THEN Listed(t) \/ Paired(t) \/ Freed(t) \/ Cancelling(t)
    ELSE Nowhere(t)

\* What a thread has in its buffer.
BufferInv ==
  \A t \in Loops :
    /\ got[t] # NoEvent =>
         /\ t \notin failed
         /\ \/ loop[t] \in {"waiting", "woken"} /\ fate[got[t]] = "copied"
            \/ loop[t] = "busy" /\ fate[got[t]] = "dispatched"
    /\ t \in failed => loop[t] \in {"waiting", "woken", "ended"}
    /\ loop[t] = "busy" => got[t] # NoEvent

\* An event is on the list, or in one buffer.
EventInv ==
  /\ \A e \in Events : fate[e] = "queued" <=> Occurs(e, notify)
  /\ \A e \in Events : fate[e] = "copied" => \E t \in Loops : got[t] = e
  /\ \A t, u \in Loops : got[t] = got[u] /\ got[t] # NoEvent => t = u

\* The threads of an instance are born with its mount.
BirthInv == \A t \in Loops : loop[t] = "unborn" <=> Instance(t) > mountId

\* The notification thread lives as long as the mount and its release.
WorkerInv ==
  /\ mounted => release = "idle" /\ worker # "none" /\ ~releaseSet
  /\ ~mounted /\ release = "idle" => worker = "none"
  /\ completing # <<>> => worker \in {"pairing", "completing"}
  /\ release # "completing" => released = {}

\* Somebody has seen to it, or will, that the notification thread is woken.
WakeInv == notify # <<>> /\ pending # <<>> => notifySet \/ pendingSet \/ posting # {}

IInv ==
  TypeOK /\ WaitInv /\ BufferInv /\ EventInv /\ BirthInv /\ WorkerInv /\ WakeInv
-----------------------------------------------------------------------------
(* The steps.                                                              *)

\* A new event is in nobody's buffer and on no list.
LEMMA AllocateEventContextStep ==
  ASSUME IInv, NEW e \in Events, AllocateEventContext(e)
  PROVE  IInv'
<1> USE EventDeliveryAssumption DEF mountVars, queueVars, waitVars, workerVars, loopVars, eventVars
<1>1. TypeOK'
  BY DEF AllocateEventContext, IInv, TypeOK, Locked, Instance
<1>2. WaitInv'
  BY DEF AllocateEventContext, IInv, WaitInv, Nowhere, Listed, Paired, Freed, Cancelling
<1>3. BufferInv'
  BY DEF AllocateEventContext, IInv, BufferInv
<1>4. EventInv'
  BY DEF AllocateEventContext, IInv, EventInv
<1>5. BirthInv'
  BY DEF AllocateEventContext, IInv, BirthInv
<1>6. WorkerInv'
  BY DEF AllocateEventContext, IInv, WorkerInv
<1>7. WakeInv'
  BY DEF AllocateEventContext, IInv, WakeInv
<1> QED BY <1>1, <1>2, <1>3, <1>4, <1>5, <1>6, <1>7 DEF IInv

\* An event is queued once, and its sender goes on to set NotEmpty.
LEMMA InsertEventStep ==
  ASSUME IInv, NEW e \in Events, InsertEvent(e)
  PROVE  IInv'
<1> USE EventDeliveryAssumption DEF mountVars, queueVars, waitVars, workerVars, loopVars, eventVars
<1>1. /\ notify' \in Seq(Events) /\ Distinct(notify') /\ notify' # <<>>
      /\ \A x : Occurs(x, notify') <=> Occurs(x, notify) \/ x = e
  <2>1. notify \in Seq(Events) /\ Distinct(notify) /\ ~Occurs(e, notify)
    BY DEF InsertEvent, IInv, TypeOK, EventInv
  <2>2. notify' = Append(notify, e)
    BY DEF InsertEvent
  <2>3. notify' # <<>>
    BY <2>1, <2>2
  <2> QED BY <2>1, <2>2, <2>3, AppendAdds
<1>2. TypeOK'
  BY <1>1 DEF InsertEvent, IInv, TypeOK, Locked, Instance
<1>3. WaitInv'
  BY <1>1 DEF InsertEvent, IInv, WaitInv, Nowhere, Listed, Paired, Freed, Cancelling
<1>4. BufferInv'
  <2>1. \A d \in Events : fate[d] \in {"copied", "dispatched"} => fate'[d] = fate[d]
    BY DEF InsertEvent, IInv, TypeOK
  <2> QED BY <2>1 DEF InsertEvent, IInv, TypeOK, BufferInv
<1>5. EventInv'
  <2>1. fate' = [fate EXCEPT ![e] = "queued"] /\ got' = got
    BY DEF InsertEvent
  <2> QED BY <1>1, <2>1 DEF IInv, TypeOK, EventInv
<1>6. BirthInv'
  BY <1>1 DEF InsertEvent, IInv, BirthInv
<1>7. WorkerInv'
  BY <1>1 DEF InsertEvent, IInv, WorkerInv
<1>8. WakeInv'
  BY <1>1 DEF InsertEvent, WakeInv
<1> QED BY <1>2, <1>3, <1>4, <1>5, <1>6, <1>7, <1>8 DEF IInv

\* NotEmpty is set for the events that were queued.
LEMMA SetNotEmptyStep ==
  ASSUME IInv, NEW e \in Events, SetNotEmpty(e)
  PROVE  IInv'
<1> USE EventDeliveryAssumption DEF mountVars, queueVars, waitVars, workerVars, loopVars, eventVars
<1>1. TypeOK'
  BY DEF SetNotEmpty, IInv, TypeOK, Locked, Instance
<1>2. WaitInv'
  BY DEF SetNotEmpty, IInv, WaitInv, Nowhere, Listed, Paired, Freed, Cancelling
<1>3. BufferInv'
  BY DEF SetNotEmpty, IInv, BufferInv
<1>4. EventInv'
  BY DEF SetNotEmpty, IInv, EventInv
<1>5. BirthInv'
  BY DEF SetNotEmpty, IInv, BirthInv
<1>6. WorkerInv'
  BY DEF SetNotEmpty, IInv, WorkerInv
<1>7. WakeInv'
  BY DEF SetNotEmpty, WakeInv
<1> QED BY <1>1, <1>2, <1>3, <1>4, <1>5, <1>6, <1>7 DEF IInv

\* A refused wait ends the thread, which held nothing.
LEMMA AskWaitStep ==
  ASSUME IInv, NEW t \in Loops, AskWait(t)
  PROVE  IInv'
<1> USE EventDeliveryAssumption DEF mountVars, queueVars, waitVars, workerVars, loopVars, eventVars
<1>1. TypeOK'
  BY DEF AskWait, IInv, TypeOK, Locked, Instance
<1>2. WaitInv'
  BY DEF AskWait, IInv, WaitInv, Nowhere, Listed, Paired, Freed, Cancelling
<1>3. BufferInv'
  BY DEF AskWait, IInv, BufferInv
<1>4. EventInv'
  BY DEF AskWait, IInv, EventInv
<1>5. BirthInv'
  BY DEF AskWait, IInv, BirthInv
<1>6. WorkerInv'
  BY DEF AskWait, IInv, WorkerInv
<1>7. WakeInv'
  BY DEF AskWait, IInv, WakeInv
<1> QED BY <1>1, <1>2, <1>3, <1>4, <1>5, <1>6, <1>7 DEF IInv

\* A wait is listed once.
LEMMA RegisterWaitStep ==
  ASSUME IInv, NEW t \in Loops, RegisterWait(t)
  PROVE  IInv'
<1> USE EventDeliveryAssumption DEF mountVars, queueVars, waitVars, workerVars, loopVars, eventVars
<1>1. /\ pending' \in Seq(Loops) /\ Distinct(pending')
      /\ \A x : Occurs(x, pending') <=> Occurs(x, pending) \/ x = t
  BY AppendAdds DEF RegisterWait, IInv, TypeOK, WaitInv, Nowhere
<1>2. TypeOK'
  BY <1>1 DEF RegisterWait, IInv, TypeOK, Locked, Instance
<1>3. WaitInv'
  <2>1. /\ armed' = armed \cup {t} /\ loop' = [loop EXCEPT ![t] = "waiting"]
        /\ loop[t] = "registering" /\ canceled' = canceled /\ released' = released
        /\ completing' = completing /\ got' = got /\ failed' = failed
    BY DEF RegisterWait
  <2> QED BY <1>1, <2>1 DEF IInv, TypeOK, WaitInv, BufferInv, Nowhere, Listed, Paired,
       Freed, Cancelling
<1>4. BufferInv'
  BY <1>1 DEF RegisterWait, IInv, BufferInv
<1>5. EventInv'
  BY <1>1 DEF RegisterWait, IInv, EventInv
<1>6. BirthInv'
  BY <1>1 DEF RegisterWait, IInv, BirthInv
<1>7. WorkerInv'
  BY <1>1 DEF RegisterWait, IInv, WorkerInv
<1>8. WakeInv'
  BY <1>1 DEF RegisterWait, WakeInv
<1> QED BY <1>2, <1>3, <1>4, <1>5, <1>6, <1>7, <1>8 DEF IInv

\* The event in the buffer is dispatched or dropped, and by no other thread.
LEMMA LoopGotStep ==
  ASSUME IInv, NEW t \in Loops, LoopGot(t)
  PROVE  IInv'
<1> USE EventDeliveryAssumption DEF mountVars, queueVars, waitVars, workerVars, loopVars, eventVars
<1>1. TypeOK'
  BY DEF LoopGot, IInv, TypeOK, Locked, Instance
<1>2. WaitInv'
  BY DEF LoopGot, IInv, TypeOK, WaitInv, Nowhere, Listed, Paired, Freed, Cancelling
<1>3. BufferInv'
  BY DEF LoopGot, IInv, TypeOK, BufferInv, EventInv
<1>4. EventInv'
  <2>1. got[t] \in Events /\ fate[got[t]] = "copied"
    BY DEF LoopGot, IInv, TypeOK, BufferInv
  <2>2. CASE eventMount[got[t]] = Instance(t)
    <3>1. fate' = [fate EXCEPT ![got[t]] = "dispatched"] /\ got' = got /\ notify' = notify
      BY <2>2 DEF LoopGot
    <3> QED BY <2>1, <3>1 DEF IInv, TypeOK, EventInv
  <2>3. CASE eventMount[got[t]] # Instance(t)
    <3>1. /\ fate' = [fate EXCEPT ![got[t]] = "dropped"]
          /\ got' = [got EXCEPT ![t] = NoEvent] /\ notify' = notify
      BY <2>3 DEF LoopGot
    <3> QED BY <2>1, <3>1 DEF IInv, TypeOK, EventInv
  <2> QED BY <2>2, <2>3
<1>5. BirthInv'
  BY DEF LoopGot, IInv, TypeOK, BirthInv
<1>6. WorkerInv'
  BY DEF LoopGot, IInv, WorkerInv
<1>7. WakeInv'
  BY DEF LoopGot, IInv, WakeInv
<1> QED BY <1>1, <1>2, <1>3, <1>4, <1>5, <1>6, <1>7 DEF IInv

\* A wait that was released is asked again.
LEMMA LoopGotNothingStep ==
  ASSUME IInv, NEW t \in Loops, LoopGotNothing(t)
  PROVE  IInv'
<1> USE EventDeliveryAssumption DEF mountVars, queueVars, waitVars, workerVars, loopVars, eventVars
<1>1. TypeOK'
  BY DEF LoopGotNothing, IInv, TypeOK, Locked, Instance
<1>2. WaitInv'
  BY DEF LoopGotNothing, IInv, WaitInv, Nowhere, Listed, Paired, Freed, Cancelling
<1>3. BufferInv'
  BY DEF LoopGotNothing, IInv, BufferInv
<1>4. EventInv'
  BY DEF LoopGotNothing, IInv, EventInv
<1>5. BirthInv'
  BY DEF LoopGotNothing, IInv, BirthInv
<1>6. WorkerInv'
  BY DEF LoopGotNothing, IInv, WorkerInv
<1>7. WakeInv'
  BY DEF LoopGotNothing, IInv, WakeInv
<1> QED BY <1>1, <1>2, <1>3, <1>4, <1>5, <1>6, <1>7 DEF IInv

\* The buffer is free again.
LEMMA LoopDispatchedStep ==
  ASSUME IInv, NEW t \in Loops, LoopDispatched(t)
  PROVE  IInv'
<1> USE EventDeliveryAssumption DEF mountVars, queueVars, waitVars, workerVars, loopVars, eventVars
<1>1. TypeOK'
  BY DEF LoopDispatched, IInv, TypeOK, Locked, Instance
<1>2. WaitInv'
  BY DEF LoopDispatched, IInv, WaitInv, Nowhere, Listed, Paired, Freed, Cancelling
<1>3. BufferInv'
  BY DEF LoopDispatched, IInv, TypeOK, BufferInv
<1>4. EventInv'
  <2>1. got[t] \in Events /\ fate[got[t]] = "dispatched"
    BY DEF LoopDispatched, IInv, TypeOK, BufferInv
  <2>2. got' = [got EXCEPT ![t] = NoEvent] /\ fate' = fate /\ notify' = notify
    BY DEF LoopDispatched
  <2> QED BY <2>1, <2>2 DEF IInv, TypeOK, EventInv
<1>5. BirthInv'
  BY DEF LoopDispatched, IInv, BirthInv
<1>6. WorkerInv'
  BY DEF LoopDispatched, IInv, WorkerInv
<1>7. WakeInv'
  BY DEF LoopDispatched, IInv, WakeInv
<1> QED BY <1>1, <1>2, <1>3, <1>4, <1>5, <1>6, <1>7 DEF IInv

\* A wait that is cancelled is left to its cancel routine.
LEMMA KillWaiterStep ==
  ASSUME IInv, NEW t \in Loops, KillWaiter(t)
  PROVE  IInv'
<1> USE EventDeliveryAssumption DEF mountVars, queueVars, waitVars, workerVars, loopVars, eventVars
<1>1. TypeOK'
  BY DEF KillWaiter, IInv, TypeOK, Locked, Instance
<1>2. WaitInv'
  BY DEF KillWaiter, IInv, WaitInv, Nowhere, Listed, Paired, Freed, Cancelling
<1>3. BufferInv'
  BY DEF KillWaiter, IInv, BufferInv
<1>4. EventInv'
  BY DEF KillWaiter, IInv, EventInv
<1>5. BirthInv'
  BY DEF KillWaiter, IInv, BirthInv
<1>6. WorkerInv'
  BY DEF KillWaiter, IInv, WorkerInv
<1>7. WakeInv'
  BY DEF KillWaiter, IInv, WakeInv
<1> QED BY <1>1, <1>2, <1>3, <1>4, <1>5, <1>6, <1>7 DEF IInv

\* The cancel routine takes the wait off the list, if it is still there.
LEMMA CancelWaitStep ==
  ASSUME IInv, NEW t \in Loops, CancelWait(t)
  PROVE  IInv'
<1> USE EventDeliveryAssumption DEF mountVars, queueVars, waitVars, workerVars, loopVars, eventVars
<1>1. /\ pending' \in Seq(Loops) /\ Distinct(pending')
      /\ \A x : Occurs(x, pending') <=> Occurs(x, pending) /\ x # t
  BY MinusRemoves DEF CancelWait, IInv, TypeOK
<1>a. /\ t \in canceled /\ canceled' = canceled \ {t} /\ loop' = [loop EXCEPT ![t] = "ended"]
      /\ armed' = armed /\ released' = released /\ completing' = completing
      /\ got' = got /\ failed' = failed /\ fate' = fate /\ notify' = notify
  BY DEF CancelWait
<1>b. loop[t] = "waiting" /\ Cancelling(t)
  BY <1>a DEF IInv, WaitInv, Nowhere, Listed, Paired, Freed
<1>2. TypeOK'
  BY <1>1 DEF CancelWait, IInv, TypeOK, Locked, Instance
<1>3. WaitInv'
  BY <1>1, <1>a, <1>b DEF IInv, TypeOK, WaitInv, Nowhere, Listed, Paired, Freed, Cancelling
<1>4. BufferInv'
  BY <1>a, <1>b DEF IInv, TypeOK, BufferInv, Cancelling
<1>5. EventInv'
  BY <1>a DEF IInv, EventInv
<1>6. BirthInv'
  BY <1>1 DEF CancelWait, IInv, WaitInv, Nowhere, BirthInv
<1>7. WorkerInv'
  BY <1>1 DEF CancelWait, IInv, WorkerInv
<1>8. WakeInv'
  <2>1. pending' # <<>> => pending # <<>> /\ pendingSet' = pendingSet
    BY <1>1, EmptyList DEF CancelWait, IInv, TypeOK
  <2> QED BY <2>1 DEF CancelWait, IInv, WakeInv
<1> QED BY <1>2, <1>3, <1>4, <1>5, <1>6, <1>7, <1>8 DEF IInv

\* The thread has nothing left to complete when it ends.
LEMMA NotificationExitStep ==
  ASSUME IInv, NotificationExit
  PROVE  IInv'
<1> USE EventDeliveryAssumption DEF mountVars, queueVars, waitVars, workerVars, loopVars, eventVars
<1>1. TypeOK'
  BY DEF NotificationExit, IInv, TypeOK, Locked, Instance
<1>2. WaitInv'
  BY DEF NotificationExit, IInv, WaitInv, Nowhere, Listed, Paired, Freed, Cancelling
<1>3. BufferInv'
  BY DEF NotificationExit, IInv, BufferInv
<1>4. EventInv'
  BY DEF NotificationExit, IInv, EventInv
<1>5. BirthInv'
  BY DEF NotificationExit, IInv, BirthInv
<1>6. WorkerInv'
  BY DEF NotificationExit, IInv, WorkerInv
<1>7. WakeInv'
  BY DEF NotificationExit, IInv, WakeInv
<1> QED BY <1>1, <1>2, <1>3, <1>4, <1>5, <1>6, <1>7 DEF IInv

\* The thread takes both locks.
LEMMA NotificationWakeStep ==
  ASSUME IInv, NotificationWake
  PROVE  IInv'
<1> USE EventDeliveryAssumption DEF mountVars, queueVars, waitVars, workerVars, loopVars, eventVars
<1>1. TypeOK'
  BY DEF NotificationWake, IInv, TypeOK, Locked, Instance
<1>2. WaitInv'
  BY DEF NotificationWake, IInv, WaitInv, Nowhere, Listed, Paired, Freed, Cancelling
<1>3. BufferInv'
  BY DEF NotificationWake, IInv, BufferInv
<1>4. EventInv'
  BY DEF NotificationWake, IInv, EventInv
<1>5. BirthInv'
  BY DEF NotificationWake, IInv, BirthInv
<1>6. WorkerInv'
  BY DEF NotificationWake, IInv, WorkerInv
<1>7. WakeInv'
  BY DEF NotificationWake, WakeInv
<1> QED BY <1>1, <1>2, <1>3, <1>4, <1>5, <1>6, <1>7 DEF IInv

\* Both NotEmpty events are cleared when one list is empty.
LEMMA PairDoneStep ==
  ASSUME IInv, PairDone
  PROVE  IInv'
<1> USE EventDeliveryAssumption DEF mountVars, queueVars, waitVars, workerVars, loopVars, eventVars
<1>1. TypeOK'
  BY DEF PairDone, IInv, TypeOK, Locked, Instance
<1>2. WaitInv'
  BY DEF PairDone, IInv, WaitInv, Nowhere, Listed, Paired, Freed, Cancelling
<1>3. BufferInv'
  BY DEF PairDone, IInv, BufferInv
<1>4. EventInv'
  BY DEF PairDone, IInv, EventInv
<1>5. BirthInv'
  BY DEF PairDone, IInv, BirthInv
<1>6. WorkerInv'
  BY DEF PairDone, IInv, WorkerInv
<1>7. WakeInv'
  BY DEF PairDone, WakeInv
<1> QED BY <1>1, <1>2, <1>3, <1>4, <1>5, <1>6, <1>7 DEF IInv

\* A wait of the private list is completed.
LEMMA CompleteWaitStep ==
  ASSUME IInv, CompleteWait
  PROVE  IInv'
<1> USE EventDeliveryAssumption DEF mountVars, queueVars, waitVars, workerVars, loopVars, eventVars
<1>1. /\ Head(completing) \in Loops /\ Occurs(Head(completing), completing)
      /\ completing' \in Seq(Loops) /\ Distinct(completing')
      /\ \A x : Occurs(x, completing') <=> Occurs(x, completing) /\ x # Head(completing)
  BY TailRemoves DEF CompleteWait, IInv, TypeOK
<1>2. TypeOK'
  BY <1>1 DEF CompleteWait, IInv, TypeOK, Locked, Instance
<1>3. WaitInv'
  BY <1>1 DEF CompleteWait, IInv, TypeOK, WaitInv, Nowhere, Listed, Paired, Freed,
       Cancelling
<1>4. BufferInv'
  BY <1>1 DEF CompleteWait, IInv, WaitInv, Nowhere, BufferInv
<1>5. EventInv'
  BY <1>1 DEF CompleteWait, IInv, EventInv
<1>6. BirthInv'
  BY <1>1 DEF CompleteWait, IInv, WaitInv, Nowhere, BirthInv
<1>7. WorkerInv'
  BY <1>1 DEF CompleteWait, IInv, WorkerInv
<1>8. WakeInv'
  BY <1>1 DEF CompleteWait, IInv, WakeInv
<1> QED BY <1>2, <1>3, <1>4, <1>5, <1>6, <1>7, <1>8 DEF IInv

\* The thread sleeps with its private list empty.
LEMMA NotificationSleepStep ==
  ASSUME IInv, NotificationSleep
  PROVE  IInv'
<1> USE EventDeliveryAssumption DEF mountVars, queueVars, waitVars, workerVars, loopVars, eventVars
<1>1. TypeOK'
  BY DEF NotificationSleep, IInv, TypeOK, Locked, Instance
<1>2. WaitInv'
  BY DEF NotificationSleep, IInv, WaitInv, Nowhere, Listed, Paired, Freed, Cancelling
<1>3. BufferInv'
  BY DEF NotificationSleep, IInv, BufferInv
<1>4. EventInv'
  BY DEF NotificationSleep, IInv, EventInv
<1>5. BirthInv'
  BY DEF NotificationSleep, IInv, BirthInv
<1>6. WorkerInv'
  BY DEF NotificationSleep, IInv, WorkerInv
<1>7. WakeInv'
  BY DEF NotificationSleep, IInv, WakeInv
<1> QED BY <1>1, <1>2, <1>3, <1>4, <1>5, <1>6, <1>7 DEF IInv

\* The new instance brings its own threads.
LEMMA EventStartStep ==
  ASSUME IInv, EventStart
  PROVE  IInv'
<1> USE EventDeliveryAssumption DEF mountVars, queueVars, waitVars, workerVars, loopVars, eventVars
<1>a. mountId' = mountId + 1 /\ mountId \in Nat /\ mountId < MaxMounts
  BY DEF EventStart, IInv, TypeOK
<1>b. \A t \in Loops : Instance(t) \in 1..MaxMounts
  BY DEF Loops, Instance
<1>c. \A t \in Loops : loop'[t] = IF Instance(t) = mountId + 1 THEN "asking" ELSE loop[t]
  BY <1>a DEF EventStart
<1>d. loop' \in [Loops -> {"unborn", "asking", "registering", "waiting", "woken", "busy", "ended"}]
  <2>1. loop' = [t \in Loops |-> IF Instance(t) = mountId' THEN "asking" ELSE loop[t]]
    BY DEF EventStart
  <2> QED BY <2>1 DEF IInv, TypeOK
<1>e. \A t \in Loops : Instance(t) = mountId + 1 => loop[t] = "unborn"
  BY <1>a, <1>b DEF IInv, BirthInv
<1>1. TypeOK'
  <2>1. mountId' \in 0..MaxMounts
    BY <1>a
  <2> QED BY <1>d, <2>1 DEF EventStart, IInv, TypeOK
<1>2. WaitInv'
  BY DEF EventStart, IInv, TypeOK, WaitInv, Nowhere, Listed, Paired, Freed, Cancelling,
       BirthInv
<1>3. BufferInv'
  BY <1>c, <1>e DEF EventStart, IInv, TypeOK, BufferInv
<1>4. EventInv'
  BY DEF EventStart, IInv, EventInv
<1>5. BirthInv'
  BY <1>a, <1>b, <1>c, <1>e DEF IInv, BirthInv
<1>6. WorkerInv'
  BY DEF EventStart, IInv, WorkerInv
<1>7. WakeInv'
  BY DEF EventStart, IInv, WakeInv
<1> QED BY <1>1, <1>2, <1>3, <1>4, <1>5, <1>6, <1>7 DEF IInv

\* The unmount.
LEMMA EventReleaseStep ==
  ASSUME IInv, EventRelease
  PROVE  IInv'
<1> USE EventDeliveryAssumption DEF mountVars, queueVars, waitVars, workerVars, loopVars, eventVars
<1>1. TypeOK'
  BY DEF EventRelease, IInv, TypeOK, Locked, Instance
<1>2. WaitInv'
  BY DEF EventRelease, IInv, WaitInv, Nowhere, Listed, Paired, Freed, Cancelling
<1>3. BufferInv'
  BY DEF EventRelease, IInv, BufferInv
<1>4. EventInv'
  BY DEF EventRelease, IInv, EventInv
<1>5. BirthInv'
  BY DEF EventRelease, IInv, BirthInv
<1>6. WorkerInv'
  BY DEF EventRelease, IInv, WorkerInv
<1>7. WakeInv'
  BY DEF EventRelease, IInv, WakeInv
<1> QED BY <1>1, <1>2, <1>3, <1>4, <1>5, <1>6, <1>7 DEF IInv

\* The list is emptied: who waited is released or being cancelled.
LEMMA ReleaseWaitsStep ==
  ASSUME IInv, ReleaseWaits
  PROVE  IInv'
<1> USE EventDeliveryAssumption DEF mountVars, queueVars, waitVars, workerVars, loopVars, eventVars
<1>1. pending' = <<>> /\ \A x : ~Occurs(x, pending')
  <2>1. pending' = <<>> /\ <<>> \in Seq(Loops)
    BY DEF ReleaseWaits
  <2> QED BY <2>1, EmptyList
<1>2. TypeOK'
  <2>1. pending' \in Seq(Loops) /\ Distinct(pending')
    BY <1>1 DEF Distinct
  <2>2. released' \subseteq Loops /\ armed' \subseteq Loops
    BY DEF ReleaseWaits, IInv, TypeOK
  <2> QED BY <2>1, <2>2 DEF ReleaseWaits, IInv, TypeOK
<1>3. WaitInv'
  BY <1>1 DEF ReleaseWaits, IInv, WaitInv, Nowhere, Listed, Paired, Freed, Cancelling,
       WorkerInv
<1>4. BufferInv'
  BY <1>1 DEF ReleaseWaits, IInv, BufferInv
<1>5. EventInv'
  BY <1>1 DEF ReleaseWaits, IInv, EventInv
<1>6. BirthInv'
  BY <1>1 DEF ReleaseWaits, IInv, BirthInv
<1>7. WorkerInv'
  BY <1>1 DEF ReleaseWaits, IInv, WorkerInv
<1>8. WakeInv'
  BY <1>1 DEF WakeInv
<1> QED BY <1>2, <1>3, <1>4, <1>5, <1>6, <1>7, <1>8 DEF IInv

\* A released wait is completed.
LEMMA ReleaseWaitStep ==
  ASSUME IInv, NEW t \in Loops, ReleaseWait(t)
  PROVE  IInv'
<1> USE EventDeliveryAssumption DEF mountVars, queueVars, waitVars, workerVars, loopVars, eventVars
<1>1. TypeOK'
  BY DEF ReleaseWait, IInv, TypeOK, Locked, Instance
<1>2. WaitInv'
  BY DEF ReleaseWait, IInv, TypeOK, WaitInv, Nowhere, Listed, Paired, Freed, Cancelling
<1>3. BufferInv'
  BY DEF ReleaseWait, IInv, WaitInv, Nowhere, BufferInv
<1>4. EventInv'
  BY DEF ReleaseWait, IInv, EventInv
<1>5. BirthInv'
  BY DEF ReleaseWait, IInv, WaitInv, Nowhere, BirthInv
<1>6. WorkerInv'
  BY DEF ReleaseWait, IInv, WorkerInv
<1>7. WakeInv'
  BY DEF ReleaseWait, IInv, WakeInv
<1> QED BY <1>1, <1>2, <1>3, <1>4, <1>5, <1>6, <1>7 DEF IInv

\* ReleaseEvent is set.
LEMMA StopNotificationStep ==
  ASSUME IInv, StopNotification
  PROVE  IInv'
<1> USE EventDeliveryAssumption DEF mountVars, queueVars, waitVars, workerVars, loopVars, eventVars
<1>1. TypeOK'
  BY DEF StopNotification, IInv, TypeOK, Locked, Instance
<1>2. WaitInv'
  BY DEF StopNotification, IInv, WaitInv, Nowhere, Listed, Paired, Freed, Cancelling
<1>3. BufferInv'
  BY DEF StopNotification, IInv, BufferInv
<1>4. EventInv'
  BY DEF StopNotification, IInv, EventInv
<1>5. BirthInv'
  BY DEF StopNotification, IInv, BirthInv
<1>6. WorkerInv'
  BY DEF StopNotification, IInv, WorkerInv
<1>7. WakeInv'
  BY DEF StopNotification, IInv, WakeInv
<1> QED BY <1>1, <1>2, <1>3, <1>4, <1>5, <1>6, <1>7 DEF IInv

\* The release ends after the thread.
LEMMA ReleaseReturnsStep ==
  ASSUME IInv, ReleaseReturns
  PROVE  IInv'
<1> USE EventDeliveryAssumption DEF mountVars, queueVars, waitVars, workerVars, loopVars, eventVars
<1>1. TypeOK'
  BY DEF ReleaseReturns, IInv, TypeOK, Locked, Instance
<1>2. WaitInv'
  BY DEF ReleaseReturns, IInv, WaitInv, Nowhere, Listed, Paired, Freed, Cancelling
<1>3. BufferInv'
  BY DEF ReleaseReturns, IInv, BufferInv
<1>4. EventInv'
  BY DEF ReleaseReturns, IInv, EventInv
<1>5. BirthInv'
  BY DEF ReleaseReturns, IInv, BirthInv
<1>6. WorkerInv'
  BY DEF ReleaseReturns, IInv, WorkerInv
<1>7. WakeInv'
  BY DEF ReleaseReturns, IInv, WakeInv
<1> QED BY <1>1, <1>2, <1>3, <1>4, <1>5, <1>6, <1>7 DEF IInv


\* The first event of the list, and the event pushed back to its tail.
LEMMA PushBack ==
  ASSUME NEW S, NEW s \in Seq(S), s # <<>>, Distinct(s)
  PROVE  /\ Append(Tail(s), Head(s)) \in Seq(S) /\ Append(Tail(s), Head(s)) # <<>>
         /\ Distinct(Append(Tail(s), Head(s)))
         /\ \A x : Occurs(x, Append(Tail(s), Head(s))) <=> Occurs(x, s)
<1>1. /\ Head(s) \in S /\ Occurs(Head(s), s) /\ Tail(s) \in Seq(S) /\ Distinct(Tail(s))
      /\ \A x : Occurs(x, Tail(s)) <=> Occurs(x, s) /\ x # Head(s)
  BY TailRemoves
<1>2. Append(Tail(s), Head(s)) # <<>>
  BY <1>1
<1> QED BY <1>1, <1>2, AppendAdds

\* One iteration moves the oldest wait from the list to the private list, or leaves
\* it to its cancel routine; the oldest event goes with it or stays.
LEMMA PairOneStep ==
  ASSUME IInv, PairOne
  PROVE  IInv'
<1> USE DEF mountVars, queueVars, waitVars, workerVars, loopVars, eventVars
<1> DEFINE e == Head(notify)
           t == Head(pending)
<1>1. /\ t \in Loops /\ Occurs(t, pending)
      /\ pending' = Tail(pending) /\ pending' \in Seq(Loops) /\ Distinct(pending')
      /\ \A x : Occurs(x, pending') <=> Occurs(x, pending) /\ x # t
  BY TailRemoves DEF PairOne, IInv, TypeOK
<1>2. /\ e \in Events /\ Occurs(e, notify)
      /\ Tail(notify) \in Seq(Events) /\ Distinct(Tail(notify))
      /\ \A x : Occurs(x, Tail(notify)) <=> Occurs(x, notify) /\ x # e
  BY TailRemoves DEF PairOne, IInv, TypeOK
<1>3. LET s == Append(Tail(notify), e)
      IN  s \in Seq(Events) /\ Distinct(s) /\ \A x : Occurs(x, s) <=> Occurs(x, notify)
  BY PushBack DEF PairOne, IInv, TypeOK
<1>4. loop[t] = "waiting" /\ fate[e] = "queued" /\ ~Occurs(t, completing)
  BY <1>1, <1>2 DEF IInv, WaitInv, Nowhere, Listed, Paired, Freed, Cancelling, EventInv
<1>5. t \in armed => /\ Append(completing, t) \in Seq(Loops) /\ Distinct(Append(completing, t))
                     /\ \A x : Occurs(x, Append(completing, t)) <=> Occurs(x, completing) \/ x = t
  BY <1>1, <1>4, AppendAdds DEF IInv, TypeOK
<1>6. /\ notify # <<>> /\ pending # <<>> /\ worker = "pairing" /\ worker' = worker
      /\ UNCHANGED <<notifySet, posting, pendingSet, canceled, releaseSet, loop, eventMount>>
      /\ UNCHANGED <<mounted, mountId, release, released>>
  BY DEF PairOne
<1>7. BirthInv' /\ WorkerInv' /\ WakeInv'
  BY <1>6 DEF IInv, BirthInv, WorkerInv, WakeInv
<1>8. CASE t \notin armed
  <2>1. notify' = Append(Tail(notify), e) /\ UNCHANGED <<armed, completing, got, failed, fate>>
    BY <1>8 DEF PairOne
  <2>2. TypeOK'
    BY <1>1, <1>3, <1>6, <2>1 DEF IInv, TypeOK
  <2>3. WaitInv'
    BY <1>1, <1>6, <1>8, <2>1 DEF IInv, WaitInv, Nowhere, Listed, Paired, Freed, Cancelling
  <2>4. BufferInv' /\ EventInv'
    BY <1>3, <1>6, <2>1 DEF IInv, BufferInv, EventInv
  <2> QED BY <1>7, <2>2, <2>3, <2>4 DEF IInv
<1>9. CASE t \in armed /\ e \in Long
  <2>1. /\ notify' = Append(Tail(notify), e) /\ armed' = armed \ {t}
        /\ failed' = failed \cup {t} /\ completing' = Append(completing, t)
        /\ got' = got /\ fate' = fate
    BY <1>9 DEF PairOne
  <2>2. TypeOK'
    BY <1>1, <1>3, <1>5, <1>6, <1>9, <2>1 DEF IInv, TypeOK
  <2>3. Listed(t)
    BY <1>1, <1>4, <1>9 DEF IInv, WaitInv, Paired, Freed, Cancelling
  <2>4. WaitInv'
    BY <1>1, <1>4, <1>5, <1>6, <1>9, <2>1, <2>3
    DEF IInv, WaitInv, Nowhere, Listed, Paired, Freed, Cancelling
  <2>5. BufferInv' /\ EventInv'
    BY <1>1, <1>3, <1>4, <1>6, <2>1, <2>3 DEF IInv, BufferInv, EventInv, Listed
  <2> QED BY <1>7, <2>2, <2>4, <2>5 DEF IInv
<1>10. CASE t \in armed /\ e \notin Long
  <2>1. /\ notify' = Tail(notify) /\ armed' = armed \ {t}
        /\ got' = [got EXCEPT ![t] = e] /\ fate' = [fate EXCEPT ![e] = "copied"]
        /\ completing' = Append(completing, t) /\ failed' = failed
    BY <1>10 DEF PairOne
  <2>2. TypeOK'
    BY <1>1, <1>2, <1>5, <1>6, <1>10, <2>1 DEF IInv, TypeOK
  <2>3. Listed(t)
    BY <1>1, <1>4, <1>10 DEF IInv, WaitInv, Paired, Freed, Cancelling
  <2>4. WaitInv'
    BY <1>1, <1>4, <1>5, <1>6, <1>10, <2>1, <2>3
    DEF IInv, WaitInv, Nowhere, Listed, Paired, Freed, Cancelling
  <2>5. \A u \in Loops : got[u] # e
    BY <1>2, <1>4, EventDeliveryAssumption DEF IInv, BufferInv
  <2>6. /\ got'[t] = e /\ \A u \in Loops : u # t => got'[u] = got[u]
        /\ fate'[e] = "copied" /\ \A d \in Events : d # e => fate'[d] = fate[d]
        /\ \A u \in Loops : got[u] \in Events \cup {NoEvent}
    BY <1>1, <1>2, <2>1 DEF IInv, TypeOK
  <2>7. BufferInv'
    <3> SUFFICES ASSUME NEW u \in Loops PROVE BufferInv!(u)'
      BY DEF BufferInv
    <3>1. CASE u = t
      BY <3>1, <1>4, <1>6, <2>1, <2>3, <2>6 DEF Listed
    <3>2. CASE u # t
      BY <3>2, <1>6, <2>1, <2>5, <2>6 DEF IInv, BufferInv
    <3> QED BY <3>1, <3>2
  <2>8. EventInv'
    <3>1. \A d \in Events : fate'[d] = "queued" <=> Occurs(d, notify')
      BY <1>2, <2>1, <2>6 DEF IInv, EventInv
    <3>2. ASSUME NEW d \in Events, fate'[d] = "copied" PROVE \E u \in Loops : got'[u] = d
      <4>1. CASE d = e
        BY <4>1, <1>1, <2>6
      <4>2. CASE d # e
        <5>1. PICK u \in Loops : got[u] = d
          BY <3>2, <4>2, <2>6 DEF IInv, EventInv
        <5>2. u # t
          BY <5>1, <2>3, EventDeliveryAssumption DEF Listed
        <5> QED BY <5>1, <5>2, <2>6
      <4> QED BY <4>1, <4>2
    <3>3. \A u, v \in Loops : got'[u] = got'[v] /\ got'[u] # NoEvent => u = v
      BY <2>5, <2>6 DEF IInv, EventInv
    <3> QED BY <3>1, <3>2, <3>3 DEF EventInv
  <2> QED BY <1>7, <2>2, <2>4, <2>7, <2>8 DEF IInv
<1> QED BY <1>8, <1>9, <1>10

-----------------------------------------------------------------------------
(* The theorems.                                                           *)

\* IInv holds at first, and no step breaks it.
THEOREM Invariance == Spec => []IInv
<1>1. Init => IInv
  <2> SUFFICES ASSUME Init PROVE IInv
    OBVIOUS
  <2> USE EventDeliveryAssumption
  <2>1. notify = <<>> /\ pending = <<>> /\ completing = <<>>
    BY DEF Init
  <2>2. \A x : ~Occurs(x, notify) /\ ~Occurs(x, pending) /\ ~Occurs(x, completing)
    BY <2>1 DEF Occurs
  <2>3. TypeOK
    <3>1. /\ mounted \in BOOLEAN /\ notifySet \in BOOLEAN /\ pendingSet \in BOOLEAN
          /\ releaseSet \in BOOLEAN
      BY Zenon DEF Init
    <3>2. /\ notify \in Seq(Events) /\ pending \in Seq(Loops) /\ completing \in Seq(Loops)
          /\ Distinct(notify) /\ Distinct(pending) /\ Distinct(completing)
      BY <2>1 DEF Distinct
    <3>3. /\ loop \in [Loops -> {"unborn"}] /\ got \in [Loops -> Events \cup {NoEvent}]
          /\ fate \in [Events -> {"new"}] /\ eventMount \in [Events -> 0..MaxMounts]
      BY DEF Init
    <3> QED BY <3>1, <3>2, <3>3 DEF Init, TypeOK
  <2>4. WaitInv /\ BufferInv
    BY <2>2 DEF Init, WaitInv, BufferInv, Nowhere
  <2>5. EventInv /\ WorkerInv /\ WakeInv
    BY <2>2 DEF Init, EventInv, WorkerInv, WakeInv
  <2>6. BirthInv
    BY DEF Init, BirthInv, Loops, Instance
  <2> QED BY <2>3, <2>4, <2>5, <2>6 DEF IInv
<1>2. IInv /\ [Next]_vars => IInv'
  <2> SUFFICES ASSUME IInv, [Next]_vars PROVE IInv'
    OBVIOUS
  <2>1. CASE UNCHANGED vars
    BY <2>1 DEF vars, mountVars, queueVars, waitVars, workerVars, loopVars, eventVars,
         IInv, TypeOK, WaitInv, BufferInv, EventInv, BirthInv, WorkerInv, WakeInv, Nowhere,
         Listed, Paired, Freed, Cancelling
  <2>2. ASSUME NEW e \in Events, Sender(e) PROVE IInv'
    BY <2>2, AllocateEventContextStep, InsertEventStep, SetNotEmptyStep DEF Sender
  <2>3. ASSUME NEW t \in Loops, LoopStep(t) \/ LoopDispatched(t) \/ KillWaiter(t) \/ CancelWait(t)
        PROVE  IInv'
    BY <2>3, AskWaitStep, RegisterWaitStep, LoopGotStep, LoopGotNothingStep, LoopDispatchedStep,
       KillWaiterStep, CancelWaitStep DEF LoopStep
  <2>4. CASE NotificationThread
    BY <2>4, NotificationExitStep, NotificationWakeStep, PairOneStep, PairDoneStep,
       CompleteWaitStep, NotificationSleepStep DEF NotificationThread
  <2>5. CASE EventStart \/ EventRelease \/ Release
    BY <2>5, EventStartStep, EventReleaseStep, ReleaseWaitsStep, ReleaseWaitStep,
       StopNotificationStep, ReleaseReturnsStep DEF Release
  <2> QED BY <2>1, <2>2, <2>3, <2>4, <2>5 DEF Next
<1> QED BY <1>1, <1>2, PTL DEF Spec

\* The types; no list holds an entry twice.
THEOREM TypeCorrect == Spec => []TypeOK
<1>1. IInv => TypeOK
  BY DEF IInv
<1> QED BY <1>1, Invariance, PTL

\* The notification thread never sleeps while an event and a wait are listed, unless
\* it is about to be woken.
THEOREM WakeupHolds == Spec => []NoLostWakeup
<1>1. IInv => NoLostWakeup
  BY DEF IInv, WakeInv, NoLostWakeup
<1> QED BY <1>1, Invariance, PTL

\* An event that was sent is on the list or in exactly one buffer.
THEOREM EventKeptHolds == Spec => []EventKept
<1>1. IInv => EventKept
  <2> SUFFICES ASSUME IInv, NEW e \in Events PROVE EventKept!(e)
    BY DEF EventKept
  <2> DEFINE holders == {t \in Loops : got[t] = e}
  <2>1. Cardinality(holders) <= 1
    <3>1. CASE holders = {}
      BY <3>1, FS_EmptySet
    <3>2. CASE holders # {}
      <4>1. PICK t \in holders : TRUE
        BY <3>2
      <4>2. holders = {t}
        BY <4>1, EventDeliveryAssumption DEF IInv, EventInv
      <4> QED BY <4>2, FS_Singleton
    <3> QED BY <3>1, <3>2
  <2>2. fate[e] = "copied" => \E t \in Loops : got[t] = e /\ loop[t] \in {"waiting", "woken"}
    BY EventDeliveryAssumption DEF IInv, EventInv, BufferInv
  <2> QED BY <2>1, <2>2 DEF IInv, EventInv
<1> QED BY <1>1, Invariance, PTL

\* A waiting thread will be answered by exactly one party.
THEOREM WaitHeldOnceHolds == Spec => []WaitHeldOnce
<1>1. IInv => WaitHeldOnce
  <2> SUFFICES ASSUME IInv, NEW t \in Loops, loop[t] = "waiting"
               PROVE  WaitHeldOnce!(t)
    BY DEF WaitHeldOnce
  <2> DEFINE held == {h \in {"list", "pairing", "release", "cancel"} :
                        \/ h = "list"    /\ t \in armed /\ Occurs(t, pending)
                        \/ h = "pairing" /\ Occurs(t, completing)
                        \/ h = "release" /\ t \in released
                        \/ h = "cancel"  /\ t \in canceled}
  <2>1. Listed(t) \/ Paired(t) \/ Freed(t) \/ Cancelling(t)
    BY DEF IInv, WaitInv
  <2>2. CASE Listed(t)
    <3>1. held = {"list"}
      BY <2>2 DEF Listed
    <3> QED BY <3>1
  <2>3. CASE Paired(t)
    <3>1. held = {"pairing"}
      BY <2>3 DEF Paired
    <3> QED BY <3>1
  <2>4. CASE Freed(t)
    <3>1. held = {"release"}
      BY <2>4 DEF Freed
    <3> QED BY <3>1
  <2>5. CASE Cancelling(t)
    <3>1. held = {"cancel"}
      BY <2>5 DEF Cancelling
    <3> QED BY <3>1
  <2> QED BY <2>1, <2>2, <2>3, <2>4, <2>5
<1> QED BY <1>1, Invariance, PTL
=============================================================================
