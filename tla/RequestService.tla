--------------------------- MODULE RequestService ---------------------------
(***************************************************************************)
(* What the driver promises to whoever issues a file request, with no list,*)
(* lock, cancel routine or thread in sight: every request is finished once *)
(* and for good, by one of five verdicts, and a verdict is passed only for *)
(* its own reason.                                                         *)
(***************************************************************************)
CONSTANT Requests

VARIABLES
  request,    \* "new", "open" or the verdict
  cancelled,  \* the requests somebody has asked to cancel
  answered,   \* the requests the application has answered
  unmounted   \* has the volume ever been unmounted?

serviceVars == <<request, cancelled, answered, unmounted>>

Verdicts == {"rejected", "replied", "timedOut", "released", "cancelled"}

Init ==
  /\ request = [r \in Requests |-> "new"]
  /\ cancelled = {} /\ answered = {} /\ unmounted = FALSE

Submit(r) ==
  /\ request[r] = "new"
  /\ request' = [request EXCEPT ![r] = "open"]
  /\ UNCHANGED <<cancelled, answered, unmounted>>

\* Why a request may be finished with a verdict.  Only an unmounted volume
\* rejects or releases, only a cancelled request is cancelled and only an
\* answered one replied to.
Reason(r, verdict) ==
  /\ verdict \in {"rejected", "released"} => unmounted
  /\ verdict = "replied" => r \in answered
  /\ verdict = "cancelled" => r \in cancelled
  /\ verdict = "rejected" \/ request[r] = "open"

Finish(r) ==
  /\ request[r] \in {"new", "open"}
  /\ \E verdict \in Verdicts :
       /\ Reason(r, verdict)
       /\ request' = [request EXCEPT ![r] = verdict]
  /\ UNCHANGED <<cancelled, answered, unmounted>>

AskCancel(r) ==
  /\ request[r] \in {"new", "open"}
  /\ cancelled' = cancelled \cup {r}
  /\ UNCHANGED <<request, answered, unmounted>>

\* The application may answer a request that has been finished meanwhile.
Answer(r) ==
  /\ request[r] # "new"
  /\ answered' = answered \cup {r}
  /\ UNCHANGED <<request, cancelled, unmounted>>

Unmount == unmounted' = TRUE /\ UNCHANGED <<request, cancelled, answered>>

Next ==
  \/ \E r \in Requests : Submit(r) \/ Finish(r) \/ AskCancel(r) \/ Answer(r)
  \/ Unmount

Spec == Init /\ [][Next]_serviceVars
=============================================================================
