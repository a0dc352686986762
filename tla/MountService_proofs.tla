-------------------------- MODULE MountService_proofs --------------------------
(***************************************************************************)
(* Proofs about MountService, for any number of programs, runs of dokanctl,*)
(* letters and devices.                                                    *)
(*                                                                         *)
(* A letter is taken until it is removed, so a program that unmounts its   *)
(* own drive keeps the letter from everyone else until the service has     *)
(* removed it: that is what makes it harmless, and what fails for one that *)
(* has lost its drive before or never got it.                              *)
(***************************************************************************)
EXTENDS MountService, TLAPS

-----------------------------------------------------------------------------
(* The invariant.                                                          *)

States ==
  {"new", "starting", "started", "mounting", "refused", "serving", "ended", "failed",
   "leaving", "released", "unmounting", "gone"}

\* Past the release of a device: what a client that took a drive has reached.
Past == {"failed", "leaving", "released", "unmounting", "gone"}

TypesInv ==
  /\ state \in [Clients -> States]
  /\ defined \in [Letters -> Devices \cup {NoDevice}] /\ table \in [Letters -> Devices \cup {NoDevice}]
  /\ \A c \in Clients : state[c] # "new" => letter[c] \in Letters

\* What is in the pipe is what its client asked for; the client waits, or has
\* ended since it asked for its mount.
RequestInv ==
  request # NoRequest =>
    /\ request.from \in Clients /\ request.drive = letter[request.from]
    /\ \/ /\ request.type = "mount" /\ request.from \in Programs
          /\ state[request.from] \in {"mounting"} \cup Past /\ request.number = device[request.from]
       \/ request.type = "unmount" /\ state[request.from] = "unmounting"

\* A program that has a device has it until it is taken away; and it has the
\* letter that it removes until the service has removed it.
ProgramInv(p) ==
  /\ state[p] \in {"started", "mounting"} /\ p \notin bereft => mounter[device[p]] = p
  /\ state[p] = "ended" => p \notin instances
  /\ state[p] = "failed" => p \in failed
  /\ \/ state[p] = "serving" /\ p \notin bereft
     \/ state[p] = "leaving" /\ p \notin failed \cup bereft
     =>
       mounter[device[p]] = p /\ defined[letter[p]] = device[p]
  /\ state[p] \in {"released", "unmounting"} /\ p \notin failed \cup bereft =>
       /\ defined[letter[p]] # NoDevice
       /\ \A q \in Programs :
            state[q] = "serving" /\ letter[q] = letter[p] /\ defined[letter[p]] = device[q] =>
              mounter[device[q]] # q

\* Who has taken a drive is past serving, and does not forget the cause.
HarmInv ==
  \A pair \in harmed :
    /\ pair[1] \in Tools \cup {None} \cup failed \cup bereft
    /\ pair[1] \in Programs => state[pair[1]] \in Past

IInv ==
  /\ TypeOK /\ TypesInv /\ RequestInv /\ (\A p \in Programs : ProgramInv(p))
  /\ LettersLead /\ HarmInv

-----------------------------------------------------------------------------
(* What steps leave alone.                                                 *)

\* Changing a function at one place.
LEMMA ExceptAt ==
  ASSUME NEW D, NEW S, NEW f \in [D -> S], NEW d \in D, NEW v
  PROVE  /\ [f EXCEPT ![d] = v][d] = v
         /\ \A e \in D : e # d => [f EXCEPT ![d] = v][e] = f[e]
         /\ v \in S => [f EXCEPT ![d] = v] \in [D -> S]
OBVIOUS

\* Nobody is called "none", and NoDevice is not a device.
LEMMA Names ==
  /\ None \notin Clients /\ None \notin Letters /\ None \notin Programs
  /\ Programs \subseteq Clients /\ Tools \subseteq Clients
  /\ NoDevice \notin Devices /\ 0 \in Devices
  /\ \A p \in Programs : p \notin Tools
BY MountServiceAssumption DEF Clients, Devices, NoDevice

\* A request stands as long as its client waits, or has ended, and keeps its
\* letter and device.
LEMMA RequestKept ==
  ASSUME RequestInv, UNCHANGED request,
         \A c \in Clients : state[c] \in {"mounting"} \cup Past =>
           /\ state'[c] \in {"mounting"} \cup Past /\ letter'[c] = letter[c]
           /\ c \in Programs => device'[c] = device[c],
         \A c \in Clients : state[c] = "unmounting" => state'[c] = "unmounting"
  PROVE  RequestInv'
<1>1. "unmounting" \in Past
  BY DEF Past
<1> HIDE DEF Past
<1> QED BY <1>1 DEF RequestInv, NoRequest

\* What holds of a program goes on as long as its device and its letter stay,
\* and nobody with its letter gets to serve.
LEMMA ProgramKept ==
  ASSUME NEW p \in Programs, ProgramInv(p),
         state'[p] = state[p], letter'[p] = letter[p], device'[p] = device[p],
         failed \subseteq failed', p \in bereft => p \in bereft', p \in instances' => p \in instances,
         mounter[device[p]] = p /\ p \notin bereft' => mounter'[device[p]] = p,
         defined'[letter[p]] = defined[letter[p]],
         \A q \in Programs : state'[q] = "serving" /\ mounter'[device'[q]] = q =>
           /\ state[q] = "serving" /\ mounter[device[q]] = q
           /\ letter'[q] = letter[q] /\ device'[q] = device[q]
  PROVE  ProgramInv(p)'
<1>1. /\ state'[p] \in {"started", "mounting"} /\ p \notin bereft' => mounter'[device'[p]] = p
      /\ state'[p] = "ended" => p \notin instances'
      /\ state'[p] = "failed" => p \in failed'
  BY DEF ProgramInv
<1>2. \/ state'[p] = "serving" /\ p \notin bereft'
      \/ state'[p] = "leaving" /\ p \notin failed' \cup bereft'
      => mounter'[device'[p]] = p /\ defined'[letter'[p]] = device'[p]
  BY DEF ProgramInv
<1>3. state'[p] \in {"released", "unmounting"} /\ p \notin failed' \cup bereft' =>
        /\ defined'[letter'[p]] # NoDevice
        /\ \A q \in Programs :
             state'[q] = "serving" /\ letter'[q] = letter'[p] /\ defined'[letter'[p]] = device'[q] =>
               mounter'[device'[q]] # q
  BY DEF ProgramInv, NoDevice
<1> QED BY <1>1, <1>2, <1>3 DEF ProgramInv, NoDevice

\* Letters lead where they led, as long as the unmounts under way go on.
LEMMA LettersKept ==
  ASSUME LettersLead, UNCHANGED <<mounted, defined>>, stray \subseteq stray',
         \A c \in Clients : state[c] \in {"released", "unmounting"} =>
           \/ state'[c] \in {"released", "unmounting"} /\ letter'[c] = letter[c]
           \/ letter[c] \in stray' \/ defined[letter[c]] = NoDevice
  PROVE  LettersLead'
BY DEF LettersLead, NoDevice

\* A cause is not forgotten: only a program that serves stops being bereft.
LEMMA HarmKept ==
  ASSUME HarmInv, UNCHANGED harmed, failed \subseteq failed',
         \A c \in Programs : state[c] \in Past => state'[c] \in Past,
         \A x \in bereft : x \in bereft' \/ (x \in Programs /\ state[x] \notin Past)
  PROVE  HarmInv'
BY DEF HarmInv

\* Steps of one client that leave the driver and the service alone.
LEMMA QuietSteps ==
  ASSUME IInv, NEW c \in Clients, NEW s \in States, state' = [state EXCEPT ![c] = s],
         UNCHANGED <<mounted, mounter, defined, table, service, request, stops, harmed>>,
         state[c] # "unmounting", s \notin {"new", "serving"},
         state[c] \in {"mounting"} \cup Past =>
           s \in Past /\ letter'[c] = letter[c] /\ (c \in Programs => device'[c] = device[c]),
         letter' \in [Clients -> Letters \cup {None}], letter'[c] \in Letters,
         \A e \in Clients : e # c => letter'[e] = letter[e],
         device' \in [Programs -> Devices], \A q \in Programs : q # c => device'[q] = device[q],
         instances' \subseteq Programs, \A q \in instances' : q # c => q \in instances,
         stray \subseteq stray', stray' \subseteq Letters, failed \subseteq failed',
         \A q \in bereft : q # c => q \in bereft',
         c \in bereft => c \in bereft' \/ (c \in Programs /\ state[c] \notin Past),
         state[c] \in {"released", "unmounting"} =>
           letter[c] \in stray' \/ defined[letter[c]] = NoDevice,
         c \in Programs => ProgramInv(c)'
  PROVE  IInv'
<1>a. /\ TypeOK /\ TypesInv /\ RequestInv /\ (\A p \in Programs : ProgramInv(p))
      /\ LettersLead /\ HarmInv
  BY DEF IInv
<1>b. state'[c] = s /\ state' \in [Clients -> States] /\ \A e \in Clients : e # c => state'[e] = state[e]
  BY <1>a, ExceptAt DEF TypesInv
<1>1. TypeOK'
  BY <1>a DEF TypeOK, NoRequest, NoDevice, Devices
<1>2. TypesInv'
  <2>1. \A e \in Clients : state'[e] # "new" => letter'[e] \in Letters
    BY <1>a, <1>b DEF TypesInv
  <2> QED BY <1>a, <1>b, <2>1 DEF TypesInv, NoDevice, Devices
<1>3. RequestInv'
  <2>1. \A e \in Clients : state[e] \in {"mounting"} \cup Past =>
          /\ state'[e] \in {"mounting"} \cup Past /\ letter'[e] = letter[e]
          /\ e \in Programs => device'[e] = device[e]
    BY <1>b
  <2>2. \A e \in Clients : state[e] = "unmounting" => state'[e] = "unmounting"
    BY <1>b
  <2> QED BY <1>a, <2>1, <2>2, RequestKept
<1>4. ASSUME NEW q \in Programs PROVE ProgramInv(q)'
  <2>1. CASE q = c
    BY <2>1
  <2>2. CASE q # c
    <3>1. \A r \in Programs : state'[r] = "serving" /\ mounter'[device'[r]] = r =>
            /\ state[r] = "serving" /\ mounter[device[r]] = r
            /\ letter'[r] = letter[r] /\ device'[r] = device[r]
      BY <1>b, Names
    <3>2. state'[q] = state[q] /\ letter'[q] = letter[q] /\ device'[q] = device[q]
      BY <1>b, <2>2, Names
    <3> QED BY <1>a, <2>2, <3>1, <3>2, ProgramKept
  <2> QED BY <2>1, <2>2
<1>5. LettersLead'
  <2>1. ASSUME NEW e \in Clients, state[e] \in {"released", "unmounting"}
        PROVE  \/ state'[e] \in {"released", "unmounting"} /\ letter'[e] = letter[e]
               \/ letter[e] \in stray' \/ defined[letter[e]] = NoDevice
    BY <1>b, <2>1
  <2> QED BY <1>a, <2>1, LettersKept
<1>6. HarmInv'
  <2>1. \A e \in Programs : state[e] \in Past => state'[e] \in Past
    BY <1>b, Names
  <2> QED BY <1>a, <2>1, HarmKept
<1> QED BY <1>1, <1>2, <1>3, <1>4, <1>5, <1>6 DEF IInv

\* The release of a device: its program has lost it, unless it has asked for
\* it, and the letter is left behind, unless it is removed as well.
LEMMA ReleaseSteps ==
  ASSUME IInv, NEW c \in Clients \cup {None}, NEW d \in Devices, NEW l, Release(c, d, l),
         UNCHANGED <<defined, table, service, request, stops, letter, device, instances>>,
         failed \subseteq failed', state' \in [Clients -> States],
         \A e \in Clients : e # c => state'[e] = state[e],
         c \in Clients => /\ state[c] \in {"leaving", "refused"} /\ state'[c] \in Past
                          /\ state'[c] # "unmounting",
         l \in Letters => c \in Clients /\ l = letter[c] /\ state'[c] = "released",
         c \in Programs => ProgramInv(c)' /\ c \in failed' \cup bereft \cup {mounter[d]}
  PROVE  IInv'
<1>a. /\ TypeOK /\ TypesInv /\ RequestInv /\ (\A p \in Programs : ProgramInv(p))
      /\ LettersLead /\ HarmInv
  BY DEF IInv
<1> DEFINE behind == {m \in Letters \ {l} : m = mounted[d] /\ defined[m] = d}
<1>b. /\ mounted' = [mounted EXCEPT ![d] = None] /\ mounter' = [mounter EXCEPT ![d] = None]
      /\ stray' = stray \cup behind
      /\ bereft' = bereft \cup ({mounter[d]} \ {c, None})
      /\ harmed' = (IF mounter[d] \in Programs \ {c} /\ state[mounter[d]] = "serving"
                    THEN harmed \cup {<<c, mounter[d]>>} ELSE harmed)
  BY DEF Release
<1>c. /\ mounted' \in [Devices -> Letters \cup {None}] /\ mounter' \in [Devices -> Programs \cup {None}]
      /\ mounted'[d] = None /\ mounter'[d] = None
      /\ \A e \in Devices : e # d => mounted'[e] = mounted[e] /\ mounter'[e] = mounter[e]
  BY <1>a, <1>b, ExceptAt DEF TypeOK
<1>1. TypeOK'
  <2>1. \A e \in Devices : mounted'[e] = None <=> mounter'[e] = None
    BY <1>a, <1>c DEF TypeOK
  <2>2. stray' \subseteq Letters
    BY <1>a, <1>b DEF TypeOK
  <2> QED BY <1>a, <1>c, <2>1, <2>2 DEF TypeOK, NoRequest, NoDevice, Devices
<1>2. TypesInv'
  <2>1. \A e \in Clients : state'[e] # "new" => letter'[e] \in Letters
    BY <1>a DEF TypesInv
  <2> QED BY <1>a, <2>1 DEF TypesInv, NoDevice, Devices
<1>3. RequestInv'
  <2>1. \A e \in Clients : state[e] \in {"mounting"} \cup Past => state'[e] \in {"mounting"} \cup Past
    OBVIOUS
  <2>2. \A e \in Clients : state[e] = "unmounting" => state'[e] = "unmounting"
    OBVIOUS
  <2> QED BY <1>a, <2>1, <2>2, RequestKept
<1>4. ASSUME NEW q \in Programs PROVE ProgramInv(q)'
  <2>1. CASE q = c
    BY <2>1
  <2>2. CASE q # c
    <3>1. ASSUME NEW r \in Programs, state'[r] = "serving", mounter'[device'[r]] = r
          PROVE  /\ state[r] = "serving" /\ mounter[device[r]] = r
                 /\ letter'[r] = letter[r] /\ device'[r] = device[r]
      <4>1. state[r] = "serving"
        BY <3>1, Names DEF Past
      <4>2. device[r] \in Devices /\ device[r] # d
        BY <1>a, <1>c, <3>1, Names DEF TypeOK
      <4> QED BY <1>c, <3>1, <4>1, <4>2
    <3>2. ASSUME mounter[device[q]] = q, q \notin bereft' PROVE mounter'[device[q]] = q
      <4>1. mounter[d] # q
        BY <1>b, <2>2, <3>2, Names
      <4> QED BY <1>a, <1>c, <3>2, <4>1 DEF TypeOK
    <3>3. q \in bereft => q \in bereft'
      BY <1>b
    <3> QED BY <1>a, <2>2, <3>1, <3>2, <3>3, ProgramKept, Names
  <2> QED BY <2>1, <2>2
<1>5. LettersLead'
  <2> SUFFICES ASSUME NEW m \in Letters, m \notin stray', defined[m] # NoDevice, mounted'[defined[m]] # m
               PROVE  \E e \in Clients : letter[e] = m /\ state'[e] \in {"released", "unmounting"}
    BY DEF LettersLead, NoDevice
  <2>1. defined[m] \in Devices
    BY <1>a DEF TypesInv
  <2>2. CASE mounted[defined[m]] = m
    <3>1. defined[m] = d
      BY <1>c, <2>1, <2>2
    <3>2. m = l
      BY <1>b, <2>2, <3>1
    <3> QED BY <3>2
  <2>3. CASE mounted[defined[m]] # m
    <3>1. m \notin stray
      BY <1>b
    <3>2. PICK e \in Clients : letter[e] = m /\ state[e] \in {"released", "unmounting"}
      BY <1>a, <2>3, <3>1 DEF LettersLead
    <3>3. e # c
      BY <3>2
    <3> QED BY <3>2, <3>3
  <2> QED BY <2>2, <2>3
<1>6. HarmInv'
  <2>1. ASSUME NEW pair \in harmed
        PROVE  /\ pair[1] \in Tools \cup {None} \cup failed' \cup bereft'
               /\ pair[1] \in Programs => state'[pair[1]] \in Past
    BY <1>a, <1>b, Names DEF HarmInv
  <2>2. CASE harmed' = harmed \cup {<<c, mounter[d]>>} /\ mounter[d] # c
    <3>1. c \in Tools \cup {None} \cup failed' \cup bereft'
      BY <1>b, <2>2 DEF Clients
    <3>2. c \in Programs => state'[c] \in Past
      BY Names
    <3> QED BY <2>1, <2>2, <3>1, <3>2 DEF HarmInv
  <2>3. CASE harmed' = harmed
    BY <2>1, <2>3 DEF HarmInv
  <2> QED BY <1>b, <2>2, <2>3
<1> QED BY <1>1, <1>2, <1>3, <1>4, <1>5, <1>6 DEF IInv

-----------------------------------------------------------------------------
(* Releasing.                                                              *)

\* SendReleaseIRP: the program that knows its own drive releases it and
\* nothing else.
LEMMA SendReleaseIRPSteps ==
  ASSUME IInv, NEW c \in Clients, SendReleaseIRP(c)
  PROVE  IInv'
<1>a. /\ TypeOK /\ TypesInv /\ RequestInv /\ (\A q \in Programs : ProgramInv(q))
      /\ LettersLead /\ HarmInv
  BY DEF IInv
<1>b. /\ state[c] = "leaving" /\ state' = [state EXCEPT ![c] = "released"]
      /\ UNCHANGED <<defined, table, service, request, stops, letter, device, instances, failed>>
      /\ IF defined[letter[c]] # NoDevice
         THEN Release(c, defined[letter[c]], letter[c])
         ELSE UNCHANGED <<mounted, mounter, stray, bereft, harmed>>
  BY DEF SendReleaseIRP, To, serviceVars, driverVars
<1>c. /\ state'[c] = "released" /\ \A e \in Clients : e # c => state'[e] = state[e]
      /\ state' \in [Clients -> States]
  <2>1. "released" \in States
    BY DEF States
  <2> QED BY <1>a, <1>b, <2>1, ExceptAt DEF TypesInv
<1>d. letter[c] \in Letters
  BY <1>a, <1>b DEF TypesInv
<1>1. CASE defined[letter[c]] # NoDevice
  <2> DEFINE d == defined[letter[c]]
  <2>1. d \in Devices /\ Release(c, d, letter[c])
    BY <1>a, <1>b, <1>d, <1>1 DEF TypesInv
  <2>2. mounter' = [mounter EXCEPT ![d] = None] /\ bereft \subseteq bereft'
    BY <2>1 DEF Release
  <2>3. ASSUME c \in Programs, c \notin failed' \cup bereft
        PROVE  mounter[d] = c /\ d = device[c]
    BY <1>a, <1>b, <2>3 DEF ProgramInv
  <2>4. ASSUME c \in Programs PROVE ProgramInv(c)'
    <3>1. ASSUME c \notin failed' \cup bereft', NEW q \in Programs, d = device'[q]
          PROVE  mounter'[device'[q]] # q
      <4>1. mounter'[d] = None
        BY <1>a, <2>1, <2>2 DEF TypeOK
      <4> QED BY <3>1, <4>1, Names
    <3> QED BY <1>1, <1>b, <1>c, <3>1 DEF ProgramInv, NoDevice
  <2>5. c \in Programs => c \in failed' \cup bereft \cup {mounter[d]}
    BY <2>3
  <2>6. state'[c] \in Past
    BY <1>c DEF Past
  <2> HIDE DEF d
  <2> QED BY <1>b, <1>c, <2>1, <2>4, <2>5, <2>6, ReleaseSteps
<1>2. CASE defined[letter[c]] = NoDevice
  <2>1. ASSUME c \in Programs PROVE c \in failed \cup bereft
    <3>1. device[c] \in Devices
      BY <1>a, <2>1 DEF TypeOK
    <3> QED BY <1>a, <1>b, <1>2, <2>1, <3>1, Names DEF ProgramInv
  <2>2. ASSUME c \in Programs PROVE ProgramInv(c)'
    BY <1>b, <1>c, <1>2, <2>1, <2>2 DEF ProgramInv
  <2>3. "released" \in States /\ "released" \in Past
    BY DEF States, Past
  <2> QED BY <1>a, <1>b, <1>d, <1>2, <2>2, <2>3, QuietSteps DEF TypeOK
<1> QED BY <1>1, <1>2

\* SendReleaseIRP2: DokanMain has failed.
LEMMA SendReleaseIRP2Steps ==
  ASSUME IInv, NEW p \in Programs, SendReleaseIRP2(p)
  PROVE  IInv'
<1>a. /\ TypeOK /\ TypesInv /\ RequestInv /\ (\A q \in Programs : ProgramInv(q))
      /\ LettersLead /\ HarmInv
  BY DEF IInv
<1>b. /\ state[p] = "refused" /\ state' = [state EXCEPT ![p] = "failed"]
      /\ failed' = failed \cup {p} /\ Release(p, device[p], None)
      /\ UNCHANGED <<defined, table, service, request, stops, letter, device, instances>>
  BY DEF SendReleaseIRP2, To, serviceVars
<1>c. /\ state'[p] = "failed" /\ \A e \in Clients : e # p => state'[e] = state[e]
      /\ state' \in [Clients -> States]
  <2>1. "failed" \in States
    BY DEF States
  <2> QED BY <1>a, <1>b, <2>1, ExceptAt, Names DEF TypesInv
<1>1. ProgramInv(p)'
  BY <1>b, <1>c DEF ProgramInv
<1>2. device[p] \in Devices /\ state'[p] \in Past /\ p \in Clients /\ None \notin Letters
  BY <1>a, <1>c, Names DEF TypeOK, Past
<1> QED BY <1>b, <1>c, <1>1, <1>2, ReleaseSteps

\* The keep-alive check releases a device: its own cause.
LEMMA ForceUnmountSteps ==
  ASSUME IInv, NEW d \in Devices, ForceUnmount(d)
  PROVE  IInv'
<1>1. /\ Release(None, d, None)
      /\ UNCHANGED <<defined, table, service, request, stops, state, letter, device, instances, failed>>
  BY DEF ForceUnmount, serviceVars, clientVars
<1>2. state \in [Clients -> States]
  BY DEF IInv, TypesInv
<1> QED BY <1>1, <1>2, ReleaseSteps, Names

-----------------------------------------------------------------------------
(* The pipe and the service.                                               *)

\* Connecting puts the request of a client into the pipe; the client waits.
LEMMA ConnectSteps ==
  ASSUME IInv, NEW c \in Clients, NEW type, Connect(c, type),
         \/ type = "mount" /\ c \in Programs /\ state[c] = "started"
            /\ state' = [state EXCEPT ![c] = "mounting"]
         \/ type = "unmount" /\ state[c] = "released"
            /\ state' = [state EXCEPT ![c] = "unmounting"],
         UNCHANGED <<mounted, mounter, defined, table, stops, letter, device, instances>>,
         UNCHANGED <<stray, failed, bereft, harmed>>
  PROVE  IInv'
<1>a. /\ TypeOK /\ TypesInv /\ RequestInv /\ (\A q \in Programs : ProgramInv(q))
      /\ LettersLead /\ HarmInv
  BY DEF IInv
<1>b. /\ service = "waiting" /\ service' = "connected"
      /\ request' = [from |-> c, type |-> type, drive |-> letter[c],
                     number |-> IF c \in Programs THEN device[c] ELSE 0]
  BY DEF Connect
<1>c. \/ type = "mount" /\ c \in Programs /\ state[c] = "started" /\ state'[c] = "mounting"
      \/ type = "unmount" /\ state[c] = "released" /\ state'[c] = "unmounting"
  BY <1>a, ExceptAt DEF TypesInv
<1>d. \A e \in Clients : e # c => state'[e] = state[e]
  BY <1>a, ExceptAt DEF TypesInv
<1>1. TypeOK'
  <2>1. request' # NoRequest
    BY <1>b, Names DEF NoRequest
  <2> QED BY <1>a, <1>b, <2>1 DEF TypeOK, NoDevice, Devices
<1>2. TypesInv'
  <2>1. state' \in [Clients -> States]
    <3>1. "mounting" \in States /\ "unmounting" \in States
      BY DEF States
    <3> QED BY <1>a, <3>1, ExceptAt DEF TypesInv
  <2>2. \A e \in Clients : state'[e] # "new" => letter'[e] \in Letters
    BY <1>a, <1>c, <1>d DEF TypesInv
  <2> QED BY <1>a, <2>1, <2>2 DEF TypesInv, NoDevice, Devices
<1>3. RequestInv'
  BY <1>b, <1>c DEF RequestInv
<1>4. ASSUME NEW q \in Programs PROVE ProgramInv(q)'
  <2>0. \A r \in Programs : state'[r] = "serving" => state[r] = "serving"
    BY <1>c, <1>d, Names
  <2>1. CASE q = c
    BY <1>a, <1>c, <2>0, <2>1 DEF ProgramInv, NoDevice
  <2>2. CASE q # c
    BY <1>a, <1>d, <2>0, <2>2, ProgramKept, Names
  <2> QED BY <2>1, <2>2
<1>5. LettersLead'
  <2>1. ASSUME NEW e \in Clients, state[e] \in {"released", "unmounting"}
        PROVE  state'[e] \in {"released", "unmounting"}
    BY <1>c, <1>d, <2>1
  <2> QED BY <1>a, <2>1, LettersKept
<1>6. HarmInv'
  <2>1. \A e \in Programs : state[e] \in Past => state'[e] \in Past
    BY <1>c, <1>d, Names DEF Past
  <2> QED BY <1>a, <2>1, HarmKept
<1> QED BY <1>1, <1>2, <1>3, <1>4, <1>5, <1>6 DEF IInv

\* DokanControlMount: a letter that leads nowhere is defined, and no unmount
\* under way loses its letter by it.
LEMMA ControlMountSteps ==
  ASSUME IInv, NEW ok \in BOOLEAN, ControlMount(ok)
  PROVE  IInv'
<1>a. /\ TypeOK /\ TypesInv /\ RequestInv /\ (\A q \in Programs : ProgramInv(q))
      /\ LettersLead /\ HarmInv
  BY DEF IInv
<1> DEFINE p == request.from
           l == request.drive
           d == request.number
<1>b. PICK done \in BOOLEAN :
        /\ done => defined[l] = NoDevice
        /\ defined' = (IF done THEN [defined EXCEPT ![l] = d] ELSE defined)
        /\ table' = (IF done THEN [table EXCEPT ![l] = d] ELSE table)
        /\ state' = [state EXCEPT ![p] = IF state[p] # "mounting" THEN state[p]
                                        ELSE IF done THEN "serving" ELSE "refused"]
        /\ stray' = (IF done /\ mounted[d] # l THEN stray \cup {l} ELSE stray)
  <2> DEFINE D == ok /\ ~Taken(l)
  <2>1. D \in BOOLEAN /\ (D => defined[l] = NoDevice)
    BY DEF Taken
  <2>2. /\ defined' = (IF D THEN [defined EXCEPT ![l] = d] ELSE defined)
        /\ table' = (IF D THEN [table EXCEPT ![l] = d] ELSE table)
        /\ state' = [state EXCEPT ![p] = IF state[p] # "mounting" THEN state[p]
                                        ELSE IF D THEN "serving" ELSE "refused"]
        /\ stray' = (IF D /\ mounted[d] # l THEN stray \cup {l} ELSE stray)
    BY DEF ControlMount, To
  <2> HIDE DEF D
  <2> QED BY <2>1, <2>2
<1>c. /\ service = "connected" /\ request.type = "mount" /\ service' = "answered"
      /\ request' = NoRequest
      /\ UNCHANGED <<mounted, mounter, stops, letter, device, instances, failed, bereft, harmed>>
  BY DEF ControlMount, driverVars
<1>d. /\ p \in Programs /\ p \in Clients /\ l = letter[p] /\ d = device[p]
      /\ state[p] \in {"mounting"} \cup Past
      /\ l \in Letters /\ d \in Devices
  <2>1. request # NoRequest
    BY <1>a, <1>c DEF TypeOK
  <2>2. p \in Programs /\ l = letter[p] /\ d = device[p] /\ state[p] \in {"mounting"} \cup Past
    BY <1>a, <1>c, <2>1 DEF RequestInv
  <2> HIDE DEF p, l, d
  <2>3. state[p] # "new"
    BY <2>2 DEF Past
  <2> QED BY <1>a, <2>2, <2>3, Names DEF TypeOK, TypesInv
<1> HIDE DEF p, l, d
<1>e. /\ state[p] = "mounting" => state'[p] = (IF done THEN "serving" ELSE "refused")
      /\ state[p] # "mounting" => state'[p] = state[p]
      /\ \A e \in Clients : e # p => state'[e] = state[e]
      /\ state' \in [Clients -> States]
  <2>1. PICK s \in States :
          /\ state' = [state EXCEPT ![p] = s]
          /\ state[p] = "mounting" => s = (IF done THEN "serving" ELSE "refused")
          /\ state[p] # "mounting" => s = state[p]
    <3>1. "serving" \in States /\ "refused" \in States /\ state[p] \in States
      BY <1>a, <1>d DEF States, TypesInv
    <3> QED BY <1>b, <3>1
  <2> QED BY <1>a, <1>d, <2>1, ExceptAt DEF TypesInv
<1>h. \A e \in Clients : state[e] # "mounting" => state'[e] = state[e]
  BY <1>e
<1>f. /\ defined' \in [Letters -> Devices \cup {NoDevice}] /\ table' \in [Letters -> Devices \cup {NoDevice}]
      /\ done => defined'[l] = d /\ table'[l] = d
      /\ \A m \in Letters : m # l => defined'[m] = defined[m] /\ table'[m] = table[m]
  <2>1. /\ defined \in [Letters -> Devices \cup {NoDevice}] /\ table \in [Letters -> Devices \cup {NoDevice}]
        /\ d \in Devices \cup {NoDevice}
    BY <1>a, <1>d DEF TypesInv
  <2>2. CASE done
    BY <1>b, <1>d, <2>1, <2>2, ExceptAt
  <2>3. CASE ~done
    BY <1>b, <2>1, <2>3
  <2> QED BY <2>2, <2>3
<1>g. ~done => defined' = defined /\ table' = table /\ stray' = stray
  BY <1>b
<1>1. TypeOK'
  <2>1. ASSUME NEW m \in Letters
        PROVE  /\ defined'[m] \in Devices \/ defined'[m] = NoDevice
               /\ table'[m] # NoDevice => table'[m] = defined'[m]
    BY <1>a, <1>f, <1>g DEF TypeOK
  <2>2. stray' \subseteq Letters
    BY <1>a, <1>b, <1>d DEF TypeOK
  <2> QED BY <1>a, <1>c, <2>1, <2>2 DEF TypeOK, NoDevice, Devices, NoRequest
<1>2. TypesInv'
  <2>1. \A e \in Clients : state'[e] # "new" => letter'[e] \in Letters
    BY <1>a, <1>c, <1>d, <1>e, <1>h DEF TypesInv
  <2> QED BY <1>e, <1>f, <2>1 DEF TypesInv, NoDevice, Devices
<1>3. RequestInv'
  BY <1>c DEF RequestInv, NoRequest
<1>4. ASSUME NEW q \in Programs PROVE ProgramInv(q)'
  <2>1. CASE q = p /\ state[p] = "mounting" /\ done
    BY <1>a, <1>c, <1>d, <1>e, <1>f, <2>1 DEF ProgramInv
  <2>2. CASE q = p /\ state[p] = "mounting" /\ ~done
    BY <1>e, <2>2 DEF ProgramInv
  <2>3. CASE q # p \/ state[p] # "mounting"
    <3>0. state[q] # "new" => letter[q] \in Letters
      BY <1>a, Names DEF TypesInv
    <3>1. state'[q] = state[q] /\ device[q] \in Devices /\ NoDevice \notin Devices
      BY <1>a, <1>e, <2>3, Names DEF TypeOK
    <3>2. \/ state[q] = "serving" /\ q \notin bereft
          \/ state[q] = "leaving" /\ q \notin failed \cup bereft
          => mounter'[device'[q]] = q /\ defined'[letter'[q]] = device'[q]
      <4> SUFFICES ASSUME \/ state[q] = "serving" /\ q \notin bereft
                          \/ state[q] = "leaving" /\ q \notin failed \cup bereft
                   PROVE  mounter[device[q]] = q /\ defined'[letter[q]] = device[q]
        BY <1>c
      <4>1. mounter[device[q]] = q /\ defined[letter[q]] = device[q]
        BY <1>a DEF ProgramInv
      <4>2. letter[q] \in Letters
        BY <3>0
      <4>3. done => letter[q] # l
        BY <1>b, <3>1, <4>1
      <4> QED BY <1>f, <1>g, <4>1, <4>2, <4>3
    <3>3. ASSUME state[q] \in {"released", "unmounting"}, q \notin failed \cup bereft
          PROVE  /\ defined'[letter[q]] # NoDevice
                 /\ \A r \in Programs :
                      state'[r] = "serving" /\ letter[r] = letter[q] /\ defined'[letter[q]] = device[r] =>
                        mounter[device[r]] # r
      <4>1. /\ defined[letter[q]] # NoDevice
            /\ \A r \in Programs :
                 state[r] = "serving" /\ letter[r] = letter[q] /\ defined[letter[q]] = device[r] =>
                   mounter[device[r]] # r
        BY <1>a, <3>3 DEF ProgramInv
      <4>2. letter[q] \in Letters
        BY <3>0, <3>3
      <4>3. done => letter[q] # l
        BY <1>b, <4>1
      <4>4. defined'[letter[q]] = defined[letter[q]]
        BY <1>f, <1>g, <4>2, <4>3
      <4>5. \A r \in Programs : state'[r] = "serving" /\ letter[r] = letter[q] => state[r] = "serving"
        BY <1>d, <1>e, <4>3, Names
      <4> QED BY <4>1, <4>4, <4>5
    <3> QED BY <1>a, <1>c, <3>1, <3>2, <3>3 DEF ProgramInv, NoDevice
  <2> QED BY <2>1, <2>2, <2>3
<1>5. LettersLead'
  <2> SUFFICES ASSUME NEW m \in Letters, m \notin stray', defined'[m] # NoDevice, mounted[defined'[m]] # m
               PROVE  \E e \in Clients : letter[e] = m /\ state'[e] \in {"released", "unmounting"}
    BY <1>c DEF LettersLead, NoDevice
  <2>1. ~(done /\ m = l) /\ m \notin stray
    BY <1>b, <1>f
  <2>2. defined'[m] = defined[m]
    BY <1>f, <1>g, <2>1
  <2>3. PICK e \in Clients : letter[e] = m /\ state[e] \in {"released", "unmounting"}
    BY <1>a, <2>1, <2>2 DEF LettersLead
  <2> QED BY <1>h, <2>3
<1>6. HarmInv'
  <2>1. \A e \in Programs : state[e] \in Past => state'[e] \in Past
    BY <1>h, Names DEF Past
  <2> QED BY <1>a, <1>c, <2>1, HarmKept
<1> QED BY <1>1, <1>2, <1>3, <1>4, <1>5, <1>6 DEF IInv

\* DokanControlUnmount: the letter is removed whoever has it, and whoever had
\* it is bereft; a program that unmounts its own drive takes nobody's.
LEMMA ControlUnmountSteps ==
  ASSUME IInv, ControlUnmount
  PROVE  IInv'
<1>a. /\ TypeOK /\ TypesInv /\ RequestInv /\ (\A q \in Programs : ProgramInv(q))
      /\ LettersLead /\ HarmInv
  BY DEF IInv
<1> DEFINE c == request.from
           l == request.drive
           others == {p \in Programs \ {c} : letter[p] = l /\ (state[p] = "serving" \/ Leaving(p))}
           hadIt == {p \in others : state[p] = "serving" /\ mounter[device[p]] = p
                                      /\ defined[l] = device[p]}
<1>b. /\ service = "connected" /\ request.type = "unmount" /\ service' = "answered"
      /\ defined' = [defined EXCEPT ![l] = NoDevice] /\ table' = [table EXCEPT ![l] = NoDevice]
      /\ state' = [state EXCEPT ![c] = "gone"] /\ request' = NoRequest
      /\ stray' = stray \ {l} /\ bereft' = bereft \cup others
      /\ harmed' = harmed \cup {<<c, p>> : p \in hadIt}
      /\ UNCHANGED <<mounted, mounter, stops, letter, device, instances, failed>>
  BY DEF ControlUnmount, To, ClearEntry, driverVars
<1>c. c \in Clients /\ l = letter[c] /\ state[c] = "unmounting" /\ l \in Letters
  <2>1. request # NoRequest
    BY <1>a, <1>b DEF TypeOK
  <2>2. c \in Clients /\ l = letter[c] /\ state[c] = "unmounting"
    BY <1>a, <1>b, <2>1 DEF RequestInv
  <2> HIDE DEF c, l
  <2> QED BY <1>a, <2>2 DEF TypesInv
<1> HIDE DEF c, l
<1>d. /\ state'[c] = "gone" /\ \A e \in Clients : e # c => state'[e] = state[e]
      /\ state' \in [Clients -> States]
  <2>1. "gone" \in States
    BY DEF States
  <2> QED BY <1>a, <1>b, <1>c, <2>1, ExceptAt DEF TypesInv
<1>e. /\ defined' \in [Letters -> Devices \cup {NoDevice}] /\ table' \in [Letters -> Devices \cup {NoDevice}]
      /\ defined'[l] = NoDevice /\ table'[l] = NoDevice
      /\ \A m \in Letters : m # l => defined'[m] = defined[m] /\ table'[m] = table[m]
  BY <1>a, <1>b, <1>c, ExceptAt DEF TypesInv
<1>f. bereft \subseteq bereft' /\ others \subseteq bereft'
  BY <1>b
<1>1. TypeOK'
  <2>1. ASSUME NEW m \in Letters
        PROVE  /\ defined'[m] \in Devices \/ defined'[m] = NoDevice
               /\ table'[m] # NoDevice => table'[m] = defined'[m]
    BY <1>a, <1>e DEF TypeOK
  <2>2. stray' \subseteq Letters
    BY <1>a, <1>b DEF TypeOK
  <2> QED BY <1>a, <1>b, <2>1, <2>2 DEF TypeOK, NoDevice, Devices, NoRequest
<1>2. TypesInv'
  <2>1. \A e \in Clients : state'[e] # "new" => letter'[e] \in Letters
    BY <1>a, <1>b, <1>c, <1>d DEF TypesInv
  <2> QED BY <1>d, <1>e, <2>1 DEF TypesInv, NoDevice, Devices
<1>3. RequestInv'
  BY <1>b DEF RequestInv, NoRequest
<1>4. ASSUME NEW q \in Programs PROVE ProgramInv(q)'
  <2>1. CASE q = c
    BY <1>d, <2>1 DEF ProgramInv
  <2>2. CASE q # c /\ letter[q] = l /\ (state[q] = "serving" \/ Leaving(q))
    <3>1. q \in bereft' /\ state'[q] \in {"serving", "leaving", "released", "unmounting"}
      BY <1>d, <1>f, <2>2, Names DEF Leaving
    <3> QED BY <3>1 DEF ProgramInv
  <2>3. CASE q # c /\ ~(letter[q] = l /\ (state[q] = "serving" \/ Leaving(q)))
    <3>1. state'[q] = state[q]
      BY <1>d, <2>3, Names
    <3>2. \A r \in Programs : state'[r] = "serving" => state[r] = "serving"
      BY <1>d, Names
    <3>3. CASE letter[q] = l
      BY <1>a, <1>b, <1>f, <2>3, <3>1, <3>3 DEF ProgramInv, Leaving
    <3>4. CASE letter[q] # l
      <4>1. CASE state[q] = "new"
        BY <3>1, <4>1 DEF ProgramInv
      <4>2. CASE state[q] # "new"
        <5>1. defined'[letter[q]] = defined[letter[q]]
          BY <1>a, <1>e, <3>4, <4>2, Names DEF TypesInv
        <5> QED BY <1>a, <1>b, <1>f, <3>1, <3>2, <5>1, ProgramKept
      <4> QED BY <4>1, <4>2
    <3> QED BY <3>3, <3>4
  <2> QED BY <2>1, <2>2, <2>3
<1>5. LettersLead'
  <2> SUFFICES ASSUME NEW m \in Letters, m \notin stray', defined'[m] # NoDevice, mounted[defined'[m]] # m
               PROVE  \E e \in Clients : letter[e] = m /\ state'[e] \in {"released", "unmounting"}
    BY <1>b DEF LettersLead, NoDevice
  <2>1. m # l /\ m \notin stray /\ defined'[m] = defined[m]
    BY <1>b, <1>e
  <2>2. PICK e \in Clients : letter[e] = m /\ state[e] \in {"released", "unmounting"}
    BY <1>a, <2>1 DEF LettersLead
  <2> QED BY <1>c, <1>d, <2>1, <2>2
<1>6. HarmInv'
  <2>1. ASSUME NEW pair \in harmed
        PROVE  /\ pair[1] \in Tools \cup {None} \cup failed' \cup bereft'
               /\ pair[1] \in Programs => state'[pair[1]] \in Past
    <3>1. /\ pair[1] \in Tools \cup {None} \cup failed \cup bereft
          /\ pair[1] \in Programs => state[pair[1]] \in Past
      BY <1>a DEF HarmInv
    <3>2. pair[1] \in Programs => state'[pair[1]] \in Past
      BY <1>d, <3>1, Names DEF Past
    <3> QED BY <1>b, <1>f, <3>1, <3>2
  <2>2. ASSUME NEW p \in hadIt PROVE c \in Tools \cup failed' \cup bereft'
    <3> SUFFICES ASSUME c \in Programs, c \notin failed \cup bereft PROVE FALSE
      BY <1>b, <1>c, <1>f DEF Clients
    <3>1. p \in Programs /\ state[p] = "serving" /\ letter[p] = l /\ defined[l] = device[p] /\ mounter[device[p]] = p
      OBVIOUS
    <3> HIDE DEF hadIt, others
    <3> QED BY <1>a, <1>c, <3>1 DEF ProgramInv
  <2>3. c \in Programs => state'[c] \in Past
    BY <1>d DEF Past
  <2> HIDE DEF hadIt, others
  <2> QED BY <1>b, <2>1, <2>2, <2>3 DEF HarmInv
<1> QED BY <1>1, <1>2, <1>3, <1>4, <1>5, <1>6 DEF IInv

\* The service listens, stops and starts again; the letters stay.
LEMMA ServiceSteps ==
  ASSUME IInv, ListenAgain \/ StopService \/ StartService
  PROVE  IInv'
<1>a. /\ TypeOK /\ TypesInv /\ RequestInv /\ (\A q \in Programs : ProgramInv(q))
      /\ LettersLead /\ HarmInv
  BY DEF IInv
<1>b. /\ UNCHANGED <<mounted, mounter, defined, request, state, letter, device, instances>>
      /\ UNCHANGED <<stray, failed, bereft, harmed>>
      /\ service \in {"answered", "waiting", "stopped"} /\ service' \in {"waiting", "stopped"}
      /\ table' = table \/ table' = [l \in Letters |-> NoDevice]
      /\ stops' = stops \/ (stops < MaxStops /\ stops' = stops + 1)
  BY DEF ListenAgain, StopService, StartService, driverVars, clientVars, history
<1>1. TypeOK'
  <2>1. stops' \in 0..MaxStops
    BY <1>a, <1>b, MountServiceAssumption DEF TypeOK
  <2>2. \A l \in Letters : table'[l] # NoDevice => table'[l] = defined[l]
    BY <1>a, <1>b DEF TypeOK
  <2> QED BY <1>a, <1>b, <2>1, <2>2 DEF TypeOK, NoRequest, NoDevice, Devices
<1>2. TypesInv'
  BY <1>a, <1>b DEF TypesInv, NoDevice, Devices
<1>3. RequestInv'
  BY <1>a, <1>b, RequestKept
<1>4. ASSUME NEW q \in Programs PROVE ProgramInv(q)'
  BY <1>a, <1>b, ProgramKept
<1>5. LettersLead'
  BY <1>a, <1>b, LettersKept
<1>6. HarmInv'
  BY <1>a, <1>b, HarmKept
<1> QED BY <1>1, <1>2, <1>3, <1>4, <1>5, <1>6 DEF IInv


-----------------------------------------------------------------------------
(* DokanMain and dokanctl.                                                 *)

\* DokanStart takes a device that nobody has.
LEMMA EventStartSteps ==
  ASSUME IInv, NEW p \in Programs, EventStart(p)
  PROVE  IInv'
<1>a. /\ TypeOK /\ TypesInv /\ RequestInv /\ (\A q \in Programs : ProgramInv(q))
      /\ LettersLead /\ HarmInv
  BY DEF IInv
<1> DEFINE d == device[p]
<1>b. /\ state[p] = "starting" /\ mounted[d] = None /\ state' = [state EXCEPT ![p] = "started"]
      /\ mounted' = [mounted EXCEPT ![d] = letter[p]] /\ mounter' = [mounter EXCEPT ![d] = p]
      /\ UNCHANGED <<defined, table, service, request, stops, letter, device, instances>>
      /\ UNCHANGED <<stray, failed, bereft, harmed>>
  BY DEF EventStart, To, serviceVars, history
<1>c. /\ d \in Devices /\ mounter[d] = None /\ letter[p] \in Letters /\ p \in Clients
      /\ d = device[p]
  BY <1>a, <1>b, Names DEF TypeOK, TypesInv
<1> HIDE DEF d
<1>d. /\ mounted' \in [Devices -> Letters \cup {None}] /\ mounter' \in [Devices -> Programs \cup {None}]
      /\ mounted'[d] = letter[p] /\ mounter'[d] = p
      /\ \A e \in Devices : e # d => mounted'[e] = mounted[e] /\ mounter'[e] = mounter[e]
  BY <1>a, <1>b, <1>c, ExceptAt DEF TypeOK
<1>e. /\ state'[p] = "started" /\ \A e \in Clients : e # p => state'[e] = state[e]
      /\ state' \in [Clients -> States]
  <2>1. "started" \in States
    BY DEF States
  <2> QED BY <1>a, <1>b, <1>c, <2>1, ExceptAt DEF TypesInv
<1>1. TypeOK'
  <2>1. \A e \in Devices : mounted'[e] = None <=> mounter'[e] = None
    BY <1>a, <1>c, <1>d, Names DEF TypeOK
  <2> QED BY <1>a, <1>b, <1>d, <2>1 DEF TypeOK, NoRequest, NoDevice, Devices
<1>2. TypesInv'
  <2>1. \A e \in Clients : state'[e] # "new" => letter'[e] \in Letters
    BY <1>a, <1>b, <1>c, <1>e DEF TypesInv
  <2> QED BY <1>a, <1>b, <1>e, <2>1 DEF TypesInv, NoDevice, Devices
<1>3. RequestInv'
  <2>1. \A e \in Clients : state[e] \in {"mounting"} \cup Past => e # p
    BY <1>b DEF Past
  <2>2. \A e \in Clients : state[e] \in {"mounting"} \cup Past => state'[e] \in {"mounting"} \cup Past
    BY <1>e, <2>1
  <2>3. \A e \in Clients : state[e] = "unmounting" => state'[e] = "unmounting"
    BY <1>b, <1>e
  <2> QED BY <1>a, <1>b, <2>2, <2>3, RequestKept
<1>4. ASSUME NEW q \in Programs PROVE ProgramInv(q)'
  <2>1. CASE q = p
    BY <1>b, <1>c, <1>d, <1>e, <2>1 DEF ProgramInv
  <2>2. CASE q # p
    <3>1. mounter[device[q]] = q => mounter'[device[q]] = q
      BY <1>a, <1>c, <1>d, Names DEF TypeOK
    <3>2. ASSUME NEW r \in Programs, state'[r] = "serving", mounter'[device'[r]] = r
          PROVE  state[r] = "serving" /\ mounter[device[r]] = r
      <4>1. r # p
        BY <1>e, <3>2
      <4>2. device[r] \in Devices /\ device[r] # d
        BY <1>a, <1>b, <1>d, <3>2, <4>1 DEF TypeOK
      <4> QED BY <1>b, <1>d, <1>e, <3>2, <4>1, <4>2, Names
    <3>3. state'[q] = state[q]
      BY <1>e, <2>2, Names
    <3> QED BY <1>a, <1>b, <3>1, <3>2, <3>3, ProgramKept
  <2> QED BY <2>1, <2>2
<1>5. LettersLead'
  <2> SUFFICES ASSUME NEW m \in Letters, m \notin stray, defined[m] # NoDevice, mounted'[defined[m]] # m
               PROVE  \E e \in Clients : letter[e] = m /\ state'[e] \in {"released", "unmounting"}
    BY <1>b DEF LettersLead, NoDevice
  <2>1. defined[m] \in Devices
    BY <1>a DEF TypesInv
  <2>2. mounted[defined[m]] # m
    BY <1>b, <1>c, <1>d, <2>1, Names
  <2>3. PICK e \in Clients : letter[e] = m /\ state[e] \in {"released", "unmounting"}
    BY <1>a, <2>2 DEF LettersLead
  <2> QED BY <1>b, <1>e, <2>3
<1>6. HarmInv'
  <2>1. \A e \in Programs : state[e] \in Past => state'[e] \in Past
    BY <1>b, <1>e, Names DEF Past
  <2> QED BY <1>a, <1>b, <2>1, HarmKept
<1> QED BY <1>1, <1>2, <1>3, <1>4, <1>5, <1>6 DEF IInv

\* The steps of a program that nobody else sees: only one that ends without its
\* drive, or before it had one, goes on to unmount what is not its own.
LEMMA ProgramSteps ==
  ASSUME IInv, NEW p \in Programs,
         Run(p) \/ EventStartUsed(p) \/ MountRefused(p) \/ LoopsEnd(p) \/ Exit(p)
  PROVE  IInv'
<1>a. /\ TypeOK /\ TypesInv /\ RequestInv /\ (\A q \in Programs : ProgramInv(q))
      /\ LettersLead /\ HarmInv
  BY DEF IInv
<1>b. /\ p \in Clients /\ \A s \in {"starting", "refused", "ended", "failed", "leaving", "gone"} : s \in States
      /\ letter \in [Clients -> Letters \cup {None}] /\ device \in [Programs -> Devices]
      /\ instances \subseteq Programs /\ stray \subseteq Letters
      /\ state[p] # "new" => letter[p] \in Letters
  BY <1>a, Names DEF TypeOK, TypesInv, States
<1>c. ASSUME NEW s, state' = [state EXCEPT ![p] = s] PROVE state'[p] = s
  BY <1>a, <1>b, <1>c, ExceptAt DEF TypesInv
<1>1. CASE Run(p)
  <2>1. /\ state[p] = "new" /\ state' = [state EXCEPT ![p] = "starting"]
        /\ instances' = instances \cup {p}
        /\ UNCHANGED <<mounted, mounter, defined, table, service, request, stops, device>>
        /\ UNCHANGED <<stray, failed, bereft, harmed>>
    BY <1>1 DEF Run, To, driverVars, serviceVars, history
  <2>2. PICK l \in Letters : letter' = [letter EXCEPT ![p] = l]
    BY <1>1 DEF Run
  <2>3. /\ letter' \in [Clients -> Letters \cup {None}] /\ letter'[p] \in Letters
        /\ \A e \in Clients : e # p => letter'[e] = letter[e]
    BY <1>b, <2>2, ExceptAt
  <2>4. ProgramInv(p)'
    BY <1>c, <2>1 DEF ProgramInv
  <2>5. "starting" \in States /\ state[p] \notin Past
    BY <1>b, <2>1 DEF Past
  <2> QED BY <1>b, <2>1, <2>3, <2>4, <2>5, QuietSteps
<1>2. CASE EventStartUsed(p)
  <2>1. /\ state[p] = "starting"
        /\ UNCHANGED <<mounted, mounter, defined, table, service, request, stops, letter, instances>>
        /\ UNCHANGED <<stray, bereft, harmed>>
        /\ \/ /\ device[p] + 1 < DeviceMax /\ device' = [device EXCEPT ![p] = device[p] + 1]
              /\ state' = state /\ failed' = failed
           \/ /\ state' = [state EXCEPT ![p] = "failed"] /\ failed' = failed \cup {p} /\ device' = device
    BY <1>2 DEF EventStartUsed, To, driverVars, serviceVars
  <2>2. /\ device' \in [Programs -> Devices] /\ \A q \in Programs : q # p => device'[q] = device[q]
    <3>1. device[p] + 1 < DeviceMax => device[p] + 1 \in Devices
      BY <1>b, MountServiceAssumption DEF Devices
    <3> QED BY <1>b, <2>1, <3>1, ExceptAt
  <2>3. PICK s \in {"starting", "failed"} : state' = [state EXCEPT ![p] = s]
    BY <1>a, <2>1 DEF TypesInv
  <2>4. ProgramInv(p)'
    BY <1>a, <1>c, <2>1 DEF ProgramInv
  <2>5. s \in States /\ state[p] \notin Past
    BY <1>b, <2>1 DEF Past
  <2> QED BY <1>b, <2>1, <2>2, <2>3, <2>4, <2>5, QuietSteps
<1>3. CASE MountRefused(p)
  <2>1. /\ state[p] = "started" /\ state' = [state EXCEPT ![p] = "refused"]
        /\ UNCHANGED <<mounted, mounter, defined, table, service, request, stops, letter, device, instances>>
        /\ UNCHANGED <<stray, failed, bereft, harmed>>
    BY <1>3 DEF MountRefused, To, driverVars, serviceVars, history
  <2>2. ProgramInv(p)'
    BY <1>c, <2>1 DEF ProgramInv
  <2>3. "refused" \in States /\ state[p] \notin Past
    BY <1>b, <2>1 DEF Past
  <2> QED BY <1>b, <2>1, <2>2, <2>3, QuietSteps
<1>4. CASE LoopsEnd(p)
  <2>1. /\ state[p] = "serving" /\ state' = [state EXCEPT ![p] = "ended"]
        /\ instances' = instances \ {p} /\ bereft' = bereft \ {p}
        /\ UNCHANGED <<mounted, mounter, defined, table, service, request, stops, letter, device>>
        /\ UNCHANGED <<stray, failed, harmed>>
    BY <1>4 DEF LoopsEnd, To, DeleteDokanInstance, driverVars, serviceVars
  <2>2. ProgramInv(p)'
    BY <1>c, <2>1 DEF ProgramInv
  <2>3. "ended" \in States /\ state[p] \notin Past
    BY <1>b, <2>1 DEF Past
  <2> QED BY <1>b, <2>1, <2>2, <2>3, QuietSteps
<1>5. CASE Exit(p)
  <2>1. /\ state[p] \in {"starting", "started", "mounting", "refused", "serving", "ended", "failed"}
        /\ state' = [state EXCEPT ![p] = IF p \in instances THEN "leaving" ELSE "gone"]
        /\ instances' = instances \ {p} /\ failed' = Unserved(p)
        /\ UNCHANGED <<mounted, mounter, defined, table, service, request, stops, letter, device>>
        /\ UNCHANGED <<stray, bereft, harmed>>
    BY <1>5 DEF Exit, To, driverVars, serviceVars
  <2>2. PICK s \in {"leaving", "gone"} :
          state' = [state EXCEPT ![p] = s] /\ (s = "leaving" => p \in instances)
    BY <2>1
  <2>3. /\ failed \subseteq failed'
        /\ state[p] \in {"serving", "ended", "failed"} \/ p \in failed'
    BY <2>1 DEF Unserved
  <2>4. ProgramInv(p)'
    BY <1>a, <1>c, <2>1, <2>2, <2>3 DEF ProgramInv
  <2>5. s \in States /\ s \in Past
    BY <1>b, <2>2 DEF Past
  <2>6. state[p] # "unmounting" /\ state[p] # "new" /\ state[p] \notin {"released", "unmounting"}
    BY <2>1
  <2> QED BY <1>b, <2>1, <2>2, <2>3, <2>4, <2>5, <2>6, QuietSteps
<1> QED BY <1>1, <1>2, <1>3, <1>4, <1>5

\* dokanctl picks a letter; a client that is turned away or killed leaves its
\* own behind.
LEMMA ClientSteps ==
  ASSUME IInv, NEW c \in Clients, UnmountRefused(c) \/ Kill(c) \/ (c \in Tools /\ Dokanctl(c))
  PROVE  IInv'
<1>a. /\ TypeOK /\ TypesInv /\ RequestInv /\ (\A q \in Programs : ProgramInv(q))
      /\ LettersLead /\ HarmInv
  BY DEF IInv
<1>b. /\ letter \in [Clients -> Letters \cup {None}] /\ device \in [Programs -> Devices]
      /\ instances \subseteq Programs /\ stray \subseteq Letters
      /\ state[c] # "new" => letter[c] \in Letters
  BY <1>a DEF TypeOK, TypesInv
<1>c. ASSUME NEW s, state' = [state EXCEPT ![c] = s] PROVE state'[c] = s
  BY <1>a, <1>c, ExceptAt DEF TypesInv
<1>1. CASE UnmountRefused(c)
  <2>1. /\ state[c] = "released" /\ state' = [state EXCEPT ![c] = "gone"]
        /\ stray' = stray \cup {l \in Letters : l = letter[c] /\ defined[l] # NoDevice}
        /\ UNCHANGED <<mounted, mounter, defined, table, service, request, stops, letter, device, instances>>
        /\ UNCHANGED <<failed, bereft, harmed>>
    BY <1>1 DEF UnmountRefused, To, driverVars, serviceVars
  <2>2. c \in Programs => ProgramInv(c)'
    BY <1>c, <2>1 DEF ProgramInv
  <2>3. "gone" \in States /\ "gone" \in Past /\ letter[c] \in Letters
    BY <1>b, <2>1 DEF Past, States
  <2>4. /\ stray \subseteq stray' /\ stray' \subseteq Letters
        /\ letter[c] \in stray' \/ defined[letter[c]] = NoDevice
    BY <1>b, <2>1, <2>3
  <2> QED BY <1>b, <2>1, <2>2, <2>3, <2>4, QuietSteps
<1>2. CASE c \in Tools /\ Dokanctl(c)
  <2>1. /\ state[c] = "new" /\ state' = [state EXCEPT ![c] = "leaving"]
        /\ UNCHANGED <<mounted, mounter, defined, table, service, request, stops, device, instances>>
        /\ UNCHANGED <<stray, failed, bereft, harmed>>
    BY <1>2 DEF Dokanctl, To, driverVars, serviceVars, history
  <2>2. PICK l \in Letters : letter' = [letter EXCEPT ![c] = l]
    BY <1>2 DEF Dokanctl
  <2>3. /\ letter' \in [Clients -> Letters \cup {None}] /\ letter'[c] \in Letters
        /\ \A e \in Clients : e # c => letter'[e] = letter[e]
    BY <1>b, <2>2, ExceptAt
  <2>4. "leaving" \in States /\ state[c] \notin Past /\ c \notin Programs
    BY <1>2, <2>1, Names DEF Past, States
  <2> QED BY <1>b, <2>1, <2>3, <2>4, QuietSteps
<1>3. CASE Kill(c)
  <2>1. /\ state[c] \notin {"new", "unmounting", "gone"} /\ state' = [state EXCEPT ![c] = "gone"]
        /\ instances' = instances \ {c}
        /\ stray' = stray \cup {l \in Letters : l = letter[c] /\ state[c] = "released"
                                                /\ defined[l] # NoDevice}
        /\ UNCHANGED <<mounted, mounter, defined, table, service, request, stops, letter, device>>
        /\ UNCHANGED <<failed, bereft, harmed>>
    BY <1>3 DEF Kill, To, driverVars, serviceVars
  <2>2. c \in Programs => ProgramInv(c)'
    BY <1>c, <2>1 DEF ProgramInv
  <2>3. "gone" \in States /\ "gone" \in Past /\ letter[c] \in Letters
    BY <1>b, <2>1 DEF Past, States
  <2>4. /\ stray \subseteq stray' /\ stray' \subseteq Letters
        /\ state[c] \in {"released", "unmounting"} =>
             letter[c] \in stray' \/ defined[letter[c]] = NoDevice
    BY <1>b, <2>1, <2>3
  <2> QED BY <1>b, <2>1, <2>2, <2>3, <2>4, QuietSteps
<1> QED BY <1>1, <1>2, <1>3

-----------------------------------------------------------------------------
(* The theorems.                                                           *)

\* At first nobody has anything.
LEMMA InitSteps ==
  ASSUME Init
  PROVE  IInv
<1>1. /\ mounted = [d \in Devices |-> None] /\ mounter = [d \in Devices |-> None]
      /\ defined = [l \in Letters |-> NoDevice] /\ table = [l \in Letters |-> NoDevice]
      /\ service = "waiting" /\ request = NoRequest /\ stops = 0
      /\ state = [c \in Clients |-> "new"] /\ letter = [c \in Clients |-> None]
      /\ device = [p \in Programs |-> 0] /\ instances = {}
      /\ stray = {} /\ failed = {} /\ bereft = {} /\ harmed = {}
  BY DEF Init
<1>2. TypeOK
  BY <1>1, Names, MountServiceAssumption DEF TypeOK
<1>3. TypesInv
  BY <1>1 DEF TypesInv, States
<1>4. RequestInv /\ HarmInv
  BY <1>1 DEF RequestInv, HarmInv
<1>5. \A p \in Programs : ProgramInv(p)
  BY <1>1, Names DEF ProgramInv
<1>6. LettersLead
  BY <1>1 DEF LettersLead
<1> QED BY <1>2, <1>3, <1>4, <1>5, <1>6 DEF IInv

\* No step of a program, of dokanctl, of the driver or of the service leaves
\* the invariant.
THEOREM Invariance == Spec => []IInv
<1>1. Init => IInv
  BY InitSteps
<1>2. IInv /\ [Next]_vars => IInv'
  <2> SUFFICES ASSUME IInv, [Next]_vars PROVE IInv'
    OBVIOUS
  <2>1. ASSUME NEW p \in Programs, Program(p) PROVE IInv'
    <3>1. CASE AskMount(p)
      <4>1. /\ Connect(p, "mount") /\ state[p] = "started" /\ state' = [state EXCEPT ![p] = "mounting"]
            /\ UNCHANGED <<mounted, mounter, defined, table, stops, letter, device, instances>>
            /\ UNCHANGED <<stray, failed, bereft, harmed>>
        BY <3>1 DEF AskMount, To, driverVars, history
      <4> QED BY <4>1, ConnectSteps, Names
    <3> QED BY <2>1, <3>1, EventStartSteps, ProgramSteps, SendReleaseIRP2Steps DEF Program
  <2>2. ASSUME NEW u \in Tools, Dokanctl(u) PROVE IInv'
    BY <2>2, ClientSteps, Names
  <2>3. ASSUME NEW c \in Clients, Unmount(c) \/ Kill(c) PROVE IInv'
    <3>1. CASE AskUnmount(c)
      <4>1. /\ Connect(c, "unmount") /\ state[c] = "released" /\ state' = [state EXCEPT ![c] = "unmounting"]
            /\ UNCHANGED <<mounted, mounter, defined, table, stops, letter, device, instances>>
            /\ UNCHANGED <<stray, failed, bereft, harmed>>
        BY <3>1 DEF AskUnmount, To, driverVars, history
      <4> QED BY <4>1, ConnectSteps
    <3> QED BY <2>3, <3>1, SendReleaseIRPSteps, ClientSteps DEF Unmount
  <2>4. ASSUME NEW d \in Devices, ForceUnmount(d) PROVE IInv'
    BY <2>4, ForceUnmountSteps
  <2>5. CASE Service
    BY <2>5, ControlMountSteps, ControlUnmountSteps, ServiceSteps DEF Service
  <2>6. CASE UNCHANGED vars
    <3>1. /\ UNCHANGED <<mounted, mounter, defined, table, service, request, stops>>
          /\ UNCHANGED <<state, letter, device, instances, stray, failed, bereft, harmed>>
      BY <2>6 DEF vars, driverVars, serviceVars, clientVars, history
    <3>2. TypeOK' /\ TypesInv'
      BY <3>1 DEF IInv, TypeOK, TypesInv, NoDevice, Devices, NoRequest
    <3>3. RequestInv' /\ LettersLead' /\ HarmInv'
      BY <3>1 DEF IInv, RequestInv, LettersLead, HarmInv, NoDevice, NoRequest
    <3>4. \A p \in Programs : ProgramInv(p)'
      BY <3>1 DEF IInv, ProgramInv, NoDevice
    <3> QED BY <3>2, <3>3, <3>4 DEF IInv
  <2> QED BY <2>1, <2>2, <2>3, <2>4, <2>5, <2>6 DEF Next
<1> QED BY <1>1, <1>2, PTL DEF Spec

\* Every variable keeps its type: a device is mounted just when a program has
\* it, and an entry of the table is never out of date.
THEOREM TypeCorrect == Spec => []TypeOK
<1>1. IInv => TypeOK
  BY DEF IInv
<1> QED BY <1>1, Invariance, PTL

\* Letters lead to the devices that are mounted for them, and a program that
\* serves has its drive, but for the causes that the model names.
THEOREM DrivesStandHolds == Spec => []DrivesStand
<1>1. IInv => DrivesStand
  BY DEF IInv, DrivesStand, DriveKept, ProgramInv
<1> QED BY <1>1, Invariance, PTL

\* Who takes the drive of a program that serves is dokanctl, the keep-alive
\* check, a program that ends without having got its own drive, or one that has
\* lost it.
THEOREM HarmNeedsCauseHolds == Spec => []HarmNeedsCause
<1>1. IInv => HarmNeedsCause
  BY DEF IInv, HarmInv, HarmNeedsCause
<1> QED BY <1>1, Invariance, PTL
===============================================================================
