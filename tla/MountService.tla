----------------------------- MODULE MountService -----------------------------
(***************************************************************************)
(* Drive letters (dokanlib/dokan: dokan.c, mount.c; dokanlib/dokan_mount:  *)
(* mounter.c, mount.c; dokanlib/dokan_control/dokanctl.c).                 *)
(*                                                                         *)
(* A program takes a free device, then asks the mount service through a    *)
(* named pipe to define a drive letter for it.  Unmounting takes two steps *)
(* too: the driver is told, through whatever the letter leads to, to       *)
(* release the device, and then the service is asked to remove the letter. *)
(* It is done by dokanctl, and by the library when a program ends with an  *)
(* instance left in its list.  The keep-alive check of the driver releases *)
(* a device without the service.                                           *)
(*                                                                         *)
(* Threads, IRPs and events are in other modules: here the release of a    *)
(* device is one step, and the loops of its program end some time later.   *)
(***************************************************************************)
EXTENDS Naturals

CONSTANTS
  Programs,     \* processes that call DokanMain, each once
  Tools,        \* runs of dokanctl /u
  Letters,      \* drive letters in use
  DeviceMax,    \* DOKAN_DEVICE_MAX
  MaxStops      \* bound: how many times the service is stopped and restarted

Clients == Programs \cup Tools
Devices == 0 .. DeviceMax - 1
None    == "none"

ASSUME MountServiceAssumption ==
  /\ DeviceMax \in Nat \ {0} /\ MaxStops \in Nat
  /\ Programs \cap Tools = {} /\ None \notin Clients \cup Letters

NoDevice == DeviceMax

VARIABLES
  \* the driver
  mounted,     \* Mounted of each device: the letter it was mounted for
  mounter,     \* the program whose mount that is, as MountId tells
  \* Windows
  defined,     \* the device that each letter is defined as
  \* the service
  table,       \* g_MountTable
  service,     \* "waiting", "connected", "answered" or "stopped"
  request,     \* the DOKAN_CONTROL in the pipe
  stops,
  \* the clients
  state,       \* how far each one is
  letter,      \* the letter it works on
  device,      \* DeviceNumber of the instance; the device DokanStart tries
  instances,   \* the programs with an instance in g_InstanceList
  \* history
  stray,       \* letters that were left behind, or defined too late
  failed,      \* programs whose DokanMain failed or was cut short before they served
  bereft,      \* programs that had their device or letter taken from them
  harmed       \* <<c, p>>: c took the device or letter from p, which was serving

driverVars  == <<mounted, mounter>>
serviceVars == <<defined, table, service, request, stops>>
clientVars  == <<state, letter, device, instances>>
history     == <<stray, failed, bereft, harmed>>
vars == <<driverVars, serviceVars, clientVars, history>>

NoRequest == [from |-> None, type |-> None, drive |-> None, number |-> 0]

Init ==
  /\ mounted = [d \in Devices |-> None] /\ mounter = [d \in Devices |-> None]
  /\ defined = [l \in Letters |-> NoDevice] /\ table = [l \in Letters |-> NoDevice]
  /\ service = "waiting" /\ request = NoRequest /\ stops = 0
  /\ state = [c \in Clients |-> "new"] /\ letter = [c \in Clients |-> None]
  /\ device = [p \in Programs |-> 0] /\ instances = {}
  /\ stray = {} /\ failed = {} /\ bereft = {} /\ harmed = {}

To(c, s) == state' = [state EXCEPT ![c] = s]

-----------------------------------------------------------------------------
(* Releasing a device (IOCTL_EVENT_RELEASE).                               *)

\* c is on its way through DokanUnmount.
Leaving(c) == state[c] \in {"leaving", "released", "unmounting"}

\* DokanEventRelease on device d by client c (None: by the keep-alive check),
\* which has the letter l removed as well (None: no letter).
Release(c, d, l) ==
  LET victim == mounter[d]
      behind == {m \in Letters \ {l} : m = mounted[d] /\ defined[m] = d}
  IN
  /\ mounted' = [mounted EXCEPT ![d] = None] /\ mounter' = [mounter EXCEPT ![d] = None]
  /\ stray' = stray \cup behind
  /\ bereft' = bereft \cup ({victim} \ {c, None})
  /\ harmed' = IF victim \in Programs \ {c} /\ state[victim] = "serving"
               THEN harmed \cup {<<c, victim>>} ELSE harmed

\* SendReleaseIRP: to the device that the letter of c leads to, if any.
SendReleaseIRP(c) ==
  LET l == letter[c] IN
  /\ state[c] = "leaving" /\ To(c, "released")
  /\ IF defined[l] # NoDevice
     THEN Release(c, defined[l], l)
     ELSE UNCHANGED <<driverVars, stray, bereft, harmed>>
  /\ UNCHANGED <<serviceVars, letter, device, instances, failed>>

\* SendReleaseIRP2, after DokanMount has failed: to the device by its number.
SendReleaseIRP2(p) ==
  /\ state[p] = "refused" /\ To(p, "failed") /\ failed' = failed \cup {p}
  /\ Release(p, device[p], None)
  /\ UNCHANGED <<serviceVars, letter, device, instances>>

\* A keep-alive reaches a device through the letter of the program that sends
\* it (DokanKeepAlive).
KeptAlive(d) ==
  \E p \in Programs : state[p] = "serving" /\ letter[p] \in Letters /\ defined[letter[p]] = d

\* DokanCheckKeepAlive releases the device.  Its notice never gets to the
\* service, for NotificationThread does not wait for NotifyService's events.
ForceUnmount(d) ==
  /\ mounted[d] # None /\ ~KeptAlive(d)
  /\ Release(None, d, None)
  /\ UNCHANGED <<serviceVars, clientVars, failed>>

-----------------------------------------------------------------------------
(* The pipe: DokanControl (dokan/mount.c) is turned away when the one      *)
(* instance of the pipe is taken or the service is not there.              *)

Connect(c, type) ==
  /\ service = "waiting" /\ service' = "connected"
  /\ request' = [from |-> c, type |-> type, drive |-> letter[c],
                 number |-> IF c \in Programs THEN device[c] ELSE 0]

\* DokanMount.
AskMount(p) ==
  /\ state[p] = "started" /\ Connect(p, "mount") /\ To(p, "mounting")
  /\ UNCHANGED <<driverVars, defined, table, stops, letter, device, instances, history>>

MountRefused(p) ==
  /\ state[p] = "started" /\ service # "waiting" /\ To(p, "refused")
  /\ UNCHANGED <<driverVars, serviceVars, letter, device, instances, history>>

\* DokanUnmount, after SendReleaseIRP.
AskUnmount(c) ==
  /\ state[c] = "released" /\ Connect(c, "unmount") /\ To(c, "unmounting")
  /\ UNCHANGED <<driverVars, defined, table, stops, letter, device, instances, history>>

UnmountRefused(c) ==
  /\ state[c] = "released" /\ service # "waiting" /\ To(c, "gone")
  /\ stray' = stray \cup {l \in Letters : l = letter[c] /\ defined[l] # NoDevice}
  /\ UNCHANGED <<driverVars, serviceVars, letter, device, instances, failed, bereft, harmed>>

-----------------------------------------------------------------------------
(* The service: one loop, one request at a time.                           *)

\* A slip: whatever the letter leads to is not looked for.
NeverTaken(l) == FALSE

\* A letter that leads to a device can be opened, be the device mounted or not.
Taken(l) == defined[l] # NoDevice

\* DOKAN_CONTROL_MOUNT with DokanControlMount: a letter that can be opened is
\* taken.  A definition that then cannot be opened is removed again.  A program
\* that has ended meanwhile is not there for the answer; it may have ended
\* before it wrote the request, which ok leaves open too.
ControlMount(ok) ==
  LET l == request.drive
      d == request.number
      done == ok /\ ~Taken(l)
      c == request.from
  IN
  /\ service = "connected" /\ request.type = "mount" /\ service' = "answered"
  /\ defined' = IF done THEN [defined EXCEPT ![l] = d] ELSE defined
  /\ table'   = IF done THEN [table EXCEPT ![l] = d] ELSE table
  /\ To(c, IF state[c] # "mounting" THEN state[c] ELSE IF done THEN "serving" ELSE "refused")
  /\ stray'   = IF done /\ mounted[d] # l THEN stray \cup {l} ELSE stray
  /\ request' = NoRequest
  /\ UNCHANGED <<driverVars, stops, letter, device, instances, failed, bereft, harmed>>

\* A slip: the entry in the table is not cleared.
EntryKept(l) == table

ClearEntry(l) == [table EXCEPT ![l] = NoDevice]

\* DOKAN_CONTROL_UNMOUNT with DokanControlUnmount: whatever the letter leads
\* to; it fails if there is no such letter.
ControlUnmount ==
  LET l == request.drive
      c == request.from
      others == {p \in Programs \ {c} : letter[p] = l /\ (state[p] = "serving" \/ Leaving(p))}
      hadIt  == {p \in others : state[p] = "serving" /\ mounter[device[p]] = p
                                  /\ defined[l] = device[p]}
  IN
  /\ service = "connected" /\ request.type = "unmount" /\ service' = "answered"
  /\ defined' = [defined EXCEPT ![l] = NoDevice] /\ table' = ClearEntry(l)
  /\ To(c, "gone") /\ request' = NoRequest
  /\ stray' = stray \ {l} /\ bereft' = bereft \cup others
  /\ harmed' = harmed \cup {<<c, p>> : p \in hadIt}
  /\ UNCHANGED <<driverVars, stops, letter, device, instances, failed>>

\* FlushFileBuffers, DisconnectNamedPipe, and the next ConnectNamedPipe.
ListenAgain ==
  /\ service = "answered" /\ service' = "waiting"
  /\ UNCHANGED <<driverVars, defined, table, request, stops, clientVars, history>>

\* SERVICE_CONTROL_STOP, looked at when nobody is connected.
StopService ==
  /\ service = "waiting" /\ stops < MaxStops /\ service' = "stopped" /\ stops' = stops + 1
  /\ UNCHANGED <<driverVars, defined, table, request, clientVars, history>>

\* WinMain clears g_MountTable; the letters stay.
StartService ==
  /\ service = "stopped" /\ service' = "waiting"
  /\ table' = [l \in Letters |-> NoDevice]
  /\ UNCHANGED <<driverVars, defined, request, stops, clientVars, history>>

-----------------------------------------------------------------------------
(* DokanMain.                                                              *)

\* NewDokanInstance.
Run(p) ==
  /\ state[p] = "new" /\ To(p, "starting")
  /\ \E l \in Letters : letter' = [letter EXCEPT ![p] = l]
  /\ instances' = instances \cup {p}
  /\ UNCHANGED <<driverVars, serviceVars, device, history>>

\* DokanStart sends IOCTL_EVENT_START to one device after the other: takes it
\* if it is free ...
EventStart(p) ==
  LET d == device[p] IN
  /\ state[p] = "starting" /\ mounted[d] = None /\ To(p, "started")
  /\ mounted' = [mounted EXCEPT ![d] = letter[p]] /\ mounter' = [mounter EXCEPT ![d] = p]
  /\ UNCHANGED <<serviceVars, letter, device, instances, history>>

\* ... and tries the next one if it is not; after the last one it fails.
EventStartUsed(p) ==
  LET d == device[p] IN
  /\ state[p] = "starting" /\ mounted[d] # None
  /\ IF d + 1 < DeviceMax
     THEN device' = [device EXCEPT ![p] = d + 1] /\ UNCHANGED <<state, failed>>
     ELSE To(p, "failed") /\ failed' = failed \cup {p} /\ UNCHANGED device
  /\ UNCHANGED <<driverVars, serviceVars, letter, instances, stray, bereft, harmed>>

\* A slip: the instance stays in the list.
KeepInstance(p) == instances

DeleteDokanInstance(p) == instances \ {p}

\* The loops end when their mount is over, and DokanMain deletes the instance.
LoopsEnd(p) ==
  /\ state[p] = "serving" /\ mounter[device[p]] # p /\ To(p, "ended")
  /\ instances' = DeleteDokanInstance(p) /\ bereft' = bereft \ {p}
  /\ UNCHANGED <<driverVars, serviceVars, letter, device, stray, failed, harmed>>

Unserved(p) ==
  IF state[p] \in {"starting", "started", "mounting", "refused"} THEN failed \cup {p} ELSE failed

\* The process ends, DokanMain having returned or not: DllMain unmounts the
\* letter of an instance that is in the list, where it is from before
\* DokanStart, whether or not it has ever been mounted for it.
Exit(p) ==
  /\ state[p] \in {"starting", "started", "mounting", "refused", "serving", "ended", "failed"}
  /\ To(p, IF p \in instances THEN "leaving" ELSE "gone")
  /\ instances' = instances \ {p} /\ failed' = Unserved(p)
  /\ UNCHANGED <<driverVars, serviceVars, letter, device, stray, bereft, harmed>>

\* A process is killed: there is no DllMain, and an unmount that it has begun
\* is not finished.  (While the service removes the letter for it, that makes
\* no difference.)
Kill(c) ==
  /\ state[c] \notin {"new", "unmounting", "gone"}
  /\ To(c, "gone") /\ instances' = instances \ {c}
  /\ stray' = stray \cup {l \in Letters : l = letter[c] /\ state[c] = "released" /\ defined[l] # NoDevice}
  /\ UNCHANGED <<driverVars, serviceVars, letter, device, failed, bereft, harmed>>

\* dokanctl /u.
Dokanctl(u) ==
  /\ state[u] = "new" /\ To(u, "leaving")
  /\ \E l \in Letters : letter' = [letter EXCEPT ![u] = l]
  /\ UNCHANGED <<driverVars, serviceVars, device, instances, history>>

-----------------------------------------------------------------------------
Program(p) ==
  \/ Run(p) \/ EventStart(p) \/ EventStartUsed(p) \/ AskMount(p) \/ MountRefused(p)
  \/ SendReleaseIRP2(p) \/ LoopsEnd(p) \/ Exit(p)

Unmount(c) == SendReleaseIRP(c) \/ AskUnmount(c) \/ UnmountRefused(c)

Service ==
  \/ \E ok \in BOOLEAN : ControlMount(ok)
  \/ ControlUnmount \/ ListenAgain \/ StopService \/ StartService

Next ==
  \/ \E p \in Programs : Program(p)
  \/ \E u \in Tools : Dokanctl(u)
  \/ \E c \in Clients : Unmount(c) \/ Kill(c)
  \/ \E d \in Devices : ForceUnmount(d)
  \/ Service

Spec == Init /\ [][Next]_vars

-----------------------------------------------------------------------------
(* Properties.                                                             *)

\* The type of every variable; an entry of g_MountTable, which answers
\* DOKAN_CONTROL_CHECK, is never out of date, though it may be missing.
TypeOK ==
  /\ mounted \in [Devices -> Letters \cup {None}]
  /\ mounter \in [Devices -> Programs \cup {None}]
  /\ \A d \in Devices : mounted[d] = None <=> mounter[d] = None
  /\ \A l \in Letters : /\ defined[l] \in Devices \/ defined[l] = NoDevice
                        /\ table[l] # NoDevice => table[l] = defined[l]
  /\ service \in {"waiting", "connected", "answered", "stopped"} /\ stops \in 0..MaxStops
  /\ service = "connected" <=> request # NoRequest
  /\ letter \in [Clients -> Letters \cup {None}] /\ device \in [Programs -> Devices]
  /\ instances \subseteq Programs /\ stray \subseteq Letters

\* A letter leads to the device that is mounted for it, except while an
\* unmount of it is under way and after one of five things: an unmount the
\* service did not hear of, one cut short, one by the keep-alive check, a release
\* through a letter that was already astray, a mount that was released before
\* its letter was defined.
LettersLead ==
  \A l \in Letters \ stray :
    defined[l] # NoDevice =>
      \/ mounted[defined[l]] = l
      \/ \E c \in Clients : letter[c] = l /\ state[c] \in {"released", "unmounting"}

\* A program that serves has its device, and its letter leads to it, unless
\* they were taken from it.
DriveKept ==
  \A p \in Programs \ bereft :
    state[p] = "serving" => mounter[device[p]] = p /\ defined[letter[p]] = device[p]

\* Letters, devices and programs fit together.
DrivesStand == LettersLead /\ DriveKept

\* The drive of a program that serves is taken only by dokanctl, by the
\* keep-alive check, by a program that ends without having got its own drive
\* (its DokanMain failed, or was not done), or by one that ends without knowing
\* that its own was taken from it.  (DllMain unmounts the letter of whatever
\* instance is in the list, whoever has that letter.)  So a program that has
\* served and ends, or whose DokanMain has returned, disturbs nobody.
HarmNeedsCause ==
  \A pair \in harmed : pair[1] \in Tools \cup {None} \cup failed \cup bereft
=============================================================================
