----------------------------- MODULE TunReader ------------------------------
(***************************************************************************)
(* TalusTunInterface::Start and Stop and the threads that read the tun     *)
(* device.  One thread configures the interface: main does it once on the  *)
(* server, the websocket client's poller does it on every reconnection.    *)
(* Each Start makes a reader thread and detaches it at once, so that Stop  *)
(* finds nothing to join.                                                  *)
(***************************************************************************)
EXTENDS Integers, Sequences, SequencesExt

CONSTANTS
  Readers,    \* reader threads: a bound on the number of calls of Start
  MaxPkts     \* bound on the packets the kernel routes to the device

NoThread == "no thread"
Empty    == 0     \* what the static buffer holds before the first read

ASSUME PktAssumption == MaxPkts \in Nat
ASSUME ReaderAssumption == NoThread \notin Readers

VARIABLES
  m_running,  \* the running flag
  joinable,   \* the thread m_listenThread stands for, if it is not detached
  ctl,        \* what the configuring thread does next
  ifup,       \* the interface is up
  thr,        \* what each reader does next
  device,     \* packets waiting in the device
  arrived,    \* number of packets routed to the device so far
  vector,     \* the static buffer of TunIO::Receive, shared by the readers
  posted      \* packets posted to the tun poller, in order

readerVars == <<m_running, joinable, ctl, ifup, thr, device, arrived, vector, posted>>
ctlVars == <<m_running, joinable, ctl, ifup>>
ioVars  == <<device, vector, posted>>

ReaderInit ==
  /\ m_running = FALSE
  /\ joinable = NoThread
  /\ ctl = "idle"
  /\ ifup = FALSE
  /\ thr = [r \in Readers |-> "none"]
  /\ device = <<>>
  /\ arrived = 0
  /\ vector = Empty
  /\ posted = <<>>

CtlStep(from, to) == ctl = from /\ ctl' = to

(* Stop clears the flag ... *)
ClearFlag(from, to) ==
  /\ CtlStep(from, to)
  /\ m_running' = FALSE
  /\ UNCHANGED <<joinable, ifup, thr, arrived, ioVars>>

(* ... and joins the thread, if there is one to join. *)
Join(from, to) ==
  /\ CtlStep(from, to)
  /\ joinable # NoThread => thr[joinable] = "gone"
  /\ joinable' = NoThread
  /\ UNCHANGED <<m_running, ifup, thr, arrived, ioVars>>

Down ==
  /\ CtlStep("down", "config")
  /\ ifup' = FALSE
  /\ UNCHANGED <<m_running, joinable, thr, arrived, ioVars>>

(* An invalid address or mtu throws: the caller gives up. *)
Config ==
  /\ CtlStep("config", "up") \/ CtlStep("config", "idle")
  /\ UNCHANGED <<m_running, joinable, ifup, thr, arrived, ioVars>>

Up ==
  /\ CtlStep("up", "start")
  /\ ifup' = TRUE
  /\ UNCHANGED <<m_running, joinable, thr, arrived, ioVars>>

SetFlag ==
  /\ CtlStep("run", "spawn")
  /\ m_running' = TRUE
  /\ UNCHANGED <<joinable, ifup, thr, arrived, ioVars>>

Spawn(r) ==
  /\ CtlStep("spawn", "detach")
  /\ thr[r] = "none"
  /\ thr' = [thr EXCEPT ![r] = "test"]
  /\ joinable' = r
  /\ UNCHANGED <<m_running, ifup, arrived, ioVars>>

Detach ==
  /\ CtlStep("detach", "idle")
  /\ joinable' = NoThread
  /\ UNCHANGED <<m_running, ifup, thr, arrived, ioVars>>

(* main, or onRecv of the configuration: Stop, Down, Config, Up, Start.    *)
(* It is begun only while a thread is left for Start to make.              *)
BeginConfig ==
  /\ \E r \in Readers : thr[r] = "none"
  /\ CtlStep("idle", "stop")
  /\ UNCHANGED <<m_running, joinable, ifup, thr, arrived, ioVars>>

Control ==
  \/ ClearFlag("stop", "join") \/ Join("join", "down")
  \/ Down \/ Config \/ Up
  \/ ClearFlag("start", "rejoin") \/ Join("rejoin", "run")
  \/ SetFlag \/ (\E r \in Readers : Spawn(r)) \/ Detach

(* The kernel routes a packet to the interface. *)
Arrive ==
  /\ ifup /\ arrived < MaxPkts
  /\ arrived' = arrived + 1
  /\ device' = Append(device, arrived + 1)
  /\ UNCHANGED <<ctlVars, thr, vector, posted>>

At(r, label) == thr[r] = label
Goto(r, label) == thr' = [thr EXCEPT ![r] = label]

(* Mutant: the loop runs until the flag is set. *)
TestFlag_Inverted(r) ==
  /\ At(r, "test")
  /\ Goto(r, IF m_running THEN "gone" ELSE "read")
  /\ UNCHANGED <<ctlVars, arrived, ioVars>>

TestFlag(r) ==
  /\ At(r, "test")
  /\ Goto(r, IF m_running THEN "read" ELSE "gone")
  /\ UNCHANGED <<ctlVars, arrived, ioVars>>

(* read returns a packet in the shared buffer ... *)
ReadPacket(r) ==
  /\ At(r, "read")
  /\ device # <<>>
  /\ vector' = Head(device)
  /\ device' = Tail(device)
  /\ Goto(r, "copy")
  /\ UNCHANGED <<ctlVars, arrived, posted>>

(* Mutant: the result of a failed read is dispatched. *)
ReadFails_Posts(r) ==
  /\ At(r, "read")
  /\ Goto(r, "copy")
  /\ UNCHANGED <<ctlVars, arrived, ioVars>>

(* ... or fails, or returns nothing: Receive's result is not dispatched. *)
ReadFails(r) ==
  /\ At(r, "read")
  /\ Goto(r, "test")
  /\ UNCHANGED <<ctlVars, arrived, ioVars>>

(* The buffer is copied and the copy posted to the tun poller. *)
CopyAndPost(r) ==
  /\ At(r, "copy")
  /\ posted' = Append(posted, vector)
  /\ Goto(r, "test")
  /\ UNCHANGED <<ctlVars, arrived, device, vector>>

Reader(r) == TestFlag(r) \/ ReadPacket(r) \/ CopyAndPost(r)

ReaderNext ==
  \/ BeginConfig \/ Control \/ Arrive
  \/ \E r \in Readers : Reader(r) \/ ReadFails(r)

ReaderSpec == ReaderInit /\ [][ReaderNext]_readerVars

(* Threads run on; a read with a packet waiting does not fail forever. *)
ReaderFairSpec ==
  /\ ReaderSpec
  /\ WF_readerVars(Control)
  /\ \A r \in Readers :
       /\ WF_readerVars(TestFlag(r))
       /\ SF_readerVars(ReadPacket(r))
       /\ WF_readerVars(CopyAndPost(r))

(***************************************************************************)
(* Properties.                                                             *)
(***************************************************************************)
Pkts == 1..MaxPkts

AtMostOne(labels) ==
  \A r, q \in Readers : thr[r] \in labels /\ thr[q] \in labels => r = q

(* Until a second Start, and on the server there is none, the poller gets  *)
(* the packets the device yielded, in their order and once each: the       *)
(* shared buffer is not overwritten between the read and the copy          *)
(* (TalusTunInterface.cpp:27-42, 131-140).                                 *)
PostedInOrder ==
  AtMostOne({"test", "read", "copy", "gone"}) =>
    \A i \in 1..Len(posted) : posted[i] = i

(* Whatever threads are left over, nothing is posted that the device did   *)
(* not yield: the buffer's first content, and that of a failed read, never *)
(* goes out (TalusTunInterface.cpp:131-140).                               *)
OnlyReadContent ==
  \A i \in 1..Len(posted) : posted[i] \in 1..arrived /\ ~Contains(device, posted[i])

(* While the flag stays set a packet in the device is read, also right     *)
(* after a restart that found an old reader on its way out                 *)
(* (TalusTunInterface.cpp:27-42).                                          *)
DeviceServed ==
  \A p \in Pkts : m_running /\ Contains(device, p) ~> ~m_running \/ ~Contains(device, p)

(* TalusTunInterface.h:102 has one "select loop thread", and Stop is meant *)
(* to end it: no two threads are in the loop at a time.                    *)
OneSelectLoop ==
  AtMostOne({"test", "read", "copy"})
=============================================================================
