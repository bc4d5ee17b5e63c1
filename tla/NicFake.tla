------------------------------ MODULE NicFake ------------------------------
(***************************************************************************)
(* The test driver check/nic-fake.py: a thread that listens where wol will *)
(* send to and judges what arrives, the main thread that starts wol once   *)
(* the other one is listening, and wol as their child.                     *)
(***************************************************************************)
EXTENDS Integers, Sequences

CONSTANTS
  Damage,     \* what can be wrong with a datagram, FirstCopy among them
  Intact,     \* nothing is
  FirstCopy   \* the first copy of the address is not the address

ASSUME DriverConstants == Intact \notin Damage /\ FirstCopy \in Damage

VARIABLES
  driver,     \* where the main thread is
  listener,   \* where the thread wait_for_packet is
  lck,        \* who holds the lock of the condition variable
  waiting,    \* the main thread is in wait() and nobody has notified it
  bound,      \* the socket is bound to port 40000
  child,      \* wol: "none", "running", "exited"
  queue       \* datagrams in the socket's buffer

nicVars == <<driver, listener, lck, waiting, bound, child, queue>>

NicTypeOK ==
  /\ driver \in {"begin", "locked", "started", "waiting", "popen", "exited"}
  /\ listener \in {"none", "bind", "acquire", "notify", "release", "recv",
                   "GOOD", "ERROR", "dead"}
  /\ lck \in {"nobody", "driver", "listener"}
  /\ waiting \in BOOLEAN /\ bound \in BOOLEAN
  /\ child \in {"none", "running", "exited"}
  /\ queue \in Seq(Damage \cup {Intact})

NicInit ==
  /\ driver = "begin" /\ listener = "none" /\ lck = "nobody"
  /\ waiting = FALSE /\ bound = FALSE /\ child = "none"
  /\ queue = <<>>

(* The main thread: lck.acquire, start_new_thread, lck.wait -- which lets    *)
(* the lock go and takes it back -- lck.release and os.popen, and no more.   *)
Acquire ==
  /\ driver = "begin" /\ lck = "nobody"
  /\ driver' = "locked" /\ lck' = "driver"
  /\ UNCHANGED <<listener, waiting, bound, child, queue>>

StartThread ==
  /\ driver = "locked"
  /\ driver' = "started" /\ listener' = "bind"
  /\ UNCHANGED <<lck, waiting, bound, child, queue>>

Wait ==
  /\ driver = "started" /\ lck = "driver"
  /\ driver' = "waiting" /\ lck' = "nobody" /\ waiting' = TRUE
  /\ UNCHANGED <<listener, bound, child, queue>>

StartAtOnce ==   \* mutant of WakeAndRelease: the main thread does not wait
  /\ driver \in {"started", "waiting"} /\ ~ waiting
  /\ driver' = "popen"
  /\ UNCHANGED <<listener, lck, waiting, bound, child, queue>>

WakeAndRelease ==
  /\ driver = "waiting" /\ ~ waiting /\ lck = "nobody"
  /\ driver' = "popen"
  /\ UNCHANGED <<listener, lck, waiting, bound, child, queue>>

Popen ==
  /\ driver = "popen" /\ child = "none"
  /\ child' = "running"
  /\ UNCHANGED <<driver, listener, lck, waiting, bound, queue>>

(* The script ends. Its other threads end with it, wherever they are, and    *)
(* the socket is closed.                                                     *)
DriverExits ==
  /\ driver = "popen" /\ child # "none"
  /\ driver' = "exited"
  /\ listener' = IF listener \in {"GOOD", "ERROR"} THEN listener ELSE "dead"
  /\ bound' = FALSE
  /\ UNCHANGED <<lck, waiting, child, queue>>

(* The listener up to recv. A bind that fails raises an exception, which     *)
(* ends this thread only.                                                    *)
Bind ==
  /\ listener = "bind"
  /\ \E works \in BOOLEAN :
       /\ bound' = works
       /\ listener' = IF works THEN "acquire" ELSE "dead"
  /\ UNCHANGED <<driver, lck, waiting, child, queue>>

ListenerAcquires ==
  /\ listener = "acquire" /\ lck = "nobody"
  /\ listener' = "notify" /\ lck' = "listener"
  /\ UNCHANGED <<driver, waiting, bound, child, queue>>

Notify ==
  /\ listener = "notify"
  /\ listener' = "release" /\ waiting' = FALSE
  /\ UNCHANGED <<driver, lck, bound, child, queue>>

ListenerReleases ==
  /\ listener = "release"
  /\ listener' = "recv" /\ lck' = "nobody"
  /\ UNCHANGED <<driver, waiting, bound, child, queue>>

(* Size, header, the copies from the second on and the password are looked   *)
(* at; the loop over the copies starts with 1.                               *)
Verdict(datagram) ==
  IF datagram \in {Intact, FirstCopy} THEN "GOOD" ELSE "ERROR"

Judge ==
  /\ listener = "recv" /\ queue # <<>>
  /\ listener' = Verdict(Head(queue))
  /\ queue' = Tail(queue)
  /\ UNCHANGED <<driver, lck, waiting, bound, child>>

(* wol sends its datagram, or fails; while nobody is bound the datagram goes *)
(* nowhere.                                                                  *)
WolSends(datagram) ==
  /\ child = "running"
  /\ child' = "exited"
  /\ \/ UNCHANGED queue
     \/ bound /\ queue' = Append(queue, datagram)
  /\ UNCHANGED <<driver, listener, lck, waiting, bound>>

DriverStep == \/ Acquire \/ StartThread \/ Wait \/ WakeAndRelease
              \/ Popen \/ DriverExits
ListenerStep == \/ Bind \/ ListenerAcquires \/ Notify \/ ListenerReleases
                \/ Judge
ChildStep == \E d \in Damage \cup {Intact} : WolSends(d)

NicNext == DriverStep \/ ListenerStep \/ ChildStep

(* The interpreter and the kernel run every thread that can go on. *)
NicFairness == WF_nicVars(DriverStep) /\ WF_nicVars(ListenerStep)
NicSpec     == NicInit /\ [][NicNext]_nicVars /\ NicFairness

-----------------------------------------------------------------------------
(* wol is started only when a socket is bound for its datagram: the start of *)
(* the listener cannot be overtaken, whatever the scheduler does. What can   *)
(* be overtaken is its end: the script does not wait for the verdict.        *)
ListenerIsReady ==
  (child = "running" /\ driver # "exited") => bound

(* The notification cannot be lost: the main thread gets on to its end,      *)
(* unless the listener could not bind, when nobody is left to wake it.       *)
DriverGoesOn ==
  <>(driver = "exited" \/ (driver = "waiting" /\ listener = "dead"))
=============================================================================
