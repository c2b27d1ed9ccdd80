--------------------------- MODULE ProxyAcqThread ---------------------------
(***************************************************************************)
(* The acquisition thread of the proxy daemon (vbi/daemon/proxyd.c), for   *)
(* devices which do not support select(): how the main thread starts it,   *)
(* stops it to change the services, and stops it for good.                 *)
(*                                                                         *)
(* The two agree by start_mutex, start_cond and two flags.  The main       *)
(* thread waits for the start without a timeout and for the end up to      *)
(* twice 50 ms; neither wait is a loop on a predicate.  The thread can be  *)
(* cancelled in read() and write().  What it does to the queue is          *)
(* ProxyQueue; here p_tmp_buf is only the thread that took the buffer.     *)
(***************************************************************************)
EXTENDS FiniteSets, Naturals

CONSTANTS
  Thread,          \* the threads that can be created
  NULL,
  Late,            \* the stops (for "update", for "close") in which the thread
                   \* may not react within 50 ms
  Stuck            \* it may not react within another 50 ms either

ASSUME ThreadAssumption ==
  /\ IsFiniteSet(Thread) /\ NULL \notin Thread
  /\ Late \subseteq {"update", "close"}
  /\ Stuck \in BOOLEAN

VARIABLES
  \* PROXY_DEV
  capture,         \* p_capture # NULL
  fd_open,         \* its file handle has not been closed by force
  use_thread, wait_for_exit, thread_active, thread_id,
  tmp,             \* the thread that has set p_tmp_buf, or NULL
  start_mutex,     \* "main", a thread, or NULL
  \* the threads
  mpc,             \* where the main thread is
  purpose,         \* what it stops the thread for, or starts it for
  signalled,       \* its wait on start_cond has been signalled
  tpc,             \* where each thread is
  cancelled        \* pthread_cancel() was called for it

flagVars == <<use_thread, wait_for_exit, thread_active, thread_id>>
vars == <<capture, fd_open, flagVars, tmp, start_mutex, mpc, purpose, signalled, tpc, cancelled>>

MainPc == {"idle", "start", "starting", "failed", "stop", "stopping", "late", "stopping2",
           "late2", "join", "stopped"}
ThreadPc == {"none", "created", "confirm", "loop", "read", "write", "cleanup", "exit"}

Init ==
  /\ capture = FALSE /\ fd_open = FALSE
  /\ use_thread = FALSE /\ wait_for_exit = FALSE /\ thread_active = FALSE
  /\ thread_id = NULL /\ tmp = NULL /\ start_mutex = NULL
  /\ mpc = "idle" /\ purpose = "none" /\ signalled = FALSE
  /\ tpc = [t \in Thread |-> "none"]
  /\ cancelled = [t \in Thread |-> FALSE]

\* pthread_cond_signal: it is lost unless the main thread is waiting.
Waiting == mpc \in {"starting", "stopping", "stopping2"}
Signal  == signalled' = (signalled \/ Waiting)

-----------------------------------------------------------------------------
(***************************************************************************)
(* The main thread.                                                        *)
(***************************************************************************)

\* vbi_proxy_start_acquisition opens the device.
StartAcquisition ==
  /\ mpc = "idle" /\ ~capture
  /\ capture' = TRUE /\ fd_open' = TRUE
  /\ mpc' = "start" /\ purpose' = "open"
  /\ UNCHANGED <<flagVars, tmp, start_mutex, signalled, tpc, cancelled>>

StartFlags == use_thread' = TRUE /\ wait_for_exit' = FALSE /\ thread_active' = FALSE

\* vbi_proxyd_start_acq_thread: no pipe.
StartNoPipe ==
  /\ mpc = "start" /\ mpc' = "failed"
  /\ StartFlags
  /\ UNCHANGED <<capture, fd_open, thread_id, tmp, start_mutex, purpose, signalled,
                 tpc, cancelled>>

\* pthread_create fails: the mutex stays locked.
StartNoThread ==
  /\ mpc = "start" /\ start_mutex = NULL /\ mpc' = "failed"
  /\ StartFlags
  /\ start_mutex' = "main"
  /\ UNCHANGED <<capture, fd_open, thread_id, tmp, purpose, signalled, tpc, cancelled>>

\* The thread is created, and the main thread waits for it to report.  (The model
\* uses the name of a thread that has ended again.)
CanCreate(t) == mpc = "start" /\ start_mutex = NULL /\ tpc[t] \in {"none", "exit"}

\* Mutant: it does not wait.
StartThreadNoWait(t) ==
  /\ CanCreate(t)
  /\ StartFlags
  /\ thread_id' = t /\ cancelled' = [cancelled EXCEPT ![t] = FALSE]
  /\ tpc' = [tpc EXCEPT ![t] = "created"]
  /\ mpc' = "starting" /\ signalled' = TRUE
  /\ UNCHANGED <<capture, fd_open, tmp, start_mutex, purpose>>

StartThread(t) ==
  /\ CanCreate(t)
  /\ StartFlags
  /\ thread_id' = t /\ cancelled' = [cancelled EXCEPT ![t] = FALSE]
  /\ tpc' = [tpc EXCEPT ![t] = "created"]
  /\ mpc' = "starting" /\ signalled' = FALSE
  /\ UNCHANGED <<capture, fd_open, tmp, start_mutex, purpose>>

\* The wait is over: result = thread_active.
StartReported ==
  /\ mpc = "starting" /\ signalled /\ start_mutex = NULL
  /\ IF thread_active THEN mpc' = "idle" /\ purpose' = "none"
     ELSE mpc' = "failed" /\ UNCHANGED purpose
  /\ UNCHANGED <<capture, fd_open, flagVars, tmp, start_mutex, signalled, tpc, cancelled>>

\* Both callers stop the acquisition if it could not be started.
StartFailed ==
  /\ mpc = "failed"
  /\ mpc' = "stop" /\ purpose' = "close"
  /\ UNCHANGED <<capture, fd_open, flagVars, tmp, start_mutex, signalled, tpc, cancelled>>

\* vbi_proxyd_update_services stops the thread "because we're about to suspend
\* capturing", vbi_proxy_stop_acquisition for good.
StopFor(why) ==
  /\ mpc = "idle" /\ capture
  /\ mpc' = "stop" /\ purpose' = why
  /\ UNCHANGED <<capture, fd_open, flagVars, tmp, start_mutex, signalled, tpc, cancelled>>

\* Mutant: only the flag is set.
StopThreadNoCancel ==
  /\ mpc = "stop" /\ use_thread /\ start_mutex = NULL /\ thread_active
  /\ wait_for_exit' = TRUE
  /\ mpc' = "stopping" /\ signalled' = FALSE
  /\ UNCHANGED <<capture, fd_open, use_thread, thread_active, thread_id, tmp, start_mutex,
                 purpose, tpc, cancelled>>

\* vbi_proxyd_stop_acq_thread: the thread is told in two ways ...
StopThread ==
  /\ mpc = "stop" /\ use_thread /\ start_mutex = NULL /\ thread_active
  /\ wait_for_exit' = TRUE
  /\ cancelled' = [cancelled EXCEPT ![thread_id] = TRUE]
  /\ mpc' = "stopping" /\ signalled' = FALSE
  /\ UNCHANGED <<capture, fd_open, use_thread, thread_active, thread_id, tmp, start_mutex,
                 purpose, tpc>>

\* ... unless it is not running.
StopNothing ==
  /\ mpc = "stop" /\ (use_thread => start_mutex = NULL /\ ~thread_active)
  /\ mpc' = "stopped"
  /\ use_thread' = FALSE
  /\ UNCHANGED <<capture, fd_open, wait_for_exit, thread_active, thread_id, tmp,
                 start_mutex, purpose, signalled, tpc, cancelled>>

\* The first 50 ms have passed.  A signal from now on is lost, until ...
TimeOut ==
  /\ mpc = "stopping" /\ ~signalled /\ purpose \in Late
  /\ mpc' = "late"
  /\ UNCHANGED <<capture, fd_open, flagVars, tmp, start_mutex, purpose, signalled, tpc, cancelled>>

\* ... the file handle is closed and the main thread waits again.
CloseHandle ==
  /\ mpc = "late" /\ start_mutex = NULL
  /\ fd_open' = FALSE
  /\ mpc' = "stopping2"
  /\ UNCHANGED <<capture, flagVars, tmp, start_mutex, purpose, signalled, tpc, cancelled>>

\* The second time-out, if the signal was lost, or the thread is stuck.
TimeOutAgain ==
  /\ mpc = "stopping2" /\ ~signalled
  /\ Stuck \/ ~thread_active
  /\ mpc' = "late2"
  /\ UNCHANGED <<capture, fd_open, flagVars, tmp, start_mutex, purpose, signalled, tpc, cancelled>>

GiveUp ==
  /\ mpc = "late2" /\ start_mutex = NULL
  /\ mpc' = "stopped" /\ use_thread' = FALSE
  /\ UNCHANGED <<capture, fd_open, wait_for_exit, thread_active, thread_id, tmp,
                 start_mutex, purpose, signalled, tpc, cancelled>>

\* The thread has reported its end and is joined, with the mutex held.
Signalled ==
  /\ mpc \in {"stopping", "stopping2"} /\ signalled /\ start_mutex = NULL
  /\ mpc' = "join" /\ start_mutex' = "main"
  /\ UNCHANGED <<capture, fd_open, flagVars, tmp, purpose, signalled, tpc, cancelled>>

Join ==
  /\ mpc = "join" /\ tpc[thread_id] = "exit"
  /\ tpc' = [tpc EXCEPT ![thread_id] = "none"]
  /\ mpc' = "stopped" /\ start_mutex' = NULL /\ use_thread' = FALSE
  /\ UNCHANGED <<capture, fd_open, wait_for_exit, thread_active, thread_id, tmp, purpose,
                 signalled, cancelled>>

\* The update starts it again, if any services are left.
Restart ==
  /\ mpc = "stopped" /\ purpose = "update"
  /\ mpc' = "start"
  /\ UNCHANGED <<capture, fd_open, flagVars, tmp, start_mutex, purpose, signalled, tpc, cancelled>>

\* vbi_capture_delete, and the buffers are freed.
CloseCapture ==
  /\ mpc = "stopped"
  /\ capture' = FALSE /\ fd_open' = FALSE
  /\ mpc' = "idle" /\ purpose' = "none"
  /\ UNCHANGED <<flagVars, tmp, start_mutex, signalled, tpc, cancelled>>

-----------------------------------------------------------------------------
(***************************************************************************)
(* The thread: vbi_proxyd_acq_thread.                                      *)
(***************************************************************************)
Move(t, from, to) == tpc[t] = from /\ tpc' = [tpc EXCEPT ![t] = to]

ThreadBegins(t) ==
  /\ Move(t, "created", "confirm")
  /\ thread_active' = TRUE
  /\ UNCHANGED <<capture, fd_open, use_thread, wait_for_exit, thread_id, tmp, start_mutex,
                 mpc, purpose, signalled, cancelled>>

ThreadConfirms(t) ==
  /\ Move(t, "confirm", "loop") /\ start_mutex = NULL
  /\ Signal
  /\ UNCHANGED <<capture, fd_open, flagVars, tmp, start_mutex, mpc, purpose, cancelled>>

\* while (wait_for_exit == FALSE): forward_data takes a buffer and reads.
ThreadLoops(t) ==
  \/ /\ ~wait_for_exit /\ Move(t, "loop", "read") /\ tmp' = t
     /\ UNCHANGED <<capture, fd_open, flagVars, start_mutex, mpc, purpose, signalled, cancelled>>
  \/ /\ wait_for_exit /\ Move(t, "loop", "cleanup")
     /\ UNCHANGED <<capture, fd_open, flagVars, tmp, start_mutex, mpc, purpose, signalled,
                    cancelled>>

ThreadReads(t) ==
  /\ Move(t, "read", "write") /\ tmp' = NULL
  /\ UNCHANGED <<capture, fd_open, flagVars, start_mutex, mpc, purpose, signalled, cancelled>>

\* The main thread is woken up; after an error the thread ends.
ThreadWrites(t) ==
  /\ Move(t, "write", "loop") \/ Move(t, "write", "cleanup")
  /\ UNCHANGED <<capture, fd_open, flagVars, tmp, start_mutex, mpc, purpose, signalled, cancelled>>

ThreadCancelled(t) ==
  /\ cancelled[t]
  /\ Move(t, "read", "cleanup") \/ Move(t, "write", "cleanup")
  /\ UNCHANGED <<capture, fd_open, flagVars, tmp, start_mutex, mpc, purpose, signalled, cancelled>>

\* Mutant: the buffer the thread has taken is forgotten.
CleanupKeepsBuffer(t) ==
  /\ Move(t, "cleanup", "exit") /\ start_mutex = NULL
  /\ IF wait_for_exit THEN Signal ELSE UNCHANGED signalled
  /\ thread_active' = FALSE
  /\ UNCHANGED <<capture, fd_open, use_thread, wait_for_exit, thread_id, tmp, start_mutex, mpc,
                 purpose, cancelled>>

\* Mutant: the thread does not report that it ends by itself.
CleanupStaysActive(t) ==
  /\ Move(t, "cleanup", "exit") /\ start_mutex = NULL
  /\ IF wait_for_exit THEN Signal ELSE UNCHANGED signalled
  /\ tmp' = NULL
  /\ thread_active' = (thread_active /\ ~wait_for_exit)
  /\ UNCHANGED <<capture, fd_open, use_thread, wait_for_exit, thread_id, start_mutex, mpc,
                 purpose, cancelled>>

\* vbi_proxyd_acq_thread_cleanup
Cleanup(t) ==
  /\ Move(t, "cleanup", "exit") /\ start_mutex = NULL
  /\ IF wait_for_exit THEN Signal ELSE UNCHANGED signalled
  /\ tmp' = NULL
  /\ thread_active' = FALSE
  /\ UNCHANGED <<capture, fd_open, use_thread, wait_for_exit, thread_id, start_mutex, mpc,
                 purpose, cancelled>>

-----------------------------------------------------------------------------
\* What the clients make the daemon do.
Requests == StartAcquisition \/ StopFor("update") \/ StopFor("close")

MainStep ==
  \/ StartNoPipe \/ StartNoThread \/ StartReported \/ StartFailed
  \/ \E t \in Thread : StartThread(t)
  \/ StopThread \/ StopNothing \/ TimeOut \/ CloseHandle \/ TimeOutAgain \/ GiveUp
  \/ Signalled \/ Join \/ Restart \/ CloseCapture

ThreadStep(t) ==
  \/ ThreadBegins(t) \/ ThreadConfirms(t) \/ ThreadLoops(t) \/ ThreadReads(t)
  \/ ThreadWrites(t) \/ ThreadCancelled(t) \/ Cleanup(t)

Next == Requests \/ MainStep \/ \E t \in Thread : ThreadStep(t)

Spec == Init /\ [][Next]_vars

(***************************************************************************)
(* Fairness.  Both threads run; a read returns only if the device has data *)
(* or is closed, so only the cancellation of a thread in read() is fair.   *)
(***************************************************************************)
FairSpec ==
  /\ Spec
  /\ WF_vars(MainStep)
  /\ \A t \in Thread :
       /\ WF_vars(ThreadBegins(t) \/ ThreadConfirms(t) \/ ThreadLoops(t)
                  \/ ThreadWrites(t) \/ Cleanup(t))
       /\ WF_vars(ThreadCancelled(t))

-----------------------------------------------------------------------------
\* Every variable has its type; use_thread and thread_active mean something only
\* with a device and a thread.
TypeOK ==
  /\ capture \in BOOLEAN /\ fd_open \in BOOLEAN
  /\ use_thread \in BOOLEAN /\ wait_for_exit \in BOOLEAN /\ thread_active \in BOOLEAN
  /\ thread_id \in Thread \cup {NULL} /\ tmp \in Thread \cup {NULL}
  /\ start_mutex \in Thread \cup {"main", NULL}
  /\ mpc \in MainPc /\ purpose \in {"none", "open", "update", "close"}
  /\ signalled \in BOOLEAN
  /\ tpc \in [Thread -> ThreadPc] /\ cancelled \in [Thread -> BOOLEAN]
  /\ use_thread => capture
  /\ thread_active => thread_id \in Thread

Alive(t) == tpc[t] \notin {"none", "exit"}

\* The device is not closed under a thread that uses it: whatever a thread still
\* does after the main thread has gone on, it does not read from a deleted
\* capture context, nor, once the forced close is over, from a closed handle.
NoUseAfterDelete ==
  \A t \in Thread : tpc[t] \in {"loop", "read", "write"} =>
    capture /\ (mpc \in {"idle", "stopped", "start"} => fd_open)

\* There is never a second thread: one that is stopped for an update is gone
\* before the next is created.
OneThread == Cardinality({t \in Thread : Alive(t)}) <= 1

\* thread_active, from which vbi_proxyd_stop_acq_thread concludes whether there is
\* a thread to be cancelled, tells the truth whenever it is looked at.
ActiveIsAlive ==
  mpc \in {"idle", "stop", "stopped"} => (thread_active <=> \E t \in Thread : Alive(t))

\* The buffer a cancelled thread was about to fill is not lost to the next one:
\* p_tmp_buf is that of a thread which is still going to give it back.
BufferRecovered == tmp # NULL => tpc[tmp] \in {"read", "cleanup"}

\* The main thread locks start_mutex, which it has not unlocked.
SelfLocked == mpc = "stop" /\ start_mutex = "main"

\* vbi_proxyd_start_acq_thread and vbi_proxyd_stop_acq_thread return, whatever the
\* thread is doing when it is stopped - unless the thread could not be created.
MainReturns == mpc # "idle" ~> mpc = "idle" \/ SelfLocked
=============================================================================
