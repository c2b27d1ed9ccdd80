------------------------ MODULE ProxyAcqThreadProofs ------------------------
(***************************************************************************)
(* Proofs about the acquisition thread: TypeOK for every device and every  *)
(* delay; the other invariants when the thread reacts in time to the stop  *)
(* for an update, and at the latest when its file handle is closed.        *)
(***************************************************************************)
EXTENDS ProxyAcqThread, FiniteSetTheorems, TLAPS

\* The device is left without a thread before it is closed.
Unused == mpc = "stopped" => ~ use_thread

-----------------------------------------------------------------------------
(* The type invariant.  A device record that has once had a thread names it, *)
(* and use_thread is cleared before the device is closed.                    *)

Named == \A t \in Thread : tpc[t] # "none" => thread_id \in Thread

HasDevice == mpc # "idle" => capture

TypeInv == TypeOK /\ Unused /\ Named /\ HasDevice

LEMMA TypeInit == Init => TypeInv
  BY ThreadAssumption DEF Init, TypeInv, TypeOK, Unused, Named, HasDevice, MainPc, ThreadPc

\* A move of a thread is a step between the places it can be at.
LEMMA MoveType ==
  ASSUME NEW t \in Thread, NEW from, NEW to \in ThreadPc,
         tpc \in [Thread -> ThreadPc], Move(t, from, to)
  PROVE  /\ tpc' \in [Thread -> ThreadPc]
         /\ tpc[t] = from /\ tpc'[t] = to
         /\ \A u \in Thread \ {t} : tpc'[u] = tpc[u]
  BY DEF Move

LEMMA TypeMain == TypeInv /\ (Requests \/ MainStep) => TypeInv'
<1> SUFFICES ASSUME TypeInv, Requests \/ MainStep PROVE TypeInv'
  OBVIOUS
<1> USE ThreadAssumption DEF TypeInv, TypeOK, Unused, Named, HasDevice, MainPc, flagVars
<1>1. CASE StartAcquisition
  BY <1>1 DEF StartAcquisition
<1>2. ASSUME NEW why \in {"update", "close"}, StopFor(why) PROVE TypeInv'
  BY <1>2 DEF StopFor
<1>3. CASE StartNoPipe
  BY <1>3 DEF StartNoPipe, StartFlags
<1>4. CASE StartNoThread
  BY <1>4 DEF StartNoThread, StartFlags
<1>5. CASE StartReported
  BY <1>5 DEF StartReported
<1>6. CASE StartFailed
  BY <1>6 DEF StartFailed
<1>7. ASSUME NEW t \in Thread, StartThread(t) PROVE TypeInv'
  BY <1>7 DEF StartThread, StartFlags, CanCreate, ThreadPc
<1>8. CASE StopThread
  BY <1>8 DEF StopThread
<1>9. CASE StopNothing
  BY <1>9 DEF StopNothing
<1>10. CASE GiveUp
  BY <1>10 DEF GiveUp
<1>11. CASE TimeOut
  BY <1>11 DEF TimeOut
<1>12. CASE CloseHandle
  BY <1>12 DEF CloseHandle
<1>13. CASE TimeOutAgain
  BY <1>13 DEF TimeOutAgain
<1>14. CASE Signalled
  BY <1>14 DEF Signalled
<1>15. CASE Join
  BY <1>15 DEF Join, ThreadPc
<1>16. CASE Restart
  BY <1>16 DEF Restart
<1>17. CASE CloseCapture
  BY <1>17 DEF CloseCapture
<1> QED
  BY <1>1, <1>2, <1>3, <1>4, <1>5, <1>6, <1>7, <1>8, <1>9, <1>10, <1>11, <1>12, <1>13, <1>14, <1>15, <1>16, <1>17
  DEF Requests, MainStep

LEMMA TypeThread ==
  ASSUME NEW t \in Thread, TypeInv, ThreadStep(t) PROVE TypeInv'
<1> USE ThreadAssumption DEF TypeInv, TypeOK, Unused, Named, HasDevice
<1>1. Signal => signalled' \in BOOLEAN
  BY DEF Signal, Waiting
<1>2. CASE ThreadBegins(t)
  BY <1>2, MoveType DEF ThreadBegins, Move, ThreadPc
<1>3. CASE ThreadConfirms(t)
  BY <1>1, <1>3 DEF ThreadConfirms, Move, ThreadPc, flagVars
<1>4. CASE ThreadLoops(t)
  BY <1>4 DEF ThreadLoops, Move, ThreadPc, flagVars
<1>5. CASE ThreadReads(t)
  BY <1>5 DEF ThreadReads, Move, ThreadPc, flagVars
<1>6. CASE ThreadWrites(t) \/ ThreadCancelled(t)
  BY <1>6 DEF ThreadWrites, ThreadCancelled, Move, ThreadPc, flagVars
<1>7. CASE Cleanup(t)
  BY <1>1, <1>7 DEF Cleanup, Move, ThreadPc
<1> QED
  BY <1>2, <1>3, <1>4, <1>5, <1>6, <1>7 DEF ThreadStep

\* Every variable of the thread protocol keeps its type (PROXY_DEV of
\* proxyd.c), whatever the delays; in particular a device that is closed is
\* no longer marked as one with a thread.
THEOREM ThreadTypeCorrect == Spec => []TypeOK
<1>1. Init => TypeInv
  BY TypeInit
<1>2. TypeInv /\ [Next]_vars => TypeInv'
  <2> SUFFICES ASSUME TypeInv, [Next]_vars PROVE TypeInv'
    OBVIOUS
  <2>1. CASE Next
    BY <2>1, TypeMain, TypeThread DEF Next
  <2>2. CASE UNCHANGED vars
    BY <2>2 DEF vars, flagVars, TypeInv, TypeOK, Unused, Named, HasDevice
  <2> QED
    BY <2>1, <2>2
<1>3. TypeInv => TypeOK
  BY DEF TypeInv
<1> QED
  BY <1>1, <1>2, <1>3, PTL DEF Spec
-----------------------------------------------------------------------------
(* The safety invariants.  They hold when a thread that is stopped for an    *)
(* update reacts within 50 ms, and any thread once its file handle is closed *)
(* - otherwise the daemon goes on without knowing what the thread does.      *)

NoThread == \A t \in Thread : ~ Alive(t)

\* The only thread that can be alive is the one the device record names, and
\* the device has it and is open.
Single == \A t \in Thread : Alive(t) => thread_id = t /\ use_thread /\ capture

\* thread_active from the first to the last line of the thread.
ActiveFlag ==
  thread_active <=> /\ thread_id \in Thread
                    /\ tpc[thread_id] \in {"confirm", "loop", "read", "write", "cleanup"}

\* A thread that has not confirmed its start is being waited for.
Unconfirmed ==
  \A t \in Thread : tpc[t] \in {"created", "confirm"} => mpc = "starting" /\ ~ signalled

\* Where the main thread knows that no thread is left.
Ended ==
  /\ mpc \in {"start", "failed", "late2", "join", "stopped"} => NoThread
  /\ mpc \in {"stopping", "late", "stopping2"} /\ signalled => NoThread

\* The file handle is closed by force only when the device is closed for good.
Handle ==
  /\ \/ fd_open = capture
     \/ mpc \in {"stopping2", "late2", "join", "stopped"} /\ purpose = "close"
  /\ mpc = "late" => purpose = "close"

Parts ==
  Single /\ ActiveFlag /\ Unconfirmed /\ Ended /\ Handle /\ BufferRecovered

IInv == TypeInv /\ Parts

InTime == ~ Stuck /\ "update" \notin Late

LEMMA PartsInit == Init => Parts
  BY ThreadAssumption DEF Init, Parts, Single, ActiveFlag, Unconfirmed, Ended, NoThread,
     Handle, BufferRecovered, Alive

LEMMA PartsMain ==
  ASSUME InTime, IInv, Requests \/ MainStep PROVE Parts'
<1> USE ThreadAssumption
    DEF InTime, IInv, TypeInv, TypeOK, Unused, Named, HasDevice, MainPc, ThreadPc, flagVars,
        Parts, Single, ActiveFlag, Unconfirmed, Ended, NoThread, Handle, BufferRecovered, Alive
<1>1. CASE StartAcquisition
  BY <1>1 DEF StartAcquisition
<1>2. ASSUME NEW why \in {"update", "close"}, StopFor(why) PROVE Parts'
  BY <1>2 DEF StopFor
<1>3. CASE StartNoPipe
  BY <1>3 DEF StartNoPipe, StartFlags
<1>4. CASE StartNoThread
  BY <1>4 DEF StartNoThread, StartFlags
<1>5. CASE StartReported
  BY <1>5 DEF StartReported
<1>6. CASE StartFailed
  BY <1>6 DEF StartFailed
<1>7. ASSUME NEW t \in Thread, StartThread(t) PROVE Parts'
  BY <1>7 DEF StartThread, StartFlags, CanCreate
<1>8. CASE StopThread
  BY <1>8 DEF StopThread
<1>9. CASE StopNothing
  BY <1>9 DEF StopNothing
<1>10. CASE GiveUp
  BY <1>10 DEF GiveUp
<1>11. CASE TimeOut
  BY <1>11 DEF TimeOut
<1>12. CASE CloseHandle
  BY <1>12 DEF CloseHandle
<1>13. CASE TimeOutAgain
  BY <1>13 DEF TimeOutAgain
<1>14. CASE Signalled
  BY <1>14 DEF Signalled
<1>15. CASE Join
  BY <1>15 DEF Join
<1>16. CASE Restart
  BY <1>16 DEF Restart
<1>17. CASE CloseCapture
  BY <1>17 DEF CloseCapture
<1> QED
  BY <1>1, <1>2, <1>3, <1>4, <1>5, <1>6, <1>7, <1>8, <1>9, <1>10, <1>11, <1>12, <1>13, <1>14, <1>15, <1>16, <1>17
  DEF Requests, MainStep

LEMMA PartsThread ==
  ASSUME IInv, NEW t \in Thread, ThreadStep(t) PROVE Parts'
<1> USE ThreadAssumption
    DEF IInv, TypeInv, TypeOK, Unused, Named, HasDevice, ThreadPc, flagVars,
        Parts, Single, ActiveFlag, Unconfirmed, Ended, NoThread, Handle, BufferRecovered, Alive
<1>1. CASE ThreadBegins(t)
  BY <1>1 DEF ThreadBegins, Move
<1>2. CASE ThreadConfirms(t)
  BY <1>2 DEF ThreadConfirms, Move, Signal, Waiting
<1>3. CASE ThreadLoops(t)
  BY <1>3 DEF ThreadLoops, Move
<1>4. CASE ThreadReads(t)
  BY <1>4 DEF ThreadReads, Move
<1>5. CASE ThreadWrites(t)
  BY <1>5 DEF ThreadWrites, Move
<1>6. CASE ThreadCancelled(t)
  BY <1>6 DEF ThreadCancelled, Move
<1>7. CASE Cleanup(t)
  BY <1>7 DEF Cleanup, Move, Signal, Waiting
<1> QED
  BY <1>1, <1>2, <1>3, <1>4, <1>5, <1>6, <1>7 DEF ThreadStep

LEMMA Inductive == InTime /\ Spec => []IInv
<1>1. Init => IInv
  BY TypeInit, PartsInit DEF IInv
<1>2. ASSUME InTime, IInv, [Next]_vars PROVE IInv'
  <2>1. CASE Requests \/ MainStep
    BY <1>2, <2>1, TypeMain, PartsMain DEF IInv
  <2>2. ASSUME NEW t \in Thread, ThreadStep(t) PROVE IInv'
    BY <1>2, <2>2, TypeThread, PartsThread DEF IInv
  <2>3. CASE UNCHANGED vars
    BY <1>2, <2>3 DEF vars, flagVars, IInv, TypeInv, TypeOK, Unused, Named, HasDevice, Parts,
       Single, ActiveFlag, Unconfirmed, Ended, NoThread, Handle, BufferRecovered, Alive
  <2> QED
    BY <1>2, <2>1, <2>2, <2>3 DEF Next
<1>3. InTime /\ IInv /\ [Next]_vars => IInv'
  BY <1>2
<1>4. InTime => InTime'
  BY DEF InTime
<1> QED
  BY <1>1, <1>3, <1>4, PTL DEF Spec

\* No thread touches a device that has been deleted, nor a file handle closed
\* under it (proxyd.c, vbi_proxyd_stop_acq_thread and its callers).
THEOREM NoThreadUsesDeletedDevice == InTime /\ Spec => []NoUseAfterDelete
<1>1. IInv => NoUseAfterDelete
  <2> SUFFICES ASSUME IInv, NEW t \in Thread, tpc[t] \in {"loop", "read", "write"}
               PROVE capture /\ (mpc \in {"idle", "stopped", "start"} => fd_open)
    BY DEF NoUseAfterDelete
  <2>1. Alive(t) /\ capture
    BY DEF IInv, Parts, Single, Alive
  <2>2. mpc \notin {"start", "stopped"}
    BY <2>1 DEF IInv, Parts, Ended, NoThread
  <2>3. mpc = "idle" => fd_open
    BY <2>1 DEF IInv, Parts, Handle
  <2> QED
    BY <2>1, <2>2, <2>3
<1> QED
  BY <1>1, Inductive, PTL

\* Only one acquisition thread is ever alive.
THEOREM AtMostOneThread == InTime /\ Spec => []OneThread
<1>1. IInv => OneThread
  <2> SUFFICES ASSUME IInv PROVE OneThread
    OBVIOUS
  <2> DEFINE A == {t \in Thread : Alive(t)}
  <2>1. A \subseteq {thread_id}
    BY DEF IInv, Parts, Single
  <2>2. IsFiniteSet({thread_id}) /\ Cardinality({thread_id}) = 1
    BY FS_Singleton
  <2>3. IsFiniteSet(A) /\ Cardinality(A) <= 1
    BY <2>1, <2>2, FS_Subset
  <2> QED
    BY <2>3 DEF OneThread
<1> QED
  BY <1>1, Inductive, PTL

\* thread_active, on which the main thread relies when it stops the
\* acquisition, tells whether there is a thread.
THEOREM ActiveIsTrue == InTime /\ Spec => []ActiveIsAlive
<1>1. IInv => ActiveIsAlive
  BY DEF IInv, TypeInv, TypeOK, Parts, Single, ActiveFlag, Unconfirmed, ActiveIsAlive, Alive,
     ThreadPc
<1> QED
  BY <1>1, Inductive, PTL

\* A buffer that a cancelled thread had taken is given back by its cleanup.
THEOREM TakenBufferReturned == InTime /\ Spec => []BufferRecovered
<1>1. IInv => BufferRecovered
  BY DEF IInv, Parts
<1> QED
  BY <1>1, Inductive, PTL
=============================================================================
