----------------------------- MODULE Exercises -----------------------------
(***************************************************************************)
(* One program that uses both exercises: it runs commands with             *)
(* SystemCalls while its threads compete for the mutex of Threading.  The  *)
(* two meet in fork, which copies a mutex that may be locked, and in the   *)
(* end of a process, which ends its threads.                               *)
(***************************************************************************)
EXTENDS SystemCalls

CONSTANTS
  Threads,
  Callers      \* bound: the processes whose program goes on to call, the others only exit

VARIABLES mutex, home, tpc, thread_data

INSTANCE Threading

ASSUME ThreadsAssumption == Threads \cap {NULL, ORPHAN} = {} /\ NULL \notin BOOLEAN

threads == <<mutex, home, tpc, thread_data>>
vars == <<sysvars, threads>>

Init == SysInit /\ ThreadInit

(* Calls into the two libraries, and exit, at the caller's pleasure. *)
Call(p) ==
  \/ CallerExits(p) /\ ThreadsEnd(p)
  \/ /\ p \in Callers
     /\ \/ (do_system(p) \/ do_exec_fork_fails(p) \/ do_exec_redirect(p)) /\ UNCHANGED threads
        \/ \E c \in Procs : do_exec(p, c) /\ ThreadsForked(p, c)
        \/ /\ pc[p] = "caller" /\ UNCHANGED sysvars
           /\ \E t \in Threads : start_thread_obtaining_mutex(p, t) \/ Join(p, t)

(* No memory for thread_data: memset writes to a null pointer. *)
StartCrashes(p) == p \in Callers /\ pc[p] = "caller" /\ Ends(p, SIGSEGV) /\ ThreadsEnd(p)

InParent(p) ==
  \/ (RedirectForkFails(p) \/ Waitpid(p)) /\ UNCHANGED threads
  \/ \E c \in Procs : RedirectFork(p, c) /\ ThreadsForked(p, c)

InChild(c) ==
  \/ (Exec(c) \/ ExecFails(c) \/ CommandEnds(c)) /\ ThreadsEnd(c)
  \/ RedirectFails(c) /\ UNCHANGED threads

InThread(t) == threadfunc(t) /\ UNCHANGED sysvars

Next ==
  \/ \E p \in Procs : \/ Call(p) \/ StartCrashes(p) \/ InParent(p) \/ InChild(p)
                      \/ WaitpidFails(p) /\ UNCHANGED threads
  \/ \E t \in Threads : InThread(t) \/ (MutexFails(t) /\ UNCHANGED sysvars)

Spec == Init /\ [][Next]_vars

(* Processes and threads run, commands end, the mutex serves its waiters;  *)
(* nothing makes the caller call, exit or join.                            *)
FairSpec ==
  /\ Spec
  /\ \A p \in Procs : WF_vars(InParent(p) \/ InChild(p))
  /\ \A t \in Threads : SF_vars(InThread(t))

(* The types of both components. *)
TypeOK == SysTypeOK /\ ThreadTypeOK
=============================================================================
