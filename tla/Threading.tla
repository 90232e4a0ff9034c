----------------------------- MODULE Threading -----------------------------
(***************************************************************************)
(* examples/threading: start_thread_obtaining_mutex starts a thread that   *)
(* sleeps, takes a mutex, sleeps, and releases it.  The caller joins the   *)
(* thread, which hands back its thread_data, and frees that.               *)
(*                                                                         *)
(* There is a mutex per process, because a fork copies the memory it is in *)
(* and none of the threads.  The sleeps are the time that passes between   *)
(* the steps of a thread.                                                  *)
(***************************************************************************)
EXTENDS Integers

CONSTANTS
  Procs, NULL,
  Threads      \* threads the system can run at a time, in all processes

VARIABLES
  mutex,       \* its owner, NULL, or ORPHAN when no thread of the process can unlock it
  home, tpc,   \* the process of each thread, and where it is
  thread_data  \* its argument: NULL, or the value of thread_complete_success

ORPHAN == "orphan"

ThreadInit ==
  /\ mutex = [p \in Procs |-> NULL] /\ home = [t \in Threads |-> NULL]
  /\ tpc = [t \in Threads |-> "none"] /\ thread_data = [t \in Threads |-> NULL]

(* Process p ends, or becomes another program: its threads are gone. *)
ThreadsEnd(p) ==
  /\ mutex' = [mutex EXCEPT ![p] = NULL]
  /\ home' = [t \in Threads |-> IF home[t] = p THEN NULL ELSE home[t]]
  /\ tpc' = [t \in Threads |-> IF home[t] = p THEN "none" ELSE tpc[t]]
  /\ thread_data' = [t \in Threads |-> IF home[t] = p THEN NULL ELSE thread_data[t]]

(* c is a copy of p: the mutex as it was, without the thread that owned it. *)
ThreadsForked(p, c) ==
  /\ mutex' = [mutex EXCEPT ![c] = IF mutex[p] = NULL THEN NULL ELSE ORPHAN]
  /\ UNCHANGED <<home, tpc, thread_data>>

---------------------------------------------------------------------------
Step(t, from, to) == tpc[t] = from /\ tpc' = [tpc EXCEPT ![t] = to]

(* When pthread_create fails thread_data is freed again and nothing has    *)
(* changed.                                                                *)
start_thread_obtaining_mutex(p, t) ==
  /\ Step(t, "none", "start") /\ home' = [home EXCEPT ![t] = p]
  /\ thread_data' = [thread_data EXCEPT ![t] = FALSE]
  /\ UNCHANGED mutex

(* threadfunc: sleep and lock, *)
Obtain(t) ==
  /\ Step(t, "start", "holding")
  /\ mutex[home[t]] = NULL /\ mutex' = [mutex EXCEPT ![home[t]] = t]
  /\ UNCHANGED <<home, thread_data>>

ObtainFails(t) == Step(t, "start", "returned") /\ UNCHANGED <<mutex, home, thread_data>>

(* Mutant: the mutex is not released. *)
ReleaseSkipped(t) ==
  /\ Step(t, "holding", "returned") /\ thread_data' = [thread_data EXCEPT ![t] = TRUE]
  /\ UNCHANGED <<mutex, home>>

(* sleep, unlock and report success; *)
Release(t) ==
  /\ Step(t, "holding", "returned") /\ thread_data' = [thread_data EXCEPT ![t] = TRUE]
  /\ mutex' = [mutex EXCEPT ![home[t]] = NULL]
  /\ UNCHANGED home

(* an unlock that fails leaves the mutex locked for good. *)
ReleaseFails(t) ==
  /\ Step(t, "holding", "returned") /\ mutex' = [mutex EXCEPT ![home[t]] = ORPHAN]
  /\ UNCHANGED <<home, thread_data>>

(* The caller joins the thread and frees what it returned. *)
Join(p, t) ==
  /\ home[t] = p /\ Step(t, "returned", "none")
  /\ home' = [home EXCEPT ![t] = NULL] /\ thread_data' = [thread_data EXCEPT ![t] = NULL]
  /\ UNCHANGED mutex

(* What the thread does by itself, and the calls that may fail on it. *)
threadfunc(t) == Obtain(t) \/ Release(t)

MutexFails(t) == ObtainFails(t) \/ ReleaseFails(t)

---------------------------------------------------------------------------
(* Properties *)

ThreadTypeOK ==
  /\ mutex \in [Procs -> Threads \union {NULL, ORPHAN}]
  /\ home \in [Threads -> Procs \union {NULL}]
  /\ tpc \in [Threads -> {"none", "start", "holding", "returned"}]
  /\ thread_data \in [Threads -> {NULL, TRUE, FALSE}]

(* Every mutex is free, or held by a thread of its own process that is     *)
(* going to release it, or beyond release; and a thread that reports       *)
(* thread_complete_success has released it.                                *)
MutexHeld ==
  /\ \A p \in Procs, t \in Threads : mutex[p] = t <=> home[t] = p /\ tpc[t] = "holding"
  /\ \A t \in Threads : thread_data[t] = TRUE => tpc[t] = "returned"

(* Every thread started comes to its end, however many compete for the     *)
(* mutex, unless its process is a copy forked while a thread of the        *)
(* original held the mutex, or an unlock has failed.                       *)
ThreadsFinish ==
  \A t \in Threads :
    tpc[t] \in {"start", "holding"} ~>
      tpc[t] \in {"returned", "none"} \/ mutex[home[t]] = ORPHAN
=============================================================================
