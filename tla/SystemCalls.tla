---------------------------- MODULE SystemCalls ----------------------------
(***************************************************************************)
(* examples/systemcalls: do_system, do_exec and do_exec_redirect, called   *)
(* by a program that runs as process Root.  A child that comes back from   *)
(* do_exec_redirect goes on as a second copy of that program, so every     *)
(* process can be a caller.                                                *)
(*                                                                         *)
(* Modelled from their use: fork, execv, waitpid, open, dup2, exit and     *)
(* what becomes of a process that ends.  stdio buffers are left out, and   *)
(* with them what fflush before a fork is for.                             *)
(***************************************************************************)
EXTENDS Integers

CONSTANTS
  Procs, Root,     \* process ids, the first program's among them
  NULL,
  MaxFds           \* descriptors of output files a process can have open

ASSUME ProcsAssumption == Root \in Procs /\ NULL \notin Procs /\ MaxFds \in Nat

VARIABLES
  pc,          \* where each process is, "none" for an unused id
  call,        \* the function it is in
  child,       \* the child it waits for
  parent,      \* its parent, NULL once that has ended
  status,      \* the wait status of a process that has ended
  fds,         \* descriptors of output files it has open
  stdout,      \* where its descriptor 1 leads
  result,      \* what the call that has just come back returned, else FALSE
  image,       \* history: the program it runs, the caller or the command
  forked       \* history: the function that forked it

sysvars == <<pc, call, child, parent, status, fds, stdout, result, image, forked>>

Calling == {"caller", "opened", "wait"}    \* running the caller's program

(* Wait statuses: exit code * 256, or the number of the signal. *)
EXIT_SUCCESS == 0
EXIT_FAILURE == 256
SIGSEGV == 11
Statuses == {EXIT_SUCCESS, EXIT_FAILURE, SIGSEGV}

WIFSIGNALED(s) == s % 128 \in 1 .. 126
WIFEXITED(s) == s % 128 = 0

SysInit ==
  /\ pc = [p \in Procs |-> IF p = Root THEN "caller" ELSE "none"]
  /\ call = [p \in Procs |-> NULL] /\ child = [p \in Procs |-> NULL]
  /\ parent = [p \in Procs |-> NULL] /\ status = [p \in Procs |-> EXIT_SUCCESS]
  /\ fds = [p \in Procs |-> 0] /\ stdout = [p \in Procs |-> "terminal"]
  /\ result = FALSE
  /\ image = [p \in Procs |-> "caller"] /\ forked = [p \in Procs |-> NULL]

(* The current call of p returns r to the caller. *)
Return(p, r) ==
  /\ pc' = [pc EXCEPT ![p] = "caller"] /\ call' = [call EXCEPT ![p] = NULL]
  /\ child' = [child EXCEPT ![p] = NULL] /\ result' = r

(* Process p ends: it stays as a zombie while it has a parent that may     *)
(* wait for it, and its own children are left to init.                     *)
Ends(p, s) ==
  LET gone(q) == (q = p /\ parent[p] = NULL) \/ (parent[q] = p /\ pc[q] = "zombie")
  IN  /\ pc' = [q \in Procs |-> IF gone(q) THEN "none" ELSE IF q = p THEN "zombie" ELSE pc[q]]
      /\ parent' = [q \in Procs |-> IF parent[q] = p THEN NULL ELSE parent[q]]
      /\ status' = [q \in Procs |-> IF gone(q) THEN EXIT_SUCCESS
                                    ELSE IF q = p THEN s ELSE status[q]]
      /\ image' = [q \in Procs |-> IF gone(q) THEN "caller" ELSE image[q]]
      /\ forked' = [q \in Procs |-> IF gone(q) THEN NULL ELSE forked[q]]
      /\ call' = [call EXCEPT ![p] = NULL] /\ child' = [child EXCEPT ![p] = NULL]
      /\ fds' = [fds EXCEPT ![p] = 0] /\ stdout' = [stdout EXCEPT ![p] = "terminal"]
      /\ result' = FALSE

---------------------------------------------------------------------------
(* do_system: system() returns -1 or a wait status. *)
do_system(p) ==
  /\ pc[p] = "caller"
  /\ \E ret \in Statuses \union {-1} : result' = (ret = 0)
  /\ UNCHANGED <<pc, call, child, parent, status, fds, stdout, image, forked>>

(* fork: c starts as a copy of p. *)
Fork(p, c, fn) ==
  /\ c # Root /\ pc[c] = "none"
  /\ pc' = [pc EXCEPT ![p] = "wait", ![c] = "child"]
  /\ call' = [call EXCEPT ![p] = fn, ![c] = fn] /\ child' = [child EXCEPT ![p] = c]
  /\ parent' = [parent EXCEPT ![c] = p]
  /\ fds' = [fds EXCEPT ![c] = fds[p]] /\ stdout' = [stdout EXCEPT ![c] = stdout[p]]
  /\ forked' = [forked EXCEPT ![c] = fn]
  /\ result' = FALSE /\ UNCHANGED <<status, image>>

do_exec(p, c) == pc[p] = "caller" /\ Fork(p, c, "do_exec")

do_exec_fork_fails(p) ==
  /\ pc[p] = "caller" /\ Return(p, FALSE)
  /\ UNCHANGED <<parent, status, fds, stdout, image, forked>>

(* do_exec_redirect opens the output file, or gives up. *)
do_exec_redirect(p) ==
  /\ pc[p] = "caller"
  /\ \/ /\ fds[p] < MaxFds
        /\ fds' = [fds EXCEPT ![p] = @ + 1] /\ pc' = [pc EXCEPT ![p] = "opened"]
        /\ call' = [call EXCEPT ![p] = "do_exec_redirect"]
        /\ result' = FALSE /\ UNCHANGED child
     \/ Return(p, FALSE) /\ UNCHANGED fds
  /\ UNCHANGED <<parent, status, stdout, image, forked>>

(* It forks with the file open. *)
RedirectFork(p, c) == pc[p] = "opened" /\ Fork(p, c, "do_exec_redirect")

RedirectForkFails(p) ==
  /\ pc[p] = "opened" /\ Return(p, FALSE)
  /\ UNCHANGED <<parent, status, fds, stdout, image, forked>>

---------------------------------------------------------------------------
(* Mutant: every child closes a descriptor. *)
ExecClosing(c) ==
  /\ pc[c] = "child"
  /\ pc' = [pc EXCEPT ![c] = "command"] /\ image' = [image EXCEPT ![c] = "command"]
  /\ call' = [call EXCEPT ![c] = NULL] /\ result' = FALSE
  /\ fds' = [fds EXCEPT ![c] = @ - 1]
  /\ stdout' = [stdout EXCEPT ![c] = IF call[c] = "do_exec" THEN @ ELSE "file"]
  /\ UNCHANGED <<child, parent, status, forked>>

(* Mutant: dup2 is missing. *)
ExecUnredirected(c) ==
  /\ pc[c] = "child"
  /\ pc' = [pc EXCEPT ![c] = "command"] /\ image' = [image EXCEPT ![c] = "command"]
  /\ call' = [call EXCEPT ![c] = NULL] /\ result' = FALSE
  /\ fds' = IF call[c] = "do_exec" THEN fds ELSE [fds EXCEPT ![c] = @ - 1]
  /\ UNCHANGED <<child, parent, status, stdout, forked>>

(* The child: execv runs the command, in do_exec_redirect after dup2 and   *)
(* close.                                                                  *)
Exec(c) ==
  /\ pc[c] = "child"
  /\ pc' = [pc EXCEPT ![c] = "command"] /\ image' = [image EXCEPT ![c] = "command"]
  /\ call' = [call EXCEPT ![c] = NULL] /\ result' = FALSE
  /\ IF call[c] = "do_exec_redirect"
     THEN fds' = [fds EXCEPT ![c] = @ - 1] /\ stdout' = [stdout EXCEPT ![c] = "file"]
     ELSE UNCHANGED <<fds, stdout>>
  /\ UNCHANGED <<child, parent, status, forked>>

(* Mutant: the child of do_exec comes back too. *)
ExecFailsReturning(c) ==
  /\ pc[c] = "child" /\ call[c] = "do_exec" /\ Return(c, FALSE)
  /\ UNCHANGED <<parent, status, fds, stdout, image, forked>>

(* execv fails in do_exec: the child exits. *)
ExecFails(c) == pc[c] = "child" /\ call[c] = "do_exec" /\ Ends(c, EXIT_FAILURE)

(* In do_exec_redirect the child returns: after a failed dup2 with the     *)
(* file open, after a failed execv with its standard output in the file.   *)
RedirectFails(c) ==
  /\ pc[c] = "child" /\ call[c] = "do_exec_redirect" /\ Return(c, FALSE)
  /\ \/ UNCHANGED <<fds, stdout>>
     \/ fds' = [fds EXCEPT ![c] = @ - 1] /\ stdout' = [stdout EXCEPT ![c] = "file"]
  /\ UNCHANGED <<parent, status, image, forked>>

(* The command ends, by itself or by a signal; so does a caller. *)
CommandEnds(c) == pc[c] = "command" /\ \E s \in Statuses : Ends(c, s)

CallerExits(p) == pc[p] = "caller" /\ \E s \in {EXIT_SUCCESS, EXIT_FAILURE} : Ends(p, s)

---------------------------------------------------------------------------
(* What both functions make of the wait status. *)
Succeeded(s) == ~ WIFSIGNALED(s) /\ WIFEXITED(s) /\ s = 0

(* Mutant: the parent collects whichever child has ended. *)
WaitpidAny(p) ==
  \E c \in Procs :
      /\ pc[p] = "wait" /\ pc[c] = "zombie" /\ parent[c] = p
      /\ pc' = [pc EXCEPT ![p] = "caller", ![c] = "none"]
      /\ call' = [call EXCEPT ![p] = NULL] /\ child' = [child EXCEPT ![p] = NULL]
      /\ result' = Succeeded(status[c])
      /\ parent' = [parent EXCEPT ![c] = NULL]
      /\ status' = [status EXCEPT ![c] = EXIT_SUCCESS]
      /\ image' = [image EXCEPT ![c] = "caller"] /\ forked' = [forked EXCEPT ![c] = NULL]
      /\ UNCHANGED <<fds, stdout>>

(* The parent collects its child. *)
Waitpid(p) ==
  LET c == child[p]
  IN  /\ pc[p] = "wait" /\ pc[c] = "zombie"
      /\ pc' = [pc EXCEPT ![p] = "caller", ![c] = "none"]
      /\ call' = [call EXCEPT ![p] = NULL] /\ child' = [child EXCEPT ![p] = NULL]
      /\ result' = Succeeded(status[c])
      /\ parent' = [parent EXCEPT ![c] = NULL]
      /\ status' = [status EXCEPT ![c] = EXIT_SUCCESS]
      /\ image' = [image EXCEPT ![c] = "caller"] /\ forked' = [forked EXCEPT ![c] = NULL]
      /\ UNCHANGED <<fds, stdout>>

(* waitpid fails: the call returns, and nobody waits for the child again. *)
WaitpidFails(p) ==
  /\ pc[p] = "wait" /\ Return(p, FALSE)
  /\ UNCHANGED <<parent, status, fds, stdout, image, forked>>

---------------------------------------------------------------------------
(* Properties *)

SysTypeOK ==
  /\ pc \in [Procs -> Calling \union {"none", "child", "command", "zombie"}]
  /\ call \in [Procs -> {NULL, "do_exec", "do_exec_redirect"}]
  /\ child \in [Procs -> Procs \union {NULL}] /\ parent \in [Procs -> Procs \union {NULL}]
  /\ status \in [Procs -> Statuses] /\ result \in BOOLEAN
  /\ fds \in [Procs -> 0 .. MaxFds] /\ stdout \in [Procs -> {"terminal", "file"}]

(* When the call p is in waits and now returns true, the child it waited   *)
(* for is its own and has ended, with exit code 0, as the command.         *)
CommandExecuted(p) ==
  pc[p] = "wait" /\ pc'[p] = "caller" /\ result' =>
    LET c == child[p]
    IN  parent[c] = p /\ pc[c] = "zombie" /\ status[c] = EXIT_SUCCESS /\ image[c] = "command"

(* "@return true if the command ... were executed successfully using the   *)
(* execv() call", false after an error in fork, waitpid or execv or a      *)
(* command that fails: the contract of do_exec, and of do_exec_redirect,   *)
(* which refers to it ("All other parameters, see do_exec above", "The     *)
(* rest of the behaviour is same as do_exec()").                           *)
TrueMeansExecuted == [][\A p \in Procs : CommandExecuted(p)]_sysvars

(* do_exec keeps that contract, whichever other children its process has   *)
(* left behind: it returns true only for its own child, and not for a copy *)
(* of the caller whose execv has failed.                                   *)
DoExecExecuted == [][\A p \in Procs : call[p] = "do_exec" => CommandExecuted(p)]_sysvars

(* do_exec returns in one process only: every further process that runs    *)
(* the caller's program came back from do_exec_redirect.                   *)
OneCaller ==
  \A p \in Procs \ {Root} : pc[p] \in Calling => forked[p] = "do_exec_redirect"

(* The command started by do_exec_redirect writes to the file and does not *)
(* hold a second descriptor of it, whatever its caller had left open.      *)
Redirected ==
  \A p \in Procs :
    /\ pc[p] = "command" /\ forked[p] = "do_exec_redirect" => stdout[p] = "file"
    /\ pc[p] = "command" /\ parent[p] # NULL /\ pc[parent[p]] = "wait" /\ child[parent[p]] = p
         => fds[p] = fds[parent[p]] - (IF forked[p] = "do_exec_redirect" THEN 1 ELSE 0)

(* A waiting call returns, given that commands end: its child is not lost, *)
(* not collected by anybody else and not stuck between fork and execv.     *)
(* Only do_exec_redirect may wait for a child that has itself returned,    *)
(* for as long as that second copy of the caller runs on.                  *)
CallsReturn ==
  \A p \in Procs :
    pc[p] = "wait" ~> \/ pc[p] # "wait"
                      \/ call[p] = "do_exec_redirect" /\ pc[child[p]] \in Calling
=============================================================================
