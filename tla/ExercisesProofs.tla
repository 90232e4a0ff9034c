-------------------------- MODULE ExercisesProofs --------------------------
(***************************************************************************)
(* The exercises, for any number of processes, threads and descriptors.    *)
(***************************************************************************)
EXTENDS Exercises, TLAPS

USE ProcsAssumption, ThreadsAssumption

(* The functions that fork. *)
Forking == {"do_exec", "do_exec_redirect"}

---------------------------------------------------------------------------
(* Processes *)

ProcType ==
  /\ pc \in [Procs -> Calling \union {"none", "child", "command", "zombie"}]
  /\ call \in [Procs -> {NULL} \union Forking]
  /\ child \in [Procs -> Procs \union {NULL}] /\ parent \in [Procs -> Procs \union {NULL}]
  /\ status \in [Procs -> Statuses]
  /\ fds \in [Procs -> 0 .. MaxFds] /\ stdout \in [Procs -> {"terminal", "file"}]
  /\ image \in [Procs -> {"caller", "command"}]
  /\ forked \in [Procs -> {NULL} \union Forking]

(* A parent runs the caller's program: nobody's parent has been replaced   *)
(* by a command, has ended or is an unused id.  No process forks Root.     *)
Family ==
  /\ parent[Root] = NULL
  /\ \A p \in Procs : parent[p] # NULL => parent[p] # p /\ pc[parent[p]] \in Calling

(* The child p waits for stays p's child, forked by the call p is in, until *)
(* p collects it: its id is not given to another process in the meantime.  *)
Waits ==
  \A p \in Procs : pc[p] = "wait" =>
    /\ child[p] \in Procs /\ call[p] \in Forking
    /\ parent[child[p]] = p /\ pc[child[p]] # "none" /\ forked[child[p]] = call[p]

(* Between fork and exec a child has what its parent gave it. *)
Forks ==
  \A p \in Procs :
    /\ pc[p] = "opened" => fds[p] > 0
    /\ pc[p] = "child" => call[p] \in Forking /\ forked[p] = call[p]
    /\ pc[p] = "child" /\ call[p] = "do_exec_redirect" => fds[p] > 0
    /\ pc[p] = "child" /\ parent[p] # NULL /\ pc[parent[p]] = "wait" /\ child[parent[p]] = p
         => fds[p] = fds[parent[p]]

(* A child of do_exec that ended with exit code 0 had become the command.  *)
Executed ==
  \A p \in Procs :
    /\ pc[p] = "command" => image[p] = "command"
    /\ pc[p] = "zombie" /\ forked[p] = "do_exec" /\ status[p] = EXIT_SUCCESS
         => image[p] = "command"

ProcInv ==
  ProcType /\ Family /\ Waits /\ Forks /\ Executed /\ OneCaller /\ Redirected

LEMMA ProcInit == SysInit => ProcInv
  BY DEF SysInit, ProcInv, ProcType, Family, Waits, Forks, Executed, OneCaller, Redirected,
         Calling, Forking, Statuses, EXIT_SUCCESS

(* The end of a process.  It has no zombie that somebody waits for. *)
LEMMA ProcEnds ==
  ASSUME ProcInv, NEW p \in Procs, NEW s \in Statuses, Ends(p, s),
         pc[p] \in {"caller", "child", "command"},
         pc[p] = "child" => s # EXIT_SUCCESS
  PROVE  ProcInv'
<1> DEFINE gone(q) == (q = p /\ parent[p] = NULL) \/ (parent[q] = p /\ pc[q] = "zombie")
<1>1. /\ pc' = [q \in Procs |-> IF gone(q) THEN "none" ELSE IF q = p THEN "zombie" ELSE pc[q]]
      /\ parent' = [q \in Procs |-> IF parent[q] = p THEN NULL ELSE parent[q]]
      /\ status' = [q \in Procs |-> IF gone(q) THEN EXIT_SUCCESS
                                    ELSE IF q = p THEN s ELSE status[q]]
      /\ image' = [q \in Procs |-> IF gone(q) THEN "caller" ELSE image[q]]
      /\ forked' = [q \in Procs |-> IF gone(q) THEN NULL ELSE forked[q]]
      /\ call' = [call EXCEPT ![p] = NULL] /\ child' = [child EXCEPT ![p] = NULL]
      /\ fds' = [fds EXCEPT ![p] = 0] /\ stdout' = [stdout EXCEPT ![p] = "terminal"]
  BY DEF Ends
<1> HIDE DEF gone
<1>2. ProcType /\ Family /\ Waits /\ Forks /\ Executed /\ OneCaller /\ Redirected
  BY DEF ProcInv
<1>3. ProcType'
  BY <1>1, <1>2, MaxFds \in Nat DEF ProcType, Statuses, EXIT_SUCCESS
<1>4. \A q \in Procs : pc'[q] \in Calling \union {"child", "command"} => q # p /\ pc'[q] = pc[q]
  BY <1>1, <1>2 DEF ProcType, Calling
<1>5. \A q \in Procs : q # p /\ parent[q] # p => ~ gone(q)
  BY DEF gone
<1>6. \A q \in Procs : pc[q] # "zombie" /\ q # p => ~ gone(q)
  BY DEF gone
<1>7. Family'
  <2>1. parent'[Root] = NULL
    BY <1>1, <1>2 DEF Family
  <2>2. ASSUME NEW q \in Procs, parent'[q] # NULL
        PROVE  parent'[q] # q /\ pc'[parent'[q]] \in Calling
    <3>1. parent[q] # p /\ parent'[q] = parent[q] /\ parent[q] \in Procs
      BY <1>1, <1>2, <2>2 DEF ProcType
    <3>2. pc[parent[q]] \in Calling /\ parent[q] # q
      BY <1>2, <3>1 DEF Family
    <3>3. pc'[parent[q]] = pc[parent[q]]
      BY <1>1, <1>6, <3>1, <3>2 DEF Calling
    <3> QED BY <3>1, <3>2, <3>3
  <2> QED BY <2>1, <2>2 DEF Family
<1>8. Waits'
  <2> SUFFICES ASSUME NEW q \in Procs, pc'[q] = "wait"
               PROVE  /\ child'[q] \in Procs /\ call'[q] \in Forking
                      /\ parent'[child'[q]] = q /\ pc'[child'[q]] # "none"
                      /\ forked'[child'[q]] = call'[q]
    BY DEF Waits
  <2>1. q # p /\ pc[q] = "wait"
    BY <1>4 DEF Calling
  <2>2. /\ child'[q] = child[q] /\ child[q] \in Procs /\ call'[q] = call[q]
        /\ parent[child[q]] = q /\ pc[child[q]] # "none" /\ forked[child[q]] = call[q]
        /\ call[q] \in Forking
    BY <1>1, <1>2, <2>1 DEF Waits, ProcType
  <2>3. ~ gone(child[q])
    BY <2>1, <2>2 DEF gone
  <2> QED BY <1>1, <2>1, <2>2, <2>3
<1>9. Forks'
  BY <1>1, <1>2, <1>4, <1>6, <1>7 DEF Forks, ProcType, Family, Calling
<1>10. Executed'
  <2>1. pc[p] = "caller" => forked[p] # "do_exec" \/ gone(p)
    BY <1>2 DEF OneCaller, Family, Calling, gone
  <2> QED BY <1>1, <1>2, <1>4, <1>6, <2>1 DEF Executed, ProcType, Calling
<1>11. OneCaller'
  BY <1>1, <1>2, <1>4, <1>6 DEF OneCaller, Calling
<1>12. Redirected'
  BY <1>1, <1>2, <1>4, <1>6, <1>7 DEF Redirected, ProcType, Family, Calling
<1> QED BY <1>3, <1>7, <1>8, <1>9, <1>10, <1>11, <1>12 DEF ProcInv

LEMMA ProcFork ==
  ASSUME ProcInv, NEW p \in Procs, NEW c \in Procs, NEW fn \in Forking, Fork(p, c, fn),
         pc[p] \in {"caller", "opened"}, fn = "do_exec_redirect" => fds[p] > 0
  PROVE  ProcInv'
<1>1. /\ c # Root /\ pc[c] = "none"
      /\ pc' = [pc EXCEPT ![p] = "wait", ![c] = "child"]
      /\ call' = [call EXCEPT ![p] = fn, ![c] = fn] /\ child' = [child EXCEPT ![p] = c]
      /\ parent' = [parent EXCEPT ![c] = p]
      /\ fds' = [fds EXCEPT ![c] = fds[p]] /\ stdout' = [stdout EXCEPT ![c] = stdout[p]]
      /\ forked' = [forked EXCEPT ![c] = fn] /\ UNCHANGED <<status, image>>
  BY DEF Fork
<1>2. ProcType /\ Family /\ Waits /\ Forks /\ Executed /\ OneCaller /\ Redirected
  BY DEF ProcInv
<1>3. p # c
  BY <1>1
<1>4. ProcType'
  BY <1>1, <1>2 DEF ProcType, Calling
<1>5. \A q \in Procs : parent[q] # c
  BY <1>1, <1>2 DEF Family, Calling
<1>6. Family'
  BY <1>1, <1>2, <1>3, <1>5 DEF Family, ProcType, Calling
<1>7. Waits'
  BY <1>1, <1>2, <1>3 DEF Waits, ProcType
<1>8. Forks'
  BY <1>1, <1>2, <1>3, <1>5 DEF Forks, ProcType
<1>9. Executed'
  BY <1>1, <1>2, <1>3 DEF Executed, ProcType
<1>10. OneCaller'
  BY <1>1, <1>2, <1>3 DEF OneCaller, ProcType, Calling
<1>11. Redirected'
  BY <1>1, <1>2, <1>3, <1>5 DEF Redirected, ProcType
<1> QED BY <1>4, <1>6, <1>7, <1>8, <1>9, <1>10, <1>11 DEF ProcInv

(* A call of p that returns without having collected a child. *)
LEMMA ProcReturn ==
  ASSUME ProcInv, NEW p \in Procs, NEW r, Return(p, r),
         pc[p] \in Calling \/ (pc[p] = "child" /\ call[p] = "do_exec_redirect"),
         UNCHANGED <<parent, status, image, forked>>,
         fds' \in [Procs -> 0 .. MaxFds], stdout' \in [Procs -> {"terminal", "file"}],
         \A q \in Procs \ {p} : fds'[q] = fds[q] /\ stdout'[q] = stdout[q]
  PROVE  ProcInv'
<1>1. /\ pc' = [pc EXCEPT ![p] = "caller"] /\ call' = [call EXCEPT ![p] = NULL]
      /\ child' = [child EXCEPT ![p] = NULL]
  BY DEF Return
<1>2. ProcType /\ Family /\ Waits /\ Forks /\ Executed /\ OneCaller /\ Redirected
  BY DEF ProcInv
<1>3. ProcType'
  BY <1>1, <1>2 DEF ProcType, Calling
<1>4. Family'
  BY <1>1, <1>2 DEF Family, ProcType, Calling
<1>5. Waits'
  BY <1>1, <1>2 DEF Waits, ProcType
<1>6. Forks'
  BY <1>1, <1>2 DEF Forks, ProcType
<1>7. Executed'
  BY <1>1, <1>2 DEF Executed, ProcType
<1>8. OneCaller'
  BY <1>1, <1>2 DEF OneCaller, Forks, ProcType
<1>9. Redirected'
  BY <1>1, <1>2 DEF Redirected, ProcType
<1> QED BY <1>3, <1>4, <1>5, <1>6, <1>7, <1>8, <1>9 DEF ProcInv

LEMMA ProcOpen ==
  ASSUME ProcInv, NEW p \in Procs, do_exec_redirect(p) PROVE ProcInv'
<1>1. ProcType /\ Family /\ Waits /\ Forks /\ Executed /\ OneCaller /\ Redirected
  BY DEF ProcInv
<1>2. CASE Return(p, FALSE) /\ UNCHANGED fds
  BY <1>1, <1>2, ProcReturn DEF do_exec_redirect, Calling, ProcType
<1>3. CASE ~ (Return(p, FALSE) /\ UNCHANGED fds)
  <2>1. /\ pc[p] = "caller" /\ fds[p] < MaxFds
        /\ fds' = [fds EXCEPT ![p] = fds[p] + 1] /\ pc' = [pc EXCEPT ![p] = "opened"]
        /\ call' = [call EXCEPT ![p] = "do_exec_redirect"]
        /\ UNCHANGED <<child, parent, status, stdout, image, forked>>
    BY <1>3 DEF do_exec_redirect
  <2>2. ProcType'
    BY <1>1, <2>1 DEF ProcType, Calling, Forking
  <2>3. Family' /\ Waits' /\ Executed' /\ OneCaller'
    BY <1>1, <2>1 DEF ProcType, Family, Waits, Executed, OneCaller, Calling
  <2>4. Forks' /\ Redirected'
    BY <1>1, <2>1 DEF ProcType, Family, Forks, Redirected, Calling
  <2> QED BY <2>2, <2>3, <2>4 DEF ProcInv
<1> QED BY <1>2, <1>3

LEMMA ProcExec == ASSUME ProcInv, NEW c \in Procs, Exec(c) PROVE ProcInv'
<1>1. ProcType /\ Family /\ Waits /\ Forks /\ Executed /\ OneCaller /\ Redirected
  BY DEF ProcInv
<1>2. /\ pc[c] = "child"
      /\ pc' = [pc EXCEPT ![c] = "command"] /\ image' = [image EXCEPT ![c] = "command"]
      /\ call' = [call EXCEPT ![c] = NULL]
      /\ fds' = IF call[c] = "do_exec_redirect" THEN [fds EXCEPT ![c] = fds[c] - 1] ELSE fds
      /\ stdout' = IF call[c] = "do_exec_redirect" THEN [stdout EXCEPT ![c] = "file"] ELSE stdout
      /\ UNCHANGED <<child, parent, status, forked>>
  BY DEF Exec
<1>3. call[c] \in Forking /\ forked[c] = call[c]
      /\ (call[c] = "do_exec_redirect" => fds[c] > 0)
  BY <1>1, <1>2 DEF Forks
<1>4. \A q \in Procs : parent[q] # c
  BY <1>1, <1>2 DEF Family, Calling
<1>5. ProcType'
  BY <1>1, <1>2, <1>3 DEF ProcType
<1>6. Family' /\ Waits' /\ Executed' /\ OneCaller'
  BY <1>1, <1>2, <1>4 DEF ProcType, Family, Waits, Executed, OneCaller, Calling
<1>7. Forks'
  BY <1>1, <1>2, <1>4 DEF ProcType, Forks, Family
<1>8. Redirected'
  BY <1>1, <1>2, <1>3, <1>4 DEF ProcType, Forks, Redirected, Forking, Family
<1> QED BY <1>5, <1>6, <1>7, <1>8 DEF ProcInv

(* Nobody else waits for the child that p collects, and it has no children. *)
LEMMA ProcWaitpid == ASSUME ProcInv, NEW p \in Procs, Waitpid(p) PROVE ProcInv'
<1>1. ProcType /\ Family /\ Waits /\ Forks /\ Executed /\ OneCaller /\ Redirected
  BY DEF ProcInv
<1>2. PICK c \in Procs : c = child[p]
  BY <1>1 DEF Waitpid, Waits
<1>3. /\ pc[p] = "wait" /\ pc[c] = "zombie"
      /\ pc' = [pc EXCEPT ![p] = "caller", ![c] = "none"]
      /\ call' = [call EXCEPT ![p] = NULL] /\ child' = [child EXCEPT ![p] = NULL]
      /\ parent' = [parent EXCEPT ![c] = NULL]
      /\ status' = [status EXCEPT ![c] = EXIT_SUCCESS]
      /\ image' = [image EXCEPT ![c] = "caller"] /\ forked' = [forked EXCEPT ![c] = NULL]
      /\ UNCHANGED <<fds, stdout>>
  BY <1>2 DEF Waitpid
<1>4. \A q \in Procs : parent[q] # c /\ (pc[q] = "wait" /\ child[q] = c => q = p)
  BY <1>1, <1>2, <1>3 DEF Family, Waits, Calling
<1>5. ProcType'
  BY <1>1, <1>3 DEF ProcType, Calling, Statuses
<1>6. Family' /\ OneCaller'
  BY <1>1, <1>3, <1>4 DEF ProcType, Family, OneCaller, Calling
<1>7. Waits'
  BY <1>1, <1>2, <1>3, <1>4 DEF ProcType, Waits
<1>8. Forks' /\ Executed'
  BY <1>1, <1>3, <1>4 DEF ProcType, Forks, Executed, Family
<1>9. Redirected'
  BY <1>1, <1>3, <1>4 DEF ProcType, Redirected, Family
<1> QED BY <1>5, <1>6, <1>7, <1>8, <1>9 DEF ProcInv

(* One step of the program, by what it does to the processes. *)
ProcStep(p) ==
  \/ do_system(p) \/ do_exec_fork_fails(p) \/ do_exec_redirect(p)
  \/ \E c \in Procs : do_exec(p, c) \/ RedirectFork(p, c)
  \/ RedirectForkFails(p) \/ Waitpid(p) \/ WaitpidFails(p)
  \/ CallerExits(p) \/ (pc[p] = "caller" /\ Ends(p, SIGSEGV))
  \/ Exec(p) \/ ExecFails(p) \/ CommandEnds(p) \/ RedirectFails(p)

LEMMA StepOfProcs == Next => (\E p \in Procs : ProcStep(p)) \/ UNCHANGED sysvars
  BY DEF Next, Call, StartCrashes, InParent, InChild, InThread, ProcStep

LEMMA ProcNext == ProcInv /\ [Next]_vars => ProcInv'
<1> SUFFICES ASSUME ProcInv, [Next]_vars PROVE ProcInv'
  OBVIOUS
<1>1. CASE UNCHANGED sysvars
  BY <1>1 DEF sysvars, ProcInv, ProcType, Family, Waits, Forks, Executed, OneCaller, Redirected
<1>2. ASSUME NEW p \in Procs, ProcStep(p) PROVE ProcInv'
  <2> USE DEF Calling
  <2>0. ProcType /\ Forks
    BY DEF ProcInv
  <2>1. CASE do_system(p)
    <3>1. UNCHANGED <<pc, call, child, parent, status, fds, stdout, image, forked>>
      BY <2>1 DEF do_system
    <3> QED BY <3>1 DEF ProcInv, ProcType, Family, Waits, Forks, Executed, OneCaller, Redirected
  <2>2. CASE do_exec_fork_fails(p)
    BY <2>0, <2>2, ProcReturn DEF do_exec_fork_fails, ProcType
  <2>3. CASE do_exec_redirect(p)
    BY <2>3, ProcOpen
  <2>4. ASSUME NEW c \in Procs, do_exec(p, c) PROVE ProcInv'
    BY <2>4, ProcFork DEF do_exec, Forking
  <2>5. ASSUME NEW c \in Procs, RedirectFork(p, c) PROVE ProcInv'
    BY <2>0, <2>5, ProcFork DEF RedirectFork, Forks, Forking
  <2>6. CASE RedirectForkFails(p)
    BY <2>0, <2>6, ProcReturn DEF RedirectForkFails, ProcType
  <2>7. CASE Waitpid(p)
    BY <2>7, ProcWaitpid
  <2>8. CASE WaitpidFails(p)
    BY <2>0, <2>8, ProcReturn DEF WaitpidFails, ProcType
  <2>9. CASE CallerExits(p)
    BY <2>9, ProcEnds DEF CallerExits, Statuses
  <2>10. CASE pc[p] = "caller" /\ Ends(p, SIGSEGV)
    BY <2>10, ProcEnds DEF Statuses
  <2>11. CASE Exec(p)
    BY <2>11, ProcExec
  <2>12. CASE ExecFails(p)
    BY <2>12, ProcEnds DEF ExecFails, Statuses, EXIT_FAILURE, EXIT_SUCCESS
  <2>13. CASE CommandEnds(p)
    BY <2>13, ProcEnds DEF CommandEnds
  <2>14. CASE RedirectFails(p)
    <3>1. fds[p] \in 1 .. MaxFds
      BY <2>0, <2>14 DEF RedirectFails, Forks, ProcType
    <3>2. /\ fds' \in [Procs -> 0 .. MaxFds] /\ stdout' \in [Procs -> {"terminal", "file"}]
          /\ \A q \in Procs \ {p} : fds'[q] = fds[q] /\ stdout'[q] = stdout[q]
      BY <2>0, <2>14, <3>1 DEF RedirectFails, ProcType
    <3> QED BY <2>14, <3>2, ProcReturn DEF RedirectFails
  <2> QED
    BY <1>2, <2>1, <2>2, <2>3, <2>4, <2>5, <2>6, <2>7, <2>8, <2>9, <2>10, <2>11, <2>12, <2>13,
       <2>14 DEF ProcStep
<1> QED BY <1>1, <1>2, StepOfProcs DEF vars

(* Parents run the caller's program, a call waits for the child it forked, *)
(* and a child of do_exec that ended well had become the command (do_exec, *)
(* do_exec_redirect).                                                      *)
THEOREM ProcInvariant == Spec => []ProcInv
<1>1. Init => ProcInv
  BY ProcInit DEF Init
<1> QED BY <1>1, ProcNext, PTL DEF Spec

(* Only a child of do_exec_redirect comes back into the caller's program:  *)
(* do_exec ends its child when execv fails, however the calls nest.        *)
THEOREM OneCallerAlways == Spec => []OneCaller
<1>1. ProcInv => OneCaller
  BY DEF ProcInv
<1> QED BY <1>1, ProcInvariant, PTL

(* dup2 before execv, and the close after it, hold for every command:      *)
(* its standard output is the file and it has one descriptor less than the *)
(* caller that waits for it.                                               *)
THEOREM RedirectedAlways == Spec => []Redirected
<1>1. ProcInv => Redirected
  BY DEF ProcInv
<1> QED BY <1>1, ProcInvariant, PTL

(* do_exec returns true only when the command was executed: the process it *)
(* collects is the one it forked, however many children its process has,   *)
(* and has ended as the command with exit code 0.                          *)
THEOREM DoExecAlwaysExecuted == Spec => DoExecExecuted
<1>1. ASSUME ProcInv, [Next]_vars, NEW p \in Procs, call[p] = "do_exec",
             pc[p] = "wait", pc'[p] = "caller", result'
      PROVE  /\ parent[child[p]] = p /\ pc[child[p]] = "zombie"
             /\ status[child[p]] = EXIT_SUCCESS /\ image[child[p]] = "command"
  <2>1. PICK q \in Procs : ProcStep(q)
    BY <1>1, StepOfProcs DEF vars, sysvars
  <2>2. ProcType /\ Waits /\ Executed
    BY <1>1 DEF ProcInv
  <2>3. ASSUME q # p PROVE FALSE
    <3>1. ASSUME NEW r, Return(q, r) PROVE FALSE
      BY <1>1, <2>2, <2>3, <3>1 DEF Return, ProcType
    <3>2. ASSUME NEW r, Ends(q, r) PROVE FALSE
      BY <1>1, <2>2, <2>3, <3>2 DEF Ends, ProcType
    <3>3. ASSUME NEW c \in Procs, NEW fn, Fork(q, c, fn) PROVE FALSE
      BY <1>1, <2>2, <2>3, <3>3 DEF Fork, ProcType
    <3>4. ASSUME Waitpid(q) PROVE FALSE
      BY <1>1, <2>2, <2>3, <3>4 DEF Waitpid, ProcType
    <3> QED
      BY <1>1, <2>1, <2>2, <2>3, <3>1, <3>2, <3>3, <3>4
         DEF ProcStep, do_system, do_exec_fork_fails, do_exec_redirect, do_exec, RedirectFork,
             RedirectForkFails, WaitpidFails, CallerExits, Exec, ExecFails, CommandEnds,
             RedirectFails, ProcType
  <2>4. q = p
    BY <2>3
  <2>5. Waitpid(p) \/ WaitpidFails(p)
    BY <1>1, <2>1, <2>4
       DEF ProcStep, do_system, do_exec_fork_fails, do_exec_redirect, do_exec, RedirectFork,
           RedirectForkFails, CallerExits, Exec, ExecFails, CommandEnds, RedirectFails
  <2>6. ~ WaitpidFails(p)
    BY <1>1, Zenon DEF WaitpidFails, Return
  <2>7. pc[child[p]] = "zombie" /\ result' = Succeeded(status[child[p]])
    BY <2>5, <2>6 DEF Waitpid
  <2>8. Succeeded(status[child[p]])
    BY <1>1, <2>7, Zenon
  <2>9. status[child[p]] = EXIT_SUCCESS
    BY <2>8 DEF Succeeded, EXIT_SUCCESS
  <2> QED BY <1>1, <2>2, <2>7, <2>9 DEF Waits, Executed, Forking
<1>2. ProcInv /\ [Next]_vars =>
        [\A p \in Procs : call[p] = "do_exec" => CommandExecuted(p)]_sysvars
  BY <1>1, Zenon DEF CommandExecuted
<1> QED BY <1>2, ProcInvariant, PTL DEF Spec, DoExecExecuted

(* Calls return true or false. *)
LEMMA ResultInvariant == Spec => [](result \in BOOLEAN)
<1>1. Init => result \in BOOLEAN
  BY Zenon DEF Init, SysInit
<1>2. result \in BOOLEAN /\ [Next]_vars => (result \in BOOLEAN)'
  <2> SUFFICES ASSUME result \in BOOLEAN, [Next]_vars PROVE result' \in BOOLEAN
    OBVIOUS
  <2>1. CASE UNCHANGED sysvars
    BY <2>1, Zenon DEF sysvars
  <2>2. ASSUME NEW p \in Procs, ProcStep(p) PROVE result' \in BOOLEAN
    <3>1. ASSUME NEW r \in BOOLEAN, Return(p, r) PROVE result' \in BOOLEAN
      BY <3>1, Zenon DEF Return
    <3>2. ASSUME NEW r, Ends(p, r) PROVE result' \in BOOLEAN
      BY <3>2, Zenon DEF Ends
    <3>3. ASSUME NEW c, NEW fn, Fork(p, c, fn) PROVE result' \in BOOLEAN
      BY <3>3, Zenon DEF Fork
    <3>4. CASE Waitpid(p)
      BY <3>4, Zenon DEF Waitpid, Succeeded
    <3>5. CASE do_system(p) \/ do_exec_redirect(p) \/ Exec(p)
      BY <3>1, <3>5, Zenon DEF do_system, do_exec_redirect, Exec
    <3> QED
      BY <2>2, <3>1, <3>2, <3>3, <3>4, <3>5, Zenon
         DEF ProcStep, do_exec_fork_fails, do_exec, RedirectFork, RedirectForkFails, WaitpidFails,
             CallerExits, ExecFails, CommandEnds, RedirectFails
  <2> QED BY <2>1, <2>2, StepOfProcs DEF vars
<1> QED BY <1>1, <1>2, PTL DEF Spec

---------------------------------------------------------------------------
(* Threads *)

(* Only a process that runs the caller's program has threads: when an id   *)
(* is used again, no thread of its last process is left, and the mutex     *)
(* copied into it by fork belongs to no thread of its own.                 *)
HomeRuns ==
  \A t \in Threads :
    IF tpc[t] = "none" THEN home[t] = NULL
    ELSE home[t] \in Procs /\ pc[home[t]] \in Calling

OwnerHolds ==
  \A p \in Procs, t \in Threads : mutex[p] = t <=> home[t] = p /\ tpc[t] = "holding"

ThreadType ==
  /\ mutex \in [Procs -> Threads \union {NULL, ORPHAN}]
  /\ home \in [Threads -> Procs \union {NULL}]
  /\ tpc \in [Threads -> {"none", "start", "holding", "returned"}]

ThreadInv == ThreadType /\ HomeRuns /\ OwnerHolds

(* The three things that a step of a process does to the threads. *)
LEMMA ThreadsStay ==
  ASSUME ThreadInv, UNCHANGED <<mutex, home, tpc>>,
         \A q \in Procs : pc[q] \in Calling => pc'[q] \in Calling
  PROVE  ThreadInv'
  BY DEF ThreadInv, ThreadType, HomeRuns, OwnerHolds

LEMMA ThreadsGone ==
  ASSUME ThreadInv, NEW p \in Procs, ThreadsEnd(p),
         \A q \in Procs \ {p} : pc[q] \in Calling => pc'[q] \in Calling
  PROVE  ThreadInv'
<1>1. ThreadType /\ HomeRuns /\ OwnerHolds
  BY DEF ThreadInv
<1>2. /\ mutex' = [mutex EXCEPT ![p] = NULL]
      /\ home' = [t \in Threads |-> IF home[t] = p THEN NULL ELSE home[t]]
      /\ tpc' = [t \in Threads |-> IF home[t] = p THEN "none" ELSE tpc[t]]
  BY DEF ThreadsEnd
<1>3. ThreadType' /\ HomeRuns'
  BY <1>1, <1>2 DEF ThreadType, HomeRuns
<1>4. OwnerHolds'
  BY <1>1, <1>2 DEF ThreadType, OwnerHolds
<1> QED BY <1>3, <1>4 DEF ThreadInv

LEMMA ThreadsCopied ==
  ASSUME ThreadInv, NEW p \in Procs, NEW c \in Procs, ThreadsForked(p, c), pc[c] = "none",
         \A q \in Procs : pc[q] \in Calling => pc'[q] \in Calling
  PROVE  ThreadInv'
<1>1. ThreadType /\ HomeRuns /\ OwnerHolds
  BY DEF ThreadInv
<1>2. PICK m \in {NULL, ORPHAN} : mutex' = [mutex EXCEPT ![c] = m]
  BY DEF ThreadsForked
<1>3. UNCHANGED <<home, tpc>>
  BY DEF ThreadsForked
<1>4. \A t \in Threads : home[t] # c
  BY <1>1 DEF HomeRuns, ThreadType, Calling
<1> QED BY <1>1, <1>2, <1>3, <1>4 DEF ThreadInv, ThreadType, HomeRuns, OwnerHolds

LEMMA ThreadsStep ==
  ASSUME ThreadInv, UNCHANGED pc, NEW t \in Threads,
         \/ \E p \in Procs :
              pc[p] = "caller" /\ (start_thread_obtaining_mutex(p, t) \/ Join(p, t))
         \/ threadfunc(t) \/ MutexFails(t)
  PROVE  ThreadInv'
<1>1. ThreadType /\ HomeRuns /\ OwnerHolds
  BY DEF ThreadInv
<1> USE DEF Step, ThreadInv, ThreadType, HomeRuns, OwnerHolds
<1>2. ASSUME NEW p \in Procs, pc[p] = "caller", start_thread_obtaining_mutex(p, t)
      PROVE  ThreadInv'
  BY <1>1, <1>2 DEF start_thread_obtaining_mutex, Calling
<1>3. ASSUME NEW p \in Procs, Join(p, t) PROVE ThreadInv'
  BY <1>1, <1>3 DEF Join
<1>4. CASE Obtain(t)
  BY <1>1, <1>4 DEF Obtain
<1>5. CASE Release(t)
  BY <1>1, <1>5 DEF Release
<1>6. CASE ObtainFails(t)
  BY <1>1, <1>6 DEF ObtainFails
<1>7. CASE ReleaseFails(t)
  BY <1>1, <1>7 DEF ReleaseFails
<1> QED BY <1>2, <1>3, <1>4, <1>5, <1>6, <1>7 DEF threadfunc, MutexFails

LEMMA ThreadNext == ASSUME ProcInv, ThreadInv, [Next]_vars PROVE ThreadInv'
<1>1. ProcType
  BY DEF ProcInv
<1> DEFINE Keeps(p) == \A q \in Procs \ {p} : pc[q] \in Calling => pc'[q] \in Calling
<1>2. ASSUME NEW p \in Procs, NEW r, Return(p, r)
      PROVE  \A q \in Procs : pc[q] \in Calling => pc'[q] \in Calling
  BY <1>1, <1>2 DEF Return, ProcType, Calling
<1>3. ASSUME NEW p \in Procs, NEW r, Ends(p, r) PROVE Keeps(p)
  BY <1>1, <1>3 DEF Ends, ProcType, Calling
<1>4. ASSUME NEW p \in Procs, NEW c \in Procs, NEW fn, Fork(p, c, fn)
      PROVE  /\ pc[c] = "none"
             /\ \A q \in Procs : pc[q] \in Calling => pc'[q] \in Calling
  BY <1>1, <1>4 DEF Fork, ProcType, Calling
<1>5. CASE UNCHANGED vars
  BY <1>5, ThreadsStay DEF vars, sysvars, threads
<1>6. ASSUME NEW p \in Procs, Call(p) PROVE ThreadInv'
  <2>1. CASE (do_system(p) \/ do_exec_fork_fails(p) \/ do_exec_redirect(p)) /\ UNCHANGED threads
    <3>1. \A q \in Procs : pc[q] \in Calling => pc'[q] \in Calling
      BY <1>1, <1>2, <2>1 DEF do_system, do_exec_fork_fails, do_exec_redirect, ProcType, Calling
    <3> QED BY <2>1, <3>1, ThreadsStay DEF threads
  <2>2. ASSUME NEW c \in Procs, do_exec(p, c), ThreadsForked(p, c) PROVE ThreadInv'
    BY <1>4, <2>2, ThreadsCopied DEF do_exec
  <2>3. CASE CallerExits(p) /\ ThreadsEnd(p)
    BY <1>3, <2>3, ThreadsGone DEF CallerExits
  <2>4. CASE /\ pc[p] = "caller" /\ UNCHANGED sysvars
             /\ \E t \in Threads : start_thread_obtaining_mutex(p, t) \/ Join(p, t)
    BY <2>4, ThreadsStep DEF sysvars
  <2> QED BY <1>6, <2>1, <2>2, <2>3, <2>4 DEF Call
<1>7. ASSUME NEW p \in Procs, StartCrashes(p) PROVE ThreadInv'
  BY <1>3, <1>7, ThreadsGone DEF StartCrashes
<1>8. ASSUME NEW p \in Procs, InParent(p) PROVE ThreadInv'
  <2>1. CASE (RedirectForkFails(p) \/ Waitpid(p)) /\ UNCHANGED threads
    <3>1. \A q \in Procs : pc[q] \in Calling => pc'[q] \in Calling
      <4>1. CASE RedirectForkFails(p)
        BY <1>2, <4>1 DEF RedirectForkFails
      <4>2. CASE Waitpid(p)
        BY <1>1, <4>2 DEF Waitpid, ProcType, Calling
      <4> QED BY <2>1, <4>1, <4>2
    <3> QED BY <2>1, <3>1, ThreadsStay DEF threads
  <2>2. ASSUME NEW c \in Procs, RedirectFork(p, c), ThreadsForked(p, c) PROVE ThreadInv'
    BY <1>4, <2>2, ThreadsCopied DEF RedirectFork
  <2> QED BY <1>8, <2>1, <2>2 DEF InParent
<1>9. ASSUME NEW p \in Procs, InChild(p) PROVE ThreadInv'
  <2>1. CASE (Exec(p) \/ ExecFails(p) \/ CommandEnds(p)) /\ ThreadsEnd(p)
    <3>1. Keeps(p)
      BY <1>1, <1>3, <2>1 DEF Exec, ExecFails, CommandEnds, ProcType
    <3> QED BY <2>1, <3>1, ThreadsGone
  <2>2. CASE RedirectFails(p) /\ UNCHANGED threads
    BY <1>2, <2>2, ThreadsStay DEF RedirectFails, threads
  <2> QED BY <1>9, <2>1, <2>2 DEF InChild
<1>10. ASSUME NEW p \in Procs, WaitpidFails(p), UNCHANGED threads PROVE ThreadInv'
  BY <1>2, <1>10, ThreadsStay DEF WaitpidFails, threads
<1>11. ASSUME NEW t \in Threads, InThread(t) \/ (MutexFails(t) /\ UNCHANGED sysvars)
       PROVE  ThreadInv'
  BY <1>11, ThreadsStep DEF InThread, sysvars
<1> QED BY <1>5, <1>6, <1>7, <1>8, <1>9, <1>10, <1>11 DEF Next

(* A mutex is owned by the thread of its own process that holds it, and    *)
(* only a process that runs the caller's program has threads (threadfunc). *)
THEOREM ThreadInvariant == Spec => []ThreadInv
<1>1. Init => ThreadInv
  BY DEF Init, ThreadInit, ThreadInv, ThreadType, HomeRuns, OwnerHolds
<1> QED BY <1>1, ProcInvariant, ThreadNext, PTL DEF Spec

(* thread_complete_success is set by the thread that has just unlocked. *)
DataInv ==
  /\ thread_data \in [Threads -> {NULL, TRUE, FALSE}]
  /\ \A t \in Threads : thread_data[t] = TRUE => tpc[t] = "returned"

LEMMA DataNext == ASSUME ThreadInv, DataInv, [Next]_vars PROVE DataInv'
<1>1. tpc \in [Threads -> {"none", "start", "holding", "returned"}]
  BY DEF ThreadInv, ThreadType
<1> USE DEF DataInv
<1>2. ASSUME UNCHANGED <<tpc, thread_data>> PROVE DataInv'
  BY <1>2, Zenon
<1>3. ASSUME NEW p, ThreadsEnd(p) PROVE DataInv'
  BY <1>3, Zenon DEF ThreadsEnd
<1>4. ASSUME NEW t \in Threads, tpc'[t] = "returned" \/ thread_data'[t] # TRUE,
             thread_data' \in [Threads -> {NULL, TRUE, FALSE}],
             \A u \in Threads \ {t} : tpc'[u] = tpc[u] /\ thread_data'[u] = thread_data[u]
      PROVE  DataInv'
  BY <1>4, Zenon
<1>5. ASSUME NEW p \in Procs, NEW t \in Threads,
             start_thread_obtaining_mutex(p, t) \/ Join(p, t)
      PROVE  DataInv'
  BY <1>1, <1>4, <1>5, Zenon DEF start_thread_obtaining_mutex, Join, Step
<1>6. ASSUME NEW t \in Threads, threadfunc(t) PROVE DataInv'
  <2>1. CASE Obtain(t)
    BY <1>1, <1>4, <2>1, Zenon DEF Obtain, Step
  <2>2. CASE Release(t)
    BY <1>1, <1>4, <2>2, Zenon DEF Release, Step
  <2> QED BY <1>6, <2>1, <2>2 DEF threadfunc
<1>7. ASSUME NEW t \in Threads, MutexFails(t) PROVE DataInv'
  <2>1. tpc' = [tpc EXCEPT ![t] = "returned"] /\ UNCHANGED thread_data
    BY <1>7 DEF MutexFails, ObtainFails, ReleaseFails, Step
  <2> QED BY <1>1, <1>4, <2>1, Zenon
<1> QED
  BY <1>2, <1>3, <1>5, <1>6, <1>7
     DEF Next, Call, StartCrashes, InParent, InChild, InThread, ThreadsForked, vars, threads

LEMMA DataInvariant == Spec => []DataInv
<1>1. Init => DataInv
  BY Zenon DEF Init, ThreadInit, DataInv
<1> QED BY <1>1, ThreadInvariant, DataNext, PTL DEF Spec

(* Every mutex, the copies that fork makes included, is free, held by a    *)
(* thread of its own process that will release it, or beyond release; and  *)
(* success is reported only after the release.                             *)
THEOREM MutexAlwaysHeld == Spec => []MutexHeld
<1>1. ThreadInv /\ DataInv => MutexHeld
  BY Zenon DEF ThreadInv, OwnerHolds, DataInv, MutexHeld
<1> QED BY <1>1, ThreadInvariant, DataInvariant, PTL

(* The types of both components, the number of open descriptors with its   *)
(* bounds among them.                                                      *)
THEOREM TypeCorrect == Spec => []TypeOK
<1>1. ProcInv /\ result \in BOOLEAN => SysTypeOK
  <2> SUFFICES ASSUME ProcInv, result \in BOOLEAN PROVE SysTypeOK
    OBVIOUS
  <2>1. /\ pc \in [Procs -> Calling \union {"none", "child", "command", "zombie"}]
        /\ call \in [Procs -> {NULL, "do_exec", "do_exec_redirect"}]
        /\ child \in [Procs -> Procs \union {NULL}] /\ parent \in [Procs -> Procs \union {NULL}]
        /\ status \in [Procs -> Statuses]
        /\ fds \in [Procs -> 0 .. MaxFds] /\ stdout \in [Procs -> {"terminal", "file"}]
    BY DEF ProcInv, ProcType, Forking
  <2> QED BY <2>1, Zenon DEF SysTypeOK
<1>2. ThreadInv /\ DataInv => ThreadTypeOK
  BY Zenon DEF ThreadInv, ThreadType, DataInv, ThreadTypeOK
<1> QED
  BY <1>1, <1>2, ProcInvariant, ResultInvariant, ThreadInvariant, DataInvariant, PTL DEF TypeOK
=============================================================================
