-------------------------------- MODULE Shell --------------------------------
(***************************************************************************)
(* Job control of cush (src/unnamed/part_000): the read/eval loop, the     *)
(* pipeline spawner (iterate_over_pipeline), the SIGCHLD monitor           *)
(* (sigchld_handler, wait_for_job, handle_child_status), the job registry  *)
(* (add_job, delete_job, job_with_jid) and the builtins jobs, fg, bg,      *)
(* stop, kill and exit.  The child processes, the kernel's process-group   *)
(* signalling and the user at the terminal (^C, ^Z, background reads)      *)
(* are the environment.                                                    *)
(*                                                                         *)
(* SIGCHLD is blocked exactly while a pipeline is being spawned or waited  *)
(* for (signal_block at the top of iterate_over_pipeline, signal_unblock   *)
(* on every return), so the asynchronous handler can only run while the    *)
(* shell is at the prompt or between two pipelines of one command line.    *)
(* Every shell step below is one stretch of code between such points.      *)
(***************************************************************************)
EXTENDS Integers, Sequences, FiniteSets, SequencesExt, FiniteSetsExt

CONSTANTS
  MaxJobs,      \* jid slots 1..MaxJobs (MAXJOBS = 1<<16 in the code)
  MaxProcs,     \* child processes spawned in one behaviour
  PidMax,       \* the kernel hands out pids 1..PidMax cyclically
  MaxStages,    \* commands in one pipeline
  MaxPipes,     \* pipelines in one command line (a ; b ; c)
  MaxCmdLines,  \* command lines read before EOF
  Builtins,     \* builtin names the user may type
  KillNums,     \* numbers the user may type as kill -N
  FailStages,   \* 0-based stages at which posix_spawnp may fail
  SetupFailStages, \* stages at which a posix_spawnattr/file-action call fails
  OmitArgs,     \* whether the user may type fg, bg or stop without a jid
  Attrs,        \* values of the terminal attributes (struct termios)
  NoJob         \* model value: an empty jid2job slot

ASSUME /\ MaxJobs \in Nat \ {0}
       /\ MaxProcs \in Nat \ {0}
       /\ PidMax \in Nat \ {0}
       /\ MaxStages \in Nat \ {0}
       /\ MaxPipes \in Nat \ {0}
       /\ MaxCmdLines \in Nat
       /\ Builtins \subseteq {"jobs", "fg", "bg", "stop", "kill", "exit"}
       /\ KillNums \subseteq Nat \ {0}
       /\ FailStages \subseteq 0..(MaxStages - 1)
       /\ SetupFailStages \subseteq 0..(MaxStages - 1)
       /\ OmitArgs \in BOOLEAN
       /\ Attrs # {}

JobIds   == 1..MaxJobs
ProcIds  == 1..MaxProcs
Pids     == 1..PidMax
NoArg    == 0                 \* cmd->argv[1] == NULL: no jid typed
ShellPgrp == 0                 \* the shell's own process group
NoAttrs  == "none"             \* job->state_saved_previously == false

(* kill -N: the allow-list of check_for_builtin, number -> signal sent.    *)
KillAllowList ==
  {<<1, "HUP">>, <<2, "INT">>, <<3, "QUIT">>, <<6, "ABRT">>, <<9, "KILL">>,
   <<15, "TERM">>, <<17, "STOP">>, <<19, "STOP">>, <<23, "STOP">>}
KillSignal(n) == (CHOOSE e \in KillAllowList : e[1] = n)[2]
Allowed(n) == \E e \in KillAllowList : e[1] = n

FatalSigs == {"HUP", "INT", "QUIT", "ABRT", "KILL", "TERM"}
StopSigs  == {"STOP", "TSTP", "TTIN"}
TtySigs   == {"TTIN"}          \* SIGTTIN and SIGTTOU: same branch of the code
Sigs      == FatalSigs \cup StopSigs \cup {"CONT"}

Statuses == {"FOREGROUND", "BACKGROUND", "STOPPED", "NEEDSTERMINAL",
             "TERMINATED", "DONE"}
Finished == {"TERMINATED", "DONE"}

(* Pipelines of a parsed command line: a command to spawn, or a builtin.  *)
(* kill with num = 0 is "kill <jid>", otherwise "kill -<num> <jid>".       *)
ExecPipes    == [kind : {"exec"}, len : 1..MaxStages, bg : BOOLEAN]
ArgBuiltins  == [kind : Builtins \cap {"fg", "bg", "stop"},
                 arg : JobIds \cup (IF OmitArgs THEN {NoArg} ELSE {})]
BareBuiltins == [kind : Builtins \cap {"jobs", "exit"}]
KillBuiltins == [kind : Builtins \cap {"kill"}, num : {0} \cup KillNums,
                 arg : JobIds]
Pipelines == ExecPipes \cup ArgBuiltins \cup BareBuiltins \cup KillBuiltins
CmdLines  == UNION {[1..n -> Pipelines] : n \in 1..MaxPipes}

VARIABLES
  pc,          \* where the shell's single thread is
  line,        \* pipelines of the current command line still to run
  cur,         \* the pipeline being spawned: stages spawned so far
  waitJob,     \* jid wait_for_job is blocked on (0 when none)
  procs,       \* child processes as the kernel sees them
  lastPid,     \* last pid the kernel handed out
  jobs,        \* jid2job: jid -> job record or NoJob
  jobList,     \* job_list: jids in insertion order
  tty,         \* process group owning the terminal
  ttyAttrs,    \* current terminal attributes
  shellAttrs,  \* shell's saved terminal state (termstate_sample)
  zUpdate,     \* z_update_jid: job stopped by ^Z, to report (-1: none)
  errorUpdate, \* error_update_code: signal to report ("none")
  fault,       \* which dereference of a missing job crashed the shell
  nlines,      \* command lines read so far
  pipeFds      \* pipe ends (pipe2 descriptors) the shell holds open

vars == <<pc, line, cur, waitJob, procs, lastPid, jobs, jobList, tty,
          ttyAttrs, shellAttrs, zUpdate, errorUpdate, fault, nlines, pipeFds>>

Idle == [bg |-> FALSE, len |-> 0, count |-> 0, pids |-> <<>>,
         members |-> <<>>, pgid |-> 0]
NoProc == [st |-> "unused", pid |-> 0, pgid |-> 0, ev |-> "none", sig |-> "none"]

-----------------------------------------------------------------------------
(* Processes and process groups (kernel side).                             *)

Unreaped  == {p \in ProcIds : procs[p].st \in {"running", "stopped", "zombie"}}
Reportable == {p \in ProcIds : procs[p].ev # "none"}
GroupExists(pg) == \E p \in Unreaped : procs[p].pgid = pg

(* A pid stays allocated while a process or a process group refers to it. *)
PidInUse(pid) == \E p \in Unreaped : pid \in {procs[p].pid, procs[p].pgid}
Candidate(k) == ((lastPid + k - 1) % PidMax) + 1
FreeOffsets == {k \in 1..PidMax : ~PidInUse(Candidate(k))}
NextPid == Candidate(Min(FreeOffsets))

(* Effect of one signal on one process (kill_pgrp delivers to each).      *)
Deliver(r, s) ==
  CASE r.st = "running" /\ s \in FatalSigs
         -> [r EXCEPT !.st = "zombie", !.ev = "signaled", !.sig = s]
    [] r.st = "stopped" /\ s = "KILL"
         -> [r EXCEPT !.st = "zombie", !.ev = "signaled", !.sig = s]
    [] r.st = "running" /\ s \in StopSigs
         -> [r EXCEPT !.st = "stopped", !.ev = "stopped", !.sig = s]
    [] r.st = "stopped" /\ s = "CONT"
         -> [r EXCEPT !.st = "running",
                      !.ev = IF @ = "stopped" THEN "none" ELSE @]
    [] OTHER -> r

SignalGroup(pg, s) ==
  [p \in ProcIds |-> IF procs[p].pgid = pg /\ p \in Unreaped
                       THEN Deliver(procs[p], s) ELSE procs[p]]

(* waitpid(-1, &status, WUNTRACED...) returning child p.                   *)
Reap(p) ==
  [procs EXCEPT ![p] = [@ EXCEPT !.st = IF @ = "zombie" THEN "reaped" ELSE @,
                                 !.ev = "none"]]

-----------------------------------------------------------------------------
(* The job registry.                                                       *)

Registered == {j \in JobIds : jobs[j] # NoJob}

(* job_with_jid: linear search of job_list; 0 when not found.             *)
JobWithJid(jid) == IF jid \in ToSet(jobList) THEN jid ELSE 0

(* Mutant: only child_pid_array[0] is compared.                           *)
FindJobByPidLeaderOnly(pid) ==
  LET i == SelectInSeq(jobList, LAMBDA j : pid = jobs[j].pids[1])
  IN  IF i = 0 THEN 0 ELSE jobList[i]

(* The search at the top of handle_child_status: first job in job_list   *)
(* whose child_pid_array holds pid; 0 when none.                          *)
FindJobByPid(pid) ==
  LET i == SelectInSeq(jobList, LAMBDA j : pid \in ToSet(jobs[j].pids))
  IN  IF i = 0 THEN 0 ELSE jobList[i]

Pgid(j) == jobs[j].pids[1]           \* child_pid_array[0]

(* Mutant: the slot search of add_job starts at index 0.                  *)
FreeJidFromZero == Min({0} \cup {j \in JobIds : jobs[j] = NoJob})

(* add_job: lowest free jid, appended to job_list.                        *)
FreeJid == Min({j \in JobIds : jobs[j] = NoJob})

(* delete_job together with the list_remove its callers do first.         *)
DeleteJobs(S) ==
  /\ jobs' = [j \in JobIds |-> IF j \in S THEN NoJob ELSE jobs[j]]
  /\ jobList' = SelectSeq(jobList, LAMBDA j : j \notin S)

(* A NULL job pointer dereferenced: the shell dies with SIGSEGV.          *)
Crash(where) ==
  /\ pc' = "crashed"
  /\ fault' = where
  /\ UNCHANGED <<cur, waitJob, lastPid, jobs, jobList, tty, ttyAttrs,
                 shellAttrs, zUpdate, errorUpdate, nlines, pipeFds>>

-----------------------------------------------------------------------------
(* handle_child_status, per kind of report, on the job record.            *)

(* Mutant: DONE only once the count has gone below zero.                  *)
AfterExitLateDone(job) ==
  LET left == job.alive - 1
  IN  [job EXCEPT !.alive = left, !.status = IF left < 0 THEN "DONE" ELSE @]

(* WIFEXITED: one member fewer; DONE when none is left.                    *)
AfterExit(job) ==
  LET left == job.alive - 1
  IN  [job EXCEPT !.alive = left, !.status = IF left < 1 THEN "DONE" ELSE @]

(* Mutant: the member killed by a signal is not counted off.               *)
AfterDeathNoDecrement(job, s) ==
  [job EXCEPT !.termCode = s,
              !.status = IF job.alive < 1 THEN "TERMINATED" ELSE @]

(* WIFSIGNALED: record the signal, one member fewer; TERMINATED when none *)
(* is left.                                                                *)
AfterDeath(job, s) ==
  LET left == job.alive - 1
  IN  [job EXCEPT !.termCode = s, !.alive = left,
                  !.status = IF left < 1 THEN "TERMINATED" ELSE @]

(* WIFSTOPPED: SIGTTIN/SIGTTOU make it NEEDSTERMINAL; any other stop makes *)
(* it STOPPED, saving the terminal state if it was in the foreground.      *)
AfterStop(job, s) ==
  IF s \in TtySigs
    THEN [job EXCEPT !.status = "NEEDSTERMINAL"]
    ELSE [job EXCEPT !.saved = IF job.status = "FOREGROUND" THEN ttyAttrs ELSE @,
                     !.status = "STOPPED"]

(* handle_child_status(pid, status) for the report child p carried.  The  *)
(* caller has reaped p (procs' = Reap(p)) and keeps pc; a pid found in no *)
(* job is a NULL dereference.                                              *)
HandleChildStatus(p) ==
  LET r == procs[p]
      j == FindJobByPid(r.pid)
  IN  IF j = 0
        THEN /\ pc' = "crashed"
             /\ fault' = "sigchld"
             /\ UNCHANGED <<jobs, zUpdate, errorUpdate>>
        ELSE /\ jobs' = [jobs EXCEPT ![j] =
                           CASE r.ev = "exited"   -> AfterExit(@)
                             [] r.ev = "signaled" -> AfterDeath(@, r.sig)
                             [] OTHER             -> AfterStop(@, r.sig)]
             /\ zUpdate' = IF /\ r.ev = "stopped" /\ r.sig \notin TtySigs
                              /\ jobs[j].status = "FOREGROUND"
                             THEN j ELSE zUpdate
             /\ errorUpdate' = IF r.ev = "signaled" THEN r.sig ELSE errorUpdate
             /\ UNCHANGED <<pc, fault>>

(* sigchld_handler: one iteration of its waitpid(WNOHANG) loop.  Runs     *)
(* only while SIGCHLD is unblocked: at the prompt or between pipelines.   *)
SigchldHandler ==
  /\ pc \in {"prompt", "dispatch"}
  /\ \E p \in Reportable :
       /\ procs' = Reap(p)
       /\ HandleChildStatus(p)
  /\ UNCHANGED <<line, cur, waitJob, lastPid, jobList, tty, ttyAttrs,
                 shellAttrs, nlines, pipeFds>>

-----------------------------------------------------------------------------
(* The read/eval loop of main().                                           *)

(* Before readline: report a ^Z-stopped job and a signal death, then read *)
(* a command line, or EOF.  job_with_jid(z_update_jid) is dereferenced     *)
(* without a NULL check.                                                   *)
FitsBounds(l) ==
  LET stages == FoldLeft(LAMBDA acc, e : acc + IF e.kind = "exec" THEN e.len
                                                ELSE 0, 0, l)
  IN  stages <= Cardinality({p \in ProcIds : procs[p].st = "unused"})

Prompt ==
  /\ pc = "prompt"
  /\ IF zUpdate # -1 /\ JobWithJid(zUpdate) = 0
       THEN Crash("notice") /\ UNCHANGED <<line, procs>>
       ELSE /\ zUpdate' = -1
            /\ errorUpdate' = "none"
            /\ \/ /\ nlines < MaxCmdLines
                  /\ \E l \in CmdLines :
                       /\ FitsBounds(l)
                       /\ line' = l
                  /\ pc' = "dispatch"
                  /\ nlines' = nlines + 1
               \/ /\ pc' = "exited"                  \* EOF
                  /\ UNCHANGED <<line, nlines, pipeFds>>
            /\ UNCHANGED <<cur, waitJob, procs, lastPid, jobs, jobList, tty,
                           ttyAttrs, shellAttrs, fault, pipeFds>>

(* The line is done but SIGCHLD is still blocked: the assertion          *)
(* assert(!signal_is_blocked(SIGCHLD)) before readline aborts the shell.   *)
BlockedAtPrompt ==
  /\ pc = "blocked"
  /\ line = <<>>
  /\ Crash("blocked")
  /\ UNCHANGED <<line, procs>>

(* iterate_over_command_line has run every pipeline of the line.          *)
EndOfLine ==
  /\ pc = "dispatch"
  /\ line = <<>>
  /\ pc' = "prompt"
  /\ UNCHANGED <<line, cur, waitJob, procs, lastPid, jobs, jobList, tty,
                 ttyAttrs, shellAttrs, zUpdate, errorUpdate, fault, nlines, pipeFds>>

(* The next pipeline of the line is of the given kind: iterate_over_      *)
(* command_line takes it off the line and iterate_over_pipeline blocks    *)
(* SIGCHLD before looking at it (it may still be blocked: pc = "blocked"). *)
(* A builtin returns 1 and its caller unblocks SIGCHLD.                    *)
ArgMissing == "arg" \in DOMAIN Head(line) /\ Head(line).arg = NoArg

Take(kind) ==
  /\ pc \in {"dispatch", "blocked"}
  /\ line # <<>>
  /\ Head(line).kind = kind
  /\ ~ArgMissing
  /\ line' = Tail(line)

(* fg, bg or stop typed without a jid: atoi(cmd->argv[1]) reads through  *)
(* the NULL that ends argv and the shell dies with SIGSEGV.                *)
MissingArg ==
  /\ pc \in {"dispatch", "blocked"}
  /\ line # <<>>
  /\ ArgMissing
  /\ Crash("atoi")
  /\ UNCHANGED <<line, procs>>

(* jobs: print every job; the DONE and TERMINATED ones are removed.        *)
Jobs ==
  /\ Take("jobs")
  /\ DeleteJobs({j \in Registered : jobs[j].status \in Finished})
  /\ pc' = "dispatch"
  /\ UNCHANGED <<cur, waitJob, procs, lastPid, tty, ttyAttrs, shellAttrs,
                 zUpdate, errorUpdate, fault, nlines, pipeFds>>

(* exit: free_all_jobs, then exit(0); the children are left running.      *)
Exit ==
  /\ Take("exit")
  /\ DeleteJobs(Registered)
  /\ pc' = "exited"
  /\ UNCHANGED <<cur, waitJob, procs, lastPid, tty, ttyAttrs, shellAttrs,
                 zUpdate, errorUpdate, fault, nlines, pipeFds>>

(* fg <jid>: give the terminal (and the saved attributes) to the job's    *)
(* group, continue it if it was stopped, mark it FOREGROUND and wait.      *)
(* If killpg(SIGCONT) fails the terminal is taken back and fg returns.     *)
Fg ==
  /\ Take("fg")
  /\ LET j  == JobWithJid(Head(line).arg)
         pg == Pgid(j)
         attrs == IF jobs[j].saved # NoAttrs THEN jobs[j].saved ELSE ttyAttrs
         owner == IF GroupExists(pg) THEN pg ELSE tty   \* tcsetpgrp may fail
     IN  IF j = 0
           THEN /\ pc' = "dispatch"
                /\ UNCHANGED <<waitJob, procs, jobs, tty, ttyAttrs>>
         ELSE IF jobs[j].status \in {"STOPPED", "NEEDSTERMINAL"}
                 /\ ~GroupExists(pg)
           THEN /\ tty' = ShellPgrp                 \* killpg failed
                /\ ttyAttrs' = shellAttrs
                /\ pc' = "dispatch"
                /\ UNCHANGED <<waitJob, procs, jobs>>
           ELSE /\ tty' = owner
                /\ ttyAttrs' = attrs
                /\ procs' = IF jobs[j].status \in {"STOPPED", "NEEDSTERMINAL"}
                              THEN SignalGroup(pg, "CONT") ELSE procs
                /\ jobs' = [jobs EXCEPT ![j].status = "FOREGROUND"]
                /\ pc' = "wait"
                /\ waitJob' = j
  /\ UNCHANGED <<cur, lastPid, jobList, shellAttrs, zUpdate, errorUpdate,
                 fault, nlines, pipeFds>>

(* bg <jid>: reads child_pid_array[0] before checking the lookup; sets    *)
(* BACKGROUND and sends SIGCONT unless the job already is BACKGROUND.      *)
Bg ==
  /\ Take("bg")
  /\ LET j == JobWithJid(Head(line).arg)
     IN  IF j = 0
           THEN Crash("bg") /\ UNCHANGED procs
           ELSE /\ IF jobs[j].status = "BACKGROUND"
                     THEN UNCHANGED <<procs, jobs>>
                     ELSE /\ jobs' = [jobs EXCEPT ![j].status = "BACKGROUND"]
                          /\ procs' = SignalGroup(Pgid(j), "CONT")
                /\ pc' = "dispatch"
                /\ UNCHANGED fault
  /\ UNCHANGED <<cur, waitJob, lastPid, jobList, tty, ttyAttrs, shellAttrs,
                 zUpdate, errorUpdate, nlines, pipeFds>>

(* stop <jid>: killpg(pgid, SIGSTOP).                                      *)
Stop ==
  /\ Take("stop")
  /\ LET j == JobWithJid(Head(line).arg)
     IN  procs' = IF j = 0 THEN procs ELSE SignalGroup(Pgid(j), "STOP")
  /\ pc' = "dispatch"
  /\ UNCHANGED <<cur, waitJob, lastPid, jobs, jobList, tty, ttyAttrs,
                 shellAttrs, zUpdate, errorUpdate, fault, nlines, pipeFds>>

(* kill <jid> sends SIGKILL; kill -N <jid> sends the allow-listed signal  *)
(* for N or prints a usage message.  Both read child_pid_array[0] of the   *)
(* looked-up job without a NULL check, before the allow-list test.         *)
Kill ==
  /\ Take("kill")
  /\ LET n == Head(line).num
         j == JobWithJid(Head(line).arg)
     IN  IF j = 0
           THEN Crash("kill") /\ UNCHANGED procs
           ELSE /\ procs' = CASE n = 0      -> SignalGroup(Pgid(j), "KILL")
                              [] Allowed(n) -> SignalGroup(Pgid(j), KillSignal(n))
                              [] OTHER      -> procs
                /\ pc' = "dispatch"
                /\ UNCHANGED fault
  /\ UNCHANGED <<cur, waitJob, lastPid, jobs, jobList, tty, ttyAttrs,
                 shellAttrs, zUpdate, errorUpdate, nlines, pipeFds>>

-----------------------------------------------------------------------------
(* The pipeline spawner: iterate_over_pipeline for a non-builtin.          *)

(* pipe2 for each of the len - 1 pipes between the stages: two ends each. *)
PipeEnds(len) == 2 * (len - 1)

StartSpawn ==
  /\ Take("exec")
  /\ pc' = "spawn"
  /\ cur' = [Idle EXCEPT !.bg = Head(line).bg, !.len = Head(line).len]
  /\ pipeFds' = pipeFds + PipeEnds(Head(line).len)
  /\ UNCHANGED <<waitJob, procs, lastPid, jobs, jobList, tty, ttyAttrs,
                 shellAttrs, zUpdate, errorUpdate, fault, nlines>>

(* posix_spawnp succeeds for stage cur.count: the child joins group pgid  *)
(* (its own pid for the first stage) and, for a foreground pipeline,      *)
(* takes the terminal (POSIX_SPAWN_TCSETPGROUP).                          *)
SpawnChild ==
  /\ pc = "spawn"
  /\ cur.count < cur.len
  /\ FreeOffsets # {}
  /\ LET p   == Min({q \in ProcIds : procs[q].st = "unused"})
         pid == NextPid
         pg  == IF cur.pgid = 0 THEN pid ELSE cur.pgid
     IN  /\ procs' = [procs EXCEPT ![p] = [NoProc EXCEPT !.st = "running",
                                             !.pid = pid, !.pgid = pg]]
         /\ lastPid' = pid
         /\ tty' = IF cur.bg THEN tty ELSE pg
         /\ cur' = [cur EXCEPT !.count = @ + 1, !.pids = Append(@, pid),
                               !.members = Append(@, p), !.pgid = pg]
  /\ UNCHANGED <<pc, line, waitJob, jobs, jobList, ttyAttrs, shellAttrs,
                 zUpdate, errorUpdate, fault, nlines, pipeFds>>

(* Mutant: the failure path does not give the terminal back, which the    *)
(* failed child of a foreground pipeline took for its group.               *)
SpawnFailKeepsTerminal ==
  /\ pc = "spawn"
  /\ cur.count < cur.len
  /\ cur.count \in FailStages \/ FreeOffsets = {}
  /\ shellAttrs' = ttyAttrs
  /\ tty' = IF cur.bg THEN tty ELSE IF cur.pgid = 0 THEN NextPid ELSE cur.pgid
  /\ pc' = "dispatch"
  /\ cur' = Idle
  /\ pipeFds' = pipeFds - PipeEnds(cur.len)
  /\ UNCHANGED <<line, waitJob, procs, lastPid, jobs, jobList, ttyAttrs,
                 zUpdate, errorUpdate, fault, nlines>>

(* posix_spawnp fails for stage cur.count (command not found, a redirect  *)
(* that cannot be opened, no free pid): sample the terminal state, give   *)
(* the terminal back, unblock SIGCHLD, close the pipes and return.  The   *)
(* children of earlier stages keep running and belong to no job.          *)
SpawnFail ==
  /\ pc = "spawn"
  /\ cur.count < cur.len
  /\ cur.count \in FailStages \/ FreeOffsets = {}
  /\ shellAttrs' = ttyAttrs
  /\ tty' = ShellPgrp
  /\ pc' = "dispatch"
  /\ cur' = Idle
  /\ pipeFds' = pipeFds - PipeEnds(cur.len)
  /\ UNCHANGED <<line, waitJob, procs, lastPid, jobs, jobList, ttyAttrs,
                 zUpdate, errorUpdate, fault, nlines>>

(* posix_spawnattr_init, posix_spawn_file_actions_init or one of the     *)
(* attribute or file-action calls for stage cur.count fails (lines 535-   *)
(* 591): perror and return 1, SIGCHLD still blocked, the terminal left to *)
(* whichever group an earlier stage gave it, the earlier stages' children *)
(* in no job, and the pipes of the pipeline left open.                    *)
SetupFail ==
  /\ pc = "spawn"
  /\ cur.count < cur.len
  /\ cur.count \in SetupFailStages
  /\ pc' = "blocked"
  /\ cur' = Idle
  /\ UNCHANGED <<line, waitJob, procs, lastPid, jobs, jobList, tty, ttyAttrs,
                 shellAttrs, zUpdate, errorUpdate, fault, nlines, pipeFds>>

(* Every stage spawned: close the pipes, add_job, set the fields; a       *)
(* background job is announced, a foreground one is waited for.           *)
RegisterJob ==
  /\ pc = "spawn"
  /\ cur.count = cur.len
  /\ Registered # JobIds
  /\ LET j == FreeJid
     IN  /\ jobs' = [jobs EXCEPT ![j] =
                       [pids |-> cur.pids, members |-> cur.members,
                        status |-> IF cur.bg THEN "BACKGROUND" ELSE "FOREGROUND",
                        alive |-> cur.count, termCode |-> "none",
                        saved |-> NoAttrs]]
         /\ jobList' = Append(jobList, j)
         /\ pc' = IF cur.bg THEN "dispatch" ELSE "wait"
         /\ waitJob' = IF cur.bg THEN 0 ELSE j
  /\ cur' = Idle
  /\ pipeFds' = pipeFds - PipeEnds(cur.len)
  /\ UNCHANGED <<line, procs, lastPid, tty, ttyAttrs, shellAttrs, zUpdate,
                 errorUpdate, fault, nlines>>

(* add_job finds every jid slot taken (finished jobs keep theirs until    *)
(* `jobs` runs): "Maximum number of jobs exceeded" and abort().           *)
JobsFull ==
  /\ pc = "spawn"
  /\ cur.count = cur.len
  /\ Registered = JobIds
  /\ Crash("maxjobs")
  /\ UNCHANGED <<line, procs>>

-----------------------------------------------------------------------------
(* wait_for_job, with SIGCHLD blocked.                                     *)

(* One iteration of the loop: waitpid(-1, WUNTRACED) blocks until some    *)
(* child has a report; with no child at all it fails with ECHILD and the   *)
(* shell stops with utils_fatal_error.                                     *)
WaitStep ==
  /\ pc = "wait"
  /\ jobs[waitJob].status = "FOREGROUND"
  /\ jobs[waitJob].alive > 0
  /\ IF Unreaped = {}
       THEN Crash("echild") /\ UNCHANGED <<line, procs>>
       ELSE /\ \E p \in Reportable :
                 /\ procs' = Reap(p)
                 /\ HandleChildStatus(p)
            /\ UNCHANGED <<line, cur, waitJob, lastPid, jobList, tty, ttyAttrs,
                           shellAttrs, nlines, pipeFds>>

(* Mutants: wait_for_job deletes the job when it is DONE, or when it has  *)
(* left the foreground, instead of when no member is alive.               *)
ReapableIfDone(job) == job.status = "DONE"
ReapableIfLeftForeground(job) == job.status # "FOREGROUND"

(* wait_for_job deletes the job once no member is alive.                   *)
Reapable(job) == job.alive < 1

(* The loop has ended: sample the terminal state unless a signal killed a *)
(* member, delete the job if no member is alive, then (in the caller,     *)
(* iterate_over_pipeline or fg) give the terminal back and unblock.       *)
WaitDone ==
  /\ pc = "wait"
  /\ ~(jobs[waitJob].status = "FOREGROUND" /\ jobs[waitJob].alive > 0)
  /\ LET j == waitJob
         sampled == IF jobs[j].termCode = "none" THEN ttyAttrs ELSE shellAttrs
     IN  /\ shellAttrs' = sampled
         /\ ttyAttrs' = sampled
         /\ IF Reapable(jobs[j])
              THEN DeleteJobs({j})
              ELSE UNCHANGED <<jobs, jobList>>
  /\ tty' = ShellPgrp
  /\ pc' = "dispatch"
  /\ waitJob' = 0
  /\ UNCHANGED <<line, cur, procs, lastPid, zUpdate, errorUpdate, fault,
                 nlines, pipeFds>>

-----------------------------------------------------------------------------
(* The environment: the children and the user at the terminal.            *)

Live == pc \notin {"exited", "crashed"}

(* A child exits normally.                                                 *)
ProcExit ==
  /\ Live
  /\ \E p \in ProcIds :
       /\ procs[p].st = "running"
       /\ procs' = [procs EXCEPT ![p] = [@ EXCEPT !.st = "zombie",
                                               !.ev = "exited"]]
  /\ UNCHANGED <<pc, line, cur, waitJob, lastPid, jobs, jobList, tty, ttyAttrs,
                 shellAttrs, zUpdate, errorUpdate, fault, nlines, pipeFds>>

(* ^C and ^Z: the terminal driver signals the terminal's process group.   *)
TerminalSignal ==
  /\ Live
  /\ tty # ShellPgrp
  /\ \E p \in Unreaped : procs[p].pgid = tty /\ procs[p].st = "running"
  /\ \E s \in {"INT", "TSTP"} : procs' = SignalGroup(tty, s)
  /\ UNCHANGED <<pc, line, cur, waitJob, lastPid, jobs, jobList, tty, ttyAttrs,
                 shellAttrs, zUpdate, errorUpdate, fault, nlines, pipeFds>>

(* A child outside the terminal's group reads the terminal: SIGTTIN.      *)
BackgroundRead ==
  /\ Live
  /\ \E p \in ProcIds :
       /\ procs[p].st = "running"
       /\ procs[p].pgid # tty
       /\ procs' = [procs EXCEPT ![p] = Deliver(@, "TTIN")]
  /\ UNCHANGED <<pc, line, cur, waitJob, lastPid, jobs, jobList, tty, ttyAttrs,
                 shellAttrs, zUpdate, errorUpdate, fault, nlines, pipeFds>>

(* A child of the terminal's group changes the terminal attributes.       *)
SetTtyAttrs ==
  /\ Live
  /\ \E p \in Unreaped : procs[p].pgid = tty /\ procs[p].st = "running"
  /\ \E a \in Attrs \ {ttyAttrs} : ttyAttrs' = a
  /\ UNCHANGED <<pc, line, cur, waitJob, procs, lastPid, jobs, jobList, tty,
                 shellAttrs, zUpdate, errorUpdate, fault, nlines, pipeFds>>

(* The shell has exited or crashed: nothing more happens.                 *)
Halted ==
  /\ ~Live
  /\ UNCHANGED vars

-----------------------------------------------------------------------------

Init ==
  /\ pc = "prompt"
  /\ line = <<>>
  /\ cur = Idle
  /\ waitJob = 0
  /\ procs = [p \in ProcIds |-> NoProc]
  /\ lastPid = 0
  /\ jobs = [j \in JobIds |-> NoJob]
  /\ jobList = <<>>
  /\ tty = ShellPgrp
  /\ ttyAttrs \in Attrs
  /\ shellAttrs = ttyAttrs                    \* termstate_init
  /\ zUpdate = -1
  /\ errorUpdate = "none"
  /\ fault = "none"
  /\ nlines = 0
  /\ pipeFds = 0

ShellStep ==
  \/ Prompt \/ EndOfLine \/ Jobs \/ Exit \/ Fg \/ Bg \/ Stop \/ Kill
  \/ StartSpawn \/ SpawnChild \/ SpawnFail \/ SetupFail \/ RegisterJob
  \/ JobsFull \/ MissingArg \/ BlockedAtPrompt \/ WaitStep \/ WaitDone

Environment ==
  \/ ProcExit \/ TerminalSignal \/ BackgroundRead \/ SetTtyAttrs

Next ==
  \/ ShellStep
  \/ SigchldHandler
  \/ Environment
  \/ Halted

(* The shell's own code always makes progress, except that the user need  *)
(* not type (Prompt is not fair).  The kernel delivers a pending SIGCHLD   *)
(* as soon as it is unblocked, so the handler is strongly fair.  The       *)
(* children and the user at the terminal are not fair.                     *)
Fairness ==
  /\ WF_vars(EndOfLine \/ Jobs \/ Exit \/ Fg \/ Bg \/ Stop \/ Kill
             \/ StartSpawn \/ SpawnChild \/ SpawnFail \/ SetupFail
             \/ RegisterJob \/ JobsFull \/ MissingArg \/ BlockedAtPrompt)
  /\ WF_vars(WaitStep)
  /\ WF_vars(WaitDone)
  /\ SF_vars(SigchldHandler)

Spec == Init /\ [][Next]_vars /\ Fairness

-----------------------------------------------------------------------------
(* Invariants and properties.                                              *)

TypeOK ==
  /\ pc \in {"prompt", "dispatch", "blocked", "spawn", "wait", "exited",
            "crashed"}
  /\ line \in Seq(Pipelines)
  /\ waitJob \in {0} \cup JobIds
  /\ \A p \in ProcIds :
       /\ procs[p].st \in {"unused", "running", "stopped", "zombie", "reaped"}
       /\ procs[p].pid \in {0} \cup Pids
       /\ procs[p].ev \in {"none", "exited", "signaled", "stopped"}
  /\ lastPid \in {0} \cup Pids
  /\ \A j \in Registered :
       /\ jobs[j].status \in Statuses
       /\ jobs[j].alive \in Int
       /\ jobs[j].saved \in Attrs \cup {NoAttrs}
  /\ jobList \in Seq(JobIds)
  /\ tty \in {ShellPgrp} \cup Pids
  /\ ttyAttrs \in Attrs /\ shellAttrs \in Attrs
  /\ zUpdate \in {-1} \cup JobIds
  /\ errorUpdate \in {"none"} \cup Sigs
  /\ fault \in {"none", "sigchld", "bg", "kill", "notice", "echild", "blocked",
                 "atoi", "maxjobs"}
  /\ pipeFds \in Nat

(* The shell never reads a command line without owning the terminal: the  *)
(* assertion before readline in main().  Every path back to the prompt     *)
(* (wait_for_job's callers, the posix_spawnp failure path, fg when SIGCONT *)
(* fails) must have given the terminal back, even after a foreground job   *)
(* was stopped, killed or failed to start.                                 *)
ShellOwnsTerminalAtPrompt ==
  pc = "prompt" => tty = ShellPgrp

(* A job is FOREGROUND only while wait_for_job is blocked on it, so at     *)
(* most one job is ever FOREGROUND.  This needs wait_for_job to delete,  *)
(* or see leave the foreground, every job fg or the spawner handed it,    *)
(* also one whose members were all reaped before it was handed over.      *)
ForegroundJobIsWaitedOn ==
  \A j \in Registered :
    jobs[j].status = "FOREGROUND" => pc = "wait" /\ waitJob = j

(* num_processes_alive of every registered job is the number of its       *)
(* members the kernel has not yet reaped, whichever of sigchld_handler and *)
(* wait_for_job reaped the others and in whatever order their exits,      *)
(* deaths and stops were reported.                                         *)
AliveCountMatchesMembers ==
  \A j \in Registered :
    jobs[j].alive =
      Cardinality({k \in DOMAIN jobs[j].members :
                     procs[jobs[j].members[k]].st # "reaped"})

(* Every child the shell can reap belongs to a registered job: the        *)
(* precondition of handle_child_status, which dereferences the job it     *)
(* looks up by pid without a NULL check.  Checked wherever a reap can     *)
(* happen: at the prompt, between pipelines and in wait_for_job.          *)
EveryChildHasJob ==
  pc \in {"prompt", "dispatch", "wait"} =>
    \A p \in Unreaped : FindJobByPid(procs[p].pid) # 0

(* A user error is never fatal (spec section 7): bg or kill on a jid with *)
(* no job, and fg, bg or stop typed without a jid, are refused, not a NULL *)
(* dereference of job_with_jid's result or a SIGSEGV in atoi(NULL).  (A    *)
(* full jid space aborting in add_job is fatal by design, spec 4.1.)       *)
UserErrorsNotFatal ==
  fault \notin {"bg", "kill", "atoi"}

(* The ^Z notice printed before the prompt names a job that still exists. *)
StopNoticeNamesJob ==
  fault # "notice"

(* A registered job that is not being waited for has no member alive     *)
(* exactly when it is DONE or TERMINATED (spec section 8): so `jobs`      *)
(* reports and removes every finished job, and never a live one.          *)
FinishedIffNoneAlive ==
  \A j \in Registered \ {waitJob} :
    jobs[j].alive = 0 <=> jobs[j].status \in Finished

(* Once every member of the job wait_for_job is blocked on has stopped or *)
(* died, the shell gets out of the wait loop and goes on with the command  *)
(* line: the reports reach it although SIGCHLD is blocked and although    *)
(* reports of other jobs' children may come first.                        *)
ForegroundWaitEnds ==
  (pc = "wait" /\ \A k \in DOMAIN jobs[waitJob].members :
                    procs[jobs[waitJob].members[k]].st # "running")
    ~> pc = "dispatch"

(* A job not in the foreground whose members have all terminated becomes *)
(* DONE or TERMINATED (or is removed), through sigchld_handler or a later *)
(* wait_for_job, so that `jobs` reports it; unless the shell is gone.     *)
AllMembersGone(j) ==
  /\ jobs[j] # NoJob
  /\ jobs[j].status # "FOREGROUND"
  /\ \A k \in DOMAIN jobs[j].members :
       procs[jobs[j].members[k]].st \in {"zombie", "reaped"}

FinishedJobsNoticed ==
  \A j \in JobIds :
    AllMembersGone(j) ~>
      (jobs[j] = NoJob \/ jobs[j].status \in Finished \/ ~Live)

(* The registry and the monitor implement JobControl: jobs get the lowest *)
(* free jid, the alive count drops by exactly one per member termination  *)
(* handled and never below zero, DONE/TERMINATED come with the last one,  *)
(* at most one job is FOREGROUND, and delete_job is only reached for a    *)
(* job with no member alive (or by exit's free_all_jobs).                 *)
JC == INSTANCE JobControl WITH
        JobIds <- JobIds, MaxMembers <- MaxStages, NoJob <- NoJob,
        ajobs <- [j \in JobIds |->
                    IF jobs[j] = NoJob THEN NoJob
                    ELSE [status |-> jobs[j].status, alive |-> jobs[j].alive]]

JobControlRefined == JC!Spec

(* The comment above termstate_sample in wait_for_job (lines 355-360)     *)
(* says the shell takes its own terminal state "when the job finishes",   *)
(* and every later prompt restores that state: the shell's saved          *)
(* attributes change only when a wait ends with no member of the job     *)
(* alive, or on the spawn failure path before any job exists.             *)
SampleOnlyWhenJobFinishes ==
  [][shellAttrs' # shellAttrs =>
       \/ pc = "wait" /\ jobs[waitJob].alive = 0
       \/ pc = "spawn"]_vars

(* Every return of iterate_over_pipeline unblocks SIGCHLD, so when        *)
(* iterate_over_command_line has run the whole line the shell reaches     *)
(* readline with SIGCHLD unblocked (the assertion in main) and goes on    *)
(* with its loop after a setup error, as spec section 7 requires.          *)
SigchldUnblockedAtReadline ==
  ~(pc = "blocked" /\ line = <<>>)

(* Every return of iterate_over_pipeline has closed the pipes it opened:  *)
(* outside the spawner the shell holds no pipe end (a leaked write end    *)
(* keeps a reader from seeing EOF, and leaked ends fill the descriptor     *)
(* table that the unchecked pipe2 calls draw on).                         *)
PipesClosed ==
  pc \in {"prompt", "dispatch", "blocked", "wait"} => pipeFds = 0

(* A failing resource-setup or spawn step aborts only its pipeline (spec  *)
(* section 7): the children already spawned stay accounted for in a job,  *)
(* the pipeline's pipes are closed, and the shell comes back to readline  *)
(* with SIGCHLD unblocked.                                                 *)
ResourceErrorsContained ==
  EveryChildHasJob /\ PipesClosed /\ SigchldUnblockedAtReadline

=============================================================================
