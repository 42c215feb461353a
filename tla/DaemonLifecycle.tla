-------------------------- MODULE DaemonLifecycle --------------------------
(***************************************************************************)
(* The daemon and the commands around it, which know each other only       *)
(* through a PID file: run_daemon of presentation/cli.py, pid_file.py and  *)
(* run_foreground of application/daemon_scan_service.py.                   *)
(*                                                                         *)
(* A daemon is one `daemon start` with the process it forks, a command one *)
(* `daemon stop` or `daemon status`.  Each runs its own steps, in any      *)
(* interleaving, and a daemon may be killed at any moment.  A PID is not   *)
(* given to another process while a file names it.                         *)
(***************************************************************************)
EXTENDS Integers, FiniteSets

CONSTANTS
    Daemons,     \* the runs of `daemon start`, each with the PID of its child
    Stops,       \* the runs of `daemon stop`
    Statuses,    \* the runs of `daemon status`
    NoFile,      \* the PID file does not exist
    EmptyFile    \* it was opened for writing and nothing is written yet

Commands == Stops \union Statuses
Procs == Daemons \union Commands

ASSUME ProcsAssumption ==
    /\ Daemons \intersect Commands = {}
    /\ Stops \intersect Statuses = {}
ASSUME FileAssumption ==
    /\ NoFile \notin Daemons
    /\ EmptyFile \notin Daemons
    /\ NoFile # EmptyFile

VARIABLES
    pc,
    pidFile,
    writers,     \* the daemons whose open file is the one now at the path
    pidRead,     \* what the process read from the PID file
    running,     \* self._running of each daemon
    overlapped,  \* history: a command was typed while another was under way
    hasty,       \* history: or even before another had returned to its user
    sent,        \* history: the daemons a stop reported SIGTERM sent to
    heard        \* history: those that had set _running when it arrived

vars == <<pc, pidFile, writers, pidRead, running, overlapped, hasty, sent, heard>>

----------------------------------------------------------------------------
Starting == {"read", "alive", "remove", "load", "forked", "pidOpen", "pidWrite"}
UpStates == {"written", "watch", "loop", "stopping", "removing"}
Ended == {"exited", "crashed"}

\* A daemon that has published its PID and not yet removed the file.
Up(d) == pc[d] \in UpStates

\* os.kill(pid, 0) succeeds.
Alive(d) == pc[d] \in {"forked", "pidOpen", "pidWrite", "removed"} \union UpStates

\* A command returns to its user when it has ended, and a start when it has forked.
InCommand(p) == pc[p] \in {"read", "alive", "kill", "remove", "load"}

\* A start is under way until its daemon has written the PID file.
UnderWay(p) ==
    pc[p] \in IF p \in Daemons THEN Starting ELSE {"read", "alive", "kill", "remove"}

Goto(p, label) == pc' = [pc EXCEPT ![p] = label]

\* remove_pid: unlinks the path, whoever the file names; a daemon that still
\* has the file open writes to a file nobody can find.
Unlink == pidFile' = NoFile /\ writers' = {}

----------------------------------------------------------------------------
Init ==
    /\ pc = [p \in Procs |-> "idle"]
    /\ pidFile = NoFile
    /\ writers = {}
    /\ pidRead = [p \in Procs |-> NoFile]
    /\ running = [d \in Daemons |-> FALSE]
    /\ overlapped = FALSE
    /\ hasty = FALSE
    /\ sent = {}
    /\ heard = {}

\* The user types the command.
Begin(p) ==
    /\ pc[p] = "idle"
    /\ Goto(p, "read")
    /\ overlapped' = (overlapped \/ \E q \in Procs : UnderWay(q))
    /\ hasty' = (hasty \/ \E q \in Procs : InCommand(q))
    /\ UNCHANGED <<pidFile, writers, pidRead, running, sent, heard>>

\* read_pid: without a file, or with a text that is no number, it is None.
ReadPid(p) ==
    /\ pc[p] = "read"
    /\ pidRead' = [pidRead EXCEPT ![p] = pidFile]
    /\ Goto(p, IF pidFile \in Daemons THEN "alive"
               ELSE IF p \in Daemons THEN "load" ELSE "absent")
    /\ UNCHANGED <<pidFile, writers, running, overlapped, hasty, sent, heard>>

\* Where a process goes on that finds the daemon alive.
Found(p) ==
    IF p \in Daemons THEN "refused" ELSE IF p \in Stops THEN "kill" ELSE "present"

\* Mutant of CheckAlive: a start replaces the file of a live daemon.
CheckAliveReplaces(p) ==
    /\ pc[p] = "alive"
    /\ Goto(p, IF Alive(pidRead[p]) /\ p \in Commands THEN Found(p) ELSE "remove")
    /\ UNCHANGED <<pidFile, writers, pidRead, running, overlapped, hasty, sent, heard>>

\* Mutant of CheckAlive: EPERM counts as a dead process, so the commands of
\* another user find no daemon.
CheckAliveDenied(p) ==
    /\ pc[p] = "alive"
    /\ Goto(p, IF Alive(pidRead[p]) /\ p \in Daemons THEN "refused" ELSE "remove")
    /\ UNCHANGED <<pidFile, writers, pidRead, running, overlapped, hasty, sent, heard>>

\* is_process_alive: a start is refused, a status answered, a stop goes on.
CheckAlive(p) ==
    /\ pc[p] = "alive"
    /\ Goto(p, IF Alive(pidRead[p]) THEN Found(p) ELSE "remove")
    /\ UNCHANGED <<pidFile, writers, pidRead, running, overlapped, hasty, sent, heard>>

\* remove_pid for a stale file, whatever the file holds by now.
RemoveStale(p) ==
    /\ pc[p] = "remove"
    /\ Unlink
    /\ Goto(p, IF p \in Daemons THEN "load" ELSE "absent")
    /\ UNCHANGED <<pidRead, running, overlapped, hasty, sent, heard>>

\* Mutant of Kill: the command reads the file again for its message.
KillReportsFile(c) ==
    /\ pc[c] = "kill"
    /\ Alive(pidRead[c])
    /\ running' = [running EXCEPT ![pidRead[c]] = FALSE]
    /\ sent' = sent \union {pidFile}
    /\ heard' = IF running[pidRead[c]] THEN heard \union {pidRead[c]} ELSE heard
    /\ Goto(c, "sent")
    /\ UNCHANGED <<pidFile, writers, pidRead, overlapped, hasty>>

\* os.kill(pid, SIGTERM): the handler of the daemon clears _running.
Kill(c) ==
    /\ pc[c] = "kill"
    /\ Alive(pidRead[c])
    /\ running' = [running EXCEPT ![pidRead[c]] = FALSE]
    /\ sent' = sent \union {pidRead[c]}
    /\ heard' = IF running[pidRead[c]] THEN heard \union {pidRead[c]} ELSE heard
    /\ Goto(c, "sent")
    /\ UNCHANGED <<pidFile, writers, pidRead, overlapped, hasty>>

\* The daemon is another user's: PermissionError, and the command has done nothing.
KillDenied(c) ==
    /\ pc[c] = "kill"
    /\ Alive(pidRead[c])
    /\ Goto(c, "failed")
    /\ UNCHANGED <<pidFile, writers, pidRead, running, overlapped, hasty, sent, heard>>

\* The process ended since the check: ProcessLookupError.
KillTooLate(c) ==
    /\ pc[c] = "kill"
    /\ ~ Alive(pidRead[c])
    /\ Goto(c, "remove")
    /\ UNCHANGED <<pidFile, writers, pidRead, running, overlapped, hasty, sent, heard>>

----------------------------------------------------------------------------
\* The checks and loads of run_daemon after the status check.
LoadFails(d) ==
    /\ pc[d] = "load"
    /\ Goto(d, "failed")
    /\ UNCHANGED <<pidFile, writers, pidRead, running, overlapped, hasty, sent, heard>>

\* daemonize: the parents exit with 0, so the command is over for its user.
Fork(d) ==
    /\ pc[d] = "load"
    /\ Goto(d, "forked")
    /\ UNCHANGED <<pidFile, writers, pidRead, running, overlapped, hasty, sent, heard>>

InstallHandlers(d) ==
    /\ pc[d] = "forked"
    /\ Goto(d, "pidOpen")
    /\ UNCHANGED <<pidFile, writers, pidRead, running, overlapped, hasty, sent, heard>>

\* write_text truncates the file, and then writes the PID.
OpenPidFile(d) ==
    /\ pc[d] = "pidOpen"
    /\ pidFile' = EmptyFile
    /\ writers' = writers \union {d}
    /\ Goto(d, "pidWrite")
    /\ UNCHANGED <<pidRead, running, overlapped, hasty, sent, heard>>

WritePid(d) ==
    /\ pc[d] = "pidWrite"
    /\ pidFile' = IF d \in writers THEN d ELSE pidFile
    /\ writers' = writers \ {d}
    /\ Goto(d, "written")
    /\ UNCHANGED <<pidRead, running, overlapped, hasty, sent, heard>>

SetRunning(d) ==
    /\ pc[d] = "written"
    /\ running' = [running EXCEPT ![d] = TRUE]
    /\ Goto(d, "watch")
    /\ UNCHANGED <<pidFile, writers, pidRead, overlapped, hasty, sent, heard>>

\* Mutant of StartWatcher: _running is set after the watcher is started.
StartWatcherThenRunning(d) ==
    /\ pc[d] = "watch"
    /\ running' = [running EXCEPT ![d] = TRUE]
    /\ Goto(d, "loop")
    /\ UNCHANGED <<pidFile, writers, pidRead, overlapped, hasty, sent, heard>>

StartWatcher(d) ==
    /\ pc[d] = "watch"
    /\ Goto(d, "loop")
    /\ UNCHANGED <<pidFile, writers, pidRead, running, overlapped, hasty, sent, heard>>

\* The watcher does not start.  The finally block joins a thread that was
\* never started, which raises, and remove_pid is not reached.
WatcherStartFails(d) ==
    /\ pc[d] = "watch"
    /\ Goto(d, "crashed")
    /\ UNCHANGED <<pidFile, writers, pidRead, running, overlapped, hasty, sent, heard>>

\* The loop ends when _running is cleared or the observer thread has died.
LeaveLoop(d) ==
    /\ pc[d] = "loop"
    /\ ~ running[d]
    /\ Goto(d, "stopping")
    /\ UNCHANGED <<pidFile, writers, pidRead, running, overlapped, hasty, sent, heard>>

WatcherDies(d) ==
    /\ pc[d] = "loop"
    /\ Goto(d, "stopping")
    /\ UNCHANGED <<pidFile, writers, pidRead, running, overlapped, hasty, sent, heard>>

\* self._watcher.stop(), which waits at most five seconds.
StopWatcher(d) ==
    /\ pc[d] = "stopping"
    /\ Goto(d, "removing")
    /\ UNCHANGED <<pidFile, writers, pidRead, running, overlapped, hasty, sent, heard>>

\* Mutant of RemovePid: the file is left for the next command to clean up.
RemovePidForgotten(d) ==
    /\ pc[d] = "removing"
    /\ Goto(d, "removed")
    /\ UNCHANGED <<pidFile, writers, pidRead, running, overlapped, hasty, sent, heard>>

\* remove_pid in the finally block.
RemovePid(d) ==
    /\ pc[d] = "removing"
    /\ Unlink
    /\ Goto(d, "removed")
    /\ UNCHANGED <<pidRead, running, overlapped, hasty, sent, heard>>

\* run_daemon returns 0 and the process ends.
ExitDaemon(d) ==
    /\ pc[d] = "removed"
    /\ Goto(d, "exited")
    /\ UNCHANGED <<pidFile, writers, pidRead, running, overlapped, hasty, sent, heard>>

\* SIGKILL, the machine's memory, or an exception outside the try.
Crash(d) ==
    /\ Alive(d)
    /\ writers' = writers \ {d}
    /\ Goto(d, "crashed")
    /\ UNCHANGED <<pidFile, pidRead, running, overlapped, hasty, sent, heard>>

----------------------------------------------------------------------------
\* The steps a live daemon takes of its own accord, other than failing.
DaemonStep(d) ==
    \/ Fork(d) \/ InstallHandlers(d) \/ OpenPidFile(d) \/ WritePid(d)
    \/ SetRunning(d) \/ StartWatcher(d) \/ LeaveLoop(d) \/ StopWatcher(d)
    \/ RemovePid(d) \/ ExitDaemon(d)

Next ==
    \/ \E p \in Procs : \/ Begin(p) \/ ReadPid(p)
                        \/ CheckAlive(p) \/ RemoveStale(p)
    \/ \E c \in Stops : Kill(c) \/ KillDenied(c) \/ KillTooLate(c)
    \/ \E d \in Daemons : \/ DaemonStep(d) \/ LoadFails(d)
                          \/ WatcherStartFails(d) \/ WatcherDies(d) \/ Crash(d)

\* Nothing the daemon does can wait for ever: it sleeps half a second in the
\* loop, and stopping the watcher has a timeout.
Fairness == \A d \in Daemons : WF_vars(DaemonStep(d))

Spec == Init /\ [][Next]_vars /\ Fairness

----------------------------------------------------------------------------
TypeOK ==
    /\ pc \in [Procs -> {"idle"} \union Starting \union UpStates \union Ended
                        \union {"kill", "refused", "failed", "absent", "present",
                                "sent", "removed"}]
    /\ pidFile \in Daemons \union {NoFile, EmptyFile}
    /\ writers \subseteq Daemons
    /\ pidRead \in [Procs -> Daemons \union {NoFile, EmptyFile}]
    /\ running \in [Daemons -> BOOLEAN]
    /\ overlapped \in BOOLEAN /\ hasty \in BOOLEAN
    /\ sent \subseteq Daemons
    /\ heard \subseteq Daemons

Alone == \A d, e \in Daemons : Up(d) /\ Up(e) => d = e

\* If every command is typed after the one before it has returned, two daemons never
\* run at the same time, what the check of a start is there for (cli.py lines
\* 744-747).
OneDaemon == ~ hasty => Alone

\* As long as every command is typed after the one before it is over, and a
\* start is over when the PID is written, one daemon at most runs and the PID
\* file names it, through crashes, failed starts and stale files: the commands
\* reach it.
OrderlyUse ==
    ~ overlapped =>
        /\ Alone
        /\ \A d \in Daemons : Up(d) => pidFile = d

\* A daemon that ended in an orderly way left no PID file with its PID, however
\* many other daemons and commands touched the file (lines 126-128).
CleanExit == \A d \in Daemons : pc[d] = "exited" => pidFile # d

\* A status or stop that finds no daemon is right, unless commands overlapped.
AbsentIsTrue ==
    [][\A c \in Commands :
         pc[c] # "absent" /\ pc'[c] = "absent" /\ ~ overlapped
           => \A d \in Daemons : ~ Up(d)']_vars

\* A stop that arrives once the daemon has set _running ends the daemon.
HeardStops == \A d \in Daemons : d \in heard ~> pc[d] \in Ended

\* A stop that reported "sent SIGTERM" ends the daemon.
SentStops == \A d \in Daemons : d \in sent ~> pc[d] \in Ended
============================================================================
