----------------------- MODULE DaemonLifecycleProofs -----------------------
(***************************************************************************)
(* Theorems about DaemonLifecycle for any number of daemons and commands:  *)
(* what the PID file tells is true as long as commands do not overlap, and *)
(* a daemon that ends in order leaves no file of its own.                  *)
(***************************************************************************)
EXTENDS DaemonLifecycle, TLAPS

CommandPc ==
    {"idle", "read", "alive", "remove", "kill", "absent", "present", "sent", "failed"}
DaemonPc == {"idle", "refused", "failed", "removed"} \union Starting \union UpStates \union Ended

\* A start that has passed its check and not yet published its PID.
Committed(d) == pc[d] \in {"load", "forked", "pidOpen", "pidWrite"}

Typed ==
    /\ TypeOK
    /\ \A c \in Commands : pc[c] \in CommandPc
    /\ \A d \in Daemons : pc[d] \in DaemonPc
    /\ \A p \in Procs : pc[p] \in {"alive", "kill"} => pidRead[p] \in Daemons

\* The file names a daemon only from the time that daemon wrote it.
NamesItsWriter ==
    \A d \in Daemons : pidFile = d => pc[d] \in UpStates \union {"crashed"}

\* One command at a time is under way.
OneUnderWay == \A p, q \in Procs : UnderWay(p) /\ UnderWay(q) => p = q

\* A process under way knows the only daemon there can be, or that there is none.
KnowsDaemons ==
    \A p \in Procs, d \in Daemons :
        Up(d) => /\ pc[p] \in {"alive", "kill"} => pidRead[p] = d
                 /\ pc[p] # "remove"

CommittedAlone ==
    \A d \in Daemons :
        Committed(d) => /\ \A e \in Daemons : ~ Up(e)
                        /\ pc[d] = "pidWrite" => d \in writers

FileNamesDaemon == \A d \in Daemons : Up(d) => pidFile = d

Orderly == OneUnderWay /\ KnowsDaemons /\ CommittedAlone /\ FileNamesDaemon

IInv == Typed /\ NamesItsWriter /\ (~ overlapped => Orderly)

----------------------------------------------------------------------------
LEMMA InitInv == Init => IInv
BY ProcsAssumption, FileAssumption
   DEF Init, IInv, Typed, TypeOK, NamesItsWriter, Orderly, OneUnderWay,
       KnowsDaemons, CommittedAlone, FileNamesDaemon, Committed, Up, UnderWay,
       Starting, UpStates, Ended, CommandPc, DaemonPc, Procs, Commands

\* The steps that only move the program counter of a starting daemon.
Advance(d) == Fork(d) \/ InstallHandlers(d) \/ LoadFails(d)

\* The steps of a daemon that is up, other than the removal of the file.
Run(d) ==
    \/ SetRunning(d) \/ StartWatcher(d) \/ WatcherStartFails(d) \/ LeaveLoop(d)
    \/ WatcherDies(d) \/ StopWatcher(d)

\* Every step keeps the types and what the file can name.
LEMMA TypedStep == IInv /\ [Next]_vars => Typed' /\ NamesItsWriter'
<1> SUFFICES ASSUME IInv, [Next]_vars PROVE Typed' /\ NamesItsWriter'
    OBVIOUS
<1> USE ProcsAssumption, FileAssumption
    DEF Typed, TypeOK, NamesItsWriter, Starting, UpStates, Ended, CommandPc,
        DaemonPc, Procs, Commands, Up, Goto, Unlink
<1>1. ASSUME NEW p \in Procs, Begin(p) PROVE Typed' /\ NamesItsWriter'
      BY <1>1 DEF IInv, Begin
<1>2. ASSUME NEW p \in Procs, ReadPid(p) PROVE Typed' /\ NamesItsWriter'
      BY <1>2 DEF IInv, ReadPid
<1>3. ASSUME NEW p \in Procs, CheckAlive(p) PROVE Typed' /\ NamesItsWriter'
      BY <1>3 DEF IInv, CheckAlive, Found
<1>4. ASSUME NEW p \in Procs, RemoveStale(p) PROVE Typed' /\ NamesItsWriter'
      BY <1>4 DEF IInv, RemoveStale
<1>5. ASSUME NEW c \in Stops, Kill(c) PROVE Typed' /\ NamesItsWriter'
      BY <1>5 DEF IInv, Kill
<1>6. ASSUME NEW c \in Stops, KillTooLate(c) \/ KillDenied(c)
      PROVE  Typed' /\ NamesItsWriter'
      BY <1>6 DEF IInv, KillTooLate, KillDenied
<1>7. ASSUME NEW d \in Daemons, Advance(d) PROVE Typed' /\ NamesItsWriter'
      BY <1>7 DEF IInv, Advance, Fork, InstallHandlers, LoadFails
<1>8. ASSUME NEW d \in Daemons, OpenPidFile(d) PROVE Typed' /\ NamesItsWriter'
      BY <1>8 DEF IInv, OpenPidFile
<1>9. ASSUME NEW d \in Daemons, WritePid(d) PROVE Typed' /\ NamesItsWriter'
      BY <1>9 DEF IInv, WritePid
<1>10. ASSUME NEW d \in Daemons, Run(d) PROVE Typed' /\ NamesItsWriter'
  <2>1. CASE SetRunning(d)
        BY <2>1 DEF IInv, SetRunning
  <2>2. CASE StartWatcher(d) \/ WatcherStartFails(d)
        BY <2>2 DEF IInv, StartWatcher, WatcherStartFails
  <2>3. CASE LeaveLoop(d) \/ WatcherDies(d) \/ StopWatcher(d)
        BY <2>3 DEF IInv, LeaveLoop, WatcherDies, StopWatcher
  <2> QED BY <1>10, <2>1, <2>2, <2>3 DEF Run
<1>11. ASSUME NEW d \in Daemons, RemovePid(d) \/ ExitDaemon(d)
      PROVE  Typed' /\ NamesItsWriter'
      BY <1>11 DEF IInv, RemovePid, ExitDaemon
<1>12. ASSUME NEW d \in Daemons, Crash(d) PROVE Typed' /\ NamesItsWriter'
      BY <1>12 DEF IInv, Crash, Alive
<1>13. CASE UNCHANGED vars
      BY <1>13 DEF IInv, vars, UnderWay
<1> HIDE DEF Typed, TypeOK, NamesItsWriter
<1> QED
    BY <1>1, <1>2, <1>3, <1>4, <1>5, <1>6, <1>7, <1>8, <1>9, <1>10, <1>11, <1>12,
       <1>13 DEF Next, DaemonStep, Advance, Run

\* Every step keeps the rest, while commands do not overlap.
LEMMA OrderlyStep == IInv /\ [Next]_vars /\ ~ overlapped' => Orderly'
<1> SUFFICES ASSUME IInv, [Next]_vars, ~ overlapped' PROVE Orderly'
    OBVIOUS
<1>0. ~ overlapped /\ Typed /\ Orderly
  <2>1. overlapped => overlapped'
        BY DEF Next, DaemonStep, vars, IInv, Typed, TypeOK, Begin, ReadPid, CheckAlive,
               RemoveStale, Kill, KillTooLate, KillDenied, Fork, InstallHandlers,
               OpenPidFile, WritePid, SetRunning, StartWatcher, LeaveLoop, StopWatcher, RemovePid, ExitDaemon,
               LoadFails, WatcherStartFails, WatcherDies, Crash
  <2> QED BY <2>1 DEF IInv
<1> USE <1>0, ProcsAssumption, FileAssumption
    DEF Typed, TypeOK, Starting, UpStates, Procs, Commands, Up, Goto, Unlink, UnderWay,
        Orderly, OneUnderWay, KnowsDaemons, CommittedAlone, FileNamesDaemon, Committed
<1>1. ASSUME NEW p \in Procs, Begin(p) PROVE Orderly'
      BY <1>1 DEF Begin
<1>2. ASSUME NEW p \in Procs, ReadPid(p) PROVE Orderly'
      BY <1>2 DEF ReadPid, CommandPc, DaemonPc
<1>3. ASSUME NEW p \in Procs, CheckAlive(p) PROVE Orderly'
  <2>1. /\ pidRead[p] \in Daemons
        /\ \A q \in Procs \ {p} : ~ UnderWay(q)
        BY <1>3 DEF CheckAlive
  <2>2. /\ UNCHANGED <<pidFile, writers, pidRead>>
        /\ \A q \in Procs \ {p} : pc'[q] = pc[q]
        /\ pc'[p] \in {"refused", "kill", "present"}
             \/ (pc'[p] = "remove" /\ ~ Alive(pidRead[p]))
    <3> HIDE DEF Orderly, Up, UnderWay, Procs, Commands, Starting, UpStates
    <3>1. /\ UNCHANGED <<pidFile, writers, pidRead>>
          /\ \A q \in Procs \ {p} : pc'[q] = pc[q]
          BY <1>3 DEF CheckAlive
    <3>2. pc'[p] = IF Alive(pidRead[p]) THEN Found(p) ELSE "remove"
          BY <1>3 DEF CheckAlive
    <3> QED BY <3>1, <3>2 DEF Found
  <2>3. \A d \in Daemons : Up(d)' => Up(d) /\ d = pidRead[p]
        BY <1>3, <2>2 DEF CheckAlive, Found
  <2>4. OneUnderWay'
        BY <2>1, <2>2
  <2>5. KnowsDaemons'
        BY <2>1, <2>2, <2>3 DEF Alive, CommandPc, DaemonPc
  <2>6. CommittedAlone' /\ FileNamesDaemon'
        BY <2>2, <2>3
  <2> QED BY <2>4, <2>5, <2>6
<1>4. ASSUME NEW p \in Procs, RemoveStale(p) PROVE Orderly'
      BY <1>4 DEF RemoveStale, CommandPc, DaemonPc
<1>5. ASSUME NEW c \in Stops, Kill(c) PROVE Orderly'
      BY <1>5 DEF Kill, CommandPc, DaemonPc
<1>6. ASSUME NEW c \in Stops, KillTooLate(c) \/ KillDenied(c) PROVE Orderly'
      BY <1>6 DEF KillTooLate, KillDenied, Alive, CommandPc, DaemonPc
<1>7. ASSUME NEW d \in Daemons, Advance(d) PROVE Orderly'
      BY <1>7 DEF Advance, Fork, InstallHandlers, LoadFails
<1>8. ASSUME NEW d \in Daemons, OpenPidFile(d) PROVE Orderly'
      BY <1>8 DEF OpenPidFile
<1>9. ASSUME NEW d \in Daemons, WritePid(d) PROVE Orderly'
  <2>1. /\ pidFile' = d
        /\ \A q \in Procs \ {d} : pc'[q] = pc[q] /\ ~ UnderWay(q)
        /\ pc'[d] = "written"
        /\ \A e \in Daemons : ~ Up(e)
        BY <1>9 DEF WritePid
  <2>2. OneUnderWay'
        BY <2>1
  <2>3. KnowsDaemons'
        BY <2>1, <1>9 DEF WritePid, CommandPc, DaemonPc, Ended
  <2>4. CommittedAlone' /\ FileNamesDaemon'
        BY <2>1
  <2> QED BY <2>2, <2>3, <2>4
<1>10. ASSUME NEW d \in Daemons, Run(d) PROVE Orderly'
      BY <1>10 DEF Run, SetRunning, StartWatcher, WatcherStartFails,
                   LeaveLoop, WatcherDies, StopWatcher
<1>11. ASSUME NEW d \in Daemons, RemovePid(d) \/ ExitDaemon(d) PROVE Orderly'
      BY <1>11 DEF RemovePid, ExitDaemon, CommandPc, DaemonPc
<1>12. ASSUME NEW d \in Daemons, Crash(d) PROVE Orderly'
      BY <1>12 DEF Crash, Alive
<1>13. CASE UNCHANGED vars
      BY <1>13 DEF vars
<1> HIDE <1>0 DEF Typed, TypeOK, Orderly
<1> QED
    BY <1>1, <1>2, <1>3, <1>4, <1>5, <1>6, <1>7, <1>8, <1>9, <1>10, <1>11, <1>12,
       <1>13 DEF Next, DaemonStep, Advance, Run

\* The invariant the theorems below rest on.
THEOREM Invariance == Spec => []IInv
<1>1. IInv /\ [Next]_vars => IInv'
      BY TypedStep, OrderlyStep DEF IInv
<1> QED BY InitInv, <1>1, PTL DEF Spec

----------------------------------------------------------------------------
\* The states of DaemonLifecycle have the types it declares.
THEOREM TypeCorrect == Spec => []TypeOK
<1>1. IInv => TypeOK
      BY DEF IInv, Typed
<1> QED BY Invariance, <1>1, PTL

\* While commands do not overlap one daemon runs and the PID file names it,
\* whatever crashes and stale files came before (run_daemon, pid_file.py).
THEOREM OneDaemonWhenOrderly == Spec => []OrderlyUse
<1>1. IInv => OrderlyUse
      BY DEF IInv, Orderly, FileNamesDaemon, OrderlyUse, Alone
<1> QED BY Invariance, <1>1, PTL

\* A daemon that left run_foreground in order left no file that names it.
THEOREM NoFileAfterExit == Spec => []CleanExit
<1>1. IInv => CleanExit
      BY DEF IInv, NamesItsWriter, CleanExit, UpStates
<1> QED BY Invariance, <1>1, PTL

\* A status or a stop that reports no daemon is right while commands do not
\* overlap.
THEOREM AbsentMeansAbsent == Spec => AbsentIsTrue
<1>1. ASSUME IInv, [Next]_vars, NEW c \in Commands,
             pc[c] # "absent", pc'[c] = "absent", ~ overlapped
      PROVE  \A d \in Daemons : ~ Up(d)'
  <2> USE <1>1, ProcsAssumption, FileAssumption
      DEF IInv, Typed, TypeOK, Goto, Up, UpStates, Starting, Procs, Commands
  <2>1. ReadPid(c) \/ RemoveStale(c)
        BY DEF Next, DaemonStep, vars, Begin, ReadPid, CheckAlive, Found, RemoveStale,
               Kill, KillTooLate, KillDenied, Fork, InstallHandlers, OpenPidFile, WritePid,
               SetRunning, StartWatcher, LeaveLoop, StopWatcher, RemovePid, ExitDaemon, LoadFails,
               WatcherStartFails, WatcherDies, Crash
  <2>2. CASE ReadPid(c)
        BY <2>2 DEF ReadPid, Orderly, FileNamesDaemon
  <2>3. CASE RemoveStale(c)
        BY <2>3 DEF RemoveStale, Orderly, KnowsDaemons
  <2> QED BY <2>1, <2>2, <2>3
<1>2. IInv /\ [Next]_vars =>
        [\A c \in Commands :
           pc[c] # "absent" /\ pc'[c] = "absent" /\ ~ overlapped
             => \A d \in Daemons : ~ Up(d)']_vars
      BY <1>1
<1> QED BY Invariance, <1>2, PTL DEF Spec, AbsentIsTrue

----------------------------------------------------------------------------
(* What a daemon does once it has heard SIGTERM.                            *)

\* The states of a daemon that has set _running.
Runs == {"watch", "loop", "stopping", "removing", "removed"} \union Ended

\* The steps it takes at most until it has ended.
StepsLeft(d) ==
    CASE pc[d] = "watch" -> 5
      [] pc[d] = "loop" -> 4
      [] pc[d] = "stopping" -> 3
      [] pc[d] = "removing" -> 2
      [] pc[d] = "removed" -> 1
      [] OTHER -> 0

\* A signal that arrived after _running was set stays in force: the flag is down
\* for good, and nothing of run_foreground sets it again, so that the loop cannot be
\* entered anew or go on (daemon_scan_service.py lines 103-128).
HeardInv ==
    /\ \A d \in Daemons : running[d] => pc[d] \in Runs
    /\ \A d \in heard : ~ running[d] /\ pc[d] \in Runs

\* Whatever such a daemon does brings it nearer to its end, and it never goes back:
\* the safety part of HeardStops.
Down == \A d \in heard : d \in heard' /\ (pc'[d] # pc[d] => StepsLeft(d)' < StepsLeft(d))
HeardRunsDown == [][Down]_vars

LEMMA HeardStep == IInv /\ HeardInv /\ [Next]_vars => HeardInv' /\ Down
<1> SUFFICES ASSUME IInv, HeardInv, [Next]_vars PROVE HeardInv' /\ Down
    OBVIOUS
<1> USE ProcsAssumption
    DEF HeardInv, Runs, Ended, Goto, Procs, Commands, IInv, Typed, TypeOK,
        StepsLeft, Down
<1>1. ASSUME NEW p \in Procs, Begin(p) \/ ReadPid(p) \/ RemoveStale(p)
      PROVE  HeardInv' /\ Down
      BY <1>1 DEF Begin, ReadPid, RemoveStale, Unlink
<1>2. ASSUME NEW p \in Procs, CheckAlive(p) PROVE HeardInv' /\ Down
      BY <1>2 DEF CheckAlive
<1>3. ASSUME NEW c \in Stops, Kill(c) \/ KillDenied(c) \/ KillTooLate(c)
      PROVE  HeardInv' /\ Down
      BY <1>3 DEF Kill, KillDenied, KillTooLate
<1>4. ASSUME NEW d \in Daemons, LoadFails(d) \/ Fork(d) \/ InstallHandlers(d)
      PROVE  HeardInv' /\ Down
      BY <1>4 DEF LoadFails, Fork, InstallHandlers
<1>5. ASSUME NEW d \in Daemons, OpenPidFile(d) \/ WritePid(d) PROVE HeardInv' /\ Down
      BY <1>5 DEF OpenPidFile, WritePid
<1>6. ASSUME NEW d \in Daemons, SetRunning(d) PROVE HeardInv' /\ Down
      BY <1>6 DEF SetRunning
<1>7. ASSUME NEW d \in Daemons, StartWatcher(d) \/ WatcherStartFails(d)
      PROVE  HeardInv' /\ Down
      BY <1>7 DEF StartWatcher, WatcherStartFails
<1>8. ASSUME NEW d \in Daemons, LeaveLoop(d) \/ WatcherDies(d) \/ StopWatcher(d)
      PROVE  HeardInv' /\ Down
      BY <1>8 DEF LeaveLoop, WatcherDies, StopWatcher
<1>9. ASSUME NEW d \in Daemons, RemovePid(d) \/ ExitDaemon(d) \/ Crash(d)
      PROVE  HeardInv' /\ Down
      BY <1>9 DEF RemovePid, ExitDaemon, Crash, Unlink, Alive, UpStates
<1>10. CASE UNCHANGED vars
      BY <1>10 DEF vars
<1> HIDE DEF Down, HeardInv, Typed, TypeOK, Procs, Commands, Goto, StepsLeft
<1>11. CASE Next
  <2>1. CASE \E p \in Procs : Begin(p) \/ ReadPid(p) \/ CheckAlive(p) \/ RemoveStale(p)
        BY <1>1, <1>2, <2>1
  <2>2. CASE \E c \in Stops : Kill(c) \/ KillDenied(c) \/ KillTooLate(c)
        BY <1>3, <2>2
  <2>3. CASE \E d \in Daemons : \/ DaemonStep(d) \/ LoadFails(d)
                                \/ WatcherStartFails(d) \/ WatcherDies(d) \/ Crash(d)
        BY <1>4, <1>5, <1>6, <1>7, <1>8, <1>9, <2>3 DEF DaemonStep
  <2> QED BY <1>11, <2>1, <2>2, <2>3 DEF Next
<1> QED BY <1>10, <1>11

\* A daemon that heard SIGTERM keeps its flag down and goes through the rest of
\* run_foreground step by step to its end, whatever other commands, signals and
\* crashes come meanwhile.
THEOREM HeardIsFinal == Spec => []HeardInv /\ HeardRunsDown
<1>1. Init => HeardInv
      BY DEF Init, HeardInv
<1>2. IInv /\ HeardInv /\ [Next]_vars => HeardInv'
      BY HeardStep
<1>3. IInv /\ HeardInv /\ [Next]_vars => [Down]_vars
      BY HeardStep
<1> QED BY <1>1, <1>2, <1>3, Invariance, PTL DEF Spec, HeardRunsDown
============================================================================
