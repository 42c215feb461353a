------------------------------- MODULE Watcher -------------------------------
(***************************************************************************)
(* The watching daemon: the observer thread of filesystem_watcher.py, the  *)
(* scans it runs in daemon_scan_service.py, and the end of the main thread *)
(* as far as it decides over scans under way (DaemonLifecycle has the rest *)
(* of that thread).  The observer itself is the external watchdog library: *)
(* a queue of events, which it hands to the handler one at a time.         *)
(***************************************************************************)
EXTENDS FileTree, Sequences

CONSTANT NoScan     \* the observer thread waits for an event

VARIABLES
    main,       \* the main thread: in its loop, leaving it, joining the observer
    observer,   \* the observer thread
    queue,      \* the events it has not yet handled
    scan,       \* the scan it runs
    log,        \* the batches of lines in the log file
    silent,     \* history: the paths whose content no created or modified event told
    lost        \* history: the paths whose last content met a failing scan or log

watcherVars == <<main, observer, queue, scan, log, silent, lost>>

Event == [kind : {"created", "modified", "deleted", "moved"}, path : Paths]
Handled == {"created", "modified"}  \* the handler has no on_moved

Batch == [path : Paths, version : 0 .. MaxChanges, content : Contents,
          engines : SUBSET Engines, quiet : BOOLEAN, whole : BOOLEAN]
Scan == [path : Paths, version : 0 .. MaxChanges, content : Contents,
         at : 1 .. 5, found : SUBSET Engines, quiet : BOOLEAN]

Watches == main \in {"loop", "leaving"} /\ observer # "ended"

WatcherInit ==
    /\ main = "loop"
    /\ observer = "waiting"
    /\ queue = <<>> /\ scan = NoScan
    /\ log = {}
    /\ silent = Paths /\ lost = {}

----------------------------------------------------------------------------
\* Mutant: no event for the file that is being scanned.
AnnounceIdle(kind, p) ==
    queue' = IF observer = "scan" /\ scan.path = p
             THEN queue ELSE Append(queue, [kind |-> kind, path |-> p])

\* The queue of watchdog skips an event that repeats the one put in last.
Announce(kind, p) ==
    LET e == [kind |-> kind, path |-> p]
    IN  queue' = IF queue # <<>> /\ queue[Len(queue)] = e THEN queue ELSE Append(queue, e)

SeenWrite(p, c) ==
    /\ Write(p, c)
    /\ IF Watches
       THEN /\ Announce(IF Holds(p) THEN "modified" ELSE "created", p)
            /\ silent' = silent \ {p}
            /\ lost' = lost \ {p}
       ELSE UNCHANGED <<queue, silent, lost>>
    /\ UNCHANGED <<main, observer, scan, log>>

SeenDelete(p) ==
    /\ Delete(p)
    /\ IF Watches THEN Announce("deleted", p) ELSE UNCHANGED queue
    /\ UNCHANGED <<main, observer, scan, log, silent, lost>>

SeenMove(p, q) ==
    /\ Move(p, q)
    /\ IF Watches
       THEN Announce("moved", p) /\ silent' = silent \union {q}
       ELSE UNCHANGED <<queue, silent>>
    /\ UNCHANGED <<main, observer, scan, log, lost>>

----------------------------------------------------------------------------
IsFile(p) == Holds(p) /\ content[p] \notin Special

\* The next event is handed over.  An event of another kind, and one whose file is
\* gone or no regular file, is dropped.
Dispatch ==
    /\ Watches
    /\ observer = "waiting"
    /\ queue # <<>>
    /\ queue' = Tail(queue)
    /\ LET e == Head(queue)
       IN  IF e.kind \in Handled /\ IsFile(e.path)
           THEN /\ scan' = [path |-> e.path, version |-> version[e.path],
                            content |-> content[e.path], at |-> 1, found |-> {},
                            quiet |-> TRUE]
                /\ observer' = "scan"
           ELSE UNCHANGED <<scan, observer>>
    /\ UNCHANGED <<main, log, silent, lost>>

\* The look at the path fails with an error is_symlink and is_file let through.  It
\* stands outside the handler's try and ends the observer thread.
DispatchRaises ==
    /\ Watches
    /\ observer = "waiting"
    /\ queue # <<>>
    /\ Head(queue).kind \in Handled
    /\ observer' = "ended"
    /\ UNCHANGED <<main, queue, scan, log, silent, lost>>

\* The engine that is next reads the file.
ScanEngine ==
    /\ observer = "scan"
    /\ scan.at \in Positions
    /\ \E c \in ReadAs(scan.path) :
         scan' = [scan EXCEPT
                    !.at = @ + 1,
                    !.found = IF Order[scan.at] \in Flags[c] THEN @ \union {Order[scan.at]}
                              ELSE @,
                    !.quiet = version[scan.path] = scan.version]
    /\ UNCHANGED <<main, observer, queue, log, silent, lost>>

ScanOver ==
    /\ observer' = "waiting"
    /\ scan' = NoScan
    /\ UNCHANGED <<main, queue, silent>>

LosesLast == lost' = IF version[scan.path] = scan.version
                     THEN lost \union {scan.path} ELSE lost

\* What a scan leaves in the log, some of its lines if it could not write them all.
Lines(engines, whole) ==
    [path |-> scan.path, version |-> scan.version, content |-> scan.content,
     engines |-> engines, quiet |-> scan.quiet, whole |-> whole]

\* Mutant: what was found so far is logged.
ScanRaisesLogs ==
    /\ observer = "scan"
    /\ scan.at \in Positions
    /\ log' = log \union {Lines(scan.found, TRUE)}
    /\ LosesLast
    /\ ScanOver

\* An OSError in an engine: nothing is logged, not even what was found before.
ScanRaises ==
    /\ observer = "scan"
    /\ scan.at \in Positions
    /\ LosesLast
    /\ ScanOver
    /\ UNCHANGED log

AppendLog ==
    /\ observer = "scan"
    /\ scan.at \notin Positions
    /\ log' = IF scan.found = {} THEN log ELSE log \union {Lines(scan.found, TRUE)}
    /\ ScanOver
    /\ UNCHANGED lost

\* The log cannot be opened or written, or the path is no UTF-8: the exception ends
\* in the handler.
AppendFails ==
    /\ observer = "scan"
    /\ scan.at \notin Positions
    /\ scan.found # {}
    /\ \E engines \in SUBSET scan.found :
         log' = IF engines = {} THEN log ELSE log \union {Lines(engines, FALSE)}
    /\ LosesLast
    /\ ScanOver

ObserverStep ==
    Dispatch \/ DispatchRaises \/ ScanEngine \/ ScanRaises \/ AppendLog \/ AppendFails

----------------------------------------------------------------------------
\* SIGTERM or SIGINT: the handler clears _running.
Terminate ==
    /\ main = "loop"
    /\ main' = "leaving"
    /\ UNCHANGED <<observer, queue, scan, log, silent, lost>>

\* The loop ends for either reason, and the observer is told to stop: it finishes
\* the scan it runs, and takes no other event.
LeaveLoop ==
    /\ main = "leaving" \/ (main = "loop" /\ observer = "ended")
    /\ main' = "joining"
    /\ UNCHANGED <<observer, queue, scan, log, silent, lost>>

\* The observer has ended, or five seconds are over.  The process ends, and with it
\* a scan under way and the events that are left.
Leave ==
    /\ main = "joining"
    /\ main' = "exited"
    /\ observer' = "ended"
    /\ queue' = <<>>
    /\ scan' = NoScan
    /\ UNCHANGED <<log, silent, lost>>

KilledDaemon ==
    /\ main \in {"loop", "leaving", "joining"}
    /\ main' = "exited"
    /\ observer' = "ended"
    /\ queue' = <<>>
    /\ scan' = NoScan
    /\ UNCHANGED <<log, silent, lost>>

MainStep == LeaveLoop \/ Leave

----------------------------------------------------------------------------
WatcherTypeOK ==
    /\ main \in {"off", "loop", "leaving", "joining", "exited"}
    /\ observer \in {"waiting", "scan", "ended"}
    /\ queue \in Seq(Event)
    /\ scan = NoScan \/ scan \in Scan
    /\ log \subseteq Batch
    /\ silent \subseteq Paths /\ lost \subseteq Paths

\* The log is exact: what a scan during which the file did not change logged is what
\* the engines have to say of that content, all of it or nothing: an engine that
\* failed leaves no line of those before.  Only a log that could not be written may
\* have fewer lines, and never others (daemon_scan_service.py lines 49-101).
LogExact ==
    \A b \in log : b.quiet =>
        /\ b.engines \subseteq Flags[b.content]
        /\ b.whole => b.engines = Flags[b.content]

Flagged(p) == IsFile(p) /\ Flags[content[p]] # {}

LastScanned(p) ==
    \E b \in log : b.path = p /\ b.version = version[p] /\ b.engines = Flags[content[p]]

\* While the daemon runs, the last contents a file was given by a create or a write
\* are scanned and, if flagged, in the log, however many events and scans there were
\* before, whatever the queue skipped, and whatever failed before.  Not so for a
\* file that was there first or came by a rename, and for a scan or log that failed
\* on just these contents (filesystem_watcher.py lines 18-34, README.md line 85).
LastWriteScanned ==
    \A p \in Paths :
        <>[](main = "loop" /\ Flagged(p) /\ p \notin silent \union lost)
            => <>[]LastScanned(p)
=============================================================================
