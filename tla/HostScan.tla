------------------------------ MODULE HostScan ------------------------------
(***************************************************************************)
(* A tree of files that changes while it is scanned, either by the scan    *)
(* command or by the watching daemon.  Both only read the tree and share   *)
(* nothing else, so that a behaviour with both is one of each.             *)
(***************************************************************************)
EXTENDS ScanCommand, Watcher

vars == <<treeVars, commandVars, watcherVars>>

CommandOff ==
    /\ cmd = "off"
    /\ index = FALSE /\ unpack = FALSE /\ entropy = FALSE
    /\ toList = {} /\ todo = {} /\ listedAt = [d \in Dirs |-> Unlisted]
    /\ current = NoPath /\ at = 1
    /\ raisedAt = [p \in Paths |-> NotRaised] /\ unpacked = {}
    /\ findings = {} /\ total = 0 /\ walked = {}
    /\ report = NoReport /\ exit = NoExit

WatcherOff ==
    /\ main = "off"
    /\ observer = "ended"
    /\ queue = <<>> /\ scan = NoScan
    /\ log = {} /\ silent = {} /\ lost = {}

Init ==
    /\ TreeInit
    /\ \/ CommandInit /\ WatcherOff
       \/ CommandOff /\ WatcherInit

TreeStep ==
    /\ \/ \E p \in Paths, c \in Contents : SeenWrite(p, c)
       \/ \E p \in Paths : SeenDelete(p)
       \/ \E p, q \in Paths : SeenMove(p, q)
    /\ UNCHANGED commandVars

Command == CommandStep /\ UNCHANGED <<treeVars, watcherVars>>
Observer == ObserverStep /\ UNCHANGED <<treeVars, commandVars>>
Main == MainStep /\ UNCHANGED <<treeVars, commandVars>>
Signal == (Terminate \/ KilledDaemon) /\ UNCHANGED <<treeVars, commandVars>>

Next == TreeStep \/ Command \/ Observer \/ Main \/ Signal

\* The observer thread blocks only while its queue is empty, and reads of files end;
\* the main thread looks twice a second and its join has a time-out.
Fairness == WF_vars(Observer) /\ WF_vars(Main)

Spec == Init /\ [][Next]_vars /\ Fairness

TypeOK == TreeTypeOK /\ CommandTypeOK /\ WatcherTypeOK
=============================================================================
