------------------------------- MODULE PidFile -------------------------------
(***************************************************************************)
(* internal/publish/pidfile.go: publishers that share a state directory    *)
(* claim it by creating publish.pid with O_EXCL and writing their pid.     *)
(* Creating, writing, reading and removing are system calls of their own   *)
(* and processes interleave between any two.                               *)
(*                                                                         *)
(* A pid is a member of Procs, runs once and is not reused.  The file at   *)
(* the path is named by the process that created it: a process that writes *)
(* after its file was removed writes to a file nobody can open.            *)
(***************************************************************************)
EXTENDS Naturals

CONSTANTS
    Procs,
    None,    \* no file at the path
    Stale    \* a file of an earlier boot: of a dead process, or garbage

ASSUME PathAssumption == None \notin Procs /\ Stale \notin Procs /\ None # Stale

VARIABLES
    path,     \* whose file is at the path
    written,  \* processes whose file holds their pid
    pc,       \* where each process is
    try,      \* which pass of AcquirePidFile's loop
    since,    \* history: the claims in force when the process started
    raced     \* history: two processes were in AcquirePidFile at once

vars == <<path, written, pc, try, since, raced>>

Acquiring == {"open", "write", "read", "remove"}
Holding   == {"bind", "serving"}
Alive     == Acquiring \cup Holding \cup {"release", "unlink"}
Places    == Alive \cup {"new", "gone"}

TypeOK ==
    /\ path \in Procs \cup {None, Stale}
    /\ written \subseteq Procs
    /\ pc \in [Procs -> Places] /\ try \in [Procs -> {1, 2}]
    /\ since \in [Procs -> SUBSET Procs] /\ raced \in BOOLEAN

Init ==
    /\ path \in {None, Stale} /\ written = {}
    /\ pc = [p \in Procs |-> "new"] /\ try = [p \in Procs |-> 1]
    /\ since = [p \in Procs |-> {}] /\ raced = FALSE

\* A claim in force: the file names a process that is there.
Claims(p) == path = p /\ p \in written /\ pc[p] \in Alive

Go(p, place) == pc' = [pc EXCEPT ![p] = place]

\* publishServe gets to AcquirePidFile.
Start(p) ==
    /\ pc[p] = "new"
    /\ Go(p, "open")
    /\ since' = [since EXCEPT ![p] = {q \in Procs : Claims(q)}]
    /\ raced' = (raced \/ \E q \in Procs : pc[q] \in Acquiring)
    /\ UNCHANGED <<path, written, try>>

\* O_CREATE|O_EXCL.
Open(p) ==
    /\ pc[p] = "open"
    /\ IF path = None THEN path' = p /\ Go(p, "write") ELSE Go(p, "read") /\ UNCHANGED path
    /\ UNCHANGED <<written, try, since, raced>>

\* A mutant of WritePid: claimed before the pid is in the file.
WriteLater(p) ==
    /\ pc[p] = "write"
    /\ Go(p, "bind")
    /\ UNCHANGED <<path, written, try, since, raced>>

WritePid(p) ==
    /\ pc[p] = "write"
    /\ written' = written \cup {p}
    /\ Go(p, "bind")
    /\ UNCHANGED <<path, try, since, raced>>

\* The write or the close failed: whatever is at the path is removed.
WriteFails(p) ==
    /\ pc[p] = "write"
    /\ path' = None
    /\ Go(p, "gone")
    /\ UNCHANGED <<written, try, since, raced>>

\* What readPid and processAlive make of the file: refuse to a live holder,
\* anything else is stale, a file that is gone or still empty included.
Refused == path \in Procs /\ Claims(path)

\* A mutant of Read: the holder is not probed.
ReadUnprobed(p) ==
    /\ pc[p] = "read"
    /\ Go(p, "remove")
    /\ UNCHANGED <<path, written, try, since, raced>>

Read(p) ==
    /\ pc[p] = "read"
    /\ Go(p, IF Refused THEN "gone" ELSE "remove")
    /\ UNCHANGED <<path, written, try, since, raced>>

\* A mutant of Remove: the loop has no end.
RemoveAgain(p) ==
    /\ pc[p] = "remove"
    /\ path' = None
    /\ Go(p, "open")
    /\ try' = [try EXCEPT ![p] = @ + 1]
    /\ UNCHANGED <<written, since, raced>>

\* The stale file, or whatever is there by now, is removed; once more round the
\* loop, or the error "it keeps being recreated".
Remove(p) ==
    /\ pc[p] = "remove"
    /\ path' = None
    /\ IF try[p] = 1
       THEN Go(p, "open") /\ try' = [try EXCEPT ![p] = 2]
       ELSE Go(p, "gone") /\ UNCHANGED try
    /\ UNCHANGED <<written, since, raced>>

\* Serve listens, or cannot: one process has the port, and other things fail.
Listen(p) ==
    /\ pc[p] = "bind"
    /\ \A q \in Procs : pc[q] # "serving"
    /\ Go(p, "serving")
    /\ UNCHANGED <<path, written, try, since, raced>>

\* Serve returns, by SIGTERM or since it could not listen, and Release is run.
Leave(p) ==
    /\ pc[p] \in Holding
    /\ Go(p, "release")
    /\ UNCHANGED <<path, written, try, since, raced>>

\* Release reads the file, and removes it in a step of its own if it is its own.
Release(p) ==
    /\ pc[p] = "release"
    /\ Go(p, IF path = p /\ p \in written THEN "unlink" ELSE "gone")
    /\ UNCHANGED <<path, written, try, since, raced>>

Unlink(p) ==
    /\ pc[p] = "unlink"
    /\ path' = None
    /\ Go(p, "gone")
    /\ UNCHANGED <<written, try, since, raced>>

\* SIGKILL, a crash, or a SIGHUP before signal.Notify: nothing is cleaned up.
Kill(p) ==
    /\ pc[p] \in Alive
    /\ Go(p, "gone")
    /\ UNCHANGED <<path, written, try, since, raced>>

Step(p) ==
    \/ Start(p) \/ Open(p) \/ WritePid(p) \/ WriteFails(p) \/ Read(p) \/ Remove(p)
    \/ Listen(p) \/ Leave(p) \/ Release(p) \/ Unlink(p) \/ Kill(p)

Next == \E p \in Procs : Step(p)

Spec == Init /\ [][Next]_vars

-----------------------------------------------------------------------------
\* A deploy can signal every publisher that serves: the pidfile names it, as
\* long as no two processes were ever in AcquirePidFile at once, through refused
\* newcomers, failed binds, kills and stale claims.
ServingIsSignalable ==
    ~raced => \A p \in Procs : pc[p] = "serving" => Claims(p)

\* Even in a race, no process removes a claim that was in force when it started:
\* "a second codavox publish sharing the state directory is refused".
IncumbentKept ==
    [][\A p, q \in Procs :
          p # q /\ p \in since[q] /\ Claims(p) /\ pc'[q] # pc[q] => path' = p]_vars

\* "O_EXCL so two publishers starting together cannot both believe they won."
OneWinner ==
    \A p, q \in Procs : pc[p] \in Holding /\ pc[q] \in Holding => p = q
=============================================================================
