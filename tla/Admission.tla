------------------------------ MODULE Admission ------------------------------
(***************************************************************************)
(* Who the publisher serves: the verification of a connection, and the     *)
(* re-check of every request against Puppet's certificate revocation list  *)
(* (internal/puppetca/revocation.go, puppetca.go, and guardPeer of         *)
(* internal/publish/publish.go).                                           *)
(*                                                                         *)
(* The list is a file that Puppet's CA rewrites while the publisher runs.  *)
(* The publisher keeps a parsed copy and the stamp (mtime and size) of the *)
(* file it came from.  Every handshake and every request stats the file,   *)
(* compares under the mutex, re-reads without the mutex when the stamp has *)
(* moved, and takes the copy under the mutex again: goroutines interleave  *)
(* between any two of these steps.                                         *)
(***************************************************************************)
EXTENDS Integers, Sequences

CONSTANTS
    Peers,          \* the certificates that connect
    Certs,          \* all certificates, the authorities' too
    ChainOf,        \* what a peer presents: its own certificate and its issuers
    RoleOf,         \* a certificate's pp_role, or None
    NoRole,
    AllowedRoles,   \* ServerPolicy.AllowedRoles
    AllowedCertnames,   \* AllowedCertnames, and the publisher's own certificate
    Mode,           \* certificate_revocation
    StampOf,        \* the stamp of each version of the file
    Lists,          \* what a version of the CRL may list
    Tasks,          \* goroutines that verify a connection or serve a request
    Main,           \* the goroutine that starts the publisher
    MaxVersions,    \* how often the file changes
    MaxRestarts     \* how often the publisher is restarted

\* The two kinds of file that cannot be used: one a stat does not find, and one
\* that is not parsed, is empty, or is not signed by a known authority.
Unusable == {"gone", "bad"}

ASSUME AdmissionAssumption ==
    /\ Peers \subseteq Certs
    /\ ChainOf \in [Peers -> SUBSET Certs]
    /\ \A p \in Peers : p \in ChainOf[p]
    /\ RoleOf \in [Peers -> AllowedRoles \cup {NoRole}]
    /\ NoRole \notin AllowedRoles
    /\ AllowedCertnames \subseteq Peers
    /\ Mode \in {"chain", "leaf", "false"}
    /\ MaxVersions \in Nat \ {0} /\ MaxRestarts \in Nat
    /\ StampOf \in [1 .. MaxVersions -> Nat]
    /\ Lists \subseteq SUBSET Certs
    /\ Main \notin Tasks

\* No two versions of the file share an mtime and a size.
ASSUME StampsDiffer ==
    \A v, w \in 1 .. MaxVersions : StampOf[v] = StampOf[w] => v = w

VARIABLES
    crl,        \* the versions the file has had, the last one the current
    up,         \* the listener accepts
    restarts,
    cache,      \* crlChecker: stamp, and the version `revoked` was parsed from
    task,       \* each goroutine: where it is, for whom, what it has read
    open,       \* peers holding a verified keep-alive connection
    begun,      \* history: the file's version when a goroutine began
    amid        \* history: the versions at which those in flight then had begun

file == <<crl, restarts>>
vars == <<crl, up, restarts, cache, task, open, begun, amid>>

Everyone == Tasks \cup {Main}
Now == Len(crl)
Kinds == {"whole"} \cup Unusable
Places == {"idle", "stat", "compare", "restat", "read", "store", "lookup",
           "served", "refused"}

\* Where a goroutine holds something it read before.
Working == Places \ {"idle", "served", "refused"}

Idle == [at |-> "idle", peer |-> NoRole, what |-> "none", stamp |-> 0, of |-> 0]

InFlight == {t \in Everyone : task[t].at \in Working}

\* The certificates the check looks up: Check.
Checked(p) ==
    CASE Mode = "chain" -> ChainOf[p]
      [] Mode = "leaf" -> {p}
      [] OTHER -> {}

\* VerifyConnectionIdentity.
Authorized(p) ==
    \/ p \in AllowedCertnames
    \/ RoleOf[p] # NoRole /\ RoleOf[p] \in AllowedRoles

Clear(p, v) == crl[v].kind = "whole" /\ Checked(p) \cap crl[v].lists = {}

Init ==
    /\ \E l \in Lists : crl = <<[kind |-> "whole", lists |-> l]>>
    /\ up = FALSE
    /\ restarts = 0
    /\ cache = [stamp |-> 0, of |-> 0]
    /\ task = [t \in Everyone |-> Idle]
    /\ open = {}
    /\ begun = [t \in Everyone |-> 0]
    /\ amid = [t \in Everyone |-> {}]

-----------------------------------------------------------------------------
(* The file.                                                               *)

\* The CA or an operator changes the file.  One rewritten in place is seen
\* half-written in between: bad, or when a bundle is cut between two blocks,
\* whole and listing less.
Install ==
    /\ Now < MaxVersions
    /\ \E k \in Kinds, l \in Lists :
          crl' = Append(crl, [kind |-> k, lists |-> IF k = "whole" THEN l ELSE {}])
    /\ UNCHANGED <<up, restarts, cache, task, open, begun, amid>>

-----------------------------------------------------------------------------
(* A goroutine: t moves on, or gives up.                                   *)

\* t begins to work for p, from the given place.
Begin(t, p, what, place) ==
    /\ task' = [task EXCEPT ![t] = [at |-> place, peer |-> p, what |-> what,
                                    stamp |-> 0, of |-> 0]]
    /\ begun' = [begun EXCEPT ![t] = Now]
    /\ amid' = [amid EXCEPT ![t] = {Now} \cup {begun[q] : q \in InFlight}]

Goto(t, place) == task' = [task EXCEPT ![t].at = place]

\* The history of goroutines that have ended is dropped.
Forget(S) ==
    /\ begun' = [t \in Everyone |-> IF t \in S THEN 0 ELSE begun[t]]
    /\ amid' = [t \in Everyone |-> IF t \in S THEN {} ELSE amid[t]]

\* Nothing of a goroutine's start changes, nor the file.
Inside == UNCHANGED <<file, begun, amid>>

\* A mutant of Verdict: the connection is kept though its check failed.
VerdictAnyway(t, place) ==
    /\ Goto(t, place)
    /\ open' = IF task[t].what # "request" THEN open \cup {task[t].peer} ELSE open

\* The check returns: what follows is the handshake's or the request's.
Verdict(t, place) ==
    /\ Goto(t, place)
    /\ open' = IF place = "served" /\ task[t].what = "handshake"
               THEN open \cup {task[t].peer} ELSE open

\* ServerTLS at startup: the first load of the list, when it is wanted at all.
Boot ==
    /\ ~up /\ task[Main].at = "idle"
    /\ IF Mode = "false"
       THEN up' = TRUE /\ UNCHANGED <<task, begun, amid>>
       ELSE Begin(Main, NoRole, "boot", "restat") /\ UNCHANGED up
    /\ UNCHANGED <<file, cache, open>>

\* What a peer that has passed authorization, or whose connection had, meets.
Entry == IF Mode = "false" THEN "served" ELSE "stat"

\* VerifyConnection, on a full handshake and on a resumed one: authorization
\* first, and the list only when it passes.
Handshake(t, p) ==
    /\ up /\ task[t].at = "idle" /\ p \notin open
    /\ Begin(t, p, "handshake", IF Authorized(p) THEN Entry ELSE "refused")
    /\ open' = IF Authorized(p) /\ Mode = "false" THEN open \cup {p} ELSE open
    /\ UNCHANGED <<file, up, cache>>

\* A mutant of Request: only handshakes are checked.
RequestUnchecked(t, p) ==
    /\ up /\ task[t].at = "idle" /\ p \in open
    /\ Begin(t, p, "request", "served")
    /\ UNCHANGED <<file, up, cache, open>>

\* guardPeer: a request on a connection verified earlier.
Request(t, p) ==
    /\ up /\ task[t].at = "idle" /\ p \in open
    /\ Begin(t, p, "request", Entry)
    /\ UNCHANGED <<file, up, cache, open>>

\* statCRL in refreshIfChanged.
Stat(t) ==
    /\ task[t].at = "stat"
    /\ IF crl[Now].kind = "gone"
       THEN Verdict(t, "refused")
       ELSE /\ task' = [task EXCEPT ![t].at = "compare", ![t].stamp = StampOf[Now]]
            /\ UNCHANGED open
    /\ Inside /\ UNCHANGED <<up, cache>>

\* A mutant of Compare: the list is read once.
CompareLoaded(t) ==
    /\ task[t].at = "compare"
    /\ Goto(t, IF cache.of # 0 THEN "lookup" ELSE "restat")
    /\ Inside /\ UNCHANGED <<up, cache, open>>

\* The comparison, under the mutex.
Compare(t) ==
    /\ task[t].at = "compare"
    /\ Goto(t, IF task[t].stamp = cache.stamp THEN "lookup" ELSE "restat")
    /\ Inside /\ UNCHANGED <<up, cache, open>>

\* reload stats the file again, before it reads it.
Restat(t) ==
    /\ task[t].at = "restat"
    /\ IF crl[Now].kind = "gone"
       THEN Verdict(t, "refused")
       ELSE /\ task' = [task EXCEPT ![t].at = "read", ![t].stamp = StampOf[Now]]
            /\ UNCHANGED open
    /\ Inside /\ UNCHANGED <<up, cache>>

\* reload reads and parses; an error leaves the cache as it was.
Read(t) ==
    /\ task[t].at = "read"
    /\ IF crl[Now].kind \in Unusable
       THEN Verdict(t, "refused")
       ELSE /\ task' = [task EXCEPT ![t].at = "store", ![t].of = Now]
            /\ UNCHANGED open
    /\ Inside /\ UNCHANGED <<up, cache>>

\* reload returns: the startup is over, or the check goes on.
Loaded(t) ==
    /\ IF t = Main
       THEN up' = TRUE /\ task' = [task EXCEPT ![t] = Idle] /\ Forget({t})
       ELSE Goto(t, "lookup") /\ UNCHANGED <<up, begun, amid>>
    /\ UNCHANGED <<file, open>>

\* Mutants of Store: the copy goes under the stamp the file has by then; and the
\* stamp moves without the list.
StoreRestamped(t) ==
    /\ task[t].at = "store"
    /\ cache' = [stamp |-> StampOf[Now], of |-> task[t].of]
    /\ Loaded(t)

StoreStampOnly(t) ==
    /\ task[t].at = "store"
    /\ cache' = [stamp |-> task[t].stamp,
                 of |-> IF cache.of = 0 THEN task[t].of ELSE cache.of]
    /\ Loaded(t)

\* reload stores under the mutex, whatever another stored meanwhile.
Store(t) ==
    /\ task[t].at = "store"
    /\ cache' = [stamp |-> task[t].stamp, of |-> task[t].of]
    /\ Loaded(t)

\* check takes the copy and looks the peer's certificates up in it.
Lookup(t) ==
    /\ task[t].at = "lookup"
    /\ Verdict(t, IF Clear(task[t].peer, cache.of) THEN "served" ELSE "refused")
    /\ Inside /\ UNCHANGED <<up, cache>>

\* The answer is sent; a startup that failed leaves no publisher.
Finish(t) ==
    /\ task[t].at \in {"served", "refused"}
    /\ task' = [task EXCEPT ![t] = Idle]
    /\ Forget({t})
    /\ UNCHANGED <<file, up, cache, open>>

\* A peer drops its keep-alive connection.
Close(p) ==
    /\ p \in open
    /\ \A t \in Tasks : task[t].at = "idle" \/ task[t].peer # p
    /\ open' = open \ {p}
    /\ UNCHANGED <<file, up, cache, task, begun, amid>>

\* The publisher dies: everything but the file is lost.
Restart ==
    /\ restarts < MaxRestarts
    /\ restarts' = restarts + 1
    /\ up' = FALSE
    /\ cache' = [stamp |-> 0, of |-> 0]
    /\ task' = [t \in Everyone |-> Idle]
    /\ open' = {}
    /\ Forget(Everyone)
    /\ UNCHANGED crl

Advance(t) ==
    \/ Stat(t) \/ Compare(t) \/ Restat(t) \/ Read(t) \/ Store(t) \/ Lookup(t)
    \/ Finish(t)

Next ==
    \/ Install \/ Boot \/ Restart
    \/ \E p \in Peers : Close(p)
    \/ \E t \in Tasks, p \in Peers : Handshake(t, p) \/ Request(t, p)
    \/ \E t \in Everyone : Advance(t)

Spec == Init /\ [][Next]_vars

\* A goroutine that has begun runs on; nothing else is assumed: no one need
\* connect, and no file need change.
LiveSpec == Spec /\ \A t \in Everyone : WF_vars(Advance(t))

-----------------------------------------------------------------------------
(* Properties.                                                             *)

TypeOK ==
    /\ crl \in Seq([kind : Kinds, lists : SUBSET Certs])
    /\ Now \in 1 .. MaxVersions
    /\ up \in BOOLEAN
    /\ restarts \in 0 .. MaxRestarts
    /\ cache \in [stamp : Nat, of : 0 .. Now]
    /\ task \in [Everyone -> [at : Places, peer : Peers \cup {NoRole},
                              what : {"none", "boot", "handshake", "request"},
                              stamp : Nat, of : 0 .. Now]]
    /\ open \subseteq Peers
    /\ begun \in [Everyone -> 0 .. Now]
    /\ amid \in [Everyone -> SUBSET (0 .. Now)]

\* While the file's stamp is the cached one, the cached list is the file's:
\* "unchanged" is never said of a list that has changed, however reloads
\* interleave with each other and with the file (reload stats before it reads).
StampNeverOutruns ==
    (up /\ Mode # "false" /\ cache.stamp = StampOf[Now]) => cache.of = Now

\* Who is served was clear in a list that was current when it began or later,
\* or when one of the goroutines then in flight began: a revoked peer gets in
\* only alongside a check that was already running when the list changed.
ServedOnARecentList ==
    \A t \in Tasks :
        task[t].at = "served" =>
            /\ Authorized(task[t].peer)
            /\ Mode # "false" =>
                 \E v \in 1 .. Now : /\ Clear(task[t].peer, v)
                                     /\ \E a \in amid[t] : a <= v

\* Once the file stays as it is, a peer it does not clear is in the end never
\* served again, on a new connection or on one that was open all along, and a
\* file that cannot be used clears nobody.
RevocationTakesHold ==
    \A p \in Peers :
        <>[](Mode # "false" /\ ~Clear(p, Now)) =>
            <>[](\A t \in Tasks : ~(task[t].at = "served" /\ task[t].peer = p))

\* Once the file stays usable and clears an authorized peer, that peer is in
\* the end never refused again: a list that was bad for a while, or an older
\* copy stored late, needs no restart to be forgotten.
ClearedIsServedAgain ==
    \A p \in Peers :
        <>[](Authorized(p) /\ Clear(p, Now)) =>
            <>[](\A t \in Tasks : ~(task[t].at = "refused" /\ task[t].peer = p))

(* Statements of the comments that the code does not keep.                 *)

\* guardPeer: checking every request "closes that window to a single request":
\* a request that began after the list changed is judged by that list.
OneRequestLate ==
    \A t \in Tasks :
        (task[t].at = "served" /\ Mode # "false") =>
            \E v \in begun[t] .. Now : Clear(task[t].peer, v)

\* check: with a list that has become unusable since startup, "Keep serving on
\* the last good copy": nobody whom every usable version clears is refused.
LastGoodCopyServes ==
    \A t \in Tasks :
        (task[t].at = "refused" /\ Authorized(task[t].peer)) =>
            \E v \in 1 .. Now : /\ crl[v].kind = "whole"
                                /\ ~Clear(task[t].peer, v)
=============================================================================
