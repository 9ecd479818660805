----------------------------- MODULE DeployQueue -----------------------------
(***************************************************************************)
(* internal/deployserver: the API and the webhook submit deploys, one      *)
(* worker runs them, callers wait for them or read them.  The queue is a   *)
(* channel of QueueDepth ids; the records are a map with the order of      *)
(* submission, cut to the newest MaxHistory at every submission.  Both are *)
(* guarded by one mutex, so submit, the two ends of process and get are    *)
(* each one step; receiving from the channel is not under the mutex and is *)
(* a step of its own.                                                      *)
(*                                                                         *)
(* A deploy is named by the number of its acceptance in place of its       *)
(* random id; what it deploys, and what r10k answers, are left out.        *)
(***************************************************************************)
EXTENDS Naturals, Sequences

CONSTANTS
    MaxHistory,   \* --history, as New leaves it
    QueueDepth,   \* the capacity of the channel
    MaxDeploys    \* a bound: submissions looked at

ASSUME SizesAssumption ==
    MaxHistory \in Nat \ {0} /\ QueueDepth \in Nat \ {0} /\ MaxDeploys \in Nat

Ids      == 1..MaxDeploys
Terminal == {"complete", "failed"}
Statuses == {"none", "queued", "running"} \cup Terminal

VARIABLES
    accepted,  \* submissions accepted so far
    queue,     \* Server.queue
    order,     \* Server.order; the keys of Server.records are its elements
    status,    \* the Status of each Record, still in records or not
    hand,      \* the id the worker received, 0 for none
    late,      \* the ids whose waitFor is past its deadline
    reply,     \* what the caller of `wait` was told; "no" where none waits
    server     \* "up", "stopping" once the signal came, "down" once main returned

vars == <<accepted, queue, order, status, hand, late, reply, server>>

Retained == {order[i] : i \in 1..Len(order)}
Replies  == {"no", "waiting", "nothing"} \cup Statuses

\* The queue and the history stay within their sizes.
TypeOK ==
    /\ accepted \in 0..MaxDeploys
    /\ queue \in Seq(Ids) /\ Len(queue) <= QueueDepth
    /\ order \in Seq(Ids) /\ Len(order) <= MaxHistory
    /\ status \in [Ids -> Statuses]
    /\ hand \in 0..MaxDeploys
    /\ late \subseteq Ids
    /\ reply \in [Ids -> Replies]
    /\ server \in {"up", "stopping", "down"}

Init ==
    /\ accepted = 0 /\ queue = <<>> /\ order = <<>>
    /\ status = [id \in Ids |-> "none"]
    /\ hand = 0
    /\ late = {}
    /\ reply = [id \in Ids |-> "no"]
    /\ server = "up"

\* Mutants of Cut: off by one, and without the loop.
CutShort(s) == IF Len(s) >= MaxHistory THEN Tail(s) ELSE s

CutNever(s) == s

\* The loop at the end of submit.  One submission adds one id, so it runs at
\* most once.
Cut(s) == IF Len(s) > MaxHistory THEN Tail(s) ELSE s

\* submit, from the API or the webhook; with `wait` the API's handler goes on
\* to waitFor.  On a full queue it answers 503 and changes nothing.
Submit(wait) ==
    LET id == accepted + 1 IN
    /\ server # "down"
    /\ accepted < MaxDeploys
    /\ Len(queue) < QueueDepth
    /\ accepted' = id
    /\ queue' = Append(queue, id)
    /\ order' = Cut(Append(order, id))
    /\ status' = [status EXCEPT ![id] = "queued"]
    /\ reply' = [reply EXCEPT ![id] = IF wait THEN "waiting" ELSE "no"]
    /\ UNCHANGED <<hand, late, server>>

\* A mutant of Receive: the latest submission first.
ReceiveNewest ==
    /\ server # "down"
    /\ hand = 0 /\ queue # <<>>
    /\ hand' = queue[Len(queue)]
    /\ queue' = SubSeq(queue, 1, Len(queue) - 1)
    /\ UNCHANGED <<accepted, order, status, late, reply, server>>

\* The worker receives the next id.
Receive ==
    /\ server # "down"
    /\ hand = 0 /\ queue # <<>>
    /\ hand' = Head(queue)
    /\ queue' = Tail(queue)
    /\ UNCHANGED <<accepted, order, status, late, reply, server>>

\* The first half of process: a record that is gone is passed over.
Begin ==
    /\ server # "down"
    /\ hand # 0 /\ status[hand] = "queued"
    /\ IF hand \in Retained
       THEN status' = [status EXCEPT ![hand] = "running"] /\ UNCHANGED hand
       ELSE hand' = 0 /\ UNCHANGED status
    /\ UNCHANGED <<accepted, queue, order, late, reply, server>>

\* A mutant of End: the worker is done and the record never says so.
EndSilently(s) ==
    /\ server # "down"
    /\ hand # 0 /\ status[hand] = "running"
    /\ hand' = 0
    /\ UNCHANGED <<accepted, queue, order, status, late, reply, server>>

\* The deploy returned: the second half of process, through the worker's own
\* pointer to the record.
End(s) ==
    /\ server # "down"
    /\ hand # 0 /\ status[hand] = "running"
    /\ s \in Terminal
    /\ status' = [status EXCEPT ![hand] = s]
    /\ hand' = 0
    /\ UNCHANGED <<accepted, queue, order, late, reply, server>>

\* waitTimeout is over.
Deadline(id) ==
    /\ server # "down"
    /\ reply[id] = "waiting" /\ id \notin late
    /\ late' = late \cup {id}
    /\ UNCHANGED <<accepted, queue, order, status, hand, reply, server>>

\* A mutant of Found: the timeout is answered like a record that is gone.
FoundInTime(id) == IF id \in Retained /\ id \notin late THEN status[id] ELSE "nothing"

\* What get finds of a deploy.
Found(id) == IF id \in Retained THEN status[id] ELSE "nothing"

\* waitFor returns: at a terminal status, with no record at all, or behind its
\* deadline with whatever the record says; the handler answers 200 all the same.
Answer(id) ==
    /\ server # "down"
    /\ reply[id] = "waiting"
    /\ Found(id) \in Terminal \cup {"nothing"} \/ id \in late
    /\ reply' = [reply EXCEPT ![id] = Found(id)]
    /\ UNCHANGED <<accepted, queue, order, status, hand, late, server>>

\* SIGTERM: the context is cancelled; Start may still choose the channel.
Signal ==
    /\ server = "up"
    /\ server' = "stopping"
    /\ UNCHANGED <<accepted, queue, order, status, hand, late, reply>>

\* Shutdown closes the listener, ListenAndServe returns at once, and main
\* returns with it: neither waits for the worker.
Exit ==
    /\ server = "stopping"
    /\ server' = "down"
    /\ UNCHANGED <<accepted, queue, order, status, hand, late, reply>>

Next ==
    \/ \E wait \in BOOLEAN : Submit(wait)
    \/ Receive \/ Begin
    \/ \E s \in Terminal : End(s)
    \/ \E id \in Ids : Deadline(id) \/ Answer(id)
    \/ Signal \/ Exit

Spec == Init /\ [][Next]_vars

\* The worker goes on, each deploy ends (R10kTimeout bounds it) and waitFor has
\* a timeout.
FairSpec ==
    /\ Spec
    /\ WF_vars(Receive) /\ WF_vars(Begin) /\ WF_vars(\E s \in Terminal : End(s))
    /\ \A id \in Ids : WF_vars(Deadline(id)) /\ WF_vars(Answer(id))

-----------------------------------------------------------------------------

Unfinished(id) == status[id] \in {"queued", "running"}

\* The record of a deploy that was accepted and has not ended is in the
\* history: submissions behind it cannot push it out, so the worker never
\* passes over a deploy and GET never answers 404 for one in progress.
UnfinishedRetained == \A id \in Ids : Unfinished(id) => id \in Retained

\* What a caller that waited is told is how its deploy ended, and stays so; or
\* nothing, and then it has ended, and MaxHistory deploys were accepted behind it;
\* or, only past its deadline, that it has not ended yet.
WaitersAreTold ==
    \A id \in Ids :
      /\ reply[id] \in Terminal => status[id] = reply[id]
      /\ reply[id] = "nothing" => status[id] \in Terminal /\ accepted >= id + MaxHistory
      /\ reply[id] \in {"queued", "running"} => id \in late

\* Deploys run in the order they were accepted: when one has left the queue
\* for the worker, everything accepted before it has ended.
InOrder ==
    \A id, earlier \in Ids :
      earlier < id /\ status[id] \in {"running"} \cup Terminal => status[earlier] \in Terminal

\* An accepted deploy is run to its end, unless the server is stopped.
AcceptedEnds ==
    \A id \in Ids : (status[id] = "queued") ~> (status[id] \in Terminal \/ server # "up")

\* A deploy that has started is not torn down because the server is stopped.
StartedEnds == server = "down" => \A id \in Ids : status[id] # "running"
=============================================================================
