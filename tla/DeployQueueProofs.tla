------------------------- MODULE DeployQueueProofs -------------------------
(***************************************************************************)
(* Theorems about DeployQueue, for any history, queue depth and number of  *)
(* submissions.                                                            *)
(***************************************************************************)
EXTENDS DeployQueue, Integers, TLAPS

USE SizesAssumption DEF Ids, Terminal, Statuses, Replies

\* How many deploys have left the queue for the worker.
Taken == accepted - Len(queue)

\* The queue and the history are the latest submissions, in order; what the
\* worker holds is the last it took.
Numbered ==
    /\ Len(queue) <= accepted /\ Len(order) <= accepted
    /\ \A i \in 1..Len(queue) : queue[i] = Taken + i
    /\ \A i \in 1..Len(order) : order[i] = accepted - Len(order) + i
    /\ Len(order) < accepted => Len(order) = MaxHistory
    /\ hand # 0 => hand = Taken

\* What was taken before that has ended, what was not has not begun.
Progressed ==
    /\ \A id \in Ids : id < Taken => status[id] \in Terminal
    /\ Taken > 0 /\ hand = 0 => status[Taken] \in Terminal
    /\ hand # 0 => status[hand] \in {"queued", "running"}
    /\ \A id \in Ids : id > Taken /\ id <= accepted => status[id] = "queued"
    /\ \A id \in Ids : id > accepted => status[id] = "none"

QueueInv == TypeOK /\ Numbered /\ Progressed

\* Appending to a sequence.
LEMMA AppendFacts ==
    ASSUME NEW S, NEW s \in Seq(S), NEW x \in S
    PROVE  /\ Append(s, x) \in Seq(S)
           /\ Len(Append(s, x)) = Len(s) + 1
           /\ \A i \in 1..Len(s) + 1 :
                Append(s, x)[i] = IF i <= Len(s) THEN s[i] ELSE x
OBVIOUS

\* Dropping the head of a sequence.
LEMMA TailFacts ==
    ASSUME NEW S, NEW s \in Seq(S), s # <<>>
    PROVE  /\ Head(s) = s[1] /\ Head(s) \in S
           /\ Tail(s) \in Seq(S)
           /\ Len(s) \in Nat \ {0} /\ Len(Tail(s)) = Len(s) - 1
           /\ \A i \in 1..Len(s) - 1 : Tail(s)[i] = s[i + 1]
OBVIOUS

\* What the loop at the end of submit leaves of the history.
LEMMA CutFacts ==
    ASSUME NEW s \in Seq(Ids)
    PROVE  /\ Cut(s) \in Seq(Ids)
           /\ Len(Cut(s)) = IF Len(s) > MaxHistory THEN Len(s) - 1 ELSE Len(s)
           /\ \A i \in 1..Len(Cut(s)) : Cut(s)[i] = s[i + Len(s) - Len(Cut(s))]
<1>1. CASE Len(s) > MaxHistory
  <2>1. s # <<>> /\ Len(s) \in Nat
    BY <1>1
  <2>2. QED
    BY <1>1, <2>1, TailFacts DEF Cut
<1>2. CASE ~(Len(s) > MaxHistory)
  BY <1>2 DEF Cut
<1>3. QED
  BY <1>1, <1>2

\* A submission, seen through the lengths and the elements of what it leaves.
LEMMA SubmitFacts ==
    ASSUME TypeOK, NEW wait \in BOOLEAN, Submit(wait)
    PROVE  /\ accepted' = accepted + 1 /\ accepted' \in Ids
           /\ queue' \in Seq(Ids) /\ Len(queue') = Len(queue) + 1 /\ Len(queue') <= QueueDepth
           /\ \A i \in 1..Len(queue') : queue'[i] = IF i <= Len(queue) THEN queue[i] ELSE accepted'
           /\ order' \in Seq(Ids)
           /\ Len(order') = IF Len(order) = MaxHistory THEN MaxHistory ELSE Len(order) + 1
           /\ \A i \in 1..Len(order') :
                order'[i] = IF i < Len(order')
                            THEN order[i + Len(order) + 1 - Len(order')] ELSE accepted'
<1>1. accepted + 1 \in Ids /\ Len(queue) \in Nat /\ Len(order) \in Nat
  BY DEF TypeOK, Submit
<1>2. queue \in Seq(Ids) /\ order \in Seq(Ids) /\ Len(order) <= MaxHistory
  BY DEF TypeOK
<1>3. /\ queue' \in Seq(Ids) /\ Len(queue') = Len(queue) + 1
      /\ \A i \in 1..Len(queue') : queue'[i] = IF i <= Len(queue) THEN queue[i] ELSE accepted'
  BY <1>1, <1>2, AppendFacts DEF Submit
<1> DEFINE longer == Append(order, accepted + 1)
<1>4. /\ longer \in Seq(Ids) /\ Len(longer) = Len(order) + 1
      /\ \A i \in 1..Len(order) + 1 : longer[i] = IF i <= Len(order) THEN order[i] ELSE accepted + 1
  BY <1>1, <1>2, AppendFacts
<1>5. order' = Cut(longer) /\ accepted' = accepted + 1
  BY DEF Submit
<1> HIDE DEF longer
<1>6. /\ order' \in Seq(Ids)
      /\ Len(order') = IF Len(longer) > MaxHistory THEN Len(longer) - 1 ELSE Len(longer)
      /\ \A i \in 1..Len(order') : order'[i] = longer[i + Len(longer) - Len(order')]
  BY <1>4, <1>5, CutFacts
<1>7. Len(queue') <= QueueDepth
  <2>1. Len(queue) < QueueDepth
    BY DEF Submit
  <2>2. QED
    BY <1>1, <1>3, <2>1
<1>8. Len(order') = IF Len(order) = MaxHistory THEN MaxHistory ELSE Len(order) + 1
  BY <1>1, <1>2, <1>4, <1>6
<1>9. ASSUME NEW i \in 1..Len(order')
      PROVE  order'[i] = IF i < Len(order')
                         THEN order[i + Len(order) + 1 - Len(order')] ELSE accepted'
  <2> DEFINE j == i + Len(order) + 1 - Len(order')
  <2>0. i + Len(longer) - Len(order') = j
    BY <1>4
  <2>1. order'[i] = longer[j]
    BY <1>6, <2>0
  <2> DEFINE l == Len(order)
             m == Len(order')
  <2>a. l \in Nat /\ l <= MaxHistory /\ m = (IF l = MaxHistory THEN MaxHistory ELSE l + 1) /\ i \in 1..m
    BY <1>1, <1>2, <1>8
  <2>b. j = i + l + 1 - m
    OBVIOUS
  <2> HIDE DEF l, m, j
  <2>c. j \in 1..l + 1 /\ (j <= l <=> i < m)
    BY <2>a, <2>b
  <2>2. j \in 1..Len(order) + 1 /\ (j <= Len(order) <=> i < Len(order'))
    BY <2>c DEF l, m
  <2>3. longer[j] = IF j <= Len(order) THEN order[j] ELSE accepted + 1
    BY <1>4, <2>2
  <2>4. QED
    BY <1>5, <2>1, <2>2, <2>3 DEF j
<1>10. QED
  BY <1>1, <1>3, <1>5, <1>6, <1>7, <1>8, <1>9

\* The worker's receive, in the same terms.
LEMMA ReceiveFacts ==
    ASSUME TypeOK, Receive
    PROVE  /\ Len(queue) \in Nat \ {0}
           /\ hand' = queue[1] /\ hand' \in Ids
           /\ queue' \in Seq(Ids) /\ Len(queue') = Len(queue) - 1
           /\ \A i \in 1..Len(queue') : queue'[i] = queue[i + 1]
<1>1. queue \in Seq(Ids) /\ queue # <<>> /\ hand' = Head(queue) /\ queue' = Tail(queue)
  BY DEF TypeOK, Receive
<1>2. QED
  BY <1>1, TailFacts

\* One step keeps the queue and the history within their sizes.
LEMMA TypeStep == TypeOK /\ [Next]_vars => TypeOK'
<1> SUFFICES ASSUME TypeOK, [Next]_vars PROVE TypeOK'
  OBVIOUS
<1>1. ASSUME NEW wait \in BOOLEAN, Submit(wait) PROVE TypeOK'
  <2>1. Len(order') <= MaxHistory
    BY <1>1, SubmitFacts DEF TypeOK
  <2>2. accepted' \in 0..MaxDeploys /\ queue' \in Seq(Ids) /\ Len(queue') <= QueueDepth
        /\ order' \in Seq(Ids)
    BY <1>1, SubmitFacts
  <2>3. status' \in [Ids -> Statuses] /\ reply' \in [Ids -> Replies] /\ late' \subseteq Ids
        /\ hand' \in 0..MaxDeploys /\ server' \in {"up", "stopping", "down"}
    BY <1>1 DEF TypeOK, Submit
  <2>4. QED
    BY <2>1, <2>2, <2>3 DEF TypeOK
<1>2. CASE Receive
  <2>1. Len(queue') <= QueueDepth /\ queue' \in Seq(Ids) /\ hand' \in 0..MaxDeploys
    BY <1>2, ReceiveFacts DEF TypeOK
  <2>2. QED
    BY <1>2, <2>1 DEF TypeOK, Receive
<1>3. CASE Begin
  BY <1>3 DEF TypeOK, Begin
<1>4. ASSUME NEW s \in Terminal, End(s) PROVE TypeOK'
  BY <1>4 DEF TypeOK, End
<1>5. ASSUME NEW id \in Ids, Deadline(id) \/ Answer(id) PROVE TypeOK'
  BY <1>5 DEF TypeOK, Deadline, Answer, Found
<1>6. CASE Signal
  BY <1>6 DEF TypeOK, Signal
<1>7. CASE Exit
  BY <1>7 DEF TypeOK, Exit
<1>8. CASE UNCHANGED vars
  BY <1>8 DEF TypeOK, vars
<1>9. QED
  BY <1>1, <1>2, <1>3, <1>4, <1>5, <1>6, <1>7, <1>8 DEF Next

\* No sequence of submissions, deploys and waits takes the queue or the
\* history beyond its size.
THEOREM TypeCorrect == Spec => []TypeOK
<1>1. Init => TypeOK
  BY DEF Init, TypeOK
<1>2. QED
  BY <1>1, TypeStep, PTL DEF Spec

\* Where the history outlasts a full queue and the worker's hand, all of them
\* are retained.
LEMMA TakenRetained ==
    ASSUME QueueInv, MaxHistory > QueueDepth,
           NEW id \in Ids, id <= accepted, id >= Taken
    PROVE  id \in Retained
<1>1. Len(order) \in Nat /\ Len(queue) \in Nat /\ accepted \in Nat /\ Len(queue) <= QueueDepth
  BY DEF QueueInv, TypeOK
<1>2. Len(order) = accepted \/ Len(order) = MaxHistory
  BY <1>1 DEF QueueInv, Numbered
<1>3. id - (accepted - Len(order)) \in 1..Len(order)
  BY <1>1, <1>2 DEF QueueInv, Numbered, Taken
<1>4. order[id - (accepted - Len(order))] = id
  BY <1>1, <1>3 DEF QueueInv, Numbered
<1>5. QED
  BY <1>3, <1>4 DEF Retained

\* The numbering is kept by whatever neither submits nor takes.
LEMMA NumberedStill ==
    ASSUME Numbered, UNCHANGED <<accepted, queue, order>>, hand' \in {hand, 0}
    PROVE  Numbered' /\ Taken' = Taken
BY DEF Numbered, Taken

\* A step of the server keeps the queue invariant.
LEMMA QueueStep ==
    ASSUME QueueInv, [Next]_vars, MaxHistory > QueueDepth
    PROVE  QueueInv'
<1> SUFFICES Numbered' /\ Progressed'
  BY TypeStep DEF QueueInv
<1>0. TypeOK' /\ TypeOK
  BY TypeStep DEF QueueInv
<1>t. accepted \in Nat /\ Len(queue) \in Nat /\ Len(order) \in Nat /\ hand \in Nat
  BY <1>0 DEF TypeOK
<1>n. Numbered /\ Progressed /\ Taken \in Nat
  BY <1>t DEF QueueInv, Numbered, Taken
<1>1. ASSUME NEW wait \in BOOLEAN, Submit(wait) PROVE Numbered' /\ Progressed'
  <2>1. /\ accepted' = accepted + 1 /\ accepted' \in Ids
        /\ Len(queue') = Len(queue) + 1
        /\ Len(order') = IF Len(order) = MaxHistory THEN MaxHistory ELSE Len(order) + 1
    BY <1>0, <1>1, SubmitFacts
  <2>2. hand' = hand /\ status' = [status EXCEPT ![accepted'] = "queued"]
    BY <1>1 DEF Submit
  <2>3. Taken' = Taken
    BY <1>t, <2>1 DEF Taken
  <2>4. ASSUME NEW i \in 1..Len(queue') PROVE queue'[i] = Taken + i
    <3>1. queue'[i] = IF i <= Len(queue) THEN queue[i] ELSE accepted'
      BY <1>0, <1>1, SubmitFacts
    <3>2. i <= Len(queue) => queue[i] = Taken + i
      BY <1>n, <1>t, <2>1 DEF Numbered
    <3>3. QED
      BY <1>t, <2>1, <3>1, <3>2 DEF Taken
  <2>5. ASSUME NEW i \in 1..Len(order') PROVE order'[i] = accepted' - Len(order') + i
    <3> DEFINE j == i + Len(order) + 1 - Len(order')
    <3>1. order'[i] = IF i < Len(order') THEN order[j] ELSE accepted'
      BY <1>0, <1>1, SubmitFacts
    <3>2. i < Len(order') => j \in 1..Len(order)
      BY <1>t, <2>1
    <3>3. i < Len(order') => order[j] = accepted - Len(order) + j
      BY <1>n, <3>2 DEF Numbered
    <3>4. j = i + Len(order) + 1 - Len(order') /\ Len(order') \in Nat /\ i \in Nat /\ i <= Len(order')
      BY <1>t, <2>1
    <3> HIDE DEF j
    <3>5. CASE i < Len(order')
      <4>1. accepted - Len(order) + j = accepted' - Len(order') + i
        BY <1>t, <2>1, <3>4
      <4>2. order'[i] = accepted - Len(order) + j
        BY <3>1, <3>3, <3>5
      <4>3. QED
        BY <4>1, <4>2
    <3>6. CASE ~(i < Len(order'))
      <4>1. i = Len(order') /\ order'[i] = accepted'
        BY <3>1, <3>4, <3>6
      <4>2. QED
        BY <2>1, <3>4, <4>1
    <3>7. QED
      BY <3>5, <3>6
  <2>6. Numbered'
    <3>1. Len(queue') <= accepted' /\ Len(order') <= accepted'
      BY <1>n, <1>t, <2>1 DEF Numbered
    <3>2. Len(order') < accepted' => Len(order') = MaxHistory
      BY <1>n, <1>t, <2>1 DEF Numbered
    <3>3. hand' # 0 => hand' = Taken'
      BY <1>n, <2>2, <2>3 DEF Numbered
    <3>4. QED
      BY <2>3, <2>4, <2>5, <3>1, <3>2, <3>3 DEF Numbered
  <2>7. Progressed'
    <3>1. Taken <= accepted
      BY <1>n, <1>t DEF Taken
    <3>2. \A id \in Ids : status'[id] = IF id = accepted' THEN "queued" ELSE status[id]
      BY <1>0, <2>1, <2>2 DEF TypeOK
    <3>3. Taken > 0 => Taken \in Ids
      BY <1>0, <1>n, <3>1 DEF TypeOK
    <3>4. hand # 0 => hand = Taken /\ hand \in Ids
      BY <1>0, <1>n DEF Numbered, TypeOK
    <3>5. QED
      BY <1>n, <1>t, <2>1, <2>2, <2>3, <3>1, <3>2, <3>3, <3>4 DEF Progressed
  <2>8. QED
    BY <2>6, <2>7
<1>2. CASE Receive
  <2>1. hand = 0 /\ UNCHANGED <<accepted, order, status>>
    BY <1>2 DEF Receive
  <2>2. /\ Len(queue) \in Nat \ {0} /\ Len(queue') = Len(queue) - 1
        /\ hand' = queue[1] /\ hand' \in Ids
    BY <1>0, <1>2, ReceiveFacts
  <2>3. Taken' = Taken + 1 /\ hand' = Taken'
    BY <1>n, <1>t, <2>1, <2>2 DEF Taken, Numbered
  <2>4. ASSUME NEW i \in 1..Len(queue') PROVE queue'[i] = Taken' + i
    <3>1. queue'[i] = queue[i + 1]
      BY <1>0, <1>2, ReceiveFacts
    <3>2. queue[i + 1] = Taken + (i + 1)
      BY <1>n, <1>t, <2>2 DEF Numbered
    <3>3. QED
      BY <1>n, <2>3, <3>1, <3>2
  <2>5. Numbered'
    BY <1>n, <1>t, <2>1, <2>2, <2>3, <2>4 DEF Numbered
  <2>6. Taken' <= accepted
    BY <1>n, <1>t, <2>2, <2>3 DEF Taken
  <2>7. status[Taken'] = "queued"
    BY <1>n, <2>2, <2>3, <2>6 DEF Progressed
  <2>8. ASSUME NEW id \in Ids, id < Taken' PROVE status[id] \in Terminal
    BY <1>n, <2>1, <2>3, <2>8 DEF Progressed
  <2>9. QED
    BY <1>n, <2>1, <2>2, <2>3, <2>5, <2>7, <2>8 DEF Progressed
<1>3. CASE Begin
  <2>1. hand \in Ids /\ hand = Taken /\ Taken <= accepted /\ Taken \in Nat
    BY <1>t, <1>0, <1>3 DEF Begin, QueueInv, Numbered, Taken, TypeOK
  <2>2. hand \in Retained
    BY <1>t, <2>1, TakenRetained
  <2>3. status' = [status EXCEPT ![hand] = "running"] /\ hand' = hand
    BY <1>3, <2>2 DEF Begin
  <2>4. Numbered' /\ Taken' = Taken
    BY <1>3, <2>3, NumberedStill DEF Begin, QueueInv
  <2>5. QED
    BY <1>0, <1>3, <2>1, <2>3, <2>4 DEF QueueInv, Progressed, TypeOK, Begin
<1>4. ASSUME NEW s \in Terminal, End(s) PROVE Numbered' /\ Progressed'
  <2>1. hand \in Ids /\ hand = Taken /\ Taken <= accepted /\ Taken \in Nat
    BY <1>t, <1>0, <1>4 DEF End, QueueInv, Numbered, Taken, TypeOK
  <2>2. Numbered' /\ Taken' = Taken
    BY <1>4, NumberedStill DEF End, QueueInv
  <2>3. QED
    BY <1>0, <1>4, <2>1, <2>2 DEF QueueInv, Progressed, TypeOK, End
<1>5. ASSUME UNCHANGED <<accepted, queue, order, hand, status>> PROVE Numbered' /\ Progressed'
  BY <1>5, NumberedStill DEF QueueInv, Progressed
<1>6. ASSUME NEW id \in Ids, Deadline(id) \/ Answer(id) PROVE Numbered' /\ Progressed'
  BY <1>5, <1>6 DEF Deadline, Answer
<1>7. CASE Signal \/ Exit \/ UNCHANGED vars
  BY <1>5, <1>7 DEF Signal, Exit, vars
<1>8. QED
  BY <1>1, <1>2, <1>3, <1>4, <1>6, <1>7 DEF Next

\* The queue and the history number the submissions in every state.
LEMMA QueueInvariant ==
    ASSUME MaxHistory > QueueDepth
    PROVE  Spec => []QueueInv
<1>1. Init => QueueInv
  BY DEF Init, QueueInv, TypeOK, Numbered, Progressed, Taken
<1>2. QueueInv /\ [Next]_vars => QueueInv'
  BY QueueStep
<1>3. QED
  BY <1>1, <1>2, PTL DEF Spec

\* What has not ended is still in the history.
LEMMA RetainsUnfinished ==
    ASSUME QueueInv, MaxHistory > QueueDepth
    PROVE  UnfinishedRetained
<1> SUFFICES ASSUME NEW id \in Ids, Unfinished(id) PROVE id \in Retained
  BY DEF UnfinishedRetained
<1>1. accepted \in Nat /\ Len(queue) \in Nat /\ Taken \in Int
  BY DEF QueueInv, TypeOK, Taken
<1>2. id <= accepted /\ id >= Taken
  BY <1>1 DEF Unfinished, QueueInv, Progressed
<1>3. QED
  BY <1>2, TakenRetained

\* With a history longer than the queue, a deploy that has not ended keeps its
\* record whatever is submitted behind it.
THEOREM UnfinishedKept ==
    ASSUME MaxHistory > QueueDepth
    PROVE  Spec => []UnfinishedRetained
<1>1. QueueInv => UnfinishedRetained
  BY RetainsUnfinished
<1>2. QED
  BY <1>1, QueueInvariant, PTL

\* ... and the deploys end in the order they were accepted.
THEOREM RunInOrder ==
    ASSUME MaxHistory > QueueDepth
    PROVE  Spec => []InOrder
<1>1. QueueInv => InOrder
  <2> SUFFICES ASSUME QueueInv, NEW id \in Ids, NEW earlier \in Ids, earlier < id,
                      status[id] \in {"running"} \cup Terminal
               PROVE  status[earlier] \in Terminal
    BY DEF InOrder
  <2>1. accepted \in Nat /\ Taken \in Int
    BY DEF QueueInv, TypeOK, Taken
  <2>2. id <= Taken
    BY <2>1 DEF QueueInv, Progressed
  <2>3. QED
    BY <2>1, <2>2 DEF QueueInv, Progressed
<1>2. QED
  BY <1>1, QueueInvariant, PTL

\* A record that is gone was cut behind MaxHistory newer ones.
LEMMA CutIsOld ==
    ASSUME QueueInv, NEW id \in Ids, id <= accepted, id \notin Retained
    PROVE  accepted >= id + MaxHistory
<1> DEFINE l == Len(order)
           i == id - accepted + l
<1>1. accepted \in Nat /\ l \in Nat /\ id \in Nat \ {0}
  BY DEF QueueInv, TypeOK
<1>2. /\ l < accepted => l = MaxHistory
      /\ \A j \in 1..l : order[j] = accepted - l + j
  BY DEF QueueInv, Numbered
<1>3. ASSUME i \in 1..l PROVE FALSE
  <2>1. order[i] = id
    BY <1>1, <1>2, <1>3
  <2>2. QED
    BY <1>3, <2>1 DEF Retained
<1> HIDE DEF l
<1>4. id <= accepted - l
  BY <1>1, <1>3
<1>5. QED
  BY <1>1, <1>2, <1>4

\* A caller waits, or has been answered, only for a deploy that was accepted.
Answered ==
    \A id \in Ids : reply[id] # "no" => id <= accepted

\* With a history longer than the queue, a caller that waited is told how its
\* deploy ended; or nothing, of a deploy that has ended, pushed out of the history
\* by MaxHistory later ones; or, past its deadline only, that it has not ended.
THEOREM WaitersTold ==
    ASSUME MaxHistory > QueueDepth
    PROVE  Spec => []WaitersAreTold
<1> DEFINE Inv == Answered /\ WaitersAreTold
<1>1. Init => Inv
  BY DEF Init, Answered, WaitersAreTold
<1>2. QueueInv /\ Inv /\ [Next]_vars => Inv'
  <2> SUFFICES ASSUME QueueInv, Inv, [Next]_vars PROVE Inv'
    OBVIOUS
  <2>0. TypeOK /\ accepted \in Nat /\ MaxHistory \in Nat
    BY DEF QueueInv, TypeOK
  <2>1. ASSUME NEW wait \in BOOLEAN, Submit(wait) PROVE Inv'
    <3>1. /\ accepted' = accepted + 1 /\ accepted' \in Ids
          /\ status' = [status EXCEPT ![accepted'] = "queued"]
          /\ reply' = [reply EXCEPT ![accepted'] = IF wait THEN "waiting" ELSE "no"]
          /\ late' = late
      BY <2>0, <2>1, SubmitFacts DEF Submit
    <3>2. \A id \in Ids \ {accepted'} : status'[id] = status[id] /\ reply'[id] = reply[id]
      BY <2>0, <3>1 DEF TypeOK
    <3>3. reply'[accepted'] \in {"no", "waiting"}
      BY <2>0, <3>1 DEF TypeOK
    <3>4. QED
      BY <2>0, <3>1, <3>2, <3>3 DEF Answered, WaitersAreTold
  <2>2. CASE Receive
    BY <2>2 DEF Receive, Answered, WaitersAreTold
  <2>3. ASSUME Begin \/ \E s \in Terminal : End(s) PROVE Inv'
    <3>1. UNCHANGED <<accepted, reply, late>>
      BY <2>3 DEF Begin, End
    <3>2. \A id \in Ids : status[id] \in Terminal => status'[id] = status[id]
      BY <2>0, <2>3 DEF Begin, End, TypeOK
    <3>3. QED
      BY <3>1, <3>2 DEF Answered, WaitersAreTold
  <2>4. ASSUME NEW id \in Ids, Deadline(id) PROVE Inv'
    BY <2>4 DEF Deadline, Answered, WaitersAreTold
  <2>5. ASSUME NEW id \in Ids, Answer(id) PROVE Inv'
    <3>1. /\ reply[id] = "waiting" /\ UNCHANGED <<accepted, status, late>>
          /\ reply' = [reply EXCEPT ![id] = Found(id)]
          /\ Found(id) \in Terminal \cup {"nothing"} \/ id \in late
      BY <2>5 DEF Answer
    <3>2. reply'[id] = Found(id) /\ \A other \in Ids \ {id} : reply'[other] = reply[other]
      BY <2>0, <3>1 DEF TypeOK
    <3>3. id <= accepted
      BY <3>1 DEF Answered
    <3>4. CASE id \in Retained
      <4>1. Found(id) = status[id] /\ status[id] \in Statuses
        BY <2>0, <3>4 DEF Found, TypeOK
      <4>2. QED
        BY <3>1, <3>2, <3>3, <4>1 DEF Answered, WaitersAreTold
    <3>5. CASE id \notin Retained
      <4>1. Found(id) = "nothing" /\ accepted >= id + MaxHistory
        BY <3>3, <3>5, CutIsOld DEF Found
      <4>2. ~Unfinished(id)
        BY <3>5, RetainsUnfinished DEF UnfinishedRetained
      <4>3. status[id] \in Statuses /\ status[id] # "none"
        BY <2>0, <3>3, <4>1 DEF QueueInv, TypeOK, Progressed, Taken
      <4>4. status[id] \in Terminal
        BY <4>2, <4>3 DEF Unfinished
      <4>5. QED
        BY <3>1, <3>2, <3>3, <4>1, <4>4 DEF Answered, WaitersAreTold
    <3>6. QED
      BY <3>4, <3>5
  <2>6. CASE Signal \/ Exit \/ UNCHANGED vars
    BY <2>6 DEF Signal, Exit, vars, Answered, WaitersAreTold
  <2>7. QED
    BY <2>1, <2>2, <2>3, <2>4, <2>5, <2>6 DEF Next
<1>3. Inv => WaitersAreTold
  OBVIOUS
<1>4. QED
  BY <1>1, <1>2, <1>3, QueueInvariant, PTL DEF Spec
=============================================================================
