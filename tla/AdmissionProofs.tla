--------------------------- MODULE AdmissionProofs ---------------------------
(***************************************************************************)
(* Theorems about Admission, for any certificates, policy, mode, lists,    *)
(* number of goroutines and bounds, with stamps that tell versions apart.  *)
(***************************************************************************)
EXTENDS Admission, TLAPS

USE AdmissionAssumption DEF vars, file, Everyone, Now

-----------------------------------------------------------------------------
(* Types, and where each goroutine can be.                                 *)

Files == [kind : Kinds, lists : SUBSET Certs]

TaskTypes == [at : Places, peer : Peers \cup {NoRole},
              what : {"none", "boot", "handshake", "request"},
              stamp : Nat, of : 0 .. Now]

\* Tasks run only while the listener is up, Main only before; nothing is looked
\* up where the list is not wanted; and whoever is past authorization has it.
Stages ==
    /\ up => task[Main].at = "idle"
    /\ ~up => \A t \in Tasks : task[t].at = "idle"
    /\ task[Main].at \in {"idle", "restat", "read", "store", "refused"}
    /\ Mode = "false" =>
         \A t \in Everyone : task[t].at \in {"idle", "served", "refused"}
    /\ \A t \in Tasks :
          /\ task[t].at # "idle" => task[t].peer \in Peers
          /\ task[t].at \in Working \cup {"served"} => Authorized(task[t].peer)
    /\ \A p \in open : Authorized(p)

TypeInv == TypeOK /\ Stages

\* A step of one goroutine t inside its check, to the state w.
Moves(t, w) ==
    /\ UNCHANGED <<crl, restarts, up, cache, begun, amid>>
    /\ task[t].at \in Working
    /\ w \in TaskTypes /\ w.peer = task[t].peer
    /\ w.at \in (Working \ {"stat"}) \cup {"served", "refused"}
    /\ t = Main => w.at \in {"read", "store", "refused"}
    /\ task' = [task EXCEPT ![t] = w]
    /\ open' = open \/ (w.at = "served" /\ open' = open \cup {w.peer})

LEMMA IdleType == Idle \in TaskTypes
  BY DEF Idle, TaskTypes, Places, TypeOK

LEMMA InitType == Init => TypeInv
<1>1. SUFFICES ASSUME Init PROVE TypeInv
  OBVIOUS
<1>2. \A l \in Lists : <<[kind |-> "whole", lists |-> l]>> \in Seq(Files)
  BY DEF Files, Kinds
<1>3. crl \in Seq(Files) /\ Len(crl) = 1
  BY <1>1, <1>2 DEF Init
<1>4. task \in [Everyone -> TaskTypes]
  BY <1>1, <1>3 DEF Init, Idle, TaskTypes, Places
<1>5. TypeOK
  <2>1. cache \in [stamp : Nat, of : 0 .. Len(crl)]
    BY <1>1, <1>3 DEF Init
  <2>2. begun \in [Everyone -> 0 .. Len(crl)] /\ amid \in [Everyone -> SUBSET (0 .. Len(crl))]
    BY <1>1, <1>3 DEF Init
  <2>3. Len(crl) \in 1 .. MaxVersions /\ restarts \in 0 .. MaxRestarts
    BY <1>1, <1>3 DEF Init
  <2>4. up \in BOOLEAN /\ open \subseteq Peers
    BY <1>1 DEF Init
  <2>5. QED
    BY <1>3, <1>4, <2>1, <2>2, <2>3, <2>4 DEF TypeOK, TaskTypes, Files
<1>6. Stages
  BY <1>1 DEF Init, Stages, Idle, Working
<1>7. QED
  BY <1>5, <1>6 DEF TypeInv

LEMMA MoveType ==
    ASSUME TypeInv, NEW t \in Everyone, NEW w, Moves(t, w) PROVE TypeInv'
<1>1. /\ task \in [Everyone -> TaskTypes] /\ task' \in [Everyone -> TaskTypes]
      /\ task'[t] = w /\ \A q \in Everyone \ {t} : task'[q] = task[q]
  BY DEF Moves, TypeInv, TypeOK, TaskTypes
<1>2. w.at = "served" => t \in Tasks /\ w.peer \in Peers
  BY DEF Moves, TypeInv, Stages, Working, Places
<1>3. TypeOK'
  BY <1>1, <1>2 DEF Moves, TypeInv, TypeOK, TaskTypes
<1>4. Mode # "false" /\ (t = Main => ~up) /\ (t # Main => up)
  BY DEF Moves, TypeInv, Stages, Working
<1>5. t \in Tasks => Authorized(w.peer) /\ w.peer \in Peers
  BY DEF Moves, TypeInv, Stages, Working
<1>6. Stages'
  <2>1. up' = up /\ Authorized(w.peer)' = Authorized(w.peer)
    BY DEF Moves, Authorized
  <2>2. up' => task'[Main].at = "idle"
    BY <1>1, <1>4 DEF Moves, TypeInv, Stages
  <2>3. ~up' => \A q \in Tasks : task'[q].at = "idle"
    BY <1>1, <1>4 DEF Moves, TypeInv, Stages
  <2>4. task'[Main].at \in {"idle", "restat", "read", "store", "refused"}
    BY <1>1 DEF Moves, TypeInv, Stages
  <2>5. \A q \in Tasks :
          /\ task'[q].at # "idle" => task'[q].peer \in Peers
          /\ task'[q].at \in Working \cup {"served"} => Authorized(task'[q].peer)
    BY <1>1, <1>5 DEF TypeInv, Stages
  <2>6. \A p \in open' : Authorized(p)
    BY <1>2, <1>5 DEF Moves, TypeInv, Stages
  <2>7. QED
    BY <1>4, <2>2, <2>3, <2>4, <2>5, <2>6 DEF Stages
<1>7. QED
  BY <1>3, <1>6 DEF TypeInv

\* What beginning and ending do to the goroutines and their history.
LEMMA BeginType ==
    ASSUME TypeInv, NEW t \in Everyone, NEW p \in Peers \cup {NoRole},
           NEW what \in {"boot", "handshake", "request"}, NEW place \in Places,
           Begin(t, p, what, place), crl' = crl
    PROVE /\ task' \in [Everyone -> TaskTypes]
          /\ begun' \in [Everyone -> 0 .. Now]
          /\ amid' \in [Everyone -> SUBSET (0 .. Now)]
          /\ task'[t].at = place /\ task'[t].peer = p
          /\ \A q \in Everyone \ {t} : task'[q] = task[q]
<1> DEFINE w == [at |-> place, peer |-> p, what |-> what, stamp |-> 0, of |-> 0]
<1>1. task \in [Everyone -> TaskTypes] /\ begun \in [Everyone -> 0 .. Now]
      /\ amid \in [Everyone -> SUBSET (0 .. Now)] /\ Now \in Nat
  BY DEF TypeInv, TypeOK, TaskTypes
<1>2. w \in TaskTypes /\ w.at = place /\ w.peer = p
  BY DEF Idle, TaskTypes, TypeInv, TypeOK
<1>3. {Now} \cup {begun[q] : q \in InFlight} \in SUBSET (0 .. Now)
  BY <1>1 DEF InFlight
<1>4. QED
  BY <1>1, <1>2, <1>3 DEF Begin

LEMMA ForgetType ==
    ASSUME TypeInv, NEW S, Forget(S), crl' = crl
    PROVE /\ begun' \in [Everyone -> 0 .. Now]
          /\ amid' \in [Everyone -> SUBSET (0 .. Now)]
  BY DEF Forget, TypeInv, TypeOK

LEMMA StatMoves ==
    ASSUME TypeInv, NEW t \in Everyone, Stat(t) PROVE \E w : Moves(t, w)
<1> DEFINE w == IF crl[Now].kind = "gone" THEN [task[t] EXCEPT !.at = "refused"]
            ELSE [task[t] EXCEPT !.at = "compare", !.stamp = StampOf[Now]]
<1>1. task[t] \in TaskTypes /\ task[t].at \in Working
  BY DEF Stat, TypeInv, TypeOK, TaskTypes, Working, Places
<1>2. w \in TaskTypes /\ w.peer = task[t].peer
  <2>1. [task[t] EXCEPT !.at = "refused"] \in TaskTypes
    BY <1>1 DEF TaskTypes, Places
  <2>2. Now \in 1 .. MaxVersions /\ StampOf[Now] \in Nat /\ Now \in 0 .. Now
    BY DEF TypeInv, TypeOK
  <2>3. [task[t] EXCEPT !.at = "compare", !.stamp = StampOf[Now]] \in TaskTypes
    BY <1>1, <2>2 DEF TaskTypes, Places
  <2>4. w.peer = task[t].peer
    BY <1>1 DEF TaskTypes
  <2>5. QED
    BY <2>1, <2>3, <2>4
<1>3. /\ w.at \in (Working \ {"stat"}) \cup {"served", "refused"}
      /\ t = Main => w.at \in {"read", "store", "refused"}
  BY <1>1 DEF Stat, TypeInv, Stages, Working, Places, TaskTypes
<1>4. task' = [task EXCEPT ![t] = w]
  BY <1>1 DEF Stat, Verdict, Goto, TypeInv, TypeOK, TaskTypes
<1>5. open' = open \/ (w.at = "served" /\ open' = open \cup {w.peer})
  BY <1>1, <1>2 DEF Stat, Verdict, Goto, TaskTypes
<1>6. QED
  BY <1>1, <1>2, <1>3, <1>4, <1>5 DEF Moves, Stat, Inside

LEMMA CompareMoves ==
    ASSUME TypeInv, NEW t \in Everyone, Compare(t) PROVE \E w : Moves(t, w)
<1> DEFINE w == [task[t] EXCEPT !.at = IF task[t].stamp = cache.stamp
                                 THEN "lookup" ELSE "restat"]
<1>1. task[t] \in TaskTypes /\ task[t].at \in Working
  BY DEF Compare, TypeInv, TypeOK, TaskTypes, Working, Places
<1>2. w \in TaskTypes /\ w.peer = task[t].peer
  BY <1>1 DEF TaskTypes, TypeInv, TypeOK, Places
<1>3. /\ w.at \in (Working \ {"stat"}) \cup {"served", "refused"}
      /\ t = Main => w.at \in {"read", "store", "refused"}
  BY <1>1 DEF Compare, TypeInv, Stages, Working, Places, TaskTypes
<1>4. task' = [task EXCEPT ![t] = w]
  BY <1>1 DEF Compare, Goto, TypeInv, TypeOK, TaskTypes
<1>5. open' = open \/ (w.at = "served" /\ open' = open \cup {w.peer})
  BY <1>1, <1>2 DEF Compare, Goto, TaskTypes
<1>6. QED
  BY <1>1, <1>2, <1>3, <1>4, <1>5 DEF Moves, Compare, Inside

LEMMA RestatMoves ==
    ASSUME TypeInv, NEW t \in Everyone, Restat(t) PROVE \E w : Moves(t, w)
<1> DEFINE w == IF crl[Now].kind = "gone" THEN [task[t] EXCEPT !.at = "refused"]
            ELSE [task[t] EXCEPT !.at = "read", !.stamp = StampOf[Now]]
<1>1. task[t] \in TaskTypes /\ task[t].at \in Working
  BY DEF Restat, TypeInv, TypeOK, TaskTypes, Working, Places
<1>2. w \in TaskTypes /\ w.peer = task[t].peer
  <2>1. [task[t] EXCEPT !.at = "refused"] \in TaskTypes
    BY <1>1 DEF TaskTypes, Places
  <2>2. Now \in 1 .. MaxVersions /\ StampOf[Now] \in Nat
    BY DEF TypeInv, TypeOK
  <2>3. [task[t] EXCEPT !.at = "read", !.stamp = StampOf[Now]] \in TaskTypes
    BY <1>1, <2>2 DEF TaskTypes, Places
  <2>4. w.peer = task[t].peer
    BY <1>1 DEF TaskTypes
  <2>5. QED
    BY <2>1, <2>3, <2>4
<1>3. /\ w.at \in (Working \ {"stat"}) \cup {"served", "refused"}
      /\ t = Main => w.at \in {"read", "store", "refused"}
  BY <1>1 DEF Restat, TypeInv, Stages, Working, Places, TaskTypes
<1>4. task' = [task EXCEPT ![t] = w]
  BY <1>1 DEF Restat, Verdict, Goto, TypeInv, TypeOK, TaskTypes
<1>5. open' = open \/ (w.at = "served" /\ open' = open \cup {w.peer})
  BY <1>1, <1>2 DEF Restat, Verdict, Goto, TaskTypes
<1>6. QED
  BY <1>1, <1>2, <1>3, <1>4, <1>5 DEF Moves, Restat, Inside

LEMMA ReadMoves ==
    ASSUME TypeInv, NEW t \in Everyone, Read(t) PROVE \E w : Moves(t, w)
<1> DEFINE w == IF crl[Now].kind \in Unusable THEN [task[t] EXCEPT !.at = "refused"]
            ELSE [task[t] EXCEPT !.at = "store", !.of = Now]
<1>1. task[t] \in TaskTypes /\ task[t].at \in Working
  BY DEF Read, TypeInv, TypeOK, TaskTypes, Working, Places
<1>2. w \in TaskTypes /\ w.peer = task[t].peer
  <2>1. [task[t] EXCEPT !.at = "refused"] \in TaskTypes
    BY <1>1 DEF TaskTypes, Places
  <2>2. Now \in 1 .. MaxVersions /\ StampOf[Now] \in Nat /\ Now \in 0 .. Now
    BY DEF TypeInv, TypeOK
  <2>3. [task[t] EXCEPT !.at = "store", !.of = Now] \in TaskTypes
    BY <1>1, <2>2 DEF TaskTypes, Places
  <2>4. w.peer = task[t].peer
    BY <1>1 DEF TaskTypes
  <2>5. QED
    BY <2>1, <2>3, <2>4
<1>3. /\ w.at \in (Working \ {"stat"}) \cup {"served", "refused"}
      /\ t = Main => w.at \in {"read", "store", "refused"}
  BY <1>1 DEF Read, TypeInv, Stages, Working, Places, TaskTypes
<1>4. task' = [task EXCEPT ![t] = w]
  BY <1>1 DEF Read, Verdict, Goto, TypeInv, TypeOK, TaskTypes
<1>5. open' = open \/ (w.at = "served" /\ open' = open \cup {w.peer})
  BY <1>1, <1>2 DEF Read, Verdict, Goto, TaskTypes
<1>6. QED
  BY <1>1, <1>2, <1>3, <1>4, <1>5 DEF Moves, Read, Inside

LEMMA LookupMoves ==
    ASSUME TypeInv, NEW t \in Everyone, Lookup(t) PROVE \E w : Moves(t, w)
<1> DEFINE w == [task[t] EXCEPT !.at = IF Clear(task[t].peer, cache.of)
                                 THEN "served" ELSE "refused"]
<1>1. task[t] \in TaskTypes /\ task[t].at \in Working
  BY DEF Lookup, TypeInv, TypeOK, TaskTypes, Working, Places
<1>2. w \in TaskTypes /\ w.peer = task[t].peer
  BY <1>1 DEF TaskTypes, TypeInv, TypeOK, Places
<1>3. /\ w.at \in (Working \ {"stat"}) \cup {"served", "refused"}
      /\ t = Main => w.at \in {"read", "store", "refused"}
  BY <1>1 DEF Lookup, TypeInv, Stages, Working, Places, TaskTypes
<1>4. task' = [task EXCEPT ![t] = w]
  BY <1>1 DEF Lookup, Verdict, Goto, TypeInv, TypeOK, TaskTypes
<1>5. open' = open \/ (w.at = "served" /\ open' = open \cup {w.peer})
  BY <1>1, <1>2 DEF Lookup, Verdict, Goto, TaskTypes
<1>6. QED
  BY <1>1, <1>2, <1>3, <1>4, <1>5 DEF Moves, Lookup, Inside

LEMMA NextType == TypeInv /\ [Next]_vars => TypeInv'
<1>1. SUFFICES ASSUME TypeInv, [Next]_vars PROVE TypeInv'
  OBVIOUS
<1> USE <1>1
<1>2. CASE UNCHANGED vars
  BY <1>2 DEF TypeInv, TypeOK, Stages, Working
<1>3. CASE Install
  <2>1. PICK k \in Kinds, l \in Lists :
          crl' = Append(crl, [kind |-> k, lists |-> IF k = "whole" THEN l ELSE {}])
    BY <1>3 DEF Install
  <2>2. crl \in Seq(Files) /\ [kind |-> k, lists |-> IF k = "whole" THEN l ELSE {}] \in Files
    BY DEF TypeInv, TypeOK, Files
  <2>3. crl' \in Seq(Files) /\ Len(crl') = Len(crl) + 1
    BY <2>1, <2>2
  <2>4. TypeOK'
    BY <1>3, <2>3 DEF Install, TypeInv, TypeOK, Files
  <2>5. Stages'
    BY <1>3 DEF Install, TypeInv, Stages
  <2>6. QED
    BY <2>4, <2>5 DEF TypeInv
<1>4. CASE Boot
  <2>1. /\ task' \in [Everyone -> TaskTypes]
        /\ begun' \in [Everyone -> 0 .. Now]
        /\ amid' \in [Everyone -> SUBSET (0 .. Now)]
        /\ task'[Main].at \in {"idle", "restat"}
        /\ \A q \in Tasks : task'[q] = task[q]
    <3>1. CASE Mode = "false"
      BY <1>4, <3>1 DEF Boot, TypeInv, TypeOK, TaskTypes
    <3>2. CASE Mode # "false"
      <4>1. Begin(Main, NoRole, "boot", "restat") /\ crl' = crl
        BY <1>4, <3>2 DEF Boot
      <4>2. "restat" \in Places
        BY DEF Places
      <4>3. QED
        BY <4>1, <4>2, BeginType
    <3>3. QED
      BY <3>1, <3>2
  <2>2. TypeOK'
    BY <1>4, <2>1 DEF Boot, TypeInv, TypeOK, TaskTypes
  <2>3. Mode = "false" => task'[Main].at = "idle"
    BY <1>4 DEF Boot
  <2>4. (up' => task'[Main].at = "idle") /\ open' = open /\ ~up
    BY <1>4, <2>1 DEF Boot
  <2>5. Stages'
    BY <2>1, <2>3, <2>4 DEF TypeInv, Stages
  <2>6. QED
    BY <2>2, <2>5 DEF TypeInv
<1>5. CASE Restart
  <2>1. task' \in [Everyone -> TaskTypes] /\ crl' = crl
    BY <1>5, IdleType DEF Restart
  <2>2. begun' \in [Everyone -> 0 .. Now] /\ amid' \in [Everyone -> SUBSET (0 .. Now)]
    BY <1>5, <2>1, ForgetType DEF Restart
  <2>3. cache' \in [stamp : Nat, of : 0 .. Now] /\ up' \in BOOLEAN /\ open' \subseteq Peers
    <3>1. Now \in Nat /\ 0 \in 0 .. Now
      BY DEF TypeInv, TypeOK
    <3>2. cache' = [stamp |-> 0, of |-> 0] /\ up' = FALSE /\ open' = {}
      BY <1>5 DEF Restart
    <3>3. QED
      BY <3>1, <3>2
  <2>4. restarts' \in 0 .. MaxRestarts
    BY <1>5 DEF Restart, TypeInv, TypeOK
  <2>5. TypeOK'
    BY <2>1, <2>2, <2>3, <2>4 DEF TypeInv, TypeOK, TaskTypes
  <2>6. Stages'
    BY <1>5 DEF Restart, Stages, Idle, Working
  <2>7. QED
    BY <2>5, <2>6 DEF TypeInv
<1>6. ASSUME NEW p \in Peers, Close(p) PROVE TypeInv'
  BY <1>6 DEF Close, TypeInv, TypeOK, Stages
<1>7. ASSUME NEW t \in Tasks, NEW p \in Peers, Handshake(t, p) PROVE TypeInv'
  <2>1. PICK place \in {"stat", "served", "refused"} :
          /\ Begin(t, p, "handshake", place)
          /\ Mode = "false" => place # "stat"
          /\ place # "refused" => Authorized(p)
    BY <1>7 DEF Handshake, Entry
  <2>2. /\ task' \in [Everyone -> TaskTypes]
        /\ begun' \in [Everyone -> 0 .. Now]
        /\ amid' \in [Everyone -> SUBSET (0 .. Now)]
        /\ task'[t].at = place /\ task'[t].peer = p
        /\ \A q \in Everyone \ {t} : task'[q] = task[q]
    <3>1. place \in Places
      BY DEF Places
    <3>2. QED
      BY <1>7, <2>1, <3>1, BeginType DEF Handshake
  <2>3. open' \in SUBSET Peers /\ \A o \in open' : Authorized(o)
    BY <1>7 DEF Handshake, TypeInv, TypeOK, Stages
  <2>4. TypeOK'
    BY <1>7, <2>2, <2>3 DEF Handshake, TypeInv, TypeOK, TaskTypes
  <2>5. up' /\ task'[Main] = task[Main]
    BY <1>7, <2>2 DEF Handshake
  <2>6. Mode = "false" =>
          \A q \in Everyone : task'[q].at \in {"idle", "served", "refused"}
    BY <2>1, <2>2 DEF TypeInv, Stages
  <2>7. \A q \in Tasks :
          /\ task'[q].at # "idle" => task'[q].peer \in Peers
          /\ task'[q].at \in Working \cup {"served"} => Authorized(task'[q].peer)
    BY <2>1, <2>2 DEF TypeInv, Stages, Working
  <2>8. Stages'
    <3>1. task'[Main].at = "idle" /\ up'
      BY <2>5, <1>7 DEF Handshake, TypeInv, Stages
    <3>2. QED
      BY <2>3, <2>6, <2>7, <3>1 DEF Stages
  <2>9. QED
    BY <2>4, <2>8 DEF TypeInv
<1>8. ASSUME NEW t \in Tasks, NEW p \in Peers, Request(t, p) PROVE TypeInv'
  <2>1. PICK place \in {"stat", "served"} :
          /\ Begin(t, p, "request", place)
          /\ Mode = "false" => place # "stat"
          /\ place # "refused" => Authorized(p)
    BY <1>8 DEF Request, Entry, TypeInv, Stages
  <2>2. /\ task' \in [Everyone -> TaskTypes]
        /\ begun' \in [Everyone -> 0 .. Now]
        /\ amid' \in [Everyone -> SUBSET (0 .. Now)]
        /\ task'[t].at = place /\ task'[t].peer = p
        /\ \A q \in Everyone \ {t} : task'[q] = task[q]
    <3>1. place \in Places
      BY DEF Places
    <3>2. QED
      BY <1>8, <2>1, <3>1, BeginType DEF Request
  <2>3. open' \in SUBSET Peers /\ \A o \in open' : Authorized(o)
    BY <1>8 DEF Request, TypeInv, TypeOK, Stages
  <2>4. TypeOK'
    BY <1>8, <2>2, <2>3 DEF Request, TypeInv, TypeOK, TaskTypes
  <2>5. up' /\ task'[Main] = task[Main]
    BY <1>8, <2>2 DEF Request
  <2>6. Mode = "false" =>
          \A q \in Everyone : task'[q].at \in {"idle", "served", "refused"}
    BY <2>1, <2>2 DEF TypeInv, Stages
  <2>7. \A q \in Tasks :
          /\ task'[q].at # "idle" => task'[q].peer \in Peers
          /\ task'[q].at \in Working \cup {"served"} => Authorized(task'[q].peer)
    BY <2>1, <2>2 DEF TypeInv, Stages, Working
  <2>8. Stages'
    <3>1. task'[Main].at = "idle" /\ up'
      BY <2>5, <1>8 DEF Request, TypeInv, Stages
    <3>2. QED
      BY <2>3, <2>6, <2>7, <3>1 DEF Stages
  <2>9. QED
    BY <2>4, <2>8 DEF TypeInv
<1>9. ASSUME NEW t \in Everyone, Stat(t) PROVE TypeInv'
  BY <1>9, StatMoves, MoveType
<1>10. ASSUME NEW t \in Everyone, Compare(t) PROVE TypeInv'
  BY <1>10, CompareMoves, MoveType
<1>11. ASSUME NEW t \in Everyone, Restat(t) PROVE TypeInv'
  BY <1>11, RestatMoves, MoveType
<1>12. ASSUME NEW t \in Everyone, Read(t) PROVE TypeInv'
  BY <1>12, ReadMoves, MoveType
<1>13. ASSUME NEW t \in Everyone, Store(t) PROVE TypeInv'
  <2>1. /\ task[t] \in TaskTypes /\ task[t].at = "store" /\ Mode # "false"
        /\ crl' = crl /\ restarts' = restarts /\ open' = open
    BY <1>13 DEF Store, Loaded, TypeInv, TypeOK, Stages, TaskTypes
  <2>2. cache' \in [stamp : Nat, of : 0 .. Now]
    BY <1>13, <2>1 DEF Store, TaskTypes
  <2>3. CASE t = Main
    <3>1. /\ task' = [task EXCEPT ![Main] = Idle] /\ up' = TRUE
          /\ Forget({Main})
      BY <1>13, <2>3 DEF Store, Loaded
    <3>2. /\ task' \in [Everyone -> TaskTypes] /\ task'[Main].at = "idle"
          /\ \A q \in Tasks : task'[q] = task[q]
      BY <3>1, IdleType DEF TypeInv, TypeOK, TaskTypes, Idle
    <3>3. TypeOK'
      BY <2>1, <2>2, <3>1, <3>2, ForgetType DEF TypeInv, TypeOK, TaskTypes
    <3>4. Stages'
      BY <2>1, <3>1, <3>2 DEF TypeInv, Stages
    <3>5. QED
      BY <3>3, <3>4 DEF TypeInv
  <2>4. CASE t # Main
    <3>1. /\ task' = [task EXCEPT ![t].at = "lookup"]
          /\ UNCHANGED <<up, begun, amid>>
      BY <1>13, <2>4 DEF Store, Loaded, Goto
    <3>2. /\ task' \in [Everyone -> TaskTypes]
          /\ task'[t].at = "lookup" /\ task'[t].peer = task[t].peer
          /\ \A q \in Everyone \ {t} : task'[q] = task[q]
      BY <2>1, <3>1 DEF TypeInv, TypeOK, TaskTypes, Places
    <3>3. TypeOK'
      BY <2>1, <2>2, <3>1, <3>2 DEF TypeInv, TypeOK, TaskTypes
    <3>4. up /\ Authorized(task[t].peer) /\ task[t].peer \in Peers
      BY <2>1, <2>4 DEF TypeInv, Stages, Working, Places
    <3>5. Stages'
      BY <2>1, <2>4, <3>1, <3>2, <3>4 DEF TypeInv, Stages, Working
    <3>6. QED
      BY <3>3, <3>5 DEF TypeInv
  <2>5. QED
    BY <2>3, <2>4
<1>14. ASSUME NEW t \in Everyone, Lookup(t) PROVE TypeInv'
  BY <1>14, LookupMoves, MoveType
<1>15. ASSUME NEW t \in Everyone, Finish(t) PROVE TypeInv'
  BY <1>15 DEF Finish, Forget, TypeInv, TypeOK, Stages, Places, Working, Idle
<1>16. QED
  BY <1>2, <1>3, <1>4, <1>5, <1>6, <1>7, <1>8, <1>9, <1>10, <1>11, <1>12, <1>13,
     <1>14, <1>15 DEF Next, Advance

\* Every state is of its types, and each goroutine where its kind can be.
THEOREM TypeSafe == Spec => []TypeOK
<1>1. Init => TypeInv
  BY InitType
<1>2. TypeInv /\ [Next]_vars => TypeInv'
  BY NextType
<1>3. TypeInv => TypeOK
  BY DEF TypeInv
<1>4. QED
  BY <1>1, <1>2, <1>3, PTL DEF Spec

LEMMA TypeInvariant == Spec => []TypeInv
<1>1. Init => TypeInv
  BY InitType
<1>2. TypeInv /\ [Next]_vars => TypeInv'
  BY NextType
<1>3. QED
  BY <1>1, <1>2, PTL DEF Spec

-----------------------------------------------------------------------------
(* How old what a goroutine holds can be.                                  *)

Usable(v) == v \in 1 .. Now /\ crl[v].kind = "whole"

\* The version a stamp was taken of is not older than the stamp's reader, nor
\* newer than the list read after it.
StampedSince(t, stamp, v) ==
    \E i \in 1 .. Now : begun[t] <= i /\ stamp = StampOf[i] /\ i <= v

Held(t) ==
    /\ task[t].at \in {"compare", "read"} => StampedSince(t, task[t].stamp, Now)
    /\ task[t].at = "store" => /\ Usable(task[t].of)
                              /\ StampedSince(t, task[t].stamp, task[t].of)

\* The list the publisher holds was read after its stamp was taken.
CacheHeld ==
    up /\ Mode # "false" =>
        /\ Usable(cache.of)
        /\ \E i \in 1 .. cache.of : cache.stamp = StampOf[i]

\* Of any two goroutines in flight, either began no earlier than some one that
\* was in flight when the other began.
Overlap == \A t, q \in InFlight : \E a \in amid[t] : a <= begun[q]

LookedUp(t) == task[t].at = "lookup" => \E a \in amid[t] : a <= cache.of

\* What the run checks, goroutine by goroutine.
Recent(t) ==
    (task[t].at = "served" /\ Mode # "false") =>
        \E v \in 1 .. Now : /\ Clear(task[t].peer, v)
                            /\ \E a \in amid[t] : a <= v

AgeInv ==
    /\ \A t \in Everyone : Held(t) /\ LookedUp(t)
    /\ \A t \in Tasks : Recent(t)
    /\ CacheHeld
    /\ Overlap

\* An idle goroutine, and one whose verdict has fallen against its peer, holds
\* nothing the invariant speaks of.
LEMMA Harmless ==
    ASSUME NEW t, task[t].at \in {"idle", "stat", "restat", "refused"}
    PROVE Held(t) /\ LookedUp(t) /\ Recent(t)
  BY DEF Held, LookedUp, Recent

LEMMA InitAge == Init => AgeInv
<1>1. SUFFICES ASSUME Init PROVE AgeInv
  OBVIOUS
<1>2. \A t \in Everyone : task[t].at = "idle"
  BY <1>1 DEF Init, Idle
<1>3. InFlight = {}
  BY <1>2 DEF InFlight, Working
<1>4. QED
  BY <1>1, <1>2, <1>3, Harmless DEF AgeInv, CacheHeld, Overlap, Init

\* A step that leaves the file, the cache and every other goroutine alone keeps
\* the invariant when t, which does not begin, ends in a state that has its part.
LEMMA MoveAge ==
    ASSUME TypeInv, AgeInv, NEW t \in Everyone, NEW w, Moves(t, w),
           Held(t)', LookedUp(t)', Recent(t)'
    PROVE AgeInv'
<1>1. /\ task'[t] = w /\ \A q \in Everyone \ {t} : task'[q] = task[q]
      /\ t \in InFlight
  BY DEF Moves, TypeInv, TypeOK, TaskTypes, InFlight
<1>2. UNCHANGED <<crl, up, cache, begun, amid>>
  BY DEF Moves
<1>3. \A q \in Everyone \ {t} : Held(q)' /\ LookedUp(q)' /\ (q \in Tasks => Recent(q)')
  <2>1. SUFFICES ASSUME NEW q \in Everyone \ {t}
                 PROVE Held(q)' /\ LookedUp(q)' /\ (q \in Tasks => Recent(q)')
    OBVIOUS
  <2>2. task'[q] = task[q]
    BY <1>1
  <2>3. Held(q)'
    BY <1>2, <2>2 DEF AgeInv, Held, StampedSince, Usable
  <2>4. LookedUp(q)'
    BY <1>2, <2>2 DEF AgeInv, LookedUp
  <2>5. q \in Tasks => Recent(q)'
    BY <1>2, <2>2 DEF AgeInv, Recent, Clear
  <2>6. QED
    BY <2>3, <2>4, <2>5
<1>4. CacheHeld'
  BY <1>2 DEF AgeInv, CacheHeld, Usable
<1>5. InFlight' \subseteq InFlight
  BY <1>1 DEF InFlight
<1>6. Overlap'
  BY <1>2, <1>5 DEF AgeInv, Overlap
<1>7. QED
  BY <1>3, <1>4, <1>6 DEF AgeInv

\* The five steps of a check that read or decide.
LEMMA CheckAge ==
    ASSUME TypeInv, AgeInv, NEW t \in Everyone,
           Stat(t) \/ Compare(t) \/ Restat(t) \/ Read(t) \/ Lookup(t)
    PROVE AgeInv'
<1>1. PICK w : Moves(t, w)
  BY StatMoves, CompareMoves, RestatMoves, ReadMoves, LookupMoves
<1>2. /\ task[t] \in TaskTypes /\ task'[t] = w /\ task[t].at \in Working
      /\ UNCHANGED <<crl, cache, begun, amid>> /\ t \in InFlight
  BY <1>1 DEF Moves, TypeInv, TypeOK, TaskTypes, InFlight
<1>3. Now \in 1 .. MaxVersions /\ begun[t] \in 0 .. Now /\ amid[t] \in SUBSET (0 .. Now)
  BY DEF TypeInv, TypeOK
<1>4. PICK a \in amid[t] : a <= begun[t]
  BY <1>2 DEF AgeInv, Overlap
<1>5. StampedSince(t, StampOf[Now], Now)
  BY <1>3 DEF StampedSince
<1>6. CASE w.at \in {"restat", "refused"}
  <2>1. Held(t)' /\ LookedUp(t)' /\ Recent(t)'
    BY <1>2, <1>6 DEF Held, LookedUp, Recent
  <2>2. QED
    BY <1>1, <2>1, MoveAge
<1>7. CASE Stat(t) /\ w.at \notin {"restat", "refused"}
  <2>1. w.at = "compare" /\ w.stamp = StampOf[Now]
    BY <1>2, <1>7 DEF Stat, Verdict, Goto, TaskTypes, TypeInv, TypeOK
  <2>2. Held(t)' /\ LookedUp(t)' /\ Recent(t)'
    BY <1>2, <1>5, <2>1 DEF Held, LookedUp, Recent, StampedSince
  <2>3. QED
    BY <1>1, <2>2, MoveAge
<1>8. CASE Compare(t) /\ w.at \notin {"restat", "refused"}
  <2>1. /\ w.at = "lookup" /\ task[t].stamp = cache.stamp
        /\ task[t].at = "compare"
    BY <1>2, <1>8 DEF Compare, Goto, TaskTypes, TypeInv, TypeOK
  <2>2. PICK i \in 1 .. Now : begun[t] <= i /\ cache.stamp = StampOf[i]
    BY <2>1 DEF AgeInv, Held, StampedSince
  <2>3. up /\ Mode # "false"
    BY <2>1 DEF TypeInv, Stages
  <2>4. PICK j \in 1 .. cache.of : cache.stamp = StampOf[j]
    BY <2>3 DEF AgeInv, CacheHeld
  <2>5. cache.of \in 0 .. Now
    BY DEF TypeInv, TypeOK
  <2>6. i = j
    <3>1. i \in 1 .. MaxVersions /\ j \in 1 .. MaxVersions
      BY <1>3, <2>5
    <3>2. StampOf[i] = StampOf[j]
      BY <2>2, <2>4
    <3>3. QED
      BY <3>1, <3>2, StampsDiffer
  <2>7. a \in Nat /\ a <= cache.of
    BY <1>3, <1>4, <2>2, <2>4, <2>5, <2>6
  <2>8. Held(t)' /\ LookedUp(t)' /\ Recent(t)'
    BY <1>2, <2>1, <2>7 DEF Held, LookedUp, Recent
  <2>9. QED
    BY <1>1, <2>8, MoveAge
<1>9. CASE Restat(t) /\ w.at \notin {"restat", "refused"}
  <2>1. w.at = "read" /\ w.stamp = StampOf[Now]
    BY <1>2, <1>9 DEF Restat, Verdict, Goto, TaskTypes, TypeInv, TypeOK
  <2>2. Held(t)' /\ LookedUp(t)' /\ Recent(t)'
    BY <1>2, <1>5, <2>1 DEF Held, LookedUp, Recent, StampedSince
  <2>3. QED
    BY <1>1, <2>2, MoveAge
<1>10. CASE Read(t) /\ w.at \notin {"restat", "refused"}
  <2>1. /\ w.at = "store" /\ w.of = Now /\ w.stamp = task[t].stamp
        /\ task[t].at = "read" /\ crl[Now].kind \notin Unusable
    BY <1>2, <1>10 DEF Read, Verdict, Goto, TaskTypes, TypeInv, TypeOK
  <2>2. crl[Now].kind = "whole"
    <3>1. crl \in Seq(Files)
      BY DEF TypeInv, TypeOK, Files
    <3>2. crl[Now] \in Files
      BY <1>3, <3>1
    <3>3. QED
      BY <2>1, <3>2 DEF Files, Kinds
  <2>3. Usable(Now)' /\ StampedSince(t, task[t].stamp, Now)'
    BY <1>2, <1>3, <2>1, <2>2 DEF AgeInv, Held, Usable, StampedSince
  <2>4. Held(t)' /\ LookedUp(t)' /\ Recent(t)'
    BY <1>2, <2>1, <2>3 DEF Held, LookedUp, Recent, Usable, StampedSince
  <2>5. QED
    BY <1>1, <2>4, MoveAge
<1>11. CASE Lookup(t) /\ w.at \notin {"restat", "refused"}
  <2>1. /\ w.at = "served" /\ w.peer = task[t].peer
        /\ task[t].at = "lookup" /\ Clear(task[t].peer, cache.of)
    BY <1>2, <1>11 DEF Lookup, Verdict, Goto, TaskTypes, TypeInv, TypeOK
  <2>2. up /\ Mode # "false"
    BY <1>2, <2>1 DEF TypeInv, Stages
  <2>3. cache.of \in 1 .. Now
    BY <2>2 DEF AgeInv, CacheHeld, Usable
  <2>4. \E b \in amid[t] : b <= cache.of
    BY <2>1 DEF AgeInv, LookedUp
  <2>5. Held(t)' /\ LookedUp(t)' /\ Recent(t)'
    BY <1>2, <2>1, <2>3, <2>4 DEF Held, LookedUp, Recent, Clear
  <2>6. QED
    BY <1>1, <2>5, MoveAge
<1>12. QED
  BY <1>6, <1>7, <1>8, <1>9, <1>10, <1>11

\* A goroutine begins: the others' histories do not change, and those of its
\* own that are in flight are in the one it starts with.
LEMMA BeginAge ==
    ASSUME TypeInv, AgeInv, NEW t \in Everyone, NEW p \in Peers \cup {NoRole},
           NEW what \in {"boot", "handshake", "request"}, 
           NEW place \in {"stat", "restat", "refused", "served"},
           place = "served" => Mode = "false", Begin(t, p, what, place),
           UNCHANGED <<crl, up, cache>>, task[t].at = "idle"
    PROVE AgeInv'
<1>2. /\ task'[t].at = place
      /\ \A q \in Everyone \ {t} : task'[q] = task[q]
  BY DEF Begin, TypeInv, TypeOK
<1>3. /\ begun' = [begun EXCEPT ![t] = Now]
      /\ amid' = [amid EXCEPT ![t] = {Now} \cup {begun[q] : q \in InFlight}]
  BY DEF Begin
<1>4. /\ begun \in [Everyone -> 0 .. Now] /\ amid \in [Everyone -> SUBSET (0 .. Now)]
      /\ Now \in Nat
  BY DEF TypeInv, TypeOK
<1>5. /\ begun'[t] = Now /\ amid'[t] = {Now} \cup {begun[q] : q \in InFlight}
      /\ \A q \in Everyone \ {t} : begun'[q] = begun[q] /\ amid'[q] = amid[q]
  BY <1>3, <1>4
<1>6. Held(t)' /\ LookedUp(t)' /\ Recent(t)'
  BY <1>2 DEF Held, LookedUp, Recent
<1>7. \A q \in Everyone \ {t} : Held(q)' /\ LookedUp(q)' /\ (q \in Tasks => Recent(q)')
  <2>1. SUFFICES ASSUME NEW q \in Everyone \ {t}
                 PROVE Held(q)' /\ LookedUp(q)' /\ (q \in Tasks => Recent(q)')
    OBVIOUS
  <2>2. task'[q] = task[q] /\ begun'[q] = begun[q] /\ amid'[q] = amid[q]
    BY <1>2, <1>5
  <2>3. Held(q)'
    BY <2>2 DEF AgeInv, Held, StampedSince, Usable
  <2>4. LookedUp(q)'
    BY <2>2 DEF AgeInv, LookedUp
  <2>5. q \in Tasks => Recent(q)'
    BY <2>2 DEF AgeInv, Recent, Clear
  <2>6. QED
    BY <2>3, <2>4, <2>5
<1>8. CacheHeld'
  BY DEF AgeInv, CacheHeld, Usable
<1>9. Overlap'
  <2>1. SUFFICES ASSUME NEW r \in InFlight', NEW q \in InFlight'
                 PROVE \E a \in amid'[r] : a <= begun'[q]
    BY DEF Overlap
  <2>2. r \in Everyone /\ q \in Everyone
    BY DEF InFlight
  <2>3. \A s \in {r, q} : s # t => s \in InFlight
    BY <1>2 DEF InFlight
  <2>4. CASE r = t
    <3>1. begun'[q] \in amid'[t] /\ begun'[q] \in Nat
      BY <1>4, <1>5, <2>2, <2>3
    <3>2. QED
      BY <2>4, <3>1
  <2>5. CASE r # t /\ q # t
    BY <1>5, <2>2, <2>3, <2>5 DEF AgeInv, Overlap
  <2>6. CASE r # t /\ q = t
    <3>1. PICK a \in amid[r] : a <= begun[r]
      BY <2>3, <2>6 DEF AgeInv, Overlap
    <3>2. a \in Nat /\ begun[r] \in Nat /\ begun[r] <= Now
      BY <1>4, <2>2
    <3>3. amid'[r] = amid[r] /\ begun'[q] = Now
      BY <1>5, <2>2, <2>6
    <3>4. QED
      BY <1>4, <3>1, <3>2, <3>3
  <2>7. QED
    BY <2>4, <2>5, <2>6
<1>10. QED
  BY <1>6, <1>7, <1>8, <1>9 DEF AgeInv

\* Goroutines that end take their part of the history with them.
LEMMA EndAge ==
    ASSUME TypeInv, AgeInv, NEW S \in SUBSET Everyone, Forget(S),
           UNCHANGED crl, CacheHeld',
           \A t \in S : task'[t] = Idle,
           \A t \in Everyone \ S : task'[t] = task[t],
           \A t \in Everyone \ S : LookedUp(t)'
    PROVE AgeInv'
<1>1. \A t \in Everyone \ S : begun'[t] = begun[t] /\ amid'[t] = amid[t]
  BY DEF Forget
<1>2. \A t \in S : task'[t].at = "idle"
  BY DEF Idle
<1>3. \A t \in S : Held(t)' /\ LookedUp(t)' /\ Recent(t)'
  BY <1>2 DEF Held, LookedUp, Recent
<1>4. \A t \in Everyone \ S : Held(t)' /\ (t \in Tasks => Recent(t)')
  <2>1. SUFFICES ASSUME NEW t \in Everyone \ S PROVE Held(t)' /\ (t \in Tasks => Recent(t)')
    OBVIOUS
  <2>2. task'[t] = task[t] /\ begun'[t] = begun[t] /\ amid'[t] = amid[t]
    BY <1>1
  <2>3. Held(t)'
    BY <2>2 DEF AgeInv, Held, StampedSince, Usable
  <2>4. t \in Tasks => Recent(t)'
    BY <2>2 DEF AgeInv, Recent, Clear
  <2>5. QED
    BY <2>3, <2>4
<1>5. InFlight' \subseteq InFlight \ S
  BY <1>2 DEF InFlight, Working
<1>6. Overlap'
  BY <1>1, <1>5 DEF AgeInv, Overlap, InFlight
<1>7. QED
  BY <1>3, <1>4, <1>6 DEF AgeInv

\* A new version changes none of the old ones.
LEMMA InstallAge ==
    ASSUME TypeInv, AgeInv, Install PROVE AgeInv'
<1>1. PICK k \in Kinds, l \in Lists :
        crl' = Append(crl, [kind |-> k, lists |-> IF k = "whole" THEN l ELSE {}])
  BY DEF Install
<1>2. crl \in Seq(Files) /\ [kind |-> k, lists |-> IF k = "whole" THEN l ELSE {}] \in Files
  BY DEF TypeInv, TypeOK, Files
<1>3. /\ Now \in Nat /\ Now' = Now + 1
      /\ \A v \in 1 .. Now : v \in 1 .. Now' /\ crl'[v] = crl[v]
  BY <1>1, <1>2
<1>4. UNCHANGED <<up, cache, task, begun, amid>>
  BY DEF Install
<1>5. \A v \in 1 .. Now : (Usable(v) => Usable(v)')
                        /\ \A p \in Peers : Clear(p, v) => Clear(p, v)'
  BY <1>3 DEF Usable, Clear
<1>6. ASSUME NEW t \in Everyone PROVE Held(t)' /\ LookedUp(t)'
  <2>1. \A s, v : StampedSince(t, s, v) => StampedSince(t, s, v)'
    BY <1>3, <1>4 DEF StampedSince
  <2>2. \A s : StampedSince(t, s, Now) => StampedSince(t, s, Now)'
    BY <1>3, <1>4 DEF StampedSince
  <2>3. Held(t)'
    BY <1>4, <1>5, <2>1, <2>2 DEF AgeInv, Held, Usable
  <2>4. QED
    BY <1>4, <2>3 DEF AgeInv, LookedUp
<1>7. ASSUME NEW t \in Tasks PROVE Recent(t)'
  <2>1. task[t].at = "served" => task[t].peer \in Peers
    BY DEF TypeInv, Stages
  <2>2. QED
    BY <1>3, <1>4, <1>5, <2>1 DEF AgeInv, Recent
<1>8. CacheHeld'
  BY <1>3, <1>4, <1>5 DEF AgeInv, CacheHeld, Usable
<1>9. Overlap'
  BY <1>4 DEF AgeInv, Overlap, InFlight
<1>10. QED
  BY <1>6, <1>7, <1>8, <1>9 DEF AgeInv

\* What is stored was read after its stamp was taken, by a goroutine no older
\* than those the looking up ones began among.
LEMMA StoreAge ==
    ASSUME TypeInv, AgeInv, NEW t \in Everyone, Store(t) PROVE AgeInv'
<1>1. /\ task[t] \in TaskTypes /\ task[t].at = "store" /\ t \in InFlight
      /\ task \in [Everyone -> TaskTypes]
      /\ crl' = crl /\ cache' = [stamp |-> task[t].stamp, of |-> task[t].of]
  BY DEF Store, Loaded, TypeInv, TypeOK, TaskTypes, InFlight, Working, Places
<1>2. /\ Now \in Nat /\ begun[t] \in 0 .. Now
      /\ \A q \in Everyone : amid[q] \in SUBSET (0 .. Now)
  BY DEF TypeInv, TypeOK
<1>3. Usable(task[t].of) /\ StampedSince(t, task[t].stamp, task[t].of)
  BY <1>1 DEF AgeInv, Held
<1>4. PICK i \in 1 .. Now : /\ begun[t] <= i /\ task[t].stamp = StampOf[i]
                           /\ i <= task[t].of
  BY <1>3 DEF StampedSince
<1>5. CacheHeld'
  BY <1>1, <1>2, <1>3, <1>4 DEF CacheHeld, Usable, TaskTypes
<1>6. \A q \in InFlight : \E a \in amid[q] : a <= task[t].of
  <2>1. SUFFICES ASSUME NEW q \in InFlight PROVE \E a \in amid[q] : a <= task[t].of
    OBVIOUS
  <2>2. PICK a \in amid[q] : a <= begun[t]
    BY <1>1 DEF AgeInv, Overlap
  <2>3. a \in Nat /\ task[t].of \in Nat
    BY <1>1, <1>2, <2>1 DEF TaskTypes, InFlight
  <2>4. QED
    BY <1>2, <1>4, <2>2, <2>3
<1>7. CASE t = Main
  <2>1. Forget({Main}) /\ task' = [task EXCEPT ![Main] = Idle]
    BY <1>7 DEF Store, Loaded
  <2>2. task'[Main] = Idle /\ \A q \in Everyone \ {Main} : task'[q] = task[q]
    BY <1>1, <2>1
  <2>3. \A q \in Everyone \ {Main} : LookedUp(q)'
    <3>1. ~up
      BY <1>1, <1>7 DEF TypeInv, Stages
    <3>2. \A q \in Tasks : task[q].at = "idle"
      BY <3>1 DEF TypeInv, Stages
    <3>3. QED
      BY <2>2, <3>2 DEF LookedUp
  <2>4. QED
    BY <1>1, <1>5, <2>1, <2>2, <2>3, EndAge
<1>8. CASE t # Main
  <2>1. /\ task' = [task EXCEPT ![t].at = "lookup"]
        /\ UNCHANGED <<up, begun, amid>>
    BY <1>8 DEF Store, Loaded, Goto
  <2>2. /\ task'[t].at = "lookup"
        /\ \A q \in Everyone \ {t} : task'[q] = task[q]
    BY <1>1, <2>1 DEF TaskTypes
  <2>3. InFlight' \subseteq InFlight
    BY <1>1, <2>2 DEF InFlight
  <2>4. ASSUME NEW q \in Everyone PROVE Held(q)' /\ LookedUp(q)' /\ (q \in Tasks => Recent(q)')
    <3>1. LookedUp(q)'
      <4>1. SUFFICES ASSUME task'[q].at = "lookup" PROVE \E a \in amid[q] : a <= task[t].of
        BY <1>1, <2>1 DEF LookedUp
      <4>2. q \in InFlight
        BY <2>3, <4>1 DEF InFlight, Working, Places
      <4>3. QED
        BY <1>6, <4>2
    <3>2. CASE q = t
      BY <2>2, <3>1, <3>2 DEF Held, Recent
    <3>3. CASE q # t
      <4>1. task'[q] = task[q]
        BY <2>2, <3>3
      <4>2. Held(q)'
        BY <1>1, <2>1, <4>1 DEF AgeInv, Held, StampedSince, Usable
      <4>3. q \in Tasks => Recent(q)'
        BY <1>1, <2>1, <4>1 DEF AgeInv, Recent, Clear
      <4>4. QED
        BY <3>1, <4>2, <4>3
    <3>4. QED
      BY <3>2, <3>3
  <2>5. Overlap'
    BY <2>1, <2>3 DEF AgeInv, Overlap
  <2>6. QED
    BY <1>5, <2>4, <2>5 DEF AgeInv
<1>9. QED
  BY <1>7, <1>8

LEMMA NextAge == TypeInv /\ AgeInv /\ [Next]_vars => AgeInv'
<1>1. SUFFICES ASSUME TypeInv, AgeInv, [Next]_vars PROVE AgeInv'
  OBVIOUS
<1> USE <1>1
<1>2. ASSUME UNCHANGED <<crl, up, cache, task, begun, amid>> PROVE AgeInv'
  <2>1. \A t \in Everyone : Held(t)' /\ LookedUp(t)' /\ (t \in Tasks => Recent(t)')
    <3>1. SUFFICES ASSUME NEW t \in Everyone
                   PROVE Held(t)' /\ LookedUp(t)' /\ (t \in Tasks => Recent(t)')
      OBVIOUS
    <3>2. Held(t)'
      BY <1>2 DEF AgeInv, Held, StampedSince, Usable
    <3>3. LookedUp(t)'
      BY <1>2 DEF AgeInv, LookedUp
    <3>4. t \in Tasks => Recent(t)'
      BY <1>2 DEF AgeInv, Recent, Clear
    <3>5. QED
      BY <3>2, <3>3, <3>4
  <2>2. CacheHeld' /\ Overlap'
    BY <1>2 DEF AgeInv, CacheHeld, Usable, Overlap, InFlight
  <2>3. QED
    BY <2>1, <2>2 DEF AgeInv
<1>3. CASE UNCHANGED vars
  BY <1>2, <1>3
<1>4. CASE Install
  BY <1>4, InstallAge
<1>5. CASE Boot
  <2>1. CASE Mode = "false"
    <3>1. UNCHANGED <<crl, cache, task, begun, amid>>
      BY <1>5, <2>1 DEF Boot
    <3>2. \A t \in Everyone : Held(t)' /\ LookedUp(t)' /\ (t \in Tasks => Recent(t)')
      BY <2>1, <3>1 DEF AgeInv, Held, StampedSince, Usable, LookedUp, Recent
    <3>3. CacheHeld' /\ Overlap'
      BY <2>1, <3>1 DEF AgeInv, CacheHeld, Overlap, InFlight
    <3>4. QED
      BY <3>2, <3>3 DEF AgeInv
  <2>2. CASE Mode # "false"
    <3>1. /\ Begin(Main, NoRole, "boot", "restat") /\ task[Main].at = "idle"
          /\ UNCHANGED <<crl, up, cache>>
      BY <1>5, <2>2 DEF Boot
    <3>2. QED
      BY <3>1, BeginAge
  <2>3. QED
    BY <2>1, <2>2
<1>6. CASE Restart
  <2>1. /\ Forget(Everyone) /\ UNCHANGED crl
        /\ \A t \in Everyone : task'[t] = Idle
    BY <1>6 DEF Restart
  <2>2. CacheHeld'
    BY <1>6 DEF Restart, CacheHeld
  <2>3. QED
    BY <2>1, <2>2, EndAge
<1>7. ASSUME NEW p \in Peers, Close(p) PROVE AgeInv'
  BY <1>2, <1>7 DEF Close
<1>8. ASSUME NEW t \in Tasks, NEW p \in Peers, Handshake(t, p) PROVE AgeInv'
  <2>1. PICK place \in {"stat", "refused", "served"} :
          Begin(t, p, "handshake", place) /\ (place = "served" => Mode = "false")
    BY <1>8 DEF Handshake, Entry
  <2>2. UNCHANGED <<crl, up, cache>> /\ task[t].at = "idle"
    BY <1>8 DEF Handshake
  <2>3. QED
    BY <2>1, <2>2, BeginAge
<1>9. ASSUME NEW t \in Tasks, NEW p \in Peers, Request(t, p) PROVE AgeInv'
  <2>1. PICK place \in {"stat", "served"} :
          Begin(t, p, "request", place) /\ (place = "served" => Mode = "false")
    BY <1>9 DEF Request, Entry
  <2>2. UNCHANGED <<crl, up, cache>> /\ task[t].at = "idle"
    BY <1>9 DEF Request
  <2>3. QED
    BY <2>1, <2>2, BeginAge
<1>10. ASSUME NEW t \in Everyone, Advance(t) PROVE AgeInv'
  <2>1. CASE Store(t)
    BY <2>1, StoreAge
  <2>2. CASE Finish(t)
    <3>1. /\ task' = [task EXCEPT ![t] = Idle] /\ Forget({t})
          /\ UNCHANGED <<crl, up, cache>>
      BY <2>2 DEF Finish
    <3>2. task'[t] = Idle /\ \A q \in Everyone \ {t} : task'[q] = task[q]
      BY <3>1 DEF TypeInv, TypeOK
    <3>3. CacheHeld'
      BY <3>1 DEF AgeInv, CacheHeld, Usable
    <3>4. \A q \in Everyone \ {t} : LookedUp(q)'
      BY <3>1, <3>2 DEF AgeInv, LookedUp, Forget
    <3>5. QED
      BY <3>1, <3>2, <3>3, <3>4, EndAge
  <2>3. QED
    BY <1>10, <2>1, <2>2, CheckAge DEF Advance
<1>11. QED
  BY <1>3, <1>4, <1>5, <1>6, <1>7, <1>8, <1>9, <1>10 DEF Next

LEMMA AgeInvariant == Spec => []AgeInv
<1>1. Init => AgeInv
  BY InitAge
<1>2. TypeInv /\ AgeInv /\ [Next]_vars => AgeInv'
  BY NextAge
<1>3. QED
  BY <1>1, <1>2, TypeInvariant, PTL DEF Spec

-----------------------------------------------------------------------------
(* The theorems.                                                           *)

\* The cached list is the file's while its stamp is: no interleaving of reloads
\* with each other and with the CA leaves an old list that passes for the new.
THEOREM NeverOutruns == Spec => []StampNeverOutruns
<1>1. TypeInv /\ AgeInv => StampNeverOutruns
  <2>1. SUFFICES ASSUME TypeInv, AgeInv, up, Mode # "false",
                        cache.stamp = StampOf[Now]
                 PROVE cache.of = Now
    BY DEF StampNeverOutruns
  <2>2. /\ Usable(cache.of)
        /\ \E i \in 1 .. cache.of : cache.stamp = StampOf[i]
    BY <2>1 DEF AgeInv, CacheHeld
  <2>3. PICK i \in 1 .. cache.of : cache.stamp = StampOf[i]
    BY <2>2
  <2>4. Now \in 1 .. MaxVersions /\ cache.of \in 1 .. Now
    BY <2>1, <2>2 DEF TypeInv, TypeOK, Usable
  <2>5. i \in 1 .. MaxVersions /\ StampOf[i] = StampOf[Now]
    BY <2>1, <2>3, <2>4
  <2>6. i = Now
    BY <2>4, <2>5, StampsDiffer
  <2>7. QED
    BY <2>3, <2>4, <2>6
<1>2. QED
  BY <1>1, TypeInvariant, AgeInvariant, PTL

\* Whoever is served is authorized, and was clear in a list no older than what
\* was current when a check that overlaps its own began.
THEOREM RecentListServes == Spec => []ServedOnARecentList
<1>1. TypeInv /\ AgeInv => ServedOnARecentList
  <2>1. SUFFICES ASSUME TypeInv, AgeInv, NEW t \in Tasks, task[t].at = "served"
                 PROVE /\ Authorized(task[t].peer)
                       /\ Mode # "false" =>
                            \E v \in 1 .. Now : /\ Clear(task[t].peer, v)
                                                /\ \E a \in amid[t] : a <= v
    BY DEF ServedOnARecentList
  <2>2. Authorized(task[t].peer)
    BY <2>1 DEF TypeInv, Stages
  <2>3. QED
    BY <2>1, <2>2 DEF AgeInv, Recent
<1>2. QED
  BY <1>1, TypeInvariant, AgeInvariant, PTL
=============================================================================
