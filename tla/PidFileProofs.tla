---------------------------- MODULE PidFileProofs ----------------------------
(***************************************************************************)
(* Theorems about PidFile, for any number of processes.                    *)
(***************************************************************************)
EXTENDS PidFile, TLAPS

USE PathAssumption DEF vars, Acquiring, Holding, Alive, Places

LEMMA TypeStep == TypeOK /\ [Next]_vars => TypeOK'
<1> SUFFICES ASSUME TypeOK, [Next]_vars PROVE TypeOK'
  OBVIOUS
<1>1. ASSUME NEW p \in Procs, Step(p) PROVE TypeOK'
  <2>1. CASE Start(p)
    BY <2>1 DEF Start, Go, TypeOK
  <2>2. CASE Open(p) \/ Read(p) \/ Remove(p)
    BY <2>2 DEF Open, Read, Remove, Go, TypeOK
  <2>3. CASE WritePid(p) \/ WriteFails(p) \/ Listen(p) \/ Leave(p)
    BY <2>3 DEF WritePid, WriteFails, Listen, Leave, Go, TypeOK
  <2>4. CASE Release(p) \/ Unlink(p) \/ Kill(p)
    BY <2>4 DEF Release, Unlink, Kill, Go, TypeOK
  <2>5. QED
    BY <1>1, <2>1, <2>2, <2>3, <2>4 DEF Step
<1>2. CASE UNCHANGED vars
  BY <1>2 DEF TypeOK
<1>3. QED
  BY <1>1, <1>2 DEF Next

\* Every variable stays in its type; the loop of AcquirePidFile has two passes.
THEOREM TypeCorrect == Spec => []TypeOK
<1>1. Init => TypeOK
  BY DEF Init, TypeOK
<1>2. QED
  BY <1>1, TypeStep, PTL DEF Spec

-----------------------------------------------------------------------------
(* Without a race the claim is where its holder is.                        *)

Claimed == Holding \cup {"release", "unlink"}

\* Of processes that never raced at most one is claiming, the file is the
\* claimer's or the holder's, and what is about to be removed is nobody's.
AloneInv ==
    ~raced =>
      /\ \A p, q \in Procs : pc[p] \in Acquiring /\ pc[q] \in Acquiring => p = q
      /\ \A p \in Procs : pc[p] = "write" => path = p
      /\ \A p \in Procs : pc[p] \in Claimed => path = p /\ p \in written
      /\ \A p, q \in Procs : pc[p] = "remove" => pc[q] \notin Claimed

LEMMA AloneInit == Init => AloneInv
BY DEF Init, AloneInv, Claimed

LEMMA AloneStep == TypeOK /\ AloneInv /\ [Next]_vars => AloneInv'
<1> SUFFICES ASSUME TypeOK, AloneInv, [Next]_vars, ~raced' PROVE AloneInv'
  BY DEF AloneInv
<1>0. ~raced
  BY DEF Next, Step, Start, Open, WritePid, WriteFails, Read, Remove, Listen, Leave, Release, Unlink, Kill
<1>1. ASSUME NEW p \in Procs, Step(p) PROVE AloneInv'
  <2>1. CASE Start(p)
    BY <1>0, <2>1 DEF Start, Go, TypeOK, AloneInv, Claimed
  <2>2. CASE Open(p)
    BY <1>0, <2>2 DEF Open, Go, TypeOK, AloneInv, Claimed
  <2>3. CASE Read(p)
    BY <1>0, <2>3 DEF Read, Refused, Claims, Go, TypeOK, AloneInv, Claimed
  <2>4. CASE Remove(p)
    BY <1>0, <2>4 DEF Remove, Go, TypeOK, AloneInv, Claimed
  <2>5. CASE WritePid(p) \/ WriteFails(p)
    BY <1>0, <2>5 DEF WritePid, WriteFails, Go, TypeOK, AloneInv, Claimed
  <2>6. CASE Listen(p) \/ Leave(p) \/ Release(p) \/ Kill(p)
    BY <1>0, <2>6 DEF Listen, Leave, Release, Kill, Go, TypeOK, AloneInv, Claimed
  <2>7. CASE Unlink(p)
    BY <1>0, <2>7 DEF Unlink, Go, TypeOK, AloneInv, Claimed
  <2>8. QED
    BY <1>1, <2>1, <2>2, <2>3, <2>4, <2>5, <2>6, <2>7 DEF Step
<1>2. CASE UNCHANGED vars
  BY <1>2 DEF AloneInv
<1>3. QED
  BY <1>1, <1>2 DEF Next

\* The pidfile names whoever serves, as long as starts do not overlap.
THEOREM Signalable == Spec => []ServingIsSignalable
<1>1. AloneInv => ServingIsSignalable
  BY DEF AloneInv, ServingIsSignalable, Claims, Claimed
<1>2. QED
  BY <1>1, AloneInit, AloneStep, TypeCorrect, PTL DEF Spec

-----------------------------------------------------------------------------
(* A claim outlives every process that started under it.                   *)

\* Who is about to remove the file has seen that no claim of its start is left,
\* and a claim that is lost does not come back.
LaterInv ==
    /\ \A p \in written : pc[p] \notin Acquiring \cup {"new"}
    /\ \A q \in Procs : since[q] \subseteq written
    /\ \A p, q \in Procs :
         p # q /\ p \in since[q] /\ pc[q] \in {"write", "remove", "unlink"} => ~Claims(p)

LEMMA LaterInit == Init => LaterInv
BY DEF Init, LaterInv

\* Nobody comes to hold a claim but by writing its pid.
LEMMA NoNewClaim ==
    ASSUME TypeOK, LaterInv, [Next]_vars, NEW p \in written, ~Claims(p)
    PROVE  ~Claims(p)'
<1>0. p \in Procs /\ pc[p] \notin Acquiring \cup {"new"}
  BY DEF TypeOK, LaterInv
<1>1. ASSUME NEW q \in Procs, Step(q) PROVE ~Claims(p)'
  <2>1. path' = p => path = p
    BY <1>0, <1>1 DEF Step, Start, Open, WritePid, WriteFails, Read, Remove, Listen, Leave,
       Release, Unlink, Kill
  <2>2. pc'[p] \in Alive => pc[p] \in Alive
    BY <1>0, <1>1 DEF Step, Start, Open, WritePid, WriteFails, Read, Remove, Listen, Leave,
       Release, Unlink, Kill, Go, TypeOK
  <2>3. QED
    BY <2>1, <2>2 DEF Claims
<1>2. CASE UNCHANGED vars
  BY <1>2 DEF Claims
<1>3. QED
  BY <1>1, <1>2 DEF Next

LEMMA LaterStep == TypeOK /\ LaterInv /\ [Next]_vars => LaterInv'
<1> SUFFICES ASSUME TypeOK, LaterInv, [Next]_vars PROVE LaterInv'
  OBVIOUS
<1>1. ASSUME NEW s \in Procs, Step(s) PROVE LaterInv'
  <2>1. \A p \in written' : pc'[p] \notin Acquiring \cup {"new"}
    BY <1>1 DEF Step, Start, Open, WritePid, WriteFails, Read, Remove, Listen, Leave,
       Release, Unlink, Kill, Go, TypeOK, LaterInv
  <2>2. \A q \in Procs : since'[q] \subseteq written'
    BY <1>1 DEF Step, Start, Open, WritePid, WriteFails, Read, Remove, Listen, Leave,
       Release, Unlink, Kill, Claims, TypeOK, LaterInv
  <2>3. ASSUME NEW p \in Procs, NEW q \in Procs, p # q, p \in since'[q],
               pc'[q] \in {"write", "remove", "unlink"}
        PROVE  ~Claims(p)'
    <3>1. ~Start(s) \/ s # q
      BY <2>3 DEF Start, Go, TypeOK
    <3>2. p \in since[q] /\ p \in written
      BY <1>1, <2>3, <3>1 DEF Step, Start, Open, WritePid, WriteFails, Read, Remove, Listen,
         Leave, Release, Unlink, Kill, TypeOK, LaterInv
    <3>3. CASE pc'[q] = pc[q]
      BY <2>3, <3>2, <3>3, NoNewClaim DEF LaterInv
    <3>4. CASE pc'[q] # pc[q]
      <4>1. s = q
        BY <1>1, <3>4 DEF Step, Start, Open, WritePid, WriteFails, Read, Remove, Listen,
           Leave, Release, Unlink, Kill, Go, TypeOK
      <4>2. (Open(q) /\ path = None) \/ (Read(q) /\ ~Refused) \/ (Release(q) /\ path = q)
        BY <1>1, <2>3, <3>4, <4>1 DEF Step, Start, Open, WritePid, WriteFails, Read, Remove,
           Listen, Leave, Release, Unlink, Kill, Go, TypeOK
      <4>3. ~Claims(p)
        BY <2>3, <4>2 DEF Claims, Refused
      <4>4. QED
        BY <3>2, <4>3, NoNewClaim
    <3>5. QED
      BY <3>3, <3>4
  <2>4. QED
    BY <2>1, <2>2, <2>3 DEF LaterInv
<1>2. CASE UNCHANGED vars
  BY <1>2 DEF LaterInv, Claims
<1>3. QED
  BY <1>1, <1>2 DEF Next

\* A process that starts under a claim never takes it away, race or not.
THEOREM IncumbentsKept == Spec => IncumbentKept
<1> DEFINE Kept == \A p, q \in Procs :
        p # q /\ p \in since[q] /\ Claims(p) /\ pc'[q] # pc[q] => path' = p
<1>1. TypeOK /\ LaterInv /\ Next => Kept
  <2> SUFFICES ASSUME TypeOK, LaterInv, NEW s \in Procs, Step(s), NEW p \in Procs, NEW q \in Procs,
                      p # q, p \in since[q], Claims(p), pc'[q] # pc[q]
               PROVE  path' = p
    BY DEF Next
  <2>1. s = q
    BY DEF Step, Start, Open, WritePid, WriteFails, Read, Remove, Listen, Leave, Release,
       Unlink, Kill, Go, TypeOK
  <2>2. path = p /\ pc[q] \notin {"write", "remove", "unlink"}
    BY DEF LaterInv, Claims
  <2>3. QED
    BY <2>1, <2>2 DEF Step, Start, Open, WritePid, WriteFails, Read, Remove, Listen, Leave,
       Release, Unlink, Kill, Go, TypeOK
<1>2. TypeOK /\ LaterInv /\ [Next]_vars => [Kept]_vars
  BY <1>1
<1>3. QED
  BY <1>2, LaterInit, LaterStep, TypeCorrect, PTL DEF Spec, IncumbentKept
=============================================================================
