---------------------------- MODULE ServiceProofs ----------------------------
(***************************************************************************)
(* TLAPS proofs about Service, for any number of processes of each kind.   *)
(***************************************************************************)
EXTENDS Service, TLAPS

\* To run the loop and to hold the lock are one.
LockIsLoop == \A p \in Procs : loop[p] = "serving" <=> holder = p

\* A process has no loop before it has read its config.
NoLoopYet == \A p \in Procs : main[p] \in {"absent", "loading"} => loop[p] = "none"

-----------------------------------------------------------------------------
\* The state of the service model keeps its type; in particular only a
\* service is ever signalled (scm.rs: the control handler).
THEOREM ServiceTypeCorrect == Spec => []TypeOK
<1>1. Init => TypeOK
  BY DEF Init, TypeOK
<1>2. TypeOK /\ [Next]_vars => TypeOK'
  <2> SUFFICES ASSUME TypeOK, [Next]_vars PROVE TypeOK'
    OBVIOUS
  <2>1. ASSUME NEW p \in Procs, Exit(p) PROVE TypeOK'
    BY <2>1 DEF Exit, TypeOK
  <2>2. ASSUME NEW p \in Procs, StartService(p) \/ StartConnect(p) PROVE TypeOK'
    BY <2>2 DEF StartService, StartConnect, TypeOK
  <2>3. ASSUME NEW p \in Procs, Load(p) PROVE TypeOK'
    BY <2>1, <2>3 DEF Load, LoadOk, LoadErr, TypeOK
  <2>4. ASSUME NEW p \in Procs, LoopErr(p) PROVE TypeOK'
    BY <2>1, <2>4 DEF LoopErr, TypeOK
  <2>5. ASSUME NEW p \in Procs, Lock(p) \/ RunErr(p) PROVE TypeOK'
    BY <2>4, <2>5 DEF Lock, LockOk, LockErr, RunErr, TypeOK
  <2>6. ASSUME NEW p \in Procs, Stop(p) PROVE TypeOK'
    BY <2>6 DEF Stop, TypeOK
  <2>7. ASSUME NEW p \in Procs, Stopped(p) \/ Kill(p) PROVE TypeOK'
    BY <2>1, <2>7 DEF Stopped, Kill
  <2>8. CASE UNCHANGED vars
    BY <2>8 DEF vars, TypeOK
  <2>9. QED
    BY <2>2, <2>3, <2>5, <2>6, <2>7, <2>8 DEF Next
<1>3. QED
  BY <1>1, <1>2, PTL DEF Spec

-----------------------------------------------------------------------------
\* A process that ends, or whose loop ends, gives up the lock with the loop.
LEMMA GiveUp ==
  ASSUME TypeOK, LockIsLoop, NEW p \in Procs, Exit(p) \/ LoopErr(p)
  PROVE  LockIsLoop'
<1>1. NoOne \notin Procs
  BY ProcsAssumption
<1>2. holder' = IF holder = p THEN NoOne ELSE holder
  BY DEF Exit, LoopErr
<1>3. /\ \A q \in Procs \ {p} : loop'[q] = loop[q]
      /\ loop'[p] # "serving"
  BY DEF Exit, LoopErr, TypeOK
<1>4. QED
  BY <1>1, <1>2, <1>3 DEF LockIsLoop

\* A process that ends has neither thread; a loop that ends had begun.
LEMMA GoneBoth ==
  ASSUME TypeOK, NoLoopYet, NEW p \in Procs,
         Exit(p) \/ (LoopErr(p) /\ loop[p] # "none")
  PROVE  NoLoopYet'
<1>1. CASE Exit(p)
  BY <1>1 DEF Exit, TypeOK, NoLoopYet
<1>2. CASE ~Exit(p)
  <2>1. /\ loop' = [loop EXCEPT ![p] = "ended"] /\ main' = main
        /\ loop[p] # "none"
    BY <1>2 DEF LoopErr
  <2>2. QED
    BY <2>1 DEF TypeOK, NoLoopYet
<1>3. QED
  BY <1>1, <1>2

\* Every step keeps loop and lock together.
LEMMA LockStep ==
  TypeOK /\ LockIsLoop /\ NoLoopYet /\ [Next]_vars => (LockIsLoop /\ NoLoopYet)'
<1> SUFFICES ASSUME TypeOK, LockIsLoop, NoLoopYet, [Next]_vars
             PROVE  (LockIsLoop /\ NoLoopYet)'
  OBVIOUS
<1>1. ASSUME NEW p \in Procs, Exit(p) \/ (LoopErr(p) /\ loop[p] # "none")
      PROVE  (LockIsLoop /\ NoLoopYet)'
  BY <1>1, GiveUp, GoneBoth
<1>2. ASSUME NEW p \in Procs, StartService(p) \/ StartConnect(p)
      PROVE  (LockIsLoop /\ NoLoopYet)'
  <2>1. main[p] = "absent" /\ main' = [main EXCEPT ![p] = "loading"]
        /\ loop' = loop /\ holder' = holder
    BY <1>2 DEF StartService, StartConnect
  <2>2. QED
    BY <2>1 DEF TypeOK, LockIsLoop, NoLoopYet
<1>3. ASSUME NEW p \in Procs, LoadOk(p) PROVE (LockIsLoop /\ NoLoopYet)'
  <2>1. loop[p] = "none" /\ loop' = [loop EXCEPT ![p] = "locking"]
        /\ holder' = holder
    BY <1>3 DEF LoadOk, NoLoopYet
  <2>2. LockIsLoop'
    BY <2>1 DEF TypeOK, LockIsLoop
  <2>3. main'[p] \in {"waiting", "looping"}
        /\ \A q \in Procs \ {p} : main'[q] = main[q]
    BY <1>3 DEF LoadOk, TypeOK
  <2>4. NoLoopYet'
    BY <2>1, <2>3 DEF TypeOK, NoLoopYet
  <2>5. QED
    BY <2>2, <2>4
<1>4. ASSUME NEW p \in Procs, LoadErr(p) PROVE (LockIsLoop /\ NoLoopYet)'
  <2>1. CASE Exit(p)
    BY <2>1, <1>1
  <2>2. CASE ~Exit(p)
    <3>1. main' = [main EXCEPT ![p] = "returned"] /\ loop' = loop
          /\ holder' = holder
      BY <1>4, <2>2 DEF LoadErr
    <3>2. QED
      BY <3>1 DEF TypeOK, LockIsLoop, NoLoopYet
  <2>3. QED
    BY <2>1, <2>2
<1>5. ASSUME NEW p \in Procs, LockOk(p) PROVE (LockIsLoop /\ NoLoopYet)'
  <2>1. /\ loop[p] = "locking" /\ loop' = [loop EXCEPT ![p] = "serving"]
        /\ holder = NoOne /\ holder' = p /\ main' = main /\ NoOne \notin Procs
    BY <1>5, ProcsAssumption DEF LockOk
  <2>2. LockIsLoop'
    BY <2>1 DEF TypeOK, LockIsLoop
  <2>3. NoLoopYet'
    BY <2>1 DEF TypeOK, NoLoopYet
  <2>4. QED
    BY <2>2, <2>3
<1>6. ASSUME NEW p \in Procs, LockErr(p) \/ RunErr(p)
      PROVE  (LockIsLoop /\ NoLoopYet)'
  BY <1>1, <1>6 DEF LockErr, RunErr
<1>7. ASSUME NEW p \in Procs, Stop(p) PROVE (LockIsLoop /\ NoLoopYet)'
  BY <1>7 DEF Stop, LockIsLoop, NoLoopYet
<1>8. ASSUME NEW p \in Procs, Stopped(p) \/ Kill(p) PROVE (LockIsLoop /\ NoLoopYet)'
  BY <1>1, <1>8 DEF Stopped, Kill
<1>9. CASE UNCHANGED vars
  BY <1>9 DEF vars, LockIsLoop, NoLoopYet
<1>10. QED
  BY <1>2, <1>3, <1>4, <1>5, <1>6, <1>7, <1>8, <1>9 DEF Next, Load, Lock

\* Loop and lock are together in every state.
LEMMA LockHolds == Spec => [](TypeOK /\ LockIsLoop)
<1>1. Init => LockIsLoop /\ NoLoopYet
  BY ProcsAssumption DEF Init, LockIsLoop, NoLoopYet
<1>2. QED
  BY <1>1, LockStep, ServiceTypeCorrect, PTL DEF Spec

\* However the processes of a machine start, fail, are stopped and are
\* killed, at most one of them runs the phone-home loop (console.rs:
\* acquire_instance_lock, the lock bound to a named local in run_loop).
THEOREM OneLoopPerMachine == Spec => []OneLoop
<1>1. LockIsLoop => OneLoop
  BY DEF LockIsLoop, OneLoop
<1>2. QED
  BY <1>1, LockHolds, PTL

\* Nobody is refused the lock because of a process that is gone or whose loop
\* has ended.
THEOREM LockBelongsToLoop == Spec => []LockImpliesLoop
<1>1. TypeOK /\ LockIsLoop => LockImpliesLoop
  BY DEF TypeOK, LockIsLoop, LockImpliesLoop
<1>2. QED
  BY <1>1, LockHolds, PTL
=============================================================================
