----------------------------- MODULE IpcProofs -----------------------------
(***************************************************************************)
(* What holds of Ipc for any number of processes and semaphores, any       *)
(* time-outs and any workload.                                             *)
(***************************************************************************)
EXTENDS Ipc, TLAPS

(* What a process inside a call knows: its semaphore is one, a wait is for *)
(* one that can be waited for, and the process to activate exists.         *)
InWait(p) == pc[p] \in {"timed", "forever", "taking"}
CallInv ==
  \A p \in Procs :
    /\ InWait(p) => sem[p] \in Waitable
    /\ pc[p] \in {"freed", "posting"} => sem[p] \in Sems
    /\ pc[p] = "posting" => dest[p] \in Procs

TypeInv == TypeOK /\ CallInv

(* A blocked process that will find the bit of the semaphore was sent it   *)
(* for a reason.                                                           *)
CauseInv ==
  \A p \in Procs : Blocked(p) /\ p \in rsn \union wake => cause[p] # {}

(* A release that was posted is in wakeup_rsn, and after one more sleep in *)
(* the hands of wait_event, with which the wait ends.                      *)
NapInv ==
  \A p \in Procs : Blocked(p) =>
    /\ naps[p] = 1 => p \in rsn
    /\ naps[p] = 2 => p \in wake
    /\ naps[p] # 3


LEMMA InitAll == Init => TypeInv /\ WaiterKnown /\ CauseInv /\ NapInv
<1> SUFFICES ASSUME Init
             PROVE  TypeInv /\ WaiterKnown /\ CauseInv /\ NapInv
  OBVIOUS
<1>1. TypeOK
  BY TimeAssumption DEF Init, TypeOK, Ticks, Places
<1>2. CallInv
  BY DEF Init, CallInv, InWait
<1>3. WaiterKnown /\ CauseInv /\ NapInv
  BY DEF Init, WaiterKnown, CauseInv, NapInv, Blocked
<1> QED
  BY <1>1, <1>2, <1>3 DEF TypeInv

LEMMA StepType == TypeInv /\ [Next]_vars => TypeOK'
<1> SUFFICES ASSUME TypeInv, [Next]_vars PROVE TypeOK'
  OBVIOUS
<1> USE ProcAssumption, SemAssumption, TimeAssumption DEF TypeInv, TypeOK, Ticks, Places, Causes
<1>1. ASSUME NEW p \in Procs, WaitOther(p)
     PROVE  TypeOK'
  BY <1>1 DEF WaitOther, Sleep
<1>2. ASSUME NEW p \in Procs, WaitOtherReturn(p)
     PROVE  TypeOK'
  BY <1>2 DEF WaitOtherReturn
<1>3. ASSUME NEW p \in Procs, NEW q \in Procs, MbxSend(p, q)
     PROVE  TypeOK'
  BY <1>3 DEF MbxSend
<1>4. ASSUME NEW p \in Procs, NEW j \in Sems, TryGet(p, j)
     PROVE  TypeOK'
  BY <1>4 DEF TryGet
<1>5. ASSUME NEW p \in Procs, NEW j \in Waitable, NEW t \in Timeouts,
              tick + t <= MaxTick, GetFree(p, j, t)
     PROVE  TypeOK'
  BY <1>5 DEF GetFree
<1>6. ASSUME NEW p \in Procs, NEW j \in Waitable, NEW t \in Timeouts,
              tick + t <= MaxTick, GetWait(p, j, t)
     PROVE  TypeOK'
  BY <1>6 DEF GetWait, Sleep
<1>7. ASSUME NEW p \in Procs, TimedAgain(p)
     PROVE  TypeOK'
  BY <1>7 DEF TimedAgain, Sleep, Nap
<1>8. ASSUME NEW p \in Procs, TimedReturn(p)
     PROVE  TypeOK'
  BY <1>8 DEF TimedReturn, CallInv, InWait
<1>9. ASSUME NEW p \in Procs, ForeverReturn(p)
     PROVE  TypeOK'
  BY <1>9 DEF ForeverReturn, CallInv, InWait
<1>10. ASSUME NEW p \in Procs, Take(p)
     PROVE  TypeOK'
  BY <1>10 DEF Take, CallInv, InWait
<1>11. ASSUME NEW p \in Procs, NEW j \in Sems, DestroyFree(p, j)
     PROVE  TypeOK'
  BY <1>11 DEF DestroyFree
<1>12. ASSUME NEW p \in Procs, DestroyTest(p)
     PROVE  TypeOK'
  BY <1>12 DEF DestroyTest, CallInv
<1>13. ASSUME NEW p \in Procs, DestroyPost(p)
     PROVE  TypeOK'
  BY <1>13 DEF DestroyPost, CallInv
<1>14. ASSUME NEW p \in Procs, NEW j \in Sems, Unqueue(p, j)
     PROVE  TypeOK'
  BY <1>14 DEF Unqueue
<1>15. CASE SysTick
  BY <1>15 DEF SysTick
<1>16. CASE UNCHANGED vars
  BY <1>16 DEF vars, code
<1> QED
  BY <1>1, <1>2, <1>3, <1>4, <1>5, <1>6, <1>7, <1>8, <1>9, <1>10, <1>11, <1>12, <1>13, <1>14, <1>15, <1>16 DEF Next, Call, InCall

LEMMA StepCall == TypeInv /\ [Next]_vars => CallInv'
<1> SUFFICES ASSUME TypeInv, [Next]_vars PROVE CallInv'
  OBVIOUS
<1> USE SemAssumption DEF TypeInv, TypeOK, CallInv, InWait
<1>1. ASSUME NEW p \in Procs, WaitOther(p)
     PROVE  CallInv'
  BY <1>1 DEF WaitOther
<1>2. ASSUME NEW p \in Procs, WaitOtherReturn(p)
     PROVE  CallInv'
  BY <1>2 DEF WaitOtherReturn
<1>3. ASSUME NEW p \in Procs, NEW q \in Procs, MbxSend(p, q)
     PROVE  CallInv'
  BY <1>3 DEF MbxSend
<1>4. ASSUME NEW p \in Procs, NEW j \in Sems, TryGet(p, j)
     PROVE  CallInv'
  BY <1>4 DEF TryGet
<1>5. ASSUME NEW p \in Procs, NEW j \in Waitable, NEW t \in Timeouts,
              tick + t <= MaxTick, GetFree(p, j, t)
     PROVE  CallInv'
  BY <1>5 DEF GetFree
<1>6. ASSUME NEW p \in Procs, NEW j \in Waitable, NEW t \in Timeouts,
              tick + t <= MaxTick, GetWait(p, j, t)
     PROVE  CallInv'
  BY <1>6 DEF GetWait
<1>7. ASSUME NEW p \in Procs, TimedAgain(p)
     PROVE  CallInv'
  BY <1>7 DEF TimedAgain
<1>8. ASSUME NEW p \in Procs, TimedReturn(p)
     PROVE  CallInv'
  BY <1>8 DEF TimedReturn
<1>9. ASSUME NEW p \in Procs, ForeverReturn(p)
     PROVE  CallInv'
  BY <1>9 DEF ForeverReturn
<1>10. ASSUME NEW p \in Procs, Take(p)
     PROVE  CallInv'
  BY <1>10 DEF Take
<1>11. ASSUME NEW p \in Procs, NEW j \in Sems, DestroyFree(p, j)
     PROVE  CallInv'
  BY <1>11 DEF DestroyFree
<1>12. ASSUME NEW p \in Procs, DestroyTest(p)
     PROVE  CallInv'
  BY <1>12 DEF DestroyTest, MustActivate
<1>13. ASSUME NEW p \in Procs, DestroyPost(p)
     PROVE  CallInv'
  BY <1>13 DEF DestroyPost
<1>14. ASSUME NEW p \in Procs, NEW j \in Sems, Unqueue(p, j)
     PROVE  CallInv'
  BY <1>14 DEF Unqueue
<1>15. CASE SysTick
  BY <1>15 DEF SysTick
<1>16. CASE UNCHANGED vars
  BY <1>16 DEF vars, code
<1> QED
  BY <1>1, <1>2, <1>3, <1>4, <1>5, <1>6, <1>7, <1>8, <1>9, <1>10, <1>11, <1>12, <1>13, <1>14, <1>15, <1>16 DEF Next, Call, InCall

LEMMA StepWaiter == OwnPlace /\ TypeInv /\ WaiterKnown /\ [Next]_vars => WaiterKnown'
<1> SUFFICES ASSUME OwnPlace, TypeInv, WaiterKnown, [Next]_vars PROVE WaiterKnown'
  OBVIOUS
<1> USE ProcAssumption, SemAssumption DEF TypeInv, TypeOK, CallInv, InWait, WaiterKnown, Blocked
<1>1. ASSUME NEW p \in Procs, WaitOther(p)
     PROVE  WaiterKnown'
  BY <1>1 DEF WaitOther
<1>2. ASSUME NEW p \in Procs, WaitOtherReturn(p)
     PROVE  WaiterKnown'
  BY <1>2 DEF WaitOtherReturn
<1>3. ASSUME NEW p \in Procs, NEW q \in Procs, MbxSend(p, q)
     PROVE  WaiterKnown'
  BY <1>3 DEF MbxSend
<1>4. ASSUME NEW p \in Procs, NEW j \in Sems, TryGet(p, j)
     PROVE  WaiterKnown'
  BY <1>4 DEF TryGet
<1>5. ASSUME NEW p \in Procs, NEW j \in Waitable, NEW t \in Timeouts,
              tick + t <= MaxTick, GetFree(p, j, t)
     PROVE  WaiterKnown'
  BY <1>5 DEF GetFree
<1>6. ASSUME NEW p \in Procs, NEW j \in Waitable, NEW t \in Timeouts,
              tick + t <= MaxTick, GetWait(p, j, t)
     PROVE  WaiterKnown'
  BY <1>6 DEF GetWait, MayQueue
<1>7. ASSUME NEW p \in Procs, TimedAgain(p)
     PROVE  WaiterKnown'
  BY <1>7 DEF TimedAgain
<1>8. ASSUME NEW p \in Procs, TimedReturn(p)
     PROVE  WaiterKnown'
  BY <1>8 DEF TimedReturn
<1>9. ASSUME NEW p \in Procs, ForeverReturn(p)
     PROVE  WaiterKnown'
  BY <1>9 DEF ForeverReturn
<1>10. ASSUME NEW p \in Procs, Take(p)
     PROVE  WaiterKnown'
  BY <1>10 DEF Take
<1>11. ASSUME NEW p \in Procs, NEW j \in Sems, DestroyFree(p, j)
     PROVE  WaiterKnown'
  BY <1>11 DEF DestroyFree
<1>12. ASSUME NEW p \in Procs, DestroyTest(p)
     PROVE  WaiterKnown'
  BY <1>12 DEF DestroyTest
<1>13. ASSUME NEW p \in Procs, DestroyPost(p)
     PROVE  WaiterKnown'
  BY <1>13 DEF DestroyPost
<1>14. ASSUME NEW p \in Procs, NEW j \in Sems, Unqueue(p, j)
     PROVE  WaiterKnown'
  BY <1>14 DEF Unqueue
<1>15. CASE SysTick
  BY <1>15 DEF SysTick
<1>16. CASE UNCHANGED vars
  BY <1>16 DEF vars, code
<1> QED
  BY <1>1, <1>2, <1>3, <1>4, <1>5, <1>6, <1>7, <1>8, <1>9, <1>10, <1>11, <1>12, <1>13, <1>14, <1>15, <1>16 DEF Next, Call, InCall

LEMMA StepTold == TypeInv /\ WaiterKnown /\ FreeIsTold /\ [Next]_vars => FreeIsTold'
<1> SUFFICES ASSUME TypeInv, WaiterKnown, FreeIsTold, [Next]_vars PROVE FreeIsTold'
  OBVIOUS
<1> USE ProcAssumption, SemAssumption DEF TypeInv, TypeOK, CallInv, InWait, Blocked, WaiterKnown, FreeIsTold, WillTell
<1>1. ASSUME NEW p \in Procs, WaitOther(p)
     PROVE  FreeIsTold'
  BY <1>1 DEF WaitOther
<1>2. ASSUME NEW p \in Procs, WaitOtherReturn(p)
     PROVE  FreeIsTold'
  BY <1>2 DEF WaitOtherReturn
<1>3. ASSUME NEW p \in Procs, NEW q \in Procs, MbxSend(p, q)
     PROVE  FreeIsTold'
  BY <1>3 DEF MbxSend
<1>4. ASSUME NEW p \in Procs, NEW j \in Sems, TryGet(p, j)
     PROVE  FreeIsTold'
  BY <1>4 DEF TryGet
<1>5. ASSUME NEW p \in Procs, NEW j \in Waitable, NEW t \in Timeouts,
              tick + t <= MaxTick, GetFree(p, j, t)
     PROVE  FreeIsTold'
  BY <1>5 DEF GetFree
<1>6. ASSUME NEW p \in Procs, NEW j \in Waitable, NEW t \in Timeouts,
              tick + t <= MaxTick, GetWait(p, j, t)
     PROVE  FreeIsTold'
  BY <1>6 DEF GetWait, MayTake
<1>7. ASSUME NEW p \in Procs, TimedAgain(p)
     PROVE  FreeIsTold'
  BY <1>7 DEF TimedAgain, Nap
<1>8. ASSUME NEW p \in Procs, TimedReturn(p)
     PROVE  FreeIsTold'
  BY <1>8 DEF TimedReturn
<1>9. ASSUME NEW p \in Procs, ForeverReturn(p)
     PROVE  FreeIsTold'
  BY <1>9 DEF ForeverReturn
<1>10. ASSUME NEW p \in Procs, Take(p)
     PROVE  FreeIsTold'
  BY <1>10 DEF Take
<1>11. ASSUME NEW p \in Procs, NEW j \in Sems, DestroyFree(p, j)
     PROVE  FreeIsTold'
  BY <1>11 DEF DestroyFree
<1>12. ASSUME NEW p \in Procs, DestroyTest(p)
     PROVE  FreeIsTold'
  BY <1>12 DEF DestroyTest, MustActivate
<1>13. ASSUME NEW p \in Procs, DestroyPost(p)
     PROVE  FreeIsTold'
  BY <1>13 DEF DestroyPost, Released
<1>14. ASSUME NEW p \in Procs, NEW j \in Sems, Unqueue(p, j)
     PROVE  FreeIsTold'
  BY <1>14 DEF Unqueue
<1>15. CASE SysTick
  BY <1>15 DEF SysTick
<1>16. CASE UNCHANGED vars
  BY <1>16 DEF vars, code
<1> QED
  BY <1>1, <1>2, <1>3, <1>4, <1>5, <1>6, <1>7, <1>8, <1>9, <1>10, <1>11, <1>12, <1>13, <1>14, <1>15, <1>16 DEF Next, Call, InCall

LEMMA StepCause == TypeInv /\ CauseInv /\ [Next]_vars => CauseInv'
<1> SUFFICES ASSUME TypeInv, CauseInv, [Next]_vars PROVE CauseInv'
  OBVIOUS
<1> USE DEF TypeInv, TypeOK, CauseInv, Blocked
<1>1. ASSUME NEW p \in Procs, WaitOther(p)
     PROVE  CauseInv'
  BY <1>1 DEF WaitOther, Sleep
<1>2. ASSUME NEW p \in Procs, WaitOtherReturn(p)
     PROVE  CauseInv'
  BY <1>2 DEF WaitOtherReturn
<1>3. ASSUME NEW p \in Procs, NEW q \in Procs, MbxSend(p, q)
     PROVE  CauseInv'
  BY <1>3 DEF MbxSend
<1>4. ASSUME NEW p \in Procs, NEW j \in Sems, TryGet(p, j)
     PROVE  CauseInv'
  BY <1>4 DEF TryGet
<1>5. ASSUME NEW p \in Procs, NEW j \in Waitable, NEW t \in Timeouts,
              tick + t <= MaxTick, GetFree(p, j, t)
     PROVE  CauseInv'
  BY <1>5 DEF GetFree
<1>6. ASSUME NEW p \in Procs, NEW j \in Waitable, NEW t \in Timeouts,
              tick + t <= MaxTick, GetWait(p, j, t)
     PROVE  CauseInv'
  BY <1>6 DEF GetWait, Sleep
<1>7. ASSUME NEW p \in Procs, TimedAgain(p)
     PROVE  CauseInv'
  BY <1>7 DEF TimedAgain, Sleep, Leaves
<1>8. ASSUME NEW p \in Procs, TimedReturn(p)
     PROVE  CauseInv'
  BY <1>8 DEF TimedReturn, Leaves
<1>9. ASSUME NEW p \in Procs, ForeverReturn(p)
     PROVE  CauseInv'
  BY <1>9 DEF ForeverReturn
<1>10. ASSUME NEW p \in Procs, Take(p)
     PROVE  CauseInv'
  BY <1>10 DEF Take
<1>11. ASSUME NEW p \in Procs, NEW j \in Sems, DestroyFree(p, j)
     PROVE  CauseInv'
  BY <1>11 DEF DestroyFree
<1>12. ASSUME NEW p \in Procs, DestroyTest(p)
     PROVE  CauseInv'
  BY <1>12 DEF DestroyTest
<1>13. ASSUME NEW p \in Procs, DestroyPost(p)
     PROVE  CauseInv'
  BY <1>13 DEF DestroyPost
<1>14. ASSUME NEW p \in Procs, NEW j \in Sems, Unqueue(p, j)
     PROVE  CauseInv'
  BY <1>14 DEF Unqueue
<1>15. CASE SysTick
  BY <1>15 DEF SysTick
<1>16. CASE UNCHANGED vars
  BY <1>16 DEF vars, code
<1> QED
  BY <1>1, <1>2, <1>3, <1>4, <1>5, <1>6, <1>7, <1>8, <1>9, <1>10, <1>11, <1>12, <1>13, <1>14, <1>15, <1>16 DEF Next, Call, InCall

LEMMA StepNap == TypeInv /\ NapInv /\ [Next]_vars => NapInv'
<1> SUFFICES ASSUME TypeInv, NapInv, [Next]_vars PROVE NapInv'
  OBVIOUS
<1> USE DEF TypeInv, TypeOK, NapInv, Blocked
<1>1. ASSUME NEW p \in Procs, WaitOther(p)
     PROVE  NapInv'
  BY <1>1 DEF WaitOther, Sleep
<1>2. ASSUME NEW p \in Procs, WaitOtherReturn(p)
     PROVE  NapInv'
  BY <1>2 DEF WaitOtherReturn
<1>3. ASSUME NEW p \in Procs, NEW q \in Procs, MbxSend(p, q)
     PROVE  NapInv'
  BY <1>3 DEF MbxSend
<1>4. ASSUME NEW p \in Procs, NEW j \in Sems, TryGet(p, j)
     PROVE  NapInv'
  BY <1>4 DEF TryGet
<1>5. ASSUME NEW p \in Procs, NEW j \in Waitable, NEW t \in Timeouts,
              tick + t <= MaxTick, GetFree(p, j, t)
     PROVE  NapInv'
  BY <1>5 DEF GetFree
<1>6. ASSUME NEW p \in Procs, NEW j \in Waitable, NEW t \in Timeouts,
              tick + t <= MaxTick, GetWait(p, j, t)
     PROVE  NapInv'
  BY <1>6 DEF GetWait, Sleep
<1>7. ASSUME NEW p \in Procs, TimedAgain(p)
     PROVE  NapInv'
  BY <1>7 DEF TimedAgain, Sleep, Leaves, Nap
<1>8. ASSUME NEW p \in Procs, TimedReturn(p)
     PROVE  NapInv'
  BY <1>8 DEF TimedReturn
<1>9. ASSUME NEW p \in Procs, ForeverReturn(p)
     PROVE  NapInv'
  BY <1>9 DEF ForeverReturn
<1>10. ASSUME NEW p \in Procs, Take(p)
     PROVE  NapInv'
  BY <1>10 DEF Take
<1>11. ASSUME NEW p \in Procs, NEW j \in Sems, DestroyFree(p, j)
     PROVE  NapInv'
  BY <1>11 DEF DestroyFree
<1>12. ASSUME NEW p \in Procs, DestroyTest(p)
     PROVE  NapInv'
  BY <1>12 DEF DestroyTest
<1>13. ASSUME NEW p \in Procs, DestroyPost(p)
     PROVE  NapInv'
  BY <1>13 DEF DestroyPost, Released
<1>14. ASSUME NEW p \in Procs, NEW j \in Sems, Unqueue(p, j)
     PROVE  NapInv'
  BY <1>14 DEF Unqueue
<1>15. CASE SysTick
  BY <1>15 DEF SysTick
<1>16. CASE UNCHANGED vars
  BY <1>16 DEF vars, code
<1> QED
  BY <1>1, <1>2, <1>3, <1>4, <1>5, <1>6, <1>7, <1>8, <1>9, <1>10, <1>11, <1>12, <1>13, <1>14, <1>15, <1>16 DEF Next, Call, InCall

(* Every variable keeps its type, and a release activates a real process.   *)
THEOREM TypeCorrect == Spec => []TypeOK
<1>1. Init => TypeInv
  BY InitAll
<1>2. TypeInv /\ [Next]_vars => (TypeInv)'
  BY StepType, StepCall DEF TypeInv
<1>3. TypeInv => TypeOK
  BY DEF TypeInv
<1> QED
  BY <1>1, <1>2, <1>3, PTL DEF Spec

(* No waiting process loses its place to another caller, nor by its        *)
(* semaphore being destroyed, whoever destroys it (get_semaphore,          *)
(* destroy_semaphore, remove_from_waiting_semaphore).                      *)
THEOREM WaiterStaysKnown == ASSUME OwnPlace PROVE Spec => []WaiterKnown
<1>1. Init => (TypeInv /\ WaiterKnown)
  BY InitAll
<1>2. (TypeInv /\ WaiterKnown) /\ [Next]_vars => ((TypeInv /\ WaiterKnown))'
  BY StepType, StepCall, StepWaiter DEF TypeInv
<1>3. (TypeInv /\ WaiterKnown) => WaiterKnown
  OBVIOUS
<1> QED
  BY <1>1, <1>2, <1>3, PTL DEF Spec

(* No process sleeps on a free semaphore without a release posted to it or *)
(* on its way, wherever destroy_semaphore is interrupted.                  *)
THEOREM NobodySleepsOnFree == ASSUME OwnPlace PROVE Spec => []FreeIsTold
<1>1. Init => (TypeInv /\ WaiterKnown /\ FreeIsTold)
  BY InitAll DEF Init, FreeIsTold, Blocked
<1>2. (TypeInv /\ WaiterKnown /\ FreeIsTold) /\ [Next]_vars
        => ((TypeInv /\ WaiterKnown /\ FreeIsTold))'
  BY StepType, StepCall, StepWaiter, StepTold DEF TypeInv
<1>3. (TypeInv /\ WaiterKnown /\ FreeIsTold) => FreeIsTold
  OBVIOUS
<1> QED
  BY <1>1, <1>2, <1>3, PTL DEF Spec

(* A wait with a time-out ends only for one of the three causes.            *)
THEOREM GrantsAreExplained == Spec => []GrantExplained
<1>1. Init => (TypeInv /\ CauseInv)
  BY InitAll
<1>2. (TypeInv /\ CauseInv) /\ [Next]_vars => ((TypeInv /\ CauseInv))'
  BY StepType, StepCall, StepCause DEF TypeInv
<1>3. (TypeInv /\ CauseInv) => GrantExplained
  BY DEF CauseInv, GrantExplained, Blocked, Leaves
<1> QED
  BY <1>1, <1>2, <1>3, PTL DEF Spec

(* A posted release ends the wait at the next activation but one at most.  *)
THEOREM ReleasesReach == Spec => []ReleaseReaches
<1>1. Init => (TypeInv /\ NapInv)
  BY InitAll
<1>2. (TypeInv /\ NapInv) /\ [Next]_vars => ((TypeInv /\ NapInv))'
  BY StepType, StepCall, StepNap DEF TypeInv
<1>3. (TypeInv /\ NapInv) => ReleaseReaches
  BY DEF TypeInv, TypeOK, NapInv, ReleaseReaches
<1> QED
  BY <1>1, <1>2, <1>3, PTL DEF Spec
=============================================================================
