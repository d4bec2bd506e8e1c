---------------------------- MODULE TimersProofs ----------------------------
(* Theorems about Timers, for any number of timers, counter width and tick  *)
(* counts.                                                                  *)
EXTENDS Timers, TLAPS

(* Adding to a tick count stays within the counter (update_global_tick_count).*)
LEMMA LaterType ==
  ASSUME NEW t \in 0 .. W - 1, NEW d \in 0 .. W - 1
  PROVE  Later(t, d) \in 0 .. W - 1
  BY TickAssumption DEF Later

(* One more tick stays within the counter, also when it has one value only. *)
LEMMA NextTickType ==
  ASSUME NEW t \in 0 .. W - 1
  PROVE  Later(t, 1) \in 0 .. W - 1
  BY TickAssumption DEF Later

(* create_timer keeps the types of what it sets.                            *)
LEMMA ArmType ==
  ASSUME TypeOK, NEW i \in Timers, NEW count \in Counts,
         NEW user \in SUBSET UserFlags, Arm(i, count, user)
  PROVE  /\ flags' \in [Timers -> SUBSET Flags]
         /\ value' \in [Timers -> 0 .. W - 1]
         /\ deadline' \in [Timers -> 0 .. W - 1]
         /\ left' \in [Timers -> 0 .. W - 1]
         /\ crossed' \in SUBSET Timers
         /\ expired' = expired /\ read' = read /\ unread' = unread
<1>1. count \in 0 .. W - 1
  BY CountAssumption
<1>2. Later(tick, count) \in 0 .. W - 1
  BY <1>1, LaterType DEF TypeOK
<1> QED
  BY <1>1, <1>2 DEF Arm, TypeOK, Flags, UserFlags

(* The deadline a tick leaves behind (check_timers) is in the counter.      *)
LEMMA NextDeadlineType ==
  ASSUME TypeOK, NEW i \in Timers, NEW now \in 0 .. W - 1
  PROVE  NextDeadline(i, now) \in 0 .. W - 1
<1>1. deadline[i] \in 0 .. W - 1 /\ value[i] \in 0 .. W - 1
  BY DEF TypeOK
<1> QED
  BY <1>1, LaterType, NextTickType DEF NextDeadline

(* Every step of the tick and of the calls keeps the types.                 *)
LEMMA TypeStep == TypeOK /\ [Next]_vars => TypeOK'
<1> SUFFICES ASSUME TypeOK, [Next]_vars PROVE TypeOK'
  OBVIOUS
<1>1. CASE SysTick
  <2>1. tick' \in 0 .. W - 1
    BY <1>1, NextTickType DEF SysTick, TypeOK
  <2>2. deadline' \in [Timers -> 0 .. W - 1]
    BY <1>1, <2>1, NextDeadlineType DEF SysTick
  <2>3. left' \in [Timers -> 0 .. W - 1]
    <3>1. \A i \in Timers : left[i] \in 0 .. W - 1 /\ value[i] \in 0 .. W - 1
      BY DEF TypeOK
    <3>2. \A i \in Timers : left[i] # 0 => left[i] - 1 \in 0 .. W - 1
      BY <3>1, TickAssumption
    <3> QED
      BY <1>1, <3>1, <3>2, TickAssumption DEF SysTick
  <2>4. crossed' \in SUBSET Timers
    BY <1>1 DEF SysTick
  <2>5. {i \in Timers : Due(i, tick')} \in SUBSET Timers
    OBVIOUS
  <2>6. expired' \in SUBSET Timers /\ unread' \in SUBSET Timers
    BY <1>1, <2>5 DEF SysTick, TypeOK, ExpiredAfter
  <2>7. ready' \in BOOLEAN
    BY <1>1 DEF SysTick, TypeOK, ReadyAfter
  <2> QED
    BY <1>1, <2>1, <2>2, <2>3, <2>4, <2>6, <2>7 DEF SysTick, TypeOK
<1>2. CASE Activate
  BY <1>2 DEF Activate, TypeOK
<1>3. ASSUME NEW i \in Ids, NEW count \in Counts, NEW user \in SUBSET UserFlags,
             CreateTimer(i, count, user)
      PROVE  TypeOK'
  <2>1. i \in Timers
    BY MaskAssumption
  <2> QED
    BY <1>3, <2>1, ArmType DEF CreateTimer, Call, TypeOK
<1>4. ASSUME NEW i \in Ids, StartTimer(i)
      PROVE  TypeOK'
  BY <1>4, MaskAssumption
  DEF StartTimer, Call, KeepTimes, TypeOK, Flags, UserFlags
<1>5. ASSUME NEW i \in Ids, RestartTimer(i)
      PROVE  TypeOK'
  BY <1>5, MaskAssumption DEF RestartTimer, Call, KeepTimes, TypeOK
<1>6. ASSUME NEW count \in Counts, NEW user \in SUBSET UserFlags,
             RestartCreate(count, user)
      PROVE  TypeOK'
  <2>1. id \in Timers /\ 0 \in Timers
    BY TimerAssumption DEF TypeOK, Timers
  <2> QED
    BY <1>6, <2>1, ArmType DEF RestartCreate, TypeOK
<1>7. ASSUME NEW i \in Ids, StopTimer(i)
      PROVE  TypeOK'
  BY <1>7 DEF StopTimer, Call, KeepTimes, TypeOK
<1>8. ASSUME NEW i \in Ids, DestroyTimer(i)
      PROVE  TypeOK'
  BY <1>8 DEF DestroyTimer, Call, KeepTimes, TypeOK
<1>9. CASE ExpiredRead
  BY <1>9 DEF ExpiredRead, Call, TypeOK
<1>10. CASE ExpiredClear
  BY <1>10 DEF ExpiredClear, TypeOK
<1>11. ASSUME NEW timers \in BOOLEAN, WaitEvent(timers)
       PROVE  TypeOK'
  BY <1>11 DEF WaitEvent, TypeOK
<1>12. CASE WaitReturn
  BY <1>12 DEF WaitReturn, TypeOK
<1>13. CASE UNCHANGED vars
  BY <1>13 DEF vars, code, history, TypeOK
<1> QED
  BY <1>1, <1>2, <1>3, <1>4, <1>5, <1>6, <1>7, <1>8, <1>9, <1>10, <1>11, <1>12,
     <1>13 DEF Next, ProcessStep

LEMMA TypeInit == Init => TypeOK
<1>1. 0 \in 0 .. W - 1 /\ 0 \in Timers
  BY TickAssumption, TimerAssumption DEF Timers
<1> QED
  BY <1>1 DEF Init, TypeOK

(* Every variable of the timers keeps its type (timer.c).                   *)
THEOREM TypeCorrect == Spec => []TypeOK
<1> QED
  BY TypeInit, TypeStep, PTL DEF Spec

-----------------------------------------------------------------------------
(* Expiries *)

(* While get_timer_expired runs, what it must not lose is in its hands;     *)
(* otherwise it is in timer_expired.                                        *)
ExpiryInv == unread \subseteq (IF pc = "get" THEN read ELSE expired)

(* No call and no tick loses an expiry that came outside                    *)
(* get_timer_expired.                                                       *)
LEMMA ExpiryStep == TypeOK /\ ExpiryInv /\ [Next]_vars => ExpiryInv'
<1> SUFFICES ASSUME TypeOK, ExpiryInv, [Next]_vars PROVE ExpiryInv'
  OBVIOUS
<1> USE DEF ExpiryInv
<1>1. CASE SysTick
  BY <1>1 DEF SysTick, ExpiredAfter
<1>2. CASE Activate
  BY <1>2 DEF Activate
<1>3. ASSUME NEW i \in Ids, NEW count \in Counts, NEW user \in SUBSET UserFlags,
             CreateTimer(i, count, user)
      PROVE  ExpiryInv'
  BY <1>3 DEF CreateTimer, Call, Arm
<1>4. ASSUME NEW i \in Ids,
             StartTimer(i) \/ RestartTimer(i) \/ StopTimer(i) \/ DestroyTimer(i)
      PROVE  ExpiryInv'
  BY <1>4 DEF StartTimer, RestartTimer, StopTimer, DestroyTimer, Call, KeepTimes
<1>5. ASSUME NEW count \in Counts, NEW user \in SUBSET UserFlags,
             RestartCreate(count, user)
      PROVE  ExpiryInv'
  BY <1>5 DEF RestartCreate, Arm
<1>6. CASE ExpiredRead
  BY <1>6 DEF ExpiredRead, Call
<1>7. CASE ExpiredClear
  BY <1>7 DEF ExpiredClear
<1>8. ASSUME NEW timers \in BOOLEAN, WaitEvent(timers)
      PROVE  ExpiryInv'
  BY <1>8 DEF WaitEvent
<1>9. CASE WaitReturn
  BY <1>9 DEF WaitReturn
<1>10. CASE UNCHANGED vars
  BY <1>10 DEF vars, code, history
<1> QED
  BY <1>1, <1>2, <1>3, <1>4, <1>5, <1>6, <1>7, <1>8, <1>9, <1>10
  DEF Next, ProcessStep

(* What fires outside a call of get_timer_expired is kept until the call    *)
(* returns it.                                                              *)
THEOREM NoExpiryLost == Spec => []ExpiriesKept
<1>1. Init => ExpiryInv
  BY DEF Init, ExpiryInv
<1>2. ExpiryInv => ExpiriesKept
  BY DEF ExpiryInv, ExpiriesKept
<1> QED
  BY <1>1, <1>2, ExpiryStep, TypeCorrect, PTL DEF Spec

(* A step keeps WakeHasExpiry: what makes a waiting process ready is an     *)
(* activation or a timer that fires, and only the process empties           *)
(* timer_expired.                                                           *)
LEMMA WakeStep == WakeHasExpiry /\ [Next]_vars => WakeHasExpiry'
<1> SUFFICES ASSUME WakeHasExpiry, [Next]_vars PROVE WakeHasExpiry'
  OBVIOUS
<1> USE DEF WakeHasExpiry
<1>1. CASE SysTick
  BY <1>1 DEF SysTick, ExpiredAfter, ReadyAfter
<1>2. CASE Activate
  BY <1>2 DEF Activate
<1>3. ASSUME NEW i \in Ids, NEW count \in Counts, NEW user \in SUBSET UserFlags,
             CreateTimer(i, count, user)
      PROVE  WakeHasExpiry'
  BY <1>3 DEF CreateTimer, Call
<1>4. ASSUME NEW i \in Ids,
             StartTimer(i) \/ RestartTimer(i) \/ StopTimer(i) \/ DestroyTimer(i)
      PROVE  WakeHasExpiry'
  BY <1>4 DEF StartTimer, RestartTimer, StopTimer, DestroyTimer, Call
<1>5. ASSUME NEW count \in Counts, NEW user \in SUBSET UserFlags,
             RestartCreate(count, user)
      PROVE  WakeHasExpiry'
  BY <1>5 DEF RestartCreate
<1>6. CASE ExpiredRead \/ ExpiredClear \/ WaitReturn
  BY <1>6 DEF ExpiredRead, ExpiredClear, WaitReturn, Call
<1>7. ASSUME NEW timers \in BOOLEAN, WaitEvent(timers)
      PROVE  WakeHasExpiry'
  BY <1>7 DEF WaitEvent
<1>8. CASE UNCHANGED vars
  BY <1>8 DEF vars, code, history
<1> QED
  BY <1>1, <1>2, <1>3, <1>4, <1>5, <1>6, <1>7, <1>8 DEF Next, ProcessStep

(* A process nothing else has activated finds an expired timer when it      *)
(* comes back from wait_event.                                              *)
THEOREM WakesHaveExpiries == Spec => []WakeHasExpiry
<1>1. Init => WakeHasExpiry
  BY DEF Init, WakeHasExpiry
<1> QED
  BY <1>1, WakeStep, PTL DEF Spec

-----------------------------------------------------------------------------
(* Time *)

(* Away from the wrap, the deadline of a timer in use is as far ahead of    *)
(* the tick as the timer has still to run; if its ticks are up, it is past. *)
Ahead(i) ==
  InUse(i) /\ i \notin crossed =>
    IF left[i] = 0 THEN deadline[i] <= tick ELSE deadline[i] = tick + left[i]
ClockInv == \A i \in Timers : Ahead(i)

(* create_timer leaves the deadline its tick count ahead.                   *)
LEMMA ArmAhead ==
  ASSUME TypeOK, ClockInv, NEW i \in Timers, NEW count \in Counts,
         NEW user \in SUBSET UserFlags, Arm(i, count, user), tick' = tick
  PROVE  ClockInv'
<1> SUFFICES ASSUME NEW j \in Timers PROVE Ahead(j)'
  BY DEF ClockInv
<1>1. count \in Nat /\ tick \in Nat
  BY CountAssumption, TickAssumption DEF TypeOK
<1>2. CASE j = i
  <2>1. left'[j] = count /\ deadline'[j] = Later(tick, count)
    BY <1>2 DEF Arm, TypeOK
  <2>2. j \in crossed' <=> ~(tick + count < W)
    BY <1>2 DEF Arm
  <2>3. CASE tick + count < W
    BY <1>1, <2>1, <2>3 DEF Later, Ahead
  <2>4. CASE ~(tick + count < W)
    BY <2>2, <2>4 DEF Ahead
  <2> QED
    BY <2>3, <2>4
<1>3. CASE j # i
  BY <1>3 DEF Arm, TypeOK, ClockInv, Ahead, InUse
<1> QED
  BY <1>2, <1>3

(* A tick moves the tick and the ticks left together, and the deadline of a *)
(* stopped timer with the tick.                                             *)
LEMMA TickAhead ==
  ASSUME TypeOK, TypeOK', ClockInv, SysTick
  PROVE  ClockInv'
<1> SUFFICES ASSUME NEW j \in Timers, InUse(j)', j \notin crossed'
             PROVE  IF left'[j] = 0 THEN deadline'[j] <= tick'
                                    ELSE deadline'[j] = tick' + left'[j]
  BY DEF ClockInv, Ahead
<1>1. InUse(j)
  BY DEF SysTick, InUse
<1>2. /\ tick \in Nat /\ tick' \in Nat /\ left[j] \in Nat /\ W \in Nat
      /\ deadline[j] \in Nat /\ value[j] \in Nat
  BY TickAssumption DEF TypeOK
<1>3. deadline'[j] = NextDeadline(j, tick')
  BY DEF SysTick
<1>4. CASE Due(j, tick') /\ Periodic(j)
  <2>1. left'[j] = value[j]
    BY <1>1, <1>4 DEF SysTick
  <2>2. ~(tick' + value[j] >= W)
    BY <1>4 DEF SysTick
  <2>3. tick' + value[j] < W
    BY <2>2, <1>2
  <2>4. deadline'[j] = tick' + value[j]
    BY <1>3, <1>4, <2>3 DEF NextDeadline, Later
  <2> QED
    BY <2>1, <2>4, <1>2
<1>5. CASE ~(Due(j, tick') /\ Periodic(j))
  <2>1. j \notin crossed /\ tick' # 0 /\ ~(Paused(j) /\ deadline[j] + 1 >= W)
    BY <1>1, <1>5 DEF SysTick
  <2>2. tick' = tick + 1
    <3>1. tick < W /\ tick' = Later(tick, 1)
      BY <1>2 DEF SysTick, TypeOK
    <3>2. tick + 1 < W
      BY <3>1, <2>1, <1>2 DEF Later
    <3> QED
      BY <3>1, <3>2 DEF Later
  <2>3. IF left[j] = 0 THEN deadline[j] <= tick ELSE deadline[j] = tick + left[j]
    BY <1>1, <2>1 DEF ClockInv, Ahead
  <2>4. CASE Paused(j)
    <3>1. left'[j] = left[j]
      BY <1>1, <1>5, <2>4 DEF SysTick
    <3>2. deadline[j] + 1 < W
      BY <2>1, <2>4, <1>2
    <3>3. deadline'[j] = deadline[j] + 1
      BY <1>3, <1>5, <2>4, <3>2 DEF NextDeadline, Later
    <3> QED
      BY <3>1, <3>3, <2>2, <2>3, <1>2
  <2>5. CASE ~Paused(j)
    <3>1. left'[j] = IF left[j] = 0 THEN left[j] ELSE left[j] - 1
      BY <1>1, <1>5, <2>5 DEF SysTick
    <3>2. deadline'[j] = deadline[j]
      BY <1>3, <1>5, <2>5 DEF NextDeadline
    <3> QED
      BY <3>1, <3>2, <2>2, <2>3, <1>2
  <2> QED
    BY <2>4, <2>5
<1> QED
  BY <1>4, <1>5

(* Every step keeps ClockInv.                                               *)
LEMMA ClockStep == TypeOK /\ TypeOK' /\ ClockInv /\ [Next]_vars => ClockInv'
<1> SUFFICES ASSUME TypeOK, TypeOK', ClockInv, [Next]_vars PROVE ClockInv'
  OBVIOUS
<1>1. CASE SysTick
  BY <1>1, TickAhead
<1>2. CASE Activate \/ ExpiredRead \/ ExpiredClear \/ WaitReturn
  BY <1>2 DEF Activate, ExpiredRead, ExpiredClear, WaitReturn, Call, ClockInv,
              Ahead, InUse
<1>3. ASSUME NEW i \in Ids, NEW count \in Counts, NEW user \in SUBSET UserFlags,
             CreateTimer(i, count, user)
      PROVE  ClockInv'
  <2>1. i \in Timers
    BY MaskAssumption
  <2> QED
    BY <1>3, <2>1, ArmAhead DEF CreateTimer, Call
<1>4. ASSUME NEW i \in Ids,
             StartTimer(i) \/ RestartTimer(i) \/ StopTimer(i) \/ DestroyTimer(i)
      PROVE  ClockInv'
  <2>1. UNCHANGED <<tick, deadline, left, crossed>>
    BY <1>4 DEF StartTimer, RestartTimer, StopTimer, DestroyTimer, Call, KeepTimes
  <2>2. \A j \in Timers : InUse(j)' => InUse(j)
    BY <1>4 DEF StartTimer, RestartTimer, StopTimer, DestroyTimer, InUse, TypeOK
  <2> QED
    BY <2>1, <2>2 DEF ClockInv, Ahead
<1>5. ASSUME NEW count \in Counts, NEW user \in SUBSET UserFlags,
             RestartCreate(count, user)
      PROVE  ClockInv'
  BY <1>5, ArmAhead DEF RestartCreate, TypeOK
<1>6. ASSUME NEW timers \in BOOLEAN, WaitEvent(timers)
      PROVE  ClockInv'
  BY <1>6 DEF WaitEvent, ClockInv, Ahead, InUse
<1>7. CASE UNCHANGED vars
  BY <1>7 DEF vars, code, history, ClockInv, Ahead, InUse
<1> QED
  BY <1>1, <1>2, <1>3, <1>4, <1>5, <1>6, <1>7 DEF Next, ProcessStep

(* The deadlines are where the ticks left say, throughout.                  *)
LEMMA ClockCorrect == Spec => [](TypeOK /\ ClockInv)
<1>1. Init => ClockInv
  BY DEF Init, ClockInv, Ahead, InUse
<1> QED
  BY <1>1, TypeInit, TypeStep, ClockStep, PTL DEF Spec

(* Only the tick adds to timer_expired, and only timers that are due.       *)
LEMMA OnlyTickExpires ==
  ASSUME [Next]_vars, NEW i \in Timers, i \in expired' \ expired
  PROVE  SysTick /\ Due(i, tick')
<1>1. CASE SysTick
  BY <1>1 DEF SysTick, ExpiredAfter
<1>2. CASE Activate
  BY <1>2 DEF Activate
<1>3. CASE ProcessStep
  BY <1>3 DEF ProcessStep, CreateTimer, StartTimer, RestartTimer, RestartCreate,
              StopTimer, DestroyTimer, ExpiredRead, ExpiredClear, WaitEvent,
              WaitReturn, Arm, KeepTimes
<1>4. CASE UNCHANGED vars
  BY <1>4 DEF vars, code
<1> QED
  BY <1>1, <1>2, <1>3, <1>4 DEF Next

(* A timer does not fire before its ticks have gone by, away from the wrap. *)
THEOREM NeverEarly == Spec => NotEarly
<1>1. ASSUME TypeOK, ClockInv, [Next]_vars, NEW i \in Timers
      PROVE  ~FiresEarly(i)
  <2> SUFFICES ASSUME i \in expired' \ expired, i \notin crossed, left[i] > 1
               PROVE  FALSE
    BY DEF FiresEarly
  <2>1. tick' = Later(tick, 1) /\ InUse(i) /\ tick' >= deadline[i]
    BY <1>1, OnlyTickExpires DEF SysTick, Due, Served
  <2>2. tick \in Nat /\ left[i] \in Nat /\ W \in Nat /\ tick < W
    BY <1>1, TickAssumption DEF TypeOK
  <2>3. deadline[i] = tick + left[i]
    BY <1>1, <2>1, <2>2 DEF ClockInv, Ahead
  <2>4. tick' \in Int /\ tick' <= tick + 1
    BY <2>1, <2>2 DEF Later
  <2> QED
    BY <2>1, <2>2, <2>3, <2>4
<1>2. TypeOK /\ ClockInv /\ [Next]_vars => [\A i \in Timers : ~FiresEarly(i)]_vars
  BY <1>1
<1> QED
  BY <1>2, ClockCorrect, PTL DEF Spec, NotEarly

(* A timer whose ticks are up fires at the tick that finds it enabled.      *)
THEOREM FiresOnTime == Spec => OnTime
<1> DEFINE Late(i) == /\ tick' = tick + 1
                      /\ Served(i) /\ Enabled(i) /\ left[i] <= 1 /\ i \notin crossed
                      /\ ~(i \in expired')
<1>1. ASSUME TypeOK, ClockInv, [Next]_vars, NEW i \in Timers, Late(i)
      PROVE  FALSE
  <2>1. tick \in Nat /\ left[i] \in Nat /\ deadline[i] \in Nat
    BY <1>1, TickAssumption DEF TypeOK
  <2>2. deadline[i] <= tick + 1
    <3>1. left[i] = 0 \/ left[i] = 1
      BY <1>1, <2>1
    <3>2. Ahead(i) /\ InUse(i)
      BY <1>1 DEF ClockInv, Served
    <3> QED
      BY <1>1, <2>1, <3>1, <3>2 DEF Ahead
  <2>3. Due(i, tick')
    BY <1>1, <2>1, <2>2 DEF Due
  <2>4. SysTick
    <3>1. tick' # tick
      BY <1>1, <2>1
    <3> QED
      BY <1>1, <3>1 DEF Next, ProcessStep, Activate, CreateTimer, StartTimer,
         RestartTimer, RestartCreate, StopTimer, DestroyTimer, ExpiredRead,
         ExpiredClear, WaitEvent, WaitReturn, Call, vars, code
  <2>5. expired' = ExpiredAfter({j \in Timers : Due(j, tick')})
    BY <2>4 DEF SysTick
  <2>6. i \in expired'
    BY <2>3, <2>5 DEF ExpiredAfter
  <2>7. ~(i \in expired')
    BY <1>1, Zenon
  <2> QED
    BY <2>6, <2>7, Zenon
<1>2. TypeOK /\ ClockInv /\ [Next]_vars
        => [\A i \in Timers :
              /\ tick' = tick + 1
              /\ Served(i) /\ Enabled(i) /\ left[i] <= 1 /\ i \notin crossed
              => i \in expired']_vars
  BY <1>1
<1> QED
  BY <1>2, ClockCorrect, PTL DEF Spec, OnTime
=============================================================================
