-------------------------- MODULE SchedulerProofs --------------------------
(***************************************************************************)
(* What holds of the dispatcher for any number of processes, any width of  *)
(* the tick counter and any set of events.                                 *)
(***************************************************************************)
EXTENDS Scheduler, WellFoundedInduction, TLAPS

(* The value a tick counter wraps to is a tick count. *)
LEMMA LaterType ==
  ASSUME NEW t \in 0 .. W - 1, NEW d \in 0 .. W
  PROVE  Later(t, d) \in 0 .. W - 1
BY TickAssumption DEF Later

(* No disjunct of TypeOK is lost by any step (scheduler.c, timer.c).       *)
LEMMA TypeStep ==
  ASSUME TypeOK, [Next]_vars
  PROVE  TypeOK'
<1> USE DEF TypeOK, history, Tasks, User
<1>1. CASE SysTick
  <2>1. tick' \in 0 .. W - 1
    BY <1>1, LaterType, TickAssumption DEF SysTick
  <2>2. PICK posts \in SUBSET {x \in User \X TickReasons : x[2] \in waitEvent[x[1]]} :
          RecordPosts(posts)
    BY <1>1 DEF SysTick
  <2>3. /\ wakeupRsn' \in [Tasks -> SUBSET Reasons]
        /\ wakeupFlags' \in [Tasks -> SUBSET Reasons]
        /\ postedSince' \in [Tasks -> SUBSET Reasons]
        /\ unreported' \in [Tasks -> SUBSET Reasons]
    BY <2>2 DEF RecordPosts, PostedTo
  <2>4. ready' \in [Tasks -> BOOLEAN]
    BY <1>1 DEF SysTick
  <2>5. owedTicks' \in [Tasks -> 0 .. W - 1]
    BY <1>1, TickAssumption DEF SysTick
  <2> QED
    BY <1>1, <2>1, <2>3, <2>4, <2>5 DEF SysTick
<1>2. CASE PendSV
  <2>1. PICK next \in Tasks :
          /\ current' = next
          /\ passedOver' = [p \in Tasks |-> IF Runnable(p) /\ p # next
                                              THEN OneMore(passedOver[p]) ELSE 0]
    BY <1>2 DEF PendSV
  <2>2. passedOver' \in [Tasks -> 0 .. N + 1]
    <3>1. ASSUME NEW p \in Tasks
          PROVE  OneMore(passedOver[p]) \in 0 .. N + 1 /\ 0 \in 0 .. N + 1
      <4>1. passedOver[p] \in 0 .. N + 1 /\ N \in Nat
        BY NAssumption
      <4> HIDE DEF TypeOK, Tasks
      <4> QED
        BY <4>1 DEF OneMore
    <3> HIDE DEF TypeOK, Tasks
    <3> QED
      BY <2>1, <3>1
  <2> QED
    BY <1>2, <2>1, <2>2 DEF PendSV
<1>3. ASSUME NEW x \in Devices, DeviceIrq(x[1], x[2])
      PROVE  TypeOK'
  BY <1>3, ProcessAssumption DEF DeviceIrq, RecordPosts, PostedTo, MadeReady
<1>4. ASSUME NEW p \in User, ProcessStep(p)
      PROVE  TypeOK'
  <2>1. ASSUME NEW events \in Waits, WaitEvent(p, events)
        PROVE  TypeOK'
    BY <2>1, ReasonAssumption DEF WaitEvent, Mask, MadeReady, ReasonsRead, Places
  <2>2. CASE WaitReturn(p)
    BY <2>2 DEF WaitReturn, Places
  <2>3. ASSUME NEW d \in Delays, TaskDelay(p, d)
        PROVE  TypeOK'
    <3>1. d \in 0 .. W - 1 /\ Later(tick, d) \in 0 .. W - 1
      <4>1. d \in 0 .. W - 1 /\ d \in 0 .. W
        BY DelayAssumption, TickAssumption
      <4> QED
        BY <4>1, LaterType
    <3> QED
      BY <2>3, <3>1 DEF TaskDelay, Places
  <2>4. CASE DelayReturn(p)
    BY <2>4, TickAssumption DEF DelayReturn, Places
  <2>5. ASSUME NEW q \in User, ActivateTest(p, q)
        PROVE  TypeOK'
    BY <2>5 DEF ActivateTest, Places
  <2>6. ASSUME NEW r \in Reasons, ActivatePost(p, r)
        PROVE  TypeOK'
    <3>1. dest[p] \in Tasks
      OBVIOUS
    <3>2. 0 \in Tasks
      BY NAssumption
    <3> QED
      BY <2>6, <3>1, <3>2 DEF ActivatePost, MadeReady, Places
  <2>7. CASE FlagsRead(p)
    BY <2>7 DEF FlagsRead, Places
  <2>8. CASE FlagsClear(p)
    BY <2>8 DEF FlagsClear, Places
  <2>9. CASE Fault(p)
    BY <2>9 DEF Fault, Places
  <2>10. CASE Finish(p)
    BY <2>10 DEF Finish, Places
  <2> QED
    BY <1>4, <2>1, <2>2, <2>3, <2>4, <2>5, <2>6, <2>7, <2>8, <2>9, <2>10
    DEF ProcessStep
<1>5. CASE UNCHANGED vars
  BY <1>5 DEF vars, code
<1> QED
  BY <1>1, <1>2, <1>3, <1>4, <1>5 DEF Next

(* Every variable keeps its type, whatever the processes call.             *)
THEOREM TypeCorrect == Spec => []TypeOK
<1>1. Init => TypeOK
  <2>1. 0 \in Tasks /\ 0 \in 0 .. W - 1 /\ 0 \in 0 .. N + 1
    BY NAssumption, TickAssumption DEF Tasks
  <2>2. ASSUME Init
        PROVE  /\ ready \in [Tasks -> BOOLEAN] /\ killed \in [Tasks -> BOOLEAN]
               /\ pc \in [Tasks -> Places] /\ dest \in [Tasks -> Tasks]
               /\ passedOver \in [Tasks -> 0 .. N + 1]
               /\ delayValue \in [Tasks -> 0 .. W - 1]
               /\ owedTicks \in [Tasks -> 0 .. W - 1]
    BY <2>1, <2>2 DEF Init, Places
  <2> QED
    BY <2>1, <2>2 DEF Init, TypeOK
<1> QED
  BY <1>1, TypeStep, PTL DEF Spec

-----------------------------------------------------------------------------
(* IsNext is the result of the loop of update_next_task: the i-th round of *)
(* the loop looks at task Visited(i), and the loop ends at the supervisor  *)
(* or at a task that is ready and not killed.                              *)
Visited(i) == (current + i) % (N + 1)
EndsAt(i) ==
  /\ i \in 1 .. N + 1
  /\ Runnable(Visited(i))
  /\ \A j \in 1 .. i - 1 : ~Runnable(Visited(j))

(* Up to the rollover the rounds go through the tasks after current.       *)
LEMMA VisitedInOrder ==
  ASSUME TypeOK
  PROVE  /\ current \in 0 .. N /\ N \in Nat
         /\ \A i \in 1 .. N - current : Visited(i) = current + i
         /\ Visited(N + 1 - current) = 0
<1>1. current \in 0 .. N /\ N \in Nat
  BY NAssumption DEF TypeOK, Tasks
<1>2. \A n \in 0 .. N : n % (N + 1) = n
  BY <1>1
<1>3. (N + 1) % (N + 1) = 0
  BY <1>1
<1>4. \A i \in 1 .. N - current : current + i \in 0 .. N
  BY <1>1
<1>5. current + (N + 1 - current) = N + 1
  BY <1>1
<1> QED
  BY <1>1, <1>2, <1>3, <1>4, <1>5 DEF Visited

LEMMA EndOfRound ==
  ASSUME TypeOK, NEW i, EndsAt(i)
  PROVE  i \in 1 .. N + 1 - current /\ IsNext(Visited(i))
<1>1. current \in 0 .. N /\ N \in Nat /\ i \in 1 .. N + 1
  BY VisitedInOrder DEF EndsAt
<1>2. Runnable(Visited(N + 1 - current))
  BY VisitedInOrder DEF Runnable
<1>3. i <= N + 1 - current
  <2> SUFFICES ASSUME i > N + 1 - current PROVE FALSE
    BY <1>1
  <2>1. N + 1 - current \in 1 .. i - 1
    BY <1>1
  <2> QED
    BY <1>2, <2>1 DEF EndsAt
<1>4. CASE i = N + 1 - current
  <2>1. \A q \in current + 1 .. N : ~Runnable(q)
    <3> SUFFICES ASSUME NEW q \in current + 1 .. N PROVE ~Runnable(q)
      OBVIOUS
    <3>1. q - current \in 1 .. i - 1 /\ q - current \in 1 .. N - current
          /\ current + (q - current) = q
      BY <1>1, <1>4
    <3>2. Visited(q - current) = q
      BY <3>1, VisitedInOrder
    <3> QED
      BY <3>1, <3>2 DEF EndsAt
  <2> QED
    BY <1>1, <1>4, <2>1, VisitedInOrder DEF IsNext, NoneRunnable
<1>5. CASE i < N + 1 - current
  <2>1. Visited(i) = current + i /\ i \in 1 .. N - current
    BY <1>1, <1>5, VisitedInOrder
  <2>2. \A q \in current + 1 .. current + i - 1 : ~Runnable(q)
    <3> SUFFICES ASSUME NEW q \in current + 1 .. current + i - 1 PROVE ~Runnable(q)
      OBVIOUS
    <3>1. q - current \in 1 .. i - 1 /\ q - current \in 1 .. N - current
          /\ current + (q - current) = q
      BY <1>1, <2>1
    <3>2. Visited(q - current) = q
      BY <3>1, VisitedInOrder
    <3> QED
      BY <3>1, <3>2 DEF EndsAt
  <2>3. Visited(i) > current /\ Runnable(Visited(i))
    BY <1>1, <2>1 DEF EndsAt
  <2>4. NoneRunnable(current + 1, Visited(i) - 1)
    BY <1>1, <2>1, <2>2 DEF NoneRunnable
  <2> QED
    BY <1>1, <1>3, <2>3, <2>4 DEF IsNext
<1>6. i \in 1 .. N + 1 - current /\ (i = N + 1 - current \/ i < N + 1 - current)
  BY <1>1, <1>3
<1> QED
  BY <1>4, <1>5, <1>6

LEMMA OneNext ==
  ASSUME TypeOK, NEW p \in Tasks, NEW q \in Tasks, IsNext(p), IsNext(q)
  PROVE  p = q
<1>1. current \in 0 .. N /\ p \in 0 .. N /\ q \in 0 .. N /\ N \in Nat
  BY NAssumption DEF TypeOK, Tasks
<1>2. ASSUME NEW r \in 0 .. N, NEW s \in 0 .. N, IsNext(r), IsNext(s), r > current
      PROVE  s > current /\ ~(s < r)
  <2>1. Runnable(r) /\ ~(r \in current + 1 .. N /\ NoneRunnable(current + 1, N))
    BY <1>1, <1>2 DEF IsNext, NoneRunnable
  <2>2. NoneRunnable(current + 1, r - 1)
    BY <1>1, <1>2 DEF IsNext
  <2>3. s > current /\ Runnable(s)
    BY <1>1, <1>2, <2>1 DEF IsNext
  <2> QED
    BY <1>1, <2>2, <2>3 DEF NoneRunnable
<1>3. CASE p > current
  <2>1. q > current
    BY <1>1, <1>2, <1>3
  <2> QED
    BY <1>1, <1>2, <1>3, <2>1
<1>4. CASE q > current
  <2>1. p > current
    BY <1>1, <1>2, <1>4
  <2> QED
    BY <1>3, <2>1
<1>5. CASE ~(p > current) /\ ~(q > current)
  BY <1>5 DEF IsNext
<1> QED
  BY <1>3, <1>4, <1>5

LEMMA Smallest ==
  ASSUME NEW T \in SUBSET Nat, T # {}
  PROVE  \E x \in T : \A y \in T : x <= y
<1> DEFINE R == OpToRel(<, Nat)
<1>1. IsWellFoundedOn(R, Nat)
  BY NatLessThanWellFounded, Zenon
<1>2. \A x, y \in Nat : y < x => <<y, x>> \in R
  BY DEF OpToRel
<1> HIDE DEF R
<1>3. PICK x \in T : \A y \in T : ~(<<y, x>> \in R)
  BY <1>1, WFMin
<1>4. \A y \in T : ~(y < x)
  BY <1>2, <1>3
<1> QED
  BY <1>4

(* Whatever the states of the processes, the loop of update_next_task ends *)
(* after at most N + 1 rounds, and it ends at the one task that IsNext     *)
(* holds of.                                                               *)
THEOREM ScanEnds ==
  Spec => [](\E i \in 1 .. N + 1 :
               EndsAt(i) /\ \A q \in Tasks : IsNext(q) <=> q = Visited(i))
<1>1. ASSUME TypeOK
      PROVE  \E i \in 1 .. N + 1 :
               EndsAt(i) /\ \A q \in Tasks : IsNext(q) <=> q = Visited(i)
  <2> DEFINE T == {i \in 1 .. N + 1 : Runnable(Visited(i))}
  <2>1. current \in 0 .. N /\ N \in Nat
    BY <1>1, VisitedInOrder
  <2>2. N + 1 - current \in T
    BY <1>1, <2>1, VisitedInOrder DEF Runnable
  <2>3. T \in SUBSET Nat
    BY <2>1
  <2> HIDE DEF T
  <2>4. PICK i \in T : \A j \in T : i <= j
    BY <2>2, <2>3, Smallest
  <2>5. i \in 1 .. N + 1 /\ Runnable(Visited(i))
    BY <2>4 DEF T
  <2>6. ASSUME NEW j \in 1 .. i - 1
        PROVE  ~Runnable(Visited(j))
    <3>1. j \in 1 .. N + 1 /\ ~(i <= j)
      BY <2>1, <2>5
    <3> QED
      BY <2>4, <3>1 DEF T
  <2>7. EndsAt(i)
    BY <2>5, <2>6 DEF EndsAt
  <2>8. IsNext(Visited(i)) /\ i \in 1 .. N + 1 - current
    BY <1>1, <2>7, EndOfRound
  <2>9. Visited(i) \in Tasks
    <3>1. i = N + 1 - current \/ i \in 1 .. N - current
      BY <2>1, <2>8
    <3>2. Visited(i) = 0 \/ (Visited(i) = current + i /\ i \in 1 .. N - current)
      BY <1>1, <3>1, VisitedInOrder
    <3> QED
      BY <2>1, <3>2 DEF Tasks
  <2> QED
    BY <1>1, <2>5, <2>7, <2>8, <2>9, OneNext
<1> QED
  BY <1>1, TypeCorrect, PTL

-----------------------------------------------------------------------------
(* How far the scan is past p: the number of places from p to c in the     *)
(* circle 0, 1, ..., N.                                                    *)
Distance(p, c) == IF p <= c THEN c - p ELSE c - p + N + 1

(* Strengthening of NoStarvation: a dispatch that passes p over moves the  *)
(* scan at least one place further round the circle, and never beyond p.   *)
RoundInv == \A p \in Tasks : passedOver[p] <= Distance(p, current)

(* A runnable task the scan does not stop at is further behind afterwards. *)
LEMMA ScanMovesOn ==
  ASSUME TypeOK, NEW p \in Tasks, NEW next \in Tasks,
         IsNext(next), Runnable(p), p # next
  PROVE  Distance(p, current) + 1 <= Distance(p, next)
<1>1. current \in 0 .. N /\ p \in 0 .. N /\ next \in 0 .. N /\ N \in Nat
  BY NAssumption DEF TypeOK, Tasks
<1>2. CASE next > current /\ NoneRunnable(current + 1, next - 1)
  <2>1. p <= current \/ next < p
    BY <1>1, <1>2 DEF NoneRunnable
  <2> QED
    BY <1>1, <1>2, <2>1 DEF Distance
<1>3. CASE next = 0 /\ NoneRunnable(current + 1, N)
  <2>1. p <= current
    BY <1>1, <1>3 DEF NoneRunnable
  <2> QED
    BY <1>1, <1>3, <2>1 DEF Distance
<1> QED
  BY <1>2, <1>3 DEF IsNext

(* Only a switch changes what RoundInv is about.                           *)
LEMMA RoundStep ==
  ASSUME TypeOK, RoundInv, [Next]_vars
  PROVE  RoundInv'
<1>1. CASE PendSV
  <2>1. PICK next \in Tasks :
          /\ IsNext(next)
          /\ current' = next
          /\ passedOver' = [p \in Tasks |-> IF Runnable(p) /\ p # next
                                              THEN OneMore(passedOver[p]) ELSE 0]
    BY <1>1 DEF PendSV
  <2>2. ASSUME NEW p \in Tasks
        PROVE  passedOver'[p] <= Distance(p, next)
    <3>1. /\ p \in 0 .. N /\ next \in 0 .. N /\ current \in 0 .. N /\ N \in Nat
          /\ passedOver[p] \in 0 .. N + 1
          /\ passedOver[p] <= Distance(p, current)
      BY NAssumption DEF TypeOK, RoundInv, Tasks
    <3>2. CASE Runnable(p) /\ p # next
      <4>1. Distance(p, current) + 1 <= Distance(p, next)
        BY <2>1, <3>2, ScanMovesOn
      <4> QED
        BY <2>1, <3>1, <3>2, <4>1 DEF Distance, OneMore
    <3>3. CASE ~(Runnable(p) /\ p # next)
      BY <2>1, <3>1, <3>3 DEF Distance
    <3> QED
      BY <3>2, <3>3
  <2> QED
    BY <2>1, <2>2 DEF RoundInv, Distance
<1>2. CASE UNCHANGED <<current, passedOver>>
  BY <1>2 DEF RoundInv, Distance
<1>3. SysTick => UNCHANGED <<current, passedOver>>
  BY DEF SysTick
<1>4. ASSUME NEW x \in Devices, DeviceIrq(x[1], x[2])
      PROVE  UNCHANGED <<current, passedOver>>
  BY <1>4 DEF DeviceIrq
<1>5. ASSUME NEW p \in User, ProcessStep(p)
      PROVE  UNCHANGED <<current, passedOver>>
  BY <1>5 DEF ProcessStep, WaitEvent, WaitReturn, TaskDelay, DelayReturn,
              ActivateTest, ActivatePost, FlagsRead, FlagsClear, Fault, Finish,
              history
<1> QED
  BY <1>1, <1>2, <1>3, <1>4, <1>5 DEF Next, vars, code, history

(* Every runnable task is dispatched within N other dispatches, for any    *)
(* number of processes and whatever they call (update_next_task).          *)
THEOREM StarvationFree == Spec => []NoStarvation
<1>1. Init => RoundInv
  BY NAssumption DEF Init, RoundInv, Distance, Tasks
<1>2. TypeOK /\ RoundInv => NoStarvation
  <2>1. ASSUME TypeOK, RoundInv, NEW p \in Tasks
        PROVE  passedOver[p] <= N
    <3>1. /\ p \in 0 .. N /\ current \in 0 .. N /\ N \in Nat
          /\ passedOver[p] \in 0 .. N + 1
          /\ passedOver[p] <= Distance(p, current)
      BY <2>1, NAssumption DEF TypeOK, RoundInv, Tasks
    <3> QED
      BY <3>1 DEF Distance
  <2> QED
    BY <2>1 DEF NoStarvation
<1> QED
  BY <1>1, <1>2, TypeCorrect, RoundStep, PTL DEF Spec

-----------------------------------------------------------------------------
(* A process that nobody has tested stays killed through any step.         *)
LEMMA DeadStep ==
  ASSUME TypeOK, [Next]_vars, NEW p \in User, Dead(p)
  PROVE  Dead(p)'
<1> USE DEF Dead, InFlight, TypeOK, Tasks, User
<1>1. ASSUME NEW q \in User, NEW t \in User, ActivateTest(q, t)
      PROVE  Dead(p)'
  BY <1>1 DEF ActivateTest, MayActivate
<1>2. ASSUME NEW q \in User, NEW r \in Reasons, ActivatePost(q, r)
      PROVE  Dead(p)'
  <2>1. dest[q] # p /\ killed' = [killed EXCEPT ![dest[q]] = FALSE]
    BY <1>2 DEF ActivatePost
  <2>2. pc' = [pc EXCEPT ![q] = "user"] /\ dest' = [dest EXCEPT ![q] = 0]
    BY <1>2 DEF ActivatePost
  <2>3. killed'[p]
    BY <2>1
  <2>4. ~(\E t \in User : pc'[t] = "activate" /\ dest'[t] = p)
    BY <2>2
  <2> QED
    BY <2>3, <2>4
<1>3. ASSUME NEW q \in User, NEW events \in Waits, WaitEvent(q, events)
      PROVE  Dead(p)'
  BY <1>3 DEF WaitEvent
<1>4. ASSUME NEW q \in User, NEW d \in Delays, TaskDelay(q, d)
      PROVE  Dead(p)'
  BY <1>4 DEF TaskDelay
<1>5. ASSUME NEW q \in User,
             WaitReturn(q) \/ DelayReturn(q) \/ FlagsRead(q) \/ FlagsClear(q)
      PROVE  Dead(p)'
  <2>1. /\ UNCHANGED <<killed, dest>>
        /\ \E place \in {"user", "flags"} : pc' = [pc EXCEPT ![q] = place]
    BY <1>5 DEF WaitReturn, DelayReturn, FlagsRead, FlagsClear, history
  <2> QED
    BY <2>1
<1>9. ASSUME NEW q \in User, Fault(q) \/ Finish(q)
      PROVE  Dead(p)'
  <2>1. /\ killed' = [killed EXCEPT ![q] = TRUE] /\ dest' = dest
        /\ \E place \in {"faulted", "finished"} : pc' = [pc EXCEPT ![q] = place]
    BY <1>9 DEF Fault, Finish
  <2> QED
    BY <2>1
<1>6. CASE UNCHANGED <<killed, pc, dest>>
  BY <1>6
<1>7. SysTick \/ PendSV => UNCHANGED <<killed, pc, dest>>
  BY DEF SysTick, PendSV
<1>8. ASSUME NEW x \in Devices, DeviceIrq(x[1], x[2])
      PROVE  UNCHANGED <<killed, pc, dest>>
  BY <1>8 DEF DeviceIrq
<1> QED
  BY <1>1, <1>2, <1>3, <1>4, <1>5, <1>6, <1>7, <1>8, <1>9
  DEF Next, ProcessStep, vars, code

(* A killed process is revived only by a call that tested it while it was  *)
(* alive (activate_process): all others leave it dead for ever.            *)
THEOREM DeadStaysDead == Spec => DeadForever
<1>1. TypeOK /\ [Next]_vars => [\A p \in User : Dead(p) => Dead(p)']_vars
  BY DeadStep
<1> QED
  BY <1>1, TypeCorrect, PTL DEF Spec, DeadForever

-----------------------------------------------------------------------------
(* What is known of a blocked process between its wait_event or task_delay *)
(* and its next dispatch, process by process.                              *)
Blocked(p) ==
  /\ killed[p] => pc[p] \in {"faulted", "finished"}
  /\ current = p /\ ~pendsv => ready[p] \/ pc[p] = "finished"
  /\ pc[p] = "waiting" => DELAY \notin waitEvent[p]
  /\ pc[p] = "waiting" /\ ready[p] => postedSince[p] # {}
  /\ pc[p] \in {"waiting", "delayed"} /\ postedSince[p] # {} => ready[p]

(* An interrupt that posts to processes records something for each one     *)
(* that is not killed.                                                     *)
LEMMA PostsRecorded ==
  ASSUME TypeOK, NEW posts, RecordPosts(posts), NEW p \in User
  PROVE  /\ postedSince[p] \subseteq postedSince'[p]
         /\ ~killed[p] /\ (\E r \in Reasons : <<p, r>> \in posts)
              => postedSince'[p] # {}
         /\ postedSince'[p] # postedSince[p]
              => \E r \in Reasons : <<p, r>> \in posts
<1>1. p \in Tasks
  BY DEF Tasks, User
<1>2. postedSince'[p] = postedSince[p] \union PostedTo(posts, p)
  BY <1>1 DEF RecordPosts
<1> QED
  BY <1>2 DEF PostedTo, MayActivate

LEMMA BlockedStep ==
  ASSUME TypeOK, [Next]_vars, NEW p \in User, Blocked(p)
  PROVE  Blocked(p)'
<1> USE DEF Blocked, User, Tasks
<1>1. CASE SysTick
  <2>1. PICK posts \in SUBSET {x \in User \X TickReasons : x[2] \in waitEvent[x[1]]} :
          /\ RecordPosts(posts)
          /\ ready' = [q \in Tasks |-> \/ ready[q]
                                       \/ q \in User /\ DelayOver(q, tick')
                                       \/ \E r \in Reasons : <<q, r>> \in posts]
    BY <1>1 DEF SysTick
  <2>2. UNCHANGED <<current, killed, pc, waitEvent>> /\ pendsv'
    BY <1>1 DEF SysTick
  <2>3. p \in Tasks
    OBVIOUS
  <2>4. ready'[p] <=> \/ ready[p]
                      \/ DelayOver(p, tick')
                      \/ \E r \in Reasons : <<p, r>> \in posts
    BY <2>1, <2>3, Zenon
  <2> QED
    BY <2>1, <2>2, <2>4, PostsRecorded DEF DelayOver
<1>2. CASE PendSV
  <2>1. PICK next \in Tasks : IsNext(next) /\ current' = next
    BY <1>2 DEF PendSV
  <2>2. UNCHANGED <<ready, killed, waitEvent, pc, postedSince>>
    BY <1>2 DEF PendSV
  <2>3. p = next => ready[p]
    BY <2>1 DEF IsNext, Runnable
  <2> QED
    BY <2>1, <2>2, <2>3
<1>3. ASSUME NEW x \in Devices, DeviceIrq(x[1], x[2])
      PROVE  Blocked(p)'
  <2>1. UNCHANGED <<current, pendsv, killed, waitEvent, pc>>
    BY <1>3 DEF DeviceIrq
  <2>2. /\ ready' = [ready EXCEPT ![x[1]] = TRUE]
        /\ RecordPosts({<<x[1], x[2]>>}) /\ ~killed[x[1]]
    BY <1>3 DEF DeviceIrq, MadeReady, MayActivate
  <2>3. x[1] \in User /\ x[2] \in Reasons
    BY ProcessAssumption
  <2>4. CASE x[1] = p
    <3>1. ready'[p]
      BY <2>2, <2>4 DEF TypeOK
    <3>2. postedSince'[p] # {}
      BY <2>2, <2>3, <2>4, PostsRecorded
    <3> QED
      BY <2>1, <3>1, <3>2
  <2>5. CASE x[1] # p
    <3>1. ready'[p] = ready[p]
      <4>1. ready \in [Tasks -> BOOLEAN] /\ p \in Tasks
        BY DEF TypeOK
      <4> QED
        BY <2>2, <2>5, <4>1, Zenon
    <3>2. postedSince'[p] = postedSince[p]
      <4>1. ~\E r \in Reasons : <<p, r>> \in {<<x[1], x[2]>>}
        BY <2>5
      <4> QED
        BY <2>2, <4>1, PostsRecorded
    <3> QED
      BY <2>1, <3>1, <3>2
  <2> QED
    BY <2>4, <2>5
<1>4. ASSUME NEW q \in User, NEW events \in Waits, WaitEvent(q, events)
      PROVE  Blocked(p)'
  <2>1. DELAY \notin events
    BY ReasonAssumption
  <2> QED
    BY <1>4, <2>1 DEF WaitEvent, Mask, TypeOK
<1>5. ASSUME NEW q \in User, NEW d \in Delays, TaskDelay(q, d)
      PROVE  Blocked(p)'
  BY <1>5 DEF TaskDelay, TypeOK
<1>6. ASSUME NEW q \in User, NEW r \in Reasons, ActivatePost(q, r)
      PROVE  Blocked(p)'
  <2>1. /\ killed' = [killed EXCEPT ![dest[q]] = FALSE]
        /\ ready' = [ready EXCEPT ![dest[q]] = TRUE]
        /\ postedSince' = [postedSince EXCEPT ![dest[q]] = @ \union {r}]
        /\ UNCHANGED <<current, pendsv, waitEvent>>
    BY <1>6 DEF ActivatePost, MadeReady
  <2>2. pc' = [pc EXCEPT ![q] = "user"] /\ pc[q] = "activate"
    BY <1>6 DEF ActivatePost
  <2>3. dest[q] \in Tasks
    <3>1. dest \in [Tasks -> Tasks] /\ q \in Tasks
      BY DEF TypeOK
    <3> HIDE DEF Tasks
    <3> QED
      BY <3>1
  <2>4. CASE dest[q] = p
    BY <2>1, <2>2, <2>3, <2>4 DEF TypeOK
  <2>5. CASE dest[q] # p
    BY <2>1, <2>2, <2>3, <2>5 DEF TypeOK
  <2> QED
    BY <2>4, <2>5
<1>7. ASSUME NEW q \in User,
             \/ WaitReturn(q) \/ DelayReturn(q) \/ FlagsRead(q) \/ FlagsClear(q)
             \/ \E t \in User : ActivateTest(q, t)
      PROVE  Blocked(p)'
  <2>1. /\ UNCHANGED <<current, pendsv, ready, killed, waitEvent, postedSince>>
        /\ \E place \in {"user", "flags", "activate"} :
             pc' = [pc EXCEPT ![q] = place]
        /\ Running(q) /\ pc[q] \notin {"faulted", "finished"}
    BY <1>7 DEF WaitReturn, DelayReturn, FlagsRead, FlagsClear, ActivateTest,
                history
  <2> QED
    BY <2>1 DEF TypeOK, Running
<1>8. ASSUME NEW q \in User, Fault(q)
      PROVE  Blocked(p)'
  BY <1>8 DEF Fault, history, TypeOK
<1>9. ASSUME NEW q \in User, Finish(q)
      PROVE  Blocked(p)'
  BY <1>9 DEF Finish, history, TypeOK
<1>10. CASE UNCHANGED vars
  BY <1>10 DEF vars, code, history
<1> QED
  BY <1>1, <1>2, <1>3, <1>4, <1>5, <1>6, <1>7, <1>8, <1>9, <1>10
  DEF Next, ProcessStep

LEMMA BlockedAlways == Spec => [](\A p \in User : Blocked(p))
<1>1. Init => \A p \in User : Blocked(p)
  BY NAssumption DEF Init, Blocked, User, Tasks
<1>2. TypeOK /\ [Next]_vars /\ (\A p \in User : Blocked(p))
        => (\A p \in User : Blocked(p))'
  BY BlockedStep DEF User
<1> QED
  BY <1>1, <1>2, TypeCorrect, PTL DEF Spec

(* wait_event comes back only after a post, and never because of a delay   *)
(* that ended before (wait_event, check_timers).                           *)
THEOREM NoSpuriousWakes == Spec => []NoSpuriousWake
<1>1. (\A p \in User : Blocked(p)) => NoSpuriousWake
  BY DEF Blocked, NoSpuriousWake, Running
<1> QED
  BY <1>1, BlockedAlways, PTL

(* What is posted to a blocked process makes it ready and keeps it ready   *)
(* until it runs (activate_process).                                       *)
THEOREM PostsMakeReady == Spec => []PostedIsReady
<1>1. (\A p \in User : Blocked(p)) => PostedIsReady
  BY DEF Blocked, PostedIsReady
<1> QED
  BY <1>1, BlockedAlways, PTL

-----------------------------------------------------------------------------
(* The strengthening of DelayElapsed: until its delay is over, the ticks a *)
(* process is still owed are those up to its delay_value.                  *)
DelayInv(p) ==
  pc[p] = "delayed" =>
    /\ owedTicks[p] = 0 \/ delayValue[p] = tick + owedTicks[p]
    /\ ready[p] => owedTicks[p] = 0 \/ postedSince[p] # {}

LEMMA DelayStep ==
  ASSUME Horizon <= W, TypeOK, [Next]_vars, NEW p \in User,
         Blocked(p), DelayInv(p)
  PROVE  DelayInv(p)'
<1> USE DEF DelayInv
<1>0. p \in Tasks /\ W \in Nat \ {0} /\ tick \in 0 .. W - 1
      /\ delayValue[p] \in 0 .. W - 1 /\ owedTicks[p] \in 0 .. W - 1
  BY TickAssumption DEF TypeOK, User, Tasks
<1>1. CASE SysTick
  <2>1. PICK posts \in SUBSET {x \in User \X TickReasons : x[2] \in waitEvent[x[1]]} :
          /\ RecordPosts(posts)
          /\ ready' = [q \in Tasks |-> \/ ready[q]
                                       \/ q \in User /\ DelayOver(q, tick')
                                       \/ \E r \in Reasons : <<q, r>> \in posts]
    BY <1>1 DEF SysTick
  <2>2. /\ UNCHANGED <<pc, delayValue>> /\ tick' = Later(tick, 1)
        /\ owedTicks'[p] = IF owedTicks[p] = 0 THEN 0 ELSE owedTicks[p] - 1
    BY <1>0, <1>1 DEF SysTick
  <2>3. ready'[p] <=> \/ ready[p]
                      \/ p \in User /\ DelayOver(p, tick')
                      \/ \E r \in Reasons : <<p, r>> \in posts
    <3>1. p \in Tasks
      BY <1>0
    <3> QED
      BY <2>1, <3>1, Zenon
  <2>4. ASSUME pc[p] = "delayed", owedTicks[p] # 0
        PROVE  tick' = tick + 1 /\ delayValue[p] = tick' + owedTicks'[p]
    BY <1>0, <2>2, <2>4 DEF Later
  <2>5. pc[p] = "delayed" => ~killed[p]
    BY DEF Blocked
  <2>6. pc[p] = "delayed" /\ (\E r \in Reasons : <<p, r>> \in posts)
          => postedSince'[p] # {}
    BY <2>1, <2>5, PostsRecorded
  <2>7. postedSince[p] # {} => postedSince'[p] # {}
    BY <2>1, PostsRecorded
  <2>8. ASSUME pc[p] = "delayed", DelayOver(p, tick')
        PROVE  owedTicks'[p] = 0
    BY <1>0, <2>2, <2>4, <2>8 DEF DelayOver
  <2>9. owedTicks[p] = 0 => owedTicks'[p] = 0
    BY <2>2
  <2> QED
    BY <2>2, <2>3, <2>4, <2>6, <2>7, <2>8, <2>9
<1>2. CASE PendSV
  BY <1>2 DEF PendSV
<1>3. ASSUME NEW x \in Devices, DeviceIrq(x[1], x[2])
      PROVE  DelayInv(p)'
  <2>1. UNCHANGED <<tick, pc, delayValue, owedTicks>>
    BY <1>3 DEF DeviceIrq
  <2>2. /\ ready' = [ready EXCEPT ![x[1]] = TRUE]
        /\ RecordPosts({<<x[1], x[2]>>}) /\ ~killed[x[1]] /\ x[2] \in Reasons
    BY <1>3, ProcessAssumption DEF DeviceIrq, MadeReady, MayActivate
  <2>3. x[1] = p => postedSince'[p] # {}
    BY <2>2, PostsRecorded
  <2>4. postedSince[p] # {} => postedSince'[p] # {}
    BY <2>2, PostsRecorded
  <2>5. x[1] # p => ready'[p] = ready[p]
    <3>1. ready \in [Tasks -> BOOLEAN]
      BY DEF TypeOK
    <3> QED
      BY <1>0, <2>2, <3>1, Zenon
  <2> QED
    BY <2>1, <2>3, <2>4, <2>5
<1>4. ASSUME NEW q \in User, NEW events \in Waits, WaitEvent(q, events)
      PROVE  DelayInv(p)'
  BY <1>4 DEF WaitEvent, TypeOK, Tasks, User
<1>5. ASSUME NEW q \in User, NEW d \in Delays, TaskDelay(q, d)
      PROVE  DelayInv(p)'
  <2>1. d \in 1 .. W - 1 /\ tick + d < W
    BY <1>0, <1>5, DelayAssumption DEF TaskDelay
  <2>2. Later(tick, d) = tick + d
    BY <2>1 DEF Later
  <2>3. /\ delayValue' = [delayValue EXCEPT ![q] = tick + d]
        /\ owedTicks' = [owedTicks EXCEPT ![q] = d]
        /\ ready' = [ready EXCEPT ![q] = FALSE]
        /\ pc' = [pc EXCEPT ![q] = "delayed"] /\ tick' = tick
        /\ postedSince' = [postedSince EXCEPT ![q] = {}]
    BY <1>5, <2>2 DEF TaskDelay
  <2>4. CASE q = p
    BY <1>0, <2>3, <2>4 DEF TypeOK
  <2>5. CASE q # p
    BY <1>0, <2>3, <2>5 DEF TypeOK
  <2> QED
    BY <2>4, <2>5
<1>6. ASSUME NEW q \in User, NEW r \in Reasons, ActivatePost(q, r)
      PROVE  DelayInv(p)'
  <2>1. /\ ready' = [ready EXCEPT ![dest[q]] = TRUE]
        /\ postedSince' = [postedSince EXCEPT ![dest[q]] = @ \union {r}]
        /\ UNCHANGED <<tick, delayValue, owedTicks>>
        /\ pc' = [pc EXCEPT ![q] = "user"]
    BY <1>6 DEF ActivatePost, MadeReady
  <2>2. dest[q] \in Tasks
    BY DEF TypeOK, User, Tasks
  <2>3. CASE dest[q] = p
    BY <1>0, <2>1, <2>2, <2>3 DEF TypeOK
  <2>4. CASE dest[q] # p
    BY <1>0, <2>1, <2>2, <2>4 DEF TypeOK
  <2> QED
    BY <2>3, <2>4
<1>7. ASSUME NEW q \in User, DelayReturn(q)
      PROVE  DelayInv(p)'
  BY <1>0, <1>7 DEF DelayReturn, TypeOK
<1>8. ASSUME NEW q \in User,
             \/ WaitReturn(q) \/ FlagsRead(q) \/ FlagsClear(q)
             \/ Fault(q) \/ Finish(q)
             \/ \E t \in User : ActivateTest(q, t)
      PROVE  DelayInv(p)'
  <2>1. /\ UNCHANGED <<tick, delayValue, owedTicks, postedSince>>
        /\ ready' = ready \/ ready' = [ready EXCEPT ![q] = FALSE]
        /\ \E place \in {"user", "flags", "activate", "faulted", "finished"} :
             pc' = [pc EXCEPT ![q] = place]
    BY <1>8 DEF WaitReturn, FlagsRead, FlagsClear, ActivateTest, Fault, Finish,
                history
  <2> QED
    BY <1>0, <2>1 DEF TypeOK, Tasks, User
<1>9. CASE UNCHANGED vars
  BY <1>9 DEF vars, code, history
<1> QED
  BY <1>1, <1>2, <1>3, <1>4, <1>5, <1>6, <1>7, <1>8, <1>9
  DEF Next, ProcessStep

(* A workload whose delays stay clear of the wrap of the tick counter gets *)
(* every delay in full, unless an activation cuts it short (task_delay,    *)
(* check_timers).                                                          *)
THEOREM DelaysElapse == ASSUME Horizon <= W PROVE Spec => []DelayElapsed
<1>1. Init => \A p \in User : DelayInv(p)
  BY NAssumption DEF Init, DelayInv, User, Tasks
<1>2. TypeOK /\ [Next]_vars /\ (\A p \in User : Blocked(p) /\ DelayInv(p))
        => (\A p \in User : DelayInv(p))'
  BY DelayStep DEF User
<1>3. (\A p \in User : Blocked(p) /\ DelayInv(p)) => DelayElapsed
  BY DEF Blocked, DelayInv, DelayElapsed, Running
<1>4. /\ (\A p \in User : Blocked(p)) /\ (\A p \in User : DelayInv(p))
        <=> (\A p \in User : Blocked(p) /\ DelayInv(p))
  OBVIOUS
<1> QED
  BY <1>1, <1>2, <1>3, <1>4, TypeCorrect, BlockedAlways, PTL DEF Spec

-----------------------------------------------------------------------------
(* ReasonsKept, process by process.                                        *)
Kept(p) ==
  pc[p] # "faulted" =>
    unreported[p] \subseteq
      wakeupRsn[p] \union (IF pc[p] = "waiting" THEN ret[p] ELSE {})

(* Every post adds the same reasons to what is pending and to what is not  *)
(* yet reported.                                                           *)
LEMMA PostsKept ==
  ASSUME TypeOK, NEW posts, RecordPosts(posts), UNCHANGED <<pc, ret>>,
         NEW p \in User, Kept(p)
  PROVE  Kept(p)'
<1>1. p \in Tasks
  BY DEF User, Tasks
<1>2. /\ wakeupRsn'[p] = wakeupRsn[p] \union PostedTo(posts, p)
      /\ unreported'[p] = unreported[p] \union PostedTo(posts, p)
  BY <1>1 DEF RecordPosts
<1> QED
  BY <1>2 DEF Kept

LEMMA KeptStep ==
  ASSUME TypeOK, [Next]_vars, NEW p \in User, Kept(p)
  PROVE  Kept(p)'
<1>0. p \in Tasks /\ User \subseteq Tasks
  BY DEF User, Tasks
<1>1. CASE SysTick
  BY <1>1, PostsKept DEF SysTick
<1>2. ASSUME NEW x \in Devices, DeviceIrq(x[1], x[2])
      PROVE  Kept(p)'
  BY <1>2, PostsKept DEF DeviceIrq
<1>3. ASSUME NEW q \in User, NEW events \in Waits, WaitEvent(q, events)
      PROVE  Kept(p)'
  BY <1>0, <1>3 DEF Kept, WaitEvent, ReasonsRead, TypeOK
<1>4. ASSUME NEW q \in User, WaitReturn(q)
      PROVE  Kept(p)'
  BY <1>0, <1>4 DEF Kept, WaitReturn, TypeOK
<1>5. ASSUME NEW q \in User, NEW r \in Reasons, ActivatePost(q, r)
      PROVE  Kept(p)'
  <2>1. /\ wakeupRsn' = [wakeupRsn EXCEPT ![dest[q]] = @ \union {r}]
        /\ unreported' = [unreported EXCEPT ![dest[q]] = @ \union {r}]
        /\ pc[q] = "activate" /\ pc' = [pc EXCEPT ![q] = "user"] /\ ret' = ret
    BY <1>5 DEF ActivatePost
  <2> QED
    BY <1>0, <2>1 DEF Kept, TypeOK
<1>6. ASSUME NEW q \in User,
             \/ FlagsRead(q) \/ FlagsClear(q) \/ DelayReturn(q)
             \/ Fault(q) \/ Finish(q)
             \/ \E d \in Delays : TaskDelay(q, d)
             \/ \E t \in User : ActivateTest(q, t)
      PROVE  Kept(p)'
  <2>1. /\ UNCHANGED <<wakeupRsn, unreported>>
        /\ \E place \in Places \ {"waiting"} :
             /\ pc' = [pc EXCEPT ![q] = place]
             /\ place = "faulted" \/ pc[q] # "waiting"
             /\ pc[q] = "faulted" => place = "faulted"
        /\ ret' = ret \/ \E v : ret' = [ret EXCEPT ![q] = v]
    BY <1>6 DEF FlagsRead, FlagsClear, DelayReturn, TaskDelay, ActivateTest,
                Fault, Finish, Places, history
  <2> QED
    BY <1>0, <2>1 DEF Kept, TypeOK
<1>7. CASE PendSV \/ UNCHANGED vars
  BY <1>7 DEF Kept, PendSV, vars, code, history
<1> QED
  BY <1>1, <1>2, <1>3, <1>4, <1>5, <1>6, <1>7 DEF Next, ProcessStep

(* No reason given to activate_process is lost before wait_event returns   *)
(* it, however the calls and interrupts interleave.                        *)
THEOREM NoReasonLost == Spec => []ReasonsKept
<1>1. Init => \A p \in User : Kept(p)
  BY DEF Init, Kept, User, Tasks
<1>2. TypeOK /\ [Next]_vars /\ (\A p \in User : Kept(p))
        => (\A p \in User : Kept(p))'
  BY KeptStep DEF User
<1>3. (\A p \in User : Kept(p)) => ReasonsKept
  BY DEF Kept, ReasonsKept
<1> QED
  BY <1>1, <1>2, <1>3, TypeCorrect, PTL DEF Spec
=============================================================================
