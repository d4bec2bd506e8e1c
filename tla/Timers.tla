------------------------------- MODULE Timers -------------------------------
(***************************************************************************)
(* The software timers of one process (kernel/timer.c): the calls by which *)
(* the process makes, starts, stops and removes them, and check_timers,    *)
(* run by the tick.  A process only ever touches its own timers, so one    *)
(* process is enough.  Its blocking and waking are as in Scheduler, reduced*)
(* to the ready bit; the reason and flags a timer posts are treated there. *)
(*                                                                         *)
(* A call names timer i by the mask 2^i.  The calls index timer_flags by   *)
(* that mask where they should by i; create_timer and start_timer do both. *)
(* The module follows them as long as the index stays inside the array     *)
(* (MaskAssumption); beyond it they reach other members of the PCB.        *)
(***************************************************************************)
EXTENDS Integers

CONSTANTS
  T,       (* MAX_TIMERS                                                    *)
  W,       (* values of the tick counter, 2^32 in the code                  *)
  Ids,     (* the timers the process uses                                   *)
  Counts   (* the tick counts it asks for                                   *)

Timers == 0 .. T - 1
MaskOf(i) == 2 ^ i

ASSUME TimerAssumption == T \in Nat \ {0}
ASSUME TickAssumption == W \in Nat \ {0}
ASSUME MaskAssumption == \A i \in Ids : i \in Timers /\ MaskOf(i) \in Timers
ASSUME CountAssumption == Counts \subseteq 0 .. W - 1

(* TIMERFLAGS_USERMASK lets the caller set these; IN_USE is the kernel's. *)
UserFlags == {"forever", "enabled"}
Flags == UserFlags \union {"inUse"}

VARIABLES
  tick,     (* Asys.g_tick_count                                            *)
  flags,    (* timer_flags                                                  *)
  value,    (* timer_value                                                  *)
  deadline, (* current_timer                                                *)
  expired,  (* timer_expired, as a set of timers                            *)
  waits,    (* SUSPEND_ON_TIMER is in wait_event                            *)
  ready,    (* PROCESS_READY_STATE of current_state                         *)
  pc,       (* where the process is                                         *)
  id,       (* the timer a restart_timer is about                           *)
  read      (* tim_exp of get_timer_expired                                 *)

(* History variables: they record the past and guard nothing.  Those of a  *)
(* timer that is not in use do not matter: a tick resets them.             *)
VARIABLES
  left,     (* ticks timer i has still to run                               *)
  crossed,  (* timers whose deadline or tick has wrapped since they were armed*)
  unread,   (* timers that fired and get_timer_expired has not returned     *)
  activated (* something else has activated the process as it waits         *)

code == <<tick, flags, value, deadline, expired, waits, ready, pc, id, read>>
history == <<left, crossed, unread, activated>>
vars == <<code, history>>

Init ==
  /\ tick = 0
  /\ flags = [i \in Timers |-> {}]
  /\ value = [i \in Timers |-> 0]
  /\ deadline = [i \in Timers |-> 0]
  /\ expired = {}
  /\ waits = FALSE
  /\ ready = TRUE
  /\ pc = "user"
  /\ id = 0
  /\ read = {}
  /\ left = [i \in Timers |-> 0]
  /\ crossed = {}
  /\ unread = {}
  /\ activated = FALSE

-----------------------------------------------------------------------------
(* The tick *)

BugLaterNoWrap(t, d) == t + d
Later(t, d) == IF t + d < W THEN t + d ELSE t + d - W

InUse(i) == "inUse" \in flags[i]
Enabled(i) == "enabled" \in flags[i]
Periodic(i) == "forever" \in flags[i]

(* check_timers serves a timer only while its process waits for timers.    *)
Served(i) == waits /\ InUse(i)

BugDueStrict(i, now) == Served(i) /\ Enabled(i) /\ now > deadline[i]
Due(i, now) == Served(i) /\ Enabled(i) /\ now >= deadline[i]

(* A stopped timer is put off by one tick at every tick. *)
Paused(i) == Served(i) /\ ~Enabled(i)

BugExpiredAfter(fired) == fired
ExpiredAfter(fired) == expired \union fired

ReadyAfter(fired) == ready \/ fired # {}

(* The next period counted from the deadline, not from the tick.           *)
BugNextDeadline(i, now) ==
  IF Due(i, now) /\ Periodic(i) THEN Later(deadline[i], value[i])
  ELSE IF Paused(i) THEN Later(deadline[i], 1)
  ELSE deadline[i]

(* The deadline of timer i after check_timers at tick now: a periodic      *)
(* timer starts its next period at the tick it fires.                      *)
NextDeadline(i, now) ==
  IF Due(i, now) /\ Periodic(i) THEN Later(now, value[i])
  ELSE IF Paused(i) THEN Later(deadline[i], 1)
  ELSE deadline[i]

(* SysTick_Handler, as far as the timers of this process go. *)
SysTick ==
  /\ tick' = Later(tick, 1)
  /\ deadline' = [i \in Timers |-> NextDeadline(i, tick')]
  /\ LET fired == {i \in Timers : Due(i, tick')} IN
       /\ expired' = ExpiredAfter(fired)
       /\ ready' = ReadyAfter(fired)
       /\ unread' = IF pc = "get" THEN unread ELSE unread \union fired
  /\ left' = [i \in Timers |-> IF ~InUse(i) THEN 0
                               ELSE IF Due(i, tick') /\ Periodic(i) THEN value[i]
                               ELSE IF Paused(i) \/ left[i] = 0 THEN left[i]
                               ELSE left[i] - 1]
  /\ crossed' = {i \in Timers :
       IF Due(i, tick') /\ Periodic(i) THEN tick' + value[i] >= W
       ELSE /\ InUse(i)
            /\ i \in crossed \/ tick' = 0 \/ (Paused(i) /\ deadline[i] + 1 >= W)}
  /\ UNCHANGED <<flags, value, waits, pc, id, read, activated>>

(* Another process or a device activates this one. *)
Activate ==
  /\ ready' = TRUE
  /\ activated' = (pc = "waiting")
  /\ UNCHANGED <<tick, flags, value, deadline, expired, waits, pc, id, read,
                 left, crossed, unread>>

-----------------------------------------------------------------------------
(* Calls of the process *)

Call == pc = "user" /\ UNCHANGED <<tick, waits, ready, activated>>

(* The body of create_timer, unless timer_flags at the mask is in use. *)
Arm(i, count, user) ==
  /\ flags' = [flags EXCEPT ![i] = user \union {"inUse"}]
  /\ value' = [value EXCEPT ![i] = count]
  /\ deadline' = [deadline EXCEPT ![i] = Later(tick, count)]
  /\ left' = [left EXCEPT ![i] = count]
  /\ crossed' = IF tick + count < W THEN crossed \ {i} ELSE crossed \union {i}
  /\ UNCHANGED <<expired, read, unread>>

CreateTimer(i, count, user) ==
  /\ Call
  /\ ~InUse(MaskOf(i))
  /\ Arm(i, count, user)
  /\ UNCHANGED <<pc, id>>

KeepTimes == UNCHANGED <<value, deadline, expired, read, left, crossed,
                         unread>>

StartTimer(i) ==
  /\ Call
  /\ ~InUse(MaskOf(i))
  /\ flags' = [flags EXCEPT ![i] = @ \union {"enabled"}]
  /\ KeepTimes
  /\ UNCHANGED <<pc, id>>

(* restart_timer clears IN_USE at the mask ... *)
RestartTimer(i) ==
  /\ Call
  /\ InUse(MaskOf(i))
  /\ flags' = [flags EXCEPT ![MaskOf(i)] = @ \ {"inUse"}]
  /\ pc' = "restart"
  /\ id' = i
  /\ KeepTimes

(* ... and calls create_timer, whose test it has just made succeed.        *)
RestartCreate(count, user) ==
  /\ pc = "restart"
  /\ Arm(id, count, user)
  /\ pc' = "user"
  /\ id' = 0
  /\ UNCHANGED <<tick, waits, ready, activated>>

StopTimer(i) ==
  /\ Call
  /\ flags' = [flags EXCEPT ![MaskOf(i)] = @ \ {"enabled"}]
  /\ KeepTimes
  /\ UNCHANGED <<pc, id>>

DestroyTimer(i) ==
  /\ Call
  /\ flags' = [flags EXCEPT ![MaskOf(i)] = {}]
  /\ KeepTimes
  /\ UNCHANGED <<pc, id>>

(* get_timer_expired copies timer_expired ... *)
ExpiredRead ==
  /\ Call
  /\ pc' = "get"
  /\ read' = expired
  /\ UNCHANGED <<flags, value, deadline, expired, id, left, crossed, unread>>

(* ... and then takes the bits it has copied out of it.  timer_expired is  *)
(* not volatile and interrupts are enabled: what is written back is        *)
(* computed from timer_expired as it was at any time since the copy.       *)
ExpiredClear ==
  /\ pc = "get"
  /\ \E seen \in SUBSET expired :
       /\ read \subseteq seen
       /\ expired' = seen \ read
  /\ unread' = unread \ read
  /\ read' = {}
  /\ pc' = "user"
  /\ UNCHANGED <<tick, flags, value, deadline, waits, ready, id, left, crossed,
                 activated>>

(* wait_event, with or without EVENT_TIMER among the events ... *)
WaitEvent(timers) ==
  /\ pc = "user"
  /\ waits' = timers
  /\ ready' = FALSE
  /\ pc' = "waiting"
  /\ activated' = FALSE
  /\ UNCHANGED <<tick, flags, value, deadline, expired, id, read, left, crossed,
                 unread>>

(* ... which returns when the process is dispatched again. *)
WaitReturn ==
  /\ pc = "waiting"
  /\ ready
  /\ pc' = "user"
  /\ activated' = FALSE
  /\ UNCHANGED <<tick, flags, value, deadline, expired, waits, ready, id, read,
                 left, crossed, unread>>

ProcessStep ==
  \/ \E i \in Ids, count \in Counts, user \in SUBSET UserFlags :
       CreateTimer(i, count, user)
  \/ \E i \in Ids : StartTimer(i)
  \/ \E i \in Ids : RestartTimer(i)
  \/ \E count \in Counts, user \in SUBSET UserFlags : RestartCreate(count, user)
  \/ \E i \in Ids : StopTimer(i)
  \/ \E i \in Ids : DestroyTimer(i)
  \/ ExpiredRead
  \/ ExpiredClear
  \/ \E timers \in BOOLEAN : WaitEvent(timers)
  \/ WaitReturn

Next == SysTick \/ Activate \/ ProcessStep

(* The tick is a hardware timer, and every critical section is finite. *)
Spec == Init /\ [][Next]_vars /\ WF_vars(SysTick)

-----------------------------------------------------------------------------
(* Properties *)

TypeOK ==
  /\ tick \in 0 .. W - 1
  /\ flags \in [Timers -> SUBSET Flags]
  /\ value \in [Timers -> 0 .. W - 1]
  /\ deadline \in [Timers -> 0 .. W - 1]
  /\ expired \in SUBSET Timers
  /\ waits \in BOOLEAN
  /\ ready \in BOOLEAN
  /\ pc \in {"user", "waiting", "restart", "get"}
  /\ id \in Timers
  /\ read \in SUBSET Timers
  /\ left \in [Timers -> 0 .. W - 1]
  /\ crossed \in SUBSET Timers
  /\ unread \in SUBSET Timers
  /\ activated \in BOOLEAN

(* A timer fires only when the ticks it was made with have gone by since   *)
(* it was made or began its period; ticks at which it was found stopped do *)
(* not count (check_timers).  Only a wrap can make it fire too early.      *)
FiresEarly(i) == i \in expired' \ expired /\ left[i] > 1 /\ i \notin crossed
NotEarly == [][\A i \in Timers : ~FiresEarly(i)]_vars

(* A tick that finds an enabled timer whose ticks are up makes it fire,    *)
(* however long its process has not been waiting for timers, and however   *)
(* often it was stopped and started in between, away from the wrap.        *)
OnTime ==
  [][\A i \in Timers :
       /\ tick' = tick + 1
       /\ Served(i) /\ Enabled(i) /\ left[i] <= 1 /\ i \notin crossed
       => i \in expired']_vars

(* A process that nothing else has activated comes back from wait_event to *)
(* find a timer that has expired.                                          *)
WakeHasExpiry == pc = "waiting" /\ ready /\ ~activated => expired # {}

(* What fires outside a call of get_timer_expired stays in timer_expired   *)
(* until the call returns it: not the stop, restart or removal of a timer, *)
(* nor the next period, takes it back.                                     *)
ExpiriesKept == unread \subseteq expired \union read

(* A periodic timer whose ticks are up fires, also when the counter wraps, *)
(* if its process goes on waiting for timers and does not stop it.         *)
Runs(i) == Served(i) /\ Enabled(i) /\ Periodic(i) /\ value[i] > 0
PeriodicFires ==
  \A i \in Ids : left[i] = 0 /\ Runs(i) ~> left[i] > 0 \/ ~Runs(i)
=============================================================================
