----------------------------- MODULE Scheduler -----------------------------
(***************************************************************************)
(* The preemptive core of the kernel: the round-robin dispatcher run by    *)
(* PendSV, the SysTick handler, and the calls by which a process gives up  *)
(* the CPU or makes another one ready (kernel/scheduler.c, the delays of   *)
(* kernel/timer.c, the fault handlers and process wrappers of              *)
(* kernel/supervisor.c).                                                   *)
(*                                                                         *)
(* Granularity.  A region between __disable_irq and __enable_irq is one    *)
(* action, and so is an interrupt handler.  Everything else a process does *)
(* can be interrupted, so a call that reads first and updates later takes  *)
(* two actions and keeps its place in pc.  PendSV is taken the moment      *)
(* interrupts are enabled: no process moves while pendsv is TRUE.          *)
(***************************************************************************)
EXTENDS Integers

CONSTANTS
  N,          (* user processes; MAX_TASKS = N + 1, process 0 supervises    *)
  W,          (* values of the tick counter, 2^32 in the code               *)
  Reasons,    (* wake-up reasons other than the end of a delay              *)
  TickReasons,(* the reasons posted by check_timers and check_semaphores    *)
  Waits,      (* arguments the processes pass to wait_event                 *)
  Delays,     (* arguments they pass to task_delay                          *)
  Devices,    (* (process, reason) pairs device interrupts post             *)
  Senders,    (* processes that activate others (mbx_send, destroy_semaphore)*)
  Mortal,     (* processes that may fault or return                         *)
  Horizon,    (* task_delay is called only to end before tick Horizon: W for *)
              (* a workload that stays clear of the wrap of the counter     *)
  DELAY       (* the bit SUSPEND_ON_DELAY                                   *)

ASSUME NAssumption == N \in Nat \ {0}
ASSUME TickAssumption == W \in Nat \ {0}
ASSUME ReasonAssumption ==
  /\ TickReasons \subseteq Reasons
  /\ DELAY \notin Reasons
  /\ Waits \subseteq SUBSET Reasons
ASSUME DelayAssumption == Delays \subseteq 1 .. W - 1 /\ Horizon \in Nat
ASSUME ProcessAssumption ==
  /\ Devices \subseteq (1 .. N) \X Reasons
  /\ Senders \subseteq 1 .. N
  /\ Mortal \subseteq 1 .. N

Tasks == 0 .. N
User == 1 .. N

(* Adding to a tick count wraps; t is below W and d at most W. *)
BugLaterNoWrap(t, d) == t + d
Later(t, d) == IF t + d < W THEN t + d ELSE t + d - W

VARIABLES
  current,     (* Asys.current_process                                      *)
  pendsv,      (* SCB->ICSR PENDSVSET                                       *)
  tick,        (* Asys.g_tick_count                                         *)
  ready,       (* PROCESS_READY_STATE bit of process[p].current_state       *)
  killed,      (* PROCESS_KILLED_STATE bit                                  *)
  waitEvent,   (* process[p].wait_event                                     *)
  wakeupRsn,   (* process[p].wakeup_rsn                                     *)
  wakeupFlags, (* process[p].wakeup_flags                                   *)
  delayValue,  (* process[p].delay_value                                    *)
  pc,          (* where p is: in its own code or inside a kernel call       *)
  ret,         (* the value a kernel call of p has read and will return     *)
  dest         (* dest_process of the activate_process p is inside of       *)

(* History variables: they record the past and guard nothing. *)
VARIABLES
  passedOver,  (* dispatches that chose another task while p was runnable   *)
  owedTicks,   (* ticks of p's last task_delay still to come                *)
  postedSince, (* reasons posted to p since it last gave up the CPU         *)
  unreported   (* reasons posted to p and not yet returned by wait_event    *)

code == <<current, pendsv, tick, ready, killed, waitEvent, wakeupRsn,
          wakeupFlags, delayValue, pc, ret, dest>>
history == <<passedOver, owedTicks, postedSince, unreported>>
vars == <<code, history>>

(* init_processes_stacks, and A_init_mem for the rest of the PCBs. *)
Init ==
  /\ current = 0
  /\ pendsv = FALSE
  /\ tick = 0
  /\ ready = [p \in Tasks |-> TRUE]
  /\ killed = [p \in Tasks |-> FALSE]
  /\ waitEvent = [p \in Tasks |-> {}]
  /\ wakeupRsn = [p \in Tasks |-> {}]
  /\ wakeupFlags = [p \in Tasks |-> {}]
  /\ delayValue = [p \in Tasks |-> 0]
  /\ pc = [p \in Tasks |-> "user"]
  /\ ret = [p \in Tasks |-> {}]
  /\ dest = [p \in Tasks |-> 0]
  /\ passedOver = [p \in Tasks |-> 0]
  /\ owedTicks = [p \in Tasks |-> 0]
  /\ postedSince = [p \in Tasks |-> {}]
  /\ unreported = [p \in Tasks |-> {}]

-----------------------------------------------------------------------------
(* Dispatching *)

Runnable(p) == p = 0 \/ (ready[p] /\ ~killed[p])

NoneRunnable(first, last) == \A q \in first .. last : ~Runnable(q)

(* The scan without the return at the rollover: the supervisor runs only   *)
(* when no user process can.                                               *)
BugIsNextNoRollover(p) ==
  \/ p > current /\ Runnable(p) /\ NoneRunnable(current + 1, p - 1)
  \/ /\ p \in 1 .. current /\ Runnable(p)
     /\ NoneRunnable(current + 1, N) /\ NoneRunnable(1, p - 1)
  \/ p = 0 /\ NoneRunnable(1, N)

(* The scan started from process 1 at every switch: a fixed priority.      *)
BugIsNextPriority(p) ==
  \/ p > 0 /\ Runnable(p) /\ NoneRunnable(1, p - 1)
  \/ p = 0 /\ NoneRunnable(1, N)

(* The task update_next_task stops at: the next runnable one, or the       *)
(* supervisor when current_process rolls over to 0 first.                  *)
IsNext(p) ==
  \/ p > current /\ Runnable(p) /\ NoneRunnable(current + 1, p - 1)
  \/ p = 0 /\ NoneRunnable(current + 1, N)

(* passedOver counts up to N + 1: one more than NoStarvation allows. *)
OneMore(n) == IF n <= N THEN n + 1 ELSE n

(* PendSV_Handler: saves the context of current and loads the next one. *)
PendSV ==
  /\ pendsv
  /\ pendsv' = FALSE
  /\ \E next \in Tasks :
       /\ IsNext(next)
       /\ current' = next
       /\ passedOver' = [p \in Tasks |-> IF Runnable(p) /\ p # next
                                           THEN OneMore(passedOver[p]) ELSE 0]
  /\ UNCHANGED <<tick, ready, killed, waitEvent, wakeupRsn, wakeupFlags,
                 delayValue, pc, ret, dest, owedTicks, postedSince, unreported>>

-----------------------------------------------------------------------------
(* Interrupt handlers *)

(* activate_process tests the KILLED bit and, if it is clear, overwrites   *)
(* current_state with READY and adds the reason and the flags.             *)
BugMayActivateAnyone(q) == q \in User
MayActivate(q) == ~killed[q]

MadeReady(q) == [ready EXCEPT ![q] = TRUE]

(* The reasons in a set of posts that activate_process takes for p. *)
PostedTo(posts, p) == {r \in Reasons : <<p, r>> \in posts /\ MayActivate(p)}

RecordPosts(posts) ==
  /\ wakeupRsn' = [p \in Tasks |-> wakeupRsn[p] \union PostedTo(posts, p)]
  /\ wakeupFlags' = [p \in Tasks |-> wakeupFlags[p] \union PostedTo(posts, p)]
  /\ postedSince' = [p \in Tasks |-> postedSince[p] \union PostedTo(posts, p)]
  /\ unreported' = [p \in Tasks |-> unreported[p] \union PostedTo(posts, p)]

(* The test by which check_timers ends a delay. *)
BugDelayOverEarly(p, now) == DELAY \in waitEvent[p] /\ now + 1 >= delayValue[p]
BugDelayOverStrict(p, now) == DELAY \in waitEvent[p] /\ now > delayValue[p]
DelayOver(p, now) == DELAY \in waitEvent[p] /\ now >= delayValue[p]

(* SysTick_Handler.  Which timers and semaphore timeouts fire is left      *)
(* open here (modules Timers and Semaphores): any set of posts to          *)
(* processes that wait for one of them.  check_timers sets READY even for  *)
(* a killed process, which the dispatcher ignores.                         *)
SysTick ==
  /\ tick' = Later(tick, 1)
  /\ pendsv' = TRUE
  /\ \E posts \in SUBSET {x \in User \X TickReasons : x[2] \in waitEvent[x[1]]} :
       /\ RecordPosts(posts)
       /\ ready' = [p \in Tasks |-> \/ ready[p]
                                    \/ p \in User /\ DelayOver(p, tick')
                                    \/ \E r \in Reasons : <<p, r>> \in posts]
  /\ owedTicks' = [p \in Tasks |-> IF owedTicks[p] = 0 THEN 0
                                                       ELSE owedTicks[p] - 1]
  /\ UNCHANGED <<current, killed, waitEvent, delayValue, pc, ret, dest,
                 passedOver>>

(* A device interrupt that ends in activate_process(p, r, flags). *)
DeviceIrq(p, r) ==
  /\ MayActivate(p)
  /\ RecordPosts({<<p, r>>})
  /\ ready' = MadeReady(p)
  /\ UNCHANGED <<current, pendsv, tick, killed, waitEvent, delayValue, pc, ret,
                 dest, passedOver, owedTicks>>

-----------------------------------------------------------------------------
(* Kernel calls.  A process runs when it is current and no switch is due. *)

Running(p) == current = p /\ ~pendsv

BugMask(p, events) == waitEvent[p] \union events
Mask(p, events) == events

BugReasonsRead(p) == {}
ReasonsRead(p) == wakeupRsn[p]

(* wait_event replaces the mask of the previous call.  It returns the      *)
(* reasons accumulated BEFORE it sleeps: the switch it requests is masked  *)
(* until it has read and cleared them.                                     *)
WaitEvent(p, events) ==
  /\ Running(p)
  /\ pc[p] = "user"
  /\ waitEvent' = [waitEvent EXCEPT ![p] = Mask(p, events)]
  /\ ready' = [ready EXCEPT ![p] = FALSE]
  /\ pendsv' = TRUE
  /\ ret' = [ret EXCEPT ![p] = ReasonsRead(p)]
  /\ wakeupRsn' = [wakeupRsn EXCEPT ![p] = {}]
  /\ pc' = [pc EXCEPT ![p] = "waiting"]
  /\ postedSince' = [postedSince EXCEPT ![p] = {}]
  /\ UNCHANGED <<current, tick, killed, wakeupFlags, delayValue, dest,
                 passedOver, owedTicks, unreported>>

WaitReturn(p) ==
  /\ Running(p)
  /\ pc[p] = "waiting"
  /\ pc' = [pc EXCEPT ![p] = "user"]
  /\ unreported' = [unreported EXCEPT ![p] = @ \ ret[p]]
  /\ ret' = [ret EXCEPT ![p] = {}]
  /\ UNCHANGED <<current, pendsv, tick, ready, killed, waitEvent, wakeupRsn,
                 wakeupFlags, delayValue, dest, passedOver, owedTicks,
                 postedSince>>

TaskDelay(p, d) ==
  /\ Running(p)
  /\ pc[p] = "user"
  /\ tick + d < Horizon
  /\ delayValue' = [delayValue EXCEPT ![p] = Later(tick, d)]
  /\ ready' = [ready EXCEPT ![p] = FALSE]
  /\ waitEvent' = [waitEvent EXCEPT ![p] = {DELAY}]
  /\ pendsv' = TRUE
  /\ pc' = [pc EXCEPT ![p] = "delayed"]
  /\ owedTicks' = [owedTicks EXCEPT ![p] = d]
  /\ postedSince' = [postedSince EXCEPT ![p] = {}]
  /\ UNCHANGED <<current, tick, killed, wakeupRsn, wakeupFlags, ret, dest,
                 passedOver, unreported>>

DelayReturn(p) ==
  /\ Running(p)
  /\ pc[p] = "delayed"
  /\ pc' = [pc EXCEPT ![p] = "user"]
  /\ owedTicks' = [owedTicks EXCEPT ![p] = 0]
  /\ UNCHANGED <<current, pendsv, tick, ready, killed, waitEvent, wakeupRsn,
                 wakeupFlags, delayValue, ret, dest, passedOver, postedSince,
                 unreported>>

(* activate_process called by a process: the KILLED bit is tested before   *)
(* interrupts are disabled ...                                             *)
ActivateTest(p, q) ==
  /\ Running(p)
  /\ pc[p] = "user"
  /\ MayActivate(q)
  /\ pc' = [pc EXCEPT ![p] = "activate"]
  /\ dest' = [dest EXCEPT ![p] = q]
  /\ UNCHANGED <<current, pendsv, tick, ready, killed, waitEvent, wakeupRsn,
                 wakeupFlags, delayValue, ret, history>>

(* ... and current_state is overwritten with READY afterwards. *)
ActivatePost(p, r) ==
  /\ Running(p)
  /\ pc[p] = "activate"
  /\ LET q == dest[p] IN
       /\ wakeupRsn' = [wakeupRsn EXCEPT ![q] = @ \union {r}]
       /\ wakeupFlags' = [wakeupFlags EXCEPT ![q] = @ \union {r}]
       /\ killed' = [killed EXCEPT ![q] = FALSE]
       /\ ready' = MadeReady(q)
       /\ postedSince' = [postedSince EXCEPT ![q] = @ \union {r}]
       /\ unreported' = [unreported EXCEPT ![q] = @ \union {r}]
  /\ pc' = [pc EXCEPT ![p] = "user"]
  /\ dest' = [dest EXCEPT ![p] = 0]
  /\ UNCHANGED <<current, pendsv, tick, waitEvent, delayValue, ret, passedOver,
                 owedTicks>>

(* get_activation_flags reads the flags and then clears them, with         *)
(* interrupts enabled.                                                     *)
FlagsRead(p) ==
  /\ Running(p)
  /\ pc[p] = "user"
  /\ ret' = [ret EXCEPT ![p] = wakeupFlags[p]]
  /\ pc' = [pc EXCEPT ![p] = "flags"]
  /\ UNCHANGED <<current, pendsv, tick, ready, killed, waitEvent, wakeupRsn,
                 wakeupFlags, delayValue, dest, history>>

FlagsClear(p) ==
  /\ Running(p)
  /\ pc[p] = "flags"
  /\ wakeupFlags' = [wakeupFlags EXCEPT ![p] = {}]
  /\ pc' = [pc EXCEPT ![p] = "user"]
  /\ ret' = [ret EXCEPT ![p] = {}]
  /\ UNCHANGED <<current, pendsv, tick, ready, killed, waitEvent, wakeupRsn,
                 delayValue, dest, history>>

(* The fault handlers: the process is killed and a switch requested.  The  *)
(* faulting instruction is where it would resume.                          *)
Fault(p) ==
  /\ Running(p)
  /\ pc[p] # "finished"
  /\ killed' = [killed EXCEPT ![p] = TRUE]
  /\ ready' = [ready EXCEPT ![p] = FALSE]
  /\ pendsv' = TRUE
  /\ pc' = [pc EXCEPT ![p] = "faulted"]
  /\ UNCHANGED <<current, tick, waitEvent, wakeupRsn, wakeupFlags, delayValue,
                 ret, dest, history>>

(* supervisor_process<p> after user_process has returned: killed, and then *)
(* spinning until the next tick takes the CPU away.                        *)
Finish(p) ==
  /\ Running(p)
  /\ pc[p] = "user"
  /\ killed' = [killed EXCEPT ![p] = TRUE]
  /\ ready' = [ready EXCEPT ![p] = FALSE]
  /\ pc' = [pc EXCEPT ![p] = "finished"]
  /\ UNCHANGED <<current, pendsv, tick, waitEvent, wakeupRsn, wakeupFlags,
                 delayValue, ret, dest, history>>

ProcessStep(p) ==
  \/ \E events \in Waits : WaitEvent(p, events)
  \/ WaitReturn(p)
  \/ \E d \in Delays : TaskDelay(p, d)
  \/ DelayReturn(p)
  \/ p \in Senders /\ \E q \in User : ActivateTest(p, q)
  \/ \E r \in Reasons : ActivatePost(p, r)
  \/ FlagsRead(p)
  \/ FlagsClear(p)
  \/ p \in Mortal /\ Fault(p)
  \/ p \in Mortal /\ Finish(p)

Next ==
  \/ SysTick
  \/ PendSV
  \/ \E x \in Devices : DeviceIrq(x[1], x[2])
  \/ \E p \in User : ProcessStep(p)

(* The tick is a hardware timer and PendSV the handler of a pending        *)
(* exception: neither can be held off for ever, as every critical section  *)
(* of the kernel is finite.  Nothing is assumed of the processes.          *)
Spec == Init /\ [][Next]_vars /\ WF_vars(SysTick) /\ WF_vars(PendSV)

-----------------------------------------------------------------------------
(* Properties *)

Places == {"user", "waiting", "delayed", "activate", "flags", "faulted",
           "finished"}

TypeOK ==
  /\ current \in Tasks
  /\ pendsv \in BOOLEAN
  /\ tick \in 0 .. W - 1
  /\ ready \in [Tasks -> BOOLEAN]
  /\ killed \in [Tasks -> BOOLEAN]
  /\ waitEvent \in [Tasks -> SUBSET (Reasons \union {DELAY})]
  /\ wakeupRsn \in [Tasks -> SUBSET Reasons]
  /\ wakeupFlags \in [Tasks -> SUBSET Reasons]
  /\ delayValue \in [Tasks -> 0 .. W - 1]
  /\ pc \in [Tasks -> Places]
  /\ ret \in [Tasks -> SUBSET Reasons]
  /\ dest \in [Tasks -> Tasks]
  /\ passedOver \in [Tasks -> 0 .. N + 1]
  /\ owedTicks \in [Tasks -> 0 .. W - 1]
  /\ postedSince \in [Tasks -> SUBSET Reasons]
  /\ unreported \in [Tasks -> SUBSET Reasons]

(* Round robin: a runnable task, the supervisor included, is dispatched    *)
(* after at most N other dispatches (update_next_task).                    *)
NoStarvation == \A p \in Tasks : passedOver[p] <= N

(* A process comes back from wait_event only if something was posted to it *)
(* after it went to sleep: a delay that ended earlier, whose DELAY bit and *)
(* delay_value are still in its PCB, does not wake it.                     *)
NoSpuriousWake ==
  \A p \in User : Running(p) /\ pc[p] = "waiting" => postedSince[p] # {}

(* A process comes back from task_delay when its ticks have elapsed,       *)
(* unless an activation cut the delay short.                               *)
DelayElapsed ==
  \A p \in User :
    Running(p) /\ pc[p] = "delayed" => owedTicks[p] = 0 \/ postedSince[p] # {}

(* No reason is lost between activate_process and wait_event: what has     *)
(* been posted and not returned is still in wakeup_rsn, or in the hands of *)
(* a wait_event that is about to return it.                                *)
ReasonsKept ==
  \A p \in User :
    pc[p] # "faulted" =>
      unreported[p] \subseteq
        wakeupRsn[p] \union (IF pc[p] = "waiting" THEN ret[p] ELSE {})

(* A blocked process to which something was posted is ready: an activation *)
(* that comes between wait_event and the switch is not forgotten.          *)
PostedIsReady ==
  \A p \in User :
    pc[p] \in {"waiting", "delayed"} /\ postedSince[p] # {} => ready[p]

(* A killed process that no activate_process call is holding in its test   *)
(* window stays killed, whatever is posted to it later.                    *)
InFlight(p) == \E q \in User : pc[q] = "activate" /\ dest[q] = p
Dead(p) == killed[p] /\ ~InFlight(p)
DeadForever == [][\A p \in User : Dead(p) => Dead(p)']_vars

(* The supervisor is dispatched again and again, whatever the load.        *)
SupervisorRuns == []<>(current = 0)

(* A process that can run gets the CPU.                                    *)
RunnableRuns == \A p \in User : Runnable(p) ~> (current = p \/ ~Runnable(p))

(* Every task_delay ends, also when delay_value wraps.                     *)
DelayEnds ==
  \A p \in User : pc[p] = "delayed" ~> (ready[p] \/ pc[p] # "delayed")

=============================================================================
