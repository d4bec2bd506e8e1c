-------------------------------- MODULE Ipc --------------------------------
(***************************************************************************)
(* What processes use to wait for one another: the semaphores of           *)
(* kernel/semaphores.c and the mailbox signal of kernel/mbx.c, around      *)
(* wait_event as module Scheduler has it.                                  *)
(*                                                                         *)
(* Granularity.  A masked region is one action and so is the tick.  A      *)
(* process moves whenever it is ready: which ready one runs is the         *)
(* business of Scheduler.  get_semaphore is masked only up to its first    *)
(* wait_event, which enables interrupts.                                   *)
(***************************************************************************)
EXTENDS Integers

CONSTANTS
  Procs,       (* user processes                                            *)
  Sems,        (* semaphores                                                *)
  Waitable,    (* those for which some process asks with SUSPEND_IF_RED     *)
  Trying,      (* processes that ask without SUSPEND_IF_RED                 *)
  Waiting,     (* processes that ask with it, and wait for other events     *)
  Sending,     (* processes that send mail                                  *)
  Timeouts,    (* arguments semaphore_timeout, 0 for SEMAPHORE_WAIT_FOREVER *)
  OwnPlace,    (* a process gives up no place but its own                   *)
  MaxTick,     (* bound: the counter stops here, no deadline is later       *)
  None         (* 0: SEMAPHORE_FREE, and no waiting process                 *)

ASSUME ProcAssumption ==
  /\ None \notin Procs
  /\ Trying \subseteq Procs /\ Waiting \subseteq Procs /\ Sending \subseteq Procs
ASSUME SemAssumption == Waitable \subseteq Sems /\ OwnPlace \in BOOLEAN
ASSUME TimeAssumption == Timeouts \subseteq Nat /\ MaxTick \in Nat

VARIABLES
  owner,       (* Semaphores.semaphore                                      *)
  waiter,      (* Semaphores.semaphore_waiting_process                      *)
  deadline,    (* Semaphores.semaphore_timeout                              *)
  tick,        (* Asys.g_tick_count                                         *)
  ready,       (* processes with PROCESS_READY_STATE                        *)
  onSem,       (* processes whose wait_event has SUSPEND_ON_SEMAPHORE       *)
  rsn,         (* processes with WAKEUP_FROM_SEMAPHORE in wakeup_rsn; the   *)
               (* other reasons only make ready                             *)
  pc,          (* where p is                                                *)
  sem,         (* semaphore_id of the call p is in, or None                  *)
  wake,        (* those whose wait_event has read that bit and returns it   *)
  dest         (* process destroy_semaphore of p is about to activate       *)

(* History variables: they record the past and guard nothing. *)
VARIABLES
  cause,       (* what posted that bit to p, since its wait began            *)
  naps         (* times p slept again after its release was posted, or none *)

code == <<owner, waiter, deadline, tick, ready, onSem, rsn, pc, sem, wake, dest>>
vars == <<code, cause, naps>>

Causes == {"release", "stale", "expiry"}
Places == {"user", "asleep", "timed", "forever", "taking", "freed", "posting"}
Blocked(p) == pc[p] \in {"timed", "forever"}

(* naps: 0 before a release, then 1 + the sleeps since; capped at 3.       *)
Nap(n) == IF n = 0 \/ n = 3 THEN n ELSE n + 1

Init ==
  /\ owner = [j \in Sems |-> None]
  /\ waiter = [j \in Sems |-> None]
  /\ deadline = [j \in Sems |-> 0]
  /\ tick = 0
  /\ ready = Procs
  /\ onSem = {}
  /\ rsn = {}
  /\ pc = [p \in Procs |-> "user"]
  /\ sem = [p \in Procs |-> None]
  /\ wake = {}
  /\ dest = [p \in Procs |-> None]
  /\ cause = [p \in Procs |-> {}]
  /\ naps = [p \in Procs |-> 0]

-----------------------------------------------------------------------------
(* wait_event: the mask is replaced, the process is not ready, and what it *)
(* will return is read now, before the sleep.                              *)
BugSleepForgets(p) ==
  /\ ready' = ready \ {p}
  /\ wake' = wake \ {p}
  /\ rsn' = rsn \ {p}
Sleep(p) ==
  /\ ready' = ready \ {p}
  /\ wake' = IF p \in rsn THEN wake \union {p} ELSE wake \ {p}
  /\ rsn' = rsn \ {p}

(* wait_event for something else, from the process's own code, ...         *)
WaitOther(p) ==
  /\ pc[p] = "user" /\ p \in ready
  /\ Sleep(p)
  /\ onSem' = onSem \ {p}
  /\ pc' = [pc EXCEPT ![p] = "asleep"]
  /\ UNCHANGED <<owner, waiter, deadline, tick, sem, dest, cause, naps>>

(* ... and its return. *)
WaitOtherReturn(p) ==
  /\ pc[p] = "asleep" /\ p \in ready
  /\ pc' = [pc EXCEPT ![p] = "user"]
  /\ wake' = wake \ {p}
  /\ UNCHANGED <<owner, waiter, deadline, tick, ready, onSem, rsn, sem, dest, cause, naps>>

(* mbx_send to q.  The pointer and the size it stores are read by          *)
(* mbx_receive alone, which refers to a variable current_process that no   *)
(* file defines; the receiver acts on the reason.                          *)
MbxSend(p, q) ==
  /\ pc[p] = "user" /\ p \in ready
  /\ ready' = ready \union {q}
  /\ UNCHANGED <<owner, waiter, deadline, tick, onSem, rsn, pc, sem, wake,
                 dest, cause, naps>>

-----------------------------------------------------------------------------
(* get_semaphore *)

MayTry(p, j) == owner[j] = None
BugMayTake(p, j) == owner[j] = p
MayTake(p, j) == owner[j] \in {None, p}

(* Without SEMAPHORE_SUSPEND_IF_RED.  The deadline is left as it was.      *)
TryGet(p, j) ==
  /\ pc[p] = "user" /\ p \in ready
  /\ MayTry(p, j)
  /\ owner' = [owner EXCEPT ![j] = p]
  /\ UNCHANGED <<waiter, deadline, tick, ready, onSem, rsn, pc, sem, wake,
                 dest, cause, naps>>

(* With it, and the semaphore free or already the caller's.                *)
GetFree(p, j, t) ==
  /\ pc[p] = "user" /\ p \in ready
  /\ MayTake(p, j)
  /\ owner' = [owner EXCEPT ![j] = p]
  /\ deadline' = [deadline EXCEPT ![j] = tick + t]
  /\ UNCHANGED <<waiter, tick, ready, onSem, rsn, pc, sem, wake, dest, cause,
                 naps>>

BugMayQueue(j) == TRUE
MayQueue(j) == waiter[j] = None

(* With it, and the semaphore somebody else's: the one place to wait is    *)
(* taken, with the deadline if there is one, and the first wait_event      *)
(* begins.  When the place is not empty the call fails and changes nothing.*)
GetWait(p, j, t) ==
  /\ pc[p] = "user" /\ p \in ready
  /\ ~MayTake(p, j)
  /\ MayQueue(j)
  /\ waiter' = [waiter EXCEPT ![j] = p]
  /\ deadline' = IF t = 0 THEN deadline ELSE [deadline EXCEPT ![j] = tick + t]
  /\ Sleep(p)
  /\ onSem' = onSem \union {p}
  /\ pc' = [pc EXCEPT ![p] = IF t = 0 THEN "forever" ELSE "timed"]
  /\ sem' = [sem EXCEPT ![p] = j]
  /\ cause' = [cause EXCEPT ![p] = IF p \in rsn THEN {"stale"} ELSE {}]
  /\ naps' = [naps EXCEPT ![p] = 0]
  /\ UNCHANGED <<owner, tick, dest>>

(* The loop of a wait with a time-out, back in wait_event ...              *)
BugLeaves(p) == TRUE
Leaves(p) == p \in wake

TimedAgain(p) ==
  /\ pc[p] = "timed" /\ p \in ready
  /\ ~Leaves(p)
  /\ Sleep(p)
  /\ naps' = [naps EXCEPT ![p] = Nap(@)]
  /\ UNCHANGED <<owner, waiter, deadline, tick, onSem, pc, sem, dest,
                 cause>>

(* ... or out of it, by the first of two tests of what is the same bit:    *)
(* the place is given up and the result is SEMAPHORE_TIMEOUT.              *)
TimedReturn(p) ==
  /\ pc[p] = "timed" /\ p \in ready
  /\ Leaves(p)
  /\ waiter' = [waiter EXCEPT ![sem[p]] = None]
  /\ pc' = [pc EXCEPT ![p] = "taking"]
  /\ cause' = [cause EXCEPT ![p] = {}]
  /\ naps' = [naps EXCEPT ![p] = 0]
  /\ UNCHANGED <<owner, deadline, tick, ready, onSem, rsn, sem, wake, dest>>

(* A wait without time-out ends whatever the reason; only with the right   *)
(* one is the place given up and the result GREEN.                         *)
ForeverReturn(p) ==
  /\ pc[p] = "forever" /\ p \in ready
  /\ IF Leaves(p)
       THEN waiter' = [waiter EXCEPT ![sem[p]] = None]
       ELSE UNCHANGED waiter
  /\ pc' = [pc EXCEPT ![p] = "taking"]
  /\ cause' = [cause EXCEPT ![p] = {}]
  /\ naps' = [naps EXCEPT ![p] = 0]
  /\ UNCHANGED <<owner, deadline, tick, ready, onSem, rsn, sem, wake, dest>>

(* After the wait the caller becomes the owner, whatever ended the wait.   *)
Take(p) ==
  /\ pc[p] = "taking" /\ p \in ready
  /\ owner' = [owner EXCEPT ![sem[p]] = p]
  /\ pc' = [pc EXCEPT ![p] = "user"]
  /\ sem' = [sem EXCEPT ![p] = None]
  /\ wake' = wake \ {p}
  /\ UNCHANGED <<waiter, deadline, tick, ready, onSem, rsn, dest, cause,
                 naps>>

-----------------------------------------------------------------------------
(* destroy_semaphore, the only way to give one back, by a process that has *)
(* the semaphore or by any other one: the store, ...                       *)
DestroyFree(p, j) ==
  /\ pc[p] = "user" /\ p \in ready
  /\ owner' = [owner EXCEPT ![j] = None]
  /\ sem' = [sem EXCEPT ![p] = j]
  /\ pc' = [pc EXCEPT ![p] = "freed"]
  /\ UNCHANGED <<waiter, deadline, tick, ready, onSem, rsn, wake, dest, cause,
                 naps>>

(* ... the look at the waiting process, ...                                *)
BugMustActivate(j) == TRUE
MustActivate(j) == waiter[j] # None

DestroyTest(p) ==
  /\ pc[p] = "freed" /\ p \in ready
  /\ dest' = [dest EXCEPT ![p] = waiter[sem[p]]]
  /\ pc' = [pc EXCEPT ![p] = IF MustActivate(sem[p]) THEN "posting" ELSE "user"]
  /\ sem' = [sem EXCEPT ![p] = IF MustActivate(@) THEN @ ELSE None]
  /\ UNCHANGED <<owner, waiter, deadline, tick, ready, onSem, rsn, wake,
                 cause, naps>>

(* The waiting process dest[p] is told that its semaphore is free.         *)
Released(p, q) == dest[p] = q /\ Blocked(q) /\ sem[q] = sem[p]

(* ... and activate_process, which leaves the place taken.                 *)
DestroyPost(p) ==
  /\ pc[p] = "posting" /\ p \in ready
  /\ rsn' = rsn \union {dest[p]}
  /\ ready' = ready \union {dest[p]}
  /\ pc' = [pc EXCEPT ![p] = "user"]
  /\ dest' = [dest EXCEPT ![p] = None]
  /\ sem' = [sem EXCEPT ![p] = None]
  /\ cause' = [q \in Procs |-> IF q = dest[p] /\ Blocked(q)
                                 THEN cause[q] \union {"release"} ELSE cause[q]]
  /\ naps' = [q \in Procs |-> IF Released(p, q) /\ naps[q] = 0
                                THEN 1 ELSE naps[q]]
  /\ UNCHANGED <<owner, waiter, deadline, tick, onSem, wake>>

(* remove_from_waiting_semaphore, which does not look whom it removes.     *)
Unqueue(p, j) ==
  /\ pc[p] = "user" /\ p \in ready
  /\ OwnPlace => waiter[j] = p
  /\ waiter' = [waiter EXCEPT ![j] = None]
  /\ UNCHANGED <<owner, deadline, tick, ready, onSem, rsn, pc, sem, wake, dest, cause, naps>>

-----------------------------------------------------------------------------
(* check_semaphores: a process with SUSPEND_ON_SEMAPHORE in its mask is    *)
(* told so when a semaphore it OWNS is past its deadline.                  *)
Expired(p, now) ==
  p \in onSem /\ \E j \in Sems : owner[j] = p /\ now >= deadline[j]

SysTick ==
  /\ tick' = IF tick < MaxTick THEN tick + 1 ELSE tick
  /\ rsn' = rsn \union {p \in Procs : Expired(p, tick')}
  /\ ready' = ready \union {p \in Procs : Expired(p, tick')}
  /\ cause' = [p \in Procs |->
                IF Blocked(p) /\ Expired(p, tick')
                  THEN cause[p] \union {"expiry"} ELSE cause[p]]
  /\ UNCHANGED <<owner, waiter, deadline, onSem, pc, sem, wake, dest,
                 naps>>

(* What a process goes on with once it is inside a call. *)
InCall(p) ==
  \/ WaitOtherReturn(p)
  \/ TimedAgain(p)
  \/ TimedReturn(p)
  \/ ForeverReturn(p)
  \/ Take(p)
  \/ DestroyTest(p)
  \/ DestroyPost(p)

Call(p) ==
  \/ p \in Sending /\ \E q \in Procs : MbxSend(p, q)
  \/ p \in Trying /\ \E j \in Sems : TryGet(p, j)
  \/ \E j \in Sems : DestroyFree(p, j) \/ Unqueue(p, j)
  \/ p \in Waiting /\ WaitOther(p)
  \/ /\ p \in Waiting
     /\ \E j \in Waitable, t \in Timeouts :
          tick + t <= MaxTick /\ (GetFree(p, j, t) \/ GetWait(p, j, t))

Next == SysTick \/ \E p \in Procs : Call(p) \/ InCall(p)

Spec == Init /\ [][Next]_vars

(* The tick comes, and a process inside a kernel call that is ready goes   *)
(* on: SupervisorRuns and RunnableRuns of Scheduler.                       *)
FairSpec == Spec /\ WF_vars(SysTick) /\ \A p \in Procs : WF_vars(InCall(p))

-----------------------------------------------------------------------------
(* Properties *)

Ticks == 0 .. MaxTick

TypeOK ==
  /\ owner \in [Sems -> Procs \union {None}]
  /\ waiter \in [Sems -> Procs \union {None}]
  /\ deadline \in [Sems -> Nat]
  /\ tick \in Ticks
  /\ ready \in SUBSET Procs
  /\ onSem \in SUBSET Procs
  /\ rsn \in SUBSET Procs
  /\ pc \in [Procs -> Places]
  /\ sem \in [Procs -> Sems \union {None}]
  /\ wake \in SUBSET Procs
  /\ dest \in [Procs -> Procs \union {None}]
  /\ cause \in [Procs -> SUBSET Causes]
  /\ naps \in [Procs -> 0 .. 3]

(* Whoever is blocked in get_semaphore is the process its semaphore would  *)
(* activate: no second caller takes its place.                             *)
WaiterKnown == \A p \in Procs : Blocked(p) => waiter[sem[p]] = p

(* Nobody sleeps on a semaphore that is free: a process that waits for a   *)
(* free one has been told, or a destroy_semaphore that is still under way, *)
(* interrupted between its store, its look at the waiting process and its  *)
(* activation of it, will tell it.                                         *)
WillTell(p, q) ==
  sem[p] = sem[q] /\ (pc[p] = "freed" \/ (pc[p] = "posting" /\ dest[p] = q))
FreeIsTold ==
  \A q \in Procs : Blocked(q) /\ owner[sem[q]] = None =>
    naps[q] # 0 \/ \E p \in Procs : WillTell(p, q)

(* A wait with a time-out does not end for nothing: a semaphore was given  *)
(* back to the process, a reason was left over from before the wait, or a  *)
(* semaphore that it owns itself is past its deadline.                     *)
GrantExplained ==
  \A p \in Procs : pc[p] = "timed" /\ Leaves(p) => cause[p] # {}

(* A release that is posted to a waiting process is not lost: the process  *)
(* sleeps at most once more, so the next activation, for any reason, ends  *)
(* its wait.                                                               *)
ReleaseReaches == \A p \in Procs : Blocked(p) => naps[p] <= 2

-----------------------------------------------------------------------------
(* What A.doc says of get_semaphore; the code does not do it. *)

(* "waiting the availability for semaphore_timeout": a wait with a time-   *)
(* out ends.                                                               *)
WaitEnds == \A p \in Procs : pc[p] = "timed" ~> pc[p] # "timed"
=============================================================================
