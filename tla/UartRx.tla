------------------------------- MODULE UartRx -------------------------------
(***************************************************************************)
(* Reception by the process that owns a UART (kernel/HwDevices/hw_uart.c): *)
(* hw_receive_uart, the receive interrupt, the time-out that every system  *)
(* tick counts down, and the loop of a process that waits for the UART     *)
(* with wait_event (kernel/scheduler.c) and reads what it is told of.      *)
(*                                                                         *)
(* What has come is announced when the buffer is full or when the time-out *)
(* ends.  The time-out counts every tick at which the buffer is not empty: *)
(* characters do not restart it, and a full buffer leaves it where it is.  *)
(* The receive interrupt has the higher priority: it comes between any two *)
(* steps of the tick as well as between any two steps of the process,      *)
(* which the tick interrupts too.  Nothing is assumed of the line: a       *)
(* character comes whenever it likes, before the one before has been read  *)
(* as well as in the middle of a handler.                                  *)
(*                                                                         *)
(* A character is its number: the first to come is 0.                      *)
(***************************************************************************)
EXTENDS Integers, Sequences

CONSTANTS
  Max,       (* rx_buf_max_len                                              *)
  T,         (* the time-out, in ticks; not 0, which means none             *)
  MaxChars   (* bound: no more characters come                              *)

ASSUME RxAssumption ==
  Max \in Nat \ {0} /\ T \in 1 .. 255 /\ MaxChars \in Nat

Slots == 0 .. Max - 1
None == -1

VARIABLES
  idx,        (* HWMngr[].rx_buf_index                                      *)
  rxlen,      (* HWMngr[].rxlen                                             *)
  timer,      (* HWMngr[].timeout                                           *)
  buf,        (* what rx_buf points to                                      *)
  listening,  (* HAL_UART_Receive_IT has been called                        *)
  tick,       (* where HAL_UART_RxTimeoutCheckCallback is                   *)
  ready,      (* the process has PROCESS_READY_STATE                        *)
  rsn,        (* its wakeup_rsn                                             *)
  wake,       (* what its wait_event is going to return                     *)
  pc,         (* where the process is                                       *)
  got,        (* the length it has read                                     *)
  came        (* the line: the number of characters that have come          *)

(* History variables: they record the past and guard nothing. *)
VARIABLES
  from,       (* the first character since the last announcement, or since  *)
              (* hw_receive_uart emptied the buffer                         *)
  batch,      (* the characters of the last announcement                    *)
  told,       (* came, at the last announcement                             *)
  raced,      (* one has come since the time-out ended, inside its handler  *)
  mark        (* came, when the process read the length, if nothing had     *)
              (* come since the announcement; else None                     *)

dev == <<idx, rxlen, timer, buf, listening>>
sleep == <<ready, rsn, wake>>
proc == <<pc, got>>
hist == <<from, batch, told, raced, mark>>
vars == <<dev, tick, sleep, proc, came, hist>>

Reasons == {"uart", "other"}

Init ==
  /\ idx = 0 /\ rxlen = 0 /\ timer = 0
  /\ buf = [s \in Slots |-> None]
  /\ listening = FALSE
  /\ tick = "idle"
  /\ ready = TRUE /\ rsn = {} /\ wake = {}
  /\ pc = "open" /\ got = 0
  /\ came = 0
  /\ from = 0 /\ batch = <<>> /\ told = 0 /\ raced = FALSE /\ mark = None

(* activate_process, called by an interrupt handler                        *)
Activate(r) ==
  /\ rsn' = rsn \union {r}
  /\ ready' = TRUE
  /\ UNCHANGED wake

(* The first n characters of the buffer b.                                 *)
FirstOf(b, n) == [k \in 1 .. n |-> b[k - 1]]

-----------------------------------------------------------------------------
(* The receive interrupt *)

BugIsFull(i) == i > Max
IsFull(i) == i = Max

(* HAL_UART_RxCpltCallback: the next character.                            *)
RxChar ==
  /\ listening
  /\ came < MaxChars
  /\ buf' = [buf EXCEPT ![idx] = came]
  /\ came' = came + 1
  /\ raced' = (tick # "idle")
  /\ IF IsFull(idx + 1)
     THEN /\ rxlen' = idx + 1
          /\ idx' = 0
          /\ Activate("uart")
          /\ batch' = FirstOf(buf', idx + 1)
          /\ from' = came + 1 /\ told' = came + 1
     ELSE /\ idx' = idx + 1
          /\ UNCHANGED <<rxlen, sleep, batch, from, told>>
  /\ UNCHANGED <<timer, listening, tick, proc, mark>>

-----------------------------------------------------------------------------
(* The system tick *)

BugReload == 0
Reload == T

(* HAL_UART_RxTimeoutCheckCallback counts down.                            *)
Tick ==
  /\ tick = "idle"
  /\ IF idx # 0 /\ timer # 0
     THEN IF timer = 1
          THEN timer' = Reload /\ tick' = "expired" /\ raced' = FALSE
          ELSE timer' = timer - 1 /\ UNCHANGED <<tick, raced>>
     ELSE UNCHANGED <<timer, tick, raced>>
  /\ UNCHANGED <<idx, rxlen, buf, listening, sleep, proc, came, from, batch, told, mark>>

(* At the end it notes the length of what has arrived ...                  *)
TickLen ==
  /\ tick = "expired"
  /\ rxlen' = idx
  /\ tick' = "noted"
  /\ UNCHANGED <<idx, timer, buf, listening, sleep, proc, came, hist>>

(* ... empties the buffer and wakes the process.                           *)
BugEmptied == idx
Emptied == 0

TickClear ==
  /\ tick = "noted"
  /\ idx' = Emptied
  /\ Activate("uart")
  /\ tick' = "idle"
  /\ batch' = FirstOf(buf, rxlen)
  /\ from' = came /\ told' = came
  /\ UNCHANGED <<rxlen, timer, buf, listening, proc, came, raced, mark>>

(* Something else wakes the process: a timer, another device.              *)
OtherWake ==
  /\ Activate("other")
  /\ UNCHANGED <<dev, tick, proc, came, hist>>

-----------------------------------------------------------------------------
(* The process runs when no interrupt handler does. *)

Runs(p) == tick = "idle" /\ ready /\ pc = p

(* hw_receive_uart notes the buffer and the time-out; the process calls it *)
(* before its loop, and may call it again when it has read ...             *)
Prepare ==
  /\ \/ Runs("open") /\ pc' = "opening"
     \/ Runs("decoded") /\ pc' = "reopening"
  /\ timer' = T
  /\ UNCHANGED <<idx, rxlen, buf, listening, tick, sleep, got, came, hist>>

(* ... empties the buffer and starts to listen.                            *)
Listen ==
  /\ \/ Runs("opening") /\ pc' = "run"
     \/ Runs("reopening") /\ pc' = "run"
  /\ idx' = 0
  /\ listening' = TRUE
  /\ from' = came
  /\ UNCHANGED <<rxlen, timer, buf, tick, sleep, got, came, batch, told, raced, mark>>

(* wait_event takes the reasons of before the sleep, and sleeps.           *)
Wait ==
  /\ Runs("run") \/ Runs("decoded")
  /\ wake' = rsn
  /\ rsn' = {}
  /\ ready' = FALSE
  /\ pc' = "asleep"
  /\ UNCHANGED <<dev, tick, got, came, hist>>

(* The process has been activated: it looks at what wait_event returns.    *)
Woken ==
  /\ Runs("asleep")
  /\ pc' = IF "uart" \in wake THEN "reading" ELSE "run"
  /\ wake' = {}
  /\ UNCHANGED <<dev, tick, ready, rsn, got, came, hist>>

(* hw_get_uart_receive_len.                                                *)
BugLength == idx
Length == rxlen

ReadLen ==
  /\ Runs("reading")
  /\ got' = Length
  /\ pc' = "decoding"
  /\ mark' = IF told = came THEN came ELSE None
  /\ UNCHANGED <<dev, tick, sleep, came, from, batch, told, raced>>

(* The process has used what it read.                                      *)
Decode ==
  /\ Runs("decoding")
  /\ pc' = "decoded"
  /\ UNCHANGED <<dev, tick, sleep, got, came, hist>>

Step == Prepare \/ Listen \/ Wait \/ Woken \/ ReadLen \/ Decode

-----------------------------------------------------------------------------
Handler == Tick \/ TickLen \/ TickClear

Next == RxChar \/ Handler \/ OtherWake \/ Step

Spec == Init /\ [][Next]_vars

(* The tick keeps coming and its handler ends, and a process that is ready *)
(* gets to run (Scheduler, RunnableRuns).  Neither the line nor another    *)
(* source of activations owes anything.                                    *)
FairSpec == Spec /\ WF_vars(Handler) /\ WF_vars(Step)

-----------------------------------------------------------------------------
(* Properties *)

Places == {"open", "opening", "run", "asleep", "reading", "decoding",
           "decoded", "reopening"}

(* Types: in particular the index of the receive interrupt never leaves    *)
(* the buffer, whatever the ticks and the process do in between.           *)
TypeOK ==
  /\ idx \in Slots /\ rxlen \in 0 .. Max /\ timer \in 0 .. T
  /\ buf \in [Slots -> Nat \union {None}]
  /\ listening \in BOOLEAN /\ ready \in BOOLEAN
  /\ tick \in {"idle", "expired", "noted"}
  /\ rsn \subseteq Reasons /\ wake \subseteq Reasons
  /\ pc \in Places /\ got \in 0 .. Max
  /\ came \in Nat /\ from \in 0 .. came /\ told \in 0 .. came
  /\ raced \in BOOLEAN /\ mark \in {None} \union Nat

(* What is announced is all that has come since the last announcement, in  *)
(* order, nothing lost and nothing stale: by a full buffer as well as by   *)
(* the end of the time-out, wherever that cuts the stream.  The exception  *)
(* is the announcement in whose handler a character came: between the two  *)
(* assignments of the tick it is lost, and a buffer that it fills is       *)
(* announced a second time, or with a length of 0.                         *)
AnnouncedWhole ==
  [][batch' # batch =>
       raced' \/ batch' = [k \in 1 .. came' - from |-> from + k - 1]]_vars

(* The process uses what was announced, if nothing has come between the    *)
(* announcement and the use: reception goes on into the same buffer, from  *)
(* its start.                                                              *)
ReadsAnnounced == pc = "decoding" /\ mark = came => FirstOf(buf, got) = batch

(* No character stays in the buffer for ever, whatever an earlier full     *)
(* buffer has left of the time-out.                                        *)
BufferEmpties == idx # 0 ~> idx = 0

-----------------------------------------------------------------------------
(* What A.doc says of wait_event; the code does not do it. *)

(* "returns why the process has been woken up, so the user process can     *)
(* know why it has been made active": a process that the UART has woken    *)
(* reads what has come.                                                    *)
ToldReads == pc = "asleep" /\ "uart" \in rsn ~> pc = "reading"
=============================================================================
