---------------------------- MODULE UartRxProofs ----------------------------
(***************************************************************************)
(* What holds of UartRx for any buffer length, time-out and number of      *)
(* characters, whenever they come.                                         *)
(***************************************************************************)
EXTENDS UartRx, TLAPS

(* The buffer holds what has come since the last announcement, unless a    *)
(* character has come inside the handler that is about to announce it.     *)
Clean == tick = "idle" \/ ~raced

FillInv ==
  Clean => /\ idx = came - from
           /\ \A k \in 0 .. idx - 1 : buf[k] = from + k
           /\ tick = "noted" => rxlen = idx

(* What was announced last is in the buffer until the next character.      *)
ToldInv ==
  /\ tick = "idle" /\ told = came => idx = 0 /\ FirstOf(buf, rxlen) = batch
  /\ mark <= came
  /\ pc = "decoding" /\ mark = came =>
       tick = "idle" /\ told = came /\ FirstOf(buf, got) = batch

RxInv == TypeOK /\ FillInv /\ ToldInv

LEMMA InitInv == Init => RxInv
<1> SUFFICES ASSUME Init PROVE RxInv
  OBVIOUS
<1> USE RxAssumption DEF Init
<1>1. TypeOK
  BY DEF TypeOK, Slots, Places, Reasons, None
<1>2. FillInv
  BY DEF FillInv, Clean
<1>3. FirstOf(buf, rxlen) = batch
  BY DEF FirstOf
<1>4. ToldInv
  BY <1>3 DEF ToldInv, None
<1> QED
  BY <1>1, <1>2, <1>4 DEF RxInv

LEMMA StepType == TypeOK /\ [Next]_vars => TypeOK'
<1> SUFFICES ASSUME TypeOK, [Next]_vars PROVE TypeOK'
  OBVIOUS
<1> USE RxAssumption DEF TypeOK, Slots, Places, Reasons, None
<1>1. CASE RxChar
  <2>1. buf' \in [Slots -> Nat \union {None}]
    BY <1>1 DEF RxChar
  <2>2. idx' \in Slots /\ rxlen' \in 0 .. Max
    BY <1>1 DEF RxChar, IsFull
  <2>3. came' \in Nat /\ from' \in 0 .. came' /\ told' \in 0 .. came'
    BY <1>1 DEF RxChar
  <2>4. raced' \in BOOLEAN
    BY <1>1 DEF RxChar
  <2>5. ready' \in BOOLEAN /\ rsn' \subseteq Reasons /\ wake' \subseteq Reasons
    BY <1>1 DEF RxChar, Activate, sleep
  <2> QED
    BY <1>1, <2>1, <2>2, <2>3, <2>4, <2>5 DEF RxChar, proc
<1>2. CASE Tick
  <2>1. timer' \in 0 .. T
    <3>1. timer' \in {timer, T} \/ (timer # 0 /\ timer' = timer - 1)
      BY <1>2 DEF Tick, Reload
    <3> QED
      BY <3>1
  <2>2. tick' \in {"idle", "expired"} /\ raced' \in BOOLEAN
    BY <1>2 DEF Tick
  <2> QED
    BY <1>2, <2>1, <2>2 DEF Tick, sleep, proc
<1>3. CASE TickLen
  BY <1>3 DEF TickLen, sleep, proc, hist
<1>4. CASE TickClear
  BY <1>4 DEF TickClear, Activate, Emptied, proc
<1>5. CASE OtherWake
  BY <1>5 DEF OtherWake, Activate, dev, proc, hist
<1>6. CASE Prepare
  BY <1>6 DEF Prepare, sleep, hist
<1>7. CASE Listen
  BY <1>7 DEF Listen, sleep
<1>8. CASE Wait
  BY <1>8 DEF Wait, dev, hist
<1>9. CASE Woken
  BY <1>9 DEF Woken, dev, hist
<1>10. CASE ReadLen
  BY <1>10 DEF ReadLen, Length, dev, sleep
<1>11. CASE Decode
  BY <1>11 DEF Decode, dev, sleep, hist
<1>12. CASE UNCHANGED vars
  BY <1>12 DEF vars, dev, sleep, proc, hist
<1> QED
  BY <1>1, <1>2, <1>3, <1>4, <1>5, <1>6, <1>7, <1>8, <1>9, <1>10, <1>11, <1>12
  DEF Next, Handler, Step

LEMMA StepFill == RxInv /\ [Next]_vars => FillInv'
<1> SUFFICES ASSUME RxInv, [Next]_vars PROVE FillInv'
  OBVIOUS
<1> USE RxAssumption DEF RxInv, TypeOK, Slots, FillInv, Clean
<1>1. CASE RxChar
  <2>1. CASE tick # "idle"
    BY <1>1, <2>1 DEF RxChar
  <2>2. CASE tick = "idle"
    BY <1>1, <2>2 DEF RxChar, Activate, IsFull
  <2> QED
    BY <2>1, <2>2
<1>2. CASE Tick
  BY <1>2 DEF Tick
<1>3. CASE TickLen
  BY <1>3 DEF TickLen, hist
<1>4. CASE TickClear
  BY <1>4 DEF TickClear, Emptied
<1>5. CASE OtherWake
  BY <1>5 DEF OtherWake, dev, hist
<1>6. CASE Prepare
  BY <1>6 DEF Prepare, hist
<1>7. CASE Listen
  BY <1>7 DEF Listen, Runs
<1>8. CASE Wait
  BY <1>8 DEF Wait, dev, hist
<1>9. CASE Woken
  BY <1>9 DEF Woken, dev, hist
<1>10. CASE ReadLen
  BY <1>10 DEF ReadLen, dev
<1>11. CASE Decode
  BY <1>11 DEF Decode, dev, hist
<1>12. CASE UNCHANGED vars
  BY <1>12 DEF vars, dev, hist
<1> QED
  BY <1>1, <1>2, <1>3, <1>4, <1>5, <1>6, <1>7, <1>8, <1>9, <1>10, <1>11, <1>12
  DEF Next, Handler, Step

LEMMA StepTold == RxInv /\ [Next]_vars => ToldInv'
<1> SUFFICES ASSUME RxInv, [Next]_vars PROVE ToldInv'
  OBVIOUS
<1> USE RxAssumption DEF RxInv, TypeOK, Slots, ToldInv, None
<1>1. CASE RxChar
  <2>1. mark' <= came' /\ mark' # came' /\ tick' = tick
    BY <1>1 DEF RxChar
  <2>2. CASE IsFull(idx + 1)
    <3>1. idx' = 0 /\ batch' = FirstOf(buf', rxlen')
      BY <1>1, <2>2 DEF RxChar
    <3> QED
      BY <2>1, <3>1
  <2>3. CASE ~IsFull(idx + 1)
    <3>1. told' # came'
      BY <1>1, <2>3 DEF RxChar
    <3> QED
      BY <2>1, <3>1
  <2> QED
    BY <2>2, <2>3
<1>2. CASE Tick
  BY <1>2 DEF Tick, proc
<1>3. CASE TickLen
  BY <1>3 DEF TickLen, hist, proc
<1>4. CASE TickClear
  <2>1. /\ idx' = 0 /\ batch' = FirstOf(buf', rxlen') /\ tick = "noted"
        /\ UNCHANGED <<pc, mark, came>>
    BY <1>4 DEF TickClear, Emptied, proc
  <2> QED
    BY <2>1
<1>5. CASE OtherWake
  BY <1>5 DEF OtherWake, dev, hist, proc
<1>6. CASE Prepare
  BY <1>6 DEF Prepare, hist
<1>7. CASE Listen
  BY <1>7 DEF Listen, Runs
<1>8. CASE Wait
  BY <1>8 DEF Wait, dev, hist
<1>9. CASE Woken
  BY <1>9 DEF Woken, dev, hist
<1>10. CASE ReadLen
  BY <1>10 DEF ReadLen, Length, Runs, dev
<1>11. CASE Decode
  BY <1>11 DEF Decode, dev, hist
<1>12. CASE UNCHANGED vars
  BY <1>12 DEF vars, dev, hist, proc
<1> QED
  BY <1>1, <1>2, <1>3, <1>4, <1>5, <1>6, <1>7, <1>8, <1>9, <1>10, <1>11, <1>12
  DEF Next, Handler, Step

LEMMA Invariant == Spec => []RxInv
<1>1. RxInv /\ [Next]_vars => RxInv'
  BY StepType, StepFill, StepTold DEF RxInv
<1> QED
  BY <1>1, InitInv, PTL DEF Spec

(* The index stays in the buffer, and every variable keeps its type.       *)
THEOREM TypeCorrect == Spec => []TypeOK
<1>1. RxInv => TypeOK
  BY DEF RxInv
<1> QED
  BY <1>1, Invariant, PTL

(* What one step may announce.                                             *)
LEMMA AnnounceStep ==
  ASSUME RxInv, [Next]_vars, batch' # batch, ~raced'
  PROVE  batch' = [k \in 1 .. came' - from |-> from + k - 1]
<1> USE RxAssumption DEF RxInv, TypeOK, Slots, FillInv, Clean, FirstOf
<1>1. CASE RxChar
  <2>1. /\ tick = "idle" /\ came' = came + 1 /\ buf' = [buf EXCEPT ![idx] = came]
        /\ batch' = FirstOf(buf', idx + 1)
    BY <1>1 DEF RxChar
  <2>2. idx = came - from /\ \A k \in 0 .. idx - 1 : buf[k] = from + k
    BY <2>1
  <2>3. ASSUME NEW k \in 1 .. idx + 1 PROVE buf'[k - 1] = from + k - 1
    <3>1. CASE k = idx + 1
      BY <2>1, <2>2, <3>1
    <3>2. CASE k # idx + 1
      <4>1. k - 1 \in 0 .. idx - 1 /\ k - 1 # idx /\ k - 1 \in Slots
        BY <3>2
      <4>2. buf[k - 1] = from + (k - 1)
        BY <2>2, <4>1
      <4> QED
        BY <2>1, <4>1, <4>2
    <3> QED
      BY <3>1, <3>2
  <2>4. came' - from = idx + 1
    BY <2>1, <2>2
  <2> QED
    BY <2>1, <2>3, <2>4
<1>2. CASE TickClear
  <2>1. tick = "noted" /\ ~raced /\ came' = came /\ batch' = FirstOf(buf, rxlen)
    BY <1>2 DEF TickClear
  <2>2. rxlen = came - from /\ rxlen \in Int /\ \A k \in 0 .. rxlen - 1 : buf[k] = from + k
    BY <2>1
  <2>3. \A k \in 1 .. rxlen : buf[k - 1] = from + k - 1
    BY <2>2
  <2> QED
    BY <2>1, <2>2, <2>3
<1>3. CASE Tick \/ TickLen \/ OtherWake \/ Step \/ UNCHANGED vars
  BY <1>3 DEF Tick, TickLen, OtherWake, Step, Prepare, Listen, Wait, Woken,
              ReadLen, Decode, vars, hist
<1> QED
  BY <1>1, <1>2, <1>3 DEF Next, Handler

(* Whatever the process, the ticks and the line do: an announcement in     *)
(* whose handler no character comes is of everything that has come since   *)
(* the last one, in order (HAL_UART_RxCpltCallback,                        *)
(* HAL_UART_RxTimeoutCheckCallback, hw_receive_uart).                      *)
THEOREM WholeAnnounced == Spec => AnnouncedWhole
<1>1. RxInv /\ [Next]_vars =>
        [batch' # batch =>
           raced' \/ batch' = [k \in 1 .. came' - from |-> from + k - 1]]_vars
  BY AnnounceStep
<1> QED
  BY <1>1, Invariant, PTL DEF Spec, AnnouncedWhole

(* The length and the buffer that the process uses belong to one           *)
(* announcement, if nothing has come since (hw_get_uart_receive_len).      *)
THEOREM UsesAnnounced == Spec => []ReadsAnnounced
<1>1. RxInv => ReadsAnnounced
  BY DEF RxInv, ToldInv, ReadsAnnounced
<1> QED
  BY <1>1, Invariant, PTL
=============================================================================
