-------------------------------- MODULE UartRx ---------------------------------
(***************************************************************************)
(* The serial receiver uart_rx.v: RxClock is one clock edge of it, on the  *)
(* level the line has then.                                                *)
(***************************************************************************)
EXTENDS UartFrame

VARIABLES
  rxState, rxCount, rxBit,  \* r_SM_Main, r_Clock_Count, r_Bit_Index
  rxByte, rxDv,
  rxDataR, rxData           \* the two flops that synchronize the line

rxVars == <<rxState, rxCount, rxBit, rxByte, rxDv, rxDataR, rxData>>

RxTypeOK ==
  /\ rxState \in UartStates
  /\ rxCount \in 0 .. ClksPerBit - 1
  /\ rxBit \in 0 .. DataBits - 1
  /\ rxByte \in Bytes
  /\ {rxDv, rxDataR, rxData} \subseteq BOOLEAN

RxInit ==
  /\ rxState = "s_IDLE"
  /\ rxCount = 0
  /\ rxBit = 0
  /\ rxByte = ZeroByte
  /\ rxDv = FALSE
  /\ rxDataR = TRUE
  /\ rxData = TRUE

RxSync(line) ==
  /\ rxDataR' = line
  /\ rxData' = rxDataR

RxBitOver == rxCount = ClksPerBit - 1
RxTiming  == rxCount' = IF RxBitOver THEN 0 ELSE rxCount + 1

RxIdle ==
  /\ rxState = "s_IDLE"
  /\ rxDv' = FALSE
  /\ rxCount' = 0
  /\ rxBit' = 0
  /\ rxState' = IF rxData THEN "s_IDLE" ELSE "s_START_BIT"
  /\ UNCHANGED rxByte

\* The line must still be low in the middle of the start bit.  A false start
\* goes back to s_IDLE with the count it has; s_IDLE clears it.
RxStartAt(middle) ==
  /\ rxState = "s_START_BIT"
  /\ IF rxCount = middle
       THEN /\ rxState' = IF rxData THEN "s_IDLE" ELSE "s_DATA_BITS"
            /\ rxCount' = IF rxData THEN rxCount ELSE 0
       ELSE rxCount' = rxCount + 1 /\ UNCHANGED rxState
  /\ UNCHANGED <<rxBit, rxByte, rxDv>>

\* Fault: the start bit is sampled at its end.
RxStartEnd == RxStartAt(ClksPerBit - 1)

RxStartBit == RxStartAt((ClksPerBit - 1) \div 2)

RxDataBits ==
  /\ rxState = "s_DATA_BITS"
  /\ RxTiming
  /\ rxByte' = IF RxBitOver THEN [rxByte EXCEPT ![rxBit] = rxData] ELSE rxByte
  /\ rxBit' = IF RxBitOver THEN (rxBit + 1) % DataBits ELSE rxBit
  /\ rxState' = IF RxBitOver /\ rxBit = DataBits - 1 THEN "s_STOP_BIT" ELSE rxState
  /\ UNCHANGED rxDv

\* The level of the stop bit is not looked at.
RxStopBit ==
  /\ rxState = "s_STOP_BIT"
  /\ RxTiming
  /\ rxDv' = (rxDv \/ RxBitOver)
  /\ rxState' = IF RxBitOver THEN "s_CLEANUP" ELSE rxState
  /\ UNCHANGED <<rxBit, rxByte>>

RxCleanup ==
  /\ rxState = "s_CLEANUP"
  /\ rxState' = "s_IDLE"
  /\ rxDv' = FALSE
  /\ UNCHANGED <<rxCount, rxBit, rxByte>>

RxClock(line) ==
  /\ RxSync(line)
  /\ \/ RxIdle
     \/ RxStartBit
     \/ RxDataBits
     \/ RxStopBit
     \/ RxCleanup

================================================================================
