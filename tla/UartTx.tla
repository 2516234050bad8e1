-------------------------------- MODULE UartTx ---------------------------------
(***************************************************************************)
(* The serial transmitter uart_tx.v: TxClock is one clock edge of it.      *)
(***************************************************************************)
EXTENDS UartFrame

VARIABLES
  txState, txCount, txBit,  \* r_SM_Main, r_Clock_Count, r_Bit_Index
  txData, txActive, txDone,
  serial                    \* o_Tx_Serial

txVars == <<txState, txCount, txBit, txData, txActive, txDone, serial>>

TxTypeOK ==
  /\ txState \in UartStates
  /\ txCount \in 0 .. ClksPerBit - 1
  /\ txBit \in 0 .. DataBits - 1
  /\ txData \in Bytes
  /\ {txActive, txDone, serial} \subseteq BOOLEAN

TxInit ==
  /\ txState = "s_IDLE"
  /\ txCount = 0
  /\ txBit = 0
  /\ txData = ZeroByte
  /\ txActive = FALSE
  /\ txDone = FALSE
  /\ serial = TRUE

\* A bit lasts ClksPerBit clocks; with the last of them the FSM moves on.
TxBitOver == txCount = ClksPerBit - 1
TxTiming  == txCount' = IF TxBitOver THEN 0 ELSE txCount + 1

TxIdle(dv, byte) ==
  /\ txState = "s_IDLE"
  /\ serial' = TRUE
  /\ txDone' = FALSE
  /\ txCount' = 0
  /\ txBit' = 0
  /\ IF dv
       THEN txActive' = TRUE /\ txData' = byte /\ txState' = "s_START_BIT"
       ELSE UNCHANGED <<txActive, txData, txState>>

TxStartBit ==
  /\ txState = "s_START_BIT"
  /\ serial' = FALSE
  /\ TxTiming
  /\ txState' = IF TxBitOver THEN "s_DATA_BITS" ELSE txState
  /\ UNCHANGED <<txBit, txData, txActive, txDone>>

TxDataBits ==
  /\ txState = "s_DATA_BITS"
  /\ serial' = txData[txBit]
  /\ TxTiming
  /\ txBit' = IF ~TxBitOver THEN txBit ELSE (txBit + 1) % DataBits
  /\ txState' = IF TxBitOver /\ txBit = DataBits - 1 THEN "s_STOP_BIT" ELSE txState
  /\ UNCHANGED <<txData, txActive, txDone>>

\* Fault: the transmitter is reported idle when the stop bit begins.
TxStopBitUnbusy ==
  /\ txState = "s_STOP_BIT"
  /\ serial' = TRUE
  /\ TxTiming
  /\ txDone' = (txDone \/ TxBitOver)
  /\ txActive' = FALSE
  /\ txState' = IF TxBitOver THEN "s_CLEANUP" ELSE txState
  /\ UNCHANGED <<txBit, txData>>

\* Fault: the active flag is only cleared by a reset.
TxStopBitActive ==
  /\ txState = "s_STOP_BIT"
  /\ serial' = TRUE
  /\ TxTiming
  /\ txDone' = (txDone \/ TxBitOver)
  /\ txState' = IF TxBitOver THEN "s_CLEANUP" ELSE txState
  /\ UNCHANGED <<txBit, txData, txActive>>

TxStopBit ==
  /\ txState = "s_STOP_BIT"
  /\ serial' = TRUE
  /\ TxTiming
  /\ txDone' = (txDone \/ TxBitOver)
  /\ txActive' = (txActive /\ ~TxBitOver)
  /\ txState' = IF TxBitOver THEN "s_CLEANUP" ELSE txState
  /\ UNCHANGED <<txBit, txData>>

TxCleanup ==
  /\ txState = "s_CLEANUP"
  /\ txDone' = TRUE
  /\ txState' = "s_IDLE"
  /\ UNCHANGED <<txCount, txBit, txData, txActive, serial>>

\* A data-valid strobe counts only in s_IDLE.
TxClock(dv, byte) ==
  \/ TxIdle(dv, byte)
  \/ TxStartBit
  \/ TxDataBits
  \/ TxStopBit
  \/ TxCleanup

================================================================================
