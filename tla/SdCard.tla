------------------------------- MODULE SdCard -------------------------------
(***************************************************************************)
(* The SD card driver of src/dev/sdc.c: sdc_init, sdc_read and sdc_write,  *)
(* one step per access to the controller or to g_sdc_status, and           *)
(* sdc_handler, the interrupt of the card slot.  The user takes the card   *)
(* out and puts one in between any two steps; a transaction the driver     *)
(* gave up on may still end while it is idle.                              *)
(***************************************************************************)
EXTENDS DriveCall

CONSTANTS
  Cards,   \* the cards the user has: a part of Media
  NoCard   \* an empty slot

VARIABLES
  noinit,   \* g_sdc_status holds SDC_STAT_NOINIT
  slot,     \* external: the card in the slot
  ready,    \* external: the card the controller has initialised
  trans,    \* external: its transaction: [op, lba, data, on], op "none" when done
  failed,   \* external: its error register is not 0
  fifo,     \* external: the sectors waiting in the receive FIFO
  short,    \* history: the last transaction ended well but delivered nothing
  crossed   \* history: a card was put in while sdc_init ran

cardVars == <<noinit, slot, ready, trans, failed, fifo, short, crossed>>
sdVars   == <<callVars, cardVars>>

NoTransaction(d) == [op |-> "none", lba |-> 0, data |-> d, on |-> NoCard]
MaxFifo == 2    \* bound of the model: sectors the receive FIFO takes

CardInit ==
  /\ noinit = TRUE
  /\ slot \in Cards \cup {NoCard}
  /\ ready = NoCard
  /\ trans = NoTransaction(cell)
  /\ failed = FALSE /\ fifo = <<>>
  /\ short = FALSE /\ crossed = FALSE

-----------------------------------------------------------------------------
SdcInit ==
  /\ Begin("init", 0, "detect")
  /\ crossed' = FALSE
  /\ UNCHANGED <<content, cell, allowed, noinit, slot, ready, trans, failed, fifo, short>>

SdcRead(lba) ==
  /\ Begin("read", lba, "detect")
  /\ UNCHANGED <<content, cell, allowed, cardVars>>

SdcWrite(lba, d) ==
  /\ Begin("write", lba, "detect")
  /\ cell' = d
  /\ UNCHANGED <<content, allowed, cardVars>>

(* No card in the slot: DEV_NOMEDIA.                                       *)
SdcNoCard ==
  /\ pc = "detect" /\ slot = NoCard
  /\ noinit' = TRUE
  /\ Return("failed")
  /\ UNCHANGED <<content, cell, allowed, slot, ready, trans, failed, fifo, short, crossed>>

SdcCard ==
  /\ pc = "detect" /\ slot # NoCard
  /\ Go("start")
  /\ UNCHANGED <<content, cell, allowed, cardVars>>

(* The data goes to the controller, then SDC_TRANS_START.  The controller  *)
(* drops a transaction it has not ended.  A write may land from here on.   *)
SdcStart ==
  /\ pc = "start"
  /\ trans' = [op |-> call.op, lba |-> call.lba, data |-> cell, on |-> slot]
  /\ failed' = FALSE
  /\ Go("busy")
  /\ IF call.op = "write" /\ slot # NoCard
       THEN MayHold(slot, call.lba, cell)
       ELSE UNCHANGED allowed
  /\ short' = FALSE
  /\ UNCHANGED <<content, cell, noinit, slot, ready, fifo, crossed>>

(* sdc_wait_busy gives up: DEV_TIMEOUT.                                    *)
SdcTimeout ==
  /\ pc = "busy"
  /\ noinit' = (noinit \/ call.op = "init")
  /\ Return("failed")
  /\ UNCHANGED <<content, cell, allowed, slot, ready, trans, failed, fifo, short, crossed>>

\* Mutant: the driver goes on without waiting for the transaction to end.
SdcEnded_NoWait ==
  /\ pc = "busy"
  /\ Go(IF failed THEN "refused" ELSE "accepted")
  /\ UNCHANGED <<content, cell, allowed, cardVars>>

(* The transaction has ended; its error register is read.                  *)
SdcEnded ==
  /\ pc = "busy" /\ trans.op = "none"
  /\ Go(IF failed THEN "refused" ELSE "accepted")
  /\ UNCHANGED <<content, cell, allowed, cardVars>>

SdcRefused ==
  /\ pc = "refused"
  /\ noinit' = (noinit \/ call.op = "init")
  /\ Return("failed")
  /\ UNCHANGED <<content, cell, allowed, slot, ready, trans, failed, fifo, short, crossed>>

(* sdc_init flags the card as initialised, whatever sdc_handler did since  *)
(* the error register was read.                                            *)
SdcInitialised ==
  /\ pc = "accepted" /\ call.op = "init"
  /\ noinit' = FALSE
  /\ Return("ok")
  /\ UNCHANGED <<content, cell, allowed, slot, ready, trans, failed, fifo, short, crossed>>

(* The count of the receive FIFO: more than a sector is DEV_BOUNDS_ERR,    *)
(* with the FIFO left as it is; nothing at all is taken for a sector.      *)
SdcFetch ==
  /\ pc = "accepted" /\ call.op = "read"
  /\ IF Len(fifo) > 1
       THEN Return("failed") /\ UNCHANGED <<cell, fifo>>
       ELSE /\ Go("fetched")
            /\ cell' = IF fifo = <<>> THEN cell ELSE Head(fifo)
            /\ fifo' = <<>>
  /\ UNCHANGED <<content, allowed, noinit, slot, ready, trans, failed, short, crossed>>

(* The error register is read again after the data.                        *)
SdcFetched ==
  /\ pc = "fetched"
  /\ Return(IF failed THEN "failed" ELSE "ok")
  /\ UNCHANGED <<content, cell, allowed, cardVars>>

SdcWritten ==
  /\ pc = "accepted" /\ call.op = "write"
  /\ Return("ok")
  /\ MustHold(trans.on, call.lba, cell)
  /\ UNCHANGED <<content, cell, cardVars>>

-----------------------------------------------------------------------------
(* External: a transaction ends.  One on a card that was not initialised,  *)
(* or is not there, fails; any other may.  A read may end well without     *)
(* having delivered its sector.                                            *)
Ended ==
  trans' = [op |-> "none", lba |-> 0, data |-> trans.data, on |-> trans.on]
OnCard == slot # NoCard /\ ready = slot

CardFails ==
  /\ trans.op # "none"
  /\ Ended /\ failed' = TRUE
  /\ ready' = IF trans.op = "init" THEN NoCard ELSE ready
  /\ UNCHANGED <<callVars, noinit, slot, fifo, short, crossed>>

CardInitialises ==
  /\ trans.op = "init" /\ slot # NoCard
  /\ Ended /\ ready' = slot
  /\ UNCHANGED <<callVars, noinit, slot, failed, fifo, short, crossed>>

CardReads ==
  /\ trans.op = "read" /\ OnCard
  /\ Ended
  /\ \/ /\ Len(fifo) < MaxFifo
        /\ fifo' = Append(fifo, content[slot][trans.lba])
        /\ UNCHANGED short
     \/ short' = TRUE /\ UNCHANGED fifo
  /\ UNCHANGED <<callVars, noinit, slot, ready, failed, crossed>>

CardWrites ==
  /\ trans.op = "write" /\ OnCard
  /\ Ended
  /\ content' = [content EXCEPT ![slot][trans.lba] = trans.data]
  /\ UNCHANGED <<cell, call, pc, ret, allowed, noinit, slot, ready, failed, fifo, short, crossed>>

(* External: the card comes out; the controller sees no interrupt.         *)
Remove ==
  /\ slot # NoCard
  /\ slot' = NoCard /\ ready' = NoCard
  /\ UNCHANGED <<callVars, noinit, trans, failed, fifo, short, crossed>>

\* Mutant: the interrupt does nothing while a transfer is under way.
Insert_WhenIdle ==
  /\ slot = NoCard
  /\ slot' \in Cards
  /\ noinit' = (noinit \/ pc = "idle")
  /\ crossed' = (crossed \/ (pc # "idle" /\ call.op = "init"))
  /\ UNCHANGED <<callVars, ready, trans, failed, fifo, short>>

(* A card is put in: sdc_handler.                                          *)
Insert ==
  /\ slot = NoCard
  /\ slot' \in Cards
  /\ noinit' = TRUE
  /\ crossed' = (crossed \/ (pc # "idle" /\ call.op = "init"))
  /\ UNCHANGED <<callVars, ready, trans, failed, fifo, short>>

SdSteps ==
  \/ SdcNoCard \/ SdcCard \/ SdcStart \/ SdcTimeout \/ SdcEnded \/ SdcRefused
  \/ SdcInitialised \/ SdcFetch \/ SdcFetched \/ SdcWritten
  \/ CardFails \/ CardInitialises \/ CardReads \/ CardWrites
  \/ Remove \/ Insert

-----------------------------------------------------------------------------
(* A card that g_sdc_status lets through was initialised since it was put  *)
(* in, unless it was put in while sdc_init ran: FatFs asks for nothing     *)
(* else before it uses the card.                                           *)
FlaggedIsInitialised ==
  pc = "idle" /\ ~noinit /\ slot # NoCard /\ ~crossed => ready = slot

-----------------------------------------------------------------------------
(* sdc_read returns the "number of bytes read", and disk_read takes any    *)
(* number that is not negative for a sector: a read during which the       *)
(* controller delivered nothing does not succeed.                          *)
NothingIsNoSector == pc = "idle" /\ call.op = "read" /\ ret = "ok" => ~short

=============================================================================
