--------------------------- MODULE ServerHistory ---------------------------
(***************************************************************************)
(* Server with two history variables, for what may become of a transaction *)
(* that createNewBlock has found in the pool: which ones the execution of  *)
(* its present block has tried, and which ones the message loop has        *)
(* removed from the pool since it called Pending.  A block keeps the       *)
(* transactions that succeed; one that fails is tried, and one that the    *)
(* execution has passed over is not.                                       *)
(***************************************************************************)
EXTENDS ServerProperties

VARIABLES tried, gone

historyVars == <<serverVars, tried, gone>>

HistoryInit == ServerInit /\ tried = {} /\ gone = {}

LoopCalls == Loop \in Goroutines /\ step[Loop] = "taken" /\ step'[Loop] = "adding"

LoopTries == Loop \in Goroutines /\ pc[Loop] = "exec" /\ Len(todo'[Loop]) < Len(todo[Loop])

LoopTakes == Loop \in Goroutines /\ step[Loop] = "tip" /\ step'[Loop] = "taken"

MainRemoves == step[Main] = "added" /\ rest' # rest

Record ==
  /\ tried' = IF LoopCalls THEN {}
              ELSE IF LoopTries THEN tried \cup {Head(todo[Loop])}
              ELSE tried
  /\ gone' = IF LoopTakes THEN {}
             ELSE IF MainRemoves THEN gone \cup {Head(rest)}
             ELSE gone

\* The steps of ServerNext, recorded.
HistoryNext ==
  \/ \E tx \in Tx : ProcessTransaction(tx) /\ Record
  \/ \E b \in wire : \E c \in Copies(b) : ProcessBlock(c) /\ Record
  \/ BlockRefused /\ Record
  \/ BlockAdded /\ Record
  \/ RemoveTx /\ Record
  \/ BlockProcessed /\ Record
  \/ ReadTip /\ Record
  \/ TakePending /\ Record
  \/ AddNewBlock /\ Record
  \/ NewBlockRefused /\ Record
  \/ ClearPending /\ Record
  \/ InAddBlock /\ Record
  \/ Elsewhere /\ Record

HistorySpec == HistoryInit /\ [][HistoryNext]_historyVars

-----------------------------------------------------------------------------
(* Properties *)

\* A block of the chain has executed tx.
InChain(tx) == \E i \in DOMAIN chain : tx \in Range(chain[i].txs)

\* tx arrived after everything that createNewBlock found pending.
CameLate(tx) == \A early \in Range(taken.orig) : ArrivedBefore(early, tx)

\* tx stood in the slice of createNewBlock behind one that has been removed meanwhile.
BehindRemoved(tx) ==
  \E i, k \in DOMAIN taken.orig : i < k /\ taken.orig[k] = tx /\ taken.orig[i] \in gone

(***************************************************************************)
(* A transaction leaves pending in one of four ways: a block has executed  *)
(* it, createNewBlock has tried it, it arrived only after createNewBlock   *)
(* had called Pending, or it was passed over, because processBlock removed *)
(* a transaction in front of it, which moves the cells of the slice that   *)
(* is being executed.  In the last two cases it is lost.                   *)
(***************************************************************************)
LostOnlyLateOrSkipped ==
  [][\A tx \in pending.lookup \ pending'.lookup :
       InChain(tx) \/ tx \in tried \/ CameLate(tx) \/ BehindRemoved(tx)]_historyVars
=============================================================================
