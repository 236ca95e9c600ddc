----------------------------- MODULE Contracts ------------------------------
(***************************************************************************)
(* The contracts that share no state with each other, in one               *)
(* specification: the entropy oracle, transaction by transaction, its      *)
(* callback loop, call by call, and the sale of vouchers.  A behaviour is  *)
(* one of the contract chosen at its start: since no variable belongs to   *)
(* two of them, the behaviours of several are interleavings of these.      *)
(***************************************************************************)
EXTENDS EntropyOracle, EntropyTrigger, Sale

CONSTANT ActiveContracts    \* which of them behaviours are explored of

VARIABLE activeContract

contractsVars == <<activeContract, oracleVars, triggerVars, saleVars>>

ContractsInit ==
    /\ activeContract \in ActiveContracts
    /\ OracleInit /\ TriggerInit /\ SaleInit
    /\ activeContract # "trigger" =>
          reentrant = {} /\ callbacks = SetToSeq(LoopCallbacks)

OracleRuns ==
    /\ activeContract = "oracle" /\ OracleNext
    /\ UNCHANGED <<activeContract, triggerVars, saleVars>>
TriggerRuns ==
    /\ activeContract = "trigger" /\ TriggerNext
    /\ UNCHANGED <<activeContract, oracleVars, saleVars>>
SaleRuns ==
    /\ activeContract = "sale" /\ SaleNext
    /\ UNCHANGED <<activeContract, oracleVars, triggerVars>>

ContractsNext == OracleRuns \/ TriggerRuns \/ SaleRuns

ContractsSpec == ContractsInit /\ [][ContractsNext]_contractsVars

=============================================================================
