------------------------------ MODULE MCModule ------------------------------
(***************************************************************************)
(* The module from insmod to rmmod, and two things it does meanwhile: with *)
(* the return addresses on stacks when it stops (StopBT) and with the      *)
(* exception table that it is given when it starts (ExTable).  A behaviour *)
(* is one of the three, the variables of the others stay as they are.      *)
(*                                                                         *)
(* Three processors and two chunks, the scripts load and unload in any     *)
(* order; two threads with up to two frames each, of direct calls and of   *)
(* calls through memory; tables of up to four instructions in any order,   *)
(* chunks of two instructions at three places.                             *)
(***************************************************************************)
EXTENDS Lifecycle, StopBT, ExTable

CONSTANTS t1, t2

VARIABLE part   \* what is looked at

P == INSTANCE PeepTab
MCThreads == <<t1, t2>>
MCEmitted(call) ==
  CASE call = "reg" -> P!HANDLE_CALL_REG(TRUE)
    [] call = "mem" -> P!HANDLE_CALL_MEM(TRUE)
    [] call = "imm" -> P!HANDLE_CALL_C0(TRUE)

\* The rules for calls are as RestoresReturns needs them, and chunks apart as
\* FixupReached needs them.
ASSUME CallAssumption == CallEndsBlock
ASSUME ChunkAssumption == ChunksApart

\* The other parts are where they begin.
PartInit ==
  /\ part \in {"scripts", "stacks", "faults"}
  /\ Init /\ StacksInit /\ TablesInit
  /\ part # "faults" => user = <<>>

PartNext ==
  /\ UNCHANGED part
  /\ \/ part = "scripts" /\ Next /\ UNCHANGED <<stackVars, tableVars>>
     \/ part = "stacks" /\ StacksNext /\ UNCHANGED <<vars, tableVars>>
     \/ part = "faults" /\ TablesNext /\ UNCHANGED <<vars, stackVars>>

PartSpec == PartInit /\ [][PartNext]_<<part, vars, stackVars, tableVars>>

=============================================================================
