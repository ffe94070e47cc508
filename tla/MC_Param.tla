------------------------------ MODULE MC_Param ------------------------------
(***************************************************************************)
(* Two clients, an entry that calls set and one that none sets, one        *)
(* account shipped and one to add, and the number of both.                 *)
(***************************************************************************)
EXTENDS ParamProps
CONSTANTS folder, level, admin, guest, low, high
MCFactory == [par |-> [k \in Keys |-> low], sections |-> TRUE,
              users |-> {admin}, keys |-> {admin}, num |-> 1]
=============================================================================
