------------------------------ MODULE MC_Server -----------------------------
(***************************************************************************)
(* A client with each kind of call in turn, beside one that asks for an    *)
(* action; one thread that cannot be created.                              *)
(***************************************************************************)
EXTENDS RpcServer
CONSTANTS c1, c2

AllBesideAction == {p \in [{c1, c2} -> Kinds] : p[c2] = "do"}
=============================================================================
