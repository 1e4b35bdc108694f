---------------------------- MODULE MCBlockEvents ---------------------------
(* Instance of BlockEvents for TLC: three archive nodes that report a      *)
(* block up to four times, and one connection with up to two               *)
(* subscriptions: connections share nothing but the broadcast.             *)
EXTENDS BlockEvents

CONSTANTS c1, a1, a2, a3

MCClients == {c1}
MCANodes == {a1, a2, a3}

MCTxsOf ==
  [b \in {"b1"} |->
    {[category |-> "INIT_DID", from |-> "0xA", recipients |-> {"0xb"}],
     [category |-> "CUSTOM", from |-> "0xb", recipients |-> {}],
     [category |-> "", from |-> "0xc", recipients |-> {}]}]

MCLower(s) == IF s = "0xA" THEN "0xa" ELSE IF s = "0xB" THEN "0xb" ELSE s

Filter(type, value) == [type |-> type, value |-> <<value>>]
MCFilterLists ==
  {<<Wildcard>>,
   <<Filter("FROM", "0xa")>>,
   <<Filter("CATEGORY", "CUSTOM"), Filter("RECIPIENTS", "0xB")>>,
   <<Filter("FROM", "0xa"), Wildcard>>,
   <<Filter("CATEGORY", "")>>,
   <<>>}
=============================================================================
