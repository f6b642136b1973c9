------------------------------ MODULE Commons ------------------------------
(***************************************************************************)
(* What the seats hold in common: the tree and its history, published      *)
(* through the gates (Forge), the record of sealed verdicts (Seal) and the *)
(* bus (Bus).  No tool of one writes what a tool of another reads, so a    *)
(* behaviour is of one of them and the others stay as they were.           *)
(***************************************************************************)
EXTENDS Forge, Seal, Bus

VARIABLE common

CommonsInit ==
  /\ common \in {"tree", "seals", "bus"}
  /\ Init /\ (common = "tree" \/ menu = CHOOSE m \in Menus : TRUE)
  /\ SealInit /\ (common = "seals" \/ \A s \in Sealers : verdicts[s] = Empty)
  /\ BusInit
CommonsNext ==
  /\ common' = common
  /\ \/ common = "tree" /\ Next /\ UNCHANGED <<seal, board>>
     \/ common = "seals" /\ SealNext /\ UNCHANGED <<vars, board>>
     \/ common = "bus" /\ BusNext /\ UNCHANGED <<vars, seal>>
CommonsSpec == CommonsInit /\ [][CommonsNext]_<<vars, seal, board, common>>
============================================================================
