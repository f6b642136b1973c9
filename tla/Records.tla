------------------------------ MODULE Records ------------------------------
(***************************************************************************)
(* The tools of docs/ledger-tools: those that read the sessions (Ledger)   *)
(* and those that read what is cited from documents (Citations).  Nothing  *)
(* the one kind reads is written by the other, so a behaviour is of one    *)
(* kind: the other side keeps a menu or a book that allows nothing.        *)
(***************************************************************************)
EXTENDS Ledger, Citations

CONSTANTS Rest, Closed
ASSUME RestAssumption == Rest \in Menus /\ Closed \in Books

RecordsInit == Init /\ Shelve /\ (menu = Rest \/ book = Closed)
RecordsNext == (Next /\ UNCHANGED shelf) \/ (ShelfNext /\ UNCHANGED vars)
RecordsSpec == RecordsInit /\ [][RecordsNext]_<<vars, shelf>>
============================================================================
