----------------------------- MODULE MCPayroll -----------------------------
(***************************************************************************)
(* Small books for Payroll.  Records, settlements, ledger ids and release  *)
(* ids are interchangeable uuids.                                          *)
(***************************************************************************)
EXTENDS Payroll, TLC

Symmetry ==
    Permutations(Worker) \cup Permutations(Record) \cup
    Permutations(Settlement) \cup Permutations(Entry) \cup Permutations(Release)

=============================================================================
