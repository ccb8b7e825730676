------------------------------- MODULE MCNca -------------------------------
(* An instance of Nca for TLC: archives of both versions, with and without a *)
(* rights id, with a gap in their entries, one with a section of an          *)
(* encryption that is not supported, and a file that is no archive.          *)
EXTENDS Nca

CONSTANTS t1, t2, program, update, old, text, title, foreign

Entry(e, t) == [enc |-> e, type |-> t]

Contents(f) ==
  CASE f = program -> [magic |-> "NCA3", rights |-> title,
                       entries |-> <<Entry("AesCtr", "Pfs"), Entry("None", "RomFs")>>]
    [] f = update  -> [magic |-> "NCA3", rights |-> None,
                       entries |-> <<Entry("AesCtrEx", "RomFs"), Entry("AesCtr", "Pfs")>>]
    [] f = old     -> [magic |-> "NCA2", rights |-> None,
                       entries |-> <<Entry("Absent", "Pfs"), Entry("AesCtr", "RomFs")>>]
    [] f = text    -> [magic |-> "other", rights |-> None,
                       entries |-> <<Entry("Absent", "Pfs"), Entry("Absent", "Pfs")>>]

MCImage == [f \in Files |-> Contents(f)]
=============================================================================
