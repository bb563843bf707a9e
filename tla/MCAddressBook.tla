--------------------------- MODULE MCAddressBook ---------------------------
(***************************************************************************)
(* Instances of AddressBook for TLC.                                       *)
(***************************************************************************)
EXTENDS AddressBook, TLC

WriterSymmetry == Permutations(Writers)
=============================================================================
