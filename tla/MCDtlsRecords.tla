--------------------------- MODULE MCDtlsRecords ---------------------------
(***************************************************************************)
(* An instance of DtlsRecords for TLC: a short window, numbers that go     *)
(* past its length and past the saturation, datagrams of up to two records *)
(***************************************************************************)
EXTENDS DtlsRecords
=============================================================================
