------------------------------- MODULE MCAudit -------------------------------
(* Small instances of Audit for TLC. *)
EXTENDS Audit

CONSTANT e1

OneInstance == {e1}
=============================================================================
