------------------------------ MODULE MCCaseViews ------------------------------
(* CaseViews with the scripts of CaseSchema.                               *)
EXTENDS CaseViews, CaseSchema
TheSchema == CaseDbSchema
=============================================================================
