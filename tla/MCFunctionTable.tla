--------------------------- MODULE MCFunctionTable ---------------------------
(***************************************************************************)
(* FunctionTable for two consumers of any two header versions, one of      *)
(* which may ask for another major version.                                *)
(***************************************************************************)
EXTENDS FunctionTable

=============================================================================
