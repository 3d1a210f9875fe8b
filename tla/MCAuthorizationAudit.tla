-------------------------- MODULE MCAuthorizationAudit --------------------------
(***************************************************************************)
(* The audited contract on the instances of MCAuthorization.               *)
(***************************************************************************)
EXTENDS AuthorizationAudit, MCAuthorization
=============================================================================
