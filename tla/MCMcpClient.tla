------------------------------ MODULE MCMcpClient ------------------------------
(***************************************************************************)
(* Instances of McpClient: concurrent calls of a refund the server offers  *)
(* and of a coupon it does not.                                            *)
(***************************************************************************)
EXTENDS McpClient
=============================================================================
