--------------------------- MODULE MCContractTest ---------------------------
(***************************************************************************)
(* All contract tests of the suite.                                        *)
(***************************************************************************)
EXTENDS ContractPlan

ConstScripts == RunTestSuite
=============================================================================
