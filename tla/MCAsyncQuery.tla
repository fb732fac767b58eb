---------------------------- MODULE MCAsyncQuery ----------------------------
(* Instances of AsyncQuery for TLC.                                        *)
EXTENDS AsyncQuery, TLC

MCHandles == Ids \X {1, 2}

(* Every call slot belongs to one tenant.                                  *)
MCOneTenant == [c \in Calls |-> CHOOSE t \in Tenants : TRUE]
=============================================================================
