---------------------------- MODULE MCMacRequest ----------------------------
(***************************************************************************)
(* MacRequest for TLC: the supplicant thread and an application thread.    *)
(***************************************************************************)
EXTENDS MacRequest, MacMessages

CONSTANTS wpas, app                     \* threads

\* Two requests that wait, one of them answered without parameters, and one
\* that does not wait stand for all.
MCId == {"MM_ADD_IF_CFM", "MM_REMOVE_IF_CFM", "MM_RESET_CFM"}
MCCfmId == {"MM_ADD_IF_CFM", "MM_REMOVE_IF_CFM"}
MCEmptyId == {"MM_REMOVE_IF_CFM"}

ASSUME MCAssumption ==
    /\ MCId \subseteq RequestIds
    /\ MCCfmId = MCId \cap WaitingIds
    /\ MCEmptyId = MCId \cap EmptyIds

\* Each thread makes its own requests.
MCIdsOf ==
    [t \in Thread |-> IF t = app THEN {"MM_REMOVE_IF_CFM"}
                                 ELSE {"MM_ADD_IF_CFM", "MM_RESET_CFM"}]

\* The same without the request that does not wait.
MCWaitingIdsOf == [t \in Thread |-> MCIdsOf[t] \cap MCCfmId]
=============================================================================
