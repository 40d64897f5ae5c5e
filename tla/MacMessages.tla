----------------------------- MODULE MacMessages -----------------------------
(***************************************************************************)
(* The requests of beken378/func/rwnx_intf/rw_msg_tx.c.  Every builder     *)
(* allocates its message, fails with -1 when it cannot, fills it in and    *)
(* hands it to rw_msg_send with the id of the answer it expects; what      *)
(* MacRequest tells apart is that id and whether the caller passes a       *)
(* buffer and waits.  Two builders send their dummy id 0 (no answer).      *)
(***************************************************************************)

\* A request whose builder or callers pass a buffer, and one that passes NULL.
Waits(id) == [id |-> id, cfm |-> TRUE]
Posts(id) == [id |-> id, cfm |-> FALSE]

\* Initialisation and configuration of the MAC.
InitRequests ==
    {Posts("0"), Posts("MM_RESET_CFM"), Posts("MM_START_CFM")}

ConfigRequests ==
    {Posts("ME_CONFIG_CFM"), Posts("ME_CHAN_CONFIG_CFM")}

\* Virtual interfaces, soft AP, its stations, and keys.
InterfaceRequests ==
    {Waits("MM_ADD_IF_CFM"), Waits("MM_REMOVE_IF_CFM")}

ApRequests ==
    {Waits("APM_START_CFM"), Waits("APM_STOP_CFM"),
     Posts("0"), Posts("MM_BCN_CHANGE_CFM")}

StationRequests ==
    {Waits("ME_STA_ADD_CFM"), Posts("ME_STA_DEL_CFM"),
     Posts("ME_SET_CONTROL_PORT_CFM")}

KeyRequests ==
    {Waits("MM_KEY_ADD_CFM"), Posts("MM_KEY_DEL_CFM")}

\* Scans, and the report of a lost connection.
ScanRequests ==
    {Posts("SCANU_START_CFM"), Posts("SCANU_FAST_CFM"), Posts("0")}

\* Queries and channel settings; rw_msg_set_channel is only called without a
\* buffer, and the two rw_msg_get_channel functions send nothing.
ChannelRequests ==
    {Waits("SM_GET_BSS_INFO_CFM"), Posts("MM_SET_FILTER_CFM"),
     Posts("MM_SET_CHANNEL_CFM"), Waits("SCAN_CANCEL_CFM")}

\* The station's connection.
DisconnectRequests ==
    {Waits("SM_DISCONNECT_CFM"), Waits("SM_SET_OPER_STATE_CFM")}

SmeRequests ==
    {Waits("SM_AUTH_CFM"), Waits("SM_ASSOCIATE_CFM")}

ConnectRequests ==
    {Waits("SM_CONNECT_CFM"), Posts("0")}

\* Traffic indication, power and the monitor's beacon timing.
PowerRequests ==
    {Posts("MM_TIM_UPDATE_CFM"), Posts("MM_SET_POWER_CFM"),
     Posts("MM_SET_AP_MONITOR_COEXIST_TBTT_CFM"),
     Posts("MM_SET_AP_MONITOR_COEXIST_TBTT_DUR_CFM")}

Requests ==
    UNION {InitRequests, ConfigRequests, InterfaceRequests, ApRequests,
           StationRequests, KeyRequests, ScanRequests, ChannelRequests,
           DisconnectRequests, SmeRequests, ConnectRequests, PowerRequests}

RequestIds == {r.id : r \in Requests}

WaitingIds == {r.id : r \in {q \in Requests : q.cfm}}

\* Requests that pass a struct ke_msg for a confirm without parameters.
EmptyIds == {"MM_REMOVE_IF_CFM", "SM_DISCONNECT_CFM", "SM_SET_OPER_STATE_CFM"}
=============================================================================
