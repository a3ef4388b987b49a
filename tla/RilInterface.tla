---------------------------- MODULE RilInterface -----------------------------
(***************************************************************************)
(* What include/telephony/ril.h fixes between libril and the vendor        *)
(* library, which is closed: the number of each request and indication,    *)
(* the data a request carries, what a successful answer carries, and what  *)
(* an indication carries.  A payload is a number of elements of a type;    *)
(* a shape is the set of payloads allowed.  Names leave out RIL_.          *)
(***************************************************************************)
EXTENDS Integers, Sequences

P(type, count) == [type |-> type, count |-> count]
NULL == P("void", 0)
Void == {NULL}
Ints(n) == {P("int", n)}
Str == {P("chars", 1)}
Strs(n) == {P("string", n)}
Groups(n) == {P("string", n * k) : k \in 0 .. 2}
ManyStrs == Groups(1)
One(type) == {P(type, 1)}
Many(type) == {P(type, k) : k \in 0 .. 2}
Bytes == {P("byte", 1), P("byte", 2)}
-----------------------------------------------------------------------------
(* Requests: name, number, data, response. *)

RequestsFrom_GET_SIM_STATUS == {
  <<"GET_SIM_STATUS", 1, Void, One("CardStatus_v6")>>,
  <<"ENTER_SIM_PIN", 2, Strs(2), Ints(1)>>,
  <<"ENTER_SIM_PUK", 3, Strs(3), Ints(1)>>,
  <<"ENTER_SIM_PIN2", 4, Strs(2), Ints(1)>>,
  <<"ENTER_SIM_PUK2", 5, Strs(3), Ints(1)>>,
  <<"CHANGE_SIM_PIN", 6, Strs(3), Ints(1)>> }

RequestsFrom_CHANGE_SIM_PIN2 == {
  <<"CHANGE_SIM_PIN2", 7, Strs(3), Ints(1)>>,
  <<"ENTER_NETWORK_DEPERSONALIZATION", 8, Strs(1), Ints(1)>>,
  <<"GET_CURRENT_CALLS", 9, Void, Many("Call")>>,
  <<"DIAL", 10, One("Dial"), Void>>,
  <<"GET_IMSI", 11, Strs(1), Str>>,
  <<"HANGUP", 12, Ints(1), Void>> }

RequestsFrom_HANGUP_WAITING_OR_BACKGROUND == {
  <<"HANGUP_WAITING_OR_BACKGROUND", 13, Void, Void>>,
  <<"HANGUP_FOREGROUND_RESUME_BACKGROUND", 14, Void, Void>>,
  <<"SWITCH_WAITING_OR_HOLDING_AND_ACTIVE", 15, Void, Void>>,
  <<"CONFERENCE", 16, Void, Void>>,
  <<"UDUB", 17, Void, Void>> }

RequestsFrom_LAST_CALL_FAIL_CAUSE == {
  <<"LAST_CALL_FAIL_CAUSE", 18, Void, One("LastCallFailCauseInfo")>>,
  <<"SIGNAL_STRENGTH", 19, Void, One("SignalStrength")>>,
  <<"VOICE_REGISTRATION_STATE", 20, Void, One("VoiceRegistrationStateResponse")>>,
  <<"DATA_REGISTRATION_STATE", 21, Void, One("DataRegistrationStateResponse")>>,
  <<"OPERATOR", 22, Void, Strs(3)>>,
  <<"RADIO_POWER", 23, Ints(1), Void>> }

RequestsFrom_DTMF == {
  <<"DTMF", 24, Str, Void>>,
  <<"SEND_SMS", 25, Strs(2), One("SMS_Response")>>,
  <<"SEND_SMS_EXPECT_MORE", 26, Strs(2), One("SMS_Response")>> }

RequestsFrom_SETUP_DATA_CALL == {
  <<"SETUP_DATA_CALL", 27, Strs(15), One("Data_Call_Response_v11")>>,
  <<"SIM_IO", 28, One("SIM_IO_v6"), One("SIM_IO_Response")>>,
  <<"SEND_USSD", 29, Str, Void>> }

RequestsFrom_CANCEL_USSD == {
  <<"CANCEL_USSD", 30, Void, Void>>,
  <<"GET_CLIR", 31, Void, Ints(2)>>,
  <<"SET_CLIR", 32, Ints(1), Void>>,
  <<"QUERY_CALL_FORWARD_STATUS", 33, One("CallForwardInfo"), Many("CallForwardInfo")>>,
  <<"SET_CALL_FORWARD", 34, One("CallForwardInfo"), Void>> }

RequestsFrom_QUERY_CALL_WAITING == {
  <<"QUERY_CALL_WAITING", 35, Ints(1), Ints(2)>>,
  <<"SET_CALL_WAITING", 36, Ints(2), Void>>,
  <<"SMS_ACKNOWLEDGE", 37, Ints(2), Void>>,
  <<"GET_IMEI", 38, Void, Str>>,
  <<"GET_IMEISV", 39, Void, Str>>,
  <<"ANSWER", 40, Void, Void>> }

RequestsFrom_DEACTIVATE_DATA_CALL == {
  <<"DEACTIVATE_DATA_CALL", 41, Strs(2), Void>>,
  <<"QUERY_FACILITY_LOCK", 42, Strs(4), Ints(1)>>,
  <<"SET_FACILITY_LOCK", 43, Strs(5), Ints(1)>>,
  <<"CHANGE_BARRING_PASSWORD", 44, Strs(3), Void>>,
  <<"QUERY_NETWORK_SELECTION_MODE", 45, Void, Ints(1)>> }

RequestsFrom_SET_NETWORK_SELECTION_AUTOMATIC == {
  <<"SET_NETWORK_SELECTION_AUTOMATIC", 46, Void, Void>>,
  <<"SET_NETWORK_SELECTION_MANUAL", 47, Str, Void>>,
  <<"QUERY_AVAILABLE_NETWORKS", 48, Void, Groups(4)>>,
  <<"DTMF_START", 49, Str, Void>>,
  <<"DTMF_STOP", 50, Void, Void>>,
  <<"BASEBAND_VERSION", 51, Void, Str>> }

RequestsFrom_SEPARATE_CONNECTION == {
  <<"SEPARATE_CONNECTION", 52, Ints(1), Void>>,
  <<"SET_MUTE", 53, Ints(1), Void>>,
  <<"GET_MUTE", 54, Void, Ints(1)>>,
  <<"QUERY_CLIP", 55, Void, Ints(1)>>,
  <<"LAST_DATA_CALL_FAIL_CAUSE", 56, Void, Ints(1)>> }

RequestsFrom_DATA_CALL_LIST == {
  <<"DATA_CALL_LIST", 57, Void, Many("Data_Call_Response_v6")>>,
  <<"RESET_RADIO", 58, Void, Void>>,
  <<"OEM_HOOK_RAW", 59, Bytes, Bytes>>,
  <<"OEM_HOOK_STRINGS", 60, ManyStrs, ManyStrs>>,
  <<"SCREEN_STATE", 61, Ints(1), Void>>,
  <<"SET_SUPP_SVC_NOTIFICATION", 62, Ints(1), Void>> }

RequestsFrom_WRITE_SMS_TO_SIM == {
  <<"WRITE_SMS_TO_SIM", 63, One("SMS_WriteArgs"), Ints(1)>>,
  <<"DELETE_SMS_ON_SIM", 64, Ints(1), Void>>,
  <<"SET_BAND_MODE", 65, Ints(1), Void>>,
  <<"QUERY_AVAILABLE_BAND_MODE", 66, Void, Ints(3)>>,
  <<"STK_GET_PROFILE", 67, Void, Str>>,
  <<"STK_SET_PROFILE", 68, Str, Void>>,
  <<"STK_SEND_ENVELOPE_COMMAND", 69, Str, Str \cup Void>> }

RequestsFrom_STK_SEND_TERMINAL_RESPONSE == {
  <<"STK_SEND_TERMINAL_RESPONSE", 70, Str, Void>>,
  <<"STK_HANDLE_CALL_SETUP_REQUESTED_FROM_SIM", 71, Ints(1), Void>>,
  <<"EXPLICIT_CALL_TRANSFER", 72, Void, Void>>,
  <<"SET_PREFERRED_NETWORK_TYPE", 73, Ints(1), Void>>,
  <<"GET_PREFERRED_NETWORK_TYPE", 74, Void, Ints(1)>>,
  <<"GET_NEIGHBORING_CELL_IDS", 75, Void, Many("NeighboringCell")>>,
  <<"SET_LOCATION_UPDATES", 76, Ints(1), Void>> }

RequestsFrom_CDMA_SET_SUBSCRIPTION_SOURCE == {
  <<"CDMA_SET_SUBSCRIPTION_SOURCE", 77, Ints(1), Void>>,
  <<"CDMA_SET_ROAMING_PREFERENCE", 78, Ints(1), Void>>,
  <<"CDMA_QUERY_ROAMING_PREFERENCE", 79, Void, Ints(1)>>,
  <<"SET_TTY_MODE", 80, Ints(1), Void>>,
  <<"QUERY_TTY_MODE", 81, Void, Ints(1)>>,
  <<"CDMA_SET_PREFERRED_VOICE_PRIVACY_MODE", 82, Ints(1), Void>> }

RequestsFrom_CDMA_QUERY_PREFERRED_VOICE_PRIVACY_MODE == {
  <<"CDMA_QUERY_PREFERRED_VOICE_PRIVACY_MODE", 83, Void, Ints(1)>>,
  <<"CDMA_FLASH", 84, Str, Void>>,
  <<"CDMA_BURST_DTMF", 85, Strs(3), Void>>,
  <<"CDMA_VALIDATE_AND_WRITE_AKEY", 86, Str, Void>>,
  <<"CDMA_SEND_SMS", 87, One("CDMA_SMS_Message"), One("SMS_Response")>> }

RequestsFrom_CDMA_SMS_ACKNOWLEDGE == {
  <<"CDMA_SMS_ACKNOWLEDGE", 88, One("CDMA_SMS_Ack"), Void>>,
  <<"GSM_GET_BROADCAST_SMS_CONFIG", 89, Void, Many("GSM_BroadcastSmsConfigInfo")>>,
  <<"GSM_SET_BROADCAST_SMS_CONFIG", 90, Many("GSM_BroadcastSmsConfigInfo"), Void>>,
  <<"GSM_SMS_BROADCAST_ACTIVATION", 91, Ints(1), Void>>,
  <<"CDMA_GET_BROADCAST_SMS_CONFIG", 92, Void, Many("CDMA_BroadcastSmsConfigInfo")>>,
  <<"CDMA_SET_BROADCAST_SMS_CONFIG", 93, Many("CDMA_BroadcastSmsConfigInfo"), Void>> }

RequestsFrom_CDMA_SMS_BROADCAST_ACTIVATION == {
  <<"CDMA_SMS_BROADCAST_ACTIVATION", 94, Ints(1), Void>>,
  <<"CDMA_SUBSCRIPTION", 95, Void, Strs(5)>>,
  <<"CDMA_WRITE_SMS_TO_RUIM", 96, One("CDMA_SMS_WriteArgs"), Ints(1)>>,
  <<"CDMA_DELETE_SMS_ON_RUIM", 97, Ints(1), Void>>,
  <<"DEVICE_IDENTITY", 98, Void, Strs(4)>>,
  <<"EXIT_EMERGENCY_CALLBACK_MODE", 99, Void, Void>> }

RequestsFrom_GET_SMSC_ADDRESS == {
  <<"GET_SMSC_ADDRESS", 100, Void, Str>>,
  <<"SET_SMSC_ADDRESS", 101, Str, Void>>,
  <<"REPORT_SMS_MEMORY_STATUS", 102, Ints(1), Void>>,
  <<"REPORT_STK_SERVICE_IS_RUNNING", 103, Void, Void>>,
  <<"CDMA_GET_SUBSCRIPTION_SOURCE", 104, Void, Ints(1)>>,
  <<"ISIM_AUTHENTICATION", 105, Str, Str>>,
  <<"ACKNOWLEDGE_INCOMING_GSM_SMS_WITH_PDU", 106, Strs(2), Void>> }

RequestsFrom_STK_SEND_ENVELOPE_WITH_STATUS == {
  <<"STK_SEND_ENVELOPE_WITH_STATUS", 107, Str, One("SIM_IO_Response")>>,
  <<"VOICE_RADIO_TECH", 108, Void, Ints(1)>>,
  <<"GET_CELL_INFO_LIST", 109, Void, Many("CellInfo_v12")>>,
  <<"SET_UNSOL_CELL_INFO_LIST_RATE", 110, Ints(1), Void>>,
  <<"SET_INITIAL_ATTACH_APN", 111, Strs(5), Void>>,
  <<"IMS_REGISTRATION_STATE", 112, Void, Ints(2)>> }

RequestsFrom_IMS_SEND_SMS == {
  <<"IMS_SEND_SMS", 113, One("IMS_SMS_Message"), One("SMS_Response")>>,
  <<"SIM_TRANSMIT_APDU_BASIC", 114, One("SIM_APDU"), One("SIM_IO_Response")>>,
  <<"SIM_OPEN_CHANNEL", 115, One("OpenChannelParam"), Ints(1) \cup Ints(3)>>,
  <<"SIM_CLOSE_CHANNEL", 116, Ints(1), Void>>,
  <<"SIM_TRANSMIT_APDU_CHANNEL", 117, One("SIM_APDU"), One("SIM_IO_Response")>>,
  <<"NV_READ_ITEM", 118, One("NV_ReadItem"), Str>>,
  <<"NV_WRITE_ITEM", 119, One("NV_WriteItem"), Void>> }

RequestsFrom_NV_WRITE_CDMA_PRL == {
  <<"NV_WRITE_CDMA_PRL", 120, Bytes, Void>>,
  <<"NV_RESET_CONFIG", 121, Ints(1), Void>>,
  <<"SET_UICC_SUBSCRIPTION", 122, One("SelectUiccSub"), Void>>,
  <<"ALLOW_DATA", 123, Ints(1), Void>>,
  <<"GET_HARDWARE_CONFIG", 124, Void, Many("HardwareConfig")>>,
  <<"SIM_AUTHENTICATION", 125, One("SimAuthentication"), One("SIM_IO_Response")>>,
  <<"GET_DC_RT_INFO", 126, Void, One("DcRtInfo")>>,
  <<"SET_DC_RT_INFO_RATE", 127, Ints(1), Void>> }

RequestsFrom_SET_DATA_PROFILE == {
  <<"SET_DATA_PROFILE", 128, Many("DataProfileInfo"), Void>>,
  <<"SHUTDOWN", 129, Void, Void>>,
  <<"GET_RADIO_CAPABILITY", 130, Void, One("RadioCapability")>>,
  <<"SET_RADIO_CAPABILITY", 131, One("RadioCapability"), One("RadioCapability")>>,
  <<"START_LCE", 132, Ints(2), One("LceStatusInfo")>>,
  <<"STOP_LCE", 133, Void, One("LceStatusInfo")>>,
  <<"PULL_LCEDATA", 134, Void, One("LceDataInfo")>>,
  <<"GET_ACTIVITY_INFO", 135, Void, One("ActivityStatsInfo")>> }

RequestsFrom_SET_CARRIER_RESTRICTIONS == {
  <<"SET_CARRIER_RESTRICTIONS", 136, One("CarrierRestrictions"), Ints(1)>>,
  <<"GET_CARRIER_RESTRICTIONS", 137, Void, One("CarrierRestrictions") \cup Void>>,
  <<"SEND_DEVICE_STATE", 138, Ints(2), Void>>,
  <<"SET_UNSOLICITED_RESPONSE_FILTER", 139, Ints(1), Void>>,
  <<"SET_SIM_CARD_POWER", 140, Ints(1), Void>> }

-----------------------------------------------------------------------------
(* Indications: name, number, data. *)

IndicationsFrom_RESPONSE_RADIO_STATE_CHANGED == {
  <<"RESPONSE_RADIO_STATE_CHANGED", 1000, Void>>,
  <<"RESPONSE_CALL_STATE_CHANGED", 1001, Void>>,
  <<"RESPONSE_VOICE_NETWORK_STATE_CHANGED", 1002, Void>>,
  <<"RESPONSE_NEW_SMS", 1003, Str>>,
  <<"RESPONSE_NEW_SMS_STATUS_REPORT", 1004, Str>>,
  <<"RESPONSE_NEW_SMS_ON_SIM", 1005, Ints(1)>>,
  <<"ON_USSD", 1006, Strs(2)>>,
  <<"ON_USSD_REQUEST", 1007, Strs(2)>>,
  <<"NITZ_TIME_RECEIVED", 1008, Str>>,
  <<"SIGNAL_STRENGTH", 1009, One("SignalStrength")>> }

IndicationsFrom_DATA_CALL_LIST_CHANGED == {
  <<"DATA_CALL_LIST_CHANGED", 1010, Many("Data_Call_Response_v6")>>,
  <<"SUPP_SVC_NOTIFICATION", 1011, One("SuppSvcNotification")>>,
  <<"STK_SESSION_END", 1012, Void>>,
  <<"STK_PROACTIVE_COMMAND", 1013, Str>>,
  <<"STK_EVENT_NOTIFY", 1014, Str>>,
  <<"STK_CALL_SETUP", 1015, Ints(1)>>,
  <<"SIM_SMS_STORAGE_FULL", 1016, Void>>,
  <<"SIM_REFRESH", 1017, One("SimRefreshResponse_v7")>>,
  <<"CALL_RING", 1018, Void \cup One("CDMA_SignalInfoRecord")>>,
  <<"RESPONSE_SIM_STATUS_CHANGED", 1019, Void>>,
  <<"RESPONSE_CDMA_NEW_SMS", 1020, One("CDMA_SMS_Message")>> }

IndicationsFrom_RESPONSE_NEW_BROADCAST_SMS == {
  <<"RESPONSE_NEW_BROADCAST_SMS", 1021, Bytes>>,
  <<"CDMA_RUIM_SMS_STORAGE_FULL", 1022, Void>>,
  <<"RESTRICTED_STATE_CHANGED", 1023, Ints(1)>>,
  <<"ENTER_EMERGENCY_CALLBACK_MODE", 1024, Void>>,
  <<"CDMA_CALL_WAITING", 1025, One("CDMA_CallWaiting_v6")>>,
  <<"CDMA_OTA_PROVISION_STATUS", 1026, Ints(1)>>,
  <<"CDMA_INFO_REC", 1027, One("CDMA_InformationRecords")>>,
  <<"OEM_HOOK_RAW", 1028, Bytes>>,
  <<"RINGBACK_TONE", 1029, Ints(1)>>,
  <<"RESEND_INCALL_MUTE", 1030, Void>>,
  <<"CDMA_SUBSCRIPTION_SOURCE_CHANGED", 1031, Ints(1)>>,
  <<"CDMA_PRL_CHANGED", 1032, Ints(1)>>,
  <<"EXIT_EMERGENCY_CALLBACK_MODE", 1033, Void>> }

IndicationsFrom_RIL_CONNECTED == {
  <<"RIL_CONNECTED", 1034, Ints(1)>>,
  <<"VOICE_RADIO_TECH_CHANGED", 1035, Ints(1)>>,
  <<"CELL_INFO_LIST", 1036, Many("CellInfo_v12")>>,
  <<"RESPONSE_IMS_NETWORK_STATE_CHANGED", 1037, Void>>,
  <<"UICC_SUBSCRIPTION_STATUS_CHANGED", 1038, Ints(1)>>,
  <<"SRVCC_STATE_NOTIFY", 1039, Ints(1)>>,
  <<"HARDWARE_CONFIG_CHANGED", 1040, Many("HardwareConfig")>>,
  <<"DC_RT_INFO_CHANGED", 1041, One("DcRtInfo")>>,
  <<"RADIO_CAPABILITY", 1042, One("RadioCapability")>>,
  <<"ON_SS", 1043, One("StkCcUnsolSsResponse")>>,
  <<"STK_CC_ALPHA_NOTIFY", 1044, Str>>,
  <<"LCEDATA_RECV", 1045, One("LceDataInfo")>> }

IndicationsFrom_PCO_DATA == {
  <<"PCO_DATA", 1046, One("PCO_Data")>>,
  <<"MODEM_RESTART", 1047, Str>>,
  <<"CARRIER_INFO_IMSI_ENCRYPTION", 1048, Void>>,
  <<"NETWORK_SCAN_RESULT", 1049, One("NetworkScanResult")>>,
  <<"KEEPALIVE_STATUS", 1050, One("KeepaliveStatus")>> }

-----------------------------------------------------------------------------
(* The vendor's own numbers, from mtk_ril.h, for what libril itself sends. *)

VendorRequests == {
  <<"MODEM_POWEROFF", 2010, Void, Void>>, <<"MODEM_POWERON", 2028, Void, Void>>,
  <<"RESUME_REGISTRATION", 2065, Ints(1), Void>>, <<"SET_CALL_INDICATION", 2086, Ints(3), Void>> }

\* The numbers mtk_ril.h gives the vendor's own indications: the i-th is
\* VENDOR_UNSOL_BASE + i - 1.
VendorUnsolDefines == <<
  "NEIGHBORING_CELL_INFO", "NETWORK_INFO", "PHB_READY_NOTIFICATION", "SIM_INSERTED_STATUS",
  "RADIO_TEMPORARILY_UNAVAILABLE", "ME_SMS_STORAGE_FULL", "SMS_READY_NOTIFICATION",
  "SCRI_RESULT", "SIM_MISSING", "GPRS_DETACH", "ATCI_RESPONSE", "SIM_RECOVERY",
  "VIRTUAL_SIM_ON", "VIRTUAL_SIM_OFF", "INVALID_SIM", "RESPONSE_PS_NETWORK_STATE_CHANGED",
  "RESPONSE_ACMT", "EF_CSP_PLMN_MODE_BIT", "IMEI_LOCK", "RESPONSE_MMRR_STATUS_CHANGED",
  "SIM_PLUG_OUT", "SIM_PLUG_IN", "RESPONSE_ETWS_NOTIFICATION", "RESPONSE_PLMN_CHANGED",
  "RESPONSE_REGISTRATION_SUSPENDED", "STK_EVDL_CALL", "DATA_PACKETS_FLUSH",
  "FEMTOCELL_INFO", "STK_SETUP_MENU_RESET", "APPLICATION_SESSION_ID_CHANGED",
  "ECONF_SRVCC_INDICATION", "IMS_ENABLE_DONE", "IMS_DISABLE_DONE", "IMS_REGISTRATION_INFO",
  "DEDICATE_BEARER_ACTIVATED", "DEDICATE_BEARER_MODIFIED", "DEDICATE_BEARER_DEACTIVATED",
  "RAC_UPDATE", "ECONF_RESULT_INDICATION", "MELOCK_NOTIFICATION", "CALL_FORWARDING",
  "CRSS_NOTIFICATION", "INCOMING_CALL_INDICATION", "CIPHER_INDICATION", "CNAP",
  "SIM_COMMON_SLOT_NO_CHANGED", "DATA_ALLOWED", "STK_CALL_CTRL",
  "VOLTE_EPS_NETWORK_FEATURE_SUPPORT", "CALL_INFO_INDICATION",
  "VOLTE_EPS_NETWORK_FEATURE_INFO", "SRVCC_HANDOVER_INFO_INDICATION", "SPEECH_CODEC_INFO",
  "MD_STATE_CHANGE", "REMOVE_RESTRICT_EUTRAN", "MO_DATA_BARRING_INFO", "SSAC_BARRING_INFO",
  "SIP_CALL_PROGRESS_INDICATOR", "ABNORMAL_EVENT", "EMERGENCY_BEARER_SUPPORT_NOTIFY",
  "INTER_3GPP_IRAT_STATE_CHANGE", "LTE_BG_SEARCH_STATUS", "GMSS_RAT_CHANGED",
  "CDMA_CARD_TYPE", "IMS_ENABLE_START", "IMS_DISABLE_START", "IMSI_REFRESH_DONE",
  "EUSIM_READY", "STK_BIP_PROACTIVE_COMMAND", "WORLD_MODE_CHANGED", "VT_STATUS_INFO",
  "VT_RING_INFO", "VSIM_OPERATION_INDICATION", "SET_ATTACH_APN", "MAL_AT_INFO",
  "MAIN_SIM_INFO", "TRAY_PLUG_IN", "CALLMOD_CHANGE_INDICATOR", "VIDEO_CAPABILITY_INDICATOR",
  "LTE_ACCESS_STRATUM_STATE_CHANGE", "SETUP_DATA_CALL_RESPONSE" >>

RequestRows ==
  RequestsFrom_GET_SIM_STATUS \cup RequestsFrom_CHANGE_SIM_PIN2 \cup
  RequestsFrom_HANGUP_WAITING_OR_BACKGROUND \cup
  RequestsFrom_LAST_CALL_FAIL_CAUSE \cup RequestsFrom_DTMF \cup
  RequestsFrom_SETUP_DATA_CALL \cup RequestsFrom_CANCEL_USSD \cup
  RequestsFrom_QUERY_CALL_WAITING \cup RequestsFrom_DEACTIVATE_DATA_CALL \cup
  RequestsFrom_SET_NETWORK_SELECTION_AUTOMATIC \cup
  RequestsFrom_SEPARATE_CONNECTION \cup RequestsFrom_DATA_CALL_LIST \cup
  RequestsFrom_WRITE_SMS_TO_SIM \cup
  RequestsFrom_STK_SEND_TERMINAL_RESPONSE \cup
  RequestsFrom_CDMA_SET_SUBSCRIPTION_SOURCE \cup
  RequestsFrom_CDMA_QUERY_PREFERRED_VOICE_PRIVACY_MODE \cup
  RequestsFrom_CDMA_SMS_ACKNOWLEDGE \cup
  RequestsFrom_CDMA_SMS_BROADCAST_ACTIVATION \cup
  RequestsFrom_GET_SMSC_ADDRESS \cup
  RequestsFrom_STK_SEND_ENVELOPE_WITH_STATUS \cup
  RequestsFrom_IMS_SEND_SMS \cup RequestsFrom_NV_WRITE_CDMA_PRL \cup
  RequestsFrom_SET_DATA_PROFILE \cup
  RequestsFrom_SET_CARRIER_RESTRICTIONS \cup VendorRequests

UnsolRows ==
  IndicationsFrom_RESPONSE_RADIO_STATE_CHANGED \cup
  IndicationsFrom_DATA_CALL_LIST_CHANGED \cup
  IndicationsFrom_RESPONSE_NEW_BROADCAST_SMS \cup
  IndicationsFrom_RIL_CONNECTED \cup IndicationsFrom_PCO_DATA

RequestNames == {r[1] : r \in RequestRows}
NamedRow(rows, name) == CHOOSE r \in rows : r[1] = name

\* Looked up often: computed once.
RequestNumber == [n \in RequestNames |-> NamedRow(RequestRows, n)[2]]
DeclaredData == [n \in RequestNames |-> NamedRow(RequestRows, n)[3]]
DeclaredResponse == [n \in RequestNames |-> NamedRow(RequestRows, n)[4]]
=============================================================================
