----------------------------- MODULE RilCommands -----------------------------
(***************************************************************************)
(* The two dispatch tables of hal/libril: s_commands, from ril_commands.h, *)
(* and s_unsolResponses, from ril_unsol_commands.h followed by             *)
(* mtk_ril_unsol_commands.h, with the way ril.cpp computes an index into   *)
(* each.  Names leave out RIL_REQUEST_ and RIL_UNSOL_, and the Response    *)
(* and Ind at the end of a function.                                       *)
(***************************************************************************)
EXTENDS Integers, Sequences

VENDOR_REQUEST_BASE == 2000
UNSOL_RESPONSE_BASE == 1000
VENDOR_UNSOL_BASE == 3000

\* A row: the request, its response function, and its proxy; the first is row 0.
s_commands == <<
  <<"none", "NULL", 3>>, <<"GET_SIM_STATUS", "getIccCardStatus", 1>>,
  <<"ENTER_SIM_PIN", "supplyIccPinForApp", 1>>, <<"ENTER_SIM_PUK", "supplyIccPukForApp", 1>>,
  <<"ENTER_SIM_PIN2", "supplyIccPin2ForApp", 1>>,
  <<"ENTER_SIM_PUK2", "supplyIccPuk2ForApp", 1>>,
  <<"CHANGE_SIM_PIN", "changeIccPinForApp", 1>>,
  <<"CHANGE_SIM_PIN2", "changeIccPin2ForApp", 1>>,
  <<"ENTER_NETWORK_DEPERSONALIZATION", "supplyNetworkDepersonalization", 1>>,
  <<"GET_CURRENT_CALLS", "getCurrentCalls", 2>>, <<"DIAL", "dial", 2>>,
  <<"GET_IMSI", "getIMSIForApp", 1>>, <<"HANGUP", "hangupConnection", 4>>,
  <<"HANGUP_WAITING_OR_BACKGROUND", "hangupWaitingOrBackground", 4>>,
  <<"HANGUP_FOREGROUND_RESUME_BACKGROUND", "hangupForegroundResumeBackground", 4>>,
  <<"SWITCH_WAITING_OR_HOLDING_AND_ACTIVE", "switchWaitingOrHoldingAndActive", 4>>,
  <<"CONFERENCE", "conference", 4>>, <<"UDUB", "rejectCall", 2>>,
  <<"LAST_CALL_FAIL_CAUSE", "getLastCallFailCause", 2>>,
  <<"SIGNAL_STRENGTH", "getSignalStrength", 3>>,
  <<"VOICE_REGISTRATION_STATE", "getVoiceRegistrationState", 3>>,
  <<"DATA_REGISTRATION_STATE", "getDataRegistrationState", 3>>,
  <<"OPERATOR", "getOperator", 3>>, <<"RADIO_POWER", "setRadioPower", 1>>,
  <<"DTMF", "sendDtmf", 2>>, <<"SEND_SMS", "sendSms", 1>>,
  <<"SEND_SMS_EXPECT_MORE", "sendSMSExpectMore", 1>>,
  <<"SETUP_DATA_CALL", "setupDataCall", 5>>, <<"SIM_IO", "iccIOForApp", 1>>,
  <<"SEND_USSD", "sendUssd", 2>>, <<"CANCEL_USSD", "cancelPendingUssd", 2>>,
  <<"GET_CLIR", "getClir", 2>>, <<"SET_CLIR", "setClir", 2>>,
  <<"QUERY_CALL_FORWARD_STATUS", "getCallForwardStatus", 1>>,
  <<"SET_CALL_FORWARD", "setCallForward", 2>>, <<"QUERY_CALL_WAITING", "getCallWaiting", 1>>,
  <<"SET_CALL_WAITING", "setCallWaiting", 2>>,
  <<"SMS_ACKNOWLEDGE", "acknowledgeLastIncomingGsmSms", 2>>, <<"GET_IMEI", "NULL", 3>>,
  <<"GET_IMEISV", "NULL", 3>>, <<"ANSWER", "acceptCall", 2>>,
  <<"DEACTIVATE_DATA_CALL", "deactivateDataCall", 5>>,
  <<"QUERY_FACILITY_LOCK", "getFacilityLockForApp", 1>>,
  <<"SET_FACILITY_LOCK", "setFacilityLockForApp", 1>>,
  <<"CHANGE_BARRING_PASSWORD", "setBarringPassword", 2>>,
  <<"QUERY_NETWORK_SELECTION_MODE", "getNetworkSelectionMode", 3>>,
  <<"SET_NETWORK_SELECTION_AUTOMATIC", "setNetworkSelectionModeAutomatic", 3>>,
  <<"SET_NETWORK_SELECTION_MANUAL", "setNetworkSelectionModeManual", 3>>,
  <<"QUERY_AVAILABLE_NETWORKS", "getAvailableNetworks", 3>>, <<"DTMF_START", "startDtmf", 2>>,
  <<"DTMF_STOP", "stopDtmf", 2>>, <<"BASEBAND_VERSION", "getBasebandVersion", 3>>,
  <<"SEPARATE_CONNECTION", "separateConnection", 4>>, <<"SET_MUTE", "setMute", 2>>,
  <<"GET_MUTE", "getMute", 2>>, <<"QUERY_CLIP", "getClip", 2>>,
  <<"LAST_DATA_CALL_FAIL_CAUSE", "NULL", 5>>, <<"DATA_CALL_LIST", "getDataCallList", 5>>,
  <<"RESET_RADIO", "NULL", 1>>, <<"OEM_HOOK_RAW", "sendRequestRaw", 6>>,
  <<"OEM_HOOK_STRINGS", "sendRequestStrings", 3>>, <<"SCREEN_STATE", "sendDeviceState", 3>>,
  <<"SET_SUPP_SVC_NOTIFICATION", "setSuppServiceNotifications", 2>>,
  <<"WRITE_SMS_TO_SIM", "writeSmsToSim", 1>>, <<"DELETE_SMS_ON_SIM", "deleteSmsOnSim", 1>>,
  <<"SET_BAND_MODE", "setBandMode", 3>>,
  <<"QUERY_AVAILABLE_BAND_MODE", "getAvailableBandModes", 3>>,
  <<"STK_GET_PROFILE", "NULL", 1>>, <<"STK_SET_PROFILE", "NULL", 1>>,
  <<"STK_SEND_ENVELOPE_COMMAND", "sendEnvelope", 1>>,
  <<"STK_SEND_TERMINAL_RESPONSE", "sendTerminalResponseToSim", 1>>,
  <<"STK_HANDLE_CALL_SETUP_REQUESTED_FROM_SIM", "handleStkCallSetupRequestFromSim", 1>>,
  <<"EXPLICIT_CALL_TRANSFER", "explicitCallTransfer", 2>>,
  <<"SET_PREFERRED_NETWORK_TYPE", "setPreferredNetworkType", 1>>,
  <<"GET_PREFERRED_NETWORK_TYPE", "getPreferredNetworkType", 1>>,
  <<"GET_NEIGHBORING_CELL_IDS", "getNeighboringCids", 4>>,
  <<"SET_LOCATION_UPDATES", "setLocationUpdates", 3>>,
  <<"CDMA_SET_SUBSCRIPTION_SOURCE", "setCdmaSubscriptionSource", 3>>,
  <<"CDMA_SET_ROAMING_PREFERENCE", "setCdmaRoamingPreference", 3>>,
  <<"CDMA_QUERY_ROAMING_PREFERENCE", "getCdmaRoamingPreference", 3>>,
  <<"SET_TTY_MODE", "setTTYMode", 3>>, <<"QUERY_TTY_MODE", "getTTYMode", 3>>,
  <<"CDMA_SET_PREFERRED_VOICE_PRIVACY_MODE", "setPreferredVoicePrivacy", 2>>,
  <<"CDMA_QUERY_PREFERRED_VOICE_PRIVACY_MODE", "getPreferredVoicePrivacy", 2>>,
  <<"CDMA_FLASH", "sendCDMAFeatureCode", 2>>, <<"CDMA_BURST_DTMF", "sendBurstDtmf", 2>>,
  <<"CDMA_VALIDATE_AND_WRITE_AKEY", "NULL", 2>>, <<"CDMA_SEND_SMS", "sendCdmaSms", 1>>,
  <<"CDMA_SMS_ACKNOWLEDGE", "acknowledgeLastIncomingCdmaSms", 1>>,
  <<"GSM_GET_BROADCAST_SMS_CONFIG", "getGsmBroadcastConfig", 2>>,
  <<"GSM_SET_BROADCAST_SMS_CONFIG", "setGsmBroadcastConfig", 1>>,
  <<"GSM_SMS_BROADCAST_ACTIVATION", "setGsmBroadcastActivation", 1>>,
  <<"CDMA_GET_BROADCAST_SMS_CONFIG", "getCdmaBroadcastConfig", 1>>,
  <<"CDMA_SET_BROADCAST_SMS_CONFIG", "setCdmaBroadcastConfig", 1>>,
  <<"CDMA_SMS_BROADCAST_ACTIVATION", "setCdmaBroadcastActivation", 1>>,
  <<"CDMA_SUBSCRIPTION", "getCDMASubscription", 1>>,
  <<"CDMA_WRITE_SMS_TO_RUIM", "writeSmsToRuim", 1>>,
  <<"CDMA_DELETE_SMS_ON_RUIM", "deleteSmsOnRuim", 1>>,
  <<"DEVICE_IDENTITY", "getDeviceIdentity", 3>>,
  <<"EXIT_EMERGENCY_CALLBACK_MODE", "exitEmergencyCallbackMode", 2>>,
  <<"GET_SMSC_ADDRESS", "getSmscAddress", 2>>, <<"SET_SMSC_ADDRESS", "setSmscAddress", 2>>,
  <<"REPORT_SMS_MEMORY_STATUS", "reportSmsMemoryStatus", 1>>,
  <<"REPORT_STK_SERVICE_IS_RUNNING", "reportStkServiceIsRunning", 1>>,
  <<"CDMA_GET_SUBSCRIPTION_SOURCE", "getCdmaSubscriptionSource", 1>>,
  <<"ISIM_AUTHENTICATION", "requestIsimAuthentication", 1>>,
  <<"ACKNOWLEDGE_INCOMING_GSM_SMS_WITH_PDU", "acknowledgeIncomingGsmSmsWithPdu", 1>>,
  <<"STK_SEND_ENVELOPE_WITH_STATUS", "sendEnvelopeWithStatus", 2>>,
  <<"VOICE_RADIO_TECH", "getVoiceRadioTechnology", 3>>,
  <<"GET_CELL_INFO_LIST", "getCellInfoList", 2>>,
  <<"SET_UNSOL_CELL_INFO_LIST_RATE", "setCellInfoListRate", 3>>,
  <<"SET_INITIAL_ATTACH_APN", "setInitialAttachApn", 1>>,
  <<"IMS_REGISTRATION_STATE", "getImsRegistrationState", 3>>,
  <<"IMS_SEND_SMS", "sendImsSms", 1>>,
  <<"SIM_TRANSMIT_APDU_BASIC", "iccTransmitApduBasicChannel", 1>>,
  <<"SIM_OPEN_CHANNEL", "iccOpenLogicalChannel", 1>>,
  <<"SIM_CLOSE_CHANNEL", "iccCloseLogicalChannel", 1>>,
  <<"SIM_TRANSMIT_APDU_CHANNEL", "iccTransmitApduLogicalChannel", 1>>,
  <<"NV_READ_ITEM", "nvReadItem", 4>>, <<"NV_WRITE_ITEM", "nvWriteItem", 4>>,
  <<"NV_WRITE_CDMA_PRL", "nvWriteCdmaPrl", 4>>, <<"NV_RESET_CONFIG", "nvResetConfig", 4>>,
  <<"SET_UICC_SUBSCRIPTION", "setUiccSubscription", 1>>, <<"ALLOW_DATA", "setDataAllowed", 5>>,
  <<"GET_HARDWARE_CONFIG", "getHardwareConfig", 1>>,
  <<"SIM_AUTHENTICATION", "requestIccSimAuthentication", 3>>, <<"GET_DC_RT_INFO", "NULL", 1>>,
  <<"SET_DC_RT_INFO_RATE", "NULL", 1>>, <<"SET_DATA_PROFILE", "setDataProfile", 1>>,
  <<"SHUTDOWN", "requestShutdown", 1>>, <<"GET_RADIO_CAPABILITY", "getRadioCapability", 1>>,
  <<"SET_RADIO_CAPABILITY", "setRadioCapability", 1>>, <<"START_LCE", "startLceService", 5>>,
  <<"STOP_LCE", "stopLceService", 5>>, <<"PULL_LCEDATA", "pullLceData", 5>>,
  <<"GET_ACTIVITY_INFO", "getModemActivityInfo", 1>>,
  <<"SET_CARRIER_RESTRICTIONS", "setAllowedCarriers", 4>>,
  <<"GET_CARRIER_RESTRICTIONS", "getAllowedCarriers", 4>>,
  <<"SEND_DEVICE_STATE", "sendDeviceState", 3>>,
  <<"SET_UNSOLICITED_RESPONSE_FILTER", "setIndicationFilter", 3>>,
  <<"SET_SIM_CARD_POWER", "setSimCardPower", 1>> >>

\* A row: the indication, its function, and whether it takes the wake lock.
UnsolCommands == <<
  <<"RESPONSE_RADIO_STATE_CHANGED", "radioStateChanged", TRUE>>,
  <<"RESPONSE_CALL_STATE_CHANGED", "callStateChanged", TRUE>>,
  <<"RESPONSE_VOICE_NETWORK_STATE_CHANGED", "networkStateChanged", TRUE>>,
  <<"RESPONSE_NEW_SMS", "newSms", TRUE>>,
  <<"RESPONSE_NEW_SMS_STATUS_REPORT", "newSmsStatusReport", TRUE>>,
  <<"RESPONSE_NEW_SMS_ON_SIM", "newSmsOnSim", TRUE>>, <<"ON_USSD", "onUssd", TRUE>>,
  <<"ON_USSD_REQUEST", "onUssd", FALSE>>, <<"NITZ_TIME_RECEIVED", "nitzTimeReceived", TRUE>>,
  <<"SIGNAL_STRENGTH", "currentSignalStrength", FALSE>>,
  <<"DATA_CALL_LIST_CHANGED", "dataCallListChanged", TRUE>>,
  <<"SUPP_SVC_NOTIFICATION", "suppSvcNotify", TRUE>>,
  <<"STK_SESSION_END", "stkSessionEnd", TRUE>>,
  <<"STK_PROACTIVE_COMMAND", "stkProactiveCommand", TRUE>>,
  <<"STK_EVENT_NOTIFY", "stkEventNotify", TRUE>>, <<"STK_CALL_SETUP", "stkCallSetup", TRUE>>,
  <<"SIM_SMS_STORAGE_FULL", "simSmsStorageFull", TRUE>>, <<"SIM_REFRESH", "simRefresh", TRUE>>,
  <<"CALL_RING", "callRing", TRUE>>,
  <<"RESPONSE_SIM_STATUS_CHANGED", "simStatusChanged", TRUE>>,
  <<"RESPONSE_CDMA_NEW_SMS", "cdmaNewSms", TRUE>>,
  <<"RESPONSE_NEW_BROADCAST_SMS", "newBroadcastSms", TRUE>>,
  <<"CDMA_RUIM_SMS_STORAGE_FULL", "cdmaRuimSmsStorageFull", TRUE>>,
  <<"RESTRICTED_STATE_CHANGED", "restrictedStateChanged", TRUE>>,
  <<"ENTER_EMERGENCY_CALLBACK_MODE", "enterEmergencyCallbackMode", TRUE>>,
  <<"CDMA_CALL_WAITING", "cdmaCallWaiting", TRUE>>,
  <<"CDMA_OTA_PROVISION_STATUS", "cdmaOtaProvisionStatus", TRUE>>,
  <<"CDMA_INFO_REC", "cdmaInfoRec", TRUE>>, <<"OEM_HOOK_RAW", "oemHookRaw", TRUE>>,
  <<"RINGBACK_TONE", "indicateRingbackTone", TRUE>>,
  <<"RESEND_INCALL_MUTE", "resendIncallMute", TRUE>>,
  <<"CDMA_SUBSCRIPTION_SOURCE_CHANGED", "cdmaSubscriptionSourceChanged", TRUE>>,
  <<"CDMA_PRL_CHANGED", "cdmaPrlChanged", TRUE>>,
  <<"EXIT_EMERGENCY_CALLBACK_MODE", "exitEmergencyCallbackMode", TRUE>>,
  <<"RIL_CONNECTED", "rilConnected", TRUE>>,
  <<"VOICE_RADIO_TECH_CHANGED", "voiceRadioTechChanged", TRUE>>,
  <<"CELL_INFO_LIST", "cellInfoList", TRUE>>,
  <<"RESPONSE_IMS_NETWORK_STATE_CHANGED", "imsNetworkStateChanged", TRUE>>,
  <<"UICC_SUBSCRIPTION_STATUS_CHANGED", "subscriptionStatusChanged", TRUE>>,
  <<"SRVCC_STATE_NOTIFY", "srvccStateNotify", TRUE>>,
  <<"HARDWARE_CONFIG_CHANGED", "hardwareConfigChanged", TRUE>>,
  <<"DC_RT_INFO_CHANGED", "NULL", TRUE>>,
  <<"RADIO_CAPABILITY", "radioCapabilityIndication", TRUE>>,
  <<"ON_SS", "onSupplementaryServiceIndication", TRUE>>,
  <<"STK_CC_ALPHA_NOTIFY", "stkCallControlAlphaNotify", TRUE>>,
  <<"LCEDATA_RECV", "lceData", TRUE>>, <<"PCO_DATA", "pcoData", TRUE>>,
  <<"MODEM_RESTART", "modemReset", TRUE>> >>

\* The rows of the vendor part all take the wake lock; only some have a function.
VendorUnsolNames == <<
  "NEIGHBORING_CELL_INFO", "NETWORK_INFO", "PHB_READY_NOTIFICATION", "SIM_INSERTED_STATUS",
  "RADIO_TEMPORARILY_UNAVAILABLE", "ME_SMS_STORAGE_FULL", "SMS_READY_NOTIFICATION",
  "SCRI_RESULT", "SIM_MISSING", "GPRS_DETACH", "ATCI_RESPONSE", "SIM_RECOVERY",
  "VIRTUAL_SIM_ON", "VIRTUAL_SIM_OFF", "INVALID_SIM", "RESPONSE_PS_NETWORK_STATE_CHANGED",
  "RESPONSE_ACMT", "EF_CSP_PLMN_MODE_BIT", "IMEI_LOCK", "RESPONSE_MMRR_STATUS_CHANGED",
  "SIM_PLUG_OUT", "SIM_PLUG_IN", "RESPONSE_ETWS_NOTIFICATION", "RESPONSE_PLMN_CHANGED",
  "RESPONSE_REGISTRATION_SUSPENDED", "STK_EVDL_CALL", "DATA_PACKETS_FLUSH", "FEMTOCELL_INFO",
  "STK_SETUP_MENU_RESET", "APPLICATION_SESSION_ID_CHANGED", "ECONF_SRVCC_INDICATION",
  "IMS_ENABLE_DONE", "IMS_DISABLE_DONE", "IMS_REGISTRATION_INFO", "DEDICATE_BEARER_ACTIVATED",
  "DEDICATE_BEARER_MODIFIED", "DEDICATE_BEARER_DEACTIVATED", "RAC_UPDATE",
  "ECONF_RESULT_INDICATION", "MELOCK_NOTIFICATION", "CALL_FORWARDING", "CRSS_NOTIFICATION",
  "INCOMING_CALL_INDICATION", "CIPHER_INDICATION", "CNAP", "SIM_COMMON_SLOT_NO_CHANGED",
  "DATA_ALLOWED", "STK_CALL_CTRL", "VOLTE_EPS_NETWORK_FEATURE_SUPPORT", "CALL_INFO_INDICATION",
  "VOLTE_EPS_NETWORK_FEATURE_INFO", "SRVCC_HANDOVER_INFO_INDICATION", "SPEECH_CODEC_INFO",
  "MD_STATE_CHANGE", "REMOVE_RESTRICT_EUTRAN", "MO_DATA_BARRING_INFO", "SSAC_BARRING_INFO",
  "SIP_CALL_PROGRESS_INDICATOR", "ABNORMAL_EVENT", "EMERGENCY_BEARER_SUPPORT_NOTIFY",
  "INTER_3GPP_IRAT_STATE_CHANGE", "LTE_BG_SEARCH_STATUS", "GMSS_RAT_CHANGED", "CDMA_CARD_TYPE",
  "IMS_ENABLE_START", "IMS_DISABLE_START", "IMSI_REFRESH_DONE", "EUSIM_READY",
  "STK_BIP_PROACTIVE_COMMAND", "WORLD_MODE_CHANGED", "VT_STATUS_INFO", "VT_RING_INFO",
  "VSIM_OPERATION_INDICATION", "SET_ATTACH_APN", "MAL_AT_INFO", "MAIN_SIM_INFO",
  "TRAY_PLUG_IN", "CALLMOD_CHANGE_INDICATOR", "VIDEO_CAPABILITY_INDICATOR",
  "LTE_ACCESS_STRATUM_STATE_CHANGE", "SETUP_DATA_CALL_RESPONSE" >>

VendorUnsolFunction(name) ==
  LET handled == { <<"RESPONSE_PS_NETWORK_STATE_CHANGED", "psNetworkStateChanged">>,
                   <<"RESPONSE_REGISTRATION_SUSPENDED", "registrationSuspend">>,
                   <<"INCOMING_CALL_INDICATION", "incomingCall">>,
                   <<"CALL_INFO_INDICATION", "callInfo">>,
                   <<"SET_ATTACH_APN", "setAttachApn">> }
  IN  IF \E h \in handled : h[1] = name THEN (CHOOSE h \in handled : h[1] = name)[2]
      ELSE "NULL"

s_unsolResponses ==
  UnsolCommands \o [i \in 1 .. Len(VendorUnsolNames) |->
                      <<VendorUnsolNames[i], VendorUnsolFunction(VendorUnsolNames[i]), TRUE>>]
-----------------------------------------------------------------------------
(* Indices.  The vendor part of s_commands is commented out, so the loop of
   RIL_registerSocket meets no vendor number there: mtk_command_start stays 0. *)

mtk_command_start == 0

\* Faulty variant of mtk_unsol_start: one row too far.
mtk_unsol_start_Off == Len(UnsolCommands) + 1

mtk_unsol_start == Len(UnsolCommands)

\* Faulty variant of CommandRow: row 0 is forgotten.
CommandRow_Off(request) ==
  s_commands[IF request < VENDOR_REQUEST_BASE THEN request
             ELSE 1 + request - VENDOR_REQUEST_BASE + mtk_command_start]

\* addRequestToList: the row of a request number.
CommandRow(request) ==
  s_commands[1 + IF request < VENDOR_REQUEST_BASE THEN request
                 ELSE request - VENDOR_REQUEST_BASE + mtk_command_start]

\* send_unsolResponse: the row index of an indication, and what it refuses.
UnsolIndex(unsol) ==
  IF unsol < VENDOR_UNSOL_BASE THEN unsol - UNSOL_RESPONSE_BASE
  ELSE unsol - VENDOR_UNSOL_BASE + mtk_unsol_start

UnsolAccepted(unsol) == UnsolIndex(unsol) >= 0 /\ unsol <= VENDOR_UNSOL_BASE + 80

UnsolRow(unsol) == s_unsolResponses[1 + UnsolIndex(unsol)]
=============================================================================
