---------------------------- MODULE RadioRequests ----------------------------
(***************************************************************************)
(* The requests of hal/libril/ril_service.cpp: what each method of         *)
(* RadioImpl and OemHookImpl builds, in how many heap blocks, hands to the *)
(* vendor library, and who frees it afterwards.                            *)
(*                                                                         *)
(* A method runs one plan after another.  A plan takes a RequestInfo,      *)
(* allocates its outer blocks, copies its strings, and either answers an   *)
(* error of its own or hands the data to the vendor library.  Empty        *)
(* strings own no block and are left out, but for setInitialAttachApn,     *)
(* which puts an allocated empty string in their place.                    *)
(***************************************************************************)
EXTENDS RilInterface, RilCommands

CONSTANT Profiles   \* numbers of profiles setDataProfile is called with

ASSUME ProfilesAssumption == Profiles \subseteq Nat

\* heap: outer blocks; strings: its strings, one block each, in the order of their
\* allocation; copied: how many of them are copied by copyHidlStringToRil (what calloc
\* returns for the others is not looked at); missing: those of the others that
\* are NULL; fmt: what my_enqueue is told to clean up; error: the answer the method
\* itself gives after the copies; local: no client waits for the answer.
Plan(request, data, heap, strings, fmt) ==
  [request |-> request, data |-> data, heap |-> heap, strings |-> strings, copied |-> strings,
   missing |-> {}, fmt |-> fmt, error |-> "none", local |-> FALSE]

Failing(plan, error) == [plan EXCEPT !.error = error]
Local(plan) == [plan EXCEPT !.local = TRUE]
Refused(request, error) == Failing(Plan(request, NULL, 0, 0, "VOID"), error)
OnFrame(request, data) == Plan(request, data, 0, 0, "RAW")

\* Only the requests of proxies 1 and 3 leave the cleaning to my_enqueue.
ByProxy(request, fmt) ==
  IF CommandRow(RequestNumber[request])[3] \in {1, 3} THEN fmt ELSE "IGNORE"
-----------------------------------------------------------------------------
(* The dispatch helpers. *)

dispatchVoid(request) == Plan(request, NULL, 0, 0, "VOID")

dispatchString(request) ==
  Plan(request, P("chars", 1), 0, 1, ByProxy(request, "STR"))

dispatchStrings(request, n) ==
  Plan(request, P("string", n), 1, n, ByProxy(request, "STRS"))

dispatchInts(request, n) == Plan(request, P("int", n), 1, 0, ByProxy(request, "INTS"))

dispatchCallForwardStatus(request) ==
  Plan(request, P("CallForwardInfo", 1), 0, 1, ByProxy(request, "CallFWST"))

dispatchRaw(request) == Plan(request, P("byte", 1), 0, 0, "IGNORE")

dispatchIccApdu(request) == Plan(request, P("SIM_APDU", 1), 0, 1, "IccAPDU")
-----------------------------------------------------------------------------
(* The methods, in the order of the source. *)

MethodsFrom_getIccCardStatus == {
  <<"getIccCardStatus", dispatchVoid("GET_SIM_STATUS")>>,
  <<"supplyIccPinForApp", dispatchStrings("ENTER_SIM_PIN", 2)>>,
  <<"supplyIccPukForApp", dispatchStrings("ENTER_SIM_PUK", 3)>>,
  <<"supplyIccPin2ForApp", dispatchStrings("ENTER_SIM_PIN2", 2)>>,
  <<"supplyIccPuk2ForApp", dispatchStrings("ENTER_SIM_PUK2", 3)>>,
  <<"changeIccPinForApp", dispatchStrings("CHANGE_SIM_PIN", 3)>>,
  <<"changeIccPin2ForApp", dispatchStrings("CHANGE_SIM_PIN2", 3)>>,
  <<"supplyNetworkDepersonalization", dispatchStrings("ENTER_NETWORK_DEPERSONALIZATION", 1)>>,
  <<"getCurrentCalls", dispatchVoid("GET_CURRENT_CALLS")>>,
  <<"dial", Plan("DIAL", P("Dial", 1), 0, 2, "IGNORE")>>,
  <<"getImsiForApp", dispatchStrings("GET_IMSI", 1)>>,
  <<"hangup", dispatchInts("HANGUP", 1)>> }

MethodsFrom_hangupWaitingOrBackground == {
  <<"hangupWaitingOrBackground", dispatchVoid("HANGUP_WAITING_OR_BACKGROUND")>>,
  <<"hangupForegroundResumeBackground", dispatchVoid("HANGUP_FOREGROUND_RESUME_BACKGROUND")>>,
  <<"switchWaitingOrHoldingAndActive", dispatchVoid("SWITCH_WAITING_OR_HOLDING_AND_ACTIVE")>>,
  <<"conference", dispatchVoid("CONFERENCE")>>,
  <<"rejectCall", dispatchVoid("UDUB")>>,
  <<"getLastCallFailCause", dispatchVoid("LAST_CALL_FAIL_CAUSE")>>,
  <<"getSignalStrength", Refused("SIGNAL_STRENGTH", "REQUEST_NOT_SUPPORTED")>>,
  <<"getVoiceRegistrationState", dispatchVoid("VOICE_REGISTRATION_STATE")>>,
  <<"getDataRegistrationState", dispatchVoid("DATA_REGISTRATION_STATE")>>,
  <<"getOperator", dispatchVoid("OPERATOR")>>,
  <<"setRadioPower", dispatchInts("RADIO_POWER", 1)>>,
  <<"sendDtmf", dispatchString("DTMF")>>,
  <<"sendSms", dispatchStrings("SEND_SMS", 2)>>,
  <<"sendSMSExpectMore", dispatchStrings("SEND_SMS_EXPECT_MORE", 2)>> }

\* From version 15 on the mvnoType is converted first, which may fail.
SetupDataCall(version) ==
  LET strings == IF version >= 15 THEN 15 ELSE 8
  IN  { <<"setupDataCall", dispatchStrings("SETUP_DATA_CALL", strings)>> } \cup
      (IF version < 15 THEN {}
       ELSE { <<"setupDataCall", Refused("SETUP_DATA_CALL", "INVALID_ARGUMENTS")>> })

MethodsFrom_iccIOForApp == {
  <<"iccIOForApp", Plan("SIM_IO", P("SIM_IO_v6", 1), 0, 4, "SIMIO")>>,
  <<"sendUssd", dispatchString("SEND_USSD")>>,
  <<"cancelPendingUssd", dispatchVoid("CANCEL_USSD")>>,
  <<"getClir", dispatchVoid("GET_CLIR")>>,
  <<"setClir", dispatchInts("SET_CLIR", 1)>>,
  <<"getCallForwardStatus", dispatchCallForwardStatus("QUERY_CALL_FORWARD_STATUS")>>,
  <<"setCallForward", dispatchCallForwardStatus("SET_CALL_FORWARD")>>,
  <<"getCallWaiting", dispatchInts("QUERY_CALL_WAITING", 1)>>,
  <<"setCallWaiting", dispatchInts("SET_CALL_WAITING", 2)>>,
  <<"acknowledgeLastIncomingGsmSms", dispatchInts("SMS_ACKNOWLEDGE", 2)>>,
  <<"acceptCall", dispatchVoid("ANSWER")>>,
  <<"deactivateDataCall", dispatchStrings("DEACTIVATE_DATA_CALL", 2)>> }

MethodsFrom_getFacilityLockForApp == {
  <<"getFacilityLockForApp", dispatchStrings("QUERY_FACILITY_LOCK", 4)>>,
  <<"setFacilityLockForApp", dispatchStrings("SET_FACILITY_LOCK", 5)>>,
  <<"setBarringPassword", dispatchStrings("CHANGE_BARRING_PASSWORD", 2)>>,
  <<"getNetworkSelectionMode", dispatchVoid("QUERY_NETWORK_SELECTION_MODE")>>,
  <<"setNetworkSelectionModeAutomatic", dispatchVoid("SET_NETWORK_SELECTION_AUTOMATIC")>>,
  <<"setNetworkSelectionModeManual", dispatchString("SET_NETWORK_SELECTION_MANUAL")>>,
  <<"getAvailableNetworks", dispatchVoid("QUERY_AVAILABLE_NETWORKS")>> }

MethodsFrom_startDtmf == {
  <<"startDtmf", dispatchString("DTMF_START")>>,
  <<"stopDtmf", dispatchVoid("DTMF_STOP")>>,
  <<"getBasebandVersion", dispatchVoid("BASEBAND_VERSION")>>,
  <<"separateConnection", dispatchInts("SEPARATE_CONNECTION", 1)>>,
  <<"setMute", dispatchInts("SET_MUTE", 1)>>,
  <<"getMute", dispatchVoid("GET_MUTE")>>,
  <<"getClip", dispatchVoid("QUERY_CLIP")>>,
  <<"getDataCallList", dispatchVoid("DATA_CALL_LIST")>>,
  <<"setSuppServiceNotifications", dispatchInts("SET_SUPP_SVC_NOTIFICATION", 1)>>,
  <<"writeSmsToSim", Plan("WRITE_SMS_TO_SIM", P("SMS_WriteArgs", 1), 0, 2, "WrSMSSIM")>>,
  <<"deleteSmsOnSim", dispatchInts("DELETE_SMS_ON_SIM", 1)>>,
  <<"setBandMode", dispatchInts("SET_BAND_MODE", 1)>>,
  <<"getAvailableBandModes", dispatchVoid("QUERY_AVAILABLE_BAND_MODE")>>,
  <<"sendEnvelope", dispatchString("STK_SEND_ENVELOPE_COMMAND")>>,
  <<"sendTerminalResponseToSim", dispatchString("STK_SEND_TERMINAL_RESPONSE")>> }

MethodsFrom_handleStkCallSetupRequestFromSim == {
  <<"handleStkCallSetupRequestFromSim",
    dispatchInts("STK_HANDLE_CALL_SETUP_REQUESTED_FROM_SIM", 1)>>,
  <<"explicitCallTransfer", dispatchVoid("EXPLICIT_CALL_TRANSFER")>>,
  <<"setPreferredNetworkType", dispatchInts("SET_PREFERRED_NETWORK_TYPE", 1)>>,
  <<"getPreferredNetworkType", dispatchVoid("GET_PREFERRED_NETWORK_TYPE")>>,
  <<"getNeighboringCids", dispatchVoid("GET_NEIGHBORING_CELL_IDS")>>,
  <<"setLocationUpdates", dispatchInts("SET_LOCATION_UPDATES", 1)>>,
  <<"setCdmaSubscriptionSource", dispatchInts("CDMA_SET_SUBSCRIPTION_SOURCE", 1)>>,
  <<"setCdmaRoamingPreference", dispatchInts("CDMA_SET_ROAMING_PREFERENCE", 1)>>,
  <<"getCdmaRoamingPreference", dispatchVoid("CDMA_QUERY_ROAMING_PREFERENCE")>>,
  <<"setTTYMode", dispatchInts("SET_TTY_MODE", 1)>>,
  <<"getTTYMode", Refused("QUERY_TTY_MODE", "REQUEST_NOT_SUPPORTED")>>,
  <<"setPreferredVoicePrivacy", dispatchInts("CDMA_SET_PREFERRED_VOICE_PRIVACY_MODE", 1)>>,
  <<"getPreferredVoicePrivacy", dispatchVoid("CDMA_QUERY_PREFERRED_VOICE_PRIVACY_MODE")>>,
  <<"sendCDMAFeatureCode", dispatchString("CDMA_FLASH")>>,
  <<"sendBurstDtmf", dispatchStrings("CDMA_BURST_DTMF", 3)>> }

MethodsFrom_sendCdmaSms == {
  <<"sendCdmaSms", OnFrame("CDMA_SEND_SMS", P("CDMA_SMS_Message", 1))>>,
  <<"acknowledgeLastIncomingCdmaSms", OnFrame("CDMA_SMS_ACKNOWLEDGE", P("CDMA_SMS_Ack", 1))>>,
  <<"getGsmBroadcastConfig", dispatchVoid("GSM_GET_BROADCAST_SMS_CONFIG")>>,
  <<"setGsmBroadcastConfig",
    OnFrame("GSM_SET_BROADCAST_SMS_CONFIG", P("GSM_BroadcastSmsConfigInfo", 0))>>,
  <<"setGsmBroadcastConfig",
    OnFrame("GSM_SET_BROADCAST_SMS_CONFIG", P("GSM_BroadcastSmsConfigInfo", 2))>>,
  <<"setGsmBroadcastActivation", dispatchInts("GSM_SMS_BROADCAST_ACTIVATION", 1)>>,
  <<"getCdmaBroadcastConfig", dispatchVoid("CDMA_GET_BROADCAST_SMS_CONFIG")>>,
  <<"setCdmaBroadcastConfig",
    OnFrame("CDMA_SET_BROADCAST_SMS_CONFIG", P("CDMA_BroadcastSmsConfigInfo", 0))>>,
  <<"setCdmaBroadcastConfig",
    OnFrame("CDMA_SET_BROADCAST_SMS_CONFIG", P("CDMA_BroadcastSmsConfigInfo", 2))>>,
  <<"setCdmaBroadcastActivation", dispatchInts("CDMA_SMS_BROADCAST_ACTIVATION", 1)>>,
  <<"getCDMASubscription", dispatchVoid("CDMA_SUBSCRIPTION")>> }

MethodsFrom_writeSmsToRuim == {
  <<"writeSmsToRuim", OnFrame("CDMA_WRITE_SMS_TO_RUIM", P("CDMA_SMS_WriteArgs", 1))>>,
  <<"deleteSmsOnRuim", dispatchInts("CDMA_DELETE_SMS_ON_RUIM", 1)>> }

\* The service first asks for both numbers on its own behalf.
GetDeviceIdentity ==
  << Local(dispatchVoid("GET_IMEI")), Local(dispatchVoid("GET_IMEISV")),
     dispatchVoid("DEVICE_IDENTITY") >>

MethodsFrom_exitEmergencyCallbackMode == {
  <<"exitEmergencyCallbackMode", dispatchVoid("EXIT_EMERGENCY_CALLBACK_MODE")>>,
  <<"getSmscAddress", dispatchVoid("GET_SMSC_ADDRESS")>>,
  <<"setSmscAddress", dispatchString("SET_SMSC_ADDRESS")>>,
  <<"reportSmsMemoryStatus", dispatchInts("REPORT_SMS_MEMORY_STATUS", 1)>>,
  <<"reportStkServiceIsRunning", dispatchVoid("REPORT_STK_SERVICE_IS_RUNNING")>>,
  <<"getCdmaSubscriptionSource",
    Refused("CDMA_GET_SUBSCRIPTION_SOURCE", "REQUEST_NOT_SUPPORTED")>>,
  <<"requestIsimAuthentication", dispatchString("ISIM_AUTHENTICATION")>>,
  <<"acknowledgeIncomingGsmSmsWithPdu",
    dispatchStrings("ACKNOWLEDGE_INCOMING_GSM_SMS_WITH_PDU", 2)>>,
  <<"sendEnvelopeWithStatus", dispatchString("STK_SEND_ENVELOPE_WITH_STATUS")>>,
  <<"getVoiceRadioTechnology", dispatchVoid("VOICE_RADIO_TECH")>>,
  <<"getCellInfoList", dispatchVoid("GET_CELL_INFO_LIST")>>,
  <<"setCellInfoListRate", dispatchInts("SET_UNSOL_CELL_INFO_LIST_RATE", 1)>> }

\* Up to version 14 an empty string of the profile is replaced by a calloc of one byte,
\* after the copies, and the fifth string is operatorNumeric, for the MTK vendor
\* library.  From version 15 on an unknown mvnoType is found after five of the six.
SetInitialAttachApn(version) ==
  LET apn == "SET_INITIAL_ATTACH_APN"
      v6(copied) == [Plan(apn, P("InitialAttachApn", 1), 0, 5, "AttchAPN") EXCEPT !.copied = copied]
      v15(strings) == Plan(apn, P("InitialAttachApn_v15", 1), 0, strings, "IGNORE")
  IN  { <<"setInitialAttachApn", plan>> : plan \in
          IF version <= 14 THEN { v6(copied) : copied \in 0 .. 4 }
          ELSE { v15(6), Failing(v15(5), "INVALID_ARGUMENTS") } }

MethodsFrom_getImsRegistrationState == {
  <<"getImsRegistrationState", dispatchVoid("IMS_REGISTRATION_STATE")>> }

\* A 3GPP message, a 3GPP2 message, or neither (or not exactly one of either).
SendImsSms == {
  <<"sendImsSms", Plan("IMS_SEND_SMS", P("IMS_SMS_Message", 1), 1, 2, "ImsSms")>>,
  <<"sendImsSms", OnFrame("IMS_SEND_SMS", P("IMS_SMS_Message", 1))>>,
  <<"sendImsSms", Refused("IMS_SEND_SMS", "INVALID_ARGUMENTS")>> }

MethodsFrom_iccTransmitApduBasicChannel == {
  <<"iccTransmitApduBasicChannel", dispatchIccApdu("SIM_TRANSMIT_APDU_BASIC")>>,
  <<"iccOpenLogicalChannel", Refused("SIM_OPEN_CHANNEL", "REQUEST_NOT_SUPPORTED")>>,
  <<"iccCloseLogicalChannel", dispatchInts("SIM_CLOSE_CHANNEL", 1)>>,
  <<"iccTransmitApduLogicalChannel", dispatchIccApdu("SIM_TRANSMIT_APDU_CHANNEL")>>,
  <<"nvReadItem", Plan("NV_READ_ITEM", P("NV_ReadItem", 1), 0, 0, "IGNORE")>>,
  <<"nvWriteItem", Plan("NV_WRITE_ITEM", P("NV_WriteItem", 1), 0, 1, "IGNORE")>>,
  <<"nvWriteCdmaPrl", dispatchRaw("NV_WRITE_CDMA_PRL")>>,
  <<"nvResetConfig", dispatchInts("NV_RESET_CONFIG", 1)>> }

MethodsFrom_setUiccSubscription == {
  <<"setUiccSubscription", OnFrame("SET_UICC_SUBSCRIPTION", P("SelectUiccSub", 1))>>,
  <<"setDataAllowed", dispatchInts("ALLOW_DATA", 1)>>,
  <<"getHardwareConfig", Refused("GET_HARDWARE_CONFIG", "REQUEST_NOT_SUPPORTED")>>,
  <<"requestIccSimAuthentication",
    Plan("SIM_AUTHENTICATION", P("SimAuthentication", 1), 0, 2, "SIMAUTH")>> }

\* The profiles and the array of pointers to them are two blocks.
SetDataProfile(version) ==
  LET data(n) == P(IF version <= 14 THEN "DataProfileInfo" ELSE "DataProfileInfo_v15", n)
      plan(n) ==
        Plan("SET_DATA_PROFILE", data(n), 2, n * (IF version <= 14 THEN 4 ELSE 6),
             IF version <= 14 THEN "DATAPROF" ELSE "IGNORE")
  IN  { <<"setDataProfile", plan(n)>> : n \in Profiles } \cup
      (IF version <= 14 THEN {}
       ELSE { <<"setDataProfile", Failing(plan(1), "INVALID_ARGUMENTS")>> })

MethodsFrom_requestShutdown == {
  <<"requestShutdown", dispatchVoid("SHUTDOWN")>>,
  <<"getRadioCapability", dispatchVoid("GET_RADIO_CAPABILITY")>>,
  <<"setRadioCapability", OnFrame("SET_RADIO_CAPABILITY", P("RadioCapability", 1))>>,
  <<"startLceService", Refused("START_LCE", "REQUEST_NOT_SUPPORTED")>>,
  <<"stopLceService", dispatchVoid("STOP_LCE")>>,
  <<"pullLceData", dispatchVoid("PULL_LCEDATA")>>,
  <<"getModemActivityInfo", dispatchVoid("GET_ACTIVITY_INFO")>>,
  <<"setAllowedCarriers",
    Plan("SET_CARRIER_RESTRICTIONS", P("CarrierRestrictions", 1), 2, 0, "IGNORE")>>,
  <<"getAllowedCarriers", dispatchVoid("GET_CARRIER_RESTRICTIONS")>> }

\* Before version 15 only LOW_DATA_EXPECTED has an older request.
SendDeviceState(version) ==
  { <<"sendDeviceState", plan>> : plan \in
      IF version >= 15 THEN { dispatchInts("SEND_DEVICE_STATE", 2) }
      ELSE { dispatchInts("SCREEN_STATE", 1),
             Refused("SEND_DEVICE_STATE", "REQUEST_NOT_SUPPORTED") } }

MethodsFrom_setIndicationFilter(version) == {
  <<"setIndicationFilter",
    IF version >= 15 THEN dispatchInts("SET_UNSOLICITED_RESPONSE_FILTER", 1)
     ELSE Refused("SET_UNSOLICITED_RESPONSE_FILTER", "REQUEST_NOT_SUPPORTED")>>,
  <<"setSimCardPower", dispatchVoid("MODEM_POWERON")>>,
  <<"setSimCardPower", dispatchVoid("MODEM_POWEROFF")>> }

MethodsFrom_sendRequestRaw == {
  <<"sendRequestRaw", dispatchRaw("OEM_HOOK_RAW")>>,
  <<"sendRequestStrings",
    Plan("OEM_HOOK_STRINGS", P("string", 2), 1, 2, ByProxy("OEM_HOOK_STRINGS", "STRS"))>> }

SinglePlan(version) ==
  MethodsFrom_getIccCardStatus \cup
  MethodsFrom_hangupWaitingOrBackground \cup SetupDataCall(version) \cup
  MethodsFrom_iccIOForApp \cup MethodsFrom_getFacilityLockForApp \cup
  MethodsFrom_startDtmf \cup
  MethodsFrom_handleStkCallSetupRequestFromSim \cup
  MethodsFrom_sendCdmaSms \cup MethodsFrom_writeSmsToRuim \cup
  MethodsFrom_exitEmergencyCallbackMode \cup SetInitialAttachApn(version) \cup
  MethodsFrom_getImsRegistrationState \cup SendImsSms \cup
  MethodsFrom_iccTransmitApduBasicChannel \cup
  MethodsFrom_setUiccSubscription \cup SetDataProfile(version) \cup
  MethodsFrom_requestShutdown \cup SendDeviceState(version) \cup
  MethodsFrom_setIndicationFilter(version) \cup MethodsFrom_sendRequestRaw

Methods(version) ==
  { <<m[1], << m[2] >> >> : m \in SinglePlan(version) } \cup
  { <<"getDeviceIdentity", GetDeviceIdentity>> }
==============================================================================
