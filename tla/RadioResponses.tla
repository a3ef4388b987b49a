--------------------------- MODULE RadioResponses ----------------------------
(***************************************************************************)
(* The response functions of hal/libril/ril_service.cpp: which callback of *)
(* the client each one calls, which payloads of the vendor library it      *)
(* accepts, and which elements of a payload it reads.  A payload that is   *)
(* not accepted turns SUCCESS into INVALID_RESPONSE and changes no error.  *)
(***************************************************************************)
EXTENDS Integers, Sequences, TLC

MaxCount == 15
Counts == 0 .. MaxCount

\* as: the type the elements are read as; null: NULL is accepted; lenient: what
\* is not accepted is not an error either.
Row(type, counts, reads) ==
  [type |-> type, counts |-> counts, reads |-> reads, as |-> type,
   null |-> FALSE, lenient |-> FALSE]

OrNull(row) == [row EXCEPT !.null = TRUE]
Ack == OrNull(Row("any", Counts, [n \in Counts |-> {}]))
Text == OrNull(Row("chars", Counts, [n \in Counts |-> {0}]))
Exactly(type) == Row(type, {1}, [n \in Counts |-> {0}])
Whole(type) == Row(type, Counts, [n \in Counts |-> 0 .. n - 1])

\* Faulty variant of AtLeast: one element more is asked for.
AtLeast_More(type, k) == Row(type, k + 1 .. MaxCount, [n \in Counts |-> 0 .. k - 1])

AtLeast(type, k) == Row(type, k .. MaxCount, [n \in Counts |-> 0 .. k - 1])
Quadruples == Row("string", {n \in Counts : n % 4 = 0}, [n \in Counts |-> 0 .. n - 1])

\* responseInt looks at the length only to find out whether it is whole.
OneInt == Row("int", Counts, [n \in Counts |-> {0}])

Operator == Row("string", 1 .. MaxCount, [n \in Counts |-> 0 .. (IF n < 3 THEN n ELSE 3) - 1])
OpenChannel == Row("int", Counts, [n \in Counts |-> {0} \cup 0 .. n - 1])

\* Whole ints are refused: only the struct is left.
LastCallFailCause == Exactly("LastCallFailCauseInfo")

\* Counted in records of RIL_CellInfo_v12, read as an array of pointers.
CellInfoList == [Whole("CellInfo_v12") EXCEPT !.as = "pointer to CellInfo"]

Each(functions, row) == [f \in functions |-> row]
-----------------------------------------------------------------------------
(* The functions, in the order of the source. *)

ResponsesFrom_getIccCardStatus ==
  "getIccCardStatus" :> Exactly("CardStatus_v6") @@
  Each({"supplyIccPinForApp", "supplyIccPukForApp", "supplyIccPin2ForApp",
       "supplyIccPuk2ForApp"}, OrNull(OneInt))

ResponsesFrom_changeIccPinForApp ==
  Each({"changeIccPinForApp", "changeIccPin2ForApp", "supplyNetworkDepersonalization"},
       OrNull(OneInt)) @@
  "getCurrentCalls" :> Whole("Call") @@ "dial" :> Ack

ResponsesFrom_getIMSIForApp ==
  "getIMSIForApp" :> Text @@
  Each({"hangupConnection", "hangupWaitingOrBackground", "hangupForegroundResumeBackground",
       "switchWaitingOrHoldingAndActive", "conference", "rejectCall"}, Ack)

ResponsesFrom_getLastCallFailCause ==
  "getLastCallFailCause" :> LastCallFailCause @@
  "getSignalStrength" :> AtLeast("SignalStrength", 1)

\* Faulty variant of VoiceReads: the short answer is taken for the long one.
VoiceReads_Long(n) ==
  {0, 3, 7, 10, 11, 12, 13} \cup ({1, 2, 4, 5, 6, 8, 9, 14} \cap 0 .. n - 1)

\* Up to version 14 the answer is an array of strings; the cell identity taken
\* from it depends on the radio technology in the fourth.
VoiceReads(n) ==
  {0, 3} \cup (IF n > 4 THEN {7, 10, 11, 12, 13} ELSE {}) \cup
  ({1, 2, 4, 5, 6, 8, 9, 14} \cap 0 .. n - 1)

VoiceRegistrationState(version) ==
  IF version <= 14
  THEN Row("string", 4 .. MaxCount, [n \in Counts |-> VoiceReads(n)])
  ELSE Exactly("VoiceRegistrationStateResponse")

DataReads(n) ==
  {0, 3} \cup (IF n > 4 THEN {4, 5} ELSE {}) \cup
  ({1, 2, 6, 7, 8} \cap 0 .. (IF n < 11 THEN (IF n < 6 THEN 4 ELSE 6) ELSE 11) - 1)

DataRegistrationState(version) ==
  IF version <= 14
  THEN Row("string", 4 .. MaxCount, [n \in Counts |-> DataReads(n)])
  ELSE Exactly("DataRegistrationStateResponse")

ResponsesFrom_getOperator ==
  "getOperator" :> Operator @@ Each({"setRadioPower", "sendDtmf"}, Ack) @@
  Each({"sendSms", "sendSMSExpectMore"}, Exactly("SMS_Response"))

ResponsesFrom_setupDataCall ==
  "setupDataCall" :> Exactly("Data_Call_Response_v6") @@
  "iccIOForApp" :> Exactly("SIM_IO_Response") @@ Each({"sendUssd", "cancelPendingUssd"}, Ack)

ResponsesFrom_getClir ==
  Each({"getClir", "getCallWaiting"}, AtLeast("int", 2)) @@
  Each({"setClir", "setCallForward"}, Ack) @@ "getCallForwardStatus" :> Whole("CallForwardInfo")

ResponsesFrom_setCallWaiting ==
  Each({"setCallWaiting", "acknowledgeLastIncomingGsmSms", "acceptCall", "deactivateDataCall",
       "setBarringPassword"}, Ack) @@
  "getFacilityLockForApp" :> OneInt @@ "setFacilityLockForApp" :> OrNull(OneInt)

ResponsesFrom_getNetworkSelectionMode ==
  "getNetworkSelectionMode" :> OneInt @@
  Each({"setNetworkSelectionModeAutomatic", "setNetworkSelectionModeManual"}, Ack) @@
  "getAvailableNetworks" :> Quadruples

ResponsesFrom_startDtmf ==
  Each({"startDtmf", "stopDtmf", "separateConnection", "setMute"}, Ack) @@
  "getBasebandVersion" :> Text @@ Each({"getMute", "getClip"}, OneInt)

ResponsesFrom_getDataCallList ==
  "getDataCallList" :> Whole("Data_Call_Response_v6") @@
  Each({"setSuppServiceNotifications", "deleteSmsOnSim", "setBandMode"}, Ack) @@
  "writeSmsToSim" :> OneInt @@ "getAvailableBandModes" :> Whole("int")

ResponsesFrom_sendEnvelope ==
  "sendEnvelope" :> Text @@
  Each({"sendTerminalResponseToSim", "handleStkCallSetupRequestFromSim", "explicitCallTransfer",
       "setPreferredNetworkType"}, Ack) @@
  "getPreferredNetworkType" :> OneInt

ResponsesFrom_getNeighboringCids ==
  "getNeighboringCids" :> Whole("NeighboringCell") @@
  Each({"setLocationUpdates", "setCdmaSubscriptionSource", "setCdmaRoamingPreference",
       "setTTYMode"}, Ack) @@
  "getCdmaRoamingPreference" :> OneInt

ResponsesFrom_getTTYMode ==
  "getTTYMode" :> OneInt @@
  Each({"setPreferredVoicePrivacy", "sendCDMAFeatureCode", "sendBurstDtmf"}, Ack) @@
  "getPreferredVoicePrivacy" :> AtLeast("int", 1) @@ "sendCdmaSms" :> Exactly("SMS_Response")

ResponsesFrom_acknowledgeLastIncomingCdmaSms ==
  Each({"acknowledgeLastIncomingCdmaSms", "setGsmBroadcastConfig", "setGsmBroadcastActivation"},
       Ack) @@
  "getGsmBroadcastConfig" :> Whole("GSM_BroadcastSmsConfigInfo") @@
  "getCdmaBroadcastConfig" :> Whole("CDMA_BroadcastSmsConfigInfo")

ResponsesFrom_setCdmaBroadcastConfig ==
  Each({"setCdmaBroadcastConfig", "setCdmaBroadcastActivation", "deleteSmsOnRuim"}, Ack) @@
  "getCDMASubscription" :> AtLeast("string", 5) @@ "writeSmsToRuim" :> OneInt

ResponsesFrom_getDeviceIdentity ==
  "getDeviceIdentity" :> AtLeast("string", 4) @@
  Each({"exitEmergencyCallbackMode", "setSmscAddress", "reportSmsMemoryStatus",
       "reportStkServiceIsRunning"}, Ack) @@
  "getSmscAddress" :> Text

ResponsesFrom_getCdmaSubscriptionSource ==
  Each({"getCdmaSubscriptionSource", "getVoiceRadioTechnology"}, OneInt) @@
  "requestIsimAuthentication" :> Text @@ "acknowledgeIncomingGsmSmsWithPdu" :> Ack @@
  "sendEnvelopeWithStatus" :> Exactly("SIM_IO_Response") @@
  "getCellInfoList" :> CellInfoList

ResponsesFrom_setCellInfoListRate ==
  Each({"setCellInfoListRate", "setInitialAttachApn"}, Ack) @@
  "getImsRegistrationState" :> AtLeast("int", 2) @@ "sendImsSms" :> Exactly("SMS_Response") @@
  "iccTransmitApduBasicChannel" :> Exactly("SIM_IO_Response")

ResponsesFrom_iccOpenLogicalChannel ==
  "iccOpenLogicalChannel" :> OpenChannel @@
  Each({"iccCloseLogicalChannel", "nvWriteItem", "nvWriteCdmaPrl"}, Ack) @@
  "iccTransmitApduLogicalChannel" :> Exactly("SIM_IO_Response") @@ "nvReadItem" :> Text

ResponsesFrom_nvResetConfig ==
  Each({"nvResetConfig", "setUiccSubscription", "setDataAllowed", "setDataProfile"}, Ack) @@
  "getHardwareConfig" :> Whole("HardwareConfig") @@
  "requestIccSimAuthentication" :> Exactly("SIM_IO_Response")

ResponsesFrom_requestShutdown ==
  "requestShutdown" :> Ack @@
  Each({"getRadioCapability", "setRadioCapability"}, Exactly("RadioCapability")) @@
  Each({"startLceService", "stopLceService"}, Exactly("LceStatusInfo"))

ResponsesFrom_pullLceData ==
  "pullLceData" :> Exactly("LceDataInfo")

\* Zeros are reported instead of an error.
ModemActivityInfo == [Exactly("ActivityStatsInfo") EXCEPT !.lenient = TRUE]

ResponsesFrom_setAllowedCarriers ==
  "setAllowedCarriers" :> OneInt @@
  "getAllowedCarriers" :> OrNull(Exactly("CarrierRestrictions")) @@ "sendDeviceState" :> Ack

ResponsesFrom_setIndicationFilter ==
  Each({"setIndicationFilter", "setSimCardPower"}, Ack) @@ "sendRequestRaw" :> Whole("byte") @@
  "sendRequestStrings" :> Whole("string")

ResponseRows(version) ==
  ResponsesFrom_getIccCardStatus @@ ResponsesFrom_changeIccPinForApp @@
  ResponsesFrom_getIMSIForApp @@ ResponsesFrom_getLastCallFailCause @@
  ("getVoiceRegistrationState" :> VoiceRegistrationState(version)) @@
  ("getDataRegistrationState" :> DataRegistrationState(version)) @@
  ResponsesFrom_getOperator @@ ResponsesFrom_setupDataCall @@
  ResponsesFrom_getClir @@ ResponsesFrom_setCallWaiting @@
  ResponsesFrom_getNetworkSelectionMode @@ ResponsesFrom_startDtmf @@
  ResponsesFrom_getDataCallList @@ ResponsesFrom_sendEnvelope @@
  ResponsesFrom_getNeighboringCids @@ ResponsesFrom_getTTYMode @@
  ResponsesFrom_acknowledgeLastIncomingCdmaSms @@
  ResponsesFrom_setCdmaBroadcastConfig @@ ResponsesFrom_getDeviceIdentity @@
  ResponsesFrom_getCdmaSubscriptionSource @@
  ResponsesFrom_setCellInfoListRate @@ ResponsesFrom_iccOpenLogicalChannel @@
  ResponsesFrom_nvResetConfig @@ ResponsesFrom_requestShutdown @@
  ResponsesFrom_pullLceData @@
  ("getModemActivityInfo" :> ModemActivityInfo) @@
  ResponsesFrom_setAllowedCarriers @@ ResponsesFrom_setIndicationFilter
-----------------------------------------------------------------------------
(* What a response function does with a payload. *)

\* Each function calls the callback of its own name, but for one.
Callback(function) ==
  IF function = "hangupForegroundResumeBackground" THEN "hangupWaitingOrBackground" ELSE function

Accepts(row, p) ==
  IF p.type = "void" THEN row.null
  ELSE row.type \in {"any", p.type} /\ p.count \in row.counts

\* Faulty variant of ErrorSeen: a payload that cannot be read hides the error.
ErrorSeen_Hides(row, e, p) == IF Accepts(row, p) THEN e ELSE "INVALID_RESPONSE"

ErrorSeen(row, e, p) ==
  IF e = "SUCCESS" /\ ~Accepts(row, p) /\ ~row.lenient THEN "INVALID_RESPONSE" ELSE e

ElementsRead(row, p) == IF p.type # "void" /\ Accepts(row, p) THEN row.reads[p.count] ELSE {}
==============================================================================
