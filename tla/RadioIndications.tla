-------------------------- MODULE RadioIndications ---------------------------
(***************************************************************************)
(* The indication functions of hal/libril/ril_service.cpp: which payloads  *)
(* of the vendor library each accepts and reads, which callback of the     *)
(* client it calls, and which requests it sends back on its own.  A        *)
(* payload that is not accepted drops the indication.                      *)
(***************************************************************************)
EXTENDS RadioRequests, RadioResponses

\* Payloads of at least one character or byte.
SomeBytes == [Whole("byte") EXCEPT !.counts = 1 .. MaxCount]
SomeText == [Text EXCEPT !.null = FALSE, !.counts = 1 .. MaxCount]
-----------------------------------------------------------------------------
(* The functions, in the order of the source. *)

IndicationsFrom_radioStateChanged ==
  Each({"radioStateChanged", "callStateChanged", "networkStateChanged"}, Ack)

IndicationsFrom_newSms ==
  Each({"newSms", "newSmsStatusReport"}, SomeText) @@ "newSmsOnSim" :> OneInt

IndicationsFrom_onUssd ==
  "onUssd" :> AtLeast("string", 2) @@ "nitzTimeReceived" :> SomeText @@
  "currentSignalStrength" :> AtLeast("SignalStrength", 1)

IndicationsFrom_dataCallListChanged ==
  "dataCallListChanged" :> Whole("Data_Call_Response_v6") @@
  "suppSvcNotify" :> Exactly("SuppSvcNotification") @@ "stkSessionEnd" :> Ack @@
  Each({"stkProactiveCommand", "stkEventNotify"}, SomeText)

IndicationsFrom_stkCallSetup ==
  "stkCallSetup" :> OneInt @@ Each({"simSmsStorageFull", "simStatusChanged"}, Ack) @@
  "simRefresh" :> Exactly("SimRefreshResponse_v7") @@
  "callRing" :> OrNull(Exactly("CDMA_SignalInfoRecord"))

IndicationsFrom_cdmaNewSms ==
  "cdmaNewSms" :> Exactly("CDMA_SMS_Message") @@ "newBroadcastSms" :> SomeBytes @@
  Each({"cdmaRuimSmsStorageFull", "enterEmergencyCallbackMode"}, Ack) @@
  "restrictedStateChanged" :> OneInt

IndicationsFrom_cdmaCallWaiting ==
  "cdmaCallWaiting" :> Exactly("CDMA_CallWaiting_v6") @@ "cdmaOtaProvisionStatus" :> OneInt

IndicationsFrom_cdmaInfoRec ==
  "cdmaInfoRec" :> Exactly("CDMA_InformationRecords")

IndicationsFrom_indicateRingbackTone ==
  Each({"indicateRingbackTone", "cdmaSubscriptionSourceChanged", "cdmaPrlChanged",
        "voiceRadioTechChanged"}, OneInt) @@
  Each({"resendIncallMute", "exitEmergencyCallbackMode", "rilConnected"}, Ack)

IndicationsFrom_cellInfoList ==
  "cellInfoList" :> CellInfoList @@ "imsNetworkStateChanged" :> Ack @@
  Each({"subscriptionStatusChanged", "srvccStateNotify"}, OneInt)

IndicationsFrom_hardwareConfigChanged ==
  "hardwareConfigChanged" :> Whole("HardwareConfig") @@
  "radioCapabilityIndication" :> Exactly("RadioCapability")

IndicationsFrom_onSupplementaryServiceIndication ==
  "onSupplementaryServiceIndication" :> Exactly("StkCcUnsolSsResponse") @@
  "stkCallControlAlphaNotify" :> SomeText

IndicationsFrom_lceData ==
  "lceData" :> Exactly("LceDataInfo") @@ "pcoData" :> Exactly("PCO_Data") @@
  "modemReset" :> SomeText @@ "oemHookRaw" :> SomeBytes

\* The vendor's own indications: their payload is used as it comes.
IndicationsFrom_registrationSuspend ==
  "registrationSuspend" :> OneInt @@ "psNetworkStateChanged" :> OneInt @@
  "incomingCall" :> Row("string", Counts, [n \in Counts |-> {0, 3, 4}]) @@
  "callInfo" :> Row("string", Counts, [n \in Counts |-> IF n = 0 THEN {} ELSE {1}]) @@
  "setAttachApn" :> Ack

IndicationRows ==
  IndicationsFrom_radioStateChanged @@ IndicationsFrom_newSms @@ IndicationsFrom_onUssd @@
  IndicationsFrom_dataCallListChanged @@ IndicationsFrom_stkCallSetup @@
  IndicationsFrom_cdmaNewSms @@ IndicationsFrom_cdmaCallWaiting @@
  IndicationsFrom_cdmaInfoRec @@ IndicationsFrom_indicateRingbackTone @@
  IndicationsFrom_cellInfoList @@ IndicationsFrom_hardwareConfigChanged @@
  IndicationsFrom_onSupplementaryServiceIndication @@ IndicationsFrom_lceData @@
  IndicationsFrom_registrationSuspend
-----------------------------------------------------------------------------
(* What an indication function does with a payload it accepts. *)

\* Whether these call the client depends on what the payload says: hexadecimal
\* digits, lengths of the records, or one value of an int or a string.
ContentDecides == {"newSms", "newSmsStatusReport", "cdmaInfoRec", "callInfo",
                   "psNetworkStateChanged"}

IndicationCallback(function) ==
  CASE function \in {"incomingCall", "callInfo"} -> "callStateChanged"
    [] function = "psNetworkStateChanged" -> "networkStateChanged"
    [] function \in {"registrationSuspend", "setAttachApn"} -> "none"
    [] OTHER -> function

\* The requests an indication sends, for which no client waits.
IndicationRequests(function) ==
  CASE function = "registrationSuspend" -> << Local(dispatchInts("RESUME_REGISTRATION", 1)) >>
    [] function = "incomingCall" -> << Local(dispatchInts("SET_CALL_INDICATION", 3)) >>
    [] function = "setAttachApn" ->
         << Local([Plan("SET_INITIAL_ATTACH_APN", P("InitialAttachApn", 1), 0, 5, "IGNORE")
                     EXCEPT !.copied = 0]) >>
    [] OTHER -> << >>
=============================================================================
