------------------------------- MODULE GpsAgps -------------------------------
(***************************************************************************)
(* The messages between the GPS HAL and MNLD (gps_mtk_aosp.c): what each    *)
(* call of an extension sends, and which callback each message of MNLD     *)
(* leads to.  A message is its command and the layout of its fields; the   *)
(* values in the fields are left out.                                      *)
(***************************************************************************)
EXTENDS Integers, Sequences

\* buff_put_int for the command, then one field after the other: buff_put_int,
\* _string and _binary (a length and the bytes), _struct (the bytes alone).
Message(cmd, fields) == [cmd |-> cmd, fields |-> fields]

\* A command of one byte.
Command(cmd) == Message(cmd, << >>)

agps_data_conn_open == Message("DATA_CONN_OPEN", <<"string">>)
agps_data_conn_open_with_apn_ip_type == Message("DATA_CONN_OPEN_IP_TYPE", <<"string", "int">>)
agps_data_conn_closed == Message("DATA_CONN_CLOSED", << >>)
agps_data_conn_failed == Message("DATA_CONN_FAILED", << >>)
agps_set_server == Message("SET_SERVER", <<"int", "string", "int">>)
agps_install_certificates == Message("INSTALL_CERTIFICATES", <<"int", "struct">>)
agps_revoke_certificates == Message("REVOKE_CERTIFICATES", <<"int", "struct">>)
gps_ni_respond == Message("NI_RESPOND", <<"int", "int">>)
agps_ril_set_ref_location == Message("SET_REF_LOC", <<"struct", "int">>)
agps_ril_set_set_id == Message("SET_SET_ID", <<"int", "string">>)
agps_ril_ni_message == Message("NI_MESSAGE", <<"binary">>)
agps_ril_update_network_availability == Message("UPDATE_NETWORK_AVAILABILITY", <<"int", "string">>)
mtk_gps_inject_time == Message("INJECT_TIME", <<"struct">>)
InjectLocation == Message("INJECT_LOCATION", <<"struct">>)

\* The calls that only send.
AgpsCalls ==
  {agps_data_conn_open, agps_data_conn_open_with_apn_ip_type, agps_data_conn_closed,
   agps_data_conn_failed, agps_set_server, agps_install_certificates, agps_revoke_certificates,
   gps_ni_respond, agps_ril_set_ref_location, agps_ril_set_set_id, agps_ril_ni_message,
   agps_ril_update_network_availability, mtk_gps_inject_time}

\* A new Wi-Fi connection first asks MNLD for a network location.
agps_ril_update_network_state(old, new) ==
  LET nlp == Message("NLP_LOCATION_REQ", << >>)
      upd == Message("UPDATE_NETWORK_STATE", <<"int", "int", "int", "string">>)
  IN  IF ~old.connected /\ new.connected /\ new.type = "wifi" THEN <<nlp, upd>> ELSE <<upd>>
-----------------------------------------------------------------------------
(* Messages of MNLD, and the callback table each one is handed to. *)

\* mnl_agps_notify_type to the flags of a GpsNiNotification.
notify_flags(type) ==
  CASE type = "NOTIFY_ONLY" -> {"NEED_NOTIFY"}
    [] type \in {"ALLOW_NO_ANSWER", "DENY_NO_ANSWER"} -> {"NEED_NOTIFY", "NEED_VERIFY"}
    [] type = "PRIVACY" -> {"PRIVACY_OVERRIDE"}
    [] OTHER -> {}

\* NOTIFICATION carries ASCII texts, which become UCS-2 written in hexadecimal:
\* a byte order mark and two bytes for each character, two digits for each byte.
UcsHexLength(chars) == 2 * (2 + 2 * chars)
MNL_AGPS_CMD_NOTIFICATION(type, chars) ==
  [to |-> "ni", flags |-> notify_flags(type), text |-> UcsHexLength(chars)]
\* NOTIFICATION_2 carries encoded texts, which are handed on as they are.
MNL_AGPS_CMD_NOTIFICATION_2(type, chars) ==
  [to |-> "ni", flags |-> notify_flags(type), text |-> chars]
MNL_AGPS_CMD_DATA_CONN_REQ == [to |-> "agps", status |-> "REQUEST_DATA_CONN"]
MNL_AGPS_CMD_DATA_CONN_REQ2 == [to |-> "agps", status |-> "REQUEST_DATA_CONN"]
MNL_AGPS_CMD_DATA_CONN_RELEASE == [to |-> "agps", status |-> "RELEASE_DATA_CONN"]
MNL_AGPS_CMD_REQUEST_SET_ID == [to |-> "ril", request |-> "setid"]
MNL_AGPS_CMD_REQUEST_REFLOC == [to |-> "ril", request |-> "refloc"]

\* The position, and whichever of the other values MNLD marked as used.
MNL_AGPS_CMD_AGPS_LOC(used) == [to |-> "base", flags |-> {"LAT_LONG"} \union used]

\* Only the first of the 32 measurements is handed on, and only with a number.
HAL_CMD_MEASUREMENT(prn) == IF prn # 0 THEN [to |-> "measurement"] ELSE [to |-> "nobody"]
HAL_CMD_NAVIGATION == [to |-> "navigation"]
MNL_CMD_GPS_INJECT_TIME_REQ == [to |-> "base"]
=============================================================================
