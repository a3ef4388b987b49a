---------------------------- MODULE WifiCommands -----------------------------
(***************************************************************************)
(* The commands of hal/wifi_hal: the netlink requests each class builds,   *)
(* the order in which start() and cancel() send them and touch the table   *)
(* of event handlers, and what the answers of a query store.               *)
(*                                                                         *)
(* A request is the widths of the attributes it puts, in order; a nested   *)
(* attribute puts a header, which is an attribute of width 0.  The item    *)
(* widths are repeated for every element of the caller's list.             *)
(***************************************************************************)
EXTENDS Integers, Sequences, SequencesExt

\* Declared in wifi_hal.h of the platform, which is not part of this tree.
MAX_EPNO_NETWORKS == 64
MAX_CHANNELS == 16
MKEEP_ALIVE_IP_PKT_MAX == 256
CHANNEL_INFO == 16

\* nlmsg_alloc gives a page.
Capacity == 4096
NoLimit == Capacity

Request(subcmd, head, item, count) ==
  [subcmd |-> subcmd, head |-> head, item |-> item, count |-> count, limit |-> NoLimit]

\* nla_put: a header of four bytes and the payload, padded to four.
Attribute(width) == 4 + ((width + 3) \div 4) * 4
Bytes(widths) == FoldLeft(LAMBDA sum, width : sum + Attribute(width), 0, widths)

\* WifiRequest::create(id, subcmd): netlink and generic header, vendor id,
\* subcommand, interface.
Envelope == 20 + Bytes(<<4, 4, 4>>)

Size(r, n) == Envelope + Bytes(r.head) + n * Bytes(r.item)
Fits(r, n) == n <= r.limit /\ Size(r, n) <= Capacity

Refused == [subcmd |-> "none", items |-> 0, count |-> 0]

\* The count of elements, in an attribute of one or two bytes, or one that holds
\* every length.
CountPut(r, n) == IF r.count \in {0, 4} THEN n ELSE n % 2^(8 * r.count)

\* Faulty variant of Built: the result of a put is not looked at.
Built_Unchecked(r, n) ==
  LET room == (Capacity - Size(r, 0)) \div Bytes(r.item)
      put == IF r.item = << >> \/ Fits(r, n) THEN n ELSE room
  IN  [subcmd |-> r.subcmd, items |-> put, count |-> CountPut(r, n)]

\* The message a builder leaves for a list of n elements, or Refused: every put
\* is checked and the first that fails ends the builder.
Built(r, n) ==
  IF Fits(r, n) THEN [subcmd |-> r.subcmd, items |-> n, count |-> CountPut(r, n)]
  ELSE Refused
-----------------------------------------------------------------------------
(* The steps of start() and cancel().  Build ends start() when it is refused,
   Send ends it when the driver refuses, after unregistering the events of undo;
   Try builds and sends and looks at no result. *)

Build(r) == [op |-> "build", request |-> r]
Send(undo) == [op |-> "send", undo |-> undo]
Try(r) == [op |-> "try", request |-> r]
Register(e) == [op |-> "register", event |-> e]
Unregister(e) == [op |-> "unregister", event |-> e]

Command(events, start, cancel) == [events |-> events, start |-> start, cancel |-> cancel]

\* createFeatureRequest.
Feature(subcmd) == Request(subcmd, <<0, 4>>, << >>, 0)
-----------------------------------------------------------------------------
SetRSSIMonitorRequest == Request("SET_RSSI_MONITOR", <<0, 4, 4, 4>>, << >>, 0)
SetRSSIMonitorCommand ==
  Command({"RSSI_MONITOR"},
          <<Build(SetRSSIMonitorRequest), Send(<< >>), Register("RSSI_MONITOR")>>,
          <<Try(SetRSSIMonitorRequest), Unregister("RSSI_MONITOR")>>)

FullScanResultsCommand ==
  Command({"FULL_SCAN_RESULTS"},
          <<Build(Feature("ENABLE_FULL_SCAN_RESULTS")), Register("FULL_SCAN_RESULTS"),
            Send(<<"FULL_SCAN_RESULTS">>)>>,
          <<Try(Feature("ENABLE_FULL_SCAN_RESULTS")), Unregister("FULL_SCAN_RESULTS")>>)

\* A bucket lists its channels.
ScanSetupRequest ==
  Request("SET_CONFIG", <<0, 4, 4>>,
          <<0, 4, 4, 4, 4, 4, 4, 4, 0>> \o [c \in 1 .. MAX_CHANNELS |-> 4], 4)
ScanConfigRequest == Request("SET_SCAN_CONFIG", <<0, 4, 4, 4>>, << >>, 0)

ScanStart ==
  <<Build(ScanSetupRequest), Send(<< >>), Build(ScanConfigRequest), Send(<< >>),
    Build(Feature("ENABLE_GSCAN")),
    Register("SCAN_RESULTS_AVAILABLE"), Register("COMPLETE_SCAN"), Register("FULL_SCAN_RESULTS"),
    Send(<<"COMPLETE_SCAN", "SCAN_RESULTS_AVAILABLE", "FULL_SCAN_RESULTS">>)>>
ScanCancel ==
  <<Try(Feature("ENABLE_GSCAN")), Unregister("COMPLETE_SCAN"),
    Unregister("SCAN_RESULTS_AVAILABLE"), Unregister("FULL_SCAN_RESULTS")>>
ScanCommand ==
  Command({"SCAN_RESULTS_AVAILABLE", "COMPLETE_SCAN", "FULL_SCAN_RESULTS"}, ScanStart, ScanCancel)

BssidHotlistSetup == Request("SET_HOTLIST", <<0, 1, 4, 2, 0>>, <<0, 6, 4, 4>>, 2)
BssidHotlistTeardown == Request("SET_HOTLIST", <<0, 1, 0>>, << >>, 0)
BssidHotlistCommand ==
  Command({"HOTLIST_RESULTS_FOUND", "HOTLIST_RESULTS_LOST"},
          <<Build(BssidHotlistSetup), Send(<<"HOTLIST_RESULTS_FOUND", "HOTLIST_RESULTS_LOST">>),
            Build(Feature("ENABLE_GSCAN")),
            Register("HOTLIST_RESULTS_FOUND"), Register("HOTLIST_RESULTS_LOST"),
            Send(<<"HOTLIST_RESULTS_FOUND", "HOTLIST_RESULTS_LOST">>)>>,
          <<Unregister("HOTLIST_RESULTS_FOUND"), Unregister("HOTLIST_RESULTS_LOST"),
            Try(BssidHotlistTeardown)>>)

ePNOSetup ==
  [Request("SET_EPNO_SSID", <<0, 1, 1, 1, 2, 2, 2, 2, 2, 1, 0>>, <<0, 32, 4, 4, 4>>, 1)
     EXCEPT !.limit = MAX_EPNO_NETWORKS]
ePNOTeardown == Request("SET_EPNO_SSID", <<0, 1>>, << >>, 0)
ePNOCommand ==
  Command({"EPNO_EVENT"},
          <<Build(ePNOSetup), Send(<<"EPNO_EVENT">>), Register("EPNO_EVENT")>>,
          <<Unregister("EPNO_EVENT"), Try(ePNOTeardown)>>)

SignificantWifiChangeSetup ==
  Request("SET_SIGNIFICANT_CHANGE_CONFIG", <<0, 1, 2, 2, 2, 2, 0>>, <<0, 6, 4, 4>>, 2)
SignificantWifiChangeTeardown == Request("SET_SIGNIFICANT_CHANGE_CONFIG", <<0, 2>>, << >>, 0)
SignificantWifiChangeCommand ==
  Command({"SIGNIFICANT_CHANGE_RESULTS"},
          <<Build(SignificantWifiChangeSetup), Send(<< >>), Build(Feature("ENABLE_GSCAN")),
            Register("SIGNIFICANT_CHANGE_RESULTS"), Send(<<"SIGNIFICANT_CHANGE_RESULTS">>)>>,
          <<Unregister("SIGNIFICANT_CHANGE_RESULTS"), Try(SignificantWifiChangeTeardown)>>)

\* cancel() sends the list once more: createRequest does not use its second argument.
AnqpoRequest == Request("ANQPO_CONFIG", <<4, 0, 0>>, <<0, 4, 256, 128, 3>>, 4)
AnqpoConfigureCommand ==
  Command({"ANQPO_HOTSPOT_MATCH"},
          <<Build(AnqpoRequest), Register("ANQPO_HOTSPOT_MATCH"), Send(<<"ANQPO_HOTSPOT_MATCH">>)>>,
          <<Try(AnqpoRequest), Unregister("ANQPO_HOTSPOT_MATCH")>>)

RttSetup ==
  Request("RTT_SET_CONFIG", <<0, 1, 0>>,
          <<0, 6, 1, 1, CHANNEL_INFO, 4, 4, 4, 4, 4, 4, 1, 1, 1, 1>>, 1)

\* The count is put unchecked, in one byte, before the addresses.
RttTeardown == Request("RTT_CANCEL_CONFIG", <<0, 1>>, <<6>>, 1)
RttCommand ==
  Command({"RTT_EVENT_COMPLETE"},
          <<Build(RttSetup), Send(<< >>), Register("RTT_EVENT_COMPLETE")>>,
          <<Try(RttTeardown), Unregister("RTT_EVENT_COMPLETE")>>)

Commands ==
  [RSSIMonitor |-> SetRSSIMonitorCommand, FullScan |-> FullScanResultsCommand,
   Scan |-> ScanCommand, Hotlist |-> BssidHotlistCommand, ePNO |-> ePNOCommand,
   SignificantChange |-> SignificantWifiChangeCommand, Anqpo |-> AnqpoConfigureCommand,
   Rtt |-> RttCommand]
Kinds == DOMAIN Commands

\* The commands a call with id -1 stops; the full scan one gets id 0 there.
StoppableWithoutId == {"RSSIMonitor", "FullScan", "Scan", "ePNO"}
-----------------------------------------------------------------------------
(* What handleEvent of each class reports for an event whose data holds n whole
   results.  NoData is an event without data, and a malformed event has data of
   another type, version or length than the class expects. *)

NoData == -1
MAX_RESULTS == 64

Silent == [callback |-> "none", num |-> 0]
Report(callback, num) == [callback |-> callback, num |-> num]

AtMost(max, n) == IF n > max THEN max ELSE n

RSSIMonitorReport(event, n, wellFormed) ==
  IF n = NoData \/ ~wellFormed THEN Silent ELSE Report("on_rssi_threshold_breached", 1)

wifi_handle_full_scan_event(event, n, wellFormed) ==
  IF n < 1 \/ ~wellFormed THEN Silent ELSE Report("on_full_scan_result", 1)

ScanReport(event, n, wellFormed) ==
  IF event = "FULL_SCAN_RESULTS" THEN wifi_handle_full_scan_event(event, n, wellFormed)
  ELSE IF n = NoData \/ ~wellFormed THEN Silent
  ELSE Report("on_scan_event", 1)

\* Faulty variant of HotlistReport: the number of results is not cut to the array.
HotlistReport_All(event, n, wellFormed) ==
  IF n = NoData THEN Silent
  ELSE Report(IF event = "HOTLIST_RESULTS_FOUND" THEN "on_hotlist_ap_found"
              ELSE "on_hotlist_ap_lost", n)

\* Data of another type is reported as that many blank results.
HotlistReport(event, n, wellFormed) ==
  IF n = NoData THEN Silent
  ELSE Report(IF event = "HOTLIST_RESULTS_FOUND" THEN "on_hotlist_ap_found"
              ELSE "on_hotlist_ap_lost", AtMost(MAX_RESULTS, n))

ePNOReport(event, n, wellFormed) ==
  IF n = NoData THEN Silent ELSE Report("on_network_found", AtMost(MAX_EPNO_NETWORKS, n))

SignificantChangeReport(event, n, wellFormed) ==
  IF n < 1 \/ ~wellFormed THEN Silent
  ELSE Report("on_significant_change", AtMost(MAX_RESULTS, n))

AnqpoReport(event, n, wellFormed) ==
  IF n < 1 THEN Silent ELSE Report("on_passpoint_network_found", 1)

handleEvent(kind, event, n, wellFormed) ==
  CASE kind = "RSSIMonitor" -> RSSIMonitorReport(event, n, wellFormed)
    [] kind = "FullScan" -> wifi_handle_full_scan_event(event, n, wellFormed)
    [] kind = "Scan" -> ScanReport(event, n, wellFormed)
    [] kind = "Hotlist" -> HotlistReport(event, n, wellFormed)
    [] kind = "ePNO" -> ePNOReport(event, n, wellFormed)
    [] kind = "SignificantChange" -> SignificantChangeReport(event, n, wellFormed)
    [] kind = "Anqpo" -> AnqpoReport(event, n, wellFormed)

\* RttCommand collects over several events: what it holds after one with n more
\* results.  A result that finds no memory ends those of its target and completes
\* the ranging, unless the driver's flag comes after it.
RttCollected(current, n, complete) ==
  {[idx |-> current + n, complete |-> complete]} \cup
  {[idx |-> current + k, complete |-> flag] : k \in 0 .. n - 1, flag \in {TRUE, complete}}

\* The results each class but RttCommand has room for.
ResultRoom(kind) ==
  CASE kind = "Hotlist" -> MAX_RESULTS
    [] kind = "ePNO" -> MAX_EPNO_NETWORKS
    [] kind = "SignificantChange" -> MAX_RESULTS
    [] OTHER -> 1
-----------------------------------------------------------------------------
(* Queries: one request, whose answer is copied to the caller.  A query says how
   many elements it stores for an answer of n elements and room for max. *)

Query(subcmd, head) == [request |-> Request(subcmd, head, << >>, 0), stores |-> "nothing"]
Copying(q, how) == [q EXCEPT !.stores = how]

GetMulticastIdCommand == Copying(Query("GETFAMILY", <<7>>), "one")
SetCountryCodeCommand == Query("SET_COUNTRY_CODE", <<0, 3>>)
GetFeatureSetCommand == Copying(Query("GET_FEATURE_SET_MATRIX", << >>), "clamped")
GetCapabilitiesCommand == Copying(Query("GET_CAPABILITIES", << >>), "cut")
GetChannelListCommand == Copying(Query("GET_CHANNEL_LIST", <<0, 4>>), "cut")
GetRttCapabilitiesCommand == Copying(Query("RTT_GETCAPABILITY", << >>), "cut")
GetRttResponderInfoCommand == Copying(Query("RTT_GETAVAILCHANNEL", << >>), "cut")
EnableResponderCommand == Copying(Query("RTT_SET_RESPONDER", << >>), "cut")
CancelResponderCommand == Query("RTT_CANCEL_RESPONDER", << >>)

\* MKeepAliveCommand; a longer packet is refused.
MKeepAliveStart ==
  [Query("START_MKEEP_ALIVE", <<0, 1, 2, MKEEP_ALIVE_IP_PKT_MAX, 6, 6, 4>>)
     EXCEPT !.request.limit = MKEEP_ALIVE_IP_PKT_MAX]
MKeepAliveStop == Query("STOP_MKEEP_ALIVE", <<0, 1>>)

Queries ==
  {GetMulticastIdCommand, SetCountryCodeCommand, GetFeatureSetCommand, GetCapabilitiesCommand,
   GetChannelListCommand, GetRttCapabilitiesCommand, GetRttResponderInfoCommand,
   EnableResponderCommand, CancelResponderCommand, MKeepAliveStart, MKeepAliveStop}

\* The feature matrix takes a room of zero for no limit.
Stored(q, max, n) ==
  CASE q.stores = "nothing" -> 0
    [] q.stores = "one" -> AtMost(1, n)
    [] q.stores = "clamped" -> IF max = 0 THEN n ELSE AtMost(max, n)
    [] q.stores = "cut" -> AtMost(max, n)

\* GetScanResultsCommand::createRequest.
ScanResultsRequest == Request("GET_SCAN_RESULTS", <<0, 4, 1>>, << >>, 0)
Rounds == 10

\* Scans held after one more answer with n of them: excess ones are ignored.
Retrieve(retrieved, max, n) == AtMost(max, retrieved + n)
=============================================================================
