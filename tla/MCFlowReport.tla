---------------------------- MODULE MCFlowReport ----------------------------
(* Instances of FlowReport for TLC. *)
EXTENDS FlowReport

MCHosts == {"edge", "core", "cpe1", "cpe2", "camera", "web", "all-ones"}

MCAddressKind ==
    [h \in MCHosts |->
        CASE h = "web"      -> "public"
          [] h = "all-ones" -> "ignored"
          [] OTHER          -> "private"]

F(exporter, src, dst, ingress, bytes) ==
    [exporter |-> exporter, src |-> src, dst |-> dst,
     srcMac |-> {}, dstMac |-> {}, srcIds |-> {}, dstIds |-> {},
     ingress |-> ingress, egress |-> NoInterface, bytes |-> bytes, packets |-> 1,
     metadata |-> [snr |-> 40]]

(* A client to the web; the same elsewhere, with as much; routers that     *)
(* report on themselves, one with more, to the client and on no interface; *)
(* a client that reports on itself; a client to a router; a host that the   *)
(* inventory does not know, with an identifier and signals of its own.     *)
MCFlows ==
    {F("edge", "cpe1", "web", "ether1", 2),
     F("core", "cpe1", "cpe2", "ether9", 2),
     F("core", "core", "cpe1", NoInterface, 9),
     F("edge", "edge", "cpe1", NoInterface, 1),
     F("cpe2", "cpe2", "edge", "ether1", 1),
     F("edge", "cpe1", "core", "", 1),
     [F("core", "camera", "all-ones", "ether1", 3) EXCEPT
        !.srcIds = {"cpe1"}, !.srcMac = {"m1"}, !.metadata = [ccq |-> 10]]}

R(client, hosts, id) == [client |-> client, hosts |-> hosts, id |-> id]

(* Two clients and a router; all exporters known, and an address that two  *)
(* clients claim; no client at all.                                        *)
TwoClients ==
    <<R(TRUE, {"cpe1"}, "a"), R(FALSE, {"edge"}, "b"), R(TRUE, {"cpe2"}, "c")>>
AllExporters ==
    <<R(FALSE, {"edge"}, "a"), R(FALSE, {"core"}, "b"), R(FALSE, {"cpe2"}, "c"),
      R(TRUE, {"cpe1"}, "d"), R(TRUE, {"cpe1"}, "e"), R(TRUE, {}, "f")>>
NoClient == <<R(FALSE, {"edge"}, "a")>>

L(scope, excludeExporters, externalPeers, networks) ==
    [scope |-> scope, excludeExporters |-> excludeExporters,
     externalPeers |-> externalPeers, networks |-> networks]

Asks(form, asks) == [form |-> form, asks |-> asks]

(* The client on its interface, with signals as a range and a lower limit. *)
OnEther1 ==
    [target |-> "cpe1", device |-> "edge", interface |-> "ether1",
     envelope |-> [signal |-> [form |-> "pair", low |-> 30, high |-> 60],
                   bytes |-> Asks("dict", [min |-> 1])]]
(* The client on a device, with a limit, a value and a signal not seen.    *)
OnCore ==
    [target |-> "cpe1", device |-> "core", interface |-> NoInterface,
     envelope |-> [bytes |-> Asks("near_zero", [max |-> 3, near_zero |-> 1]),
                   packets |-> [form |-> "value", value |-> 1],
                   noise |-> Asks("dict", [max |-> 9])]]
Nobody ==
    [target |-> "nobody", device |-> NoInterface, interface |-> NoInterface,
     envelope |-> <<>>]

C(records, asked, wanted) ==
    [inventory |-> records, load |-> asked, expected |-> wanted]

MCCallers ==
    {C(TwoClients, ClientLoad, OnEther1),
     C(AllExporters, ClientLoad, OnCore),
     C(NoClient, ClientLoad, Nobody),
     C(TwoClients, L("internal", FALSE, TRUE, {"camera"}), OnCore),
     C(AllExporters, L("internal", FALSE, FALSE, {}), Nobody),
     C(TwoClients, L("managed", FALSE, FALSE, {}), Nobody),
     C(TwoClients, L("unknown_internal", TRUE, FALSE, {}), Nobody)}

(* One that knows its client and asks for what is the default. *)
DefaultCallers ==
    {C(<<R(TRUE, {"cpe1"}, "a")>>, L("internal", TRUE, FALSE, {}), Nobody)}

MCAliases == [signal |-> <<"snr", "ccq">>]
=============================================================================
