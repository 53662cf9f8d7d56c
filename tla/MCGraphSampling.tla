-------------------------- MODULE MCGraphSampling --------------------------
(* Instances of GraphSampling for TLC. *)
EXTENDS GraphSampling

CONSTANTS ether1, ether2  \* the names of the interfaces
MCTexts == {ether1, ether2}

MCSpellings ==
    [rx_byte |-> <<"rx_byte", "rx-byte">>, rx_mbps |-> <<"rx_mbps", "rx-mbps">>,
     interface |-> <<"interface">>, name |-> <<"name">>,
     default_name |-> <<"default_name", "default-name">>, mtu |-> <<"mtu">>]

MCNames ==
    [rx_byte |-> <<"rx_byte">>, rx_mbps |-> <<"rx_mbps">>, mtu |-> <<"mtu">>,
     interface |-> <<"interface", "name", "default_name">>, name |-> <<"name">>]

MCRateFields == [rx_mbps |-> "rx_byte"]
MCCounterFields == [rx_byte |-> "rx_mbps"]

MCName == [r1 |-> ether1, r2 |-> ether2]
MCListings == {<<"r2", "r1">>, <<"r1">>}

Q(metrics, samples, kind, rate, interfaces) ==
    [metrics |-> metrics, samples |-> samples, kind |-> kind, rate |-> rate,
     interfaces |-> interfaces, groupBy |-> Null, count |-> FALSE, aggregate |-> Null]

(* Rates over three samples, by interface, with and without a gauge; of    *)
(* the counter itself; bars of two samples; what is refused, early or      *)
(* late; the menu of a single queue.                                       *)
MCRequests ==
    {Q(<<"rx_mbps">>, 3, "auto", TRUE, TRUE),
     Q(<<"rx_byte", "mtu", "name">>, 2, "line", TRUE, FALSE),
     Q(<<"rx_byte">>, 2, "line", FALSE, TRUE),
     Q(<<"rx_byte">>, 2, "bar", TRUE, TRUE),
     [Q(<<"mtu">>, 1, "auto", TRUE, FALSE) EXCEPT !.aggregate = "count"],
     [Q(<<"mtu">>, 1, "bar", TRUE, TRUE) EXCEPT !.count = TRUE],
     [Q(<<"mtu">>, 1, "bar", TRUE, TRUE) EXCEPT !.aggregate = "median"],
     Q(<<"rx_mbps">>, 1, "line", TRUE, TRUE),
     Q(<<"rx_mbps">>, 0, "auto", TRUE, TRUE),
     Q(<<"rx_mbps">>, 1, "pie", TRUE, TRUE)}
=============================================================================
