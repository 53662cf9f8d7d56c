--------------------------- MODULE MCUNMSExecutor ---------------------------
(* Instances of UNMSExecutor for TLC. *)
EXTENDS UNMSExecutor, TLC

MCWords == {"core", "edge", "10.0.0.1"}

MCSchemes == {"https:"}
MCSegments == {"", ".", "..", "api", "v2.1", "crm", "nms", "a", "b", "i1", "i2",
               "devices", "sites"} \cup MCSchemes

MCUrls == {"https://a", "https://b/crm/"}
MCParts == [u \in MCUrls |-> IF u = "https://a" THEN [server |-> "a", path |-> <<>>]
                             ELSE [server |-> "b", path |-> <<"crm", "">>]]

Is(text)    == [is |-> text, text |-> text]
Number(n)   == [is |-> n, text |-> NoText]
Empty       == [is |-> "", text |-> NoText]
Padded(text) == [is |-> text \o " ", text |-> text]

Controller(name, url) ==
    ("name" :> Is(name) @@ "url" :> Is(url) @@ "vendor" :> Is("ubnt")
     @@ "token" :> Is("t"))

At(record, field, value) == (field :> value) @@ record
Without(record, field) == [f \in DOMAIN record \ {field} |-> record[f]]

A == Controller("core", "https://a")
B == Controller("edge", "https://b/crm/")

(* Well kept; the words swapped; a name that is another record's address;  *)
(* a padded name, and a router under an empty platform; no name, no token, *)
(* no URL.                                                                 *)
MCInventories ==
    {NoInventory,
     <<At(A, "host", Is("10.0.0.1")), B>>,
     <<At(B, "name", Is("core")), At(At(A, "name", Is("edge")), "id", Number("10.0.0.1"))>>,
     <<At(B, "hostname", Is("core")), At(A, "address", Is("10.0.0.1"))>>,
     <<At(At(At(At(A, "name", Padded("core")), "host", Is("10.0.0.1")),
             "platform", Padded("uisp")), "vendor", Is("acme")),
       At(At(B, "os", Is("routeros")), "platform", Empty)>>,
     <<At(Without(A, "name"), "host", Is("core")), Without(B, "token"),
       At(Without(Without(B, "url"), "name"), "host", Is("10.0.0.1"))>>}

Op(resource, endpoint, action, ids, query, data) ==
    [controller |-> TRUE, resource |-> resource, endpoint |-> endpoint,
     action |-> action, ids |-> ids, match |-> {}, query |-> query, data |-> data]

NoIds == <<NoId, NoId, NoId, NoId>>

CONSTANT entry

devices  == <<"devices">>
anywhere == <<"https:", "", "a", "sites">>
i1 == <<"i1">>
i2 == <<"i2">>
up == <<"..", "", "sites", "i1">>

MCEndpoints == {devices, anywhere}
MCIds == {i1, i2, up}

MCOperations ==
    {Op(devices, NoEndpoint, "update", <<NoId, i2, i1, NoId>>, {}, {entry}),
     Op(devices, NoEndpoint, "delete", <<up, NoId, NoId, NoId>>, {}, {}),
     Op(NoEndpoint, devices, "create", NoIds, {}, {entry}),
     Op(NoEndpoint, anywhere, "create", NoIds, {}, {entry}),
     Op(devices, NoEndpoint, "list", NoIds, {entry}, {}),
     Op(devices, NoEndpoint, "update", NoIds, {}, {entry})}

Symmetry == Permutations(Calls)
=============================================================================
