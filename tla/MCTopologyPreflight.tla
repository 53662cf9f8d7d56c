------------------------- MODULE MCTopologyPreflight -------------------------
(* Instances of TopologyPreflight for TLC. *)
EXTENDS TopologyPreflight

(* Two neighbors that share a key (a name given twice), one of its own. *)
MCNeighbors == {"n1", "n2", "n3"}
MCKeysOf ==
    [n \in MCNeighbors |->
        CASE n = "n1" -> {"k1", "k2"}
          [] n = "n2" -> {"k2"}
          [] n = "n3" -> {"k3"}]

Row(d, i, r, f, s) ==
    [disabled |-> d, inactive |-> i, running |-> r, forwarding |-> f, status |-> s]

(* A port that forwards, one that is inactive by its flag, one by its      *)
(* status alone, one that runs no more.                                    *)
MCPortRows ==
    {Row("no", "no", "none", "yes", "in-bridge"),
     Row("no", "yes", "yes", "none", "none"),
     Row("none", "none", "none", "none", "inactive"),
     Row("no", "none", "no", "yes", "learning")}

E(keys, i, s) ==
    [keys |-> keys, at |-> [device |-> "edge", interface |-> i, scope |-> s]]

(* None, one, two with a key in common, one with a scope, one elsewhere,   *)
(* each with the keys of one neighbor or of several.                       *)
MCInventories ==
    {<<>>,
     <<E({"k1", "k2"}, "ether1", "none")>>,
     <<E({"k1"}, "ether1", "none"), E({"k2"}, "ether1", "none")>>,
     <<E({"k2"}, "ether1", "none"), E({"k3"}, "ether1", "none")>>,
     <<E({"k1", "k2"}, "ether1", "bridge")>>,
     <<E({"k1"}, "ether1", "none"), E({"k3"}, "ether2", "none")>>,
     <<E({"k1"}, "ether2", "none"), E({"k2", "k3"}, "ether1", "none")>>}

MCRequests == {"ether1", NoInterface}
=============================================================================
