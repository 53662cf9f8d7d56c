------------------------------ MODULE Targets ------------------------------
(***************************************************************************)
(* From the name of a target to the adapter that runs its operations       *)
(* (network_lang/targets.py).                                              *)
(*                                                                         *)
(* A record of the inventory is a function from the fields that it has,    *)
(* null ones aside, to their values.  A value is [is, text]: `is' is what  *)
(* str() makes of it, `text' what _string() does: the text without         *)
(* surrounding blanks, or NoText for a blank or for what is no str.  Case  *)
(* is left out.                                                            *)
(***************************************************************************)
EXTENDS Integers, Sequences

CONSTANTS
    NoText,
    NoInventory,     \* no inventory file, or none that holds a list
    EnvironmentToken \* UNMS_API_TOKEN or UISP_API_TOKEN, or NoText

MatchFields == {"name", "url", "id", "host", "hostname", "address"}
TokenFields == <<"token", "api_token", "unms_api_token", "uisp_api_token">>

(* _string(record.get(field)) *)
Text(record, field) ==
    IF field \in DOMAIN record THEN record[field].text ELSE NoText

Or(text, default) == IF text # NoText THEN text ELSE default

(* Mutant of RecordMatches: a target is known by its addresses only. *)
RecordMatchesByAddress(record, target) ==
    \E f \in (MatchFields \ {"name", "id"}) \cap DOMAIN record : record[f].is = target

(* _record_matches: blanks count. *)
RecordMatches(record, target) ==
    \E f \in MatchFields \cap DOMAIN record : record[f].is = target

IsFirst(k, target, inventory) ==
    /\ RecordMatches(inventory[k], target)
    /\ \A j \in 1..k-1 : ~RecordMatches(inventory[j], target)

(* resolve_target: the first record that matches, as a set of its position.*)
ResolveTarget(target, inventory) ==
    {k \in 1..Len(inventory) : IsFirst(k, target, inventory)}

DefaultPlatform(vendor) ==
    IF vendor \in {"ubnt", "ubiquiti", "unms", "uisp"} THEN "unms" ELSE "routeros"

(* Python's falsehood; a blank str is not one. *)
Falsy(value) ==
    value.text = NoText /\ value.is \in {"", "0", "0.0", "False", "[]", "{}"}

(* record.get("platform") or record.get("os") *)
Vendor(record) == Or(Text(record, "vendor"), "mikrotik")
Platform(record) ==
    LET given == "platform" \in DOMAIN record /\ ~Falsy(record["platform"])
    IN  Or(Text(record, IF given THEN "platform" ELSE "os"),
           DefaultPlatform(Vendor(record)))
Transport(record) == Or(Text(record, "transport"), "rest")

IsRouterOS(record) ==
    /\ Transport(record) = "rest"
    /\ Vendor(record) \in {"mikrotik", "routeros"} \/ Platform(record) = "routeros"

IsUNMS(record) ==
    /\ Transport(record) = "rest"
    /\ Platform(record) \in {"unms", "uisp", "controller"} \/ Vendor(record) \in {"unms", "uisp"}

HasToken(record) ==
    \/ \E i \in DOMAIN TokenFields : Text(record, TokenFields[i]) # NoText
    \/ EnvironmentToken # NoText

(* The adapter is one of the two, or tells why there is none               *)
(* (TargetResolutionError).                                                *)
Device(adapter, url, name) == [adapter |-> adapter, url |-> url, name |-> name]
Failure(what) == Device(what, NoText, NoText)
Adapters == {"routeros", "unms"}

(* Mutant of RecordDevice: a record without a URL will do. *)
RecordDeviceAnywhere(record, requested) ==
    IF IsRouterOS(record) \/ IsUNMS(record)
    THEN Device(IF IsRouterOS(record) THEN "routeros" ELSE "unms",
                Text(record, "url"), Or(Text(record, "name"), requested))
    ELSE Failure("unsupported adapter")

(* target_device, once the record is found.  RouterOS is looked for first. *)
RecordDevice(record, requested) ==
    LET known == IsRouterOS(record) \/ IsUNMS(record)
        adapter == IF IsRouterOS(record) THEN "routeros" ELSE "unms"
    IN  IF ~known THEN Failure("unsupported adapter")
        ELSE IF Text(record, "url") = NoText THEN Failure("no URL")
        ELSE IF adapter = "unms" /\ ~HasToken(record) THEN Failure("no API token")
        ELSE Device(adapter, Text(record, "url"), Or(Text(record, "name"), requested))

TargetDevice(target, inventory) ==
    IF inventory = NoInventory THEN Failure("no inventory")
    ELSE IF ResolveTarget(target, inventory) = {} THEN Failure("not found")
    ELSE RecordDevice(inventory[CHOOSE k \in ResolveTarget(target, inventory) : TRUE],
                      target)

-----------------------------------------------------------------------------
(* An inventory in which a word means one record: no two records share a   *)
(* value that a target may be known by, and no name has blanks around it.  *)
WellKept(inventory) ==
    /\ inventory # NoInventory
    /\ \A j, k \in 1..Len(inventory) :
          \A f \in MatchFields \cap DOMAIN inventory[j] :
              RecordMatches(inventory[k], inventory[j][f].is) => j = k
    /\ \A k \in 1..Len(inventory) :
          "name" \in DOMAIN inventory[k] =>
              inventory[k]["name"].text \in {NoText, inventory[k]["name"].is}
=============================================================================
