---------------------------- MODULE ControllerUrls ----------------------------
(***************************************************************************)
(* Where a request to a UNMS/UISP controller is sent: from the URL of a    *)
(* record and the path of a plan to a URL (class UNMSEndpoints of          *)
(* network_lang/adapters/ubnt_unms.py, over urllib.parse.urljoin).         *)
(*                                                                         *)
(* A path is the sequence of what stands between its slashes; a URL is a   *)
(* server and a path.  Left out are the scheme of a URL, what a ? # : or % *)
(* does within a segment, a scheme that no blank and server follow, and    *)
(* versions of the API other than v2.1.                                    *)
(***************************************************************************)
EXTENDS Integers, Sequences, FiniteSets

CONSTANTS
    Segments,  \* what may stand between two slashes, servers included
    Schemes    \* those that begin a whole URL, "https:"

Blank  == ""
Same   == "."
Above  == ".."
Dots   == {Same, Above}
Prefix == <<"api", "v2.1">>

ASSUME SegmentsAssumption ==
    /\ {Blank, Same, Above, "crm", "nms", "api", "v2.1"} \subseteq Segments
    /\ Schemes \subseteq Segments
    /\ Schemes \cap {Blank, Same, Above, "crm", "nms", "api", "v2.1"} = {}

Url == [server : Segments, path : Seq(Segments)]

(* A path that means what it says, and one that names no server. *)
Plain(path) == \A k \in DOMAIN path : path[k] \notin {Blank} \cup Dots \cup Schemes
Relative(path) == \A k \in DOMAIN path : path[k] \notin Schemes

Leading(path) == {k \in DOMAIN path : \A j \in 1..k : path[j] = Blank}
Trailing(path) == {k \in DOMAIN path : \A j \in k..Len(path) : path[j] = Blank}

(* UNMSEndpoints.from_url: crm/ becomes nms/, then slashes at the end go.  *)
NoCrm(segment) == IF segment = "crm" THEN "nms" ELSE segment
FromUrl(url) ==
    LET last == Len(url.path)
        path == [k \in 1..last |-> IF k < last THEN NoCrm(url.path[k]) ELSE url.path[k]]
    IN  [server |-> IF last > 0 THEN NoCrm(url.server) ELSE url.server,
         path   |-> SubSeq(path, 1, last - Cardinality(Trailing(path)))]

(* UNMSEndpoints.api_url, but for the slash it ends in. *)
ApiUrl(url) == [FromUrl(url) EXCEPT !.path = @ \o Prefix]

-----------------------------------------------------------------------------
(* urljoin. *)

(* What stands at k is taken back by what follows: some way on, more steps *)
(* up have been taken than down.                                           *)
TakenBack(path, k) ==
    \E j \in k+1..Len(path) :
        LET up   == {i \in k+1..j : path[i] = Above}
            down == {i \in k+1..j : path[i] \notin Dots \cup {Blank}}
        IN  Cardinality(up) > Cardinality(down)

(* A blank counts only at the end, where it is a slash. *)
Kept(path) ==
    {k \in DOMAIN path :
        /\ path[k] \notin Dots
        /\ path[k] = Blank => k = Len(path)
        /\ ~TakenBack(path, k)}

(* The nth of the places in S. *)
Nth(S, n) == CHOOSE k \in S : Cardinality({j \in S : j <= k}) = n

Picked(path, S) == [n \in 1..Cardinality(S) |-> path[Nth(S, n)]]

Normal(path) ==
    IF path # <<>> /\ path[Len(path)] \in Dots
    THEN Append(Picked(path, Kept(path)), Blank)
    ELSE Picked(path, Kept(path))

(* A path that begins with a scheme, a blank and a server is a whole URL.  *)
Whole(path) == Len(path) >= 3 /\ path[1] \in Schemes /\ path[2] = Blank

UrlJoin(base, path) ==
    IF Whole(path)
    THEN [server |-> path[3], path |-> SubSeq(path, 4, Len(path))]
    ELSE [base EXCEPT !.path = Normal(@ \o path)]

(* UNMSEndpoints.resource_url *)
Clean(path) == SubSeq(path, Cardinality(Leading(path)) + 1, Len(path))
ResourceUrl(api, path) ==
    IF Clean(path) = <<>> THEN [api EXCEPT !.path = Append(@, Blank)]
    ELSE UrlJoin(api, Clean(path))
=============================================================================
