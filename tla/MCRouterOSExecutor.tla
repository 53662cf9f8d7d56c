------------------------- MODULE MCRouterOSExecutor -------------------------
(* Instances of RouterOSExecutor for TLC. *)
EXTENDS RouterOSExecutor, TLC

MCFields == {"name", "disabled"}
MCValues == {"a", "b", "yes", "no"}
MCOutsideRows ==
    {r \in [MCFields -> MCValues] :
        r["name"] \in {"a", "b"} /\ r["disabled"] \in {"yes", "no"}}
MCDefaultRow == ("name" :> "b" @@ "disabled" :> "no")

Op(menu, action, id, match, name, body) ==
    [menu |-> menu, action |-> action, id |-> id, match |-> match,
     name |-> name, body |-> body]

Named(x)    == ("name" :> x)
Disabled(x) == ("disabled" :> x)

(* Writes by lookup: the operations whose interleavings matter. *)
FallbackOperations ==
    {Op("rows", "disable", NoId, EmptyDict, "a", EmptyDict),
     Op("rows", "enable", NoId, Disabled("yes"), NoName, EmptyDict),
     Op("rows", "delete", NoId, EmptyDict, "a", EmptyDict),
     Op("rows", "update", NoId, Named("a"), NoName, Named("b")),
     Op("rows", "create", NoId, EmptyDict, NoName, Named("a")),
     Op("rows", "update", NoId, EmptyDict, NoName, Named("a"))}

(* One of every branch of the planner, by id and by filter. *)
EveryOperation ==
    {Op(m, a, i, EmptyDict, n, b) :
        m \in Menus, a \in Actions, i \in Ids \cup {NoId, ResolvedId},
        n \in {"a", NoName}, b \in {EmptyDict, Named("b")}}

CommandOperations ==
    {Op("commands", "run", NoId, EmptyDict, NoName, EmptyDict)}

(* Rows are interchangeable, and so are calls. *)
Symmetry == Permutations(Ids) \cup Permutations(Calls)
=============================================================================
