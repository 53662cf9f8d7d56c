# A verification of network_lang

`network_lang` describes operations on network equipment in a neutral form
(`network.interfaces.disable`, target, parameters), plans them as requests to a
device's API, carries them out, and compares what it observes on the network with
what an inventory expects. A small Go daemon collects NetFlow and feeds the
comparison. This directory holds TLA+ models of the parts that carry its logic,
the TLC runs that check them, and TLAPS proofs about them.

## Inventory

| Part | Source | State it keeps | Operations | What is hard about it |
| --- | --- | --- | --- | --- |
| RouterOS planner | `adapters/mikrotik_routeros.py` 483-1660 | none (pure) | operation -> plan of 0, 1 or 2 requests | many early returns; the placeholder path of a write by lookup |
| RouterOS executor, transport | `adapters/mikrotik_routeros.py` 37-162, `rosapi/minimal.py` | per call: plan step, resolved id, outputs | `execute` -> result | between lookup and write the device changes; timeouts with the request still under way |
| Topology collection, preflight | `adapters/mikrotik_routeros.py` 189-315, `topology.py` | a snapshot, a report | `collect_routeros_topology`, `preflight_routeros_operation` | two reads that are not one; the report is stale when acted upon |
| Reconciliation | `reconcile.py`, `topology.py` 225-444 | none (pure) | expected, observed -> report | records that share several keys with several others |
| Flow collector | `cmd/flowcollector`, `internal/flowcollector` | socket, counters, encoder, output file | receive, decode, write, status line | write errors, restarts, counters read while they change |
| Flow classification, policy, envelopes | `flows.py`, `flow_client.py` | none; reads the collector's file while it grows | JSONL -> classified devices -> report; flows -> verdict on a target | order dependence, overlap of classes, ties |
| UNMS adapter | `adapters/ubnt_unms.py` | per call: its request | plan, `execute` | same promise as RouterOS with other error paths |
| Targets, inventory | `targets.py` | a device keeps the record it was made from | word -> record -> adapter with executor | words that fit several records, precedence of defaults, edits of the file |
| Language | `parser.py`, `model.py`, `validation.py`, `api.py` | none | text -> operations | scanner states by line and by statement |
| Graphing | `graphing.py`, `graph_client.py` | samples over time | rows -> counters -> rates -> series | counter resets, equal stamps, a clock that is set back |
| airOS adapter | `adapters/ubnt_airos.py` | none | operation -> commands (never run) | a table |
| Exporters, HTML page, CLI, mock client | `exporters.py`, `graph_html.py`, `cli.py`, `mock_client.py` | none | formatting, glue | nothing concurrent |
| Vendored client | `adapters/rosapi/` except `minimal.py` | none | one class per menu | not used by the executor |

Operations flow from the language or `build_operation` to a target's executor, the
executor plans and sends requests; preflight runs two list operations through the same
executor and hands normalized rows to the reconciliation, which flow records reach too;
`graph_operation` executes one operation again and again. The daemon and the library meet
only in the JSONL file.

The full list of hazards, each at its line with the properties that watch it, is in
`PROJECT.json`.

## Plan

1. `RouterOSPlan`, `RouterOSExecutor`, `OperationOutcome`: how a change reaches a device.
   *Done, with proofs.*
2. `FlowCollector`: the daemon. *Done, with proofs.*
3. `Reconciliation` (pure), `TopologyPreflight` (collect and judge on a network that
   changes) and `PreflightedCall` (a preflight, then the executor). *Done, with proofs.*
4. `FlowClassification`, `FlowEnvelope`, composed with the file in `FlowReport`. *Done,
   with proofs.*
5. `Targets`, `UNMSPlan`, `ControllerUrls`, `UNMSExecutor`, shown to implement
   `OperationOutcome`. *Done, with proofs.*
6. `GraphRates` under `GraphSampling`. *Done, with proofs.* `Syntax` under `Scanner`.
   *Done, with proofs.*
7. Open: validation and builder; the attachments of ARP, DHCP and bridge host rows.

## Modules

A module `MCx` only gives the constants of `x` their values.

### RouterOSPlan

The pure function from an operation to a plan, one operator per helper of the source and
under its name. An operation is a record of the dispatch branch its resource path selects
(`menu`), the action, and the parameters the planner looks at; the tables of endpoint
names and key translations are data and are abstracted away, and so is a `match` or
`data` that is not a dict (the code takes it for an empty one). `Acts(op)` says that
the plan asks the device to change or run something.

### RouterOSExecutor

| Model | Code |
| --- | --- |
| `pc[c]`: idle, ready, waiting, done | where call `c` stands in `execute_plan` |
| `next`, `resolved`, `outputs`, `result` | the loop's position, `resolved_id`, `outputs`, the returned `OperationResult` |
| `wire[c]`, `reply[c]` | the last request of the call: sent, answered, rejected, read |
| `table`, `spent` | the menu on the device: rows by id; ids are never given out twice |
| `effects`, `seen` | history: what the device did for a call; what its lookup selected |
| `RefuseUnsupported`, `RefuseUnresolved`, `RefuseLookup`, `Finish` | the four returns of the `try` and around it |
| `Send`, `Resolve`, `KeepOutput` | the loop body, cut at the request, where others may run |
| `GiveUp` | the `except`: HTTP status of 400 or more, lost reply, bad JSON, timeout |
| `ServeGet` ... `Reject`, `Outside` | the device, modelled from the requests the code sends, and everybody else |

`GiveUp` is possible at any moment of a wait and leaves the request on the wire, so a
change can land after the call has answered `ADAPTER_ERROR`. `Outside` adds, drops and
rewrites rows at any time. Bounds: none on time or losses; `Ids` bounds the rows ever
created.

### OperationOutcome

What any adapter owes its caller: an operation acts at most once; "ok" is said only of an
operation that has acted (or only read), a refusal only of one that has not and will not,
and the rest is "unknown". `RouterOSExecutor` and `UNMSExecutor` both implement it, each
under a mapping `Promise` of its own.

### Targets, UNMSPlan, ControllerUrls, UNMSExecutor

`Targets` is the way from a word to a device: the first record of the inventory that has the
word in one of six fields, its vendor, platform and transport with their defaults, the URL
and the token. A field's value is what `str()` makes of it and what `_string()` does, which
differ by blanks and for numbers; a null field is an absent one. `UNMSPlan` is the planner:
endpoint, id, filters and body to one request, whose path is the endpoint followed by the id.
`ControllerUrls` is the way from a record's URL and that path to the URL requested
(`UNMSEndpoints`): `crm/` becomes `nms/`, `/api/v2.1/` follows, slashes before the path go,
and `urljoin` does the rest: a path that is a whole URL replaces the controller's, `..` steps
up, `.` and empty segments fall away. A path is the sequence of what stands between its
slashes. Left out are the scheme of a URL, what `?`, `#`, `:` and `%` do within a segment, a
scheme that is not followed by `//` and a server, `crm/` at the end of a longer segment, and
other versions of the API.

| Model of `UNMSExecutor` | Code |
| --- | --- |
| `target`, `op`, `device` | what a call is given; the `TargetDevice` it has found and keeps |
| `Resolve`, `RefuseTarget` | `target_device` and the `TargetResolutionError`s it raises |
| `RefuseUnsupported`, `Send`, `Receive`, `GiveUp` | `execute_plan`, cut at its one request |
| `inventory`, `EditInventory` | the file, edited at any time |
| `request` | the method and the URL that `session.request` is given |
| `ServeRead`, `ServeChange`, `Reject` | the controllers, which do what a request says, at its URL, or refuse it |
| `effects` | history: the changes made for each call, with method and URL |

A device of the other adapter is handed over: its calls are `RouterOSExecutor`'s. What a
controller holds is left out, since no step of the code depends on it. Redirects, which the
HTTP library follows by itself, are not modelled.

### FlowCollector

| Model | Code |
| --- | --- |
| `socket` | the kernel's receive queue, which drops when full |
| `pc`, `current`, `batch` | the main loop: the datagram in the buffer, its records still to write |
| `encoder` | `json.Encoder`, which keeps its first write error (library, from its documented use) |
| `count`, `loads`, `printed` | the four atomics; what the status goroutine has loaded; its last line |
| `file` | what has been written, whole lines and torn ones, in order |
| `Receive`, `DecodeError`, `Decode`, `Encode`, `CountRecord`, `WriteError`, `EncoderError`, `PacketDone` | the loop, cut wherever the status goroutine or a crash can see a difference |
| `Load`, `PrintStatus` | the goroutine, one atomic load per step, in the order of the arguments |
| `Crash`, `Start` | SIGKILL or power; `main` up to the loop, `O_APPEND` |

Lengths are the real ones (24 and 48 bytes, a buffer of 9000). A record is its place in
its datagram; its fields are not modelled. A read error changes nothing and has no action.
A crash keeps what the file system had accepted; loss of its cache is not modelled.

### FlowClassification, FlowEnvelope, FlowReport

`FlowClassification` is `load_flow_devices` with its classes, scopes and dedupe, the policy
that routes findings into the parts of a report, and the inventory of `flow_client.py`.
`FlowEnvelope` is `reconcile_flow_envelope`: the strongest flow of a target, three scores
and a decision. Addresses are members of a set with what `ipaddress` says of each; a number
is what `float()` gives.

| Model of `FlowReport` | Code |
| --- | --- |
| `flows`, `lines` | the flows seen; the collector's file |
| `Collect`, `Tear` | the daemon writes the records of a flow; a write is cut short |
| `NothingCaptured`, `NoClients`, `LoadFails`, `MakeReport` | the four ways `flow_client.py` ends |
| `Judge` | a caller of `reconcile_flow_envelope` with all flows so far |

The reader may run at any time and any number of times, so that properties relate one
report to the next.

### GraphRates, GraphSampling

`GraphRates` turns rows into rates, lines and bars, with the field names and spellings that
the code falls back to. A rate is kept as the pair of difference and elapsed time, so that it
can be compared with the readings it was made from. `Names` and `Spellings` are the aliases
and the ways to write a field, `RateFields` and `CounterFields` the adapter's two tables. A
value is a number, one of `Texts`, or `Null`; `Number` is what `_float_value` makes of it.

| Model of `GraphSampling` | Code |
| --- | --- |
| `sent`, `counter`, `resets`, `Traffic`, `ResetCounter` | the device's counters |
| `time`, `Tick`, `SetBack` | the wall clock |
| `RefuseRequest`, `AcceptRequest` | the checks of `graph_operation` |
| `Execute`, `ExecuteFails`, `Stamp`, `Wake` | one sample: the call, the rows stamped once they are back, the sleep |
| `RefuseRate`, `RefuseAggregate`, `Draw` | the adapter's preparation, and the graph or what is wrong with it |
| `source` | history: the resource as it was when each row was read |

### Syntax, Scanner

`Syntax` is the lexical structure by line (strings, escapes, comments, depth) and the
recursive descent over arguments. A symbol is a character that the scanner tells apart, or a
whole identifier or number. The functions of `_ValueParser`, which call each other, are one
recursive function from places to the places after what is parsed there (`Items`), so that
theorems can be stated about them. `Scanner` is `parse_text`: `program` is what somebody
meant, `ends` the places where they have broken it into lines, `comments` what they have
written at the end of each line, and the actions are what `_statements` does with a line.

### Reconciliation

Matching of expected and observed records, as pure operators under names close to the
source's. A record is the set of its normalized `keys()`; an attachment also has the place
of `location_key()`. Identical names after `strip().lower()` are one value. A report speaks
of records by their index. The flags of a bridge port are "yes", "no" or "none", after
`_bool`; its `status` decides where the flags say nothing.

### TopologyPreflight

| Model | Code |
| --- | --- |
| `where`, `port` | the network: the interface in each neighbor's row, the rows of the bridge ports |
| `target`, `interface`, `expected` | what `preflight_routeros_operation` is given |
| `pc`, `observed`, `states`, `result` | where it stands, the snapshot so far, what it returned |
| `RequireTarget`, `ReadFails`, `JudgeNothing`, `Judge` | its four ways to an end |
| `ReadNeighbors`, `ReadPorts` | the two list operations of `collect_routeros_topology`, each with its normalizer |
| `Rewire`, `PortChanges` | the network, at any time |
| `whereRead`, `portRead` | history: what was true when each read was served |

The device lists neighbors in any order. A read fails for any reason, as the executor may.
`network_device` renames target and snapshot alike and is left out; so are the attachments
of ARP, DHCP and bridge host rows, which the preflight does not collect.

### PreflightedCall

`RouterOSExecutor` with a caller that preflights first (`TargetDevice.preflight`, then
`execute`): `judged` is the interface that `_operation_interface` found, in the name or under
the first of three keys of the `match` that holds a word (`JudgedField`), and `borne` the rows
that have had that word in that field since. The verdict is left out: the question is which
row it was about. `Blanks` are the values that the preflight passes over: blank strings and
what is no string.

## Runs

| Run | Instance | What it shows |
| --- | --- | --- |
| `executor` | 2 calls out of 6 operations (toggle, rename, delete, create; by name and by another field), 2 ids, 2 names | two writers and outsiders on one menu: every change on the right row and fields, and no answer that is belied later |
| `every_operation` | 1 call of every menu, action, id, name and body, 2 ids | the invariant `Consistent`, "ok means done", reads are reads, refinement of `OperationOutcome`; every call returns |
| `collector` | 2 datagrams of 4 kinds, 2 runs, 2 full disks, queue of 1, status on | order, accounting, torn lines, restarts; what a status line is worth; the loop never stops |
| `collector_lines` | 2 datagrams, 2 runs | *violation*: a record is glued to a torn line |
| `preflight` | 3 neighbors, 2 of them sharing a key, 7 inventories, 4 port rows, 1 change of the network | "clear" is right about both halves of the snapshot; no false alarm; the order of rows does not matter |
| `preflighted_call` | 1 call by id, name (a blank one too) or any match over three keys, 2 ids | without an id, what is changed has borne what was judged since the preflight, in the field it was taken from |
| `flow_report` | every order of 3 out of 7 flows, torn lines, 7 callers | exit code and missing clients mean what they say; order does not matter; findings stay; "safe" is earned; the target moves only to a stronger flow |
| `flow_exporters` | the same flows, a caller with the defaults | *violation*: an exporter is reported as an unknown host |
| `graph_sampling` | 10 requests, 2 interfaces, 3 samples, 2 units of traffic, 1 reset, 1 set-back of the clock | no rate overstates the traffic; a reset costs one rate; no point hides another; the call returns |
| `unms` | 2 calls, 3 words, 6 operations (a whole URL for an endpoint, an id with `..`), 6 inventories, 2 controllers | each call changes one thing at most, on its controller and as it was told if its paths mean what they say; names lead back; refinement of `OperationOutcome` |
| `scanner` | 12 programs, well formed and not, on up to 3 lines broken at any places, each with a comment or none | what is read is what was written; the only reason for which a well-formed call is refused |
| `scanner_layout` | the same, up to 2 lines | *violation*: a call is refused for where its lines are broken |

Two calls are enough for the executor because calls meet only on the device and a property
of `executor` speaks of one call against "the rest", which `Outside` already exaggerates;
the second call makes the mutual undoing of two lookups' writes a case of its own. Two ids
give lookups none, one and two rows to find. Two runs of the daemon are one restart; two
full disks are one in each run; the second datagram meets the encoder with its error, the
file with a torn end, and the status line with counters of two packets. One change of the
network falls before, between or after the two reads, and that is all that a preflight can
tell apart, since it reads each half once. The inventories hold what the reconciliation
distinguishes: nothing, a record with the keys of one neighbor or of several, two records
that share an observation, a scope, a record of another interface. Three flows give two
reports with one between them, and ties of first, second and third place. Three samples
give a rate before and after a reset. UNMS inventories are well kept, with the words
swapped, with words that fit two records, and with what each error of `target_device` is
about. Three lines break a program at any two places, the same place included, which leaves
a blank line: inside a construct and after it, with and without comments. Deadlock is not
checked: finished calls, reports and parses and a daemon without datagrams stop.

Symmetry is used in `executor` over ids and calls and in `unms` over calls, which no
operation of those runs tells apart; no liveness is checked there.

### Fairness

`RouterOSExecutor!FairSpec` is weakly fair to each call's own steps: a call is a running
thread, and its wait ends because `urlopen` is given a timeout (`rosapi/minimal.py:86`). It
assumes nothing of the device but this: the timeout is one of each operation on the socket, so
a device that sends a little before each of them expires can hold a call for longer, and
fairness says only that it does not do so for ever. `every_operation` checks it for
one call, which is the whole question, since no call waits for another.
`FlowCollector!FairSpec` is weakly fair to the main
goroutine, assuming that a write to a regular file ends; it assumes nothing of exporters,
the disk, or restarts. `GraphSampling!Spec` is weakly fair to the steps of the call: the
executor returns, by the property above, and a sleep ends.

## Where code and documents disagree

Three disagreements are findings of runs: torn lines
(`collector_lines`), exporters among the unknown hosts (`flow_exporters`) and the layout of
calls (`scanner_layout`). The models follow the code in these cases too, which no run states:

- `docs/syntax-v0.md` calls the class `observe` non-mutating; `RISK_BY_ACTION` gives it to
  every `run`, among them commands that remove rows (`network.radius.remove.run`).
- After one failed write the collector emits nothing until it is restarted, because its one
  `json.Encoder` keeps the error; `docs/source/flowcollector.rst` promises that it decodes
  and emits.
- `missing_expected` names a device that was observed, if its observation was given to
  another expected record that shares a key with it; `docs/topology-preflight.md` says "not
  observed".
- `docs/topology-preflight.md` says that a preflight tells whether the operation targets the
  interface we think it targets. `enable` and `disable` with an id and a name: the preflight
  judges the interface of the name, the planner changes the row of the id. An operation with
  `match={interface: ether1, name: vlan10}`: the preflight judges `ether1`
  (`topology.py:461`), the row that is changed is named `vlan10` and lies on `ether1`.
- `docs/adapters.md:182-183` says that an update goes to `/<resource>/<id>` of the
  controller's API. An `endpoint` that is a whole URL goes to that URL, and an `id` with `../`
  to another resource, because `resource_url` joins paths with `urljoin`
  (`ubnt_unms.py:54-58`).
- `docs/inventory.md:116-128` says that the target factory only creates RouterOS devices and
  that other adapters are not yet wired into `target_device()`; it creates UNMS devices too
  (`targets.py:98-107`).
- A string with a bad escape (`'\xq'`) makes `ast.literal_eval` raise a `SyntaxError`
  (`parser.py:327`), which is no `ParseError`: the command line, which catches the latter
  (`cli.py:34`), ends with a traceback. The model calls both a refusal.
- UNMS: `query` is read only if `match` is present and no dict, although
  `docs/adapters.md` lists both for list operations.

## Proofs

`RouterOSExecutor_proofs` proves first what the planner does, `PlanShape`: for every operation a plan is nothing, one direct
request, or a lookup followed by one PATCH or DELETE on the resolved row; and
`PlanCarriesWhatItSays`: a lookup has all of the operation's filters, a patch no field that
the operation does not mention. The executor needs no more of the planner.

It then proves that `IInv == TypeOK /\ Consistent` is inductive, for any
calls, operations, rows and values, and from it the theorems listed in `PROJECT.json`:
`TypeOK`, `Consistent`, `AtMostOneEffect`, `RefusalIsHarmless`, `ChangesTheRightRow`,
`OkMeansDone`, `ReadRiskIsReadOnly`, the action properties `AnswerIsFinal` and
`PatchKeepsTheRest`, and the refinement `KeepsPromise`. None of the properties is inductive by itself: that a call acts
once, say, depends on `next` having moved past a step only after its reply was read
(`EffectFits`), which depends on the state of the wire (`ControlFits`), and that the effect
is on the right row depends on what the lookup was served (`LookupFits`). `Consistent` says
these together, per call. A lemma `Locality` shows that a step of one call leaves the
invariant of the others alone, and each action has a lemma of its own. `AtMostOneEffect` and
`RefusalIsHarmless` follow from the refinement as well and have no run of their own.

`FlowCollector_proofs` proves every safety property of the daemon, for any datagrams, buffer,
mode, queue and numbers of packets, runs and full disks. Its invariants are layers over
`Typed`: types, what a process that is down has lost (`Down`), and the numbers of the
datagrams in the socket and the buffer (`Numbered`, without which not even the types of the
records are inductive).

| Theorem | Needs, over `Typed` |
| --- | --- |
| `PacketsAlways` | nothing more |
| `TornAlways` | `TornFits`: a run that has torn a line has an encoder with an error, so it writes no more |
| `RecordsAlways` | `TornFits`, for the runs before: no line of the file is of a run to come |
| `InOrder` | `BatchOrdered`, `FileBehind`: the batch is a tail of one datagram's records, and the file ends in the record before it or in nothing of that datagram |
| `BatchFitsAlways` | `BatchOrdered`: the batch is empty when the buffer is filled again |
| `StatusAlways` | `LoadsFit`, on `PacketsAccounted`: what the loads so far can still become |
| `LinesStay` | types |

`UNMSExecutor_proofs` proves that `IInv == TypeOK /\ Consistent` of `UNMSExecutor` is inductive,
for any calls, operations, words, controllers and inventories. `Consistent` says per call what
its place in the code tells of its device and its request (`ControlFits`), and that what has
been done for it is nothing, or the one change planned, and that only after its request was
served (`EffectFits`). Its lemma `PlanShape` says what a plan may be, and that its path is the
endpoint of the operation, or that and the first usable id. What becomes of the path is proved
first: `urljoin` makes a URL of any path (`ResourceUrlType`), which takes that a finite set of
numbers has an nth member (`NthExists`); it stays on the controller if no segment is a scheme
(`StaysThere`); and it leaves a path as it is, under the API, that has no empty segments, dots
or schemes (`PlainlyThere`, from `NormalPlain`). From these follow `TypeOK`, `TouchesOnlyItsOwn`
and the refinement `KeepsPromise`. `TouchesOnlyItsOwn` has these conditions because without
them it is false of the code (see above), and the run has operations of both kinds. `NamesLeadBack` is a fact of `Targets`: in a well-kept inventory a value of a
field that words are compared with finds no record but its own (`FindsItsRecord`).

`Reconciliation_proofs` is about the pure matching. `ReconcileByKeys` says who is unknown,
missing and paired, and `ReconcileAttachmentsRearranged` that the order of the observations
does not matter for who is unknown, missing or moved; `ReconcileByOneKey` is the case of records that share one key at most. The code takes the first of several candidates, so both need the minimum of
a set of numbers to be a member of it (`MinIsLeast`): the intervals up to the
members of a set are well-founded under strict inclusion, so one of them is minimal (`Least`).

`TopologyPreflight_proofs` proves every property of the preflight, for any network, inventory
and interface. What makes them inductive (`IInv`) is that the snapshot has a record of each
neighbor as it was when it was read, and of nothing else (`CollectedAll`), and that what is
returned is the judgement of that snapshot (`Judged`), though the network has moved on.

The last part of `RouterOSExecutor_proofs`, which extends `PreflightedCall`, shows that a call
that is preflighted is a call of the executor
(`CallerKeepsExecutor`), so that all that is proved of the executor holds of it, and that it
changes only rows that have borne what was judged, in the field it was taken from
(`JudgedIsChanged`). The property is about operations without an id, since with an id and a
name the code judges the one and changes the other, and without a blank name, which the
preflight passes over and the planner does not. That is all: a row found by `match` has all the
words of the match in their fields, so the one judged among them.

`FlowReport_proofs` proves every property of the reports and verdicts, for any flows,
inventories and callers. The inductive invariant says that the last report is the report on
the lines it has read, which are the beginning of the file and whole, and the last verdict
that on a beginning of the flows. The rest is about the pure functions:

| Theorem | Argument |
| --- | --- |
| `ExitCodeIsHonest`, `MissingAreExplained` | who is found depends on the records included alone, since the first of each host is kept (`FirstIsKept`); a device shares no key with an inventory but its address |
| `OrderIsImmaterial` | if exporters are left out or known, records of one host fall into one part of the report (`AlikeWhen`), so the set of records decides (`SameRecords`) |
| `FindingsStayFound` | what is kept of a beginning is kept of the whole (`KeptOfPrefix`), whatever follows |
| `SafetyIsEarned` | a score of 80 takes more signals inside than elsewhere, rounding included (`HealthIsEarned`) |
| `MovesToStronger` | "stronger" is a strict total order (`StrongerIsAnOrder`), so finitely many sightings have one strongest (`StrongestExists`), which more sightings can only outdo (`MoreFlows`) |

`GraphSampling_proofs` proves every safety property of the graphs, for any resources,
listings, requests and lengths of a call. The properties speak of what is drawn at the end,
long after the readings it is made of. What carries them there is the inductive invariant
`IInv`, checked by TLC before it was proved:

- `Types` and `Progress`: the variables, and how many samples there are wherever the call stands;
- `Rows`: a row has the name of its resource and a count, and the stamp of its sample;
- `Readings`: a counter never exceeds its traffic; of two readings of a resource the later
  `Follows` the earlier: with as many resets the counter has grown by the traffic, with more
  it is at most the traffic since. A reset needs all of this, because `counter` alone does
  not tell a reset from a device that was quiet;
- `Samples`: rows are in the order of their samples, and no resource is twice in one;
- `Stamps`: if the clock was never set back, the stamps of the rows do not decrease.

| Theorem | Argument, over `IInv` |
| --- | --- |
| `TypeCorrect` | `Types`, `Progress`, `Rows` |
| `NeverOverstates` | a point of a rate is the rate of a row (`RateSeriesAre`), made with a row of the same group before it; if a group is one resource, `Follows` bounds the difference (`Between`) |
| `Resume` | rows of a group are the readings of a resource (`SameGroup`) and their stamps are in order (`Ordered`), so the reading before is the `Previous`; the difference is not negative (`Between`) |
| `NothingIsHidden` | two rows of a group with one stamp cannot both have a rate, since the later needs time to have passed (`OneAtATime`), so stamps count the rows (`SameCount`); the last row of a bar is of the last sample (`Samples`) |

A field's value is that of the first name and spelling that are there, so, as in the
reconciliation, the minimum of a set of positions has to be shown to be one of them (`Least`,
`MinIsIn`).

`Scanner_proofs` proves both safety properties of the parser, for any programs, lines and
comments. What a recursive function gives for every text is an induction over its places. It
is done over sets: a set of numbers that has 0, and with each number the next, has all of them
(`Induction`), since else those it lacks would have a least one (`Least`). It shows first that
the recursive functions exist (`ScanIs`, `ItemsIs`), since TLA+ only chooses one if there is
one: there is one up to each place, or from each place on, as each step depends on one side
only. Then it needs two facts about texts:

- a part of a text that begins outside of strings is scanned as it is in the whole
  (`AfterPart`), has the depth that it adds to the whole (`DepthPart`), and of a line with a
  comment `_strip_comment` leaves what is before it (`CommentIsStripped`);
- what the parser takes for a value, a field or a list of items is `Level`: it ends outside of
  strings, at the depth it began at, and is nowhere below it (`ItemsClosed`, from the last
  place of the text to the first). So an operation is at depth 0 at its end and nowhere
  between its parenthesis and that end (`OperationBalances`).

The invariant `IInv`, checked by TLC before it was proved, says that what has been read is the
beginning of the program, cut into the operations, each of depth 0, and the statement so far,
and that `depth` is the depth of that beginning (`ReadSoFar`). It holds where no comment is
begun inside of a string (`Clean`), for to the code such a comment is part of the string. It
also says why something was refused (`Ended`).

| Theorem | Argument, over `IInv` |
| --- | --- |
| `ReadsAll` | at the end the statement so far is empty and the lines have ended, so the pieces are the whole program |
| `RefusedForDepth` | by `OperationBalances` a line that ends in no string leaves no negative depth, the depth is 0 only at the end of the program, and nothing is open there; so of the reasons in `Ended` one is left |

Assumptions: `ProgramsAssumption` and `CommentsAssumption` (outside of strings a program has
no `#`, with which each comment begins, and `End` is no symbol of a program), `ValuesAssumption` (a number, a text, a rate and nothing are different),
`SpellingsAssumption`, `RatesAssumption` (the two tables of counters and rates are each
other's inverse), `KeysAssumption` (a rate is found under its own name alone, a counter
and an interface under the field of the device's rows), `ResourcesAssumption` (a listing names
no resource twice, and a name is a text), `RequestsAssumption` (no graph is grouped by a rate
it draws), `IdsAssumption` (row ids differ from the words that stand for paths),
`FieldsAssumption`, `ExecutorAssumption`, `CollectorAssumption`, `UNMSAssumption`,
`CallsAssumption` (a URL has a server and a path, endpoints and ids are paths), `SegmentsAssumption`, `BlanksAssumption`, `PreflightAssumption` and `InventoriesAssumption` of both modules (URLs and
names of records are texts of the sets given; an inventory is a sequence of expected
attachments), `AddressKinds`, `FlowsBound`, `FlowsAssumption` (bytes and packets are counts, the
daemon says the direction itself, and inventory identifiers are no flow's) and
`CallersAssumption` (a scope is one of the eight; an envelope is finite), all evaluated by TLC in the runs.

Only model-checked: liveness (`EveryCallReturns`, `SocketDrains`, `CallReturns`), which is out
of the prover's reach. The three properties of the findings are refuted by their runs, and no
theorem is about them.

## Not modelled

Text of results, warnings and logs; the values of flow and device fields; TLS and
authentication; the vendored menus of `rosapi`. Grouped bars, titles, and timestamps that
are no numbers in the graphs; CIDR arithmetic and spellings of addresses in the flows; the
search for the inventory file, the case of words and the values of booleans and timeouts
among the targets; validation and construction of single operations. The airOS planner
produces plans that nothing executes: a table that is its own specification. The exporters,
the HTML page, the CLI and the mock client format or print finished data and are left out
for good.
