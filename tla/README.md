# A verification project for opennsl-server

This directory holds TLA+ models of opennsl-server, the TLC configurations that
check them on small instances, and machine-checked proofs (TLAPS) of what
matters most. The models are written from the code, file and line; `PROJECT.json` maps every
definition to the lines it stands for.

## 1. Inventory

The repository holds three programs that sit on a Broadcom switch, and a client.

| component | code | state it keeps | operations | talks to |
|---|---|---|---|---|
| Blocking queue | `queue.h` | `queue_`, `mutex_`, `cond_` | `push`, two `pop`s | SDK callback threads push; loop and gRPC handler threads pop |
| Link service | `link.cc`, `link.h` | `monitoring`, `th`, `reqs`, `mutex_`, global `q` | `Monitor`, `linkscan_handler`, `loop`, `handle_info`; pass-through RPCs | SDK callback -> `q` -> loop thread -> one gRPC stream per call |
| L2 service | `l2.cc`, `l2.h` | as the link service, with `info_q` in place of `q` | `Monitor`, `l2_addr_handler`, `loop`, `handle_info`; `AddAddress` and other pass-through RPCs | as the link service |
| Port, VLAN, stat services | `port.cc`, `vlan.cc`, `stat.cc` | none; the SDK holds the VLANs | one SDK call per RPC | SDK |
| Server, driver service | `server.cc` | none | register the services, wait; `Init` of the driver | SDK, gRPC |
| SAI adapter: VLANs | `ofdpa-sai/sai.c` | list of VLANs; per port `vlans`, `vid`, `disabled`, `neigh_db` | create/remove VLAN, VLAN member, host interface | OF-DPA tables; the packet receive thread reads `disabled`, `vid` and writes `neigh_db` and the bridging table |
| SAI adapter: L3 | `ofdpa-sai/sai.c` | per port/VLAN `router_if_oid`, `neighbors[]`, `num_neighbor`; `l3_unicast_idx` | create/remove router interface, neighbour, next hop, route | OF-DPA groups and flows; reads `vid` and `neigh_db` of the VLAN part, whose memberships reset `num_neighbor` |
| SAI adapter: ports | `ofdpa-sai/sai.c` | per port `index`, oids, `fd`; the notification callback | `create_port`, `set_port_attribute`, event thread, packet send thread | OF-DPA port events, the SAI client's callback, tap devices |
| SAI adapter: stubs | `ofdpa-sai/sai.c` | none | constant answers | - |
| OF-DPA agent application | `ofdpa/*.go` | `exists`, `l3idx` | table set-up, receive loop that learns hosts | OF-DPA, tap devices |
| Client | `client/*.go` | none; port bitmaps (`pbmp.go`) | one RPC per command | gRPC |

What is hard in each, and what makes it correct:

* **Queue.** `push` notifies *after* it released the mutex, and once per item. Correct
  when no item is lost, duplicated or reordered and no consumer sleeps beside
  an item.
* **Link (and L2) monitor.** Handler threads, loop threads, the SDK's thread
  and clients that leave at any time share a queue, a flag without a lock and
  a vector with one. The loop writes through a pointer to an object that
  lives on the stack of another thread's call. Correct when no writer is used after
  its call returned, every attached client gets every event once, in
  order, and the call of a client that left comes to its end.
* **SAI VLANs.** One call is up to ten requests to the agent; each can fail,
  and the call then returns half-way. The receive thread learns addresses
  into one of the tables at the same time, without a lock; the flag
  `disabled` is meant to keep it off. Correct when every sequence of legal calls
  comes back to exactly the tables that the memberships ask for, and when traffic
  and failures can do only limited harm.
* **SAI L3.** The calls that remove neighbours and next hops do nothing, but a VLAN membership empties the array of its port
  and leaves the elements in it, to be used again with their old object ids and groups; an answer of EXISTS counts
  as success, so an old flow survives; a next hop uses the port that *ever* learned
  an address and that port's access VLAN. Correct when a next hop and a flow lead to the
  station of their address.
* **SAI ports.** `create_port` reads the state of a port and calls back while the
  event thread reports changes. Correct when the last state the client hears is the true one.
* **Agent application.** The receive loop learns a host in several requests; the second frame
  of a host can arrive before the first one's flow is in place.
* **Bitmaps.** Pure functions on 256-bit sets and a small parser; boundaries of words, of ranges and of the bitmap.
* **Commands and server.** A command is one process, one RPC and one SDK call, and its exit status is
  all that its user learns. `L2ServiceImpl::info_q` is never assigned, so one `l2 monitor` can take the server down
  between the SDK call of another command and its answer. Correct when the SDK's VLANs are what the commands
  asked for, and a failed command has left nothing behind.

`PROJECT.json` lists each of these as a hazard at its line, with the properties
that would catch it going wrong, or why none does yet.

## 2. Plan

| step | modules | status |
|---|---|---|
| 1 | `Fifo` (abstract), `MsgQueue` (implements it), `MsgQueueProofs` | done |
| 2 | `LinkMonitor` (on top of `Fifo`, as `MsgQueue` implements it), `LinkMonitorProofs` | done, safety proved |
| 3 | `SaiVlan`, `SaiVlanProofs` | done, safety proved |
| 4 | `SaiL3`: router interfaces, neighbours, next hops, routes | done, all properties proved (`SaiL3Proofs`) |
| 5 | `OfdpaApp`: set-up order, the receive loop against repeated frames, restart | done, all properties proved (`OfdpaAppProofs`) |
| 6 | `PortNotify`: `create_port` and the event thread; which state the client hears last | done, safety proved (`PortNotifyProofs`) |
| 7 | `VlanApi`: what the VLAN calls promise (memberships change atomically; a port whose call failed is lost), which `SaiVlan` implements | done, refinement proved (`SaiVlanProofs`) |
| 8 | `Pbmp`: bitmaps and the parser against a reference definition | done, proved (`PbmpProofs`) |
| 9 | `Server`: client commands, handlers, SDK, death and restart of the process, on top of `Pbmp` | done, all properties proved (`ServerProofs`) |
| 10 | proofs of `SettledPortIsExact`, `LegalCallsSucceed`, `FailuresComeFromTraffic` and `ImplementsVlanApi` of `SaiVlan`, from one invariant | done |

`MsgQueue` composes with `LinkMonitor` through `Fifo`: `QueueImplementsFifo` proves
that the queue of `queue.h` is the abstract line, and `LinkMonitor` uses the line.
`SaiL3` has its own, coarser steps for what the code of `SaiVlan` does to the three fields it shares, `vid`, `neigh_db` and `num_neighbor`.
`Server` extends `Pbmp`: the arguments of its commands are texts that `ParsePBMP` reads, and the SDK's VLANs are the bitmaps it made of them.

## 3. The modules and the code

### Fifo, MsgQueue (`queue.h`)

`Fifo` is the promise: a line of items, each handed to one consumer, in order.
`MsgQueue` is the code. A thread's `pc` is where it stands between two points at which
another thread can run: wanting the mutex (`"lock"`), holding it (`"push"`,
`"test"`), between `mlock.unlock()` and `cond_.notify_one()` (`"notify"`), inside
`cond_.wait` (`"asleep"`). Two moves of the code are one step on purpose: the critical
section, and `cond_.wait`, which releases the mutex and falls asleep atomically. Spurious
wakeups are steps of their own. The two `pop`s of the header differ in how they
return the item and are one set of actions.

### LinkMonitor (`link.cc`, `link.h`)

One handler thread per `Monitor` call and one loop thread per call that found
`monitoring` false; a loop is named after the handler that started it. The handler's steps are
the lines of `Monitor` (`Check`, `Spawn`, `Register`, `SetMonitoring`, `Attach`, `Return`), the loop's are
`Pop`, `Lock`, one `Write` per request of the `for` loop, and `Replace`.
`monitoring` has no initial value in the code and starts with either; the
test and the assignment are separate steps, as nothing makes them one. `Attach` is one
step, since nothing else of the handler happens between `lock` and `unlock`; `Handler` needs `mutex_` free.
`Disconnect` is the client; after it every `Write` fails. The call returns, and with it
the writer dies, when its handler has popped its own queue (`wakes`).

### SaiVlan (`ofdpa-sai/sai.c`)

Two threads. The API thread (`pc`, `call`, `cursor`) runs one SAI call at a time;
one step of it is one request to the OF-DPA agent or one write of a field the
receive thread reads. Guards and order of the steps are those of
`sai_create_vlan`, `sai_remove_vlan`, `sai_create_vlan_member`,
`sai_remove_vlan_member` and `sai_create_hostif`. `Abort` is the early return that follows every
request that failed: nothing is undone, and `failures` records what failed and where. An answer
of EXISTS is success (`ofdpa_err2sai_status`). The receive thread (`rx`) tests `disabled`, reads
`vid` (and adds the address to the port's list), and adds the bridging flow, in three steps.
An L2 interface group is added by two requests, with nothing in between that another thread or the call could see; they are one step, `AddGroup`,
which can end with the group, without it, or with a group that has no bucket (`"empty"`).
`AgeOut` is the agent's idle timer.

The agent is not in the repository. Its tables are modelled from the calls of
`sai.c`: an add of a key that exists answers EXISTS and changes nothing, a delete of a
missing key fails. Where the calls do not settle the matter, a constant covers both
answers: `RefCheck` (it refuses references to missing groups, and the deletion of groups
still in use), `TablesMayFill` (any add can be refused).

What the model asks of the SAI client is in the guards of the calls, and in `VidsAssumption`:
one call at a time; a port gets its host interface before it gets members; at
most one untagged membership per port and one membership per VLAN; a VLAN is removed when no
member is left; VLAN ids keep off the ports' own 10, 11, ...; and, unless `UseFailedPorts`, a port
on which a call failed is not used again. `failures` is history, and names the object of each failed call: a port or a VLAN, which
have different names (`ObjectsAssumption`). Plain fields that two threads share (`disabled`, `vid`) are read
and written atomically in the model.

### VlanApi

The promise that `SaiVlan` is shown to keep: four variables, no tables, no steps, no receive thread. A port is in service
or not; `forwards[p]` is everything its tables say of it while it is (the VLAN of untagged frames, the
tags let in, the groups, the flood copies it gets, where sources are learned). A call takes the port out (`Interrupt`) and
puts it back with one membership more or less (`Join`, `Leave`), or loses it (`Lose`); no step changes how another port
forwards. The mapping in `SaiVlan` reads `forwards` off the agent's tables (`TablesOf`), `service` off the call in progress and
the failures (`Service`), the members off the adapter's list without the one being added (`SettledMembers`), and takes for a VLAN
one whose flood group and flow are both there. What is learned is not part of the promise: finding 1 is about that.

### SaiL3 (`ofdpa-sai/sai.c`)

The calls on router interfaces, neighbours, next hops and routes. A call is one step: the only other
thread writes `neigh_db`, and a call reads that once. The outcomes a call can have, by
the request that the agent refuses (`refused`), are part of its action, with
what each leaves behind. `neighbors[o]` is the whole array of a port or a VLAN and `num_neighbor[o]` how much of it is in use, `l3groups` the L3 unicast
groups in the order of `l3_unicast_idx`, `routing` the unicast routing table.
`rif`, `known`, `hop` and `want` are the client's knowledge, apart from the adapter's: they state the
contract of a SAI client (a neighbour is made on an interface, a next hop on a neighbour, and
they are taken down in the opposite order) and what the properties compare with.
`remove_neighbor_entry` and `remove_next_hop` do nothing in the code, so in the model they
change the client's side only, and groups stay for good. An array grows until `create_vlan_member`, tagged or not, sets the port's `num_neighbor` to 0
(`sai.c:646`); the client may do so while it has neighbours and next hops there, and `dropped` is history: which of its neighbours were taken out of the array in
this way. The elements stay, and `CreateNeighbor` writes the two addresses of an element and neither its `oid` nor its `gid`, as `sai.c:2637` does; the array of a VLAN
ends with the VLAN (`RecreateVlan`). `CreateMember`, `RemoveMember` and `Learn` are what the VLAN part does to the fields read here. A membership is
one step, since a call of this part cannot begin before it has ended, and its failure leaves those fields as its success does.
What the code does quietly is kept: a host route that is added
twice keeps its first group; a prefix that is not a /32 is never removed; a route
whose next hop is on a VLAN, is on a port that was given a membership since, or is not the last attribute, is a success without a flow; a route without a next hop looks for
the object id that an uninitialised local holds (`CreateRouteUnset`: any of those in use, or none), also one with the CPU port and no FORWARD, which then goes to the CPU if it finds anything. `CleanClient`
says that the client removes a flow before it asks for another one of the same prefix (it cannot for shorter prefixes, which
therefore get one flow for good).
Contract besides: an access membership does not move a port that has a live router interface, object ids are fresh,
the MAC address of a `VlanN` interface does not change.

### PortNotify (`ofdpa-sai/sai.c`)

Two threads that call the client back. `api` is the client's thread inside `sai_create_switch` or
`sai_create_port`; `evt` is `ofdpa_sai_event_recv_loop`. The steps of `create_port` are the store of the object id, the
request for the state, and the callback; those of the event thread are the return of
`ofdpaEventReceive`, `ofdpaPortEventNextGet`, the look at `port_oid`, and the callback. `After` and `AfterEvent` give
their order. A switch that was created without a function has no event thread. A `create_port` that fails to get the state keeps the object
id it stored, and the client does not count the port as its own. `sai_remove_port` does nothing, so a removed port is still
reported under its old id. The agent is external: an event for each change once the socket is bound, which may or
may not replace the last one still queued for that port (`IsLastOf`). `overtaken` is history: the ids for which the event thread called back
between `create_port`'s request and its callback, and has not since.

### OfdpaApp (`ofdpa/main.go`, `flow.go`, `group.go`)

One process against an agent that outlives it. The set-up is data: `VlanRequests` is the sequence of requests that `main`
makes for a VLAN, each the key of the entry that it adds (`PortsRequests` the six of each port; some VLAN has a port: those of `main` have two each); `NextVlan` takes any VLAN that is left (Go's map order), `Request` makes
the next request or dies. One turn of the loop is one step, `Receive`. Frames come from the agent (`Arrive`) and wait in the
socket, so that one can be sent before the flow that an earlier one leads to is there; the agent sends a frame for learning unless it has the station on that
port. `Kill` and `Start` end the process between two requests of the set-up or two turns of the loop, and start it
again. Taps are not persistent: their MAC addresses are those of the run.

### Pbmp (`client/pbmp.go`)

A word of a bitmap is the set of its bits that are 1, so `|=` is a union and `&` a test of membership; which word and which bit a
port has is computed as in the code, `uint32` included. A text is a sequence of what `ParsePBMP` looks at: a number (a maximal run
of digits), a comma, a dash, or another character. `Reading` is the state of the loop after each of them, `Read` one round of it,
and `AddAll` what `AddPort` does for the ports of a number or a range. The reference is `WellFormed` and `Named`: single ports and ranges `a-b` with `a < b`, between single
commas. The code accepts more (`-3` is 1 to 3, `1,-3` is 1 to 3, `1-` is 1, `1-3-4` adds 2 to 4 after 1 to 3); of such texts nothing is claimed.

### Server (`client/vlan.go`, `driver.go`, `l2.go`, `server.cc`, `vlan.cc`, `l2.cc`)

`cmd[c]` is the command at terminal `c`: `Launch` dials and sends (or fails at once when the process is down, or when the argument is
bad), a handler makes one SDK call and answers (`"served"`), the client ends with an `exit` status. `Outcome` has the one exception of
the code: `vlan destroy <vid>` declares `err` twice and never fails. `Disconnected` is the error of a call whose process died;
the SDK call may have been made by then. `L2Monitor` and `L2Register` are the handler of `l2 monitor`; `LoopPop` and `L2AddrHandler` use the
pointer that nothing assigned, which is undefined: the process dies, or the thread is stuck. Nothing is delivered either
way, so `handle_info` is not in the model. `Boot` starts the process again, with no driver, no VLANs and any value of `monitoring`.
`table` holds bitmaps, as the SDK gets them; `want` is history, kept in port numbers from what the arguments say.
The SDK is external: it refuses before `driver init`, what names a VLAN that is not there (or, for `create`, is), and
for reasons of its own; ports that are added again get the tagging of the last call.

The first section of each module named *Mutants* holds plausible bugs, one per
property; they are not part of `Next`.

## 4. The runs

| run | instance | checks | what it shows |
|---|---|---|---|
| `msg_queue` | 2 producers, 2 consumers, 2 pushes each | `TypeOK`, `NoLostWakeup`, `ImplementsFifo`, `PopReturns` | no wakeup is lost, the code implements `Fifo`, a `pop` returns while there are items |
| `link_monitor` | 2 calls, 3 events | `TypeOK`, `WriterAlive`, `NoDuplicates`, `OneLoopKeepsOrder`, `WaitersAreServed`, `EventsArrive`, `AbandonedCallReturns` | writers are not used after their call; no duplicates even with several loops; order with one loop; nobody waits without a loop and a handler unless `monitoring` happened to be true; events reach attached clients; the call of a client that left ends at the next event |
| `sai_vlan_quiet` | 3 ports, 2 VLANs, no frames, `RefCheck` | `TypeOK`, `LegalCallsSucceed`, `ImplementsVlanApi` | without traffic every legal sequence succeeds, and is a sequence of atomic changes of one port each |
| `sai_vlan_traffic` | 2 ports, 1 VLAN, 2 stations, 2 frames, `RefCheck` | `SettledPortIsExact`, `FailuresComeFromTraffic`, `AtMostOneStraggler`, `LearnedIsKnown`, `CallReturns` | what traffic and ageing can and cannot do to a call |
| `sai_vlan_full` | 2 ports, 2 VLANs, 1 station, 1 frame, tables may fill, no `RefCheck` | `FailedMemberCallDisables`, `ImplementsVlanApi` | a call that fails at any of its adds, or at the delete of an entry that aged out, costs its own port only, and leaves it disabled (deletes of entries that are there never fail in the model) |
| `sai_l3_hops` | 2 ports and 1 VLAN, a router interface on one port, whose memberships change; 2 host addresses, 2 stations, an array of 2 elements, 2 groups; group, bucket or flow refused | `TypeOK`, `HopsLeadToNeighbors`, `FlowsHaveBuckets`, `RouteFollowsRequest` | a failed call leaves no flow to a missing group or bucket; next hops and flows lead where the client last asked, although elements are used again with what was in them |
| `sai_l3_routers` | 2 ports, 1 VLAN, an interface on each, access VLANs that move; a neighbour of the VLAN that either port can learn; any of the adds refused (a removal fails only where its flow is missing) | `RouterFlowsExact`, `HopsLeadToNeighbors` | the flows are exactly those of the interfaces in use; the next hop of a VLAN leaves by a port that learned it |
| `port_notify` | 2 ports, 2 `create_port` calls, 3 changes, failures of the agent | `TypeOK`, `LastHeardIsTrue`, `ChangesAreHeard` | the client's last word on a port is its state, except after a report that was overtaken; lasting states are heard |
| `ofdpa_app` | 2 VLANs, 3 ports, 2 stations, 3 addresses (one of them the application's), 2 runs, 3 frames, 2 of them waiting | `TypeOK`, `FirstSetupSucceeds`, `RestartNeedsCleanAgent`, `LoopDiesOfRepeats`, `HostsLeadToFirstStation` | the set-up works on an empty agent and not on a used one; what ends the loop; where flows of hosts lead |
| `server` | 2 terminals, 1 VLAN, bitmaps of 2 words of 2 bits, all texts of up to 5 tokens, 2 starts of the process | `TypeOK`, `ParsedAsWritten`, `TableFollowsCommands`, `ListShowsCommands`, `OutcomeIsHonest` | arguments are read as written; the VLANs are what was asked for, word by word; the exit status tells what is left of a command |
| `sai_vlan_race` | as `sai_vlan_traffic`, smaller | `AccessFlowsRemoved` (violated) | finding 1 |
| `sai_vlan_retry` | 2 ports, 2 VLANs, failed ports are used again | `VidIsAccessVid` (violated) | finding 2 |

**Why the bounds are enough.** Queue: two consumers are needed for a woken
consumer to find its item taken, two producers for an overtaken notification, two
pushes for order within a producer; `TypeOK`, `NoLostWakeup` and the refinement are proved
for every size. Link: two calls give two loop threads at once, and a request
list in which one is dropped and the other stays; three events give one before, between and after two of the steps of the other loop (`TypeOK` and
`WriterAlive` are proved for any number).
VLANs: the memberships of a port interact only through `vid`, the untagged
flow and the groups of the two VLANs a call concerns, so two VLANs beside the ports' own
give every case of old and new VLAN (own to user, user to own, tagged beside untagged);
three ports fill a flood group up to its limit `MaxBuckets = 3` (two ports up to 2 in `sai_vlan_full`), and let the first free index be
reused; two stations let the flush loop pass over an entry and find another one behind it; two frames
allow one address to be learned before a call and another during it
(all but `CallReturns` is proved for any number of them, under the conditions that section 5 names). L3: two elements of one array give an
address that is made again behind its old element, and, after a membership, a neighbour that is written over another one's element while a next hop of it lives;
two groups give a neighbour a group after a refused one, and two neighbours a group each; one membership between two neighbours is enough for a stale `oid` and `gid`
(the removal of a next hop, of its neighbour and interface, and the making of another are within the bounds: section 6). Interfaces do not interact
with the neighbours of ports except through the client's contract, so they have a run of their own, with the neighbours of VLANs, whose egress a second port gives a choice.
`RifOwners`, `NeighborOwners`, `Movers` and `Learners` divide the actions between the two runs. Shorter prefixes (`Nets`) are left to the proofs, which hold for
any of them. Ports: two object ids give a second port or a port that is created again, three changes
give an event before, during and after a `create_port`. Agent application: two ports of one VLAN give a station that moves and a flood group with two buckets,
a second VLAN gives an order; three frames are two of one host or station and one of another, two in the queue the
repeat; two runs are a restart. Server: two words, with ports 1 and 3 one in each, give ranges that cross a word, 4 and 17 are the first port past the bitmap and one whose word number wraps
(`EntryMax = 8` in place of 2^32); five tokens give two items, or a range followed by a malformed one; the number of commands is not bounded; two terminals give a
command that is answered while another one runs or the process dies; `MaxBoots = 2` gives a restart and a death after it. With
one station and one frame in `sai_vlan_full` the combinations of failures stay in reach.

**Deadlock** is checked in `msg_queue`, `sai_vlan_quiet`, `server` and the two L3 runs. The other runs say
`CHECK_DEADLOCK FALSE` since the system may stop: when all calls returned or the
bounded events are used up (link), and when every port or VLAN has a failure on record and the
bounded frames are used up (VLANs), when the object ids and the changes are (ports), and when the process has died in its last run (agent application).

**Fairness.** `MsgQueue`: a thread inside `push` or `pop` that can run does; nobody has to call, spurious
wakeups need not happen, and the mutex is not assumed fair: `PopReturns` allows other consumers to
empty the queue. `LinkMonitor`: weak fairness for each handler past its first step and each
loop; events and disconnections need not happen, and a stream's `Write` returns (gRPC's `Write` to a
cancelled call fails rather than blocks). `SaiVlan`: the agent answers every request (the
RPCs of the OF-DPA client library return), so the call in progress goes on; nothing
is assumed of the client, the frames or the ageing. `PortNotify`: weak fairness for the call in
progress and for the event thread; the agent need not fail and ports need not change.

## 5. What is proved

All proofs hold for every value of the constants that satisfies the named `ASSUME`s, which say what the code's
own constants satisfy: names differ from each other, the lists of `main.go` name each port once, a bitmap has words and words have bits. Every safety
invariant and every refinement that a passing run checks is proved.

* `MsgQueueProofs`. `TypeCorrect`: types, and the mutex is held by exactly the thread
  between its lock and unlock. `WakeupsAreNotLost`: `NoLostWakeup` is inductive
  together with `TypeOK`; while someone sleeps, the length of the queue is at most the
  number of notifications to come plus the consumers awake inside `pop`. The proof counts these sets through each
  action; it needs the thread sets finite and disjoint. `QueueImplementsFifo`: every step maps to a step
  of `Fifo` or a stutter; the link is `QueueIsSuffix`, the queue is the end of the line of pushed items.
* `LinkMonitorProofs`. `TypeCorrect`: types and lock ownership. `WritersAreAlive`: `WriterAlive` is not inductive; the
  strengthening `RequestsAttached` says of each list that names requests (`reqs`, and what a loop has kept and has still to do)
  that its members are waiting handlers, without repetition and with no wake-up pending, so
  that a handler can only leave after the loop that wakes it has dropped it. It needs `TypeOK` for the mutex: only
  one loop is between reading and replacing `reqs`.
  `StreamsHaveNoDuplicates` needs `EventsOnce`: two busy loops never hold the same event, and no request that a loop has still
  to serve has its event already. `OrderIsKept`: with a single loop the event in hand is the newest one taken, hence later than all that
  was sent to the requests it has still to serve. `WaitersAreServedAlways`: from a `monitoring` that is false at first, whoever sets it has registered,
  and whoever registered was preceded by a loop.
* `SaiVlanProofs`. `TypeCorrect`: types of adapter and tables, and that the call fits its step.
  `LearnedAreKnown`: strengthened by the frame in flight, whose address is in the list of its port from `RxVid` on.
  `FailuresDisable`: for clients that leave failed ports alone; the strengthening says of a member call in progress
  that its port is disabled at every step from which it can fail, and that it did not fail before.
  `OneStragglerAtMost`: for a membership call past its flush, either at most one entry is left behind and no frame is
  in flight past the test, or none is left and at most one frame is in flight; the strengthening carries what the
  flush loop has removed behind its cursor. This is the quantitative form of finding 1: the race costs one entry, never more.
  The other four results rest on one invariant, `ExactInv`. `SettledPortIsExact` speaks of ports at rest, and no step of a call can be shown to lead there
  without knowing what the steps before it left in every table. So the invariant says, table by table, what is there of a port
  at every step of every call, as a function of the memberships and of `pc`: which VLAN has its flow, group or bucket still to come or gone already (`MissingFlow`, `PopVid`, `Keeps`, `MissingBucket`),
  whether the port is disabled and which `vid` it has. It says so of the ports on which no call failed; of VLANs, that those with members are flooded (`MembersInv`, `VlanInv`);
  of the call in progress, which membership it is about (`CallInv`). A step is first brought into a form that says what it does to each table (`Advance`, `GivesUp`, shown to cover
  all of `Work`), and then each table has its own proof (`ExactWorking`), since the seventeen steps times the six tables
  would be a proof of each pair. Other ports keep their tables as the keys of every group, flow and bucket hold the port (`UntouchedElsewhere`).
  `SettledPortIsAlwaysExact`: without any condition, also for clients that go on using failed ports, with tables that fill and frames that arrive.
  `FailuresAlwaysComeFromTraffic`: a step that deletes finds its entry by the invariant, and `addBucket` finds a free index by counting (`FreeBucket`): no port has two buckets of
  a group, and there are no more ports than indexes (`PortsFit`: `sai.c` has an array of `MAX_PORTS` ports, and tries as many indexes). Its other hypotheses, room in the tables and a client that gives failed ports
  up, are those of the run. `LegalCallsAlwaysSucceed`: without frames nothing is learned (`Quiet`), and the group that a call deletes has lost its bucket before, so nothing refers to it.
  `AdapterImplementsVlanApi`: by `ExactInv` a port in service forwards what its memberships say (`ForwardsIs`), so a step maps to `VlanApi` by what it does to `service` and to the members: the first step of a call
  interrupts its port, the last one brings it back (`ClientJoins`, `ClientLeaves`), a failure loses it, and every other step is a stutter. It holds for every value of the constants.
* `SaiL3Proofs`. `RouterFlowsAlwaysExact`: the keys of two interfaces never meet, and a creation that was refused half-way is repeated with the same keys.
  `FlowsAlwaysHaveBuckets` comes from `GroupsInv`: a group that an element, in use or not, or a flow names is there and has its bucket, so that a group that is added is nobody else's and a refused bucket is never named.
  `HopsAlwaysLead` cannot say of an element that its group is that of its address, which is false once the element was used again. `HopsInv` starts from the client's
  next hops instead: each leads to its neighbour (`HopsRight`), and no two have the same number (`HopsUnshared`); no element has an object id that is still to be given (`OidsNumbered`),
  and one that has the id of a next hop, in use or not, is on the same interface and has its group (`OidsOwned`); unless a membership took the neighbour out of the array, the element that is found for it
  has the id of its next hop (`HopsInUse`); and an element that is found for a neighbour has the address that the client gave (`NeighborsAsTold`).
  Every action keeps it, a lemma for each kind (`HopsKeptByNeighbor`, `HopsKeptByNextHop`, `HopsKeptByMember`, `HopsKeptByVlan`; `HopsFewer` for those that only take away).
  `RoutesAlwaysFollowRequests` follows from it: a route that finds a group finds that of the next hop it named (`HopFound`). It is stated, as the property is, for clients that remove a flow before they ask for another.
* `PortNotifyProofs`. `LastHeardIsTrue` speaks of moments at which both threads rest, and is far from inductive. `EventsAreNewest` says that the last event
  queued for a port, or else the one in the hands of the event thread, tells its state; `OidsAreUnique` that an object id names one port;
  `ReportsAreHeardOrComing` follows each piece of news on its way: what the client heard is true, or was overtaken, or more is coming.
* `OfdpaAppProofs`. The first part says what the script of a VLAN consists of and that no request occurs in it twice. `FirstSetupAlwaysSucceeds`: what
  is asked for is not in the tables, and what it refers to was asked for before (`SetupInv`). `RestartsNeedCleanAgent`: the group that an earlier run left is ahead in the
  script of this run (`BuilderInv`). `HostsAlwaysLeadToFirstStation` from the numbers in use and the buckets in place (`LoopInv`), `LoopAlwaysDiesOfRepeats` from the
  order of the socket: a first frame comes before every other frame of its station (`FreshInv`).
* `PbmpProofs`. `ParserIsRight`: `ParsePBMP` accepts every well-formed text, of any length, and its bitmap holds exactly the ports that the text names, for any width and
  number of words. The invariant of the loop (`GoodAfter`) says what the bitmap, `dash` and `fst` are after each token; it is carried over the text by the
  principle of the smallest counterexample, drawn from the well-foundedness of `<` on the naturals, since the library's induction theorems, which take a predicate
  as a parameter, cannot be used. The rest is arithmetic: a port has one word and one bit, and the other way round.
* `ServerProofs`. `CmdsInv` says of a command on its way what its words hold (from `ParserIsRight`) and what it may know of its outcome; `ServerInv` that the SDK's VLANs are the
  image of what was asked for. `TableAlwaysFollowsCommands` turns each change of words into one of ports. `ListAlwaysShowsCommands` does not follow from it alone: `vlan list`
  looks for untagged ports among the members only, so `ServerInv` adds that the untagged ports of a VLAN are members of it.
  `OutcomeIsAlwaysHonest` and `AlwaysParsedAsWritten` come from `CmdsInv`.

**Model-checked only**: `PopReturns`, `EventsArrive`, `AbandonedCallReturns`, `CallReturns` and `ChangesAreHeard`, which are liveness under fairness and out of this prover's
reach; and the two violated properties of section 6.
Of texts that are not well-formed only the type of what `ParsePBMP` makes of them is proved (`ParseTyped`).

## 6. Findings

1. `sai_vlan_race` (`sai.c:1281`). The receive thread tests `port->disabled`, then reads `vid`, then learns. A frame
   that passed the test before a call disabled the port is learned in the old VLAN after
   the flush, although the comment at `sai.c:649` says the existing flows are removed.
   The agent then either refuses to delete the group (the call fails, the port stays disabled) or leaves a
   flow that points to a deleted group.
2. `sai_vlan_retry` (`sai.c:638`). `create_vlan_member` sets `port->vid` first and does not set it back when a
   request fails. After a successful tagged membership re-enables the port, `vid`, the "current access
   vid" of `sai.c:136`, names a VLAN that was never programmed for it.

Nine more things the models show, of which the repository says nothing either way: a `create_port` whose report is
overtaken by an event leaves the client with the older state until the next change (`PortNotify`,
`overtaken`); a flow for a prefix that has one already is a success that changes nothing (`SaiL3`, `CleanClient`);
an element of `neighbors[]` can name the group of another neighbour: an interface on a port, a neighbour and its next hop, all of them taken down, a membership created and removed, the interface again with another
neighbour, which now has the first one's `oid` and `gid` (`SaiL3`, `CreateMember`; nothing the client holds leads there, which is what `HopsLeadToNeighbors` says);
a membership, a tagged one too, makes the next hops on its port unknown to `create_route_entry`, which answers success and adds no flow, and their neighbours unknown to `create_next_hop` (`dropped`);
a route without a next hop uses an uninitialised object id (`CreateRouteUnset`); the CPU port without FORWARD does not get its flow, unless that search happens to find something;
the Go application cannot be started a second time against the same agent (`OfdpaApp`, `RestartNeedsCleanAgent`), since it takes EXISTS for an error where `sai.c` does not;
`l2 monitor` never prints anything and can end the server (`Server`, `LoopPop`); a failed `vlan destroy <vid>` exits with success (`Server`, `Outcome`).

## 7. Not modelled

The send thread and the statistics of `sai.c` are left out: they copy frames and counters.
Of the Go application, `sendLoop` is left out, and an end of the process inside one turn of the loop.
Of the L2 service, `handle_info` cannot be reached (section 3, `Server`), and the address calls pass one call through. The stat service, the
rest of the port and VLAN services and of the commands, the stubs of `sai.c` and the generated code keep no state: one call, one answer, one line of output. Of `pbmp.go`, no command uses `Clear`, `SetPort`,
`RemovePort`, `FilpPort` and `String`. The words of the SDK's bitmap past those of a request (`port.cc:36`) are not initialised; whether there are any, a header says
that is not in the repository. Tag arithmetic of a received frame (`sai.c:1295`), a
failed `tap_alloc`, and clients that break the contract of section 3 are left out.
The SDK, gRPC and the OF-DPA agent are external and modelled by how this code uses them.
