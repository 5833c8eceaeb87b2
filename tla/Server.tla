------------------------------- MODULE Server -------------------------------
(***************************************************************************)
(* The server and its command line client: client/vlan.go, driver.go and   *)
(* l2.go (one process per command), server.cc, vlan.cc and l2.cc (one      *)
(* handler thread per call), and the SDK below them.                       *)
(*                                                                         *)
(* A command dials, reads its arguments, sends one request and ends with   *)
(* success or with log.Fatal.  The handler makes one SDK call and answers. *)
(* The process can die: L2ServiceImpl::Monitor hands info_q, a pointer     *)
(* that nothing ever assigns, to its loop thread and to the SDK's          *)
(* callback.  Somebody starts the process again; the SDK then begins with  *)
(* nothing, and refuses until "driver init".  The interleavings of several *)
(* Monitor calls are those of LinkMonitor; here the call counts for what   *)
(* it does to the process.  The SDK is outside the repository.             *)
(***************************************************************************)
EXTENDS Pbmp

CONSTANTS
  Clients,   \* terminals: each runs one command at a time
  Vids,      \* VLAN ids used in commands
  Texts,     \* arguments <ports> of commands
  MaxBoots   \* bound: starts of the server process

ASSUME ServerAssumption ==
  MaxBoots \in Nat \ {0} /\ Texts \subseteq Seq(Nat \union {Comma, Dash, Other})

VARIABLES
  boots, up,   \* starts of the server process; it runs
  driver,      \* opennsl_driver_init succeeded in this process
  table,       \* the SDK's VLANs: table[v] = [ports, ut], two bitmaps
  want,        \* history: want[v] = [ports, ut], the ports by their numbers
  monitoring,  \* the member of L2ServiceImpl; no constructor sets it
  loop,        \* a loop thread is at info_q->pop()
  registered,  \* the SDK calls l2_addr_handler
  cmd          \* cmd[c]: the command of c

sdk == <<driver, table, want>>
l2 == <<monitoring, loop, registered>>
vars == <<boots, up, sdk, l2, cmd>>

\* What the texts come to; a text that is not well-formed and is accepted all the
\* same names what the bitmap says.
Requests ==
  LET Request(t) == LET s == ParsePBMP(t) IN
        [verdict |-> s.verdict, pbmp |-> s.pbmp,
         named   |-> CASE WellFormed(t) -> Named(t)
                       [] ~WellFormed(t) /\ s.verdict = "ok" -> PortsIn(s.pbmp)
                       [] OTHER -> {}]
  IN {Request(t) : t \in Texts}

Put(f, k, x) == [j \in DOMAIN f \union {k} |-> IF j = k THEN x ELSE f[j]]
Drop(f, k) == [j \in DOMAIN f \ {k} |-> f[j]]
NoVlans == [v \in {} |-> 0]

Ops ==
  {"none", "init", "all", "list", "monitor", "create", "destroy", "add", "remove", "parse"}
NoCmd == [at |-> "idle", op |-> "none", vid |-> 0, pbmp |-> NewPBMP, ut |-> NewPBMP,
          named |-> {}, untagged |-> FALSE, answer |-> "none", exit |-> "none",
          done |-> FALSE, boot |-> 0, asked |-> TRUE]

Init ==
  /\ boots = 1 /\ up = TRUE
  /\ driver = FALSE /\ table = NoVlans /\ want = NoVlans
  /\ monitoring \in BOOLEAN /\ loop = FALSE /\ registered = FALSE
  /\ cmd = [c \in Clients |-> NoCmd]

-----------------------------------------------------------------------------
(* Mutants: operators of the code below with a plausible bug each.         *)

\* "tagged" and "untagged" are taken for each other.
UtPbmpSwapped(r, untagged) == IF untagged THEN NewPBMP ELSE r.pbmp

\* Every command declares err again in an inner block.
OutcomeShadowed(c) == "ok"

-----------------------------------------------------------------------------
(* The client.                                                             *)

\* connGrpc waits one second for the server; then the request is sent.
Launch(c, new) ==
  /\ cmd[c].at = "idle"
  /\ cmd' = [cmd EXCEPT ![c] =
       IF up THEN [new EXCEPT !.at = "sent", !.boot = boots]
             ELSE [NoCmd EXCEPT !.at = "exited", !.op = new.op, !.exit = "error"]]
  /\ UNCHANGED <<boots, up, sdk, l2>>

Simple(c, op) == Launch(c, [NoCmd EXCEPT !.op = op])
OfVlan(c, op, v) == Launch(c, [NoCmd EXCEPT !.op = op, !.vid = v])

\* vlan add <vid> <ports> [ untagged | tagged ]; vlan remove <vid> <ports>
UtPbmp(r, untagged) == IF untagged THEN r.pbmp ELSE NewPBMP

AddPorts(c, v, r, untagged) ==
  /\ r.verdict = "ok"
  /\ Launch(c, [NoCmd EXCEPT !.op = "add", !.vid = v, !.pbmp = r.pbmp,
                             !.ut = UtPbmp(r, untagged), !.named = r.named,
                             !.untagged = untagged])

RemovePorts(c, v, r) ==
  /\ r.verdict = "ok"
  /\ Launch(c, [NoCmd EXCEPT !.op = "remove", !.vid = v, !.pbmp = r.pbmp,
                             !.named = r.named])

\* ParsePBMP returned an error, or its index was out of range.
BadPorts(c, r) ==
  /\ r.verdict # "ok" /\ up
  /\ cmd[c].at = "idle"
  /\ cmd' = [cmd EXCEPT ![c] = [NoCmd EXCEPT !.at = "exited", !.op = "parse",
                                             !.named = r.named, !.exit = "error"]]
  /\ UNCHANGED <<boots, up, sdk, l2>>

\* The answer has come: the error of the RPC, but for "vlan destroy <vid>", whose err
\* is declared again in the inner block and tested in the outer one.
Outcome(c) == IF cmd[c].op = "destroy" \/ cmd[c].answer = "ok" THEN "ok" ELSE "error"

\* A command whose arguments are of no more use.
Spent(c) == [cmd[c] EXCEPT !.vid = 0, !.pbmp = NewPBMP, !.ut = NewPBMP, !.named = {},
                           !.untagged = FALSE]

Exit(c, outcome) ==
  cmd' = [cmd EXCEPT ![c] = [Spent(c) EXCEPT !.at = "exited", !.exit = outcome,
                                             !.answer = "none"]]

Answered(c) ==
  /\ cmd[c].at = "served"
  /\ Exit(c, Outcome(c))
  /\ UNCHANGED <<boots, up, sdk, l2>>

\* vlan list asks for the name of each port before it prints a VLAN.
NameFails(c) ==
  /\ cmd[c].at = "served" /\ cmd[c].op = "list"
  /\ Exit(c, "error")
  /\ UNCHANGED <<boots, up, sdk, l2>>

\* The process that had the request is gone, perhaps before its answer arrived.
Disconnected(c) ==
  /\ cmd[c].at \in {"sent", "register", "waiting", "served"}
  /\ ~up \/ cmd[c].boot < boots
  /\ Exit(c, IF cmd[c].op = "destroy" THEN "ok" ELSE "error")
  /\ UNCHANGED <<boots, up, sdk, l2>>

\* l2 monitor is ended from its terminal; its handler goes on waiting.
Interrupt(c) ==
  /\ cmd[c].at = "waiting"
  /\ Exit(c, "error")
  /\ UNCHANGED <<boots, up, sdk, l2>>

\* The terminal is free for another command.
Prompt(c) ==
  /\ cmd[c].at = "exited"
  /\ cmd' = [cmd EXCEPT ![c] = NoCmd]
  /\ UNCHANGED <<boots, up, sdk, l2>>

-----------------------------------------------------------------------------
(* The handlers, in the server: one call into the SDK and the answer.      *)

Handles(c, op) == up /\ cmd[c].boot = boots /\ cmd[c].at = "sent" /\ cmd[c].op = op
Answer(c, answer) ==
  cmd' = [cmd EXCEPT ![c] = [Spent(c) EXCEPT !.at = "served", !.answer = answer,
                                             !.done = answer = "ok"]]

\* The SDK refuses, for a reason of its own or one of those the guards below name.
Refused(c) ==
  /\ \E op \in Ops \ {"none", "parse", "monitor"} : Handles(c, op)
  /\ Answer(c, "error")
  /\ UNCHANGED <<boots, up, sdk, l2>>

\* DriverServiceImpl::Init; to be called again changes nothing.
DriverInit(c) ==
  /\ Handles(c, "init")
  /\ driver' = TRUE
  /\ Answer(c, "ok")
  /\ UNCHANGED <<boots, up, table, want, l2>>

\* One call of opennsl_vlan_*: the VLANs become T, and W by what was asked for.
VlanCall(c, T, W) ==
  /\ driver
  /\ table' = T
  /\ want' = W
  /\ Answer(c, "ok")
  /\ UNCHANGED <<boots, up, driver, l2>>

Create(c) ==
  LET v == cmd[c].vid IN
  /\ Handles(c, "create") /\ v \notin DOMAIN table
  /\ VlanCall(c, Put(table, v, [ports |-> NewPBMP, ut |-> NewPBMP]),
                 Put(want, v, [ports |-> {}, ut |-> {}]))

Destroy(c) ==
  LET v == cmd[c].vid IN
  /\ Handles(c, "destroy") /\ v \in DOMAIN table
  /\ VlanCall(c, Drop(table, v), Drop(want, v))

DestroyAll(c) ==
  /\ Handles(c, "all")
  /\ VlanCall(c, NoVlans, NoVlans)

Plus(p, q) == [w \in Words |-> p[w] \union q[w]]
Minus(p, q) == [w \in Words |-> p[w] \ q[w]]

\* A port that is added again gets the tagging of the last time.
PortAdd(c) ==
  LET k == cmd[c]  v == k.vid
      untagged == IF k.untagged THEN k.named ELSE {} IN
  /\ Handles(c, "add") /\ v \in DOMAIN table
  /\ VlanCall(c,
       Put(table, v, [ports |-> Plus(table[v].ports, k.pbmp),
                      ut |-> Plus(Minus(table[v].ut, k.pbmp), k.ut)]),
       Put(want, v, [ports |-> want[v].ports \union k.named,
                     ut |-> (want[v].ut \ k.named) \union untagged]))

PortRemove(c) ==
  LET k == cmd[c]  v == k.vid IN
  /\ Handles(c, "remove") /\ v \in DOMAIN table
  /\ VlanCall(c,
       Put(table, v, [ports |-> Minus(table[v].ports, k.pbmp),
                      ut |-> Minus(table[v].ut, k.pbmp)]),
       Put(want, v, [ports |-> want[v].ports \ k.named, ut |-> want[v].ut \ k.named]))

\* The loops of "vlan list" over Ports() of both bitmaps: the ports of a VLAN, and
\* those of them printed as untagged.
Shown(entry) ==
  [ports |-> Ports(entry.ports), ut |-> Ports(entry.ports) \intersect Ports(entry.ut)]

\* opennsl_vlan_list_destroy can still fail, after the answer is made: Refused.
List(c) ==
  /\ Handles(c, "list") /\ driver
  /\ cmd' = [cmd EXCEPT ![c].at = "served", ![c].answer = "ok",
                        ![c].asked = [v \in DOMAIN table |-> Shown(table[v])] = want]
  /\ UNCHANGED <<boots, up, sdk, l2>>

-----------------------------------------------------------------------------
(* L2ServiceImpl::Monitor, its loop thread and the SDK's callback.         *)

\* if ( !monitoring ) th = new std::thread(&L2ServiceImpl::loop, this);
L2Monitor(c) ==
  /\ Handles(c, "monitor")
  /\ cmd' = [cmd EXCEPT ![c].at = IF monitoring THEN "waiting" ELSE "register"]
  /\ loop' = (loop \/ ~monitoring)
  /\ UNCHANGED <<boots, up, sdk, monitoring, registered>>

\* opennsl_l2_addr_register(req->unit(), l2_addr_handler, info_q); monitoring = true;
L2Register(c) ==
  /\ up /\ cmd[c].boot = boots /\ cmd[c].at = "register"
  /\ \/ /\ driver
        /\ registered' = TRUE /\ monitoring' = TRUE
        /\ cmd' = [cmd EXCEPT ![c].at = "waiting"]
     \/ Answer(c, "error") /\ UNCHANGED <<monitoring, registered>>
  /\ UNCHANGED <<boots, up, sdk, loop>>

Die ==
  /\ up' = FALSE
  /\ driver' = FALSE /\ table' = NoVlans /\ want' = NoVlans
  /\ loop' = FALSE /\ registered' = FALSE
  /\ UNCHANGED <<boots, monitoring, cmd>>

\* info_q->pop() and q->push(i) through whatever the pointer holds: the process dies of
\* it, or the thread is stuck in what it takes for a mutex or an empty queue.
LoopPop ==
  /\ loop
  /\ \/ Die
     \/ loop' = FALSE /\ UNCHANGED <<boots, up, sdk, monitoring, registered, cmd>>

L2AddrHandler ==
  /\ registered
  /\ \/ Die
     \/ registered' = FALSE /\ UNCHANGED <<boots, up, sdk, monitoring, loop, cmd>>

\* The process is started again: main of server.cc.
Boot ==
  /\ ~up /\ boots < MaxBoots
  /\ up' = TRUE /\ boots' = boots + 1
  /\ monitoring' \in BOOLEAN
  /\ UNCHANGED <<sdk, loop, registered, cmd>>

-----------------------------------------------------------------------------
Command(c) ==
  \/ \E op \in {"init", "all", "list", "monitor"} : Simple(c, op)
  \/ \E op \in {"create", "destroy"}, v \in Vids : OfVlan(c, op, v)
  \/ \E v \in Vids, r \in Requests, untagged \in BOOLEAN : AddPorts(c, v, r, untagged)
  \/ \E v \in Vids, r \in Requests : RemovePorts(c, v, r)
  \/ \E r \in Requests : BadPorts(c, r)

Handler(c) ==
  \/ Refused(c) \/ DriverInit(c) \/ Create(c) \/ Destroy(c) \/ DestroyAll(c)
  \/ PortAdd(c) \/ PortRemove(c) \/ List(c) \/ L2Monitor(c) \/ L2Register(c)

End(c) == Answered(c) \/ NameFails(c) \/ Disconnected(c) \/ Interrupt(c) \/ Prompt(c)

Next ==
  \/ \E c \in Clients : Command(c) \/ Handler(c) \/ End(c)
  \/ LoopPop \/ L2AddrHandler \/ Boot

Spec == Init /\ [][Next]_vars

-----------------------------------------------------------------------------
(* Properties.                                                             *)

Stages == {"idle", "sent", "register", "waiting", "served", "exited"}
Numbers == [ports : SUBSET (0 .. PortMax - 1), ut : SUBSET (0 .. PortMax - 1)]
IsVlans(f, E) == DOMAIN f \subseteq Vids /\ \A v \in DOMAIN f : f[v] \in E

\* Every variable has its type; the SDK's VLANs and the threads of the L2 service
\* belong to a process that runs, and there are VLANs only once the driver is ready.
TypeOK ==
  /\ boots \in 1 .. MaxBoots /\ {up, driver, monitoring, loop, registered} \subseteq BOOLEAN
  /\ IsVlans(table, [ports : PBMPs, ut : PBMPs]) /\ IsVlans(want, Numbers)
  /\ (driver \/ loop \/ registered) => up
  /\ DOMAIN table # {} => driver
  /\ \A c \in Clients :
       /\ cmd[c].at \in Stages /\ cmd[c].op \in Ops
       /\ cmd[c].pbmp \in PBMPs /\ cmd[c].ut \in PBMPs
       /\ cmd[c].named \subseteq 0 .. PortMax - 1
       /\ cmd[c].boot <= boots /\ {cmd[c].done, cmd[c].asked} \subseteq BOOLEAN

\* A well-formed argument is accepted, and the words sent for it hold the ports it
\* names, those of its ranges included, and no others (pbmp.go:55-132).
ParsedAsWritten ==
  \A c \in Clients :
    /\ cmd[c].at = "sent" => PortsIn(cmd[c].pbmp) = cmd[c].named
    /\ cmd[c].op = "parse" => cmd[c].named = {}

\* The SDK's VLANs are what the commands say that it carried out, in the order in
\* which it did, port by port and tag by tag, whatever the other commands and the
\* death of the process did in between (vlan.go:46-144, vlan.cc:14-63, port.cc:35-42).
TableFollowsCommands ==
  /\ DOMAIN table = DOMAIN want
  /\ \A v \in DOMAIN table :
       [ports |-> PortsIn(table[v].ports), ut |-> PortsIn(table[v].ut)] = want[v]

\* What "vlan list" prints are the ports that were asked for up to the moment the SDK
\* answered, with the untagged ones marked (vlan.cc:95-116, vlan.go:146-185).
ListShowsCommands ==
  \A c \in Clients : cmd[c].exit = "ok" => cmd[c].asked

\* The exit status can be trusted by whoever runs the command again: success means
\* that the SDK did it, but for "vlan destroy <vid>" (vlan.go:75-81), and failure that
\* nothing is left of it, because the SDK refused or the process and its VLANs are gone.
OutcomeIsHonest ==
  \A c \in Clients : LET k == cmd[c] IN
    /\ k.exit = "ok" /\ k.op \notin {"destroy", "list"} => k.done
    /\ k.exit = "error" /\ k.done => k.boot < boots \/ ~up
=============================================================================
