---------------------------- MODULE ServerProofs ----------------------------
(***************************************************************************)
(* Proofs about the server and its client, for any number of terminals,    *)
(* VLANs, argument texts and starts of the process.  The invariant has two *)
(* parts.  CmdsInv says of every command what its request says (Consistent)*)
(* and what its exit may claim (Honest).  ServerInv says that the SDK's VLANs*)
(* are the image of what was asked for, that a port is untagged only in a VLAN*)
(* it is in ("vlan list" needs that), and that VLANs, loop and callback go *)
(* with the process.  A handler that changes a VLAN turns a change of words*)
(* into a change of ports: PlusPorts, MinusPorts, and for the text of the  *)
(* request ParserIsRight of PbmpProofs.                                    *)
(***************************************************************************)
EXTENDS Server, PbmpProofs

-----------------------------------------------------------------------------
(* The arguments of commands.                                              *)

LEMMA RequestsTyped ==
  ASSUME NEW r \in Requests
  PROVE  /\ r.verdict = "ok" => r.pbmp \in PBMPs /\ r.named = PortsIn(r.pbmp)
         /\ r.verdict # "ok" => r.named = {}
<1> DEFINE RequestOf(t) ==
             [verdict |-> ParsePBMP(t).verdict, pbmp |-> ParsePBMP(t).pbmp,
              named   |-> CASE WellFormed(t) -> Named(t)
                            [] ~WellFormed(t) /\ ParsePBMP(t).verdict = "ok" -> PortsIn(ParsePBMP(t).pbmp)
                            [] OTHER -> {}]
<1>1. PICK t \in Texts : r = RequestOf(t)
  BY DEF Requests
<1>2. t \in Seq(Tokens)
  BY ServerAssumption DEF Tokens
<1>3. ParsePBMP(t) \in States /\ ParsePBMP(t).pbmp \in PBMPs
  BY <1>2, ParseTyped DEF States
<1>4. r.verdict = ParsePBMP(t).verdict /\ r.pbmp = ParsePBMP(t).pbmp
  BY <1>1
<1>5. CASE WellFormed(t)
  <2>1. r.named = Named(t)
    BY <1>1, <1>5
  <2> QED
    BY <1>2, <1>3, <1>4, <1>5, <2>1, ParserIsRight
<1>6. CASE ~WellFormed(t) /\ ParsePBMP(t).verdict = "ok"
  <2>1. r.named = PortsIn(ParsePBMP(t).pbmp)
    BY <1>1, <1>6
  <2> QED
    BY <1>3, <1>4, <1>6, <2>1
<1>7. CASE ~WellFormed(t) /\ ParsePBMP(t).verdict # "ok"
  <2>1. r.named = {}
    BY <1>1, <1>7
  <2> QED
    BY <1>4, <1>7, <2>1
<1> QED
  BY <1>5, <1>6, <1>7

-----------------------------------------------------------------------------
(* The VLANs.                                                              *)

Entries == [ports : PBMPs, ut : PBMPs]
NumbersOf(e) == [ports |-> PortsIn(e.ports), ut |-> PortsIn(e.ut)]

\* The VLANs T are what was asked for, W; a port is untagged only in a VLAN that it is in.
Follows(T, W) ==
  /\ DOMAIN T \subseteq Vids
  /\ \A v \in DOMAIN T : T[v] \in Entries /\ PortsIn(T[v].ut) \subseteq PortsIn(T[v].ports)
  /\ W = [v \in DOMAIN T |-> NumbersOf(T[v])]

LEMMA NothingFollows == Follows(NoVlans, NoVlans)
  BY DEF Follows, NoVlans

LEMMA FollowsPut ==
  ASSUME NEW T, NEW W, Follows(T, W), NEW v \in Vids,
         NEW e \in Entries, PortsIn(e.ut) \subseteq PortsIn(e.ports), NEW x, x = NumbersOf(e)
  PROVE  Follows(Put(T, v, e), Put(W, v, x))
<1> DEFINE P == Put(T, v, e)
<1>1. DOMAIN P = DOMAIN T \union {v} /\ \A u \in DOMAIN P : P[u] = IF u = v THEN e ELSE T[u]
  BY DEF Put
<1>2. DOMAIN W = DOMAIN T /\ \A u \in DOMAIN T : W[u] = NumbersOf(T[u])
  BY DEF Follows
<1>3. Put(W, v, x) = [u \in DOMAIN P |-> NumbersOf(P[u])]
  BY <1>1, <1>2 DEF Put
<1> HIDE DEF P
<1> QED
  BY <1>1, <1>3 DEF Follows, P

LEMMA FollowsDrop ==
  ASSUME NEW T, NEW W, Follows(T, W), NEW v
  PROVE  Follows(Drop(T, v), Drop(W, v))
<1> DEFINE D == Drop(T, v)
<1>1. DOMAIN D = DOMAIN T \ {v} /\ \A u \in DOMAIN D : D[u] = T[u]
  BY DEF Drop
<1>2. DOMAIN W = DOMAIN T /\ \A u \in DOMAIN T : W[u] = NumbersOf(T[u])
  BY DEF Follows
<1>3. Drop(W, v) = [u \in DOMAIN D |-> NumbersOf(D[u])]
  BY <1>1, <1>2 DEF Drop
<1> HIDE DEF D
<1> QED
  BY <1>1, <1>3 DEF Follows, D

\* Words bit by bit, ports one by one.
LEMMA PlusPorts ==
  ASSUME NEW p \in PBMPs, NEW q \in PBMPs
  PROVE  Plus(p, q) \in PBMPs /\ PortsIn(Plus(p, q)) = PortsIn(p) \union PortsIn(q)
<1> DEFINE r == Plus(p, q)
<1>1. r \in PBMPs /\ \A w \in Words : r[w] = p[w] \union q[w]
  BY DEF Plus, PBMPs
<1> HIDE DEF r
<1>2. \A i \in 0 .. PortMax - 1 : i \in PortsIn(r) <=> i \in PortsIn(p) \/ i \in PortsIn(q)
  BY <1>1, PortIsMember, PortPlace
<1>3. PortsIn(r) = PortsIn(p) \union PortsIn(q)
  BY <1>1, <1>2, PortsInTyped
<1> QED
  BY <1>1, <1>3 DEF r

LEMMA MinusPorts ==
  ASSUME NEW p \in PBMPs, NEW q \in PBMPs
  PROVE  Minus(p, q) \in PBMPs /\ PortsIn(Minus(p, q)) = PortsIn(p) \ PortsIn(q)
<1> DEFINE r == Minus(p, q)
<1>1. r \in PBMPs /\ \A w \in Words : r[w] = p[w] \ q[w]
  BY DEF Minus, PBMPs
<1> HIDE DEF r
<1>2. \A i \in 0 .. PortMax - 1 : i \in PortsIn(r) <=> i \in PortsIn(p) /\ i \notin PortsIn(q)
  BY <1>1, PortIsMember, PortPlace
<1>3. PortsIn(r) = PortsIn(p) \ PortsIn(q)
  BY <1>1, <1>2, PortsInTyped
<1> QED
  BY <1>1, <1>3 DEF r

\* What "vlan list" prints of VLANs is what was asked for.
LEMMA ShownFollows ==
  ASSUME NEW T, NEW W, Follows(T, W)
  PROVE  [v \in DOMAIN T |-> Shown(T[v])] = W
<1>1. \A v \in DOMAIN T : Shown(T[v]) = NumbersOf(T[v])
  <2> TAKE v \in DOMAIN T
  <2>1. T[v].ports \in PBMPs /\ T[v].ut \in PBMPs /\ PortsIn(T[v].ut) \subseteq PortsIn(T[v].ports)
    BY DEF Follows, Entries
  <2>2. Ports(T[v].ports) = PortsIn(T[v].ports) /\ Ports(T[v].ut) = PortsIn(T[v].ut)
    BY <2>1, PortsOfTheClient
  <2>3. PortsIn(T[v].ports) \intersect PortsIn(T[v].ut) = PortsIn(T[v].ut)
    BY <2>1
  <2> QED
    BY <2>2, <2>3 DEF Shown, NumbersOf
<1> QED
  BY <1>1 DEF Follows

\* The SDK and the threads of the L2 service belong to a process that runs.
ServerInv ==
  /\ boots \in 1 .. MaxBoots
  /\ up \in BOOLEAN /\ driver \in BOOLEAN /\ monitoring \in BOOLEAN
  /\ loop \in BOOLEAN /\ registered \in BOOLEAN
  /\ driver \/ loop \/ registered => up
  /\ DOMAIN table # {} => driver
  /\ Follows(table, want)

-----------------------------------------------------------------------------
(* The commands.                                                           *)

Answers == {"none", "ok", "error"}
Commands == [at : Stages, op : Ops, vid : Vids \union {0}, pbmp : PBMPs, ut : PBMPs,
             named : SUBSET (0 .. PortMax - 1), untagged : BOOLEAN, answer : Answers,
             exit : Answers, done : BOOLEAN, boot : Nat, asked : BOOLEAN]

\* What a request says while it is on its way.
Consistent(k) ==
  /\ k.at = "sent" => k.named = PortsIn(k.pbmp) /\ k.ut = UtPbmp(k, k.untagged)
  /\ k.at = "sent" /\ k.op = "create" => k.vid \in Vids
  /\ k.op = "parse" => k.at = "exited" /\ k.named = {}
  /\ k.asked = TRUE

\* What a command knows of its request, in the b-th process of the server, which is up if u.
Honest(k, b, u) ==
  /\ k.boot <= b
  /\ k.at \in {"idle", "sent", "register", "waiting"} => k.done = FALSE /\ k.exit = "none"
  /\ k.at = "served" => /\ k.exit = "none"
                        /\ k.done = TRUE => k.answer = "ok"
                        /\ k.answer = "ok" /\ k.op # "list" => k.done = TRUE
                        /\ k.op = "list" => k.done = FALSE
  /\ k.at = "exited" => /\ k.exit = "ok" /\ k.op \notin {"destroy", "list"} => k.done = TRUE
                        /\ k.exit = "error" /\ k.done = TRUE => k.boot < b \/ u = FALSE

Good(k, b, u) == k \in Commands /\ Consistent(k) /\ Honest(k, b, u)

CmdsInv ==
  /\ boots \in Nat /\ up \in BOOLEAN
  /\ cmd \in [Clients -> Commands]
  /\ \A c \in Clients : Good(cmd[c], boots, up)

LEMMA NoCmdGood ==
  /\ NoCmd \in Commands
  /\ \A b \in Nat, u \in BOOLEAN : Good(NoCmd, b, u)
<1>1. NoCmd \in Commands
  BY NoPorts DEF NoCmd, Commands, Stages, Ops, Answers
<1>2. NoCmd.at = "idle" /\ NoCmd.op = "none" /\ NoCmd.done = FALSE /\ NoCmd.exit = "none"
      /\ NoCmd.boot = 0 /\ NoCmd.asked = TRUE
  BY DEF NoCmd
<1>3. ASSUME NEW b \in Nat, NEW u \in BOOLEAN PROVE Good(NoCmd, b, u)
  BY <1>1, <1>2 DEF Good, Consistent, Honest
<1> QED
  BY <1>1, <1>3

LEMMA CmdsInit == Init => CmdsInv
<1> SUFFICES ASSUME Init PROVE CmdsInv
  OBVIOUS
<1>1. boots = 1 /\ up = TRUE /\ cmd = [c \in Clients |-> NoCmd]
  BY DEF Init
<1>2. Good(NoCmd, boots, up)
  BY <1>1, NoCmdGood
<1> QED
  BY <1>1, <1>2, NoCmdGood DEF CmdsInv

\* One command changes.
LEMMA CmdChanges ==
  ASSUME CmdsInv, NEW c \in Clients, NEW k, Good(k, boots, up),
         cmd' = [cmd EXCEPT ![c] = k], boots' = boots, up' = up
  PROVE  CmdsInv'
<1>1. \A d \in Clients : cmd'[d] = IF d = c THEN k ELSE cmd[d]
  BY DEF CmdsInv
<1>2. cmd' \in [Clients -> Commands]
  BY DEF CmdsInv, Good
<1> QED
  BY <1>1, <1>2 DEF CmdsInv

\* A command that is launched.
LEMMA Launched ==
  ASSUME CmdsInv, NEW c \in Clients, NEW new \in Commands, Launch(c, new),
         new.done = FALSE, new.asked = TRUE, new.exit = "none", new.op # "parse",
         new.named = PortsIn(new.pbmp), new.ut = UtPbmp(new, new.untagged),
         new.op = "create" => new.vid \in Vids
  PROVE  CmdsInv'
<1>1. cmd[c].at = "idle" /\ boots' = boots /\ up' = up /\ boots \in Nat
  BY DEF Launch, CmdsInv
<1>2. CASE up
  <2> DEFINE k == [new EXCEPT !.at = "sent", !.boot = boots]
  <2>1. cmd' = [cmd EXCEPT ![c] = k]
    BY <1>2 DEF Launch
  <2>2. k \in Commands
    BY <1>1 DEF Commands, Stages
  <2>3. /\ k.at = "sent" /\ k.boot = boots /\ k.done = FALSE /\ k.exit = "none" /\ k.op = new.op
        /\ k.named = new.named /\ k.pbmp = new.pbmp /\ k.ut = new.ut /\ k.vid = new.vid
        /\ k.untagged = new.untagged /\ k.asked = TRUE
    BY DEF Commands
  <2> HIDE DEF k
  <2>4. Consistent(k)
    BY <2>3 DEF Consistent, UtPbmp
  <2>5. Honest(k, boots, up)
    BY <1>1, <2>3 DEF Honest
  <2> QED
    BY <1>1, <2>1, <2>2, <2>4, <2>5, CmdChanges DEF Good
<1>3. CASE ~up
  <2> DEFINE k == [NoCmd EXCEPT !.at = "exited", !.op = new.op, !.exit = "error"]
  <2>1. cmd' = [cmd EXCEPT ![c] = k]
    BY <1>3 DEF Launch
  <2>2. k \in Commands
    BY NoCmdGood DEF Commands, Stages, Answers
  <2>3. k.at = "exited" /\ k.exit = "error" /\ k.done = FALSE /\ k.boot = 0 /\ k.op = new.op /\ k.asked = TRUE
    BY DEF NoCmd
  <2> HIDE DEF k
  <2>4. Good(k, boots, up)
    BY <1>1, <2>2, <2>3 DEF Good, Consistent, Honest
  <2> QED
    BY <1>1, <2>1, <2>4, CmdChanges
<1> QED
  BY <1>2, <1>3

LEMMA CmdsCommand ==
  ASSUME CmdsInv, NEW c \in Clients, Command(c)
  PROVE  CmdsInv'
<1>1. ASSUME NEW op \in {"init", "all", "list", "monitor"}, Simple(c, op) PROVE CmdsInv'
  <2> DEFINE new == [NoCmd EXCEPT !.op = op]
  <2>1. new \in Commands
    BY NoCmdGood DEF Commands, Ops
  <2>2. new.done = FALSE /\ new.asked = TRUE /\ new.exit = "none" /\ new.op = op /\ new.named = {}
        /\ new.pbmp = NewPBMP /\ new.ut = NewPBMP
    BY DEF NoCmd
  <2>3. Launch(c, new)
    BY <1>1 DEF Simple
  <2> HIDE DEF new
  <2> QED
    BY <2>1, <2>2, <2>3, Launched, NoPorts DEF UtPbmp
<1>2. ASSUME NEW op \in {"create", "destroy"}, NEW v \in Vids, OfVlan(c, op, v) PROVE CmdsInv'
  <2> DEFINE new == [NoCmd EXCEPT !.op = op, !.vid = v]
  <2>1. new \in Commands
    BY NoCmdGood DEF Commands, Ops
  <2>2. new.done = FALSE /\ new.asked = TRUE /\ new.exit = "none" /\ new.op = op /\ new.named = {} /\ new.vid = v
        /\ new.pbmp = NewPBMP /\ new.ut = NewPBMP
    BY DEF NoCmd
  <2>3. Launch(c, new)
    BY <1>2 DEF OfVlan
  <2> HIDE DEF new
  <2> QED
    BY <2>1, <2>2, <2>3, Launched, NoPorts DEF UtPbmp
<1>3. ASSUME NEW v \in Vids, NEW r \in Requests, NEW untagged \in BOOLEAN,
             AddPorts(c, v, r, untagged)
      PROVE  CmdsInv'
  <2> DEFINE new == [NoCmd EXCEPT !.op = "add", !.vid = v, !.pbmp = r.pbmp,
                                  !.ut = UtPbmp(r, untagged), !.named = r.named,
                                  !.untagged = untagged]
  <2>1. r.pbmp \in PBMPs /\ r.named = PortsIn(r.pbmp) /\ r.named \subseteq 0 .. PortMax - 1
    BY <1>3, RequestsTyped, PortsInTyped DEF AddPorts
  <2>2. UtPbmp(r, untagged) \in PBMPs
    BY <2>1, NoPorts DEF UtPbmp
  <2>3. new \in Commands
    BY <2>1, <2>2, NoCmdGood DEF Commands, Ops
  <2>4. new.done = FALSE /\ new.asked = TRUE /\ new.exit = "none" /\ new.op = "add" /\ new.named = r.named /\ new.vid = v
        /\ new.pbmp = r.pbmp /\ new.ut = UtPbmp(r, untagged) /\ new.untagged = untagged
    BY DEF NoCmd
  <2>5. Launch(c, new)
    BY <1>3 DEF AddPorts
  <2> HIDE DEF new
  <2>6. new.ut = UtPbmp(new, new.untagged)
    BY <2>4 DEF UtPbmp
  <2> QED
    BY <2>1, <2>3, <2>4, <2>5, <2>6, Launched
<1>4. ASSUME NEW v \in Vids, NEW r \in Requests, RemovePorts(c, v, r) PROVE CmdsInv'
  <2> DEFINE new == [NoCmd EXCEPT !.op = "remove", !.vid = v, !.pbmp = r.pbmp, !.named = r.named]
  <2>1. r.pbmp \in PBMPs /\ r.named = PortsIn(r.pbmp) /\ r.named \subseteq 0 .. PortMax - 1
    BY <1>4, RequestsTyped, PortsInTyped DEF RemovePorts
  <2>2. new \in Commands
    BY <2>1, NoCmdGood DEF Commands, Ops
  <2>3. new.done = FALSE /\ new.asked = TRUE /\ new.exit = "none" /\ new.op = "remove" /\ new.named = r.named
        /\ new.vid = v /\ new.pbmp = r.pbmp /\ new.ut = NewPBMP /\ new.untagged = FALSE
    BY DEF NoCmd
  <2>4. Launch(c, new)
    BY <1>4 DEF RemovePorts
  <2> HIDE DEF new
  <2> QED
    BY <2>1, <2>2, <2>3, <2>4, Launched DEF UtPbmp
<1>5. ASSUME NEW r \in Requests, BadPorts(c, r) PROVE CmdsInv'
  <2> DEFINE k == [NoCmd EXCEPT !.at = "exited", !.op = "parse", !.named = r.named, !.exit = "error"]
  <2>1. r.named = {} /\ boots' = boots /\ up' = up /\ boots \in Nat
    BY <1>5, RequestsTyped DEF BadPorts, CmdsInv
  <2>2. k \in Commands
    BY <2>1, NoCmdGood DEF Commands, Ops, Stages, Answers
  <2>3. k.at = "exited" /\ k.exit = "error" /\ k.done = FALSE /\ k.boot = 0 /\ k.named = {} /\ k.asked = TRUE
    BY <2>1 DEF NoCmd
  <2>4. cmd' = [cmd EXCEPT ![c] = k]
    BY <1>5 DEF BadPorts
  <2> HIDE DEF k
  <2>5. Good(k, boots, up)
    BY <2>1, <2>2, <2>3 DEF Good, Consistent, Honest
  <2> QED
    BY <2>1, <2>4, <2>5, CmdChanges
<1> QED
  BY <1>1, <1>2, <1>3, <1>4, <1>5 DEF Command

\* A command that ends.
LEMMA Exits ==
  ASSUME CmdsInv, NEW c \in Clients, NEW outcome \in {"ok", "error"}, Exit(c, outcome),
         boots' = boots, up' = up,
         outcome = "ok" /\ cmd[c].op \notin {"destroy", "list"} => cmd[c].done = TRUE,
         outcome = "error" /\ cmd[c].done = TRUE => cmd[c].boot < boots \/ up = FALSE
  PROVE  CmdsInv'
<1> DEFINE k == [Spent(c) EXCEPT !.at = "exited", !.exit = outcome, !.answer = "none"]
<1>1. cmd' = [cmd EXCEPT ![c] = k]
  BY DEF Exit
<1>2. cmd[c] \in Commands /\ cmd[c].boot <= boots /\ boots \in Nat /\ cmd[c].asked = TRUE
  BY DEF CmdsInv, Good, Honest, Consistent
<1>3. k \in Commands
  BY <1>2, NoPorts DEF Spent, Commands, Stages, Answers
<1>4. k.at = "exited" /\ k.exit = outcome /\ k.op = cmd[c].op /\ k.done = cmd[c].done
      /\ k.boot = cmd[c].boot /\ k.named = {} /\ k.asked = cmd[c].asked
  BY <1>2 DEF Spent, Commands
<1> HIDE DEF k
<1>5. Good(k, boots, up)
  BY <1>2, <1>3, <1>4 DEF Good, Consistent, Honest
<1> QED
  BY <1>1, <1>5, CmdChanges

LEMMA CmdsEnd ==
  ASSUME CmdsInv, NEW c \in Clients, End(c)
  PROVE  CmdsInv'
<1>1. Good(cmd[c], boots, up) /\ cmd[c] \in Commands /\ up \in BOOLEAN /\ boots \in Nat
  BY DEF CmdsInv
<1>3. ASSUME Answered(c) PROVE CmdsInv'
  <2>1. Exit(c, Outcome(c)) /\ cmd[c].at = "served" /\ boots' = boots /\ up' = up
    BY <1>3 DEF Answered
  <2>2. /\ Outcome(c) \in {"ok", "error"}
        /\ Outcome(c) = "ok" => cmd[c].op = "destroy" \/ cmd[c].answer = "ok"
        /\ Outcome(c) = "error" => cmd[c].answer # "ok"
    BY DEF Outcome
  <2> QED
    BY <1>1, <2>1, <2>2, Exits DEF Good, Honest
<1>4. ASSUME NameFails(c) PROVE CmdsInv'
  <2>1. Exit(c, "error") /\ cmd[c].at = "served" /\ cmd[c].op = "list" /\ boots' = boots /\ up' = up
    BY <1>4 DEF NameFails
  <2> QED
    BY <1>1, <2>1, Exits DEF Good, Honest
<1>5. ASSUME Disconnected(c) PROVE CmdsInv'
  <2> DEFINE outcome == IF cmd[c].op = "destroy" THEN "ok" ELSE "error"
  <2>1. /\ Exit(c, outcome) /\ cmd[c].at \in {"sent", "register", "waiting", "served"}
        /\ (up = FALSE \/ cmd[c].boot < boots) /\ boots' = boots /\ up' = up
    BY <1>1, <1>5 DEF Disconnected
  <2>2. outcome \in {"ok", "error"} /\ (outcome = "ok" => cmd[c].op = "destroy")
    OBVIOUS
  <2> HIDE DEF outcome
  <2> QED
    BY <1>1, <2>1, <2>2, Exits
<1>6. ASSUME Interrupt(c) PROVE CmdsInv'
  <2>1. Exit(c, "error") /\ cmd[c].at = "waiting" /\ boots' = boots /\ up' = up
    BY <1>6 DEF Interrupt
  <2>2. cmd[c].done = FALSE
    BY <1>1, <2>1 DEF Good, Honest
  <2> QED
    BY <1>1, <2>1, <2>2, Exits
<1>7. ASSUME Prompt(c) PROVE CmdsInv'
  <2>1. cmd' = [cmd EXCEPT ![c] = NoCmd] /\ boots' = boots /\ up' = up
    BY <1>7 DEF Prompt
  <2> QED
    BY <1>1, <2>1, CmdChanges, NoCmdGood
<1> QED
  BY <1>3, <1>4, <1>5, <1>6, <1>7 DEF End

\* A handler that answers.
LEMMA HandlerAnswers ==
  ASSUME CmdsInv, NEW c \in Clients, NEW answer \in {"ok", "error"}, Answer(c, answer),
         cmd[c].at \in {"sent", "register"}, cmd[c].op # "list" \/ answer = "error",
         boots' = boots, up' = up
  PROVE  CmdsInv'
<1> DEFINE done == answer = "ok"
           k == [Spent(c) EXCEPT !.at = "served", !.answer = answer, !.done = done]
<1>1. cmd' = [cmd EXCEPT ![c] = k]
  BY DEF Answer
<1>2. cmd[c] \in Commands /\ Good(cmd[c], boots, up) /\ boots \in Nat
  BY DEF CmdsInv
<1>3. done \in BOOLEAN /\ (done = TRUE <=> answer = "ok") /\ (done = FALSE <=> answer = "error")
  OBVIOUS
<1> HIDE DEF done
<1>4. k \in Commands
  BY <1>2, <1>3, NoPorts DEF Spent, Commands, Stages, Answers
<1>5. k.at = "served" /\ k.op = cmd[c].op /\ k.done = done /\ k.answer = answer
      /\ k.boot = cmd[c].boot /\ k.exit = cmd[c].exit /\ k.asked = cmd[c].asked
  BY <1>2 DEF Spent, Commands
<1> HIDE DEF k
<1>6. k.exit = "none" /\ k.boot <= boots
  BY <1>2, <1>5 DEF Good, Honest
<1>7. Good(k, boots, up)
  BY <1>2, <1>3, <1>4, <1>5, <1>6 DEF Good, Consistent, Honest
<1> QED
  BY <1>1, <1>7, CmdChanges

LEMMA CmdsHandler ==
  ASSUME CmdsInv, ServerInv, NEW c \in Clients, Handler(c)
  PROVE  CmdsInv'
<1>1. /\ cmd[c] \in Commands /\ Good(cmd[c], boots, up) /\ boots \in Nat
      /\ cmd \in [Clients -> Commands]
  BY DEF CmdsInv
<1>2. ASSUME Refused(c) PROVE CmdsInv'
  BY <1>2, HandlerAnswers DEF Refused, Handles
<1>3. ASSUME NEW op \in Ops \ {"list"}, Handles(c, op), Answer(c, "ok"), boots' = boots, up' = up
      PROVE  CmdsInv'
  BY <1>3, HandlerAnswers DEF Handles
<1>4. ASSUME DriverInit(c) PROVE CmdsInv'
  BY <1>3, <1>4 DEF DriverInit, Ops
<1>5. ASSUME NEW op \in Ops \ {"list"}, NEW T, NEW W, Handles(c, op), VlanCall(c, T, W)
      PROVE  CmdsInv'
  BY <1>3, <1>5 DEF VlanCall
<1>6. ASSUME Create(c) \/ Destroy(c) \/ DestroyAll(c) \/ PortAdd(c) \/ PortRemove(c)
      PROVE  CmdsInv'
  BY <1>5, <1>6 DEF Create, Destroy, DestroyAll, PortAdd, PortRemove, Ops
<1>7. ASSUME List(c) PROVE CmdsInv'
  <2> DEFINE asked == [v \in DOMAIN table |-> Shown(table[v])] = want
             k == [cmd[c] EXCEPT !.at = "served", !.answer = "ok", !.asked = asked]
  <2>1. cmd[c].at = "sent" /\ cmd[c].op = "list" /\ boots' = boots /\ up' = up
    BY <1>7 DEF List, Handles
  <2>2. cmd' = [cmd EXCEPT ![c].at = "served", ![c].answer = "ok", ![c].asked = asked]
    BY <1>7, Zenon DEF List
  <2>3. asked = TRUE
    BY ShownFollows DEF ServerInv
  <2> HIDE DEF asked
  <2>4. cmd' = [cmd EXCEPT ![c] = k]
    BY <1>1, <2>2
  <2>5. k \in Commands
    BY <1>1, <2>3 DEF Commands, Stages, Answers
  <2>6. k.at = "served" /\ k.answer = "ok" /\ k.op = "list" /\ k.exit = cmd[c].exit
        /\ k.done = cmd[c].done /\ k.boot = cmd[c].boot /\ k.asked = TRUE
    BY <1>1, <2>1, <2>3 DEF Commands
  <2> HIDE DEF k
  <2>7. Good(k, boots, up)
    BY <1>1, <2>1, <2>5, <2>6 DEF Good, Consistent, Honest
  <2> QED
    BY <2>1, <2>4, <2>7, CmdChanges
\* A Monitor call goes on.
<1>8. ASSUME NEW at \in {"register", "waiting"}, cmd[c].at \in {"sent", "register"},
             cmd' = [cmd EXCEPT ![c].at = at], boots' = boots, up' = up
      PROVE  CmdsInv'
  <2> DEFINE k == [cmd[c] EXCEPT !.at = at]
  <2>1. cmd' = [cmd EXCEPT ![c] = k]
    BY <1>1, <1>8
  <2>2. k \in Commands
    BY <1>1 DEF Commands, Stages
  <2>3. k.at = at /\ k.op = cmd[c].op /\ k.exit = cmd[c].exit /\ k.done = cmd[c].done
        /\ k.boot = cmd[c].boot /\ k.asked = cmd[c].asked
    BY <1>1 DEF Commands
  <2> HIDE DEF k
  <2>4. k.exit = "none" /\ k.done = FALSE /\ k.boot <= boots /\ k.op # "parse"
    BY <1>1, <1>8, <2>3 DEF Good, Honest, Consistent
  <2>5. Good(k, boots, up)
    BY <1>1, <2>2, <2>3, <2>4 DEF Good, Consistent, Honest
  <2> QED
    BY <1>8, <2>1, <2>5, CmdChanges
<1>9. ASSUME L2Monitor(c) PROVE CmdsInv'
  <2> DEFINE at == IF monitoring THEN "waiting" ELSE "register"
  <2>1. at \in {"register", "waiting"}
    OBVIOUS
  <2>2. cmd' = [cmd EXCEPT ![c].at = at] /\ cmd[c].at = "sent" /\ boots' = boots /\ up' = up
    BY <1>9 DEF L2Monitor, Handles
  <2> HIDE DEF at
  <2> QED
    BY <1>8, <2>1, <2>2
<1>10. ASSUME L2Register(c) PROVE CmdsInv'
  <2>1. cmd[c].at = "register" /\ boots' = boots /\ up' = up
        /\ (cmd' = [cmd EXCEPT ![c].at = "waiting"] \/ Answer(c, "error"))
    BY <1>10 DEF L2Register
  <2> QED
    BY <1>8, <2>1, HandlerAnswers
<1> QED
  BY <1>2, <1>4, <1>6, <1>7, <1>9, <1>10 DEF Handler

LEMMA CmdsStep == CmdsInv /\ ServerInv /\ [Next]_vars => CmdsInv'
<1> SUFFICES ASSUME CmdsInv, ServerInv, [Next]_vars PROVE CmdsInv'
  OBVIOUS
\* The process dies or is started.
<1>1. ASSUME cmd' = cmd, \/ up' = FALSE /\ boots' = boots
                         \/ up' = TRUE /\ up = FALSE /\ boots' = boots + 1
                         \/ up' = up /\ boots' = boots
      PROVE  CmdsInv'
  <2>1. boots \in Nat /\ up \in BOOLEAN
    BY DEF CmdsInv
  <2>2. boots' \in Nat /\ up' \in BOOLEAN
    <3>1. CASE up' = FALSE /\ boots' = boots
      BY <2>1, <3>1
    <3>2. CASE up' = TRUE /\ up = FALSE /\ boots' = boots + 1
      BY <2>1, <3>2
    <3>3. CASE up' = up /\ boots' = boots
      BY <2>1, <3>3
    <3> QED
      BY <1>1, <3>1, <3>2, <3>3
  <2>3. ASSUME NEW c \in Clients PROVE Good(cmd[c], boots', up')
    <3>1. Good(cmd[c], boots, up) /\ cmd[c].boot \in Nat
      BY DEF CmdsInv, Good, Commands
    <3> QED
      BY <1>1, <2>1, <2>2, <3>1 DEF Good, Honest
  <2> QED
    BY <1>1, <2>2, <2>3 DEF CmdsInv
<1>2. ASSUME LoopPop \/ L2AddrHandler PROVE CmdsInv'
  BY <1>1, <1>2 DEF LoopPop, L2AddrHandler, Die
<1>3. ASSUME Boot PROVE CmdsInv'
  BY <1>1, <1>3 DEF Boot, CmdsInv
<1>4. ASSUME UNCHANGED vars PROVE CmdsInv'
  BY <1>1, <1>4 DEF vars
<1> QED
  BY <1>2, <1>3, <1>4, CmdsCommand, CmdsHandler, CmdsEnd DEF Next

LEMMA ServerInit == Init => ServerInv
<1> SUFFICES ASSUME Init PROVE ServerInv
  OBVIOUS
<1>1. /\ boots = 1 /\ up = TRUE /\ driver = FALSE /\ table = NoVlans /\ want = NoVlans
      /\ monitoring \in BOOLEAN /\ loop = FALSE /\ registered = FALSE
  BY DEF Init
<1>2. boots \in 1 .. MaxBoots
  BY <1>1, ServerAssumption
<1>3. DOMAIN table = {}
  BY <1>1 DEF NoVlans
<1>4. Follows(table, want)
  BY <1>1, NothingFollows
<1> QED
  BY <1>1, <1>2, <1>3, <1>4 DEF ServerInv

\* An SDK call.
LEMMA Called ==
  ASSUME ServerInv, NEW c, NEW T, NEW W, VlanCall(c, T, W), Follows(T, W)
  PROVE  ServerInv'
<1>1. /\ table' = T /\ want' = W /\ driver /\ driver' = driver /\ boots' = boots /\ up' = up
      /\ monitoring' = monitoring /\ loop' = loop /\ registered' = registered
  BY DEF VlanCall, l2
<1> QED
  BY <1>1 DEF ServerInv

LEMMA ServerHandler ==
  ASSUME CmdsInv, ServerInv, NEW c \in Clients, Handler(c)
  PROVE  ServerInv'
<1> DEFINE k == cmd[c]
           v == k.vid
           e == table[v]
<1>1. /\ k \in Commands /\ Consistent(k) /\ Follows(table, want)
  BY DEF CmdsInv, Good, ServerInv
<1>2. ASSUME Refused(c) \/ List(c) PROVE ServerInv'
  BY <1>2 DEF Refused, List, sdk, l2, ServerInv
<1>3. ASSUME DriverInit(c) PROVE ServerInv'
  BY <1>3 DEF DriverInit, Handles, l2, ServerInv
<1>4. ASSUME Create(c) PROVE ServerInv'
  <2> DEFINE new == [ports |-> NewPBMP, ut |-> NewPBMP]
             asked == [ports |-> {}, ut |-> {}]
  <2>1. v \in Vids
    BY <1>1, <1>4 DEF Create, Handles, Consistent
  <2>2. new \in Entries /\ PortsIn(new.ut) \subseteq PortsIn(new.ports) /\ asked = NumbersOf(new)
    BY NoPorts DEF Entries, NumbersOf
  <2>3. VlanCall(c, Put(table, v, new), Put(want, v, asked))
    BY <1>4 DEF Create
  <2> HIDE DEF new, asked, v
  <2> QED
    BY <1>1, <2>1, <2>2, <2>3, Called, FollowsPut
<1>5. ASSUME Destroy(c) PROVE ServerInv'
  BY <1>1, <1>5, Called, FollowsDrop DEF Destroy
<1>6. ASSUME DestroyAll(c) PROVE ServerInv'
  BY <1>6, Called, NothingFollows DEF DestroyAll
\* Before a port is added or removed.
<1>7. ASSUME v \in DOMAIN table, k.at = "sent"
      PROVE  /\ v \in Vids /\ e \in Entries /\ e.ports \in PBMPs /\ e.ut \in PBMPs
             /\ PortsIn(e.ut) \subseteq PortsIn(e.ports) /\ want[v] = NumbersOf(e)
             /\ k.pbmp \in PBMPs /\ k.ut \in PBMPs /\ k.named = PortsIn(k.pbmp)
             /\ k.ut = IF k.untagged THEN k.pbmp ELSE NewPBMP
  BY <1>1, <1>7 DEF Follows, Entries, Commands, Consistent, UtPbmp
<1>8. ASSUME PortAdd(c) PROVE ServerInv'
  <2> DEFINE untagged == IF k.untagged THEN k.named ELSE {}
             new == [ports |-> Plus(e.ports, k.pbmp), ut |-> Plus(Minus(e.ut, k.pbmp), k.ut)]
             asked == [ports |-> want[v].ports \union k.named,
                       ut |-> (want[v].ut \ k.named) \union untagged]
  <2>1. v \in DOMAIN table /\ k.at = "sent"
    BY <1>8 DEF PortAdd, Handles
  <2>2. VlanCall(c, Put(table, v, new), Put(want, v, asked))
    BY <1>8 DEF PortAdd
  <2>3. Plus(e.ports, k.pbmp) \in PBMPs
        /\ PortsIn(Plus(e.ports, k.pbmp)) = PortsIn(e.ports) \union k.named
    BY <1>7, <2>1, PlusPorts
  <2>4. Minus(e.ut, k.pbmp) \in PBMPs /\ PortsIn(Minus(e.ut, k.pbmp)) = PortsIn(e.ut) \ k.named
    BY <1>7, <2>1, MinusPorts
  <2>5. Plus(Minus(e.ut, k.pbmp), k.ut) \in PBMPs
        /\ PortsIn(Plus(Minus(e.ut, k.pbmp), k.ut)) = (PortsIn(e.ut) \ k.named) \union PortsIn(k.ut)
    BY <1>7, <2>1, <2>4, PlusPorts
  <2>6. PortsIn(k.ut) = untagged
    BY <1>7, <2>1, NoPorts
  <2>7. want[v].ports = PortsIn(e.ports) /\ want[v].ut = PortsIn(e.ut)
    BY <1>7, <2>1 DEF NumbersOf
  <2>8. new \in Entries
    BY <2>3, <2>5 DEF Entries
  <2>9. asked = NumbersOf(new)
    BY <2>3, <2>5, <2>6, <2>7 DEF NumbersOf
  <2>10. PortsIn(new.ut) \subseteq PortsIn(new.ports)
    BY <1>7, <2>1, <2>3, <2>5, <2>6
  <2>11. v \in Vids
    BY <1>7, <2>1
  <2> HIDE DEF new, asked, v
  <2> QED
    BY <1>1, <2>2, <2>8, <2>9, <2>10, <2>11, Called, FollowsPut
<1>9. ASSUME PortRemove(c) PROVE ServerInv'
  <2> DEFINE new == [ports |-> Minus(e.ports, k.pbmp), ut |-> Minus(e.ut, k.pbmp)]
             asked == [ports |-> want[v].ports \ k.named, ut |-> want[v].ut \ k.named]
  <2>1. v \in DOMAIN table /\ k.at = "sent"
    BY <1>9 DEF PortRemove, Handles
  <2>2. VlanCall(c, Put(table, v, new), Put(want, v, asked))
    BY <1>9 DEF PortRemove
  <2>3. Minus(e.ports, k.pbmp) \in PBMPs
        /\ PortsIn(Minus(e.ports, k.pbmp)) = PortsIn(e.ports) \ k.named
    BY <1>7, <2>1, MinusPorts
  <2>4. Minus(e.ut, k.pbmp) \in PBMPs /\ PortsIn(Minus(e.ut, k.pbmp)) = PortsIn(e.ut) \ k.named
    BY <1>7, <2>1, MinusPorts
  <2>5. want[v].ports = PortsIn(e.ports) /\ want[v].ut = PortsIn(e.ut)
    BY <1>7, <2>1 DEF NumbersOf
  <2>6. new \in Entries /\ asked = NumbersOf(new)
    BY <2>3, <2>4, <2>5 DEF Entries, NumbersOf
  <2>7. PortsIn(new.ut) \subseteq PortsIn(new.ports)
    BY <1>7, <2>1, <2>3, <2>4
  <2>8. v \in Vids
    BY <1>7, <2>1
  <2> HIDE DEF new, asked, v
  <2> QED
    BY <1>1, <2>2, <2>6, <2>7, <2>8, Called, FollowsPut
<1>10. ASSUME L2Monitor(c) PROVE ServerInv'
  BY <1>10 DEF L2Monitor, Handles, sdk, ServerInv
<1>11. ASSUME L2Register(c) PROVE ServerInv'
  BY <1>11 DEF L2Register, sdk, ServerInv
<1> QED
  BY <1>2, <1>3, <1>4, <1>5, <1>6, <1>8, <1>9, <1>10, <1>11 DEF Handler

LEMMA ServerStep == CmdsInv /\ ServerInv /\ [Next]_vars => ServerInv'
<1> SUFFICES ASSUME CmdsInv, ServerInv, [Next]_vars PROVE ServerInv'
  OBVIOUS
<1>1. ASSUME UNCHANGED <<boots, up, sdk, l2>> PROVE ServerInv'
  BY <1>1 DEF sdk, l2, ServerInv
<1>2. ASSUME NEW c \in Clients, Command(c) PROVE ServerInv'
  BY <1>1, <1>2 DEF Command, Simple, OfVlan, AddPorts, RemovePorts, BadPorts, Launch
<1>3. ASSUME NEW c \in Clients, End(c) PROVE ServerInv'
  BY <1>1, <1>3 DEF End, Answered, NameFails, Disconnected, Interrupt, Prompt
<1>4. ASSUME Die PROVE ServerInv'
  BY <1>4, NothingFollows DEF Die, ServerInv, NoVlans
<1>5. ASSUME LoopPop \/ L2AddrHandler PROVE ServerInv'
  BY <1>4, <1>5 DEF LoopPop, L2AddrHandler, sdk, ServerInv
<1>6. ASSUME Boot PROVE ServerInv'
  <2>1. boots' \in 1 .. MaxBoots
    BY <1>6, ServerAssumption DEF Boot, ServerInv
  <2> QED
    BY <1>6, <2>1 DEF Boot, sdk, ServerInv
<1>7. ASSUME UNCHANGED vars PROVE ServerInv'
  BY <1>1, <1>7 DEF vars
<1> QED
  BY <1>2, <1>3, <1>5, <1>6, <1>7, ServerHandler DEF Next

LEMMA InvAlways == Spec => [](CmdsInv /\ ServerInv)
  BY CmdsInit, ServerInit, CmdsStep, ServerStep, PTL DEF Spec

-----------------------------------------------------------------------------
(* Theorems.                                                               *)

\* Every variable has its type, and the SDK's VLANs and the threads of the L2 service
\* belong to a process that runs.
THEOREM TypeCorrect == Spec => []TypeOK
<1>1. CmdsInv /\ ServerInv => TypeOK
  <2> SUFFICES ASSUME CmdsInv, ServerInv PROVE TypeOK
    OBVIOUS
  <2>1. ASSUME NEW c \in Clients
        PROVE  /\ cmd[c].at \in Stages /\ cmd[c].op \in Ops
               /\ cmd[c].pbmp \in PBMPs /\ cmd[c].ut \in PBMPs
               /\ cmd[c].named \subseteq 0 .. PortMax - 1
               /\ cmd[c].boot <= boots /\ {cmd[c].done, cmd[c].asked} \subseteq BOOLEAN
    <3>1. cmd[c] \in Commands /\ cmd[c].boot <= boots
      BY DEF CmdsInv, Good, Honest
    <3> QED
      BY <3>1 DEF Commands
  <2>2. IsVlans(table, [ports : PBMPs, ut : PBMPs])
    BY DEF IsVlans, ServerInv, Follows, Entries
  <2>3. IsVlans(want, Numbers)
    <3>1. DOMAIN want = DOMAIN table /\ \A v \in DOMAIN table : want[v] = NumbersOf(table[v])
      BY DEF ServerInv, Follows
    <3>2. \A v \in DOMAIN table : NumbersOf(table[v]) \in Numbers
      BY <2>2, PortsInTyped DEF IsVlans, NumbersOf, Numbers
    <3> QED
      BY <2>2, <3>1, <3>2 DEF IsVlans
  <2>4. boots \in 1 .. MaxBoots /\ {up, driver, monitoring, loop, registered} \subseteq BOOLEAN
        /\ ((driver \/ loop \/ registered) => up) /\ (DOMAIN table # {} => driver)
    BY DEF ServerInv
  <2> QED
    BY <2>1, <2>2, <2>3, <2>4 DEF TypeOK
<1> QED
  BY <1>1, InvAlways, PTL

\* A well-formed argument of any length is accepted, and the words sent for it hold the
\* ports that it names and no others (pbmp.go:98-132).
THEOREM AlwaysParsedAsWritten == Spec => []ParsedAsWritten
<1>1. CmdsInv => ParsedAsWritten
  BY DEF CmdsInv, Good, Consistent, ParsedAsWritten
<1> QED
  BY <1>1, InvAlways, PTL

\* The exit status of a command can be trusted, with any number of commands at a time and
\* whenever the process dies: success means that the SDK did it, but for
\* "vlan destroy <vid>" (vlan.go:75-81), failure that nothing is left of it.
THEOREM OutcomeIsAlwaysHonest == Spec => []OutcomeIsHonest
<1>1. CmdsInv => OutcomeIsHonest
  <2> SUFFICES ASSUME CmdsInv, NEW c \in Clients
               PROVE  /\ cmd[c].exit = "ok" /\ cmd[c].op \notin {"destroy", "list"} => cmd[c].done
                      /\ cmd[c].exit = "error" /\ cmd[c].done => cmd[c].boot < boots \/ ~up
    BY Zenon DEF OutcomeIsHonest
  <2>1. Good(cmd[c], boots, up) /\ cmd[c].at \in Stages /\ cmd[c].done \in BOOLEAN /\ up \in BOOLEAN
    BY DEF CmdsInv, Good, Commands
  <2>2. /\ cmd[c].exit = "ok" /\ cmd[c].op \notin {"destroy", "list"} => cmd[c].done = TRUE
        /\ cmd[c].exit = "error" /\ cmd[c].done = TRUE => cmd[c].boot < boots \/ up = FALSE
    BY <2>1 DEF Good, Honest, Stages
  <2> QED
    BY <2>1, <2>2
<1> QED
  BY <1>1, InvAlways, PTL

\* The SDK's VLANs are what the commands said that it carried out, port by port and tag by
\* tag, for every argument text, any number of commands at a time and any deaths of the
\* process (vlan.go:46-144, vlan.cc:14-63, port.cc:35-42).
THEOREM TableAlwaysFollowsCommands == Spec => []TableFollowsCommands
<1>1. ServerInv => TableFollowsCommands
  BY DEF ServerInv, Follows, NumbersOf, TableFollowsCommands
<1> QED
  BY <1>1, InvAlways, PTL

\* What "vlan list" printed was what had been asked for when the SDK answered
\* (vlan.cc:95-116, vlan.go:146-185).
THEOREM ListAlwaysShowsCommands == Spec => []ListShowsCommands
<1>1. CmdsInv => ListShowsCommands
  BY DEF CmdsInv, Good, Consistent, ListShowsCommands
<1> QED
  BY <1>1, InvAlways, PTL
=============================================================================
