------------------------------ MODULE Traffic -------------------------------
(***************************************************************************)
(* The traffic managers of one node and one address family                 *)
(* (pkg/trafficmngr): flanneld cleans up after the manager it does not     *)
(* use, installs the masquerade and the forward rules with iptables or     *)
(* nftables, and for iptables keeps a goroutine per rule list that checks  *)
(* the rules and puts them back. Looking one rule up is a step, and so is  *)
(* a restore; other programs run between any two. The code of IPv4 and     *)
(* that of IPv6 differ in the command and the types they use, and in       *)
(* nothing modelled here.                                                  *)
(*                                                                         *)
(* External: the kernel's chains; programs that delete rules or flush a    *)
(* table; the mesh backend, which inserts a SNAT rule into flannel's       *)
(* chain. Addresses are zones, a rule matches sets of zones.               *)
(***************************************************************************)
EXTENDS Naturals, Sequences, FiniteSets

CONSTANTS
  Zones,        \* "out" and "mcast" among them
  Configs,      \* pairs of network and leased subnet, as sets of zones
  NFTables,     \* the values EnableNFTables may take
  Absent,       \* no such chain, table or subnet file
  MaxRestarts, MaxFaults

\* The leased subnet is a part of the network, and not all of it.
ASSUME TrafficAssumption ==
  /\ {"out", "mcast"} \subseteq Zones
  /\ \A c \in Configs : /\ c.sub \subseteq c.net /\ c.sub # c.net
                         /\ c.net \subseteq Zones \ {"out", "mcast"}
  /\ NFTables \subseteq BOOLEAN /\ MaxRestarts \in Nat /\ MaxFaults \in Nat

VARIABLES
  chain,     \* iptables: the rules of each chain
  nft,       \* nftables: the chains of flannel's table
  conf, enableNFT, prev,   \* configuration of this run, and subnet.env of the last one
  main,      \* where main is
  worker,    \* the set-up and then the resync goroutine of each rule list
  restarts, faults

vars == <<chain, nft, conf, enableNFT, prev, main, worker, restarts, faults>>

Post == "POSTROUTING"   Postrtg == "FLANNEL-POSTRTG"
Forward == "FORWARD"    Fwd == "FLANNEL-FWD"

Chains == {Post, Forward, Postrtg, Fwd}
TableOf(c) == IF c \in {Post, Postrtg} THEN "nat" ELSE "filter"
Own == {Postrtg, Fwd}

-----------------------------------------------------------------------------
\* Rules.

RuleType ==
  [chain : Chains, mark : BOOLEAN, src : SUBSET Zones, dst : SUBSET Zones,
   target : {"RETURN", "MASQUERADE", "SNAT", "ACCEPT", Postrtg, Fwd}]

\* A chain that is not there is none that holds rules.
ASSUME AbsentAssumption == Absent \notin Seq(RuleType)

Rule(c, mark, src, dst, target) ==
  [chain |-> c, mark |-> mark, src |-> src, dst |-> dst, target |-> target]

\* Mutant: the masquerade rule comes before the return for traffic to this node.
masqFirst(c) ==
  <<Rule(Post, FALSE, Zones, Zones, Postrtg),
    Rule(Postrtg, TRUE, Zones, Zones, "RETURN"),
    Rule(Postrtg, FALSE, c.sub, c.net, "RETURN"),
    Rule(Postrtg, FALSE, c.net, Zones \ {"mcast"}, "MASQUERADE"),
    Rule(Postrtg, FALSE, c.net, c.sub, "RETURN"),
    Rule(Postrtg, FALSE, Zones \ c.net, c.sub, "RETURN"),
    Rule(Postrtg, FALSE, Zones \ c.net, c.net, "MASQUERADE")>>

masqRules(c) ==
  <<Rule(Post, FALSE, Zones, Zones, Postrtg),
    Rule(Postrtg, TRUE, Zones, Zones, "RETURN"),
    Rule(Postrtg, FALSE, c.sub, c.net, "RETURN"),
    Rule(Postrtg, FALSE, c.net, c.sub, "RETURN"),
    Rule(Postrtg, FALSE, Zones \ c.net, c.sub, "RETURN"),
    Rule(Postrtg, FALSE, c.net, Zones \ {"mcast"}, "MASQUERADE"),
    Rule(Postrtg, FALSE, Zones \ c.net, c.net, "MASQUERADE")>>

forwardRules(c) ==
  <<Rule(Forward, FALSE, Zones, Zones, Fwd),
    Rule(Fwd, FALSE, c.net, Zones, "ACCEPT"),
    Rule(Fwd, FALSE, Zones, c.net, "ACCEPT")>>

\* nftables: the chain hooks into postrouting itself, and the fourth rule differs.
addMasqRules(c) ==
  <<Rule(Postrtg, TRUE, Zones, Zones, "RETURN"),
    Rule(Postrtg, FALSE, c.sub, c.net, "RETURN"),
    Rule(Postrtg, FALSE, c.net, c.sub, "RETURN"),
    Rule(Postrtg, FALSE, Zones \ c.sub, c.net, "RETURN"),
    Rule(Postrtg, FALSE, c.net, Zones \ {"mcast"}, "MASQUERADE"),
    Rule(Postrtg, FALSE, Zones \ c.net, c.net, "MASQUERADE")>>

\* Without a subnet file the previous network and subnet are read as 0.0.0.0/0.
prevConfig == IF prev = Absent THEN [net |-> Zones, sub |-> Zones] ELSE prev

RulesOf(w) ==
  IF w = "masq"
  THEN masqRules(IF worker[w].pc = "teardown" THEN prevConfig ELSE conf)
  ELSE forwardRules(conf)

ChainOf(w) == IF w = "masq" THEN Postrtg ELSE Fwd

-----------------------------------------------------------------------------
\* iptables calls.

Exists(r) == chain[r.chain] # Absent /\ \E i \in DOMAIN chain[r.chain] : chain[r.chain][i] = r

\* A rule of flannel's chain, or one that jumps there, needs the chain.
OwnChain(r) == IF r.chain \in Own THEN r.chain ELSE r.target

WithoutAt(s, i) == SubSeq(s, 1, i - 1) \o SubSeq(s, i + 1, Len(s))

\* ApplyWithoutFlush commits all lines or, if one of them fails, none.
Restorable(payload) ==
  \A i \in DOMAIN payload : /\ chain[payload[i].r.chain] # Absent
                            /\ payload[i].op = "-D" => Exists(payload[i].r)

\* The elements of s at the positions S, in their order.
Subsequence(s, S) ==
  [i \in 1 .. Cardinality(S) |-> s[CHOOSE k \in S : Cardinality({j \in S : j <= k}) = i]]

Deletes(payload, r) == \E i \in DOMAIN payload : payload[i] = [op |-> "-D", r |-> r]

Kept(c, payload) ==
  Subsequence(chain[c], {i \in DOMAIN chain[c] : ~Deletes(payload, chain[c][i])})

Appended(c, payload) ==
  Subsequence(payload, {i \in DOMAIN payload : payload[i].op = "-A" /\ payload[i].r.chain = c})

\* The chains after the lines of a payload, which names no rule in two places.
Restored(payload) ==
  [c \in DOMAIN chain |->
     IF chain[c] = Absent THEN Absent
     ELSE Kept(c, payload)
          \o [i \in DOMAIN Appended(c, payload) |-> Appended(c, payload)[i].r]]

-----------------------------------------------------------------------------
\* The workers. Frame of a step that only moves worker w.

Move(w, s) == worker' = [worker EXCEPT ![w] = s]
At(pc, i, payload) == [pc |-> pc, i |-> i, payload |-> payload]
Off == At("off", 1, <<>>)
Frame == UNCHANGED <<nft, conf, enableNFT, prev, restarts, faults>>

\* teardownIPTables: collect the deletion of each rule that exists.
TeardownRule(w) ==
  LET s == worker[w]  r == RulesOf(w)[s.i]
  IN  /\ s.pc = "teardown" /\ s.i <= Len(RulesOf(w))
      /\ Move(w, [s EXCEPT !.i = @ + 1,
                           !.payload = IF chain[OwnChain(r)] # Absent /\ Exists(r)
                                       THEN Append(@, [op |-> "-D", r |-> r]) ELSE @])
      /\ UNCHANGED <<chain, main>> /\ Frame

\* If the deletions cannot be applied, SetupAndEnsureMasqRules returns and main exits.
TeardownApply(w) ==
  /\ worker[w].pc = "teardown" /\ worker[w].i > Len(RulesOf(w))
  /\ IF Restorable(worker[w].payload)
     THEN Move(w, At("clear", 1, <<>>)) /\ chain' = Restored(worker[w].payload) /\ UNCHANGED main
     ELSE Move(w, Off) /\ main' = "exit" /\ UNCHANGED chain
  /\ Frame

\* CreateIP4Chain: create the chain or flush it.
CreateIP4Chain(w) ==
  /\ worker[w].pc = "clear"
  /\ chain' = [chain EXCEPT ![ChainOf(w)] = <<>>]
  /\ Move(w, At("build", 1, <<>>))
  /\ UNCHANGED main /\ Frame

\* Mutant: only the rules that are missing are appended.
appendOnly(w) ==
  LET s == worker[w]  r == RulesOf(w)[s.i]
  IN  /\ s.pc = "build" /\ s.i <= Len(RulesOf(w))
      /\ chain' = IF chain[OwnChain(r)] = Absent THEN [chain EXCEPT ![OwnChain(r)] = <<>>] ELSE chain
      /\ Move(w, [s EXCEPT !.i = @ + 1, !.payload =
                    IF Exists(r) THEN @ ELSE Append(@, [op |-> "-A", r |-> r])])
      /\ UNCHANGED main /\ Frame

\* Mutant: every rule is appended, none deleted.
appendAll(w) ==
  LET s == worker[w]  r == RulesOf(w)[s.i]
  IN  /\ s.pc = "build" /\ s.i <= Len(RulesOf(w))
      /\ chain' = IF chain[OwnChain(r)] = Absent THEN [chain EXCEPT ![OwnChain(r)] = <<>>] ELSE chain
      /\ Move(w, [s EXCEPT !.i = @ + 1, !.payload = Append(@, [op |-> "-A", r |-> r])])
      /\ UNCHANGED main /\ Frame

\* ipTablesCleanAndBuild: make the chain if it is missing, delete the rule if it
\* exists, and append it.
ipTablesCleanAndBuild(w) ==
  LET s == worker[w]  r == RulesOf(w)[s.i]
  IN  /\ s.pc = "build" /\ s.i <= Len(RulesOf(w))
      /\ chain' = IF chain[OwnChain(r)] = Absent THEN [chain EXCEPT ![OwnChain(r)] = <<>>] ELSE chain
      /\ Move(w, [s EXCEPT !.i = @ + 1, !.payload =
                    (IF Exists(r) THEN Append(@, [op |-> "-D", r |-> r]) ELSE @)
                      \o <<[op |-> "-A", r |-> r]>>])
      /\ UNCHANGED main /\ Frame

\* The restore; an error is logged, and the next check tries again. After the first
\* one main goes on.
ipTablesBootstrap(w) ==
  /\ worker[w].pc = "build" /\ worker[w].i > Len(RulesOf(w))
  /\ chain' = IF Restorable(worker[w].payload) THEN Restored(worker[w].payload) ELSE chain
  /\ Move(w, At("sleep", 1, <<>>))
  /\ main' = IF main = w THEN (IF w = "masq" THEN "forward" ELSE "file") ELSE main
  /\ Frame

\* The timer of the resync goroutine fires.
Resync(w) ==
  /\ worker[w].pc = "sleep"
  /\ Move(w, At("check", 1, <<>>))
  /\ UNCHANGED <<chain, main>> /\ Frame

\* ensureIPTables: rule after rule, until one is missing.
ensureIPTables(w) ==
  LET s == worker[w]
  IN  /\ s.pc = "check"
      /\ Move(w, IF s.i > Len(RulesOf(w)) THEN At("sleep", 1, <<>>)
                 ELSE IF chain[OwnChain(RulesOf(w)[s.i])] # Absent /\ Exists(RulesOf(w)[s.i])
                 THEN [s EXCEPT !.i = @ + 1]
                 ELSE At("build", 1, <<>>))
      /\ UNCHANGED <<chain, main>> /\ Frame

Worker(w) ==
  \/ TeardownRule(w) \/ TeardownApply(w) \/ CreateIP4Chain(w)
  \/ ipTablesCleanAndBuild(w) \/ ipTablesBootstrap(w) \/ ensureIPTables(w)

-----------------------------------------------------------------------------
\* main.

\* ClearAndDeleteChain: a chain something jumps to is emptied but cannot be deleted.
ClearAndDelete(c, from) ==
  IF chain[c] = Absent THEN chain
  ELSE [chain EXCEPT ![c] = IF \E i \in DOMAIN chain[from] : chain[from][i].target = c
                            THEN <<>> ELSE Absent]

\* CleanUp of the manager that is not used. iptables: both chains are looked for in the
\* table nat, where FLANNEL-FWD is not.
CleanUp ==
  /\ main = "cleanup"
  /\ IF enableNFT THEN chain' = ClearAndDelete(Postrtg, Post) /\ UNCHANGED nft
     ELSE nft' = Absent /\ UNCHANGED chain
  /\ main' = "init"
  /\ UNCHANGED <<conf, enableNFT, prev, worker, restarts, faults>>

\* Init of the manager in use: nftables adds its table.
InitManager ==
  /\ main = "init"
  /\ nft' = IF enableNFT /\ nft = Absent THEN [postrtg |-> Absent, forward |-> Absent] ELSE nft
  /\ main' = "setup"
  /\ UNCHANGED <<chain, conf, enableNFT, prev, worker, restarts, faults>>

\* SetupAndEnsureMasqRules of iptables: the rules of the previous configuration are
\* taken down if it was another one.
IptMasq ==
  /\ main = "setup" /\ ~enableNFT
  /\ Move("masq", At(IF prev = Absent \/ prev # conf THEN "teardown" ELSE "clear", 1, <<>>))
  /\ main' = "masq"
  /\ UNCHANGED chain /\ Frame

\* SetupAndEnsureForwardRules of iptables.
IptForward ==
  /\ main = "forward" /\ ~enableNFT /\ worker["forward"] = Off
  /\ Move("forward", At("clear", 1, <<>>))
  /\ UNCHANGED <<chain, main>> /\ Frame

\* nftables: one transaction for each chain, which flushes it first.
NftMasq ==
  /\ main = "setup" /\ enableNFT
  /\ nft' = [nft EXCEPT !.postrtg = addMasqRules(conf)]
  /\ main' = "forward"
  /\ UNCHANGED <<chain, conf, enableNFT, prev, worker, restarts, faults>>

NftForward ==
  /\ main = "forward" /\ enableNFT
  /\ nft' = [nft EXCEPT !.forward = Tail(forwardRules(conf))]
  /\ main' = "file"
  /\ UNCHANGED <<chain, conf, enableNFT, prev, worker, restarts, faults>>

\* HandleSubnetFile.
WriteFile ==
  /\ main = "file"
  /\ prev' = conf
  /\ main' = "run"
  /\ UNCHANGED <<chain, nft, conf, enableNFT, worker, restarts, faults>>

\* flanneld starts again, after a crash or an exit; only a crash is counted.
Start(c, e) ==
  /\ main = "exit" \/ restarts < MaxRestarts
  /\ restarts' = IF main = "exit" THEN restarts ELSE restarts + 1
  /\ conf' = c /\ enableNFT' = e
  /\ main' = "cleanup"
  /\ worker' = [w \in {"masq", "forward"} |-> Off]
  /\ UNCHANGED <<chain, nft, prev, faults>>

-----------------------------------------------------------------------------
\* Others.

DeleteRule(c, i) ==
  /\ faults < MaxFaults
  /\ chain[c] # Absent /\ i \in DOMAIN chain[c]
  /\ chain' = [chain EXCEPT ![c] = WithoutAt(@, i)]
  /\ faults' = faults + 1
  /\ UNCHANGED <<nft, conf, enableNFT, prev, main, worker, restarts>>

\* A firewall reload: the built-in chains of the table are emptied, the others deleted.
FlushTable(t) ==
  /\ faults < MaxFaults
  /\ chain' = [c \in DOMAIN chain |-> IF TableOf(c) # t THEN chain[c]
                                      ELSE IF c \in Own THEN Absent ELSE <<>>]
  /\ faults' = faults + 1
  /\ UNCHANGED <<nft, conf, enableNFT, prev, main, worker, restarts>>

\* ensureHostSNAT of the mesh backend: second in the chain, which must hold a rule.
hostSNATRule(c) == Rule(Postrtg, FALSE, {"out"}, c.net \ c.sub, "SNAT")

MeshSNAT ==
  /\ main = "run" /\ ~Exists(hostSNATRule(conf))
  /\ chain[Postrtg] \notin {Absent, <<>>}
  /\ chain' = [chain EXCEPT ![Postrtg] = <<Head(@), hostSNATRule(conf)>> \o Tail(@)]
  /\ UNCHANGED <<nft, conf, enableNFT, prev, main, worker, restarts, faults>>

Init ==
  /\ chain = [c \in Chains |-> IF c \in Own THEN Absent ELSE <<>>]
  /\ nft = Absent /\ prev = Absent
  /\ conf \in Configs /\ enableNFT \in NFTables
  /\ main = "cleanup"
  /\ worker = [w \in {"masq", "forward"} |-> Off]
  /\ restarts = 0 /\ faults = 0

MainStep == CleanUp \/ InitManager \/ IptMasq \/ IptForward \/ NftMasq \/ NftForward \/ WriteFile
Workers == \E w \in {"masq", "forward"} : Worker(w) \/ Resync(w)
Flannel == MainStep \/ Workers
Restart == \E c \in Configs, e \in NFTables : Start(c, e)
Others == (\E c \in DOMAIN chain : \E i \in 1 .. 8 : DeleteRule(c, i))
          \/ (\E t \in {"nat", "filter"} : FlushTable(t)) \/ MeshSNAT

Next == Flannel \/ Restart \/ Others

Spec == Init /\ [][Next]_vars

\* main and the goroutines go on, and a process that exited is started again.
FairSpec ==
  /\ Spec
  /\ WF_vars(MainStep) /\ WF_vars(main = "exit" /\ Restart)
  /\ WF_vars(Worker("masq") \/ Resync("masq"))
  /\ WF_vars(Worker("forward") \/ Resync("forward"))

-----------------------------------------------------------------------------
\* What the rules do to a packet.

Packets == [mark : BOOLEAN, src : Zones \ {"mcast"}, dst : Zones]

FirstMatch(rules, p) ==
  LET m == {i \in DOMAIN rules : /\ rules[i].mark => p.mark
                                 /\ p.src \in rules[i].src /\ p.dst \in rules[i].dst}
  IN  IF m = {} THEN "none" ELSE rules[CHOOSE i \in m : \A j \in m : i <= j].target

\* The target that ends the way through the postrouting chains.
Verdict(p) ==
  LET ipt == IF FirstMatch(chain[Post], p) = Postrtg /\ chain[Postrtg] # Absent
             THEN FirstMatch(chain[Postrtg], p) ELSE "none"
      nf == IF nft # Absent THEN IF nft.postrtg # Absent THEN FirstMatch(nft.postrtg, p)
                                 ELSE "none" ELSE "none"
  IN  IF ipt \in {"MASQUERADE", "SNAT"} THEN ipt ELSE nf

Accepted(p) ==
  \/ FirstMatch(chain[Forward], p) = Fwd /\ chain[Fwd] # Absent
       /\ FirstMatch(chain[Fwd], p) = "ACCEPT"
  \/ nft # Absent /\ nft.forward # Absent /\ FirstMatch(nft.forward, p) = "ACCEPT"

\* Traffic between a pod of this node and the overlay network.
Overlay == {p \in Packets : /\ p.src \in conf.net /\ p.dst \in conf.net
                            /\ p.src \in conf.sub \/ p.dst \in conf.sub}

Natted(p) == Verdict(p) \in {"MASQUERADE", "SNAT"}

\* However the goroutines' checks and restores interleave with each other and with what
\* other programs delete, no rule is ever in a chain twice: a second copy would survive
\* the -D of the next rebuild, in the wrong place.
NoDuplicates ==
  \A c \in DOMAIN chain : chain[c] # Absent =>
    \A i, j \in DOMAIN chain[c] : chain[c][i] = chain[c][j] => i = j

\* "This rule makes sure we don't NAT traffic within overlay network": no step of
\* flannel makes it so, in whatever state of the chains and from however old a view of
\* them its restore was built.
OverlayNotNatted ==
  [][Flannel => \A p \in Overlay : Natted(p)' => Natted(p)]_vars

\* When others have stopped meddling, the rules come to do what they are for: pods
\* reach the outside masqueraded and each other, and from outside, with their own
\* address; what kube-proxy marked is left alone; the host's SNAT for the mesh comes
\* first; and packets from and to the network are forwarded.
Settled ==
  \A p \in Packets :
    /\ p.src \in conf.net /\ p.dst = "out" /\ ~p.mark => Verdict(p) = "MASQUERADE"
    /\ p \in Overlay \/ (p.src = "out" /\ p.dst \in conf.sub) => ~Natted(p)
    /\ p.mark => Verdict(p) # "MASQUERADE"
    /\ ~enableNFT /\ Exists(hostSNATRule(conf)) /\ p.src = "out" /\ p.dst \in conf.net \ conf.sub
         => Verdict(p) = "SNAT" \/ p.mark
    /\ p.src \in conf.net \/ p.dst \in conf.net => Accepted(p)

Settles == <>[]Settled
=============================================================================
