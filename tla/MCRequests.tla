----------------------------- MODULE MCRequests -----------------------------
(* A small feed for TLC: two sentinels and another address, two providers, *)
(* up to four entries.  Every threshold is missed, met and exceeded.       *)
EXTENDS Requests

MCIps == {"s1", "s2", "x"}
MCSentinels == {"s1", "s2"}
MCPolicies == {"fail", "ignore"}

Now(s) == [state |-> s, recent |-> TRUE]
Before(s) == [state |-> s, recent |-> FALSE]
Histories == {<<Now("on")>>, <<Before("on")>>, <<Before("off"), Now("on")>>,
              <<Before("on"), Now("off")>>, <<Now("on"), Now("none")>>}

E(ip, hero, p, changes) == [ip |-> ip, hero |-> hero, isp |-> p, changes |-> changes]
MCEntries ==
    {E(ip, TRUE, "p1", h) : ip \in MCIps \cup {"invalid"}, h \in Histories}
    \cup {E("x", TRUE, "p1", <<>>), E("x", TRUE, "p1", <<Now("odd")>>),
          E("s1", TRUE, "p2", <<Now("on")>>), E("x", FALSE, "p2", <<Now("on")>>),
          E("s2", TRUE, "none", <<Now("on")>>), E("none", TRUE, "p1", <<Now("odd")>>),
          E("none", TRUE, "none", <<Now("on")>>)}

NowOn(ips) == {e \in MCEntries : e.ip \in ips /\ e.isp = "p1" /\ e.changes = <<Now("on")>>}

Data(n) == UNION {[1 .. k -> MCEntries] : k \in 0 .. n}
MCPayloads ==
    [flag : {"absent"}, data : Data(2)]
    \cup [flag : {"absent"}, data : [1 .. 3 -> {e \in MCEntries : e.ip # "x" /\ Len(e.changes) = 1}]]
    \cup [flag : {"absent"}, data : [1 .. 3 -> NowOn(MCIps)] \cup [1 .. 4 -> NowOn(MCSentinels)]]
    \cup [flag : {"on", "off", "odd"}, data : Data(1)]
=============================================================================
