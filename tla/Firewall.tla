------------------------------ MODULE Firewall ------------------------------
(***************************************************************************)
(* The host firewall as the action templates of conf_files/actions drive   *)
(* it.  fw[r] counts the instances of rule r, ready says whether the       *)
(* chain, table or zone that holds them exists.  Each operator is the      *)
(* effect of one command of a template, at the instant at which the        *)
(* firewall tool commits it.                                               *)
(***************************************************************************)
EXTENDS Integers

CONSTANTS
    Rule,       \* firewall rules: a source address, a protocol and a port
    Backend,    \* the template in use
    FoundBy,    \* FoundBy[r]: rules the pattern of r's check matches
    RemovedBy   \* RemovedBy[r]: rules the pattern of r's close matches

Backends == {"iptables", "nftables", "firewalld", "pf", "ipf", "ipfw"}

ASSUME FirewallAssumption ==
    /\ Backend \in Backends
    /\ FoundBy \in [Rule -> SUBSET Rule]
    /\ RemovedBy \in [Rule -> SUBSET Rule]
    /\ \A r \in Rule : r \in FoundBy[r] /\ r \in RemovedBy[r]

NoRules == [r \in Rule |-> 0]

\* A fault: check wants more than one instance.
CheckMissesOne(fw, ready, r) == ready /\ fw[r] > 1

\* check.  iptables -C and firewalld compare the rule itself; the others grep
\* a listing, where an address can be a part of another one.
CheckFinds(fw, ready, r) ==
    /\ ready
    /\ \E q \in IF Backend \in {"iptables", "firewalld"} THEN {r} ELSE FoundBy[r] :
          fw[q] > 0

\* open.  pfctl -f replaces the rules of the anchor, firewalld keeps a set,
\* the others append.
AfterOpen(fw, r) ==
    [q \in Rule |->
        IF q = r THEN IF Backend \in {"pf", "firewalld"} THEN 1 ELSE fw[q] + 1
                 ELSE IF Backend = "pf" THEN 0 ELSE fw[q]]

\* The rules a close command deletes: the rule itself, every rule whose comment
\* matches (nftables), or all (pf and ipf flush, ipfw uses one rule number).
ClosedBy(r) ==
    IF Backend \in {"iptables", "firewalld"} THEN {r}
    ELSE IF Backend = "nftables" THEN RemovedBy[r] ELSE Rule

\* close.  iptables -D deletes one instance, the others every one.
AfterClose(fw, r) ==
    [q \in Rule |->
        IF q \notin ClosedBy(r) THEN fw[q]
        ELSE IF Backend = "iptables" /\ fw[q] > 0 THEN fw[q] - 1 ELSE 0]

\* init.  Creating a chain or table that exists and enabling ipf keep the
\* rules; reloading firewalld drops the runtime rules; pf and ipfw flush.
AfterInit(fw) == IF Backend \in {"iptables", "nftables", "ipf"} THEN fw ELSE NoRules

\* shutdown.  iptables empties the chain, takes it out of INPUT and deletes it,
\* by three commands; nft and firewall-cmd remove the table or zone and its
\* rules at once; pf, ipf and ipfw flush the rules and could take new ones.
InParts   == Backend = "iptables"
ChainGoes == Backend \in {"nftables", "firewalld"}
=============================================================================
