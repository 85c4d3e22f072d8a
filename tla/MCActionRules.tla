--------------------------- MODULE MCActionRules ---------------------------
(* Instances of ActionRules for TLC. *)
EXTENDS ActionRules, TLC

CONSTANTS r1, r2, k1, k2, k3

\* Two rules; the first is requested under two spellings, tcp and TCP.
MCRuleOf == (k1 :> r1) @@ (k2 :> r2) @@ (k3 :> r1)

\* Keys and rules one to one.
MCPlainRuleOf == (k1 :> r1) @@ (k2 :> r2)
MCOneRuleOf == (k1 :> r1)

\* Patterns that match only the rule itself.
MCExact == [r \in Rule |-> {r}]
=============================================================================
