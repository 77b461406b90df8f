---------------------------- MODULE NetworkChecks ----------------------------
(***************************************************************************)
(* Host firewalls: the collector of the firewall configurations and the    *)
(* NETWORK checks over them.                                               *)
(*                                                                         *)
(* A line of a configuration is [says, word]: the "policy" of the input    *)
(* chain, whether a manager is "enabled", firewalld's default "zone", or   *)
(* something "other" (blank lines and comments are left out).  ufw states  *)
(* its policy in a second file.  Whether a read was cut short is not       *)
(* looked at.                                                              *)
(***************************************************************************)
EXTENDS Outcomes

CONSTANT Candidates   \* the sources in the order they are probed: [path, kind]

UFWDefaultPath == "/etc/default/ufw"

FirewallKinds == {"nftables", "iptables", "ufw", "firewalld"}
Manager(kind) == kind \in {"ufw", "firewalld"}

------------------------------------------------------------------------------

PolicyOf == [drop |-> "deny", reject |-> "deny", accept |-> "allow"]

\* the word of the first line that says it, or "" if none does
FirstWord(lines, says) ==
  LET at == {n \in DOMAIN lines : lines[n].says = says}
  IN  IF at = {} THEN "" ELSE lines[CHOOSE n \in at : \A k \in at : n <= k].word

Known(lines)   == SelectSeq(lines, LAMBDA l : l.word \in DOMAIN PolicyOf)
Policy(word)   == IF word \in DOMAIN PolicyOf THEN PolicyOf[word] ELSE ""

(* An unknown policy word is skipped in a ruleset; in /etc/default/ufw it  *)
(* ends the search.                                                        *)
ParsePolicy(kind, lines, defaults) ==
  CASE kind \in {"nftables", "iptables"} -> Policy(FirstWord(Known(lines), "policy"))
    [] kind = "ufw" -> Policy(FirstWord(defaults, "policy"))
    [] kind = "firewalld" ->
         LET zone == FirstWord(lines, "zone")
         IN  CASE zone = "" -> "" [] zone = "trusted" -> "allow" [] OTHER -> "deny"

ReadSource(host, scan, c) ==
  LET read == ReadFile(host, scan, c.path)
      base == [kind |-> c.kind, path |-> c.path, state |-> read]
      text == Text(host, scan, c.path)
      defaults == IF ReadFile(host, scan, UFWDefaultPath) = "present"
                  THEN Text(host, scan, UFWDefaultPath) ELSE << >>
  IN CASE read \in {"absent", "denied"} -> base
       [] read \in {"binary", "irregular", "error"} -> [base EXCEPT !.state = "error"]
       [] read = "present" ->
            [kind |-> c.kind, path |-> c.path, state |-> "present",
             statements |-> text # << >>, enabled |-> FirstWord(text, "enabled"),
             policy |-> ParsePolicy(c.kind, text, defaults)]

(* A scan that is cut short puts the sources it has got to.                *)
CollectFirewall(host, scan) ==
  LET probed == {n \in DOMAIN Candidates : n <= scan.reach}
  IN  [error |-> "", sources |-> {ReadSource(host, scan, Candidates[n]) : n \in probed}]

------------------------------------------------------------------------------

ActiveSource(s) ==
  /\ s.state = "present"
  /\ Manager(s.kind) => s.enabled # "no"
  /\ s.statements

Active(f)     == {s \in f.sources : ActiveSource(s)}
Kinds(f)      == {s.kind : s \in Active(f)}
Unreadable(f) == {s \in f.sources : s.state \in {"denied", "error"}}
Paths(S)      == {s.path : s \in S}

UnknownIfUnreadable(f, oc) ==
  IF Unreadable(f) = {} THEN oc
  ELSE CannotTell(IF \E s \in Unreadable(f) : s.state = "error"
                  THEN ReasonAmbiguousState ELSE ReasonPermission, oc.subject)

NETWORK_0001(f) ==
  IF Active(f) # {} THEN Passes ELSE UnknownIfUnreadable(f, Fails({"/etc/nftables.conf"}))

NETWORK_0002(f) ==
  LET allow        == {s \in Active(f) : s.policy = "allow"}
      undetermined == {s \in Active(f) : s.policy = ""}
  IN CASE Active(f) = {} -> UnknownIfUnreadable(f, NotApplicable)
       [] allow # {} -> Fails(Paths(allow))
       [] allow = {} /\ undetermined # {} -> CannotTell(ReasonParse, Paths(undetermined))
       [] OTHER -> Passes

NETWORK_0003(f) ==
  CASE Kinds(f) = {} -> UnknownIfUnreadable(f, NotApplicable)
    [] Cardinality(Kinds(f)) > 1 -> Fails(Paths(Active(f)))
    [] OTHER -> UnknownIfUnreadable(f, Passes)

NetworkVerdicts(f) ==
  [NETWORK_0001 |-> NETWORK_0001(f), NETWORK_0002 |-> NETWORK_0002(f),
   NETWORK_0003 |-> NETWORK_0003(f)]
==============================================================================
