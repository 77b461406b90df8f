------------------------------ MODULE LoginDefs ------------------------------
(***************************************************************************)
(* /etc/login.defs: how it is read, and which of several settings of one   *)
(* key is in force.  The contents are a sequence of [key, value] records,  *)
(* the lines a reader does not skip; whether the read was cut short is not *)
(* looked at.                                                              *)
(***************************************************************************)
EXTENDS Values

LoginDefsPath == "/etc/login.defs"

ReadLoginDefs(host, scan) ==
  LET read == ReadFile(host, scan, LoginDefsPath)
  IN CASE read = "present" -> [error |-> "", state |-> "present",
                               settings |-> Text(host, scan, LoginDefsPath)]
       [] read \in {"absent", "denied"} -> [error |-> "", state |-> read, settings |-> << >>]
       [] OTHER -> [error |-> "", state |-> "error", settings |-> << >>]

Sets(l, key) == {n \in DOMAIN l.settings : l.settings[n].key = key}

\* the first setting of a key is the one in force
Effective(l, key) == l.settings[CHOOSE n \in Sets(l, key) : \A k \in Sets(l, key) : n <= k].value

------------------------------------------------------------------------------

PassMinDaysKey == "PASS_MIN_DAYS"

USERS_0012(l) ==
  CASE l.state = "absent" -> NotApplicableFor({LoginDefsPath})
    [] l.state = "denied" -> CannotTell(ReasonPermission, {LoginDefsPath})
    [] l.state = "error"  -> CannotTell(ReasonParse, {LoginDefsPath})
    [] l.state = "present" /\ Sets(l, PassMinDaysKey) = {} -> Fails({PassMinDaysKey})
    [] OTHER ->
         LET days == Effective(l, PassMinDaysKey)
         IN CASE ~IsNumeral(days) -> CannotTell(ReasonParse, {PassMinDaysKey})
              [] IsNumeral(days) /\ Number(days) >= 1 -> PassesFor({PassMinDaysKey})
              [] OTHER -> Fails({PassMinDaysKey})
==============================================================================
