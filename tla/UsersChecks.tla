----------------------------- MODULE UsersChecks -----------------------------
(***************************************************************************)
(* The account databases: the users collector and the USERS checks over    *)
(* /etc/passwd, /etc/shadow and /etc/group.                                *)
(*                                                                         *)
(* A database is a sequence of lines.  A line is an entry, an import from a*)
(* directory service ("+" or "-", form "compat"), or is skipped; an entry  *)
(* that the parser cannot take apart is one in scan.garbled.  What a        *)
(* shadow entry's password field holds is abstracted to the three answers  *)
(* of AlgorithmFor.                                                        *)
(***************************************************************************)
EXTENDS Outcomes

PasswdPath   == "/etc/passwd"
ShadowPath   == "/etc/shadow"
GroupPath    == "/etc/group"
NSSwitchPath == "/etc/nsswitch.conf"

Databases == {PasswdPath, ShadowPath, GroupPath}

SystemUIDMax       == 999
MaxPasswordAgeDays == 365

Strong == {"sha512", "yescrypt", "gost-yescrypt", "scrypt", "bcrypt"}
Weak   == {"des", "md5", "sha256"}

NoDays == 0 - 99   \* stands for an aging field that is empty or no number

------------------------------------------------------------------------------
(* The collector.                                                          *)

ReadDatabase(host, scan, path) ==
  LET read == ReadFile(host, scan, path)
  IN CASE read = "denied"    -> "permission"
       [] read = "absent"    -> "not_collected"
       [] read = "irregular" -> "parse"
       [] read = "error"     -> "internal"
       [] read = "binary"    -> "parse"
       [] read = "present" /\ Truncated(host, scan, path) -> "truncated"
       [] OTHER -> ""

\* shadow(5) has no compat entries: such a line is one more entry, or malformed
ParseLines(host, scan, path) ==
  LET lines     == host.files[path]
      bad       == {n \in DOMAIN lines : <<path, n>> \in scan.garbled}
      compat    == {n \in DOMAIN lines \ bad : lines[n].form = "compat" /\ path # ShadowPath}
      entry(n)  == n \notin bad \cup compat /\ lines[n].form = "entry"
      pick      == {n \in DOMAIN lines : entry(n)}
  IN  [error |-> "", entries |-> [n \in pick |-> lines[n]], malformed |-> bad, compat |-> compat]

CollectDatabase(host, scan, path) ==
  LET kind == ReadDatabase(host, scan, path)
  IN  IF kind # "" THEN Missing(kind) ELSE ParseLines(host, scan, path)

\* a line names a database and the sequence of its sources
CollectNSSwitch(host, scan) ==
  LET read == ReadFile(host, scan, NSSwitchPath)
  IN  IF read = "present" /\ ~Truncated(host, scan, NSSwitchPath)
      THEN [error |-> "", state |-> "present", databases |-> host.files[NSSwitchPath]]
      ELSE [error |-> "", state |-> IF read \in {"absent", "denied"} THEN read ELSE "error"]

\* the first line for a database is the one that counts
LocalFilesAuthoritative(n, db) ==
  /\ n.state = "present"
  /\ \E k \in DOMAIN n.databases :
       /\ n.databases[k] = [db |-> db, sources |-> <<"files">>]
       /\ \A j \in 1..(k - 1) : n.databases[j].db # db

(* Passwd first; each of the others only if the context has not ended.     *)
CollectUsers(host, scan) ==
  LET within(n, f) == IF scan.reach >= n THEN f ELSE Missing("absent")
  IN  [passwd   |-> CollectDatabase(host, scan, PasswdPath),
       shadow   |-> within(1, CollectDatabase(host, scan, ShadowPath)),
       group    |-> within(2, CollectDatabase(host, scan, GroupPath)),
       nsswitch |-> within(3, CollectNSSwitch(host, scan))]

------------------------------------------------------------------------------
(* Accessors and shared helpers.  A database's entries are indexed by line.*)

With(db, F(_)) == {n \in DOMAIN db.entries : F(db.entries[n])}
Names(db, S)   == {db.entries[n].name : n \in S}

ByUID(p, uid) == With(p, LAMBDA e : e.uid = uid)
ByGID(g, gid) == With(g, LAMBDA e : e.gid = gid)

DuplicateUIDs(p)  == {e.uid : e \in {p.entries[n] : n \in {k \in DOMAIN p.entries :
                        Cardinality(ByUID(p, p.entries[k].uid)) > 1}}}
DuplicateGIDs(g)  == {e.gid : e \in {g.entries[n] : n \in {k \in DOMAIN g.entries :
                        Cardinality(ByGID(g, g.entries[k].gid)) > 1}}}
DuplicateNames(d) == {d.entries[n].name : n \in {k \in DOMAIN d.entries :
                        Cardinality(With(d, LAMBDA e : e.name = d.entries[k].name)) > 1}}

IsSystemAccount(e) == e.uid > 0 /\ e.uid <= SystemUIDMax
Authenticates(e)   == ~e.locked /\ ~e.empty /\ e.algorithm # ""

UnknownIfIncomplete(p, oc) ==
  IF oc.result = "PASS" /\ (p.compat # {} \/ p.malformed # {})
  THEN CannotTell(ReasonAmbiguousState, oc.subject) ELSE oc

UnknownIfShadowIncomplete(p, s, oc) ==
  IF oc.result = "PASS" /\ s.malformed # {} THEN CannotTell(ReasonParse, oc.subject)
  ELSE UnknownIfIncomplete(p, oc)

UnknownIfGroupIncomplete(g, oc) ==
  IF oc.result = "PASS" /\ (g.compat # {} \/ g.malformed # {})
  THEN CannotTell(IF g.malformed # {} THEN ReasonParse ELSE ReasonAmbiguousState, oc.subject)
  ELSE oc

------------------------------------------------------------------------------

USERS_0001(p) ==
  LET roots     == ByUID(p, 0)
      impostors == {n \in roots : p.entries[n].name # "root"}
  IN CASE roots = {}     -> CannotTell(ReasonAmbiguousState, {})
       [] impostors # {} -> Fails(Names(p, impostors))
       [] impostors = {} /\ Cardinality(roots) = 1 -> UnknownIfIncomplete(p, Passes)
       [] OTHER          -> Fails({"root"})

USERS_0002(p) ==
  LET system      == With(p, IsSystemAccount)
      interactive == {n \in system : p.entries[n].shell}
  IN CASE interactive # {} -> Fails(Names(p, interactive))
       [] system = {}      -> UnknownIfIncomplete(p, NotApplicable)
       [] OTHER            -> UnknownIfIncomplete(p, Passes)

USERS_0003(s, p) ==
  LET empty == With(s, LAMBDA e : e.empty)
  IN CASE empty # {}             -> Fails(Names(s, empty))
       [] DOMAIN s.entries = {} -> CannotTell(ReasonAmbiguousState, {})
       [] OTHER                  -> UnknownIfShadowIncomplete(p, s, Passes)

USERS_0004(s, p) ==
  LET hashed  == With(s, LAMBDA e : e.algorithm # "")
      weak    == With(s, LAMBDA e : e.algorithm \in Weak)
      unknown == {n \in hashed : s.entries[n].algorithm \notin Weak \cup Strong}
  IN CASE weak # {} -> Fails(Names(s, weak))
       [] weak = {} /\ unknown # {} -> CannotTell(ReasonAmbiguousState, Names(s, unknown))
       [] hashed = {} -> NotApplicable
       [] OTHER -> UnknownIfShadowIncomplete(p, s, Passes)

USERS_0005(p) ==
  LET shared == UNION {Names(p, ByUID(p, u)) : u \in DuplicateUIDs(p)}
      names  == DuplicateNames(p)
  IN  IF shared \cup names = {} THEN UnknownIfIncomplete(p, Passes) ELSE Fails(shared \cup names)

USERS_0006(p) ==
  IF p.compat = {} THEN UnknownIfIncomplete(p, Passes) ELSE Fails({PasswdPath})

(* root's account is the first entry of that name.                         *)
USERS_0007(p, g) ==
  LET rootGroups == ByGID(g, 0)
      named      == With(p, LAMBDA e : e.name = "root")
      root       == p.entries[CHOOSE n \in named : \A k \in named : n <= k]
      ordinary   == With(p, LAMBDA e : e.gid = 0 /\ e.name # "root" /\ e.uid # 0
                                         /\ ~IsSystemAccount(e))
      members    == (UNION {g.entries[n].members : n \in rootGroups}) \ {"root"}
      violators  == Names(p, ordinary) \cup members
  IN CASE rootGroups = {} -> CannotTell(ReasonAmbiguousState, {})
       [] rootGroups # {} /\ named = {} -> CannotTell(ReasonAmbiguousState, {})
       [] OTHER ->
            LET bad == violators \cup (IF root.gid # 0 THEN {"root"} ELSE {})
            IN  IF bad # {} THEN Fails(bad)
                ELSE UnknownIfIncomplete(p, UnknownIfGroupIncomplete(g, Passes))

USERS_0008(g) ==
  LET shared == UNION {Names(g, ByGID(g, i)) : i \in DuplicateGIDs(g)}
      names  == DuplicateNames(g)
  IN  IF shared \cup names = {} THEN UnknownIfGroupIncomplete(g, Passes)
      ELSE Fails(shared \cup names)

USERS_0009(s, p) ==
  LET accounts  == With(s, Authenticates)
      unbounded == {n \in accounts : \/ s.entries[n].maxDays = NoDays
                                     \/ s.entries[n].maxDays > MaxPasswordAgeDays}
  IN CASE accounts = {}  -> NotApplicable
       [] unbounded # {} -> Fails(Names(s, unbounded))
       [] OTHER          -> UnknownIfShadowIncomplete(p, s, Passes)

USERS_0010(s, p) ==
  LET accounts  == With(s, Authenticates)
      lockedOut == {n \in accounts : /\ s.entries[n].minDays # NoDays /\ s.entries[n].maxDays # NoDays
                                     /\ s.entries[n].minDays > s.entries[n].maxDays}
      noMinimum == {n \in accounts \ lockedOut : s.entries[n].minDays < 1}
  IN CASE accounts = {} -> NotApplicable
       [] lockedOut \cup noMinimum # {} -> Fails(Names(s, lockedOut \cup noMinimum))
       [] OTHER -> UnknownIfShadowIncomplete(p, s, Passes)

UsersVerdicts(u) ==
  LET P(oc)  == Require(u.passwd, oc)
      SP(oc) == Require(u.shadow, Require(u.passwd, oc))
  IN  [USERS_0001 |-> P(USERS_0001(u.passwd)),
       USERS_0002 |-> P(USERS_0002(u.passwd)),
       USERS_0003 |-> SP(USERS_0003(u.shadow, u.passwd)),
       USERS_0004 |-> SP(USERS_0004(u.shadow, u.passwd)),
       USERS_0005 |-> P(USERS_0005(u.passwd)),
       USERS_0006 |-> P(USERS_0006(u.passwd)),
       USERS_0007 |-> P(Require(u.group, USERS_0007(u.passwd, u.group))),
       USERS_0008 |-> Require(u.group, USERS_0008(u.group)),
       USERS_0009 |-> SP(USERS_0009(u.shadow, u.passwd)),
       USERS_0010 |-> SP(USERS_0010(u.shadow, u.passwd))]
==============================================================================
