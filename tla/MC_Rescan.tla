----------------------------- MODULE MC_Rescan -------------------------------
(* Small hosts for every family of checks.  A host is named by an index;   *)
(* the families' constants are cut down to what their hosts use.           *)
EXTENDS Remediation, TLC

Nothing == [p \in {} |-> << >>]

\* a function from some of the paths: those whose value is not "none"
Present(f) == [p \in {q \in DOMAIN f : f[q] # "none"} |-> f[p]]

------------------------------------------------------------------------------

MCDropInDirs == <<"/etc/cron.d", "/etc/cron.daily">>
CronDirs     == {"/etc/cron.d", "/etc/cron.daily"}

CronNode(kind, isDir) ==
  [isDir |-> isDir /\ kind # "file", isSymlink |-> kind = "link", rootOwned |-> kind # "foreign",
   writable |-> kind = "writable", readable |-> kind = "readable"]

CronHost(kinds) == [inodes |-> [p \in DOMAIN Present(kinds) |-> CronNode(kinds[p], p \in CronDirs)]]

CronHosts ==
  [i \in ({"none", "good", "writable", "link"} \X {"good"} \X {"good"} \X {"none", "good", "writable"}
            \X {"none", "good", "writable"})
           \cup ({"none", "good", "foreign"} \X {"none", "good", "writable", "readable", "file"}
                  \X {"none", "good", "writable", "foreign"} \X {"none"} \X {"none"})
           \cup {<<"none", "none", "none", "good", "none">>} |->
     CronHost([p \in CronDirs \cup {"/etc/crontab", "/etc/cron.allow", "/etc/cron.deny"} |->
                 CASE p = "/etc/crontab" -> i[1] [] p = "/etc/cron.d" -> i[2] [] p = "/etc/cron.daily" -> i[3]
                   [] p = "/etc/cron.allow" -> i[4] [] p = "/etc/cron.deny" -> i[5]])]

------------------------------------------------------------------------------

Account(name, uid, gid, shell) ==
  [form |-> "entry", name |-> name, uid |-> uid, gid |-> gid, shell |-> shell]
Secret(name, algorithm, min, max) ==
  [form |-> "entry", name |-> name, locked |-> algorithm = "", empty |-> FALSE,
   algorithm |-> algorithm, minDays |-> min, maxDays |-> max]
Blank(name) == [Secret(name, "", 1, 99) EXCEPT !.locked = FALSE, !.empty = TRUE]
Group(name, gid, members) == [form |-> "entry", name |-> name, gid |-> gid, members |-> members]
Compat == [form |-> "compat"]

Root == Account("root", 0, 0, TRUE)

PasswdFiles ==
  [sound    |-> <<Root, Account("ann", 1000, 1000, TRUE), Account("mail", 8, 8, FALSE)>>,
   rootOnly |-> <<Root>>,
   impostor |-> <<Root, Account("toor", 0, 0, TRUE)>>,
   twice    |-> <<Root, Root>>,
   moved    |-> <<Account("root", 0, 5, TRUE), Root>>,
   again    |-> <<Root, Account("root", 0, 5, TRUE)>>,
   shells   |-> <<Root, Account("mail", 8, 8, TRUE)>>,
   shared   |-> <<Root, Account("ann", 1000, 1000, TRUE), Account("bob", 1000, 0, TRUE)>>,
   imported |-> <<Root, Compat>>]
ShadowFiles ==
  [sound   |-> <<Secret("root", "sha512", 1, 99)>>,
   weak    |-> <<Secret("root", "sha512", 1, 99), Secret("ann", "md5", 0, 999)>>,
   odd     |-> <<Secret("root", "other", 9, 5)>>,
   locked  |-> <<Secret("root", "", 1, 99)>>,
   blank   |-> <<Secret("root", "sha512", 1, 99), Blank("ann")>>]
GroupFiles ==
  [sound  |-> <<Group("root", 0, {"root"}), Group("ann", 1000, {})>>,
   member |-> <<Group("root", 0, {"ann"})>>,
   shared |-> <<Group("root", 0, {}), Group("ann", 1000, {}), Group("ann", 1000, {})>>,
   noRoot |-> <<Group("ann", 1000, {})>>]

UserFiles(p, s, g, n) ==
  ("/etc/passwd" :> PasswdFiles[p]) @@ ("/etc/shadow" :> ShadowFiles[s])
    @@ ("/etc/group" :> GroupFiles[g]) @@ ("/etc/nsswitch.conf" :> n)

FilesOnly == <<[db |-> "passwd", sources |-> <<"files">>], [db |-> "group", sources |-> <<"files">>]>>

UserHosts ==
  [i \in ((DOMAIN PasswdFiles) \X {"sound"} \X (DOMAIN GroupFiles))
           \cup ({"sound", "imported"} \X (DOMAIN ShadowFiles) \X {"sound"}) |->
     [files |-> UserFiles(i[1], i[2], i[3], FilesOnly), odd |-> Nothing]]

------------------------------------------------------------------------------

MCServices == <<"system-auth", "password-auth", "common-auth", "common-password", "login">>
MCPathOf   == [s \in {MCServices[n] : n \in DOMAIN MCServices} |-> "/etc/pam.d/" \o s]

Rule(type, enforcing, module, args) ==
  [kind |-> "rule", type |-> type, enforcing |-> enforcing, module |-> module, args |-> args]
Include(kind, type, target) == [kind |-> kind, type |-> type, target |-> target]

PlainUnix   == Rule("password", TRUE, "pam_unix.so", Nothing)
PasswordFiles ==
  [strong  |-> <<Rule("password", TRUE, "pam_pwquality.so", [minlen |-> 14, minclass |-> 4]),
                 Rule("password", TRUE, "pam_unix.so", [sha512 |-> 1, remember |-> 5])>>,
   lax     |-> <<Rule("password", FALSE, "pam_pwquality.so", [minlen |-> 8]),
                 Rule("password", TRUE, "pam_unix.so", [md5 |-> 1, remember |-> 2])>>,
   plain   |-> <<PlainUnix>>,
   split   |-> <<Rule("password", TRUE, "pam_pwquality.so", Nothing),
                 Include("@include", "", "/etc/pam.d/more"), PlainUnix>>,
   scoped  |-> <<Include("include", "password", "/etc/pam.d/more"),
                 Rule("password", TRUE, "pam_unix.so", [sha512 |-> 1])>>,
   credits |-> <<Rule("password", TRUE, "pam_pwquality.so", [minlen |-> 14, dcredit |-> 0]), PlainUnix,
                 Include("@include", "", "/etc/pam.d/more")>>,
   digits  |-> <<Rule("password", TRUE, "pam_pwquality.so", [minlen |-> 14, dcredit |-> 0 - 1]), PlainUnix,
                 Include("@include", "", "/etc/pam.d/more")>>]
MoreFiles ==
  [enforce |-> <<Rule("password", TRUE, "pam_pwquality.so", [minlen |-> 14, minclass |-> 4]),
                 Rule("password", TRUE, "pam_pwhistory.so", [remember |-> 6])>>,
   weaken  |-> <<Rule("password", TRUE, "pam_unix.so", [md5 |-> 1]),
                 Rule("auth", TRUE, "pam_unix.so", [nullok |-> 1])>>,
   relax   |-> <<Rule("password", TRUE, "pam_pwquality.so", [minclass |-> 1]),
                 Rule("password", TRUE, "pam_unix.so", [sha512 |-> 1])>>,
   loop    |-> <<Include("@include", "", "/etc/pam.d/more")>>]
AuthFiles ==
  [locks |-> <<Rule("auth", TRUE, "pam_faillock.so", Nothing)>>,
   open  |-> <<Rule("auth", TRUE, "pam_unix.so", Nothing)>>]
LoginFiles ==
  [closed |-> <<Include("@include", "", "/etc/pam.d/common-auth")>>,
   nullok |-> <<Rule("auth", TRUE, "pam_unix.so", [nullok |-> 1])>>]
LoginDefsFiles ==
  [strong |-> <<[key |-> "ENCRYPT_METHOD", value |-> "yescrypt"], [key |-> "PASS_MIN_DAYS", value |-> "1"]>>,
   weak   |-> <<[key |-> "ENCRYPT_METHOD", value |-> "md5"], [key |-> "PASS_MIN_DAYS", value |-> "0"],
                [key |-> "PASS_MIN_DAYS", value |-> "1"]>>,
   bare   |-> << >>]

\* the two layouts, and a host that has the files of both
Stacks(p, a) ==
  CASE a = "redhat" -> ("/etc/pam.d/system-auth" :> AuthFiles.locks \o PasswordFiles[p])
                         @@ ("/etc/pam.d/password-auth" :> AuthFiles.open \o PasswordFiles.strong)
    [] a = "both" -> ("/etc/pam.d/system-auth" :> AuthFiles.open \o PasswordFiles[p])
                       @@ ("/etc/pam.d/password-auth" :> AuthFiles.open \o PasswordFiles[p])
                       @@ ("/etc/pam.d/common-password" :> PasswordFiles.strong)
                       @@ ("/etc/pam.d/common-auth" :> AuthFiles.locks)
    [] OTHER -> ("/etc/pam.d/common-password" :> PasswordFiles[p]) @@ ("/etc/pam.d/common-auth" :> AuthFiles[a])

AuthHost(p, m, a, l, d) ==
  [pamDir |-> "present", odd |-> Nothing,
   files  |-> Stacks(p, a)
                @@ ("/etc/pam.d/more" :> MoreFiles[m]) @@ ("/etc/pam.d/login" :> LoginFiles[l])
                @@ (IF d = "none" THEN Nothing ELSE "/etc/login.defs" :> LoginDefsFiles[d])
                @@ ("/etc/security/pwquality.conf" :> <<[key |-> "minlen", value |-> 15],
                                                        [key |-> "minlen", value |-> 9]>>)]

AuthHosts ==
  [i \in ((DOMAIN PasswordFiles) \X (DOMAIN MoreFiles) \X {"locks"} \X {"closed"} \X (DOMAIN LoginDefsFiles))
           \cup ({"plain"} \X {"loop"} \X (DOMAIN AuthFiles) \X (DOMAIN LoginFiles) \X {"strong"})
           \cup ((DOMAIN PasswordFiles) \X {"weaken"} \X {"redhat"} \X {"closed"} \X {"strong"})
           \cup {<<"plain", "loop", "both", "closed", "strong">>,
                  <<"strong", "loop", "locks", "nullok", "none">>, <<"lax", "loop", "locks", "nullok", "none">>,
                  <<"plain", "loop", "locks", "closed", "noPAM">>} |->
     IF i[5] = "noPAM" THEN [pamDir |-> "absent", odd |-> Nothing, files |-> Nothing]
     ELSE AuthHost(i[1], i[2], i[3], i[4], i[5])]

------------------------------------------------------------------------------

Incl(pattern)             == [kind |-> "include", pattern |-> pattern]
Mode(open)                == [kind |-> "mode", open |-> open]
Forward(target, protocol) == [kind |-> "forward", target |-> target, protocol |-> protocol]
Other                     == [kind |-> "other"]
Journal(key, value)       == [section |-> "journal", key |-> key, value |-> value]

RsyslogFiles ==
  [closed |-> <<Mode(FALSE), Forward("a", "tcp")>>,
   open   |-> <<Mode(TRUE), Incl("/etc/rsyslog.d/*.conf")>>,
   all    |-> <<Incl("/etc/rsyslog.d/*.conf"), Other>>,
   both   |-> <<Mode(FALSE), Forward("a", "relp"), Incl("/etc/rsyslog.d/*.conf")>>,
   none   |-> << >>]
RsyslogDropIns ==
  [sound |-> <<Mode(FALSE), Forward("b", "tcp")>>,
   loose |-> <<Other, Forward("b", "udp"), Mode(TRUE)>>,
   again |-> <<Incl("/etc/rsyslog.d/*.conf"), Other>>]
JournaldFiles ==
  [kept  |-> <<Journal("Storage", "persistent"), Journal("ForwardToSyslog", "yes")>>,
   lost  |-> <<Journal("Storage", "volatile"), Journal("ForwardToSyslog", "no")>>,
   auto  |-> <<[section |-> "other", key |-> "Storage", value |-> "none"]>>,
   late  |-> <<Journal("Storage", "persistent"), Journal("Storage", "persistent"), Journal("ForwardToSyslog", "no")>>,
   odd   |-> <<Journal("Storage", "perhaps"), Journal("ForwardToSyslog", "maybe")>>]

LoggingFiles(r, d, j, k) ==
  ("/etc/rsyslog.d/a.conf" :> RsyslogDropIns[d]) @@ ("/etc/systemd/journald.conf.d/a.conf" :> JournaldFiles[k])
    @@ (IF j = "none" THEN Nothing ELSE "/etc/systemd/journald.conf" :> JournaldFiles[j])
    @@ (IF r = "none" THEN Nothing ELSE "/etc/rsyslog.conf" :> RsyslogFiles[r])

LoggingHosts ==
  [i \in ((DOMAIN RsyslogFiles) \X (DOMAIN RsyslogDropIns) \X {"kept"} \X {"auto"} \X {"absent"})
           \cup ({"closed"} \X {"sound"} \X (DOMAIN JournaldFiles) \X (DOMAIN JournaldFiles)
                  \X {"present", "absent"})
           \cup {<<"closed", "sound", "none", "kept", "absent">>} |->
     [files |-> LoggingFiles(i[1], i[2], i[3], i[4]), odd |-> Nothing, journalDir |-> i[5],
      globs |-> ("/etc/rsyslog.d/*.conf" :> <<"/etc/rsyslog.d/a.conf">>)
                  @@ ("/etc/systemd/journald.conf.d/*.conf" :> <<"/etc/systemd/journald.conf.d/a.conf">>)]]

------------------------------------------------------------------------------

MCCandidates == <<[path |-> "/etc/nftables.conf", kind |-> "nftables"],
                  [path |-> "/etc/iptables/rules.v4", kind |-> "iptables"],
                  [path |-> "/etc/ufw/ufw.conf", kind |-> "ufw"],
                  [path |-> "/etc/firewalld/firewalld.conf", kind |-> "firewalld"]>>

States(says, word) == [says |-> says, word |-> word]

FirewallFiles ==
  ("/etc/nftables.conf" :> [none |-> << >>, drop |-> <<States("other", ""), States("policy", "drop")>>,
                            accept |-> <<States("policy", "accept")>>])
    @@ ("/etc/iptables/rules.v4" :> [none |-> << >>, reject |-> <<States("policy", "reject")>>,
                                     queue |-> <<States("policy", "queue"), States("policy", "accept")>>])
    @@ ("/etc/ufw/ufw.conf" :> [none |-> << >>, on |-> <<States("enabled", "yes")>>,
                                off |-> <<States("enabled", "no")>>,
                                late |-> <<States("other", ""), States("enabled", "no")>>])
    @@ ("/etc/default/ufw" :> [none |-> << >>, drop |-> <<States("policy", "drop")>>,
                               accept |-> <<States("policy", "accept")>>])
    @@ ("/etc/firewalld/firewalld.conf" :> [none |-> << >>, home |-> <<States("zone", "home")>>,
                                            trusted |-> <<States("other", ""), States("zone", "trusted")>>])

NetworkHosts ==
  [i \in {"none", "drop", "accept"} \X {"none", "reject", "queue"}
           \X {<<"none", "none">>, <<"on", "none">>, <<"on", "drop">>, <<"on", "accept">>, <<"off", "drop">>,
              <<"late", "accept">>}
           \X {"none", "home", "trusted"} |->
     LET chosen(p) == CASE p = "/etc/nftables.conf" -> i[1]
                        [] p = "/etc/iptables/rules.v4" -> i[2]
                        [] p = "/etc/ufw/ufw.conf" -> i[3][1]
                        [] p = "/etc/default/ufw" -> i[3][2]
                        [] OTHER -> i[4]
     IN  [odd |-> Nothing,
          files |-> [p \in {q \in DOMAIN FirewallFiles : chosen(q) # "none"} |->
                       FirewallFiles[p][chosen(p)]]]]

------------------------------------------------------------------------------

MCTargets == <<"/usr/bin/sudo", "/usr/bin/su">>

Hardened == [pie |-> TRUE, dynamic |-> TRUE, relro |-> TRUE, bindNow |-> TRUE, symbols |-> TRUE,
             canary |-> TRUE, fortify |-> TRUE, candidates |-> TRUE]
Images ==
  [hardened |-> Hardened,
   plain    |-> [Hardened EXCEPT !.pie = FALSE, !.bindNow = FALSE, !.canary = FALSE, !.fortify = FALSE],
   static   |-> [Hardened EXCEPT !.dynamic = FALSE, !.relro = FALSE, !.fortify = FALSE, !.candidates = FALSE],
   stripped |-> [Hardened EXCEPT !.symbols = FALSE]]
SuKinds == (DOMAIN Images) \cup {"gone", "script", "special", "large", "linked", "loop"}

MemoryHosts ==
  [i \in (DOMAIN Images) \X SuKinds |->
     LET su == "/usr/bin/su"
     IN  [images |-> ("/usr/bin/sudo" :> Images[i[1]]) @@ ("/bin/su.real" :> Images["plain"])
                       @@ (IF i[2] \in DOMAIN Images THEN su :> Images[i[2]] ELSE Nothing),
          odd    |-> IF i[2] \in {"script", "special", "large"} THEN su :> i[2] ELSE Nothing,
          links  |-> CASE i[2] = "linked" -> su :> "/bin/su.real"
                       [] i[2] = "loop"   -> su :> su
                       [] OTHER -> Nothing]]

------------------------------------------------------------------------------

Regular == [type |-> "file", suid |-> FALSE, sgid |-> FALSE, groupWritable |-> FALSE, worldWritable |-> FALSE,
            sticky |-> FALSE, uid |-> 0, gid |-> 0, above |-> {"/", "/srv"},
            inDev |-> FALSE, inBinDirs |-> FALSE, inSystemDirs |-> FALSE]
Folder(name) == [Regular EXCEPT !.type = "dir", !.above = {"/"}]

Inodes ==
  [clean    |-> Regular,
   suid     |-> [Regular EXCEPT !.suid = TRUE, !.inBinDirs = TRUE],
   sgid     |-> [Regular EXCEPT !.sgid = TRUE],
   hole     |-> [Regular EXCEPT !.suid = TRUE, !.worldWritable = TRUE],
   stray    |-> [Regular EXCEPT !.uid = 1234],
   strayGrp |-> [Regular EXCEPT !.gid = 1234],
   shared   |-> [Regular EXCEPT !.type = "dir", !.worldWritable = TRUE],
   system   |-> [Regular EXCEPT !.type = "dir", !.worldWritable = TRUE, !.sticky = TRUE, !.inSystemDirs = TRUE],
   leak     |-> [Regular EXCEPT !.suid = TRUE, !.groupWritable = TRUE],
   device   |-> [Regular EXCEPT !.type = "device"],
   spill    |-> [Regular EXCEPT !.worldWritable = TRUE],
   spool    |-> [Regular EXCEPT !.type = "dir", !.worldWritable = TRUE]]
MountTables ==
  [sound  |-> <<[point |-> "/tmp", options |-> {"nodev", "nosuid", "noexec"}],
                [point |-> "/dev/shm", options |-> {"nodev", "nosuid", "noexec"}],
                [point |-> "/home", options |-> {"nodev", "nosuid"}]>>,
   over   |-> <<[point |-> "/tmp", options |-> {"nodev", "nosuid", "noexec"}], [point |-> "/tmp", options |-> {}],
                [point |-> "/home", options |-> {"nodev"}]>>]

FilesysHosts ==
  [i \in ((DOMAIN Inodes) \X {"sound"} \X {"sound"}) \cup ({"clean"} \X {"over"} \X {"sound"})
           \cup ({"stray", "strayGrp"} \X {"sound"} \X {"imported"}) |->
     [order  |-> <<"/srv", "/srv/a", "/srv/b">>,
      inodes |-> ("/srv" :> Folder("/srv")) @@ ("/srv/a" :> Inodes[i[1]]) @@
                  ("/srv/b" :> IF i[1] \in {"spill", "spool"} THEN Inodes[i[1]] ELSE Regular),
      odd    |-> Nothing,
      files  |-> UserFiles(i[3], "sound", "sound", FilesOnly)
                   @@ ("/proc/self/mountinfo" :> MountTables[i[2]])]]

------------------------------------------------------------------------------

MCNumerals  == [n \in {"0", "1", "2", "3", "4", "6", "14", "60", "300", "600", "901"} |->
                  CASE n = "0" -> 0 [] n = "1" -> 1 [] n = "2" -> 2 [] n = "3" -> 3 [] n = "4" -> 4
                    [] n = "6" -> 6 [] n = "14" -> 14 [] n = "60" -> 60 [] n = "300" -> 300
                    [] n = "600" -> 600 [] n = "901" -> 901]
MCDurations == [d \in {"1m", "1h", "0s"} |->
                  CASE d = "1m" -> <<[n |-> 1, unit |-> 60]>>
                    [] d = "1h" -> <<[n |-> 1, unit |-> 3600]>>
                    [] d = "0s" -> <<[n |-> 0, unit |-> 1]>>]

Set(keyword, value) == [keyword |-> keyword, value |-> value]
Algs(mode, items)   == [mode |-> mode, items |-> items]

Secure ==
  <<Set("PermitRootLogin", "no"), Set("PasswordAuthentication", "no"), Set("PermitEmptyPasswords", "no"),
    Set("X11Forwarding", "no"), Set("MaxAuthTries", "4"), Set("ClientAliveInterval", "300"),
    Set("ClientAliveCountMax", "3"), Set("AllowTcpForwarding", "local"), Set("LogLevel", "VERBOSE"),
    Set("Ciphers", Algs("", {"aes256-ctr"})), Set("MACs", Algs("", {"hmac-sha2-512"})),
    Set("KexAlgorithms", Algs("", {"curve25519-sha256"})), Set("IgnoreRhosts", "yes"),
    Set("HostbasedAuthentication", "no"), Set("PermitUserEnvironment", "no"), Set("LoginGraceTime", "1m"),
    Set("Banner", "/etc/issue.net"), Set("AllowAgentForwarding", "no"), Set("StrictModes", "yes"),
    Set("UsePAM", "yes")>>
Insecure ==
  <<Set("PermitRootLogin", "prohibit-password"), Set("PasswordAuthentication", "yes"),
    Set("PermitEmptyPasswords", "yes"), Set("X11Forwarding", "yes"), Set("MaxAuthTries", "6"),
    Set("ClientAliveInterval", "600"), Set("ClientAliveCountMax", "2"), Set("AllowTcpForwarding", "all"),
    Set("LogLevel", "QUIET"), Set("Ciphers", Algs("+", {"3des-cbc"})), Set("MACs", Algs("", {"hmac-md5"})),
    Set("KexAlgorithms", Algs("^", {"group14-sha1"})), Set("IgnoreRhosts", "no"),
    Set("HostbasedAuthentication", "yes"), Set("PermitUserEnvironment", "yes"), Set("LoginGraceTime", "1h"),
    Set("Banner", "none"), Set("AllowAgentForwarding", "yes"), Set("StrictModes", "no"), Set("UsePAM", "no")>>
Unclear ==
  <<Set("PermitRootLogin", "perhaps"), Set("MaxAuthTries", "few"), Set("ClientAliveInterval", "0"),
    Set("AllowTcpForwarding", "perhaps"), Set("LogLevel", "loud"), Set("Ciphers", Algs("-", {"none"})),
    Set("MACs", Algs("", {})), Set("LoginGraceTime", "soon"), Set("UsePAM", "perhaps")>>

IncludeAll == Set("Include", <<"/etc/ssh/sshd_config.d/*.conf">>)
Match(c)   == Set("Match", c)

SshdMain ==
  [secure   |-> <<IncludeAll>> \o Secure,
   insecure |-> <<IncludeAll>> \o Insecure,
   last     |-> Secure \o <<IncludeAll>>,
   only     |-> <<IncludeAll>>,
   unclear  |-> Unclear \o <<Set("Include", <<"/etc/ssh/extra", "/etc/ssh/sshd_config.d/*.conf">>)>>,
   matched  |-> Secure \o <<Match("user ann")>> \o Insecure \o <<Match("all"), Set("UsePAM", "no")>>,
   broken   |-> Secure \o <<Set("", "")>>]
SshdDropIns ==
  [secure   |-> Secure,
   insecure |-> Insecure,
   matched  |-> <<Match("user ann"), Set("PermitRootLogin", "yes"), Set("ClientAliveInterval", "901"),
                  Set("ClientAliveCountMax", "0")>>,
   loop     |-> <<IncludeAll, Set("Include", <<"/etc/ssh/sshd_config">>)>>,
   \* longer than the main files
   tight    |-> Secure \o Secure,
   loose    |-> Insecure \o Insecure]

SshdHosts ==
  [i \in ((DOMAIN SshdMain) \X (DOMAIN SshdDropIns)) \cup {<<"none", "loop">>} |->
     [odd   |-> Nothing,
      files |-> ("/etc/ssh/sshd_config.d/a.conf" :> SshdDropIns[i[2]])
                  @@ ("/etc/ssh/sshd_config.d/b.conf" :> IF i[2] = "loose" THEN << >> ELSE <<Set("Banner", "none")>>)
                  @@ (IF i[1] = "none" THEN Nothing ELSE "/etc/ssh/sshd_config" :> SshdMain[i[1]]),
      globs |-> ("/etc/ssh/sshd_config.d/*.conf" :> <<"/etc/ssh/sshd_config.d/a.conf",
                                                      "/etc/ssh/sshd_config.d/b.conf">>)
                  @@ ("/etc/ssh/extra" :> << >>) @@ ("/etc/ssh/sshd_config" :> <<"/etc/ssh/sshd_config">>)]]

------------------------------------------------------------------------------

Leaves == <<"protected_fifos", "protected_hardlinks", "protected_regular", "protected_symlinks",
            "suid_dumpable", "core_pattern", "dmesg_restrict", "kptr_restrict", "perf_event_paranoid",
            "randomize_va_space", "sysrq", "unprivileged_bpf_disabled", "ptrace_scope", "bpf_jit_harden",
            "tcp_rfc1337", "tcp_syncookies">>
PerInterface == <<"accept_redirects", "accept_source_route", "rp_filter", "send_redirects">>
Over(iface, leaves) == [n \in DOMAIN leaves |-> <<iface, leaves[n]>>]

MCKeyOrder == Over("", Leaves) \o Over("all", <<"accept_ra">>) \o Over("default", <<"accept_ra">>)
                \o Over("a0", PerInterface) \o Over("all", PerInterface) \o Over("default", PerInterface)
                \o Over("eth0", PerInterface) \o Over("eth1", PerInterface)
MCMasks     == [m \in {"0", "1", "0x10"} |-> CASE m = "0" -> 0 [] m = "1" -> 1 [] m = "0x10" -> 16]
MCCoreDumps == [c \in {"|/bin/dump", "core"} |-> IF c = "core" THEN "relative" ELSE "pipe"]

KeySet == {MCKeyOrder[n] : n \in DOMAIN MCKeyOrder}

Strict(key) ==
  CASE key[2] \in {"suid_dumpable", "sysrq", "accept_ra", "accept_redirects", "accept_source_route",
                   "send_redirects"} -> "0"
    [] key[2] \in {"randomize_va_space", "perf_event_paranoid", "bpf_jit_harden"} -> "2"
    [] key[2] = "core_pattern" -> "|/bin/dump"
    [] OTHER -> "1"
Lenient(key) == CASE key[2] = "core_pattern" -> "core" [] Strict(key) = "0" -> "1" [] OTHER -> "0"

Running ==
  [strict  |-> [k \in KeySet |-> Strict(k)],
   lenient |-> [k \in KeySet |-> Lenient(k)],
   mixed   |-> [k \in KeySet |-> IF k[1] = "eth1" THEN Lenient(k) ELSE Strict(k)],
   exposed |-> [k \in KeySet |-> IF k[1] \in {"eth1", "all"} THEN Lenient(k) ELSE Strict(k)],
   raised  |-> [k \in KeySet |-> IF k[1] \in {"a0", "eth0", "eth1"} THEN Lenient(k) ELSE Strict(k)],
   bare    |-> [k \in KeySet |-> Strict(k)],
   lone    |-> [k \in KeySet |-> Strict(k)],
   eased   |-> [k \in KeySet |-> IF k[1] = "all" THEN Lenient(k) ELSE Strict(k)],
   odd     |-> [k \in KeySet |-> IF k[2] \in {"rp_filter", "kptr_restrict"} THEN "junk" ELSE Strict(k)],
   old     |-> [k \in KeySet \ ({<<"", l>> : l \in {"sysrq", "kptr_restrict", "core_pattern"}}
                                  \cup {<<"all", "accept_ra">>, <<"default", "accept_ra">>}) |-> Strict(k)]]

Assign(key, value) == [kind |-> "set", key |-> key, value |-> value]
AssignAll(keys, value(_)) == [n \in DOMAIN keys |-> Assign(keys[n], value(keys[n]))]
Persisted == SelectSeq(MCKeyOrder, LAMBDA k : k[1] \notin {"a0", "eth0", "eth1"} /\ k[2] # "core_pattern")
General   == Over("*", PerInterface \o <<"accept_ra">>)
Specific  == SelectSeq(Persisted, LAMBDA k : k[1] # "")
Pattern == <<Assign(<<"*", "rp_filter">>, "1"),
             [kind |-> "exclude", key |-> <<"all", "rp_filter">>, value |-> ""],
             Assign(<<"default", "rp_filter">>, "2")>>

\* the files of /etc/sysctl.d (a and b) and /usr/lib/sysctl.d (c)
SysctlFiles ==
  [strict   |-> [a |-> AssignAll(Persisted, Strict), b |-> << >>, c |-> << >>],
   lenient  |-> [a |-> AssignAll(Persisted, Lenient), b |-> << >>, c |-> << >>],
   repaired |-> [a |-> AssignAll(Persisted, Lenient), b |-> AssignAll(Persisted, Strict), c |-> << >>],
   relaxed  |-> [a |-> AssignAll(Persisted, Strict), b |-> AssignAll(Persisted, Lenient), c |-> << >>],
   split    |-> [a |-> AssignAll(Persisted, Strict), b |-> << >>, c |-> AssignAll(Persisted, Lenient)],
   vendor   |-> [a |-> << >>, b |-> << >>, c |-> AssignAll(Persisted, Strict)],
   patterns |-> [a |-> Pattern, b |-> << >>, c |-> << >>],
   general  |-> [a |-> AssignAll(General, Strict), b |-> << >>, c |-> AssignAll(Specific, Lenient)],
   garbage  |-> [a |-> AssignAll(Persisted, LAMBDA k : "junk"), b |-> << >>, c |-> << >>],
   shipped  |-> [a |-> << >>, b |-> << >>, c |-> AssignAll(Persisted, Lenient)],
   empty    |-> [a |-> << >>, b |-> << >>, c |-> << >>],
   owned    |-> [a |-> << >>, b |-> << >>, c |-> << >>]]

\* a drop-in of an earlier plumbline, edited since
Owned == <<Assign(<<"", "protected_hardlinks">>, "0"), Assign(<<"", "tcp_rfc1337">>, "0"),
           Assign(<<"", "protected_hardlinks">>, "1"),
           [kind |-> "exclude", key |-> <<"", "dmesg_restrict">>, value |-> ""],
           Assign(<<"", "protected_hardlinks">>, "0")>>

\* one file for each line
Strewn == [n \in 1..(Len(Persisted) + 1) |-> "/etc/sysctl.d/" \o ToString(10 + n) \o ".conf"]

MCSysctlOrder == <<"/etc/sysctl.d/10-a.conf">> \o Strewn \o <<"/usr/lib/sysctl.d/50-c.conf", DropIn, "/etc/sysctl.d/99-sysctl.conf">>

\* a file for each key, and a last one that says something else of all of them
StrewnHost(first(_), last(_)) ==
  [running |-> Running.strict, interfaces |-> {"all", "default", "eth0", "eth1"}, odd |-> Nothing, links |-> Nothing,
   files   |-> [f \in {Strewn[n] : n \in DOMAIN Strewn} |->
                  LET n == CHOOSE k \in DOMAIN Strewn : Strewn[k] = f
                  IN  IF n = Len(Strewn) THEN AssignAll(Persisted, last)
                      ELSE <<Assign(Persisted[n], first(Persisted[n]))>>],
   dirs    |-> <<[dir |-> "/etc/sysctl.d", ino |-> 1, files |-> Strewn]>>]

InterfacesOf(running) ==
  {"all", "default"} \cup (CASE running = "bare"   -> {}
                              [] running = "lone"   -> {"eth1"}
                              [] running = "raised" -> {"a0", "eth0", "eth1"}
                              [] OTHER              -> {"eth0", "eth1"})

SomeKernelHosts ==
  [i \in ((DOMAIN Running) \X {"strict", "patterns"} \X {TRUE})
           \cup ({"strict"} \X (DOMAIN SysctlFiles) \X {TRUE, FALSE})
           \cup ({"lenient"} \X {"lenient", "relaxed", "shipped", "empty", "owned"} \X {TRUE})
           \cup {<<"strict", "none", TRUE>>} |->
     [running |-> Running[i[1]], interfaces |-> InterfacesOf(i[1]), odd |-> Nothing,
      links   |-> ("/etc/sysctl.d/99-sysctl.conf" :> "/srv/b"),
      files   |-> IF i[2] = "none" THEN Nothing
                  ELSE ("/etc/sysctl.d/10-a.conf" :> SysctlFiles[i[2]].a) @@ ("/srv/b" :> SysctlFiles[i[2]].b)
                         @@ ("/usr/lib/sysctl.d/50-c.conf" :> SysctlFiles[i[2]].c)
                         @@ (IF i[2] = "owned" THEN DropIn :> Owned ELSE Nothing),
      dirs    |-> <<[dir |-> "/etc/sysctl.d", ino |-> 1,
                     files |-> <<"/etc/sysctl.d/10-a.conf">> \o (IF i[2] = "owned" THEN <<DropIn>> ELSE << >>)
                                 \o <<"/etc/sysctl.d/99-sysctl.conf">>],
                    [dir |-> "/usr/lib/sysctl.d", ino |-> 2, files |-> <<"/usr/lib/sysctl.d/50-c.conf">>],
                    \* /lib is a link to /usr/lib on some hosts and a directory of its own on others
                    [dir |-> "/lib/sysctl.d", ino |-> IF i[3] THEN 2 ELSE 3,
                     files |-> <<"/usr/lib/sysctl.d/50-c.conf">>]>>]]

KernelHosts == SomeKernelHosts @@ (<<"strewn", "strict", TRUE>> :> StrewnHost(Strict, Lenient))
                 @@ (<<"strewn", "lenient", TRUE>> :> StrewnHost(Lenient, Strict))

------------------------------------------------------------------------------

MCDropInNames    == <<"10-a.conf", "20-b.conf", "50-plumbline-nonewprivileges.conf",
                      "50-plumbline-protecthome.conf", "50-plumbline-protectsystem.conf", "90-c.conf">>
MCWantsDirs      == {"multi-user.target.wants"}
MCSandboxTargets == <<"cron.service", "systemd-journald.service">>

Admin(name)  == "/etc/systemd/system/" \o name
Run(name)    == "/run/systemd/system/" \o name
Vendor(name) == "/usr/lib/systemd/system/" \o name
Legacy(name) == "/lib/systemd/system/" \o name
Wants        == Admin("multi-user.target.wants")
VendorWants  == Vendor("multi-user.target.wants")

Directive(name, value) == [section |-> "Service", name |-> name, reset |-> FALSE, value |-> value]
Reset(name)            == [section |-> "Service", name |-> name, reset |-> TRUE, value |-> ""]
Dir(ino, entries)      == [ino |-> ino, entries |-> entries]

Sandboxed == <<Directive("NoNewPrivileges", "yes"), Directive("ProtectSystem", "strict"),
               Directive("ProtectHome", "read-only")>>
Loosened  == <<Directive("NoNewPrivileges", "no"), Directive("ProtectSystem", "full"), Reset("ProtectHome")>>

\* what multi-user.target wants: links into the vendor directory, one of them to nothing
Wanted ==
  [plain    |-> <<"chronyd.service">>,
   nothing  |-> << >>,
   two      |-> <<"chronyd.service", "ntpd.service">>,
   telnet   |-> <<"chronyd.service", "telnet.service">>,
   avahi    |-> <<"avahi-daemon.service", "chronyd.service">>,
   dangling |-> <<"chronyd.service", "gone.service">>]
VendorUnits == {"chronyd.service", "ntpd.service", "telnet.service", "avahi-daemon.service"}

\* journald's unit file and its drop-in, if it has one
Journals ==
  [strict   |-> <<Sandboxed, << >> >>,
   bare     |-> << << >>, << >> >>,
   hardened |-> << << >>, Sandboxed>>,
   loosened |-> <<Sandboxed, Loosened>>,
   overruled |-> << << >>, Loosened>>,
   masked   |-> <<Sandboxed, << >> >>,
   legacy   |-> <<Sandboxed, << >> >>,
   gone     |-> << << >>, << >> >>]
AppArmor ==
  [absent   |-> Nothing,
   unloaded |-> Nothing,
   off      |-> ("/sys/module/apparmor/parameters/enabled" :> <<"N">>),
   enforce  |-> ("/sys/module/apparmor/parameters/enabled" :> <<"Y">>)
                  @@ ("/sys/kernel/security/apparmor/profiles" :> <<"complain", "enforce">>),
   complain |-> ("/sys/module/apparmor/parameters/enabled" :> <<"Y">>)
                  @@ ("/sys/kernel/security/apparmor/profiles" :> <<"complain", "">>)]

JournalUnit == "systemd-journald.service"

\* what multi-user.target wants besides a time service, or a second one
Extra(w) == {Wanted[w][n] : n \in DOMAIN Wanted[w]} \ {"chronyd.service"}

\* twist: these are masked by the administrator or until the next boot, or the vendor wants them or all
SystemdHost(w, twist, j, a, faulty) ==
  LET wanted  == (IF twist = "vendor" THEN Nothing
                  ELSE Wants :> IF twist = "both" THEN <<"chronyd.service">> ELSE Wanted[w])
                   @@ (IF twist \in {"vendor", "both"}
                       THEN VendorWants :> IF twist = "both" THEN SetToSeq(Extra(w)) ELSE Wanted[w] ELSE Nothing)
      wantsIn(dir) == IF dir \in DOMAIN wanted THEN <<"multi-user.target.wants">> ELSE << >>
      dropIn  == IF j = "overruled" THEN "90-c.conf" ELSE "10-a.conf"
      dropIns == IF Journals[j][2] # << >> THEN <<JournalUnit \o ".d">> ELSE << >>
      masks   == (IF twist = "admin" THEN SetToSeq(Extra(w)) ELSE << >>)
                   \o (IF j = "masked" THEN <<JournalUnit>> ELSE << >>)
      journal == IF j = "gone" THEN << >> ELSE <<JournalUnit>>
      linksIn(dir) == {Systemd!Join(dir, wanted[dir][n]) : n \in DOMAIN wanted[dir]}
      unitOf(p) == CHOOSE u \in UNION {{wanted[d][n] : n \in DOMAIN wanted[d]} : d \in DOMAIN wanted} :
                     \E d \in DOMAIN wanted : p = Systemd!Join(d, u)
  IN  [files  |-> AppArmor[a] @@ [p \in {Vendor(u) : u \in VendorUnits} |-> << >>]
                    @@ [p \in {Run(u) : u \in IF twist = "run" THEN {"acpid.service", "atd.service"} ELSE {}} |-> << >>]
                    @@ (CASE j = "gone"   -> Nothing
                          [] j = "legacy" -> Legacy(JournalUnit) :> Journals[j][1]
                          [] OTHER        -> Vendor(JournalUnit) :> Journals[j][1])
                    @@ (Admin("systemd-journald.service.d/" \o dropIn) :> Journals[j][2]),
       odd    |-> Nothing,
       links  |-> [p \in UNION {linksIn(d) : d \in DOMAIN wanted} |-> Vendor(unitOf(p))]
                    @@ [p \in {Admin(masks[n]) : n \in DOMAIN masks} |-> "/dev/null"]
                    @@ [p \in {Run(u) : u \in IF twist = "run" THEN Extra(w) ELSE {}} |-> "/dev/null"],
       dirs   |-> ("/etc/systemd/system" :> Dir(1, wantsIn(Wants) \o masks \o dropIns))
                    @@ [d \in DOMAIN wanted |-> Dir(IF d = Wants THEN 2 ELSE 8, wanted[d])]
                    @@ (IF twist # "run" THEN Nothing
                        ELSE "/run/systemd/system" :>
                               Dir(3, <<"acpid.service", "atd.service">> \o SetToSeq(Extra(w))))
                    @@ ("/usr/lib/systemd/system" :>
                          Dir(4, <<"chronyd.service", "ntpd.service", "telnet.service", "avahi-daemon.service">>
                                   \o wantsIn(VendorWants) \o IF j = "legacy" THEN << >> ELSE journal))
                    @@ ("/lib/systemd/system" :>
                          IF j = "legacy" THEN Dir(5, journal) ELSE Dir(4, <<"chronyd.service">>))
                    @@ (IF dropIns = << >> THEN Nothing
                        ELSE Admin("systemd-journald.service.d") :> Dir(6, <<dropIn>>))
                    @@ (IF a = "absent" THEN Nothing ELSE "/etc/apparmor.d" :> Dir(7, << >>)),
       faulty |-> faulty]

ServicesHosts ==
  [i \in ((DOMAIN Wanted) \X {"none", "admin", "run", "vendor", "both"} \X {"strict"} \X {"enforce"} \X {"sound"})
           \cup ({"plain"} \X {"none"} \X (DOMAIN Journals) \X {"enforce"} \X {"sound", "unit", "dir"})
           \cup ({"plain"} \X {"none"} \X {"strict"} \X (DOMAIN AppArmor) \X {"sound"})
           \cup {<<"none", "none", "none", "none", "none">>} |->
     IF i[1] = "none"
     THEN [files |-> Nothing, odd |-> Nothing, links |-> Nothing, dirs |-> Nothing, faulty |-> {}]
     ELSE SystemdHost(i[1], i[2], i[3], i[4],
                      CASE i[5] = "sound" -> {} [] i[5] = "unit" -> {Vendor("chronyd.service")}
                        [] i[5] = "dir" -> {"/etc/systemd/system"})]

------------------------------------------------------------------------------

NoDoc == [usernsRemap |-> "", icc |-> "", noNewPrivileges |-> "", liveRestore |-> "", experimental |-> "",
          tlsVerify |-> "", logDriver |-> "", maxSize |-> FALSE, hosts |-> {}]

Documents ==
  [none   |-> NoDoc,
   strict |-> [NoDoc EXCEPT !.usernsRemap = "default", !.icc = "false", !.noNewPrivileges = "true",
                            !.liveRestore = "true", !.logDriver = "json-file", !.maxSize = TRUE],
   loose  |-> [NoDoc EXCEPT !.icc = "true", !.experimental = "true", !.logDriver = "none", !.hosts = {"tcp"}],
   tls    |-> [NoDoc EXCEPT !.tlsVerify = "true", !.hosts = {"tcp", "local"}, !.logDriver = "local"],
   odd    |-> [NoDoc EXCEPT !.hosts = {"other"}, !.logDriver = "custom"],
   sized  |-> [NoDoc EXCEPT !.maxSize = TRUE]]

Arg(flag, value) == [flag |-> flag, value |-> value]
Exec(args)       == Directive("ExecStart", args)
CommandLines ==
  [plain   |-> <<Exec(<<Arg("host", "local")>>)>>,
   tcp     |-> <<Exec(<<Arg("host", "tcp")>>)>>,
   tls     |-> <<Exec(<<Arg("host", "tcp"), Arg("tlsverify", "true"), Arg("userns-remap", "default"),
                        Arg("log-opt", "max-size")>>)>>,
   env     |-> <<Exec(<<Arg("$", "")>>)>>,
   mute    |-> <<Exec(<<Arg("log-driver", "none")>>)>>,
   journal |-> <<Exec(<<Arg("log-driver", "journald"), Arg("host", "other")>>)>>]
DockerDropIns ==
  [none    |-> << >>,
   reset   |-> <<Reset("ExecStart"), Exec(<<Arg("host", "local"), Arg("log-opt", "max-size")>>)>>,
   bares   |-> <<Reset("ExecStart"), Exec(<<Arg("host", "tcp")>>)>>,
   secures |-> <<Reset("ExecStart"), Exec(<<Arg("tlsverify", "true")>>)>>,
   exposes |-> <<Exec(<<Arg("host", "tcp"), Arg("log-driver", "none")>>)>>]

ContainersHosts ==
  [i \in ((DOMAIN Documents) \X (DOMAIN CommandLines) \X (DOMAIN DockerDropIns))
           \cup ({"strict"} \X {"gone"} \X {"none"}) |->
     [files  |-> (IF i[1] = "none" THEN Nothing ELSE "/etc/docker/daemon.json" :> <<Documents[i[1]]>>)
                   @@ ("/usr/bin/dockerd" :> << >>)
                   @@ (IF i[2] = "gone" THEN Nothing ELSE Vendor("docker.service") :> CommandLines[i[2]])
                   @@ ("/etc/systemd/system/docker.service.d/20-b.conf" :> DockerDropIns[i[3]]),
      odd    |-> Nothing, links |-> Nothing,
      dirs   |-> IF i[3] = "none" THEN Nothing
                 ELSE "/etc/systemd/system/docker.service.d" :> Dir(1, <<"20-b.conf">>)]]

------------------------------------------------------------------------------

MCHosts ==
  [cron |-> CronHosts, users |-> UserHosts, auth |-> AuthHosts, logging |-> LoggingHosts,
   network |-> NetworkHosts, memory |-> MemoryHosts, filesys |-> FilesysHosts, sshd |-> SshdHosts,
   kernel |-> KernelHosts, services |-> ServicesHosts, containers |-> ContainersHosts]

\* the sshd family alone
MCSshdHosts == [sshd |-> SshdHosts]

MCItems ==
  [cron    |-> {"/etc/crontab", "/etc/cron.d", "/etc/cron.daily", "/etc/cron.allow", "/etc/cron.deny"},
   users   |-> {"/etc/passwd", "/etc/shadow", "/etc/group"},
   auth    |-> {"/etc/pam.d", "/etc/pam.d/common-password", "/etc/pam.d/common-auth", "/etc/pam.d/login",
                "/etc/pam.d/system-auth", "/etc/pam.d/password-auth", "/etc/pam.d/more", "/etc/login.defs", "/etc/security/pwquality.conf"},
   logging |-> {"/etc/rsyslog.conf", "/etc/rsyslog.d/*.conf", "/etc/rsyslog.d/a.conf", "/var/log/journal",
                "/etc/systemd/journald.conf", "/etc/systemd/journald.conf.d/*.conf",
                "/etc/systemd/journald.conf.d/a.conf"},
   network |-> {"/etc/nftables.conf", "/etc/iptables/rules.v4", "/etc/ufw/ufw.conf", "/etc/default/ufw",
                "/etc/firewalld/firewalld.conf"},
   memory  |-> {"/usr/bin/sudo", "/usr/bin/su", "/bin/su.real"},
   filesys |-> {"/srv", "/srv/a", "/etc/passwd", "/etc/group", "/etc/nsswitch.conf", "/proc/self/mountinfo"},
   sshd    |-> {"/etc/ssh/sshd_config", "/etc/ssh/sshd_config.d/*.conf", "/etc/ssh/sshd_config.d/a.conf",
                "/etc/ssh/sshd_config.d/b.conf"},
   kernel  |-> {"/etc/sysctl.d", "/etc/sysctl.d/10-a.conf", "/srv/b", "/usr/lib/sysctl.d",
                "/proc/sys/net/ipv4/conf", "eth1/rp_filter", "eth1/accept_source_route",
                "all/accept_source_route", "all/rp_filter", "/kptr_restrict"},
   services |-> {"/etc/systemd/system", "/run/systemd/system", "/usr/lib/systemd/system", Wants,
                 "/etc/systemd/system/systemd-journald.service.d",
                 "/usr/lib/systemd/system/systemd-journald.service",
                 "/usr/lib/systemd/system/chronyd.service",
                 "/etc/systemd/system/systemd-journald.service.d/10-a.conf",
                 "/sys/module/apparmor/parameters/enabled", "/sys/kernel/security/apparmor/profiles",
                 "/etc/apparmor.d"},
   containers |-> {"/etc/docker/daemon.json", "/usr/bin/dockerd", "/usr/lib/systemd/system",
                   "/etc/systemd/system", "/etc/systemd/system/docker.service.d",
                   "/usr/lib/systemd/system/docker.service",
                   "/etc/systemd/system/docker.service.d/20-b.conf"}]

MCGarbled ==
  [f \in DOMAIN MCHosts |->
     CASE f = "users" -> {"/etc/passwd", "/etc/shadow", "/etc/group"} \X {1, 2}
       [] f = "filesys" -> {"/etc/passwd", "/etc/group"} \X {1}
       [] f = "containers" -> {<<"/etc/docker/daemon.json", 1>>}
       [] OTHER -> {}]

MCMaxReach ==
  [cron |-> 5, users |-> 3, auth |-> 16, logging |-> 6, network |-> 4, memory |-> 2, filesys |-> 3,
   sshd |-> 4, kernel |-> 66, services |-> 4, containers |-> 1]
==============================================================================
