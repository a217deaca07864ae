---------------------------- MODULE MCRedaction ----------------------------
(* Every short text in a config file and on the kernel command line, and   *)
(* snapshots of up to three fields of a pool that covers every surface.    *)
EXTENDS Redaction

CONSTANTS MaxText,    \* atoms of a config text
          MaxCmdline  \* atoms of a command line

MCSurfaces == <<"config", "repo", "gpg", "dropin", "fstab", "cmdline", "proxy", "containerenv", "quadlet",
                "compose", "gencommand", "genservice", "gentimer", "atjob", "exec", "service", "description",
                "timer", "envfile", "manifest", "lockfile", "git", "sudoers", "shadow", "sshkeys">>

Kw == <<"kw">>
Password == <<"kw", "password">>
Var == <<"var">>
Fp == <<"fp">>
Uri == <<"uri">>
Http == <<"http">>
Tok == <<"tok">>
AtSign == <<"at">>
Begin == <<"begin">>
Body == <<"body">>
Crypt == <<"crypt">>
Empty == <<"empty">>
Opt == <<"opt">>
Cred == <<"cred">>
Dir == <<"dir">>
Key == <<"key">>
Sp == <<"sp">>
Nl == <<"nl">>
Hash == <<"hash">>
V1 == <<"val", 1>>
V2 == <<"val", 2>>

F(surface, path, text) == [surface |-> surface, path |-> path, text |-> text]
Snapshot(fs, flags) == [fields |-> fs, flags |-> flags]

Texts(atoms, n) == UNION {[1 .. k -> atoms] : k \in 0 .. n}
ConfigAtoms == {Kw, V1, Fp, Uri, AtSign, Begin, Body, Crypt, Sp, Nl, Hash}
CmdlineAtoms == {Kw, Var, V1, Fp, Uri, AtSign, Sp}

\* One secret or one way out of each surface.
Pool == <<F("config", "app", <<Kw, V1, Nl, Uri, V2, AtSign>>),
          F("config", "nss", <<Kw, Fp, Nl, Hash, Kw, V1>>),
          F("repo", "repo", <<Kw, V2>>),
          F("gpg", "gpg", <<Begin, Body>>),
          F("dropin", "dropin", <<Kw, V1>>),
          F("fstab", "fstab", <<Opt, V1>>),
          F("fstab", "fstab", <<Cred>>),
          F("fstab", "fstab", <<Cred, V1>>),
          F("cmdline", "cmdline", <<Kw, V1, Sp, Var, V2>>),
          F("cmdline", "cmdline", <<Kw, V1, Sp, Kw, Fp>>),
          F("proxy", "proxy", <<Http, V1, AtSign>>),
          F("proxy", "dnf", <<Kw, V1>>),
          F("containerenv", "c", <<Kw, V1>>),
          F("quadlet", "quadlet", <<Kw, V1>>),
          F("compose", "compose", <<Var, Http, V1, AtSign, Nl, Hash, Kw, V2>>),
          F("compose", "compose", <<Var, Uri, V1, AtSign, Nl, Kw, V2>>),
          F("gencommand", "cron", <<Uri, V1, AtSign>>),
          F("genservice", "cron.service", <<Uri, V1, AtSign>>),
          F("gentimer", "cron.timer", <<Kw, V2>>),
          F("atjob", "at", <<Kw, V1>>),
          F("exec", "timer", <<Uri, V2, AtSign>>),
          F("service", "timer.service", <<Kw, V1>>),
          F("description", "timer", <<Kw, V1>>),
          F("timer", "timer", <<Kw, V2>>),
          F("envfile", "env", <<Kw, V1, Nl, Var, V2>>),
          F("envfile", "env", <<Kw, V1, Nl, Kw, V2>>),
          F("envfile", "env", <<Kw, Fp>>),
          F("envfile", "env", <<Password, V1>>),
          F("manifest", "req", <<Dir, Sp, Http, V1, AtSign, AtSign>>),
          F("manifest", "req", <<Dir, Nl, Http, V1, AtSign>>),
          F("lockfile", "lock", <<Http, V1, AtSign, Sp, Tok, AtSign>>),
          F("git", "git", <<Tok, AtSign>>),
          F("git", "git", <<Http, V1, AtSign, Sp, Uri, V1, AtSign>>),
          F("sudoers", "sudoers", <<Hash, V2, Sp, Kw, V1>>),
          F("sudoers", "sudoers", <<Kw, V2>>),
          F("shadow", "shadow", <<Crypt>>),
          F("shadow", "shadow", <<Empty>>),
          F("sshkeys", "users", <<Key>>)>>

\* Of a file there is one entry; mounts, rules and shadow lines are rows.
Entries(P, ks) == \A i, j \in ks : /\ i # j /\ P[i].path = P[j].path /\ P[i].surface = P[j].surface
                                   => P[i].surface \in {"fstab", "sudoers", "shadow"}

\* Up to three fields of the pool, in the order redact() visits them, and
\* all of them together.
Few(P) ==
    {[k \in 1 .. 3 |-> P[x[k]]] : x \in {y \in (DOMAIN P) \X (DOMAIN P) \X (DOMAIN P) :
        y[1] < y[2] /\ y[2] < y[3] /\ Entries(P, {y[1], y[2], y[3]})}}
      \cup {<<P[i]>> : i \in DOMAIN P}
All(P) == LET q == Where(P, LAMBDA i : \A j \in 1 .. i - 1 : Entries(P, {i, j})) IN [k \in DOMAIN q |-> P[q[k]]]

MCSnapshots ==
    LET P == Pool IN
    {Snapshot(<<F("config", "app", tx)>>, {}) : tx \in Texts(ConfigAtoms, MaxText)}
      \cup {Snapshot(<<F("cmdline", "cmdline", tx)>>, {}) : tx \in Texts(CmdlineAtoms, MaxCmdline)}
      \cup {Snapshot(fs, {}) : fs \in Few(P)}
      \cup {Snapshot(All(P), flags) : flags \in SUBSET {"hashes", "ssh", "subscription", "raw"}}

=============================================================================
