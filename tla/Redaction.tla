------------------------------ MODULE Redaction ------------------------------
(***************************************************************************)
(* crates/pipeline/src/redaction: redact() goes over the content fields of *)
(* a snapshot, one surface after the other, replaces what the patterns     *)
(* match by numbered tokens, records findings, weighs the hints of the     *)
(* inspectors against what is left, and labels the snapshot.               *)
(*                                                                         *)
(* A text is a sequence of atoms, tuples whose first element is a type:    *)
(*   kw    a secret-like key and its separator, known to the patterns; the *)
(*         second element, if any, is the token kind whose name it is      *)
(*   var   a key only the inspectors and scrub_compose_secrets know        *)
(*   val   a value                     fp     a value that is an NSS word  *)
(*   uri   postgres://user:            http   https://user:                *)
(*   tok   https:// and a token used as user name      at   "@"            *)
(*   begin, body   "-----BEGIN", and the rest of a private key block       *)
(*   crypt a password hash             empty  an empty password field      *)
(*   opt, cred     password=, credentials= of mount options; a credentials *)
(*                 without a value after it is one that names a file       *)
(*   dir   an index directive of a manifest            key  an SSH key     *)
(*   sp, nl, hash  blank, newline, comment sign                            *)
(*   mark  what a masker leaves        token  REDACTED_KIND_N              *)
(***************************************************************************)
EXTENDS Naturals, FiniteSets, SequencesExt

CONSTANTS Snapshots,   \* the snapshots a scan may hand over
          Surfaces,    \* the surfaces in the order redact() visits them
          Allowlisted  \* the paths under REDACTION_ALLOWLIST

\* Each snapshot lists its fields in the order they are visited.
ASSUME RedactionAssumption ==
    \A s \in Snapshots : \A i \in 2 .. Len(s.fields) :
        \E b \in DOMAIN Surfaces : /\ Surfaces[b] = s.fields[i].surface
                                   /\ \E a \in 1 .. b : Surfaces[a] = s.fields[i - 1].surface

VARIABLES orig,      \* the snapshot as collected
          fields,    \* its fields as they are now
          pos,       \* how many fields, then hints, have been visited
          reg,       \* CounterRegistry: <<kind, secret>> to number
          findings,  \* path, source and confidence of the findings
          state      \* redaction_state, "none" before it is set

vars == <<orig, fields, pos, reg, findings, state>>

NoTokens == [x \in {} |-> 0]
IsA(tx, i, types) == i \in DOMAIN tx /\ tx[i][1] \in types
Where(tx, P(_)) == SelectSeq([k \in DOMAIN tx |-> k], P)
Has(tx, types) == \E i \in DOMAIN tx : IsA(tx, i, types)
Blank == {"sp", "nl", "body"}   \* a key block goes on with a blank
Urls == {"uri", "http", "tok"}
Mark == <<"mark">>
Splice(tx, i, j, new) == SubSeq(tx, 1, i - 1) \o new \o SubSeq(tx, j + 1, Len(tx))

\* Representative lengths: a key block is longer than a key with a value,
\* a connection string may be longer or shorter.
Width(tx, i, j) ==
    FoldLeft(LAMBDA n, a : n + (CASE a[1] = "body" -> 9 [] a[1] \in {"uri", "kw"} -> 3 [] OTHER -> 1),
             0, SubSeq(tx, i, j))

-----------------------------------------------------------------------------
(* Matches                                                                 *)

Patterns == <<"privatekey", "passwordhash", "password", "connection">>

\* The line has nothing but blanks before a comment sign before position p.
is_comment_line(tx, p) ==
    \E h \in 1 .. p - 1 :
        /\ IsA(tx, h, {"hash"})
        /\ \A k \in h + 1 .. p - 1 : ~IsA(tx, k, {"nl"})
        /\ \E l \in 0 .. h - 1 : /\ l = 0 \/ IsA(tx, l, {"nl"})
                                 /\ \A k \in l + 1 .. h - 1 : IsA(tx, k, {"sp"})

\* Where pattern p matches from position i: a key block, a hash, a key with
\* the next run of non-blanks, a connection string up to the next "@".
MatchEnds(tx, p, i) ==
    CASE p = 1 -> {j \in {i + 1} : IsA(tx, i, {"begin"}) /\ IsA(tx, j, {"body"})}
      [] p = 2 -> {j \in {i} : IsA(tx, i, {"crypt"})}
      [] p = 3 -> {j \in i + 1 .. Len(tx) :
                      /\ IsA(tx, i, {"kw"}) /\ ~IsA(tx, j, Blank)
                      /\ j = Len(tx) \/ IsA(tx, j + 1, Blank)
                      /\ \E s \in i + 1 .. j : /\ \A k \in i + 1 .. s - 1 : IsA(tx, k, {"sp", "nl"})
                                               /\ \A k \in s .. j : ~IsA(tx, k, Blank)}
      [] OTHER -> {j \in i + 2 .. Len(tx) : /\ IsA(tx, i, {"uri"}) /\ IsA(tx, j, {"at"})
                                            /\ \A k \in i + 1 .. j - 1 : ~IsA(tx, k, {"at"})}

\* The matches an iterator yields, each after the one before; those on
\* comment lines, known non-secrets and hashes of shadow files are left out.
collect_eligible_matches(tx, p, path) ==
    LET step(acc, i) ==
            IF i > acc.last /\ MatchEnds(tx, p, i) # {}
            THEN LET j == CHOOSE e \in MatchEnds(tx, p, i) : TRUE IN
                 [last |-> j, found |-> acc.found \cup {[pat |-> p, from |-> i, to |-> j]}]
            ELSE acc
        all == FoldLeft(step, [last |-> 0, found |-> {}], [k \in DOMAIN tx |-> k]).found IN
    {m \in all : /\ ~is_comment_line(tx, m.from)
                 /\ p = 3 => \E k \in m.from + 1 .. m.to :
                                ~IsA(tx, k, IF k = m.to THEN {"fp"} ELSE {"sp", "nl"})
                 /\ ~(p = 2 /\ path = "shadow")}

AllMatches(tx, path) == UNION {collect_eligible_matches(tx, p, path) : p \in DOMAIN Patterns}

MWidth(tx, m) == Width(tx, m.from, m.to)
Overlap(a, b) == a.from <= b.to /\ b.from <= a.to
Within(a, b) == b.from <= a.from /\ a.to <= b.to

\* By start, the longer first, then in the order of the patterns.
SortedMatches(tx, S) ==
    SetToSortSeq(S, LAMBDA a, b : \/ a.from < b.from
                                  \/ a.from = b.from /\ a.to > b.to
                                  \/ a.from = b.from /\ a.to = b.to /\ a.pat < b.pat)

\* The span that starts first stays, whatever the lengths.
DedupFirstStays(tx, S) ==
    {m \in S : \A o \in S \ {m} : Overlap(o, m) => m.from < o.from \/ (m.from = o.from /\ Within(o, m))}

\* Of two spans that overlap the longer stays; the sweep of a span ends
\* when it is dropped itself or left behind.
dedup_overlapping_matches(tx, S) ==
    LET q == SortedMatches(tx, S)
        idx == [k \in DOMAIN q |-> k]
        sweep(keep, i) ==
            FoldLeft(LAMBDA st, j :
                IF st.stop \/ i \notin keep \/ j <= i \/ j \notin st.keep THEN st
                ELSE IF q[j].from > q[i].to THEN [st EXCEPT !.stop = TRUE]
                ELSE IF Within(q[j], q[i]) \/ MWidth(tx, q[i]) >= MWidth(tx, q[j])
                     THEN [st EXCEPT !.keep = @ \ {j}]
                     ELSE [keep |-> st.keep \ {i}, stop |-> TRUE],
                [keep |-> keep, stop |-> FALSE], idx).keep IN
    {q[k] : k \in FoldLeft(sweep, DOMAIN q, idx)}

-----------------------------------------------------------------------------
(* Replacement                                                             *)

\* The number of a secret: the one it has, or the next of its kind.
token_for(rg, kind, secret) ==
    IF <<kind, secret>> \in DOMAIN rg THEN rg[<<kind, secret>>]
    ELSE 1 + Cardinality({x \in DOMAIN rg : x[1] = kind})

Numbered(rg, kind, secret) ==
    [x \in DOMAIN rg \cup {<<kind, secret>>} |-> IF x = <<kind, secret>> THEN token_for(rg, kind, secret) ELSE rg[x]]

\* A connection string keeps its two ends where the template is used.
SecretFrom(m, template) == IF template /\ m.pat = 4 THEN m.from + 1 ELSE m.from
SecretTo(m, template) == IF template /\ m.pat = 4 THEN m.to - 1 ELSE m.to

build_replacement(r, m, template) ==
    LET kind == Patterns[m.pat]
        i == SecretFrom(m, template)
        j == SecretTo(m, template)
        secret == SubSeq(r.text, i, j) IN
    [text |-> Splice(r.text, i, j, <<<<"token", kind, token_for(r.reg, kind, secret)>>>>),
     reg |-> Numbered(r.reg, kind, secret)]

\* The last match first, so that the offsets of the others stay valid.
ReplaceMatches(tx, S, rg, template) ==
    FoldLeft(LAMBDA r, m : build_replacement(r, m, template), [text |-> tx, reg |-> rg],
             Reverse(SortedMatches(tx, S)))

Finding(path, source, conf) == [path |-> path, source |-> source, conf |-> conf]

\* classify_shadow_line: a hash is a secret, an empty field is a warning.
scan_shadow(tx, path) ==
    {Finding(path, "shadow", "high") : i \in {k \in DOMAIN tx : IsA(tx, k, {"crypt"})}}
      \cup {Finding(path, "shadow", "low") : i \in {k \in DOMAIN tx : IsA(tx, k, {"empty"})}}

scan_content(tx, path) ==
    (IF path = "shadow" THEN scan_shadow(tx, path) ELSE {})
      \cup {Finding(path, "pattern", "high") : m \in dedup_overlapping_matches(tx, AllMatches(tx, path))}

scan_and_redact_field(tx, path, rg, template) ==
    LET r == ReplaceMatches(tx, dedup_overlapping_matches(tx, AllMatches(tx, path)), rg, template) IN
    [text |-> r.text, reg |-> r.reg, found |-> scan_content(tx, path)]

\* A pass of its own, with a registry of its own.
redact_string(tx) == ReplaceMatches(tx, dedup_overlapping_matches(tx, AllMatches(tx, "")), NoTokens, TRUE).text

-----------------------------------------------------------------------------
(* Maskers and scrubbers                                                   *)

\* The interior of the first URL with user and password, no blank in it.
FirstUrlCredential(tx) ==
    LET C == {x \in (DOMAIN tx) \X (DOMAIN tx) :
                 /\ IsA(tx, x[1], {"uri", "http"}) /\ x[2] > x[1] /\ IsA(tx, x[2] + 1, {"at"})
                 /\ \A k \in x[1] + 1 .. x[2] : ~IsA(tx, k, Blank \cup {"at"})} IN
    {x \in C : \A y \in C : x[1] <= y[1]}

mask_proxy_credentials(tx) ==
    IF FirstUrlCredential(tx) # {}
    THEN LET x == CHOOSE y \in FirstUrlCredential(tx) : TRUE IN Splice(tx, x[1] + 1, x[2], <<Mark>>)
    ELSE LET K == {i \in DOMAIN tx : MatchEnds(tx, 3, i) # {}}
             i == CHOOSE k \in K : \A o \in K : k <= o
             j == CHOOSE e \in MatchEnds(tx, 3, i) : TRUE IN
         IF K = {} THEN tx ELSE Splice(tx, i + 1, j, <<Mark>>)

mask_token_username(tx) ==
    LET T == {i \in DOMAIN tx : IsA(tx, i, {"tok"}) /\ IsA(tx, i + 1, {"at"})}
        i == CHOOSE k \in T : \A o \in T : k <= o IN
    IF T = {} THEN tx ELSE Splice(tx, i, i, <<Mark>>)

MountKind == [opt |-> "mount_password", cred |-> "mount_credential"]

redact_mount_options(tx, rg) ==
    FoldLeft(LAMBDA r, i :
        IF IsA(tx, i, DOMAIN MountKind) /\ IsA(tx, i + 1, {"val"})
        THEN LET kind == MountKind[tx[i][1]]
                 secret == <<tx[i + 1]>> IN
             [text |-> [r.text EXCEPT ![i + 1] = <<"token", kind, token_for(r.reg, kind, secret)>>],
              reg |-> Numbered(r.reg, kind, secret)]
        ELSE r,
        [text |-> tx, reg |-> rg], [k \in DOMAIN tx |-> k])

\* The lines of a text, a separator at the end of all but the last.
Lines(tx) == LET ends == Where(tx, LAMBDA i : IsA(tx, i, {"nl"}) \/ i = Len(tx)) IN
             [k \in DOMAIN ends |-> SubSeq(tx, (IF k = 1 THEN 0 ELSE ends[k - 1]) + 1, ends[k])]
MapLines(tx, Op(_)) == FlattenSeq([k \in DOMAIN Lines(tx) |-> Op(Lines(tx)[k])])

\* First and last position of what follows position i on a line.
ValueAfter(ln, i) ==
    LET V == {k \in i + 1 .. Len(ln) : ~IsA(ln, k, Blank)} IN
    {<<a, b>> \in V \X V : \A k \in V : a <= k /\ k <= b}

KeyOf(ln, keys) == {i \in DOMAIN ln : IsA(ln, i, keys) /\ \A k \in 1 .. i - 1 : IsA(ln, k, {"sp"})}

\* An assignment: the credentials of the URL in its value, or the value if
\* the line names something secret-like.
ScrubComposeLine(ln) ==
    LET A == UNION {ValueAfter(ln, i) : i \in KeyOf(ln, {"kw", "var"})}
        v == CHOOSE x \in A : TRUE
        U == {k \in v[1] .. v[2] : IsA(ln, k, Urls)}
        u == CHOOSE k \in U : \A o \in U : k <= o
        T == {k \in u + 1 .. v[2] : IsA(ln, k, {"at"})}
        t == CHOOSE k \in T : \A o \in T : k <= o IN
    IF A = {} THEN ln
    ELSE IF U # {} /\ ~IsA(ln, u, {"tok"}) /\ T # {} THEN Splice(ln, u + 1, t - 1, <<Mark>>)
    ELSE IF Has(ln, {"kw", "var"}) THEN Splice(ln, v[1], v[2], <<Mark>>)
    ELSE ln

scrub_compose_secrets(tx) == MapLines(tx, ScrubComposeLine)

Marks(tx) == Cardinality({i \in DOMAIN tx : tx[i] = Mark})

\* The user part of a URL, up to its last "@".
scrub_url_auth(tx) ==
    LET U == {k \in DOMAIN tx : IsA(tx, k, Urls)}
        u == CHOOSE k \in U : \A o \in U : k <= o
        T == {k \in DOMAIN tx : k > u /\ IsA(tx, k, {"at"})}
        t == CHOOSE k \in T : \A o \in T : o <= k IN
    IF U = {} \/ T = {} THEN tx ELSE Splice(tx, u, t - 1, <<Mark>>)

\* The first run of non-blanks after an index directive is its URL; a
\* directive with nothing after it is reported.
ScrubDirectiveLine(ln) ==
    LET V == UNION {ValueAfter(ln, i) : i \in KeyOf(ln, {"dir"})}
        a == (CHOOSE x \in V : TRUE)[1]
        R == {k \in a .. Len(ln) : \A h \in a .. k : ~IsA(ln, h, Blank)} IN
    IF V = {} THEN ln
    ELSE SubSeq(ln, 1, a - 1) \o scrub_url_auth(SubSeq(ln, a, a + Cardinality(R) - 1))
           \o SubSeq(ln, a + Cardinality(R), Len(ln))
Unlocatable(ln) == \E i \in KeyOf(ln, {"dir"}) : ValueAfter(ln, i) = {}

\* In a lock file every run of non-blanks may be a URL.
ScrubLockLine(ln) ==
    LET cuts == Where(ln, LAMBDA i : IsA(ln, i, Blank) \/ i = Len(ln))
        run(k) == SubSeq(ln, (IF k = 1 THEN 0 ELSE cuts[k - 1]) + 1, cuts[k]) IN
    FlattenSeq([k \in DOMAIN cuts |-> scrub_url_auth(run(k))])

scrub_manifest_auth(f) ==
    IF f.surface = "lockfile" THEN MapLines(f.text, ScrubLockLine) ELSE MapLines(f.text, ScrubDirectiveLine)

-----------------------------------------------------------------------------
(* What the inspectors flag                                                *)

Hint(path, conf, word) == [path |-> path, conf |-> conf, word |-> word]

Words(f, types, conf) == {Hint(f.path, conf, f.text[i]) : i \in {k \in DOMAIN f.text : IsA(f.text, k, types)}}
Keys(f, conf) == {Hint(f.path, conf, f.text[i]) : i \in
                     {k \in DOMAIN f.text : IsA(f.text, k, {"kw", "var"}) /\ ~is_comment_line(f.text, k)}}

\* Parameters of the command line, keys of .env files and mount options are
\* certain; keys of drop-ins, commands and git remotes less so; the other
\* inspectors state no confidence.
CmdlineHints(f) == IF f.surface = "cmdline" THEN Words(f, {"kw", "var"}, "high") ELSE {}
EnvFileHints(f) == IF f.surface = "envfile" THEN Keys(f, "high") ELSE {}
MountHints(f) == IF f.surface = "fstab" THEN Words(f, {"opt", "cred"}, "high") ELSE {}
DropInHints(f) == IF f.surface = "dropin" THEN Keys(f, "medium") ELSE {}
CommandHints(f) == IF f.surface \in {"gencommand", "atjob", "exec"} THEN Words(f, {"kw"}, "medium") ELSE {}
GitHints(f) == {Hint("git/config", "medium", Mark) :
                  x \in {y \in {f} : y.surface = "git" /\ FirstUrlCredential(y.text) # {}}}
ProxyHints(f) == {Hint(f.path, "none", Mark) : x \in {y \in {f} : y.surface = "proxy"
                                                     /\ (FirstUrlCredential(y.text) # {} \/ Has(y.text, {"kw"}))}}
ContainerHints(f) == IF f.surface \in {"compose", "containerenv"} THEN Keys(f, "none") ELSE {}
UserHints(f) == CASE f.surface = "sudoers" -> Keys(f, "none")
                  [] f.surface = "shadow" -> Words(f, {"crypt"}, "none")
                  [] OTHER -> {}

HintsOf(f) == UNION {CmdlineHints(f), EnvFileHints(f), MountHints(f), DropInHints(f), CommandHints(f), GitHints(f),
                     ProxyHints(f), ContainerHints(f), UserHints(f)}

Hints == UNION {HintsOf(orig.fields[i]) : i \in DOMAIN orig.fields}

-----------------------------------------------------------------------------
(* redact()                                                                *)

\* scan.rs: the flags of the command line make the snapshot sensitive.
Init ==
    /\ orig \in Snapshots
    /\ fields = orig.fields
    /\ pos = 0
    /\ reg = NoTokens
    /\ findings = {}
    /\ state = "none"

sensitive_snapshot == orig.flags # {}

\* --no-redaction
KeepRaw ==
    /\ state = "none" /\ "raw" \in orig.flags
    /\ state' = "Raw"
    /\ UNCHANGED <<orig, fields, pos, reg, findings>>

At(surfaces) ==
    /\ state = "none" /\ "raw" \notin orig.flags
    /\ pos < Len(fields) /\ fields[pos + 1].surface \in surfaces
Field == fields[pos + 1]

Put(tx, rg, found) ==
    /\ fields' = [fields EXCEPT ![pos + 1].text = tx]
    /\ reg' = rg
    /\ findings' = findings \cup found
    /\ pos' = pos + 1
    /\ UNCHANGED <<orig, state>>

Pass(surfaces, template) ==
    /\ At(surfaces)
    /\ LET r == scan_and_redact_field(Field.text, Field.path, reg, template) IN Put(r.text, r.reg, r.found)

\* A pass with a registry of its own.
RedactDropInsFreshRegistry ==
    /\ At({"dropin"})
    /\ LET r == scan_and_redact_field(Field.text, Field.path, NoTokens, TRUE) IN Put(r.text, reg, r.found)

RedactConfig == Pass({"config"}, TRUE)
RedactRepos == Pass({"repo", "gpg"}, TRUE)
RedactDropIns == Pass({"dropin"}, TRUE)
RedactCmdline == Pass({"cmdline"}, FALSE)
RedactQuadlets == Pass({"quadlet"}, TRUE)
RedactGeneratedTimers == Pass({"gencommand", "gentimer"}, TRUE) \/ Pass({"genservice"}, FALSE)
RedactAtJobs == Pass({"atjob"}, TRUE)
RedactSystemdTimers == Pass({"exec", "description", "timer"}, TRUE) \/ Pass({"service"}, FALSE)
RedactEnvFiles == Pass({"envfile"}, TRUE)

\* Mount options; a referenced credential file is only flagged.
RedactMounts ==
    /\ At({"fstab"})
    /\ LET tx == Field.text
           r == redact_mount_options(tx, reg) IN
       IF Has(tx, {"opt", "cred"})
       THEN Put(r.text, r.reg,
                {Finding(Field.path, "mount_options", "high")}
                  \cup {Finding(Field.path, "credential_ref", "medium") : i \in {k \in DOMAIN tx : IsA(tx, k, {"cred"})}})
       ELSE Put(tx, reg, {})

RedactProxy ==
    /\ At({"proxy"})
    /\ LET tx == mask_proxy_credentials(Field.text) IN
       Put(tx, reg, {Finding(Field.path, "proxy_credential", "high") : x \in {y \in {tx} : y # Field.text}})

RedactContainerEnv ==
    /\ At({"containerenv"})
    /\ Put(redact_string(Field.text), reg, scan_content(Field.text, Field.path))

\* The compose scrubber first; its own finding if the patterns have none.
RedactCompose ==
    /\ At({"compose"})
    /\ LET scrubbed == scrub_compose_secrets(Field.text)
           fired == Marks(scrubbed) > Marks(Field.text)
           r == scan_and_redact_field(IF fired THEN scrubbed ELSE Field.text, Field.path, reg, TRUE) IN
       Put(r.text, r.reg,
           IF fired /\ r.found = {} THEN {Finding(Field.path, "compose_env", "high")} ELSE r.found)

RedactManifests ==
    /\ At({"manifest", "lockfile"})
    /\ LET tx == scrub_manifest_auth(Field)
           missed == Field.surface = "manifest" /\ \E k \in DOMAIN Lines(Field.text) : Unlocatable(Lines(Field.text)[k]) IN
       Put(tx, reg, (IF Marks(tx) > Marks(Field.text) THEN {Finding(Field.path, "manifest_auth", "high")} ELSE {})
                      \cup (IF missed THEN {Finding(Field.path, "manifest_auth", "low")} ELSE {}))

RedactGitRemotes ==
    /\ At({"git"})
    /\ LET masked == mask_proxy_credentials(Field.text)
           tx == mask_token_username(masked)
           r == scan_and_redact_field(tx, Field.path, reg, FALSE) IN
       Put(r.text, r.reg, r.found
              \cup (IF masked # Field.text THEN {Finding(Field.path, "proxy_credential", "high")} ELSE {})
              \cup (IF tx # masked THEN {Finding(Field.path, "token_credential", "high")} ELSE {}))

\* A commented rule is tried again without its comment sign.
RedactSudoers ==
    /\ At({"sudoers"})
    /\ LET tx == Field.text
           start == {i \in DOMAIN tx : i > 1 /\ \A k \in 2 .. i - 1 : IsA(tx, k, {"sp"})}
           n == CHOOSE i \in start : \A k \in start : k <= i
           body == SubSeq(tx, n, Len(tx)) IN
       IF scan_content(tx, Field.path) # {} \/ ~IsA(tx, 1, {"hash"}) \/ start = {}
       THEN Put(redact_string(tx), reg, scan_content(tx, Field.path))
       ELSE Put(SubSeq(tx, 1, n - 1) \o redact_string(body), reg, scan_content(body, Field.path))

\* Hashes are replaced unless the operator keeps them.
RedactShadow ==
    /\ At({"shadow"})
    /\ LET tx == Field.text
           C == {i \in DOMAIN tx : IsA(tx, i, {"crypt"})}
           i == CHOOSE k \in C : TRUE
           found == scan_content(tx, "shadow") IN
       IF C = {} \/ "hashes" \in orig.flags THEN Put(tx, reg, found)
       ELSE Put(Splice(tx, i, i, <<<<"token", "shadowhash", token_for(reg, "shadowhash", <<tx[i]>>)>>>>),
                Numbered(reg, "shadowhash", <<tx[i]>>), found)

StripSshKeys ==
    /\ At({"sshkeys"})
    /\ Put(IF "ssh" \in orig.flags THEN Field.text ELSE <<>>, reg, {})

\* The fields whose final text hints are compared with.
PostSurfaces == {"config", "repo", "gpg", "dropin", "cmdline", "gencommand", "genservice", "atjob",
                 "exec", "service", "envfile", "git"}
PostFields(path) == {i \in DOMAIN fields : fields[i].path = path /\ fields[i].surface \in PostSurfaces}

\* A hint is settled by any finding at its path.
HintResolvedByFinding(h) ==
    PostFields(h.path) # {} /\ \E x \in findings : x.path = h.path /\ x.source # "inspector_hint"

\* A token is spelled with the name of its kind.
SpelledWith(atom, word) == Len(word) = 2 /\ atom[1] = "token" /\ atom[2] = word[2]

\* The flagged word does not occur any more in the last field entered under the
\* path: content.contains also finds it inside a token.  Every certain hint has
\* a word, so the way out for hints without one is never taken.
HintResolved(h) ==
    \E i \in PostFields(h.path) :
        /\ \A k \in PostFields(h.path) : k <= i
        /\ \A atom \in Range(fields[i].text) : atom # h.word /\ ~SpelledWith(atom, h.word)

ResolveHints ==
    /\ state = "none" /\ "raw" \notin orig.flags
    /\ pos = Len(fields)
    /\ pos' = pos + 1
    /\ findings' = findings \cup
          {Finding(h.path, "inspector_hint", IF h.conf # "high" \/ HintResolved(h) THEN h.conf ELSE "medium") :
              h \in {x \in Hints : x.path \notin Allowlisted}}
    /\ UNCHANGED <<orig, fields, reg, state>>

Decide ==
    /\ state = "none" /\ pos = Len(fields) + 1
    /\ state' = IF sensitive_snapshot THEN "SensitiveRetained"
                ELSE IF \A x \in findings : x.conf = "high" THEN "FullyRedacted"
                ELSE "PartiallyRedacted"
    /\ UNCHANGED <<orig, fields, pos, reg, findings>>

\* The snapshot is handed on.
Done == state # "none" /\ UNCHANGED vars

Next ==
    \/ KeepRaw \/ RedactConfig \/ RedactRepos \/ RedactDropIns \/ RedactMounts \/ RedactCmdline \/ RedactProxy
    \/ RedactContainerEnv \/ RedactQuadlets \/ RedactCompose \/ RedactGeneratedTimers \/ RedactAtJobs
    \/ RedactSystemdTimers \/ RedactEnvFiles \/ RedactManifests \/ RedactGitRemotes \/ RedactSudoers
    \/ RedactShadow \/ StripSshKeys \/ ResolveHints \/ Decide \/ Done

Spec == Init /\ [][Next]_vars

-----------------------------------------------------------------------------
(* Properties                                                              *)

WholeSurfaces == {"cmdline", "genservice", "service"}
SharedSurfaces == {"config", "repo", "gpg", "dropin", "quadlet", "gencommand", "gentimer", "atjob",
                   "exec", "description", "timer", "envfile"}

Without(tx, gone) == LET kept == Where(tx, LAMBDA k : k \notin gone) IN [k \in DOMAIN kept |-> tx[kept[k]]]
Tokens(tx) == {i \in DOMAIN tx : IsA(tx, i, {"token"})}
Secrets(K, template) == UNION {SecretFrom(m, template) .. SecretTo(m, template) : m \in K}

\* Whatever way the matches of a text nest, touch or overlap, what is taken
\* out of it are the secrets of disjoint matches, and nothing else of the
\* text is lost; and every match that no other contains is one of these or
\* gives way to one that overlaps it and is at least as long
\* (dedup_overlapping_matches, replacement from the end).
SecretsReplaced ==
    \A i \in 1 .. pos \cap DOMAIN fields :
        LET tx == orig.fields[i].text
            M == AllMatches(tx, fields[i].path)
            template == fields[i].surface \in SharedSurfaces
            maximal == {m \in M : \A o \in M : ~(Within(m, o) /\ ~Within(o, m))} IN
        fields[i].surface \in SharedSurfaces \cup WholeSurfaces =>
            \E K \in SUBSET M :
                /\ \A a, b \in K : a # b => ~Overlap(a, b)
                /\ \A m \in maximal : \E k \in K : Overlap(m, k) /\ MWidth(tx, k) >= MWidth(tx, m)
                /\ Without(fields[i].text, Tokens(fields[i].text)) = Without(tx, Secrets(K, template))
                /\ Cardinality(Tokens(fields[i].text)) = Cardinality(K)

\* Fields that share the registry read the same after redaction exactly when
\* they did before: a secret keeps its token from one surface to the next,
\* and two secrets never get the same one (CounterRegistry::token_for).
SameStaysSame ==
    \A i, j \in 1 .. pos \cap DOMAIN fields :
        fields[i].surface \in SharedSurfaces /\ fields[j].surface \in SharedSurfaces =>
            (fields[i].text = fields[j].text <=> orig.fields[i].text = orig.fields[j].text)

\* Something a person has to look at: a flagged word that is still there or
\* that nothing compared with its field, a credential file, an empty
\* password, a directive whose URL was not found.
Unsettled ==
    \/ \E h \in Hints :
          /\ h.path \notin Allowlisted
          /\ \/ h.conf # "high"
             \/ PostFields(h.path) = {}
             \/ \E i \in PostFields(h.path) : h.word \in Range(fields[i].text)
    \/ \E i \in DOMAIN fields : LET f == orig.fields[i] IN
          \/ f.surface = "shadow" /\ Has(f.text, {"empty"})
          \/ f.surface = "fstab" /\ Has(f.text, {"cred"})
          \/ f.surface = "manifest" /\ \E k \in DOMAIN Lines(f.text) : Unlocatable(Lines(f.text)[k])

\* A certain hint whose word is gone and which a token brings back to mind.
OnlyInToken ==
    \E h \in Hints : /\ h.path \notin Allowlisted /\ h.conf = "high"
                     /\ \E i \in PostFields(h.path) :
                          \E atom \in Range(fields[i].text) : SpelledWith(atom, h.word)

\* The label tells the truth about the whole snapshot: FullyRedacted only when
\* no surface left anything unsettled, always then unless a token is spelled
\* like a flagged word, and never for a snapshot in which the operator kept
\* something (the HONESTY RULE of redact()).
LabelHonest ==
    state # "none" =>
        /\ state = "FullyRedacted" => orig.flags = {} /\ ~Unsettled
        /\ state = "PartiallyRedacted" => orig.flags = {} /\ (Unsettled \/ OnlyInToken)
        /\ orig.flags = {} => state \in {"FullyRedacted", "PartiallyRedacted"}

=============================================================================
