------------------------- MODULE RenderExportProofs -------------------------
(***************************************************************************)
(* Theorems about the exports, for every host, every decision and every    *)
(* number of sessions: what is staged and rendered follows the decisions,  *)
(* and the lines come in an order the build can run.                       *)
(***************************************************************************)
EXTENDS RenderExport, TLAPS

-----------------------------------------------------------------------------
(* Paths                                                                   *)

\* A prefix agrees with the sequence as far as it goes.
LEMMA PrefixIs ==
    ASSUME NEW S, NEW s \in Seq(S), NEW t \in Seq(S)
    PROVE  IsPrefix(s, t) <=> Len(s) <= Len(t) /\ \A i \in 1 .. Len(s) : s[i] = t[i]
<1>1. CASE Len(s) <= Len(t)
  <2>1. /\ SubSeq(s, 1, Len(s)) = [i \in 1 .. Len(s) |-> s[i]]
        /\ SubSeq(t, 1, Len(s)) = [i \in 1 .. Len(s) |-> t[i]]
    BY <1>1
  <2> QED BY <1>1, <2>1 DEF IsPrefix
<1> QED BY <1>1 DEF IsPrefix

\* A path without its last name is a path, and a prefix of it.
LEMMA FrontIs ==
    ASSUME NEW S, NEW s \in Seq(S)
    PROVE  Front(s) \in Seq(S) /\ IsPrefix(s, s) /\ IsPrefix(Front(s), s)
<1>1. CASE s = <<>>
  <2>1. Front(s) = s
    BY <1>1 DEF Front
  <2> QED BY <2>1, PrefixIs
<1>2. CASE s # <<>>
  <2>1. Len(s) - 1 \in Nat /\ Len(s) - 1 <= Len(s)
    BY <1>2
  <2>2. Front(s) = SubSeq(s, 1, Len(s) - 1)
    BY DEF Front
  <2>3. Front(s) \in Seq(S)
    BY <2>1, <2>2
  <2>4. SubSeq(s, 1, Len(s) - 1) = [i \in 1 .. Len(s) - 1 |-> s[i]]
    BY <2>1
  <2>5. DOMAIN Front(s) = 1 .. Len(s) - 1 /\ \A i \in 1 .. Len(s) - 1 : Front(s)[i] = s[i]
    BY <2>2, <2>4
  <2>6. Len(Front(s)) = Len(s) - 1
    <3> DEFINE f == Front(s)
    <3>1. f \in Seq(S) /\ DOMAIN f = 1 .. Len(s) - 1
      BY <2>3, <2>5
    <3> HIDE DEF f
    <3>2. Len(f) \in Nat /\ DOMAIN f = 1 .. Len(f)
      BY <3>1
    <3>3. Len(f) = Len(s) - 1
      BY <2>1, <3>1, <3>2
    <3> QED BY <3>3 DEF f
  <2> QED BY <2>1, <2>3, <2>5, <2>6, PrefixIs
<1> QED BY <1>1, <1>2

\* Two paths put below one directory stay prefixes of each other.
LEMMA PrefixBelow ==
    ASSUME NEW S, NEW a \in S, NEW s \in Seq(S), NEW t \in Seq(S), IsPrefix(s, t)
    PROVE  IsPrefix(<<a>> \o s, <<a>> \o t)
<1>1. <<a>> \o s \in Seq(S) /\ <<a>> \o t \in Seq(S)
  OBVIOUS
<1>2. Len(s) <= Len(t) /\ \A i \in 1 .. Len(s) : s[i] = t[i]
  BY PrefixIs
<1>3. Len(<<a>> \o s) = 1 + Len(s) /\ Len(<<a>> \o t) = 1 + Len(t)
  OBVIOUS
<1>4. ASSUME NEW i \in 1 .. 1 + Len(s) PROVE (<<a>> \o s)[i] = (<<a>> \o t)[i]
  <2>1. CASE i = 1
    BY <2>1
  <2>2. CASE i # 1
    <3>1. i - 1 \in 1 .. Len(s) /\ i - 1 \in 1 .. Len(t)
      BY <1>2, <2>2
    <3>2. (<<a>> \o s)[i] = s[i - 1] /\ (<<a>> \o t)[i] = t[i - 1]
      BY <1>2, <2>2
    <3> QED BY <1>2, <3>1, <3>2
  <2> QED BY <2>1, <2>2
<1> DEFINE x == <<a>> \o s
           y == <<a>> \o t
<1>5. x \in Seq(S) /\ y \in Seq(S) /\ Len(x) <= Len(y) /\ \A i \in 1 .. Len(x) : x[i] = y[i]
  BY <1>1, <1>2, <1>3, <1>4
<1> HIDE DEF x, y
<1>6. IsPrefix(x, y)
  BY <1>5, PrefixIs
<1> QED BY <1>6 DEF x, y

\* The prefixes of one, two and three names.
LEMMA ShortPrefix ==
    ASSUME NEW S, NEW a \in S, NEW b \in S, NEW c \in S, NEW t \in Seq(S)
    PROVE  /\ IsPrefix(<<a>>, t) <=> Len(t) > 0 /\ t[1] = a
           /\ IsPrefix(<<a, b>>, t) <=> Len(t) > 1 /\ t[1] = a /\ t[2] = b
           /\ IsPrefix(<<a, b, c>>, t) <=> Len(t) > 2 /\ t[1] = a /\ t[2] = b /\ t[3] = c
<1>1. /\ <<a, b>> \in Seq(S) /\ Len(<<a, b>>) = 2 /\ <<a, b>>[1] = a /\ <<a, b>>[2] = b
      /\ <<a, b, c>> \in Seq(S) /\ Len(<<a, b, c>>) = 3
      /\ <<a, b, c>>[1] = a /\ <<a, b, c>>[2] = b /\ <<a, b, c>>[3] = c
  OBVIOUS
<1>2. 1 .. 2 = {1, 2} /\ 1 .. 3 = {1, 2, 3} /\ Len(t) \in Nat
  OBVIOUS
<1>3. IsPrefix(<<a, b>>, t) <=> Len(t) > 1 /\ t[1] = a /\ t[2] = b
  <2> DEFINE s == <<a, b>>
  <2>1. s \in Seq(S)
    BY <1>1
  <2>2. Len(s) = 2 /\ s[1] = a /\ s[2] = b
    BY <1>1
  <2> HIDE DEF s
  <2>3. IsPrefix(s, t) <=> Len(s) <= Len(t) /\ \A i \in 1 .. Len(s) : s[i] = t[i]
    BY <2>1, PrefixIs
  <2>4. IsPrefix(s, t) <=> Len(t) > 1 /\ t[1] = a /\ t[2] = b
    BY <1>2, <2>2, <2>3
  <2> QED BY <2>4 DEF s
<1>4. IsPrefix(<<a, b, c>>, t) <=> Len(t) > 2 /\ t[1] = a /\ t[2] = b /\ t[3] = c
  <2> DEFINE s == <<a, b, c>>
  <2>1. s \in Seq(S)
    BY <1>1
  <2>2. Len(s) = 3 /\ s[1] = a /\ s[2] = b /\ s[3] = c
    BY <1>1
  <2> HIDE DEF s
  <2>3. IsPrefix(s, t) <=> Len(s) <= Len(t) /\ \A i \in 1 .. Len(s) : s[i] = t[i]
    BY <2>1, PrefixIs
  <2>4. IsPrefix(s, t) <=> Len(t) > 2 /\ t[1] = a /\ t[2] = b /\ t[3] = c
    BY <1>2, <2>2, <2>3
  <2> QED BY <2>4 DEF s
<1>5. IsPrefix(<<a>>, t) <=> Len(t) > 0 /\ t[1] = a
  <2> DEFINE s == <<a>>
  <2>1. s \in Seq(S)
    OBVIOUS
  <2>2. Len(s) = 1 /\ s[1] = a
    OBVIOUS
  <2> HIDE DEF s
  <2>3. IsPrefix(s, t) <=> Len(s) <= Len(t) /\ \A i \in 1 .. Len(s) : s[i] = t[i]
    BY <2>1, PrefixIs
  <2>4. IsPrefix(s, t) <=> Len(t) > 0 /\ t[1] = a
    BY <1>2, <2>2, <2>3
  <2> QED BY <2>4 DEF s
<1> QED BY <1>3, <1>4, <1>5

\* The first two names of a path are a prefix of it.
LEMMA TopPrefix ==
    ASSUME NEW S, NEW t \in Seq(S), Len(t) > 1
    PROVE  IsPrefix(<<t[1], t[2]>>, t)
<1>1. t[1] \in S /\ t[2] \in S
  OBVIOUS
<1>2. \A a, b \in S : IsPrefix(<<a, b>>, t) <=> Len(t) > 1 /\ t[1] = a /\ t[2] = b
  BY ShortPrefix
<1> QED BY <1>1, <1>2

\* A name appended to a path.
LEMMA AppendIs ==
    ASSUME NEW S, NEW u \in Seq(S), NEW x \in S
    PROVE  /\ Append(u, x) \in Seq(S) /\ Len(Append(u, x)) = Len(u) + 1
           /\ \A i \in 1 .. Len(u) : Append(u, x)[i] = u[i]
OBVIOUS

\* A path over some names is one over more names.
LEMMA Widen ==
    ASSUME NEW A, NEW B, A \subseteq B, NEW s \in Seq(A)
    PROVE  s \in Seq(B)
<1>1. s \in [1 .. Len(s) -> A] /\ Len(s) \in Nat
  OBVIOUS
<1>2. s \in [1 .. Len(s) -> B]
  BY <1>1
<1> QED BY <1>1, <1>2

\* A path put below a directory.
LEMMA BelowIs ==
    ASSUME NEW S, NEW a \in S, NEW s \in Seq(S), s # <<>>
    PROVE  /\ <<a>> \o s \in Seq(S) /\ Len(<<a>> \o s) = Len(s) + 1
           /\ (<<a>> \o s)[1] = a /\ (<<a>> \o s)[2] = s[1]
<1>1. Len(s) >= 1
  OBVIOUS
<1> QED BY <1>1

-----------------------------------------------------------------------------
(* The layout of a Containerfile                                           *)

\* The blocks of the sections, one after the other.
LEMMA Layout ==
    ASSUME NEW v, NEW roots
    PROVE  LET F == render_containerfile_inner(v, roots) IN
           /\ DOMAIN F = 1 .. 31
           /\ F[1] = packages_section_lines(v)[1] /\ F[2] = packages_section_lines(v)[2]
           /\ F[3] = packages_section_lines(v)[3] /\ F[4] = packages_section_lines(v)[4]
           /\ F[5] = packages_section_lines(v)[5] /\ F[6] = packages_section_lines(v)[6]
           /\ F[7] = packages_section_lines(v)[7] /\ F[8] = packages_section_lines(v)[8]
           /\ F[9] = packages_section_lines(v)[9]
           /\ F[10] = render_service_intent(v)[1] /\ F[11] = render_service_intent(v)[2]
           /\ F[12] = render_service_intent(v)[3]
           /\ F[13] = drop_ins_section_lines(v)[1]
           /\ F[14] = scheduled_tasks_section_lines(v)[1] /\ F[15] = scheduled_tasks_section_lines(v)[2]
           /\ F[16] = scheduled_tasks_section_lines(v)[3]
           /\ F[17] = config_section_lines(v, roots)[1]
           /\ F[18] = language_package_lines(v)[1] /\ F[19] = language_package_lines(v)[2]
           /\ F[20] = unmanaged_file_lines(v)[1]
           /\ F[21] = repoless_rpm_lines(v)[1] /\ F[22] = repoless_rpm_lines(v)[2]
           /\ F[23] = containers_section_lines(v)[1] /\ F[24] = containers_section_lines(v)[2]
           /\ F[25] = render_containerfile_users(v)[1] /\ F[26] = render_containerfile_users(v)[2]
           /\ F[27] = render_containerfile_users(v)[3]
           /\ F[28] = kernel_boot_section_lines(v)[1]
           /\ F[29] = selinux_section_lines(v)[1] /\ F[30] = selinux_section_lines(v)[2]
           /\ F[31] = var_dir_section_lines(v)[1]
<1> DEFINE F == render_containerfile_inner(v, roots)
           b1 == packages_section_lines(v)[1]
           b2 == packages_section_lines(v)[2]
           b3 == packages_section_lines(v)[3]
           b4 == packages_section_lines(v)[4]
           b5 == packages_section_lines(v)[5]
           b6 == packages_section_lines(v)[6]
           b7 == packages_section_lines(v)[7]
           b8 == packages_section_lines(v)[8]
           b9 == packages_section_lines(v)[9]
           b10 == render_service_intent(v)[1]
           b11 == render_service_intent(v)[2]
           b12 == render_service_intent(v)[3]
           b13 == drop_ins_section_lines(v)[1]
           b14 == scheduled_tasks_section_lines(v)[1]
           b15 == scheduled_tasks_section_lines(v)[2]
           b16 == scheduled_tasks_section_lines(v)[3]
           b17 == config_section_lines(v, roots)[1]
           b18 == language_package_lines(v)[1]
           b19 == language_package_lines(v)[2]
           b20 == unmanaged_file_lines(v)[1]
           b21 == repoless_rpm_lines(v)[1]
           b22 == repoless_rpm_lines(v)[2]
           b23 == containers_section_lines(v)[1]
           b24 == containers_section_lines(v)[2]
           b25 == render_containerfile_users(v)[1]
           b26 == render_containerfile_users(v)[2]
           b27 == render_containerfile_users(v)[3]
           b28 == kernel_boot_section_lines(v)[1]
           b29 == selinux_section_lines(v)[1]
           b30 == selinux_section_lines(v)[2]
           b31 == var_dir_section_lines(v)[1]
<1>1. packages_section_lines(v) = <<b1, b2, b3, b4, b5, b6, b7, b8, b9>>
  BY DEF packages_section_lines
<1>2. render_service_intent(v) = <<b10, b11, b12>>
  BY DEF render_service_intent
<1>3. drop_ins_section_lines(v) = <<b13>>
  BY DEF drop_ins_section_lines
<1>4. scheduled_tasks_section_lines(v) = <<b14, b15, b16>>
  BY DEF scheduled_tasks_section_lines
<1>5. config_section_lines(v, roots) = <<b17>>
  BY DEF config_section_lines
<1>6. language_package_lines(v) = <<b18, b19>>
  BY DEF language_package_lines
<1>7. unmanaged_file_lines(v) = <<b20>>
  BY DEF unmanaged_file_lines
<1>8. repoless_rpm_lines(v) = <<b21, b22>>
  BY DEF repoless_rpm_lines
<1>9. containers_section_lines(v) = <<b23, b24>>
  BY DEF containers_section_lines
<1>10. render_containerfile_users(v) = <<b25, b26, b27>>
  BY DEF render_containerfile_users
<1>11. kernel_boot_section_lines(v) = <<b28>>
  BY DEF kernel_boot_section_lines
<1>12. selinux_section_lines(v) = <<b29, b30>>
  BY DEF selinux_section_lines
<1>13. var_dir_section_lines(v) = <<b31>>
  BY DEF var_dir_section_lines
<1> HIDE DEF b1, b2, b3, b4, b5, b6, b7, b8, b9, b10, b11, b12, b13, b14, b15, b16, b17,
      b18, b19, b20, b21, b22, b23, b24, b25, b26, b27, b28, b29, b30, b31
<1>14. F = <<b1, b2, b3, b4, b5, b6, b7, b8, b9>> \o <<b10, b11, b12>> \o <<b13>> \o
           <<b14, b15, b16>> \o <<b17>> \o <<b18, b19>> \o <<b20>> \o
           <<b21, b22>> \o <<b23, b24>> \o <<b25, b26, b27>> \o <<b28>> \o
           <<b29, b30>> \o <<b31>>
  BY <1>1, <1>2, <1>3, <1>4, <1>5, <1>6, <1>7, <1>8, <1>9, <1>10, <1>11, <1>12, <1>13 DEF render_containerfile_inner
<1> HIDE DEF F
<1>15. /\ DOMAIN F = 1 .. 31
       /\ F[1] = b1 /\ F[2] = b2 /\ F[3] = b3 /\ F[4] = b4 /\ F[5] = b5
       /\ F[6] = b6 /\ F[7] = b7 /\ F[8] = b8 /\ F[9] = b9 /\ F[10] = b10
       /\ F[11] = b11 /\ F[12] = b12 /\ F[13] = b13 /\ F[14] = b14 /\ F[15] = b15
       /\ F[16] = b16 /\ F[17] = b17 /\ F[18] = b18 /\ F[19] = b19 /\ F[20] = b20
       /\ F[21] = b21 /\ F[22] = b22 /\ F[23] = b23 /\ F[24] = b24 /\ F[25] = b25
       /\ F[26] = b26 /\ F[27] = b27 /\ F[28] = b28 /\ F[29] = b29 /\ F[30] = b30
       /\ F[31] = b31
  BY <1>14
<1> QED BY <1>15 DEF F, b1, b2, b3, b4, b5, b6, b7, b8, b9, b10, b11, b12, b13, b14, b15,
      b16, b17, b18, b19, b20, b21, b22, b23, b24, b25, b26, b27, b28, b29, b30, b31

\* Every block has the lines of its kind only.
LEMMA OpsInPlace ==
    ASSUME NEW v, NEW roots
    PROVE  LET F == render_containerfile_inner(v, roots) IN
           /\ \A l \in F[1] : l.op = "COPY"
           /\ \A l \in F[2] : l.op = "COPY"
           /\ \A l \in F[3] : l.op = "import"
           /\ \A l \in F[4] : l.op = "module"
           /\ \A l \in F[5] : l.op = "groupinstall"
           /\ \A l \in F[6] : l.op \in {"fixme", "enable_repo"}
           /\ \A l \in F[7] : l.op = "install"
           /\ \A l \in F[8] : l.op = "todo"
           /\ \A l \in F[9] : l.op \in {"install", "versionlock"}
           /\ \A l \in F[10] : l.op = "enable"
           /\ \A l \in F[11] : l.op = "disable"
           /\ \A l \in F[12] : l.op = "mask"
           /\ \A l \in F[13] : l.op = "COPY"
           /\ \A l \in F[14] : l.op = "COPY"
           /\ \A l \in F[15] : l.op = "enable"
           /\ \A l \in F[16] : l.op = "enable"
           /\ \A l \in F[17] : l.op = "COPY"
           /\ \A l \in F[18] : l.op = "COPY"
           /\ \A l \in F[19] : l.op = "langinstall"
           /\ \A l \in F[20] : l.op \in {"COPY", "link"}
           /\ \A l \in F[21] : l.op = "COPY"
           /\ \A l \in F[22] : l.op \in {"rpminstall", "fixme", "manual"}
           /\ \A l \in F[23] : l.op = "COPY"
           /\ \A l \in F[24] : l.op = "enable"
           /\ \A l \in F[25] : l.op = "groupadd"
           /\ \A l \in F[26] : l.op = "useradd"
           /\ \A l \in F[27] : l.op = "COPY"
           /\ \A l \in F[28] : l.op \in {"COPY", "tuned", "enable"}
           /\ \A l \in F[29] : l.op = "install"
           /\ \A l \in F[30] : l.op = "semanage"
           /\ \A l \in F[31] : l.op \in {"COPY", "mkdir", "fixme"}
<1> DEFINE F == render_containerfile_inner(v, roots)
<1>1. \A l \in F[1] : l.op = "COPY"
  <2>1. \A l \in packages_section_lines(v)[1] : l.op = "COPY"
    BY DEF packages_section_lines, gpg_copies, gpg_imports, Line, Copy, If
  <2>2. F[1] = packages_section_lines(v)[1]
    BY Layout
  <2> HIDE DEF F
  <2> QED BY <2>1, <2>2
<1>2. \A l \in F[2] : l.op = "COPY"
  <2>1. \A l \in packages_section_lines(v)[2] : l.op = "COPY"
    BY DEF packages_section_lines, gpg_copies, gpg_imports, Line, Copy, If
  <2>2. F[2] = packages_section_lines(v)[2]
    BY Layout
  <2> HIDE DEF F
  <2> QED BY <2>1, <2>2
<1>3. \A l \in F[3] : l.op = "import"
  <2>1. \A l \in packages_section_lines(v)[3] : l.op = "import"
    BY DEF packages_section_lines, gpg_copies, gpg_imports, Line, Copy, If
  <2>2. F[3] = packages_section_lines(v)[3]
    BY Layout
  <2> HIDE DEF F
  <2> QED BY <2>1, <2>2
<1>4. \A l \in F[4] : l.op = "module"
  <2>1. \A l \in packages_section_lines(v)[4] : l.op = "module"
    BY DEF packages_section_lines, gpg_copies, gpg_imports, Line, Copy, If
  <2>2. F[4] = packages_section_lines(v)[4]
    BY Layout
  <2> HIDE DEF F
  <2> QED BY <2>1, <2>2
<1>5. \A l \in F[5] : l.op = "groupinstall"
  <2>1. \A l \in packages_section_lines(v)[5] : l.op = "groupinstall"
    BY DEF packages_section_lines, gpg_copies, gpg_imports, Line, Copy, If
  <2>2. F[5] = packages_section_lines(v)[5]
    BY Layout
  <2> HIDE DEF F
  <2> QED BY <2>1, <2>2
<1>6. \A l \in F[6] : l.op \in {"fixme", "enable_repo"}
  <2>1. \A l \in packages_section_lines(v)[6] : l.op \in {"fixme", "enable_repo"}
    BY DEF packages_section_lines, gpg_copies, gpg_imports, Line, Copy, If
  <2>2. F[6] = packages_section_lines(v)[6]
    BY Layout
  <2> HIDE DEF F
  <2> QED BY <2>1, <2>2
<1>7. \A l \in F[7] : l.op = "install"
  <2>1. \A l \in packages_section_lines(v)[7] : l.op = "install"
    BY DEF packages_section_lines, gpg_copies, gpg_imports, Line, Copy, If
  <2>2. F[7] = packages_section_lines(v)[7]
    BY Layout
  <2> HIDE DEF F
  <2> QED BY <2>1, <2>2
<1>8. \A l \in F[8] : l.op = "todo"
  <2>1. \A l \in packages_section_lines(v)[8] : l.op = "todo"
    BY DEF packages_section_lines, gpg_copies, gpg_imports, Line, Copy, If
  <2>2. F[8] = packages_section_lines(v)[8]
    BY Layout
  <2> HIDE DEF F
  <2> QED BY <2>1, <2>2
<1>9. \A l \in F[9] : l.op \in {"install", "versionlock"}
  <2>1. \A l \in packages_section_lines(v)[9] : l.op \in {"install", "versionlock"}
    BY DEF packages_section_lines, gpg_copies, gpg_imports, Line, Copy, If
  <2>2. F[9] = packages_section_lines(v)[9]
    BY Layout
  <2> HIDE DEF F
  <2> QED BY <2>1, <2>2
<1>10. \A l \in F[10] : l.op = "enable"
  <2>1. \A l \in render_service_intent(v)[1] : l.op = "enable"
    BY DEF render_service_intent, Line, Copy, If
  <2>2. F[10] = render_service_intent(v)[1]
    BY Layout
  <2> HIDE DEF F
  <2> QED BY <2>1, <2>2
<1>11. \A l \in F[11] : l.op = "disable"
  <2>1. \A l \in render_service_intent(v)[2] : l.op = "disable"
    BY DEF render_service_intent, Line, Copy, If
  <2>2. F[11] = render_service_intent(v)[2]
    BY Layout
  <2> HIDE DEF F
  <2> QED BY <2>1, <2>2
<1>12. \A l \in F[12] : l.op = "mask"
  <2>1. \A l \in render_service_intent(v)[3] : l.op = "mask"
    BY DEF render_service_intent, Line, Copy, If
  <2>2. F[12] = render_service_intent(v)[3]
    BY Layout
  <2> HIDE DEF F
  <2> QED BY <2>1, <2>2
<1>13. \A l \in F[13] : l.op = "COPY"
  <2>1. \A l \in drop_ins_section_lines(v)[1] : l.op = "COPY"
    BY DEF drop_ins_section_lines, Line, Copy, If
  <2>2. F[13] = drop_ins_section_lines(v)[1]
    BY Layout
  <2> HIDE DEF F
  <2> QED BY <2>1, <2>2
<1>14. \A l \in F[14] : l.op = "COPY"
  <2>1. \A l \in scheduled_tasks_section_lines(v)[1] : l.op = "COPY"
    BY DEF scheduled_tasks_section_lines, Line, Copy, If
  <2>2. F[14] = scheduled_tasks_section_lines(v)[1]
    BY Layout
  <2> HIDE DEF F
  <2> QED BY <2>1, <2>2
<1>15. \A l \in F[15] : l.op = "enable"
  <2>1. \A l \in scheduled_tasks_section_lines(v)[2] : l.op = "enable"
    BY DEF scheduled_tasks_section_lines, Line, Copy, If
  <2>2. F[15] = scheduled_tasks_section_lines(v)[2]
    BY Layout
  <2> HIDE DEF F
  <2> QED BY <2>1, <2>2
<1>16. \A l \in F[16] : l.op = "enable"
  <2>1. \A l \in scheduled_tasks_section_lines(v)[3] : l.op = "enable"
    BY DEF scheduled_tasks_section_lines, Line, Copy, If
  <2>2. F[16] = scheduled_tasks_section_lines(v)[3]
    BY Layout
  <2> HIDE DEF F
  <2> QED BY <2>1, <2>2
<1>17. \A l \in F[17] : l.op = "COPY"
  <2>1. \A l \in config_section_lines(v, roots)[1] : l.op = "COPY"
    BY DEF config_section_lines, Line, Copy, If
  <2>2. F[17] = config_section_lines(v, roots)[1]
    BY Layout
  <2> HIDE DEF F
  <2> QED BY <2>1, <2>2
<1>18. \A l \in F[18] : l.op = "COPY"
  <2>1. \A l \in language_package_lines(v)[1] : l.op = "COPY"
    BY DEF language_package_lines, Line, Copy, If
  <2>2. F[18] = language_package_lines(v)[1]
    BY Layout
  <2> HIDE DEF F
  <2> QED BY <2>1, <2>2
<1>19. \A l \in F[19] : l.op = "langinstall"
  <2>1. \A l \in language_package_lines(v)[2] : l.op = "langinstall"
    BY DEF language_package_lines, Line, Copy, If
  <2>2. F[19] = language_package_lines(v)[2]
    BY Layout
  <2> HIDE DEF F
  <2> QED BY <2>1, <2>2
<1>20. \A l \in F[20] : l.op \in {"COPY", "link"}
  <2>1. \A l \in unmanaged_file_lines(v)[1] : l.op \in {"COPY", "link"}
    <3> SUFFICES ASSUME NEW l \in unmanaged_file_lines(v)[1] PROVE l.op \in {"COPY", "link"}
      OBVIOUS
    <3>1. \E s : l = Copy(s) \/ l = Line("link", s)
      BY DEF unmanaged_file_lines
    <3> QED BY <3>1 DEF Copy, Line
  <2>2. F[20] = unmanaged_file_lines(v)[1]
    BY Layout
  <2> HIDE DEF F
  <2> QED BY <2>1, <2>2
<1>21. \A l \in F[21] : l.op = "COPY"
  <2>1. \A l \in repoless_rpm_lines(v)[1] : l.op = "COPY"
    BY DEF repoless_rpm_lines, Line, Copy, If
  <2>2. F[21] = repoless_rpm_lines(v)[1]
    BY Layout
  <2> HIDE DEF F
  <2> QED BY <2>1, <2>2
<1>22. \A l \in F[22] : l.op \in {"rpminstall", "fixme", "manual"}
  <2>1. \A l \in repoless_rpm_lines(v)[2] : l.op \in {"rpminstall", "fixme", "manual"}
    BY DEF repoless_rpm_lines, Line, Copy, If
  <2>2. F[22] = repoless_rpm_lines(v)[2]
    BY Layout
  <2> HIDE DEF F
  <2> QED BY <2>1, <2>2
<1>23. \A l \in F[23] : l.op = "COPY"
  <2>1. \A l \in containers_section_lines(v)[1] : l.op = "COPY"
    BY DEF containers_section_lines, Line, Copy, If
  <2>2. F[23] = containers_section_lines(v)[1]
    BY Layout
  <2> HIDE DEF F
  <2> QED BY <2>1, <2>2
<1>24. \A l \in F[24] : l.op = "enable"
  <2>1. \A l \in containers_section_lines(v)[2] : l.op = "enable"
    BY DEF containers_section_lines, Line, Copy, If
  <2>2. F[24] = containers_section_lines(v)[2]
    BY Layout
  <2> HIDE DEF F
  <2> QED BY <2>1, <2>2
<1>25. \A l \in F[25] : l.op = "groupadd"
  <2>1. \A l \in render_containerfile_users(v)[1] : l.op = "groupadd"
    <3> SUFFICES ASSUME NEW l \in render_containerfile_users(v)[1] PROVE l.op = "groupadd"
      OBVIOUS
    <3>1. \E s : l = Line("groupadd", s)
      BY DEF render_containerfile_users
    <3> QED BY <3>1 DEF Line
  <2>2. F[25] = render_containerfile_users(v)[1]
    BY Layout
  <2> HIDE DEF F
  <2> QED BY <2>1, <2>2
<1>26. \A l \in F[26] : l.op = "useradd"
  <2>1. \A l \in render_containerfile_users(v)[2] : l.op = "useradd"
    BY DEF render_containerfile_users, Line, Copy, If
  <2>2. F[26] = render_containerfile_users(v)[2]
    BY Layout
  <2> HIDE DEF F
  <2> QED BY <2>1, <2>2
<1>27. \A l \in F[27] : l.op = "COPY"
  <2>1. \A l \in render_containerfile_users(v)[3] : l.op = "COPY"
    BY DEF render_containerfile_users, Line, Copy, If
  <2>2. F[27] = render_containerfile_users(v)[3]
    BY Layout
  <2> HIDE DEF F
  <2> QED BY <2>1, <2>2
<1>28. \A l \in F[28] : l.op \in {"COPY", "tuned", "enable"}
  <2>1. \A l \in kernel_boot_section_lines(v)[1] : l.op \in {"COPY", "tuned", "enable"}
    BY DEF kernel_boot_section_lines, Line, Copy, If
  <2>2. F[28] = kernel_boot_section_lines(v)[1]
    BY Layout
  <2> HIDE DEF F
  <2> QED BY <2>1, <2>2
<1>29. \A l \in F[29] : l.op = "install"
  <2>1. \A l \in selinux_section_lines(v)[1] : l.op = "install"
    BY DEF selinux_section_lines, Line, Copy, If
  <2>2. F[29] = selinux_section_lines(v)[1]
    BY Layout
  <2> HIDE DEF F
  <2> QED BY <2>1, <2>2
<1>30. \A l \in F[30] : l.op = "semanage"
  <2>1. \A l \in selinux_section_lines(v)[2] : l.op = "semanage"
    BY DEF selinux_section_lines, Line, Copy, If
  <2>2. F[30] = selinux_section_lines(v)[2]
    BY Layout
  <2> HIDE DEF F
  <2> QED BY <2>1, <2>2
<1>31. \A l \in F[31] : l.op \in {"COPY", "mkdir", "fixme"}
  <2>1. \A l \in var_dir_section_lines(v)[1] : l.op \in {"COPY", "mkdir", "fixme"}
    BY DEF var_dir_section_lines, Line, Copy, If
  <2>2. F[31] = var_dir_section_lines(v)[1]
    BY Layout
  <2> HIDE DEF F
  <2> QED BY <2>1, <2>2
<1> QED BY <1>1, <1>2, <1>3, <1>4, <1>5, <1>6, <1>7, <1>8, <1>9, <1>10, <1>11, <1>12,
      <1>13, <1>14, <1>15, <1>16, <1>17, <1>18, <1>19, <1>20, <1>21, <1>22, <1>23, <1>24,
      <1>25, <1>26, <1>27, <1>28, <1>29, <1>30, <1>31

-----------------------------------------------------------------------------
(* The state of an export                                                  *)

\* The packages an upload may be for, d those an earlier export demoted.
Claimable(d) == {p \in Of("pkg") : Is(p, "annotated") \/ p \in d}

View ==
    {v \in [inc : SUBSET Host, touched : SUBSET Host, uploaded : SUBSET Of("pkg"),
            verified : SUBSET Of("pkg"), demoted : SUBSET Of("pkg"),
            groups : SUBSET Of("group"), refine : BOOLEAN] :
        v.uploaded \cup v.verified \subseteq Claimable(v.demoted)}

\* A view before any upload was proved: what all stages up to the proof see.
Base(v) == [v EXCEPT !.verified = {}]

RpmsOf(P) == {repoless_file(p) : p \in P}

\* The packages whose cached RPM a refine export takes over.
Taken(v) == {p \in Included(v, "pkg") : Is(p, "cached") /\ p \notin v.uploaded /\ ~Is(p, "unnamed")}

\* Everything an export may stage, apart from the proved uploads.
AllFiles(kind, v) ==
    write_config_tree(v) \cup write_env_files(v) \cup write_tmpfiles_conf(v)
      \cup write_language_package_manifests(v) \cup stage_ssh_keys(v)
      \cup variant_files \cup compose_files
      \cup {<<"unmanaged">> \o f.rel : f \in Included(v, "unmanaged")}
      \cup IF kind = "scan" THEN RpmsOf({p \in Of("pkg") : Is(p, "cached")})
           ELSE RpmsOf(Taken(v))

\* The view of a running or finished export of the open session.
Plan(v) ==
    /\ v.inc = inc /\ v.uploaded = uploaded /\ v.demoted = demoted /\ v.groups = {}
    /\ v.touched = (inc \ inc0) \cup (inc0 \ inc) /\ v.refine = TRUE
    /\ v.verified \subseteq uploaded \cap inc
ViewOf(kind, v) == v \in View /\ IF kind = "scan" THEN v = ScanView(v.inc) ELSE Plan(v)

Counts == [decisions : Nat, uploads : Nat, faults : Nat, exports : Nat, opens : Nat]

Typed ==
    /\ inc \in SUBSET Host /\ inc0 \in SUBSET Host
    /\ demoted \in SUBSET Of("pkg")
    /\ uploaded \in SUBSET Claimable(demoted) /\ staged \in SUBSET Claimable(demoted)
    /\ count \in Counts
    /\ DOMAIN job = {"kind", "at", "v", "roots", "file"} /\ job.kind \in {"none", "scan", "refine"}
    /\ DOMAIN out = {"kind", "v", "tree", "file", "warn"}
    /\ job.kind = "refine" => out.kind \in {"scan", "refine", "past"}

\* What the stages behind the running export have done.
Running ==
    job.kind # "none" =>
        /\ ViewOf(job.kind, job.v)
        /\ job.kind = "scan" => job.v.inc = inc
        /\ job.at \in IF job.kind = "scan" THEN 1 .. 9 ELSE 1 .. 12
        /\ job.at = 1 => tree = {}
        /\ job.at > 1 => job.roots = config_copy_roots(write_config_tree(Base(job.v)))
        /\ (IF job.kind = "scan" THEN job.at > 5 ELSE job.at > 11) =>
              job.file = render_containerfile_inner(job.v, job.roots)
        /\ tree \subseteq AllFiles(job.kind, Base(job.v)) \cup RpmsOf(job.v.verified)
        /\ job.kind = "refine" /\ job.at <= 8 => job.v.verified = {}
        /\ job.kind = "refine" /\ job.at > 8 =>
              /\ RpmsOf(job.v.verified) \subseteq tree
              /\ warn = (uploaded \cap inc) \ job.v.verified
              /\ count.faults = 0 => job.v.verified = uploaded \cap inc \cap staged

\* What is known of a finished export while the session has not moved on.
Finished ==
    Done =>
        /\ ViewOf(out.kind, out.v)
        /\ out.file = render_containerfile_inner(out.v, config_copy_roots(write_config_tree(Base(out.v))))
        /\ out.tree \subseteq AllFiles(out.kind, Base(out.v)) \cup RpmsOf(out.v.verified)
        /\ out.kind = "refine" =>
              /\ RpmsOf(out.v.verified) \subseteq out.tree
              /\ out.warn = (uploaded \cap inc) \ out.v.verified
              /\ count.faults = 0 => out.v.verified = uploaded \cap inc \cap staged

\* The preview is the view of the session as it is.
Previewed ==
    out.kind \in {"scan", "refine", "past"} /\ count.faults = 0 =>
        preview = recompute_view(inc, inc0, demoted, uploaded, staged)

IInv == Typed /\ Running /\ Finished /\ Previewed

\* The view without proved uploads is a view, the same one before the proof.
LEMMA BaseFacts ==
    ASSUME NEW v \in View
    PROVE  /\ Base(v) \in View /\ Base(v).inc = v.inc /\ Base(v).uploaded = v.uploaded
           /\ v.verified = {} => Base(v) = v
BY DEF View, Base

\* The stage an action belongs to tells how far the export is.
LEMMA Positions ==
    ASSUME Typed, Running, job.kind # "none"
    PROVE  /\ At("config") => job.at = 1
           /\ At("env") => job.at = 2
           /\ At("tmpfiles") => job.at = 3
           /\ At("manifests") => job.at = IF job.kind = "scan" THEN 4 ELSE 6
           /\ At("users") => job.at = IF job.kind = "scan" THEN 6 ELSE 4
           /\ At("containerfile") => job.at = IF job.kind = "scan" THEN 5 ELSE 11
           /\ At("variants") => job.kind = "refine" /\ job.at = 5
           /\ At("payload") => job.kind = "refine" /\ job.at = 7
           /\ At("uploads") => job.kind = "refine" /\ job.at = 8
           /\ At("compose") => job.kind = "refine" /\ job.at = 9
           /\ At("strip") => job.kind = "refine" /\ job.at = 10
           /\ At("bundle_unmanaged") => job.kind = "scan" /\ job.at = 7
           /\ At("bundle_repoless") => job.kind = "scan" /\ job.at = 8
           /\ At("tarball") => job.at = IF job.kind = "scan" THEN 9 ELSE 12
<1>1. CASE job.kind = "scan"
  <2>1. job.at \in 1 .. 9
    BY <1>1 DEF Running
  <2> QED BY <1>1, <2>1 DEF At, Stages, ScanStages
<1>2. CASE job.kind = "refine"
  <2>1. job.at \in 1 .. 12
    BY <1>2 DEF Running
  <2> QED BY <1>2, <2>1 DEF At, Stages, RefineStages
<1> QED BY <1>1, <1>2 DEF Typed

\* A stage that only adds files of the plan keeps the invariant.
LEMMA AddKeeps ==
    ASSUME IInv, NEW stage, NEW fs, Add(stage, fs), fs \subseteq AllFiles(job.kind, Base(job.v)),
           job.at > 1,
           job.at \notin IF job.kind = "scan" THEN {5, 9} ELSE {8, 11, 12}
    PROVE  IInv'
<1> DEFINE A == AllFiles(job.kind, Base(job.v))
<1>1. job.kind \in {"scan", "refine"} /\ job.at \in Nat
  BY DEF IInv, Typed, Running, Add, At
<1>2. /\ job' = [job EXCEPT !.at = @ + 1] /\ tree' = tree \cup fs
      /\ UNCHANGED <<session, warn, out>>
  BY DEF Add, Advance
<1>3. job'.kind = job.kind /\ job'.at = job.at + 1 /\ job'.v = job.v /\ job'.roots = job.roots /\ job'.file = job.file
  BY <1>2 DEF IInv, Typed
<1>4. UNCHANGED <<inc0, inc, demoted, uploaded, staged, src, preview, gone, count, warn, out>>
  BY <1>2 DEF session
<1>5. Typed'
  BY <1>2, <1>3, <1>4 DEF IInv, Typed, Claimable, Of, Is
<1>6. ViewOf(job.kind, job.v)' = ViewOf(job.kind, job.v)
  BY <1>3, <1>4 DEF ViewOf, Plan, View, Claimable, ScanView, Of, Is
<1>7. A' = A
  BY <1>3 DEF AllFiles
<1>8. Running'
  BY <1>1, <1>2, <1>3, <1>4, <1>6, <1>7 DEF IInv, Running, RpmsOf
<1>9. Finished'
  BY <1>1, <1>3 DEF Finished, Done
<1>10. Previewed'
  BY <1>4 DEF IInv, Previewed, recompute_view
<1> QED BY <1>5, <1>8, <1>9, <1>10 DEF IInv

\* A stage that leaves the session and the last export alone.
LEMMA StageKeeps ==
    ASSUME IInv, job.kind # "none", job'.kind = job.kind, DOMAIN job' = DOMAIN job,
           UNCHANGED <<session, out>>, Running'
    PROVE  IInv'
<1>1. UNCHANGED <<inc0, inc, demoted, uploaded, staged, src, preview, gone, count, out>>
  BY DEF session
<1>2. Typed'
  BY <1>1 DEF IInv, Typed, Claimable, Of, Is
<1>3. Finished'
  BY DEF Finished, Done
<1>4. Previewed'
  BY <1>1 DEF IInv, Previewed, recompute_view
<1> QED BY <1>2, <1>3, <1>4 DEF IInv

\* Up to the proof of the uploads the export works on a view without any.
LEMMA Unproved ==
    ASSUME IInv, job.kind # "none", job.kind = "scan" \/ job.at <= 8
    PROVE  job.v \in View /\ Base(job.v) = job.v
<1>1. job.v \in View /\ ViewOf(job.kind, job.v) /\ job.kind \in {"scan", "refine"}
  BY DEF IInv, Typed, Running, ViewOf
<1>2. job.v.verified = {}
  <2>1. CASE job.kind = "scan"
    BY <1>1, <2>1 DEF ViewOf, ScanView
  <2>2. CASE job.kind # "scan"
    BY <1>1, <2>2 DEF IInv, Running
  <2> QED BY <2>1, <2>2
<1> QED BY <1>1, <1>2, BaseFacts

\* Writing the config tree starts the staging.
LEMMA ConfigKeeps ==
    ASSUME IInv, WriteConfigTree
    PROVE  IInv'
<1>1. job.kind \in {"scan", "refine"} /\ job.at = 1
  BY Positions DEF IInv, Typed, WriteConfigTree, At
<1>2. Base(job.v) = job.v
  BY <1>1, Unproved
<1>3. /\ tree' = write_config_tree(job.v) /\ UNCHANGED <<session, warn, out>>
      /\ job' = [job EXCEPT !.at = @ + 1, !.roots = config_copy_roots(write_config_tree(job.v))]
  BY DEF WriteConfigTree
<1>4. /\ job'.kind = job.kind /\ job'.at = 2 /\ job'.v = job.v /\ job'.file = job.file
      /\ job'.roots = config_copy_roots(write_config_tree(job.v)) /\ DOMAIN job' = DOMAIN job
  BY <1>1, <1>3 DEF IInv, Typed
<1>5. UNCHANGED <<inc0, inc, demoted, uploaded, staged, count>>
  BY <1>3 DEF session
<1>6. ViewOf(job.kind, job.v)' = ViewOf(job.kind, job.v)
  BY <1>4, <1>5 DEF ViewOf, Plan, View, Claimable, ScanView, Of, Is
<1>7. tree' \subseteq AllFiles(job'.kind, Base(job'.v))
  BY <1>2, <1>3, <1>4 DEF AllFiles
<1>8. job'.kind = "refine" => job'.v.verified = {}
  BY <1>1, <1>4 DEF IInv, Running
<1>9. /\ job'.at \in IF job'.kind = "scan" THEN 1 .. 9 ELSE 1 .. 12
      /\ job'.roots = config_copy_roots(write_config_tree(Base(job'.v)))
  BY <1>1, <1>2, <1>4
<1>10. Running'
  BY <1>1, <1>4, <1>5, <1>6, <1>7, <1>8, <1>9 DEF IInv, Running
<1> QED BY <1>1, <1>3, <1>4, <1>10, StageKeeps

\* The uploads stage fixes what the Containerfile and the warning are about.
LEMMA UploadsKeeps ==
    ASSUME IInv, copy_proved_uploads
    PROVE  IInv'
<1> DEFINE proved == job.v.uploaded \cap job.v.inc \cap staged
<1>1. job.kind = "refine" /\ job.at = 8
  BY Positions DEF IInv, Typed, copy_proved_uploads, At
<1>2. job.v \in View /\ Base(job.v) = job.v /\ Plan(job.v)
  BY <1>1, Unproved DEF IInv, Running, ViewOf
<1>3. /\ tree' = tree \cup RpmsOf(proved) /\ UNCHANGED <<session, out>>
      /\ job' = [job EXCEPT !.at = @ + 1, !.v.verified = proved]
      /\ warn' = (job.v.uploaded \cap job.v.inc) \ proved
  BY DEF copy_proved_uploads, prove_staged_uploads, RpmsOf
<1>4. /\ job'.kind = job.kind /\ job'.at = 9 /\ job'.v = [job.v EXCEPT !.verified = proved]
      /\ job'.file = job.file /\ job'.roots = job.roots /\ DOMAIN job' = DOMAIN job
  BY <1>1, <1>3 DEF IInv, Typed
<1>5. UNCHANGED <<inc0, inc, demoted, uploaded, staged, count>>
  BY <1>3 DEF session
<1>6. /\ proved = uploaded \cap inc \cap staged /\ proved \subseteq Claimable(job.v.demoted)
      /\ job'.v \in View /\ job'.v.verified = proved /\ Plan(job.v)'
  BY <1>2, <1>4, <1>5 DEF Plan, View, Of
<1>7. Base(job'.v) = job.v
  BY <1>2, <1>4 DEF Base, View
<1> HIDE DEF proved
<1>8. ViewOf(job.kind, job.v)'
  BY <1>1, <1>4, <1>6 DEF ViewOf, View, Claimable, Of, Is
<1>9. tree \subseteq AllFiles(job.kind, job.v)
  BY <1>1, <1>2 DEF IInv, Running, RpmsOf
<1>10. job.roots = config_copy_roots(write_config_tree(job.v))
  BY <1>1, <1>2 DEF IInv, Running
<1>11. warn' = (uploaded \cap inc) \ proved
  BY <1>2, <1>3 DEF Plan
<1>12. tree' \subseteq AllFiles(job'.kind, Base(job'.v)) \cup RpmsOf(job'.v.verified)
  BY <1>3, <1>4, <1>6, <1>7, <1>9
<1>13. /\ job'.roots = config_copy_roots(write_config_tree(Base(job'.v)))
       /\ RpmsOf(job'.v.verified) \subseteq tree'
       /\ warn' = (uploaded' \cap inc') \ job'.v.verified
       /\ job'.v.verified = uploaded' \cap inc' \cap staged'
  BY <1>3, <1>4, <1>5, <1>6, <1>7, <1>10, <1>11
<1>14. Running'
  BY <1>1, <1>4, <1>8, <1>12, <1>13 DEF Running
<1> QED BY <1>1, <1>3, <1>4, <1>14, StageKeeps

\* The top-level filter keeps the uploads.
LEMMA StripKeeps ==
    ASSUME IInv, StripTopLevel
    PROVE  IInv'
<1>1. job.kind = "refine" /\ job.at = 10
  BY Positions DEF IInv, Typed, StripTopLevel, At
<1>2. /\ tree' = {p \in tree : p[1] \in allowed_top_level} /\ UNCHANGED <<session, warn, out>>
      /\ job' = [job EXCEPT !.at = @ + 1]
  BY DEF StripTopLevel, Advance
<1>3. /\ job'.kind = job.kind /\ job'.at = 11 /\ job'.v = job.v
      /\ job'.file = job.file /\ job'.roots = job.roots /\ DOMAIN job' = DOMAIN job
  BY <1>1, <1>2 DEF IInv, Typed
<1>4. UNCHANGED <<inc0, inc, demoted, uploaded, staged, count, warn>>
  BY <1>2 DEF session
<1>5. ViewOf(job.kind, job.v)' = ViewOf(job.kind, job.v)
  BY <1>3, <1>4 DEF ViewOf, Plan, View, Claimable, ScanView, Of, Is
<1>6. \A f \in RpmsOf(job.v.verified) : f[1] \in allowed_top_level
  BY DEF RpmsOf, repoless_file, allowed_top_level
<1>7. RpmsOf(job.v.verified) \subseteq tree /\ tree \subseteq AllFiles(job.kind, Base(job.v)) \cup RpmsOf(job.v.verified)
  BY <1>1 DEF IInv, Running
<1>8. /\ RpmsOf(job'.v.verified) \subseteq tree'
      /\ tree' \subseteq AllFiles(job'.kind, Base(job'.v)) \cup RpmsOf(job'.v.verified)
  BY <1>2, <1>3, <1>6, <1>7
<1>9. Running'
  BY <1>1, <1>3, <1>4, <1>5, <1>8 DEF IInv, Running
<1> QED BY <1>1, <1>2, <1>3, <1>9, StageKeeps

\* The Containerfile is rendered from the view and the roots of this export.
LEMMA ContainerfileKeeps ==
    ASSUME IInv, WriteContainerfile
    PROVE  IInv'
<1>1. /\ job.kind \in {"scan", "refine"}
      /\ job.at = IF job.kind = "scan" THEN 5 ELSE 11
  BY Positions DEF IInv, Typed, WriteContainerfile, At
<1>2. /\ job' = [job EXCEPT !.at = @ + 1, !.file = render_containerfile_inner(job.v, job.roots)]
      /\ UNCHANGED <<session, tree, warn, out>>
  BY DEF WriteContainerfile
<1>3. /\ job'.kind = job.kind /\ job'.at = job.at + 1 /\ job'.v = job.v
      /\ job'.file = render_containerfile_inner(job'.v, job'.roots)
      /\ job'.roots = job.roots /\ DOMAIN job' = DOMAIN job
  BY <1>1, <1>2 DEF IInv, Typed
<1>4. UNCHANGED <<inc0, inc, demoted, uploaded, staged, count, warn, tree>>
  BY <1>2 DEF session
<1>5. ViewOf(job.kind, job.v)' = ViewOf(job.kind, job.v)
  BY <1>3, <1>4 DEF ViewOf, Plan, View, Claimable, ScanView, Of, Is
<1>6. tree' \subseteq AllFiles(job'.kind, Base(job'.v)) \cup RpmsOf(job'.v.verified)
  BY <1>1, <1>3, <1>4 DEF IInv, Running
<1>7. Running'
  BY <1>1, <1>3, <1>4, <1>5, <1>6 DEF IInv, Running
<1> QED BY <1>1, <1>2, <1>3, <1>7, StageKeeps

\* A scan that cannot read a file it bundles stops without an export.
LEMMA FailureKeeps ==
    ASSUME IInv, job' = [job EXCEPT !.kind = "none"], tree' = {},
           out' = NoExport("failed"), UNCHANGED <<session, warn>>
    PROVE  IInv'
<1>1. UNCHANGED <<inc0, inc, demoted, uploaded, staged, count>>
  BY DEF session
<1>2. /\ job'.kind = "none" /\ DOMAIN job' = DOMAIN job
      /\ out'.kind = "failed" /\ DOMAIN out' = DOMAIN out
  BY DEF IInv, Typed, NoExport
<1>3. Typed'
  BY <1>1, <1>2 DEF IInv, Typed, Claimable, Of, Is
<1> QED BY <1>2, <1>3 DEF IInv, Running, Finished, Done, Previewed

\* Bundling adds files of the plan or ends the scan.
LEMMA BundleKeeps ==
    ASSUME IInv, bundle_unmanaged_files \/ bundle_repoless_rpms
    PROVE  IInv'
<1>1. CASE bundle_unmanaged_files
  <2> DEFINE fs == {<<"unmanaged">> \o f.rel : f \in unmanaged_files(job.v)}
  <2>1. job.kind = "scan" /\ job.at = 7
    BY <1>1, Positions DEF IInv, Typed, bundle_unmanaged_files, Bundle, At
  <2>2. CASE unmanaged_files(job.v) \cap gone = {}
    <3>1. Add("bundle_unmanaged", fs)
      BY <1>1, <2>2 DEF bundle_unmanaged_files, Bundle, Add
    <3>2. fs \subseteq AllFiles(job.kind, Base(job.v))
      BY <2>1, Unproved DEF AllFiles, unmanaged_files
    <3> QED BY <2>1, <3>1, <3>2, AddKeeps
  <2>3. CASE unmanaged_files(job.v) \cap gone # {}
    BY <1>1, <2>3, FailureKeeps DEF bundle_unmanaged_files, Bundle
  <2> QED BY <2>2, <2>3
<1>2. CASE bundle_repoless_rpms
  <2> DEFINE items == {p \in Of("pkg") : Is(p, "cached")}
  <2>1. job.kind = "scan" /\ job.at = 8
    BY <1>2, Positions DEF IInv, Typed, bundle_repoless_rpms, Bundle, At
  <2>2. CASE items \cap gone = {}
    <3>1. Add("bundle_repoless", RpmsOf(items))
      BY <1>2, <2>2 DEF bundle_repoless_rpms, Bundle, Add, RpmsOf
    <3>2. RpmsOf(items) \subseteq AllFiles(job.kind, Base(job.v))
      BY <2>1 DEF AllFiles
    <3> QED BY <2>1, <3>1, <3>2, AddKeeps
  <2>3. CASE items \cap gone # {}
    BY <1>2, <2>3, FailureKeeps DEF bundle_repoless_rpms, Bundle
  <2> QED BY <2>2, <2>3
<1> QED BY <1>1, <1>2

\* The writers that add the files of the view.
LEMMA WritersKeep ==
    ASSUME IInv, \/ WriteEnvFiles \/ WriteTmpfiles \/ WriteManifests \/ StageUsers
                 \/ write_aggregate_variants \/ extract_payload_dirs \/ WriteCompose
    PROVE  IInv'
<1>1. CASE WriteEnvFiles
  <2>1. job.at = 2 /\ job.kind # "none" /\ Add("env", write_env_files(job.v))
    BY <1>1, Positions DEF IInv, WriteEnvFiles, Add, At
  <2>2. write_env_files(job.v) \subseteq AllFiles(job.kind, Base(job.v))
    BY <2>1, Unproved DEF AllFiles
  <2> QED BY <2>1, <2>2, AddKeeps
<1>2. CASE WriteTmpfiles
  <2>1. job.at = 3 /\ job.kind # "none" /\ Add("tmpfiles", write_tmpfiles_conf(job.v))
    BY <1>2, Positions DEF IInv, WriteTmpfiles, Add, At
  <2>2. write_tmpfiles_conf(job.v) \subseteq AllFiles(job.kind, Base(job.v))
    BY <2>1, Unproved DEF AllFiles
  <2> QED BY <2>1, <2>2, AddKeeps
<1>3. CASE WriteManifests
  <2>1. /\ job.at = IF job.kind = "scan" THEN 4 ELSE 6
        /\ job.kind # "none" /\ Add("manifests", write_language_package_manifests(job.v))
    BY <1>3, Positions DEF IInv, WriteManifests, Add, At
  <2>2. write_language_package_manifests(job.v) \subseteq AllFiles(job.kind, Base(job.v))
    BY <2>1, Unproved DEF AllFiles
  <2> QED BY <2>1, <2>2, AddKeeps
<1>4. CASE StageUsers
  <2>1. /\ job.at = IF job.kind = "scan" THEN 6 ELSE 4
        /\ job.kind # "none" /\ Add("users", stage_ssh_keys(job.v))
    BY <1>4, Positions DEF IInv, StageUsers, Add, At
  <2>2. stage_ssh_keys(job.v) \subseteq AllFiles(job.kind, Base(job.v))
    BY <2>1, Unproved DEF AllFiles
  <2> QED BY <2>1, <2>2, AddKeeps
<1>5. CASE write_aggregate_variants
  <2>1. job.kind = "refine" /\ job.at = 5 /\ Add("variants", variant_files)
    BY <1>5, Positions DEF IInv, write_aggregate_variants, Add, At
  <2>2. variant_files \subseteq AllFiles(job.kind, Base(job.v))
    BY DEF AllFiles
  <2> QED BY <2>1, <2>2, AddKeeps
<1>6. CASE extract_payload_dirs
  <2>1. job.kind = "refine" /\ job.at = 7 /\ Add("payload", payload_files(job.v))
    BY <1>6, Positions DEF IInv, extract_payload_dirs, Add, At
  <2>2. payload_files(job.v) \subseteq AllFiles(job.kind, Base(job.v))
    BY <2>1, Unproved DEF AllFiles, payload_files, RpmsOf, Taken
  <2> QED BY <2>1, <2>2, AddKeeps
<1>7. CASE WriteCompose
  <2>1. job.kind = "refine" /\ job.at = 9 /\ Add("compose", compose_files)
    BY <1>7, Positions DEF IInv, WriteCompose, Add, At
  <2>2. compose_files \subseteq AllFiles(job.kind, Base(job.v))
    BY DEF AllFiles
  <2> QED BY <2>1, <2>2, AddKeeps
<1> QED BY <1>1, <1>2, <1>3, <1>4, <1>5, <1>6, <1>7

\* A finished export is what its stages staged and rendered.
LEMMA TarballKeeps ==
    ASSUME IInv, CreateTarball
    PROVE  IInv'
<1>1. /\ job.kind \in {"scan", "refine"}
      /\ job.at = IF job.kind = "scan" THEN 9 ELSE 12
  BY Positions DEF IInv, Typed, CreateTarball, At
<1>2. /\ out' = [kind |-> job.kind, v |-> job.v, tree |-> tree, file |-> job.file, warn |-> warn]
      /\ job' = [job EXCEPT !.kind = "none"]
      /\ UNCHANGED <<demoted, uploaded, staged, count>>
      /\ job.kind # "scan" => UNCHANGED <<inc0, inc, preview>>
      /\ job.kind = "scan" => inc0' = normalize_defaults(inc, demoted) /\ inc' = inc0'
  BY DEF CreateTarball
<1>3. job'.kind = "none" /\ DOMAIN job' = DOMAIN job
  BY <1>2 DEF IInv, Typed
<1>4. /\ DOMAIN out' = {"kind", "v", "tree", "file", "warn"}
      /\ out'.kind = job.kind /\ out'.v = job.v /\ out'.tree = tree
      /\ out'.file = job.file /\ out'.warn = warn
  BY <1>2
<1>5. Typed'
  <2>1. inc' \in SUBSET Host /\ inc0' \in SUBSET Host
    BY <1>1, <1>2 DEF IInv, Typed, normalize_defaults
  <2> QED BY <1>2, <1>3, <1>4, <2>1 DEF IInv, Typed, Claimable, Of, Is
<1>6. ViewOf(out.kind, out.v)'
  <2>1. ViewOf(job.kind, job.v)
    BY <1>1 DEF IInv, Running
  <2> QED BY <1>2, <1>4, <2>1 DEF ViewOf, Plan, View, Claimable, ScanView, Of, Is
<1>7. out'.file = render_containerfile_inner(out'.v, config_copy_roots(write_config_tree(Base(out'.v))))
  BY <1>1, <1>4 DEF IInv, Running
<1>8. out'.tree \subseteq AllFiles(out'.kind, Base(out'.v)) \cup RpmsOf(out'.v.verified)
  BY <1>1, <1>4 DEF IInv, Running
<1>9. out'.kind = "refine" =>
          /\ RpmsOf(out'.v.verified) \subseteq out'.tree
          /\ out'.warn = (uploaded' \cap inc') \ out'.v.verified
          /\ count'.faults = 0 => out'.v.verified = uploaded' \cap inc' \cap staged'
  BY <1>1, <1>2, <1>4 DEF IInv, Running
<1>10. Finished'
  BY <1>6, <1>7, <1>8, <1>9 DEF Finished
<1>11. Previewed'
  <2>1. CASE job.kind = "scan"
    <3>1. preview' = recompute_view(inc', inc0', demoted', uploaded', staged')
      BY <2>1 DEF CreateTarball, recompute_view
    <3> QED BY <3>1 DEF Previewed
  <2>2. CASE job.kind = "refine"
    <3>1. UNCHANGED preview /\ out.kind \in {"scan", "refine", "past"}
      BY <2>2 DEF CreateTarball, IInv, Typed
    <3>2. UNCHANGED <<inc, inc0, demoted, uploaded, staged, count>>
      BY <1>2, <2>2
    <3> QED BY <3>1, <3>2 DEF IInv, Previewed, recompute_view
  <2> QED BY <1>1, <2>1, <2>2
<1> QED BY <1>3, <1>5, <1>10, <1>11 DEF IInv, Running

\* A decision or an upload: the last export is past and the preview anew.
LEMMA DecisionKeeps ==
    ASSUME IInv, NEW h \in Host,
           SetInclude(h, TRUE) \/ SetInclude(h, FALSE) \/ SetUploaded(h)
    PROVE  IInv'
<1>1. /\ job.kind = "none" /\ UNCHANGED job /\ UNCHANGED inc0
      /\ UNCHANGED demoted /\ out' = NoExport("past")
      /\ \/ count' = [count EXCEPT !["decisions"] = @ + 1]
         \/ count' = [count EXCEPT !["uploads"] = @ + 1]
      /\ preview' = recompute_view(inc', inc0', demoted', uploaded', staged')
  BY DEF SetInclude, SetUploaded, Open, Bump, recompute_view
<1>2. inc' \subseteq Host /\ uploaded' \subseteq Claimable(demoted) /\ staged' \subseteq Claimable(demoted)
  BY DEF SetInclude, SetUploaded, IInv, Typed, Claimable
<1>3. out'.kind = "past" /\ DOMAIN out' = DOMAIN out
  BY <1>1 DEF IInv, Typed, NoExport
<1>4. count' \in Counts
  BY <1>1 DEF IInv, Typed, Counts
<1>5. Typed'
  BY <1>1, <1>2, <1>3, <1>4 DEF IInv, Typed, Claimable, Of, Is
<1>6. Previewed'
  BY <1>1 DEF Previewed
<1> QED BY <1>1, <1>3, <1>5, <1>6 DEF IInv, Running, Finished, Done

\* An export starts on the plan of the session.
LEMMA StartKeeps ==
    ASSUME IInv, StartExport
    PROVE  IInv'
<1> DEFINE plan == without_render_context(export_plan)
<1>1. /\ out.kind \in {"scan", "refine", "past"} /\ tree' = {}
      /\ job' = [kind |-> "refine", at |-> 1, v |-> plan, roots |-> {}, file |-> <<>>]
      /\ UNCHANGED <<inc0, inc, demoted, uploaded, staged, preview, out>>
      /\ count' = [count EXCEPT !["exports"] = @ + 1]
  BY DEF StartExport, Open, Bump
<1>2. count' \in Counts /\ count'.faults = count.faults
  BY <1>1 DEF IInv, Typed, Counts
<1>3. /\ job'.kind = "refine" /\ job'.at = 1 /\ job'.v = plan
      /\ DOMAIN job' = {"kind", "at", "v", "roots", "file"}
  BY <1>1
<1>4. Typed'
  BY <1>1, <1>2, <1>3 DEF IInv, Typed, Claimable, Of, Is
<1>5. plan \in View /\ Plan(plan) /\ plan.verified = {}
  BY DEF export_plan, without_render_context, View, Plan, IInv, Typed, Claimable, Of
<1> HIDE DEF plan
<1>6. ViewOf(job.kind, job.v)'
  <2>1. job'.v \in View /\ Plan(job.v)'
    BY <1>1, <1>3, <1>5 DEF Plan
  <2> QED BY <1>3, <2>1 DEF ViewOf, View, Claimable, Of, Is
<1>7. Running'
  BY <1>1, <1>3, <1>5, <1>6 DEF Running
<1>8. Finished'
  BY <1>3 DEF Finished, Done
<1>9. Previewed'
  BY <1>1, <1>2 DEF IInv, Previewed, recompute_view
<1> QED BY <1>4, <1>7, <1>8, <1>9 DEF IInv

\* A session opened on an export starts from its decisions and marks.
LEMMA OpenKeeps ==
    ASSUME IInv, OpenExport
    PROVE  IInv'
<1>1. /\ Done /\ job.kind = "none" /\ out.kind = "refine" /\ UNCHANGED job
      /\ demoted' = out.v.demoted \cup demote_unserved(out.v)
      /\ inc0' = normalize_defaults(out.v.inc, demoted') /\ inc' = inc0'
      /\ uploaded' = out.v.uploaded /\ staged' = {}
      /\ preview' = recompute_view(inc', inc0', demoted', uploaded', staged')
      /\ out' = NoExport("past")
      /\ count' = [count EXCEPT !.opens = @ + 1, !.exports = 0]
  BY DEF OpenExport, Done, recompute_view
<1>2. out.v \in View
  BY <1>1 DEF IInv, Finished, ViewOf
<1>3. out'.kind = "past" /\ DOMAIN out' = DOMAIN out
  BY <1>1 DEF IInv, Typed, NoExport
<1>4. count' \in Counts
  <2>1. count \in Counts
    BY DEF IInv, Typed
  <2>2. count' = [decisions |-> count.decisions, uploads |-> count.uploads, faults |-> count.faults,
                  exports |-> 0, opens |-> count.opens + 1]
    BY <1>1, <2>1 DEF Counts
  <2>3. count.decisions \in Nat /\ count.uploads \in Nat /\ count.faults \in Nat /\ count.opens + 1 \in Nat
    BY <2>1 DEF Counts
  <2> QED BY <2>2, <2>3 DEF Counts
<1> DEFINE d == out.v.demoted \cup demote_unserved(out.v)
<1>7. d \in SUBSET Of("pkg") /\ out.v.uploaded \subseteq Claimable(d)
  BY <1>2 DEF View, Claimable, demote_unserved, Included
<1>8. normalize_defaults(out.v.inc, d) \in SUBSET Host
  BY DEF normalize_defaults
<1> HIDE DEF d
<1>9. demoted' = d /\ inc' = normalize_defaults(out.v.inc, d) /\ inc0' = inc'
  BY <1>1 DEF d
<1>5. Typed'
  BY <1>1, <1>3, <1>4, <1>7, <1>8, <1>9 DEF IInv, Typed, Claimable, Of, Is
<1>6. Previewed'
  BY <1>1 DEF Previewed
<1> QED BY <1>1, <1>3, <1>5, <1>6 DEF IInv, Running, Finished, Done

\* A lost file touches nothing that a finished export was made of.
LEMMA FaultKeeps ==
    ASSUME IInv, NEW h \in Host, HostFileVanishes(h) \/ StagedFileLost(h)
    PROVE  IInv'
<1>1. /\ UNCHANGED <<inc0, inc, demoted, uploaded, preview, job, tree, warn, out>>
      /\ count' = [count EXCEPT !["faults"] = @ + 1]
      /\ staged' \subseteq staged
  BY DEF HostFileVanishes, StagedFileLost, Bump
<1>2. count' \in Counts /\ count'.faults # 0
  BY <1>1 DEF IInv, Typed, Counts
<1>3. Typed'
  BY <1>1, <1>2 DEF IInv, Typed, Claimable, Of, Is
<1>4. /\ ViewOf(job.kind, job.v)' = ViewOf(job.kind, job.v)
      /\ ViewOf(out.kind, out.v)' = ViewOf(out.kind, out.v)
  BY <1>1 DEF ViewOf, Plan, View, Claimable, ScanView, Of, Is
<1>5. Running'
  BY <1>1, <1>2, <1>4 DEF IInv, Running
<1>6. Finished'
  BY <1>1, <1>2, <1>4 DEF IInv, Finished, Done
<1>7. Previewed'
  BY <1>2 DEF Previewed
<1> QED BY <1>3, <1>5, <1>6, <1>7 DEF IInv

\* What the stages of an export have staged, rendered and warned about at
\* every point follows the decisions of the session it runs in.
THEOREM ExportFollowsPlan == Spec => []IInv
<1>1. Init => IInv
  <2> SUFFICES ASSUME Init PROVE IInv
    OBVIOUS
  <2>1. Typed
    BY RenderAssumption DEF Init, Typed, Claimable, Counts, NoExport
  <2>2. job.v = ScanView(inc) /\ job.kind = "scan" /\ job.at = 1 /\ tree = {} /\ out.kind = "none"
    BY DEF Init, NoExport
  <2>3. ScanView(inc) \in View
    BY <2>1 DEF Typed, ScanView, View, Claimable
  <2>4. Running
    BY <2>2, <2>3 DEF Running, ViewOf, ScanView
  <2> QED BY <2>1, <2>2, <2>4 DEF IInv, Finished, Done, Previewed
<1>2. IInv /\ [Next]_vars => IInv'
  <2> SUFFICES ASSUME IInv, [Next]_vars PROVE IInv'
    OBVIOUS
  <2>1. CASE Step
    BY <2>1, ConfigKeeps, WritersKeep, BundleKeeps, UploadsKeeps, StripKeeps,
       ContainerfileKeeps, TarballKeeps DEF Step
  <2>2. CASE \E h \in Host : SetInclude(h, TRUE) \/ SetInclude(h, FALSE)
                               \/ SetUploaded(h) \/ HostFileVanishes(h) \/ StagedFileLost(h)
    BY <2>2, DecisionKeeps, FaultKeeps
  <2>3. CASE StartExport
    BY <2>3, StartKeeps
  <2>4. CASE OpenExport
    BY <2>4, OpenKeeps
  <2>5. CASE UNCHANGED vars
    <3>1. UNCHANGED <<inc0, inc, demoted, uploaded, staged, preview, job, tree, warn, out, count>>
      BY <2>5 DEF vars
    <3>2. Typed'
      BY <3>1 DEF IInv, Typed, Claimable, Of, Is
    <3>3. /\ ViewOf(job.kind, job.v)' = ViewOf(job.kind, job.v)
          /\ ViewOf(out.kind, out.v)' = ViewOf(out.kind, out.v)
      BY <3>1 DEF ViewOf, Plan, View, Claimable, ScanView, Of, Is
    <3>4. Running'
      BY <3>1, <3>3 DEF IInv, Running
    <3>5. Finished'
      BY <3>1, <3>3 DEF IInv, Finished, Done
    <3>6. Previewed'
      BY <3>1 DEF IInv, Previewed, recompute_view
    <3> QED BY <3>2, <3>4, <3>5, <3>6 DEF IInv
  <2> QED BY <2>1, <2>2, <2>3, <2>4, <2>5 DEF Next
<1> QED BY <1>1, <1>2, PTL DEF Spec

-----------------------------------------------------------------------------
(* The preview                                                             *)

\* The config tree, and with it the copied roots, follow the includes only.
LEMMA SameTree ==
    ASSUME NEW v, NEW w, v.inc = w.inc
    PROVE  write_config_tree(v) = write_config_tree(w)
<1>1. \A k : Included(v, k) = Included(w, k)
  BY DEF Included
<1>2. config_files(v) = config_files(w) /\ plain_files(v) = plain_files(w)
  BY <1>1 DEF config_files, plain_files
<1>3. timer_files(v) = timer_files(w)
  BY <1>1 DEF timer_files
<1> QED BY <1>1, <1>2, <1>3 DEF write_config_tree

\* The group installs of a Containerfile are those of its view.
LEMMA GroupBlock ==
    ASSUME NEW v, NEW roots
    PROVE  render_containerfile_inner(v, roots)[5] = {Line("groupinstall", <<g.id>>) : g \in v.groups}
<1>1. render_containerfile_inner(v, roots)[5] = packages_section_lines(v)[5]
  BY Layout
<1> QED BY <1>1 DEF packages_section_lines

\* The view of the preview without its groups.
LEMMA PreviewWithout ==
    ASSUME NEW i, NEW i0, NEW d, NEW u, NEW s
    PROVE  without_render_context(recompute_view(i, i0, d, u, s)) =
              [inc |-> i, touched |-> (i \ i0) \cup (i0 \ i), uploaded |-> u, verified |-> u \cap i \cap s,
               demoted |-> d, groups |-> {}, refine |-> TRUE]
<1> DEFINE b == (i \ i0) \cup (i0 \ i)
           e == u \cap i \cap s
           g == derive_group_state(i)
<1>1. recompute_view(i, i0, d, u, s) =
        [inc |-> i, touched |-> b, uploaded |-> u, verified |-> e,
         demoted |-> d, groups |-> g, refine |-> TRUE]
  BY DEF recompute_view
<1>2. without_render_context(recompute_view(i, i0, d, u, s)) =
        [inc |-> i, touched |-> b, uploaded |-> u, verified |-> e,
         demoted |-> d, groups |-> {}, refine |-> TRUE]
  <2> DEFINE r == TRUE
  <2>1. recompute_view(i, i0, d, u, s) =
          [inc |-> i, touched |-> b, uploaded |-> u, verified |-> e,
           demoted |-> d, groups |-> g, refine |-> r]
    BY <1>1
  <2> HIDE DEF b, e, g, r
  <2>2. without_render_context(recompute_view(i, i0, d, u, s)) =
          [inc |-> i, touched |-> b, uploaded |-> u, verified |-> e,
           demoted |-> d, groups |-> {}, refine |-> r]
    BY <2>1 DEF without_render_context
  <2> QED BY <2>2 DEF r
<1> QED BY <1>2

\* The Containerfile of a download is the one the session shows rendered
\* without its groups, as long as no file was lost, so it is the one shown
\* exactly when no group is renderable: containerfile_preview,
\* without_render_context and the export.
THEOREM DownloadIsPreviewButGroups == Spec => []PreviewButGroups
<1>1. IInv => PreviewButGroups
  <2> DEFINE w == without_render_context(preview)
  <2> SUFFICES ASSUME IInv, Done, out.kind = "refine", count.faults = 0
               PROVE  \A v \in {preview, w} : (out.file = containerfile_preview(v)) <=> (v.groups = {})
    BY DEF PreviewButGroups
  <2>1. /\ out.v \in View /\ Plan(out.v)
        /\ out.v.verified = uploaded \cap inc \cap staged
        /\ out.file = render_containerfile_inner(out.v, config_copy_roots(write_config_tree(Base(out.v))))
    BY DEF IInv, Finished, ViewOf
  <2>2. preview = recompute_view(inc, inc0, demoted, uploaded, staged)
    BY DEF IInv, Previewed
  <2>3. out.v = [inc |-> out.v.inc, touched |-> out.v.touched, uploaded |-> out.v.uploaded,
                 verified |-> out.v.verified, demoted |-> out.v.demoted,
                 groups |-> out.v.groups, refine |-> out.v.refine]
    BY <2>1 DEF View
  <2>4. w = out.v
    <3> DEFINE r == [inc |-> inc, touched |-> (inc \ inc0) \cup (inc0 \ inc), uploaded |-> uploaded,
                     verified |-> uploaded \cap inc \cap staged, demoted |-> demoted,
                     groups |-> {}, refine |-> TRUE]
    <3>1. w = r
      BY <2>2, PreviewWithout
    <3>2. /\ out.v.inc = inc /\ out.v.uploaded = uploaded /\ out.v.demoted = demoted /\ out.v.groups = {}
          /\ out.v.touched = (inc \ inc0) \cup (inc0 \ inc) /\ out.v.refine = TRUE
      BY <2>1 DEF Plan
    <3>3. out.v = r
      BY <2>1, <2>3, <3>2
    <3> QED BY <3>1, <3>3
  <2>5. write_config_tree(Base(out.v)) = write_config_tree(out.v)
    BY <2>1, BaseFacts, SameTree
  <2>6. out.file = containerfile_preview(w)
    BY <2>1, <2>4, <2>5 DEF containerfile_preview
  <2>7. ASSUME preview.groups = {} PROVE out.file = containerfile_preview(preview)
    <3>1. w = preview
      BY <2>2, <2>7 DEF without_render_context, recompute_view
    <3> QED BY <2>6, <3>1
  <2>8. ASSUME preview.groups # {} PROVE out.file # containerfile_preview(preview)
    <3>1. out.file[5] = {Line("groupinstall", <<g.id>>) : g \in {}}
      <4>1. out.file[5] = {Line("groupinstall", <<g.id>>) : g \in out.v.groups} /\ out.v.groups = {}
        <5> DEFINE roots == config_copy_roots(write_config_tree(Base(out.v)))
        <5>1. out.file = render_containerfile_inner(out.v, roots) /\ out.v.groups = {}
          BY <2>1 DEF Plan
        <5> HIDE DEF roots
        <5> QED BY <5>1, GroupBlock
      <4> QED BY <4>1
    <3>2. containerfile_preview(preview)[5] = {Line("groupinstall", <<g.id>>) : g \in preview.groups}
      BY GroupBlock DEF containerfile_preview
    <3> QED BY <2>8, <3>1, <3>2
  <2>9. w.groups = {}
    BY <2>1, <2>4 DEF Plan
  <2> QED BY <2>6, <2>7, <2>8, <2>9
<1> QED BY <1>1, ExportFollowsPlan, PTL

-----------------------------------------------------------------------------
(* The origin of every staged file                                         *)

\* A path put below a directory starts with the directory.
LEMMA Below ==
    ASSUME NEW S, NEW a, NEW s \in Seq(S)
    PROVE  /\ (<<a>> \o s)[1] = a
           /\ \A b : (<<a, b>> \o s)[1] = a
<1>1. Len(<<a>> \o s) >= 1 /\ (<<a>> \o s)[1] = a
  OBVIOUS
<1>2. ASSUME NEW b PROVE (<<a, b>> \o s)[1] = a
  OBVIOUS
<1> QED BY <1>1, <1>2

\* So does the path of a unit.
LEMMA UnitBelow ==
    ASSUME NEW x
    PROVE  (<<"config">> \o Append(UnitDir, x))[1] = "config"
<1> DEFINE S == {"etc", "systemd", "system", x}
<1>1. UnitDir \in Seq(S) /\ x \in S
  BY DEF UnitDir
<1> HIDE DEF S
<1>2. Append(UnitDir, x) \in Seq(S)
  BY <1>1
<1> QED BY <1>2, Below

Listed == {"config", "drop-ins", "quadlet", "unmanaged"}
Other == {"subscription", "sysctl", "flatpak", "env-files", "language-packages", "users",
          "aggregate", "compose"}
AccountedFor(f, v) == f[1] \in Listed /\ \E k \in v.inc \cup Of("localtimer") : f \in FilesOf(k)

\* The files a finding asks for are below the directories of the findings.
LEMMA FilesBelow ==
    ASSUME NEW h \in Host, NEW f \in FilesOf(h)
    PROVE  f[1] \in Listed
<1>1. h.rel \in Seq(STRING)
  BY HostAssumption
<1>2. CASE h.kind \in {"config", "repo", "gpg", "zone"}
  BY <1>1, <1>2, Below DEF FilesOf, Listed
<1>3. CASE h.kind = "dropin"
  BY <1>1, <1>3, Below DEF FilesOf, Listed
<1>4. CASE h.kind = "quadlet"
  BY <1>4 DEF FilesOf, Listed
<1>5. CASE h.kind = "unmanaged"
  BY <1>1, <1>5, Below DEF FilesOf, Listed
<1>6. CASE h.kind \in {"gentimer", "localtimer"}
  BY <1>6, UnitBelow DEF FilesOf, Listed
<1> QED BY <1>2, <1>3, <1>4, <1>5, <1>6 DEF FilesOf

\* What write_config_tree writes.
LEMMA ConfigTreeOrigin ==
    ASSUME NEW v \in View, NEW f \in write_config_tree(v)
    PROVE  AccountedFor(f, v) \/ f = KargsConf \/ f[1] \in Other
<1>1. v.inc \subseteq Host /\ \A h \in Host : h.rel \in Seq(STRING)
  BY HostAssumption DEF View
<1>2. ASSUME NEW k \in v.inc \cup Of("localtimer"), f \in FilesOf(k) PROVE AccountedFor(f, v)
  BY <1>1, <1>2, FilesBelow DEF AccountedFor, Of
<1>3. CASE f \in config_files(v)
  <2>1. PICK c \in Included(v, "config") : f = <<"config">> \o c.rel
    BY <1>3 DEF config_files
  <2>2. c \in v.inc /\ f \in FilesOf(c)
    BY <2>1 DEF Included, Of, FilesOf
  <2> QED BY <1>2, <2>2
<1>4. CASE f \in plain_files(v)
  <2>1. PICK c \in Included(v, "repo") \cup Included(v, "gpg") \cup Included(v, "zone") :
           f = <<"config">> \o c.rel
    BY <1>4 DEF plain_files
  <2>2. c \in v.inc /\ f \in FilesOf(c)
    BY <2>1 DEF Included, Of, FilesOf
  <2> QED BY <1>2, <2>2
<1>5. CASE f \in timer_files(v)
  <2>1. PICK t \in Included(v, "gentimer") \cup Of("localtimer") :
           f \in {<<"config">> \o Append(UnitDir, t.id), <<"config">> \o Append(UnitDir, t.owner)}
    BY <1>5 DEF timer_files
  <2>2. t \in v.inc \cup Of("localtimer") /\ f \in FilesOf(t)
    BY <2>1 DEF Included, Of, FilesOf
  <2> QED BY <1>2, <2>2
<1>6. CASE f \in subscription_files
  BY <1>1, <1>6, Below DEF subscription_files, Of, Other
<1>7. CASE f \in {SysctlConf, <<"flatpak", "flatpak-install.json">>, <<"flatpak", "flatpak-provision.service">>}
  BY <1>7 DEF SysctlConf, Other
<1>8. CASE f \in {<<"drop-ins">> \o d.rel : d \in {x \in Included(v, "dropin") : ~Is(x, "refused")}}
  <2>1. PICK d \in Included(v, "dropin") : f = <<"drop-ins">> \o d.rel
    BY <1>8
  <2>2. d \in v.inc /\ f \in FilesOf(d)
    BY <2>1 DEF Included, Of, FilesOf
  <2> QED BY <1>2, <2>2
<1>9. CASE f \in {<<"quadlet", q.id>> : q \in {x \in Included(v, "quadlet") : Is(x, "content")}}
  <2>1. PICK q \in Included(v, "quadlet") : f = <<"quadlet", q.id>>
    BY <1>9
  <2>2. q \in v.inc /\ f \in FilesOf(q)
    BY <2>1 DEF Included, Of, FilesOf
  <2> QED BY <1>2, <2>2
<1> QED BY <1>3, <1>4, <1>5, <1>6, <1>7, <1>8, <1>9 DEF write_config_tree, If

\* Where every staged file comes from.
LEMMA Origin ==
    ASSUME NEW v \in View, NEW kind, NEW f \in AllFiles(kind, v)
    PROVE  \/ AccountedFor(f, v) \/ f \in {KargsConf, TmpfilesConf} \/ f[1] \in Other
           \/ f \in RpmsOf(IF kind = "scan" THEN {p \in Of("pkg") : Is(p, "cached")}
                           ELSE Taken(v))
<1>1. v.inc \subseteq Host /\ \A h \in Host : h.rel \in Seq(STRING)
  BY HostAssumption DEF View
<1>2. CASE f \in write_config_tree(v)
  BY <1>2, ConfigTreeOrigin
<1>3. CASE f \in write_env_files(v)
  BY <1>1, <1>3, Below DEF write_env_files, Included, Of, Other
<1>4. CASE f \in write_tmpfiles_conf(v)
  BY <1>4 DEF write_tmpfiles_conf, If
<1>5. CASE f \in write_language_package_manifests(v)
  <2>1. \E a, b, c : f = <<"language-packages", a, b, c>>
    BY <1>5 DEF write_language_package_manifests, manifest_file
  <2> QED BY <2>1 DEF Other
<1>6. CASE f \in stage_ssh_keys(v)
  BY <1>6 DEF stage_ssh_keys, ssh_key_file, Other
<1>7. CASE f \in variant_files
  <2>1. \E h \in Host : f = <<"aggregate", "variants">> \o h.rel
    BY <1>7 DEF variant_files, Of
  <2> QED BY <1>1, <2>1, Below DEF Other
<1>8. CASE f \in compose_files
  BY <1>1, <1>8, Below DEF compose_files, Of, Other
<1>9. CASE f \in {<<"unmanaged">> \o u.rel : u \in Included(v, "unmanaged")}
  <2>1. PICK u \in Included(v, "unmanaged") : f = <<"unmanaged">> \o u.rel
    BY <1>9
  <2>2. u \in v.inc /\ f \in FilesOf(u)
    BY <2>1 DEF Included, Of, FilesOf
  <2> QED BY <1>1, <2>2, FilesBelow DEF AccountedFor
<1> QED BY <1>2, <1>3, <1>4, <1>5, <1>6, <1>7, <1>8, <1>9 DEF AllFiles

-----------------------------------------------------------------------------
(* The place of every line                                                 *)

\* The blocks that may hold a line of an operation.
LEMMA OpPlaces ==
    ASSUME NEW v, NEW roots, NEW i \in 1 .. 31, NEW l \in render_containerfile_inner(v, roots)[i]
    PROVE  /\ l.op = "install" => i \in {7, 9, 29}
           /\ l.op = "groupinstall" => i = 5
           /\ l.op = "import" => i = 3
           /\ l.op = "enable_repo" => i = 6
           /\ l.op = "rpminstall" => i = 22
           /\ l.op = "useradd" => i = 26
           /\ l.op = "semanage" => i = 30
           /\ l.op = "enable" => i \in {10, 15, 16, 24, 28}
           /\ l.op = "mkdir" => i = 31
           /\ l.op = "COPY" => i \in {1, 2, 13, 14, 17, 18, 20, 21, 23, 27, 28, 31}
<1> DEFINE F == render_containerfile_inner(v, roots)
<1>1. l \in F[i]
  OBVIOUS
<1> HIDE DEF F
<1>2. CASE i \in 1 .. 8
  <2>1. /\ \A m \in F[1] : m.op = "COPY"
        /\ \A m \in F[2] : m.op = "COPY"
        /\ \A m \in F[3] : m.op = "import"
        /\ \A m \in F[4] : m.op = "module"
        /\ \A m \in F[5] : m.op = "groupinstall"
        /\ \A m \in F[6] : m.op \in {"fixme", "enable_repo"}
        /\ \A m \in F[7] : m.op = "install"
        /\ \A m \in F[8] : m.op = "todo"
    BY OpsInPlace DEF F
  <2> QED BY <1>1, <1>2, <2>1
<1>3. CASE i \in 9 .. 16
  <2>1. /\ \A m \in F[9] : m.op \in {"install", "versionlock"}
        /\ \A m \in F[10] : m.op = "enable"
        /\ \A m \in F[11] : m.op = "disable"
        /\ \A m \in F[12] : m.op = "mask"
        /\ \A m \in F[13] : m.op = "COPY"
        /\ \A m \in F[14] : m.op = "COPY"
        /\ \A m \in F[15] : m.op = "enable"
        /\ \A m \in F[16] : m.op = "enable"
    BY OpsInPlace DEF F
  <2> QED BY <1>1, <1>3, <2>1
<1>4. CASE i \in 17 .. 24
  <2>1. /\ \A m \in F[17] : m.op = "COPY"
        /\ \A m \in F[18] : m.op = "COPY"
        /\ \A m \in F[19] : m.op = "langinstall"
        /\ \A m \in F[20] : m.op \in {"COPY", "link"}
        /\ \A m \in F[21] : m.op = "COPY"
        /\ \A m \in F[22] : m.op \in {"rpminstall", "fixme", "manual"}
        /\ \A m \in F[23] : m.op = "COPY"
        /\ \A m \in F[24] : m.op = "enable"
    BY OpsInPlace DEF F
  <2> QED BY <1>1, <1>4, <2>1
<1>5. CASE i \in 25 .. 31
  <2>1. /\ \A m \in F[25] : m.op = "groupadd"
        /\ \A m \in F[26] : m.op = "useradd"
        /\ \A m \in F[27] : m.op = "COPY"
        /\ \A m \in F[28] : m.op \in {"COPY", "tuned", "enable"}
        /\ \A m \in F[29] : m.op = "install"
        /\ \A m \in F[30] : m.op = "semanage"
        /\ \A m \in F[31] : m.op \in {"COPY", "mkdir", "fixme"}
    BY OpsInPlace DEF F
  <2> QED BY <1>1, <1>5, <2>1
<1> QED BY <1>2, <1>3, <1>4, <1>5

\* Two lines are the same when their operation and their argument are.
LEMMA SameLine ==
    ASSUME NEW op, NEW a, NEW op2, NEW b
    PROVE  /\ Line(op, a).op = op /\ Line(op, a).arg = a
           /\ Line(op, a) = Line(op2, b) <=> op = op2 /\ a = b
BY DEF Line

\* The packages a Containerfile installs from a carried RPM.
Active(v) ==
    LET R == {p \in Of("pkg") : repoless(v, p)}
        proved == {p \in R : p \in v.verified}
        refused == {p \in R \ proved : p \in v.uploaded \cap v.inc}
    IN  proved \cup ({p \in R \ (proved \cup refused) : Is(p, "cached") /\ ~Is(p, "unnamed")} \cap v.inc)

\* The packages with a cached RPM that no COPY can name, nor an upload.
Unnamed(v) ==
    {p \in Of("pkg") : /\ repoless(v, p) /\ p \notin v.verified /\ p \notin v.uploaded \cap v.inc
                      /\ Is(p, "cached") /\ Is(p, "unnamed")}

\* The commands of the SELinux section.
SemanageRows(v) == {h \in Of("port") \cup Included(v, "fcontext") : ~Is(h, "refused")}

\* What the blocks about packages hold.
LEMMA PackageBlocks ==
    ASSUME NEW v, NEW roots, NEW id
    PROVE  LET F == render_containerfile_inner(v, roots) IN
           /\ Line("install", <<id>>) \in F[7] <=> id \in named_packages(v, "not_enabling")
           /\ Line("install", <<id>>) \in F[9] <=> safe_locks(v) # {} /\ id = VersionlockPlugin
           /\ Line("install", <<id>>) \in F[29] <=> SemanageRows(v) # {} /\ id = SemanageTool
           /\ Line("enable_repo", <<id>>) \in F[6] <=> id \in named_packages(v, "served")
           /\ Line("fixme", <<id>>) \in F[6] <=> id \in named_packages(v, "lost")
           /\ Line("todo", <<id>>) \in F[8] <=> \E p \in Of("pkg") : manual_follow_up_reason(p) /\ p.id = id
           /\ Line("rpminstall", <<id>>) \in F[22] <=> \E p \in Active(v) : p.id = id
           /\ \A p \in Unnamed(v) : Line("fixme", <<p.id>>) \in F[22]
<1> DEFINE F == render_containerfile_inner(v, roots)
<1>1. /\ F[6] = packages_section_lines(v)[6] /\ F[7] = packages_section_lines(v)[7]
      /\ F[8] = packages_section_lines(v)[8] /\ F[29] = selinux_section_lines(v)[1]
      /\ F[22] = repoless_rpm_lines(v)[2] /\ F[9] = packages_section_lines(v)[9]
  BY Layout
<1> HIDE DEF F
<1>13. F[9] = (IF safe_locks(v) # {} THEN {Line("install", <<VersionlockPlugin>>)} ELSE {})
                 \cup {Line("versionlock", <<l.id>>) : l \in safe_locks(v)}
  BY <1>1 DEF packages_section_lines, If
<1>14. Line("install", <<id>>) \in F[9] <=> safe_locks(v) # {} /\ id = VersionlockPlugin
  BY <1>13 DEF Line
<1>2. F[7] = {Line("install", <<n>>) : n \in named_packages(v, "not_enabling")}
  BY <1>1 DEF packages_section_lines
<1>3. F[6] = {Line("fixme", <<n>>) : n \in named_packages(v, "lost")}
               \cup {Line("enable_repo", <<n>>) : n \in named_packages(v, "served")}
  BY <1>1 DEF packages_section_lines
<1>4. F[8] = {Line("todo", <<p.id>>) : p \in {x \in Of("pkg") : manual_follow_up_reason(x)}}
  BY <1>1 DEF packages_section_lines
<1>5. F[29] = IF SemanageRows(v) # {} THEN {Line("install", <<SemanageTool>>)} ELSE {}
  BY <1>1 DEF selinux_section_lines, If, SemanageRows, SemanageTool
<1>6. \A m \in F[22] : m.op = "rpminstall" <=> m \in {Line("rpminstall", <<p.id>>) : p \in Active(v)}
  BY <1>1 DEF repoless_rpm_lines, Active, Line
<1>7. {Line("rpminstall", <<p.id>>) : p \in Active(v)} \subseteq F[22]
  BY <1>1 DEF repoless_rpm_lines, Active
<1>8. Line("install", <<id>>) \in F[7] <=> id \in named_packages(v, "not_enabling")
  BY <1>2 DEF Line
<1>9. Line("install", <<id>>) \in F[29] <=> SemanageRows(v) # {} /\ id = SemanageTool
  BY <1>5 DEF Line
<1>10. /\ Line("enable_repo", <<id>>) \in F[6] <=> id \in named_packages(v, "served")
       /\ Line("fixme", <<id>>) \in F[6] <=> id \in named_packages(v, "lost")
  BY <1>3 DEF Line
<1>11. Line("todo", <<id>>) \in F[8] <=> \E p \in Of("pkg") : manual_follow_up_reason(p) /\ p.id = id
  BY <1>4 DEF Line
<1>12. Line("rpminstall", <<id>>) \in F[22] <=> \E p \in Active(v) : p.id = id
  BY <1>6, <1>7 DEF Line
<1>15. \A p \in Unnamed(v) : Line("fixme", <<p.id>>) \in F[22]
  <2> SUFFICES ASSUME NEW p \in Unnamed(v) PROVE Line("fixme", <<p.id>>) \in F[22]
    OBVIOUS
  <2>1. /\ p \in Of("pkg") /\ repoless(v, p) /\ p \notin v.verified /\ p \notin v.uploaded \cap v.inc
        /\ Is(p, "cached") /\ Is(p, "unnamed")
    BY DEF Unnamed
  <2> DEFINE R == {x \in Of("pkg") : repoless(v, x)}
             proved == {x \in R : x \in v.verified}
             refused == {x \in R \ proved : x \in v.uploaded \cap v.inc}
             cached == {x \in R \ (proved \cup refused) : Is(x, "cached")}
             unnamed == {x \in cached : Is(x, "unnamed")}
  <2>2. {Line("fixme", <<x.id>>) : x \in refused \cup unnamed} \subseteq F[22]
    BY <1>1 DEF repoless_rpm_lines
  <2>3. p \in unnamed
    BY <2>1
  <2> HIDE DEF refused, unnamed
  <2> QED BY <2>2, <2>3
<1> QED BY <1>8, <1>9, <1>10, <1>11, <1>12, <1>14, <1>15 DEF F

\* The users a Containerfile creates.
Created(v) == {u \in Included(v, "user") : Is(u, "useradd") /\ ~Is(u, "refused")}

\* The lines that create users.
LEMMA UserBlock ==
    ASSUME NEW v, NEW roots, NEW id
    PROVE  Line("useradd", <<id>>) \in render_containerfile_inner(v, roots)[26] <=> \E u \in Created(v) : u.id = id
<1> DEFINE F == render_containerfile_inner(v, roots)
<1>1. F[26] = render_containerfile_users(v)[2]
  BY Layout
<1> HIDE DEF F
<1>2. F[26] = {Line("useradd", <<u.id>>) : u \in Created(v)}
  BY <1>1 DEF render_containerfile_users, Created
<1>3. Line("useradd", <<id>>) \in F[26] <=> \E u \in Created(v) : u.id = id
  BY <1>2 DEF Line
<1> QED BY <1>3 DEF F

\* The keys that are copied and the SELinux commands.
LEMMA KeyBlocks ==
    ASSUME NEW v, NEW roots
    PROVE  LET F == render_containerfile_inner(v, roots) IN
           /\ F[27] = {Copy(ssh_key_file(u)) : u \in {x \in Created(v) : Is(x, "keys")}}
           /\ F[30] = {Line("semanage", <<h.id>>) : h \in SemanageRows(v)}
<1> DEFINE F == render_containerfile_inner(v, roots)
<1>1. F[27] = render_containerfile_users(v)[3] /\ F[30] = selinux_section_lines(v)[2]
  BY Layout
<1> HIDE DEF F
<1>2. F[27] = {Copy(ssh_key_file(u)) : u \in {x \in Created(v) : Is(x, "keys")}}
  BY <1>1 DEF render_containerfile_users, Created
<1>3. F[30] = {Line("semanage", <<h.id>>) : h \in SemanageRows(v)}
  BY <1>1 DEF selinux_section_lines, SemanageRows
<1> QED BY <1>2, <1>3 DEF F

\* The lines of a finished export, by the findings they are about.
LEMMA Rendered ==
    ASSUME IInv, Done, NEW id
    PROVE  /\ Has("install", id) <=> \/ id \in named_packages(out.v, "not_enabling")
                                     \/ SemanageRows(out.v) # {} /\ id = SemanageTool
                                     \/ safe_locks(out.v) # {} /\ id = VersionlockPlugin
           /\ Has("enable_repo", id) <=> id \in named_packages(out.v, "served")
           /\ Has("rpminstall", id) <=> \E p \in Active(out.v) : p.id = id
           /\ Has("useradd", id) <=> \E u \in Created(out.v) : u.id = id
           /\ id \in named_packages(out.v, "lost") => Has("fixme", id)
           /\ \A p \in Of("pkg") : manual_follow_up_reason(p) => Has("todo", p.id)
           /\ \A p \in Unnamed(out.v) : Has("fixme", p.id)
<1> DEFINE roots == config_copy_roots(write_config_tree(Base(out.v)))
<1>1. out.file = render_containerfile_inner(out.v, roots)
  BY DEF IInv, Finished
<1> HIDE DEF roots
<1>2. Blocks = 1 .. 31
  BY <1>1, Layout DEF Blocks
<1>3. ASSUME NEW op, NEW i \in 1 .. 31, Line(op, <<id>>) \in out.file[i]
      PROVE  /\ op = "install" => i \in {7, 9, 29}
             /\ op = "enable_repo" => i = 6
             /\ op = "rpminstall" => i = 22
             /\ op = "useradd" => i = 26
  <2>1. Line(op, <<id>>).op = op
    BY DEF Line
  <2> QED BY <1>1, <1>3, <2>1, OpPlaces
<1>4. /\ Line("install", <<id>>) \in out.file[7] <=> id \in named_packages(out.v, "not_enabling")
      /\ Line("install", <<id>>) \in out.file[9] <=> safe_locks(out.v) # {} /\ id = VersionlockPlugin
      /\ Line("install", <<id>>) \in out.file[29] <=> SemanageRows(out.v) # {} /\ id = SemanageTool
      /\ Line("enable_repo", <<id>>) \in out.file[6] <=> id \in named_packages(out.v, "served")
      /\ Line("fixme", <<id>>) \in out.file[6] <=> id \in named_packages(out.v, "lost")
      /\ Line("rpminstall", <<id>>) \in out.file[22] <=> \E p \in Active(out.v) : p.id = id
  BY <1>1, PackageBlocks
<1>5. Line("useradd", <<id>>) \in out.file[26] <=> \E u \in Created(out.v) : u.id = id
  BY <1>1, UserBlock
<1>6. ASSUME NEW p \in Of("pkg"), manual_follow_up_reason(p) PROVE Has("todo", p.id)
  <2>1. Line("todo", <<p.id>>) \in out.file[8]
    BY <1>1, <1>6, PackageBlocks
  <2> QED BY <1>2, <2>1 DEF Has
<1>7. /\ 6 \in 1 .. 31 /\ 7 \in 1 .. 31 /\ 9 \in 1 .. 31 /\ 22 \in 1 .. 31 /\ 26 \in 1 .. 31 /\ 29 \in 1 .. 31
  OBVIOUS
<1>8. Has("install", id) <=> \/ id \in named_packages(out.v, "not_enabling")
                             \/ SemanageRows(out.v) # {} /\ id = SemanageTool
                             \/ safe_locks(out.v) # {} /\ id = VersionlockPlugin
  BY <1>2, <1>3, <1>4, <1>7 DEF Has
<1>9. /\ Has("enable_repo", id) <=> id \in named_packages(out.v, "served")
      /\ id \in named_packages(out.v, "lost") => Has("fixme", id)
  BY <1>2, <1>3, <1>4, <1>7 DEF Has
<1>10. Has("rpminstall", id) <=> \E p \in Active(out.v) : p.id = id
  BY <1>2, <1>3, <1>4, <1>7 DEF Has
<1>11. Has("useradd", id) <=> \E u \in Created(out.v) : u.id = id
  BY <1>2, <1>3, <1>5, <1>7 DEF Has
<1>12. ASSUME NEW p \in Unnamed(out.v) PROVE Has("fixme", p.id)
  <2>1. Line("fixme", <<p.id>>) \in out.file[22]
    BY <1>1, PackageBlocks
  <2> QED BY <1>2, <1>7, <2>1 DEF Has
<1> QED BY <1>6, <1>8, <1>9, <1>10, <1>11, <1>12

\* The carried RPMs are those of included packages.
LEMMA ActiveIncluded ==
    ASSUME IInv, Done
    PROVE  Active(out.v) \subseteq Included(out.v, "pkg")
<1>1. out.v.verified \subseteq out.v.inc
  BY DEF IInv, Finished, ViewOf, Plan, ScanView, Done
<1> QED BY <1>1 DEF Active, Included

-----------------------------------------------------------------------------
(* Exclusion                                                               *)

\* An excluded finding leaves no trace in the image, neither a staged file
\* nor a line that installs or creates it: the writers, the payload
\* extraction and the section renderers all ask the same decision.
THEOREM ExcludedAlwaysOut == Spec => []ExcludedStaysOut
<1>1. IInv => ExcludedStaysOut
  <2> SUFFICES ASSUME IInv, Done, NEW h \in Host \ out.v.inc
               PROVE  /\ \A f \in FilesOf(h) \cap out.tree :
                           \/ \E k \in out.v.inc \cup Of("localtimer") : f \in FilesOf(k)
                           \/ f \in {KargsConf, TmpfilesConf}
                      /\ h.kind = "pkg" =>
                           \A op \in {"install", "enable_repo", "rpminstall"} : Has(op, h.id) =>
                              \/ Carries(out.v, "pkg", h.id)
                              \/ op = "install" /\ h.id \in SectionTools
                      /\ h.kind = "user" /\ Has("useradd", h.id) => Carries(out.v, "user", h.id)
    BY DEF ExcludedStaysOut
  <2>1. /\ out.v \in View
        /\ out.tree \subseteq AllFiles(out.kind, Base(out.v)) \cup RpmsOf(out.v.verified)
    BY DEF IInv, Finished, ViewOf
  <2>2. Base(out.v) \in View /\ Base(out.v).inc = out.v.inc
    BY <2>1, BaseFacts
  <2>3. ASSUME NEW f \in FilesOf(h) \cap out.tree
        PROVE  \/ \E k \in out.v.inc \cup Of("localtimer") : f \in FilesOf(k)
               \/ f \in {KargsConf, TmpfilesConf}
    <3>1. f[1] \in Listed
      BY FilesBelow
    <3>2. \A P : \A g \in RpmsOf(P) : g[1] = "repoless-packages"
      BY DEF RpmsOf, repoless_file
    <3>3. f \in AllFiles(out.kind, Base(out.v))
      BY <2>1, <3>1, <3>2 DEF Listed
    <3>4. AccountedFor(f, Base(out.v)) \/ f \in {KargsConf, TmpfilesConf}
      BY <2>2, <3>1, <3>2, <3>3, Origin DEF Listed, Other
    <3> QED BY <2>2, <3>4 DEF AccountedFor
  <2>4. ASSUME NEW how, h.id \in named_packages(out.v, how)
        PROVE  Carries(out.v, "pkg", h.id)
    BY <2>4 DEF named_packages, installable_packages, Carries
  <2>5. Has("install", h.id) => Carries(out.v, "pkg", h.id) \/ h.id \in SectionTools
    BY <2>4, Rendered DEF SectionTools
  <2>6. Has("enable_repo", h.id) => Carries(out.v, "pkg", h.id)
    BY <2>4, Rendered
  <2>7. Has("rpminstall", h.id) => Carries(out.v, "pkg", h.id)
    BY Rendered, ActiveIncluded DEF Carries
  <2>8. Has("useradd", h.id) => Carries(out.v, "user", h.id)
    BY Rendered DEF Created, Carries
  <2> QED BY <2>3, <2>5, <2>6, <2>7, <2>8
<1> QED BY <1>1, ExportFollowsPlan, PTL

-----------------------------------------------------------------------------
(* One route per package                                                   *)

\* A name in a transaction is that of the package's only row.
LEMMA NamedRow ==
    ASSUME NEW p \in Of("pkg"), OneRow(p), NEW v, NEW how
    PROVE  p.id \in named_packages(v, how) <=>
              /\ p \in installable_packages(v)
              /\ p.id \notin group_member_suppressed(v)
              /\ ~Is(p, "unsafe")
              /\ repo_enabling_export(v, p) = how
<1>1. \A x \in installable_packages(v) : x \in Of("pkg")
  BY DEF installable_packages, Included
<1>2. \A x \in Of("pkg") : x.id = p.id => x = p
  BY DEF OneRow
<1> QED BY <1>1, <1>2 DEF named_packages

\* The ways one package is named; an export names no group.
LEMMA Routing ==
    ASSUME IInv, Done, NEW p \in Of("pkg"), OneRow(p)
    PROVE  /\ "install" \in Named(p) <=> p.id \in named_packages(out.v, "not_enabling")
           /\ "enable_repo" \in Named(p) <=> p.id \in named_packages(out.v, "served")
           /\ Has("rpminstall", p.id) <=> p \in Active(out.v)
           /\ Named(p) \subseteq {"install", "enable_repo"}
           /\ group_member_suppressed(out.v) = {}
<1>1. p.id # SemanageTool /\ p.id # VersionlockPlugin
  BY DEF OneRow, SectionTools
<1>2. /\ "install" \in Named(p) <=> Has("install", p.id)
      /\ "enable_repo" \in Named(p) <=> Has("enable_repo", p.id)
      /\ Named(p) \subseteq {"install", "enable_repo"}
  BY DEF Named
<1>3. out.v.groups = {}
  BY DEF IInv, Finished, ViewOf, Plan, ScanView, Done
<1>4. group_member_suppressed(out.v) = {}
  BY <1>3 DEF group_member_suppressed
<1>5. \A q \in Active(out.v) : q \in Of("pkg")
  BY ActiveIncluded DEF Included
<1>6. Has("rpminstall", p.id) <=> p \in Active(out.v)
  BY <1>5, Rendered DEF OneRow
<1>7. /\ Has("install", p.id) <=> p.id \in named_packages(out.v, "not_enabling")
      /\ Has("enable_repo", p.id) <=> p.id \in named_packages(out.v, "served")
  BY <1>1, Rendered
<1> QED BY <1>2, <1>4, <1>6, <1>7

\* A repo-enabling package is served or lost, any other neither.
LEMMA Enabling ==
    ASSUME NEW v, NEW p
    PROVE  repo_enabling_export(v, p) \in {"not_enabling", "served", "lost"}
<1>1. CASE ~Is(p, "enabling")
  BY <1>1 DEF repo_enabling_export
<1>2. CASE Is(p, "enabling")
  BY <1>2 DEF repo_enabling_export
<1> QED BY <1>1, <1>2

\* A proved upload is staged; a refused one is not, nor is anything else in
\* its place.
LEMMA UploadStaged ==
    ASSUME IInv, Done, out.kind = "refine", NEW p \in Of("pkg") \cap out.v.inc, OneRow(p),
           p \in out.v.uploaded
    PROVE  IF p \in out.warn
           THEN p \notin Active(out.v) /\ repoless_file(p) \notin out.tree
           ELSE p \in Active(out.v) /\ repoless_file(p) \in out.tree
<1>1. /\ out.v \in View /\ Plan(out.v) /\ RpmsOf(out.v.verified) \subseteq out.tree
      /\ out.warn = (uploaded \cap inc) \ out.v.verified
      /\ out.tree \subseteq AllFiles("refine", Base(out.v)) \cup RpmsOf(out.v.verified)
  BY DEF IInv, Finished, ViewOf
<1>2. p \in uploaded \cap inc /\ (p \in out.warn <=> p \notin out.v.verified)
  BY <1>1 DEF Plan
<1>3. repoless(out.v, p)
  BY <1>1 DEF View, Claimable, repoless, Annotated
<1>4. CASE p \in out.v.verified
  <2>1. p \in Active(out.v)
    BY <1>3, <1>4 DEF Active
  <2>2. repoless_file(p) \in out.tree
    BY <1>1, <1>4 DEF RpmsOf
  <2> QED BY <1>2, <1>4, <2>1, <2>2
<1>5. CASE p \notin out.v.verified
  <2>1. p \notin Active(out.v)
    BY <1>3, <1>5 DEF Active
  <2>2. ASSUME NEW P \in SUBSET Of("pkg"), repoless_file(p) \in RpmsOf(P) PROVE p \in P
    BY <2>2 DEF RpmsOf, repoless_file, OneRow
  <2>3. repoless_file(p)[1] = "repoless-packages"
    BY DEF repoless_file
  <2>4. repoless_file(p) \notin RpmsOf(out.v.verified)
    BY <1>1, <1>5, <2>2 DEF View, Claimable
  <2>5. Base(out.v) \in View /\ Base(out.v).uploaded = out.v.uploaded
    BY <1>1, BaseFacts
  <2>6. repoless_file(p) \notin {KargsConf, TmpfilesConf}
    BY <2>3 DEF KargsConf, TmpfilesConf
  <2>7. repoless_file(p) \notin AllFiles("refine", Base(out.v))
    <3> SUFFICES ASSUME repoless_file(p) \in AllFiles("refine", Base(out.v)) PROVE FALSE
      OBVIOUS
    <3>1. repoless_file(p) \in RpmsOf(Taken(Base(out.v)))
      BY <2>3, <2>5, <2>6, Origin DEF AccountedFor, Listed, Other
    <3>2. p \notin Base(out.v).uploaded
      BY <2>2, <3>1 DEF Taken, Included
    <3> QED BY <2>5, <3>2
  <2> QED BY <1>1, <1>2, <1>5, <2>1, <2>4, <2>7
<1> QED BY <1>4, <1>5

\* An included package reaches the image by one route or a block of the
\* Containerfile says why not, unless its name was skipped: installable_packages,
\* named_packages, repo_enabling_export and repoless_rpm_lines divide the packages.
THEOREM PackageAlwaysOneRoute == Spec => []PackageOneRoute
<1>1. IInv => PackageOneRoute
  <2> SUFFICES ASSUME IInv, Done, NEW p \in Of("pkg") \cap out.v.inc, OneRow(p)
               PROVE  /\ \A a, b \in Named(p) : a = b
                      /\ Named(p) # {} /\ Has("rpminstall", p.id) =>
                           Annotated(out.v, p) /\ is_package_installable(p)
                      /\ Routes(p) = {} =>
                           \/ \E op \in {"todo", "fixme", "manual"} : Has(op, p.id)
                           \/ Is(p, "suppressed")
                           \/ ~Is(p, "leaf")
                           \/ SkippedName(p.id)
                      /\ out.kind = "refine" /\ p \in out.v.uploaded =>
                           IF p \in out.warn
                           THEN ~Has("rpminstall", p.id) /\ repoless_file(p) \notin out.tree
                           ELSE Has("rpminstall", p.id) /\ repoless_file(p) \in out.tree
    BY DEF PackageOneRoute
  <2> DEFINE v == out.v
             how == repo_enabling_export(out.v, p)
             named == p \in installable_packages(out.v) /\ ~Is(p, "unsafe")
  <2>1. /\ "install" \in Named(p) <=> named /\ how = "not_enabling"
        /\ "enable_repo" \in Named(p) <=> named /\ how = "served"
        /\ Named(p) \subseteq {"install", "enable_repo"}
    BY Routing, NamedRow
  <2>2. Has("rpminstall", p.id) <=> p \in Active(out.v)
    BY Routing
  <2>3. \A a, b \in Named(p) : a = b
    BY <2>1
  <2>4. ASSUME Named(p) # {}, Has("rpminstall", p.id)
        PROVE  Annotated(out.v, p) /\ is_package_installable(p)
    <3>1. v \in View
      BY DEF IInv, Finished, ViewOf
    <3>2. Annotated(out.v, p)
      <4>1. p \in v.verified \/ Is(p, "cached")
        BY <2>2, <2>4 DEF Active
      <4> QED BY <3>1, <4>1, HostAssumption DEF View, Claimable, Annotated, Is, Of
    <3>3. p \in installable_packages(v) => is_package_installable(p)
      BY DEF installable_packages
    <3> QED BY <2>1, <2>4, <3>2, <3>3
  <2>5. ASSUME Routes(p) = {}, ~Is(p, "suppressed"), Is(p, "leaf"), ~SkippedName(p.id)
        PROVE  \E op \in {"todo", "fixme", "manual"} : Has(op, p.id)
    <3>1. Named(p) = {}
      BY <2>5 DEF Routes
    <3>2. CASE manual_follow_up_reason(p)
      BY <3>2, Rendered
    <3>3. CASE ~manual_follow_up_reason(p)
      <4>1. p \in installable_packages(v)
        BY <2>5, <3>3 DEF installable_packages, is_package_installable, Included
      <4>2. ~Is(p, "unsafe")
        BY <2>5, <4>1 DEF SkippedName
      <4>3. how = "lost"
        BY <2>1, <3>1, <4>1, <4>2, Enabling
      <4>4. p.id \in named_packages(v, "lost")
        BY <4>1, <4>2, <4>3, NamedRow, Routing
      <4> QED BY <4>4, Rendered
    <3> QED BY <3>2, <3>3
  <2>6. ASSUME out.kind = "refine", p \in out.v.uploaded
        PROVE  IF p \in out.warn
               THEN ~Has("rpminstall", p.id) /\ repoless_file(p) \notin out.tree
               ELSE Has("rpminstall", p.id) /\ repoless_file(p) \in out.tree
    BY <2>2, <2>6, UploadStaged
  <2> QED BY <2>3, <2>4, <2>5, <2>6
<1> QED BY <1>1, ExportFollowsPlan, PTL

-----------------------------------------------------------------------------
(* Order                                                                   *)

UnitCopy == <<"config">> \o UnitDir
RepoCopy == <<"config">> \o RepoDir

\* Where a source of a COPY may come from, as far as the order depends on it.
LEMMA CopyPlaces ==
    ASSUME NEW v \in View, NEW roots, NEW i \in 1 .. 31, NEW l \in render_containerfile_inner(v, roots)[i],
           l.op = "COPY"
    PROVE  \/ i \in {1, 2} /\ l.arg[1] = "config"
           \/ i = 14 /\ l.arg = UnitCopy
           \/ i = 27 /\ l.arg[1] = "users"
           \/ i = 17 /\ \E r : l.arg = <<"config", r>>
           \/ l.arg \in {KargsConf, TmpfilesConf}
           \/ l.arg[1] \notin {"config", "users"}
<1> DEFINE F == render_containerfile_inner(v, roots)
<1>1. l \in F[i] /\ i \in {1, 2, 13, 14, 17, 18, 20, 21, 23, 27, 28, 31}
  BY OpPlaces
<1>2. v.inc \subseteq Host /\ \A h \in Host : h.rel \in Seq(STRING)
  BY HostAssumption DEF View
<1>3. \A s : Copy(s).arg = s
  BY DEF Copy, Line
<1>4. CASE i = 1
  <2>1. l \in packages_section_lines(v)[1]
    BY <1>1, <1>4, Layout
  <2>2. l.arg = RepoCopy
    BY <1>3, <2>1 DEF packages_section_lines, If, RepoCopy
  <2> QED BY <1>4, <2>2 DEF RepoCopy, RepoDir
<1>5. CASE i = 2
  <2>1. l \in gpg_copies(v)
    <3>1. l \in packages_section_lines(v)[2]
      BY <1>1, <1>5, Layout
    <3> QED BY <3>1 DEF packages_section_lines
  <2>2. PICK k \in Host : l.arg = <<"config">> \o (IF Len(k.rel) > 1 THEN Front(k.rel) ELSE k.rel)
    BY <1>3, <2>1 DEF gpg_copies, safe_keys, Included, Of
  <2>3. l.arg[1] = "config"
    BY <1>2, <2>2, FrontIs, Below
  <2> QED BY <1>5, <2>3
<1>6. CASE i = 13
  <2>1. l \in drop_ins_section_lines(v)[1]
    BY <1>1, <1>6, Layout
  <2>2. l.arg = <<"drop-ins">> \o UnitDir
    BY <1>3, <2>1 DEF drop_ins_section_lines, If
  <2>3. l.arg[1] = "drop-ins"
    BY <2>2 DEF UnitDir
  <2> QED BY <2>3
<1>7. CASE i = 14
  <2>1. l \in scheduled_tasks_section_lines(v)[1]
    BY <1>1, <1>7, Layout
  <2>2. l.arg = UnitCopy
    BY <1>3, <2>1 DEF scheduled_tasks_section_lines, If, UnitCopy
  <2> QED BY <1>7, <2>2
<1>8. CASE i = 17
  <2>1. l \in config_section_lines(v, roots)[1]
    BY <1>1, <1>8, Layout
  <2>2. \E r : l.arg = <<"config", r>>
    BY <1>3, <2>1 DEF config_section_lines
  <2> QED BY <1>8, <2>2
<1>9. CASE i = 18
  <2>1. l \in language_package_lines(v)[1]
    BY <1>1, <1>9, Layout
  <2>2. l.arg[1] = "language-packages"
    BY <2>1 DEF language_package_lines, manifest_file, Copy, Line
  <2> QED BY <2>2
<1>10. CASE i = 20
  <2>1. l \in unmanaged_file_lines(v)[1]
    BY <1>1, <1>10, Layout
  <2>2. \E f \in Host : l \in {Copy(<<"unmanaged">> \o Front(f.rel)), Copy(<<"unmanaged">> \o f.rel), Line("link", f.rel)}
    BY <2>1 DEF unmanaged_file_lines, Included, Of
  <2>3. \A f : Line("link", f).op = "link"
    BY DEF Line
  <2>4. \E f \in Host : l.arg \in {<<"unmanaged">> \o Front(f.rel), <<"unmanaged">> \o f.rel}
    BY <1>3, <2>2, <2>3
  <2>5. l.arg[1] = "unmanaged"
    BY <1>2, <2>4, FrontIs, Below
  <2> QED BY <2>5
<1>11. CASE i = 21
  <2>1. l \in repoless_rpm_lines(v)[1]
    BY <1>1, <1>11, Layout
  <2>2. \E p : l = Copy(repoless_file(p))
    BY <2>1 DEF repoless_rpm_lines
  <2>3. l.arg[1] = "repoless-packages"
    BY <1>3, <2>2 DEF repoless_file
  <2> QED BY <2>3
<1>12. CASE i = 23
  <2>1. l \in containers_section_lines(v)[1]
    BY <1>1, <1>12, Layout
  <2>2. l.arg \in {<<"quadlet">>, <<"flatpak">>, <<"flatpak", "flatpak-provision.service">>}
    BY <1>3, <2>1 DEF containers_section_lines, If
  <2>3. l.arg[1] \in {"quadlet", "flatpak"}
    BY <2>2
  <2> QED BY <2>3
<1>13. CASE i = 27
  <2>1. l \in render_containerfile_users(v)[3]
    BY <1>1, <1>13, Layout
  <2>2. \E u : l = Copy(ssh_key_file(u))
    BY <2>1 DEF render_containerfile_users
  <2>3. l.arg[1] = "users"
    BY <1>3, <2>2 DEF ssh_key_file
  <2> QED BY <1>13, <2>3
<1>14. CASE i = 28
  <2>1. l \in kernel_boot_section_lines(v)[1]
    BY <1>1, <1>14, Layout
  <2>2. \E s : l = Copy(KargsConf) \/ l = Copy(SysctlConf) \/ l = Line("tuned", s) \/ l = Line("enable", s)
    BY <2>1 DEF kernel_boot_section_lines, If
  <2>3. \A f : Line("tuned", f).op = "tuned" /\ Line("enable", f).op = "enable"
    BY DEF Line
  <2>4. l.arg = KargsConf \/ l.arg = SysctlConf
    BY <1>3, <2>2, <2>3
  <2>5. SysctlConf[1] = "sysctl"
    BY DEF SysctlConf
  <2> QED BY <2>4, <2>5
<1>15. CASE i = 31
  <2>1. l \in var_dir_section_lines(v)[1]
    BY <1>1, <1>15, Layout
  <2>2. \E s : l = Copy(TmpfilesConf) \/ l = Line("mkdir", s) \/ l = Line("fixme", s)
    BY <2>1 DEF var_dir_section_lines, If
  <2>3. \A f : Line("mkdir", f).op = "mkdir" /\ Line("fixme", f).op = "fixme"
    BY DEF Line
  <2> QED BY <1>3, <2>2, <2>3
<1> QED BY <1>1, <1>4, <1>5, <1>6, <1>7, <1>8, <1>9, <1>10, <1>11, <1>12, <1>13, <1>14, <1>15

\* The lines that enable units.
LEMMA EnableBlock ==
    ASSUME NEW v, NEW roots, NEW t \in Included(v, "gentimer"), Is(t, "timer")
    PROVE  LET F == render_containerfile_inner(v, roots) IN
           /\ Copy(UnitCopy) \in F[14]
           /\ \A b \in F[10] : b.arg # <<t.id>>
<1> DEFINE F == render_containerfile_inner(v, roots)
<1>1. F[14] = scheduled_tasks_section_lines(v)[1] /\ F[10] = render_service_intent(v)[1]
  BY Layout
<1> HIDE DEF F
<1>2. Copy(UnitCopy) \in F[14]
  BY <1>1 DEF scheduled_tasks_section_lines, If, UnitCopy
<1>3. t.id \in config_tree_units(v)
  BY DEF config_tree_units
<1>4. \A b \in F[10] : \E s : b = Line("enable", <<s.id>>) /\ s.id \notin config_tree_units(v)
  BY <1>1 DEF render_service_intent
<1>5. \A b \in F[10] : b.arg # <<t.id>>
  BY <1>3, <1>4 DEF Line
<1> QED BY <1>2, <1>5 DEF F

\* The lines come in an order the build can run, whatever was decided and
\* however many findings of each kind there are: render_containerfile_inner
\* puts the sections in that order.
THEOREM AlwaysBuildOrder == Spec => []BuildOrder
<1>1. IInv => BuildOrder
  <2> SUFFICES ASSUME IInv, Done, NEW b \in LinesOf(out.file)
               PROVE  /\ b.op \in {"install", "groupinstall"} =>
                           \A a \in LinesOf(out.file) :
                             (\/ a = Copy(<<"config">> \o RepoDir)
                              \/ a.op = "import"
                              \/ a.op = "enable_repo" /\ b.op = "install") => OrderedBefore(a, b)
                      /\ (b.op = "enable" /\ \E t \in Included(out.v, "gentimer") : Is(t, "timer") /\ b.arg = <<t.id>>) =>
                           /\ Copy(<<"config">> \o UnitDir) \in LinesOf(out.file)
                           /\ OrderedBefore(Copy(<<"config">> \o UnitDir), b)
                      /\ b.op = "semanage" => /\ Has("install", SemanageTool)
                                              /\ OrderedBefore(Line("install", <<SemanageTool>>), b)
                      /\ b.op = "COPY" /\ b.arg[1] = "users" => \A u \in Included(out.v, "user") :
                           b = Copy(ssh_key_file(u)) =>
                              /\ Has("useradd", u.id) /\ OrderedBefore(Line("useradd", <<u.id>>), b)
    BY DEF BuildOrder
  <2> DEFINE roots == config_copy_roots(write_config_tree(Base(out.v)))
  <2>1. out.file = render_containerfile_inner(out.v, roots) /\ out.v \in View
    BY DEF IInv, Finished, ViewOf
  <2> HIDE DEF roots
  <2>2. Blocks = 1 .. 31 /\ DOMAIN out.file = 1 .. 31
    BY <2>1, Layout DEF Blocks
  <2>3. PICK n \in 1 .. 31 : b \in out.file[n]
    BY <2>2 DEF LinesOf
  <2>4. ASSUME NEW i \in 1 .. 31, NEW l \in out.file[i]
        PROVE  /\ l.op = "install" => i \in {7, 9, 29}
               /\ l.op = "groupinstall" => i = 5
               /\ l.op = "import" => i = 3
               /\ l.op = "enable_repo" => i = 6
               /\ l.op = "useradd" => i = 26
               /\ l.op = "semanage" => i = 30
               /\ l.op = "enable" => i \in {10, 15, 16, 24, 28}
    BY <2>1, OpPlaces
  <2>5. ASSUME NEW i \in 1 .. 31, NEW l \in out.file[i], l.op = "COPY"
        PROVE  \/ i \in {1, 2} /\ l.arg[1] = "config"
               \/ i = 14 /\ l.arg = UnitCopy
               \/ i = 27 /\ l.arg[1] = "users"
               \/ i = 17 /\ \E r : l.arg = <<"config", r>>
               \/ l.arg \in {KargsConf, TmpfilesConf}
               \/ l.arg[1] \notin {"config", "users"}
    BY <2>1, <2>5, CopyPlaces
  <2>6. \A s : Copy(s).op = "COPY" /\ Copy(s).arg = s
    BY DEF Copy, Line
  <2>7. /\ Len(UnitCopy) = 4 /\ UnitCopy[1] = "config" /\ UnitCopy[3] = "systemd"
        /\ UnitCopy \notin {KargsConf, TmpfilesConf} /\ \A r : UnitCopy # <<"config", r>>
    <3>1. Len(UnitCopy) = 4 /\ UnitCopy[1] = "config" /\ UnitCopy[3] = "systemd"
      BY DEF UnitCopy, UnitDir
    <3>2. \A r : UnitCopy # <<"config", r>>
      BY <3>1
    <3>3. UnitCopy # KargsConf /\ UnitCopy # TmpfilesConf
      BY <3>1 DEF KargsConf, TmpfilesConf
    <3> QED BY <3>1, <3>2, <3>3
  <2>8. /\ RepoCopy[1] = "config" /\ RepoCopy \notin {KargsConf, TmpfilesConf, UnitCopy}
        /\ \A r : RepoCopy # <<"config", r>>
    <3>1. Len(RepoCopy) = 3 /\ RepoCopy[1] = "config"
      BY DEF RepoCopy, RepoDir
    <3> QED BY <2>7, <3>1 DEF KargsConf, TmpfilesConf
  <2>9. ASSUME b.op \in {"install", "groupinstall"}, NEW a \in LinesOf(out.file),
               \/ a = Copy(<<"config">> \o RepoDir)
               \/ a.op = "import"
               \/ a.op = "enable_repo" /\ b.op = "install"
        PROVE  OrderedBefore(a, b)
    <3> SUFFICES ASSUME NEW i \in 1 .. 31, NEW j \in 1 .. 31, a \in out.file[i], b \in out.file[j]
                 PROVE  i < j
      BY <2>2 DEF OrderedBefore
    <3>1. j \in {5, 7, 9, 29} /\ (b.op = "install" => j \in {7, 9, 29})
      BY <2>4, <2>9
    <3>2. CASE a = Copy(RepoCopy)
      <4>1. a.op = "COPY" /\ a.arg = RepoCopy
        BY <3>2, <2>6
      <4>2. i \in {1, 2}
        BY <2>5, <2>8, <4>1
      <4> QED BY <3>1, <4>2
    <3>3. CASE a.op = "import"
      BY <2>4, <3>1, <3>3
    <3>4. CASE a.op = "enable_repo" /\ b.op = "install"
      BY <2>4, <3>1, <3>4
    <3> QED BY <2>9, <3>2, <3>3, <3>4 DEF RepoCopy
  <2>10. ASSUME b.op = "enable", NEW t \in Included(out.v, "gentimer"), Is(t, "timer"), b.arg = <<t.id>>
         PROVE  /\ Copy(<<"config">> \o UnitDir) \in LinesOf(out.file)
                /\ OrderedBefore(Copy(<<"config">> \o UnitDir), b)
    <3>1. Copy(UnitCopy) \in out.file[14] /\ b \notin out.file[10]
      BY <2>1, <2>10, EnableBlock
    <3>2. Copy(UnitCopy) \in LinesOf(out.file)
      BY <2>2, <3>1 DEF LinesOf
    <3> SUFFICES ASSUME NEW i \in 1 .. 31, NEW j \in 1 .. 31, Copy(UnitCopy) \in out.file[i], b \in out.file[j]
                 PROVE  i < j
      BY <2>2, <3>2 DEF OrderedBefore, UnitCopy
    <3>3. j \in {15, 16, 24, 28}
      BY <2>4, <2>10, <3>1
    <3>4. i \in {1, 2, 14}
      BY <2>5, <2>6, <2>7
    <3> QED BY <3>3, <3>4
  <2>11. ASSUME b.op = "semanage"
         PROVE  Has("install", SemanageTool) /\ OrderedBefore(Line("install", <<SemanageTool>>), b)
    <3>1. n = 30
      BY <2>3, <2>4, <2>11
    <3>2. SemanageRows(out.v) # {}
      <4>1. out.file[30] = {Line("semanage", <<h.id>>) : h \in SemanageRows(out.v)}
        BY <2>1, KeyBlocks
      <4> QED BY <2>3, <3>1, <4>1
    <3>3. Has("install", SemanageTool)
      BY <3>2, Rendered
    <3>4. \A i \in 1 .. 31 : Line("install", <<SemanageTool>>) \in out.file[i] => i \in {7, 9, 29}
      BY <2>4 DEF Line
    <3>5. \A j \in 1 .. 31 : b \in out.file[j] => j = 30
      BY <2>4, <2>11
    <3> QED BY <2>2, <3>3, <3>4, <3>5 DEF OrderedBefore
  <2>12. ASSUME b.op = "COPY", b.arg[1] = "users", NEW u \in Included(out.v, "user"), b = Copy(ssh_key_file(u))
         PROVE  Has("useradd", u.id) /\ OrderedBefore(Line("useradd", <<u.id>>), b)
    <3>1. \A j \in 1 .. 31 : b \in out.file[j] => j = 27
      BY <2>5, <2>7, <2>12 DEF KargsConf, TmpfilesConf
    <3>2. n = 27
      BY <2>3, <3>1
    <3>3. PICK w \in Created(out.v) : b = Copy(ssh_key_file(w))
      BY <2>1, <2>3, <3>2, KeyBlocks
    <3>4. ssh_key_file(w) = ssh_key_file(u)
      BY <2>12, <3>3 DEF Copy, Line
    <3>5. w.id = u.id
      BY <3>4 DEF ssh_key_file
    <3>6. Has("useradd", u.id)
      BY <3>5, Rendered
    <3>7. \A i \in 1 .. 31 : Line("useradd", <<u.id>>) \in out.file[i] => i = 26
      BY <2>4 DEF Line
    <3> QED BY <2>2, <3>1, <3>6, <3>7 DEF OrderedBefore
  <2> QED BY <2>9, <2>10, <2>11, <2>12
<1> QED BY <1>1, ExportFollowsPlan, PTL

-----------------------------------------------------------------------------
(* What an export must have staged                                         *)

\* The payloads of the unmanaged files that are included.
Payload(i) ==
    {<<"unmanaged">> \o f.rel : f \in {x \in Of("unmanaged") \cap i : Is(x, "symlink") => Is(x, "target")}}

CachedRpms == RpmsOf({p \in Of("pkg") : Is(p, "cached")})
CarriedRpms(v) == RpmsOf(Taken(v))

Exportable(S) == {p \in S : p[1] \in allowed_top_level}

\* The files T of an export that has reached a stage, with the tarball S behind
\* the session: nothing a finished stage wrote is missing, apart from what
\* the top-level filter takes out, and no other payload is there.
StagedSoFar(kind, at, v, S, T) ==
    /\ at > 1 => Exportable(write_config_tree(v)) \subseteq T
    /\ at > 3 => write_tmpfiles_conf(v) \subseteq T
    /\ at > (IF kind = "scan" THEN 4 ELSE 6) => write_language_package_manifests(v) \subseteq T
    /\ at > (IF kind = "scan" THEN 6 ELSE 4) => stage_ssh_keys(v) \subseteq T
    /\ at > 7 => Payload(v.inc) \subseteq T
    /\ kind = "scan" /\ at > 8 => CachedRpms \subseteq T
    /\ kind = "refine" /\ at > 7 => S \cap CarriedRpms(v) \subseteq T
    /\ \A p \in T : p[1] = "unmanaged" => p \in Payload(v.inc)

Complete ==
    /\ job.kind # "none" => StagedSoFar(job.kind, job.at, Base(job.v), src, tree)
    /\ Done => StagedSoFar(out.kind, 12, Base(out.v), src, out.tree)
    /\ out.kind \in {"scan", "refine", "past"} =>
          /\ Payload(inc) \subseteq src
          /\ \A p \in src : p[1] = "unmanaged" => p \in Payload(inc)

\* The top-level directories of what each writer stages.
LEMMA Tops ==
    ASSUME NEW v \in View
    PROVE  /\ \A f \in write_config_tree(v) :
                 f[1] \in {"config", "drop-ins", "quadlet", "subscription", "sysctl", "flatpak"}
           /\ \A f \in write_env_files(v) : f[1] = "env-files"
           /\ \A f \in write_tmpfiles_conf(v) : f[1] = "config"
           /\ \A f \in write_language_package_manifests(v) : f[1] = "language-packages"
           /\ \A f \in stage_ssh_keys(v) : f[1] = "users"
           /\ \A f \in variant_files : f[1] = "aggregate"
           /\ \A f \in compose_files : f[1] = "compose"
           /\ \A i : \A f \in Payload(i) : f[1] = "unmanaged"
           /\ \A P : \A f \in RpmsOf(P) : f[1] = "repoless-packages"
<1>1. v.inc \subseteq Host /\ \A h \in Host : h.rel \in Seq(STRING)
  BY HostAssumption DEF View
<1>2. ASSUME NEW f \in write_config_tree(v)
      PROVE  f[1] \in {"config", "drop-ins", "quadlet", "subscription", "sysctl", "flatpak"}
  <2>1. CASE f \in config_files(v)
    BY <1>1, <2>1, Below DEF config_files, Included, Of
  <2>2. CASE f \in plain_files(v)
    BY <1>1, <2>2, Below DEF plain_files, Included, Of
  <2>3. CASE f \in timer_files(v)
    <3>1. \E x : f = <<"config">> \o Append(UnitDir, x)
      BY <2>3 DEF timer_files
    <3> QED BY <3>1, UnitBelow
  <2>4. CASE f \in subscription_files
    BY <1>1, <2>4, Below DEF subscription_files, Of
  <2>5. CASE f \in {SysctlConf, KargsConf, <<"flatpak", "flatpak-install.json">>, <<"flatpak", "flatpak-provision.service">>}
    BY <2>5 DEF SysctlConf, KargsConf
  <2>6. CASE f \in {<<"drop-ins">> \o d.rel : d \in {x \in Included(v, "dropin") : ~Is(x, "refused")}}
    BY <1>1, <2>6, Below DEF Included, Of
  <2>7. CASE f \in {<<"quadlet", q.id>> : q \in {x \in Included(v, "quadlet") : Is(x, "content")}}
    BY <2>7
  <2> QED BY <2>1, <2>2, <2>3, <2>4, <2>5, <2>6, <2>7 DEF write_config_tree, If
<1>3. \A f \in write_env_files(v) : f[1] = "env-files"
  BY <1>1, Below DEF write_env_files, Included, Of
<1>4. \A f \in write_tmpfiles_conf(v) : f[1] = "config"
  BY DEF write_tmpfiles_conf, If, TmpfilesConf
<1>5. \A f \in write_language_package_manifests(v) : f[1] = "language-packages"
  <2>1. \A f \in write_language_package_manifests(v) : \E l, m : f = manifest_file(l, m)
    BY DEF write_language_package_manifests
  <2> QED BY <2>1 DEF manifest_file
<1>6. \A f \in stage_ssh_keys(v) : f[1] = "users"
  BY DEF stage_ssh_keys, ssh_key_file
<1>7. \A f \in variant_files : f[1] = "aggregate"
  <2>1. \A f \in variant_files : \E h \in Host : f = <<"aggregate", "variants">> \o h.rel
    BY DEF variant_files, Of
  <2> QED BY <1>1, <2>1, Below
<1>8. \A f \in compose_files : f[1] = "compose"
  BY <1>1, Below DEF compose_files, Of
<1>9. \A i : \A f \in Payload(i) : f[1] = "unmanaged"
  BY <1>1, Below DEF Payload, Of
<1>10. \A P : \A f \in RpmsOf(P) : f[1] = "repoless-packages"
  BY DEF RpmsOf, repoless_file
<1> QED BY <1>2, <1>3, <1>4, <1>5, <1>6, <1>7, <1>8, <1>9, <1>10

\* A stage that leaves the session alone and keeps the staging complete.
LEMMA CompleteStage ==
    ASSUME Complete, job.kind # "none", job'.kind = job.kind, UNCHANGED <<inc, src, out>>,
           StagedSoFar(job'.kind, job'.at, Base(job'.v), src, tree')
    PROVE  Complete'
<1>1. ~Done'
  BY DEF Done
<1>2. StagedSoFar(job.kind, job.at, Base(job.v), src, tree)'
  <2>1. src' = src
    OBVIOUS
  <2> QED BY <2>1 DEF StagedSoFar
<1>3. Payload(inc)' = Payload(inc)
  BY DEF Payload
<1> QED BY <1>1, <1>2, <1>3 DEF Complete

\* A stage that adds the files it has to.
LEMMA AddComplete ==
    ASSUME IInv, Complete, NEW stage, NEW fs, Add(stage, fs), job.at > 1,
           \A p \in fs : p[1] = "unmanaged" => p \in Payload(job.v.inc),
           job.at = 3 => write_tmpfiles_conf(Base(job.v)) \subseteq fs,
           job.at = (IF job.kind = "scan" THEN 4 ELSE 6) => write_language_package_manifests(Base(job.v)) \subseteq fs,
           job.at = (IF job.kind = "scan" THEN 6 ELSE 4) => stage_ssh_keys(Base(job.v)) \subseteq fs,
           job.at = 7 => Payload(job.v.inc) \subseteq fs,
           job.kind = "scan" /\ job.at = 8 => CachedRpms \subseteq fs,
           job.kind = "refine" /\ job.at = 7 => src \cap CarriedRpms(Base(job.v)) \subseteq fs
    PROVE  Complete'
<1>1. job.kind \in {"scan", "refine"} /\ job.at \in Nat /\ job.v \in View
  BY DEF IInv, Typed, Running, ViewOf, Add, At
<1>2. Base(job.v).inc = job.v.inc
  BY <1>1, BaseFacts
<1>3. /\ job' = [job EXCEPT !.at = @ + 1] /\ tree' = tree \cup fs /\ UNCHANGED <<inc, src, out>>
  BY DEF Add, Advance, session
<1>4. job'.kind = job.kind /\ job'.at = job.at + 1 /\ job'.v = job.v
  BY <1>3 DEF IInv, Typed
<1>5. StagedSoFar(job.kind, job.at, Base(job.v), src, tree)
  BY <1>1 DEF Complete
<1>6. StagedSoFar(job.kind, job.at + 1, Base(job.v), src, tree')
  BY <1>1, <1>2, <1>3, <1>5 DEF StagedSoFar
<1> QED BY <1>1, <1>3, <1>4, <1>6, CompleteStage

\* The writers and the payload extraction.
LEMMA WritersComplete ==
    ASSUME IInv, Complete, \/ WriteEnvFiles \/ WriteTmpfiles \/ WriteManifests \/ StageUsers
                           \/ write_aggregate_variants \/ extract_payload_dirs \/ WriteCompose
    PROVE  Complete'
<1>1. CASE WriteEnvFiles
  <2>1. job.at = 2 /\ job.kind \in {"scan", "refine"} /\ Add("env", write_env_files(job.v))
    BY <1>1, Positions DEF IInv, Typed, WriteEnvFiles, Add, At
  <2>2. job.v \in View
    BY <2>1, Unproved
  <2> QED BY <2>1, <2>2, Tops, AddComplete
<1>2. CASE WriteTmpfiles
  <2>1. job.at = 3 /\ job.kind \in {"scan", "refine"} /\ Add("tmpfiles", write_tmpfiles_conf(job.v))
    BY <1>2, Positions DEF IInv, Typed, WriteTmpfiles, Add, At
  <2>2. job.v \in View /\ Base(job.v) = job.v
    BY <2>1, Unproved
  <2> QED BY <2>1, <2>2, Tops, AddComplete
<1>3. CASE WriteManifests
  <2>1. /\ job.at = IF job.kind = "scan" THEN 4 ELSE 6
        /\ job.kind \in {"scan", "refine"} /\ Add("manifests", write_language_package_manifests(job.v))
    BY <1>3, Positions DEF IInv, Typed, WriteManifests, Add, At
  <2>2. job.v \in View /\ Base(job.v) = job.v
    BY <2>1, Unproved
  <2> QED BY <2>1, <2>2, Tops, AddComplete
<1>4. CASE StageUsers
  <2>1. /\ job.at = IF job.kind = "scan" THEN 6 ELSE 4
        /\ job.kind \in {"scan", "refine"} /\ Add("users", stage_ssh_keys(job.v))
    BY <1>4, Positions DEF IInv, Typed, StageUsers, Add, At
  <2>2. job.v \in View /\ Base(job.v) = job.v
    BY <2>1, Unproved
  <2> QED BY <2>1, <2>2, Tops, AddComplete
<1>5. CASE write_aggregate_variants
  <2>1. job.kind = "refine" /\ job.at = 5 /\ Add("variants", variant_files)
    BY <1>5, Positions DEF IInv, write_aggregate_variants, Add, At
  <2>2. job.v \in View
    BY <2>1, Unproved
  <2> QED BY <2>1, <2>2, Tops, AddComplete
<1>6. CASE extract_payload_dirs
  <2>1. job.kind = "refine" /\ job.at = 7 /\ Add("payload", payload_files(job.v))
    BY <1>6, Positions DEF IInv, extract_payload_dirs, Add, At
  <2>2. job.v \in View /\ Base(job.v) = job.v
    BY <2>1, Unproved
  <2>3. job.v.inc = inc /\ out.kind \in {"scan", "refine", "past"}
    BY <2>1 DEF IInv, Typed, Running, ViewOf, Plan
  <2>4. Payload(inc) \subseteq src /\ \A p \in src : p[1] = "unmanaged" => p \in Payload(inc)
    BY <2>3 DEF Complete
  <2>5. Payload(inc) \subseteq payload_files(job.v)
    BY <2>3, <2>4 DEF payload_files, Payload, Included
  <2>6. src \cap CarriedRpms(job.v) \subseteq payload_files(job.v)
    BY DEF payload_files, CarriedRpms, RpmsOf, Taken
  <2>7. payload_files(job.v) \subseteq src
    BY DEF payload_files
  <2> QED BY <2>1, <2>2, <2>3, <2>4, <2>5, <2>6, <2>7, AddComplete
<1>7. CASE WriteCompose
  <2>1. job.kind = "refine" /\ job.at = 9 /\ Add("compose", compose_files)
    BY <1>7, Positions DEF IInv, WriteCompose, Add, At
  <2>2. job.v \in View
    BY <2>1 DEF IInv, Running, ViewOf
  <2> QED BY <2>1, <2>2, Tops, AddComplete
<1> QED BY <1>1, <1>2, <1>3, <1>4, <1>5, <1>6, <1>7

\* A failed scan leaves nothing to be complete.
LEMMA FailureComplete ==
    ASSUME IInv, job' = [job EXCEPT !.kind = "none"], out' = NoExport("failed")
    PROVE  Complete'
<1>1. job'.kind = "none" /\ out'.kind = "failed"
  BY DEF IInv, Typed, NoExport
<1> QED BY <1>1 DEF Complete, Done

\* Bundling stages every payload or ends the scan.
LEMMA BundleComplete ==
    ASSUME IInv, Complete, bundle_unmanaged_files \/ bundle_repoless_rpms
    PROVE  Complete'
<1>1. CASE bundle_unmanaged_files
  <2> DEFINE fs == {<<"unmanaged">> \o f.rel : f \in unmanaged_files(job.v)}
  <2>1. job.kind = "scan" /\ job.at = 7
    BY <1>1, Positions DEF IInv, Typed, bundle_unmanaged_files, Bundle, At
  <2>2. CASE unmanaged_files(job.v) \cap gone = {}
    <3>1. Add("bundle_unmanaged", fs)
      BY <1>1, <2>2 DEF bundle_unmanaged_files, Bundle, Add
    <3>2. fs = Payload(job.v.inc)
      BY DEF unmanaged_files, Included, Payload
    <3> HIDE DEF fs
    <3> QED BY <2>1, <3>1, <3>2, AddComplete
  <2>3. CASE unmanaged_files(job.v) \cap gone # {}
    BY <1>1, <2>3, FailureComplete DEF bundle_unmanaged_files, Bundle
  <2> QED BY <2>2, <2>3
<1>2. CASE bundle_repoless_rpms
  <2> DEFINE items == {p \in Of("pkg") : Is(p, "cached")}
  <2>1. job.kind = "scan" /\ job.at = 8
    BY <1>2, Positions DEF IInv, Typed, bundle_repoless_rpms, Bundle, At
  <2>2. CASE items \cap gone = {}
    <3>1. Add("bundle_repoless", CachedRpms)
      BY <1>2, <2>2 DEF bundle_repoless_rpms, Bundle, Add, RpmsOf, CachedRpms
    <3>2. job.v \in View
      BY <2>1, Unproved
    <3>3. \A p \in CachedRpms : p[1] # "unmanaged"
      BY <3>2, Tops DEF CachedRpms
    <3> QED BY <2>1, <3>1, <3>3, AddComplete
  <2>3. CASE items \cap gone # {}
    BY <1>2, <2>3, FailureComplete DEF bundle_repoless_rpms, Bundle
  <2> QED BY <2>2, <2>3
<1> QED BY <1>1, <1>2

\* The stages that do more than add files.
LEMMA StagesComplete ==
    ASSUME IInv, Complete, WriteConfigTree \/ copy_proved_uploads \/ StripTopLevel \/ WriteContainerfile
    PROVE  Complete'
<1>1. CASE WriteConfigTree
  <2>1. job.kind \in {"scan", "refine"} /\ job.at = 1
    BY <1>1, Positions DEF IInv, Typed, WriteConfigTree, At
  <2>2. job.v \in View /\ Base(job.v) = job.v
    BY <2>1, Unproved
  <2>3. /\ tree' = write_config_tree(job.v) /\ UNCHANGED <<inc, src, out>>
        /\ job'.kind = job.kind /\ job'.at = 2 /\ job'.v = job.v
    BY <1>1, <2>1 DEF WriteConfigTree, session, IInv, Typed
  <2>4. \A p \in tree' : p[1] # "unmanaged"
    BY <2>2, <2>3, Tops
  <2>5. StagedSoFar(job'.kind, job'.at, Base(job'.v), src, tree')
    BY <2>1, <2>2, <2>3, <2>4 DEF StagedSoFar, Exportable
  <2> QED BY <2>1, <2>3, <2>5, CompleteStage
<1>2. CASE copy_proved_uploads
  <2> DEFINE proved == prove_staged_uploads(job.v)
  <2>1. job.kind = "refine" /\ job.at = 8
    BY <1>2, Positions DEF IInv, Typed, copy_proved_uploads, At
  <2>2. job.v \in View /\ Base(job.v) = job.v
    BY <2>1, Unproved
  <2>3. /\ tree' = tree \cup RpmsOf(proved) /\ UNCHANGED <<inc, src, out>>
        /\ job' = [job EXCEPT !.at = @ + 1, !.v.verified = proved]
    BY <1>2 DEF copy_proved_uploads, session, RpmsOf
  <2> HIDE DEF proved
  <2>4. job'.kind = job.kind /\ job'.at = 9 /\ job'.v = [job.v EXCEPT !.verified = proved]
    BY <2>1, <2>3 DEF IInv, Typed
  <2>5. Base(job'.v) = job.v
    BY <2>2, <2>4 DEF Base, View
  <2>6. \A p \in RpmsOf(proved) : p[1] # "unmanaged"
    BY <2>2, Tops
  <2>7. StagedSoFar("refine", 8, job.v, src, tree)
    BY <2>1, <2>2 DEF Complete
  <2>8. StagedSoFar("refine", 9, job.v, src, tree')
    BY <2>3, <2>6, <2>7 DEF StagedSoFar
  <2> QED BY <2>1, <2>3, <2>4, <2>5, <2>8, CompleteStage
<1>3. CASE StripTopLevel
  <2>1. job.kind = "refine" /\ job.at = 10
    BY <1>3, Positions DEF IInv, Typed, StripTopLevel, At
  <2>2. job.v \in View /\ Base(job.v) \in View
    BY <2>1, BaseFacts DEF IInv, Running, ViewOf
  <2>3. /\ tree' = Exportable(tree) /\ UNCHANGED <<inc, src, out>>
        /\ job'.kind = job.kind /\ job'.at = 11 /\ job'.v = job.v
    BY <1>3, <2>1 DEF StripTopLevel, Advance, session, Exportable, IInv, Typed
  <2>4. StagedSoFar("refine", 10, Base(job.v), src, tree)
    BY <2>1 DEF Complete
  <2>5. ASSUME NEW S, S \subseteq tree, \A p \in S : p[1] \in allowed_top_level
        PROVE  S \subseteq tree'
    BY <2>3, <2>5 DEF Exportable
  <2>6. Exportable(write_config_tree(Base(job.v))) \subseteq tree'
    <3> DEFINE S == Exportable(write_config_tree(Base(job.v)))
    <3>1. S \subseteq tree
      BY <2>4 DEF StagedSoFar
    <3>2. \A p \in S : p[1] \in allowed_top_level
      BY DEF Exportable
    <3> QED BY <2>5, <3>1, <3>2
  <2>7. write_tmpfiles_conf(Base(job.v)) \subseteq tree'
    BY <2>2, <2>4, <2>5, Tops DEF StagedSoFar, allowed_top_level
  <2>8. write_language_package_manifests(Base(job.v)) \subseteq tree'
    BY <2>2, <2>4, <2>5, Tops DEF StagedSoFar, allowed_top_level
  <2>9. stage_ssh_keys(Base(job.v)) \subseteq tree'
    BY <2>2, <2>4, <2>5, Tops DEF StagedSoFar, allowed_top_level
  <2>10. Payload(Base(job.v).inc) \subseteq tree'
    BY <2>2, <2>4, <2>5, Tops DEF StagedSoFar, allowed_top_level
  <2>11. src \cap CarriedRpms(Base(job.v)) \subseteq tree'
    <3>1. \A p \in CarriedRpms(Base(job.v)) : p[1] = "repoless-packages"
      BY <2>2, Tops DEF CarriedRpms
    <3> DEFINE S == src \cap CarriedRpms(Base(job.v))
    <3>2. S \subseteq tree
      BY <2>4 DEF StagedSoFar
    <3>3. \A p \in S : p[1] \in allowed_top_level
      BY <3>1 DEF allowed_top_level
    <3> HIDE DEF S
    <3>4. S \subseteq tree'
      BY <2>5, <3>2, <3>3
    <3> QED BY <3>4 DEF S
  <2>12. \A p \in tree' : p[1] = "unmanaged" => p \in Payload(Base(job.v).inc)
    BY <2>3, <2>4 DEF StagedSoFar, Exportable
  <2>13. StagedSoFar(job'.kind, job'.at, Base(job'.v), src, tree')
    BY <2>1, <2>3, <2>6, <2>7, <2>8, <2>9, <2>10, <2>11, <2>12 DEF StagedSoFar
  <2> QED BY <2>1, <2>3, <2>13, CompleteStage
<1>4. CASE WriteContainerfile
  <2>1. job.kind \in {"scan", "refine"} /\ job.at = IF job.kind = "scan" THEN 5 ELSE 11
    BY <1>4, Positions DEF IInv, Typed, WriteContainerfile, At
  <2>2. /\ tree' = tree /\ UNCHANGED <<inc, src, out>>
        /\ job'.kind = job.kind /\ job'.at = job.at + 1 /\ job'.v = job.v
    BY <1>4 DEF WriteContainerfile, session, IInv, Typed
  <2>3. StagedSoFar(job.kind, job.at, Base(job.v), src, tree)
    BY <2>1 DEF Complete
  <2>4. StagedSoFar(job'.kind, job'.at, Base(job'.v), src, tree')
    BY <2>1, <2>2, <2>3 DEF StagedSoFar
  <2> QED BY <2>1, <2>2, <2>4, CompleteStage
<1> QED BY <1>1, <1>2, <1>3, <1>4

\* The defaults a session starts from decide about no unmanaged file.
LEMMA DefaultsKeepPayload ==
    ASSUME NEW i \in SUBSET Host, NEW m
    PROVE  Payload(normalize_defaults(i, m)) = Payload(i)
<1>1. Of("unmanaged") \cap normalize_defaults(i, m) = Of("unmanaged") \cap i
  BY DEF normalize_defaults, clamp_locked_items, Of
<1> QED BY <1>1 DEF Payload

\* The finished tarball holds all of it; a scan's is what the session opens.
LEMMA TarballComplete ==
    ASSUME IInv, Complete, CreateTarball
    PROVE  Complete'
<1>1. job.kind \in {"scan", "refine"} /\ job.at = IF job.kind = "scan" THEN 9 ELSE 12
  BY Positions DEF IInv, Typed, CreateTarball, At
<1>2. /\ out'.kind = job.kind /\ out'.v = job.v /\ out'.tree = tree /\ job'.kind = "none"
      /\ IF job.kind = "scan" THEN src' = tree /\ inc' = normalize_defaults(inc, demoted)
                              ELSE src' = src /\ inc' = inc
  BY DEF CreateTarball, IInv, Typed
<1>3. StagedSoFar(job.kind, job.at, Base(job.v), src, tree)
  BY <1>1 DEF Complete
<1>4. job.v \in View /\ job.v.inc = inc /\ Base(job.v).inc = inc
  <2>1. job.v \in View /\ job.v.inc = inc
    BY <1>1 DEF IInv, Running, ViewOf, Plan, ScanView
  <2> QED BY <2>1, BaseFacts
<1>5. CASE job.kind = "scan"
  <2>1. StagedSoFar("scan", 12, Base(job.v), src', tree)
    BY <1>1, <1>3, <1>5 DEF StagedSoFar
  <2>2. Payload(inc) \subseteq tree /\ \A p \in tree : p[1] = "unmanaged" => p \in Payload(inc)
    BY <1>1, <1>3, <1>4, <1>5 DEF StagedSoFar
  <2>3. src' = tree /\ out'.kind = "scan"
    BY <1>2, <1>5
  <2>4. StagedSoFar(out'.kind, 12, Base(out'.v), src', out'.tree)
    BY <1>2, <2>1, <2>3
  <2>5. /\ Payload(inc') \subseteq src'
        /\ \A p \in src' : p[1] = "unmanaged" => p \in Payload(inc')
    BY <1>2, <1>5, <2>2, <2>3, DefaultsKeepPayload DEF IInv, Typed
  <2> QED BY <1>2, <2>4, <2>5 DEF Complete
<1>6. CASE job.kind = "refine"
  <2>1. src' = src /\ out'.kind = "refine" /\ job.at = 12
    BY <1>1, <1>2, <1>6
  <2>2. StagedSoFar(out'.kind, 12, Base(out'.v), src', out'.tree)
    BY <1>2, <1>3, <1>6, <2>1
  <2>3. out.kind \in {"scan", "refine", "past"}
    BY <1>6 DEF IInv, Typed
  <2>4. /\ Payload(inc') \subseteq src'
        /\ \A p \in src' : p[1] = "unmanaged" => p \in Payload(inc')
    BY <1>2, <1>6, <2>1, <2>3 DEF Complete
  <2> QED BY <1>2, <2>2, <2>4 DEF Complete
<1> QED BY <1>1, <1>5, <1>6

\* Between exports: decisions never touch the unmanaged files, and a session
\* opened on an export finds their payloads in it.
LEMMA SessionComplete ==
    ASSUME IInv, Complete,
           \/ \E h \in Host : SetInclude(h, TRUE) \/ SetInclude(h, FALSE) \/ SetUploaded(h)
           \/ StartExport \/ OpenExport
    PROVE  Complete'
<1>1. CASE \E h \in Host : SetInclude(h, TRUE) \/ SetInclude(h, FALSE) \/ SetUploaded(h)
  <2>1. PICK h \in Host : SetInclude(h, TRUE) \/ SetInclude(h, FALSE) \/ SetUploaded(h)
    BY <1>1
  <2>2. /\ job.kind = "none" /\ job' = job /\ src' = src /\ out' = NoExport("past")
        /\ out.kind \in {"scan", "refine", "past"}
    BY <2>1 DEF SetInclude, SetUploaded, Open
  <2>3. Of("unmanaged") \cap inc' = Of("unmanaged") \cap inc
    <3>1. CASE SetUploaded(h)
      BY <3>1 DEF SetUploaded
    <3>2. CASE h.kind = "unmanaged" /\ ~SetUploaded(h)
      BY <2>1, <3>2 DEF SetInclude, Projected
    <3>3. CASE h.kind # "unmanaged" /\ ~SetUploaded(h)
      <4>1. inc' \in {inc, inc \cup {h}, inc \ {h}}
        BY <2>1, <3>3 DEF SetInclude
      <4>2. h \notin Of("unmanaged")
        BY <3>3 DEF Of
      <4> QED BY <4>1, <4>2
    <3> QED BY <3>1, <3>2, <3>3
  <2>4. Payload(inc') = Payload(inc)
    BY <2>3 DEF Payload
  <2>5. out'.kind = "past"
    BY <2>2 DEF NoExport
  <2> QED BY <2>2, <2>4, <2>5 DEF Complete, Done
<1>2. CASE StartExport
  <2>1. /\ job'.kind = "refine" /\ job'.at = 1 /\ tree' = {} /\ UNCHANGED <<inc, src, out>>
    BY <1>2 DEF StartExport
  <2>2. StagedSoFar(job'.kind, job'.at, Base(job'.v), src', tree')
    BY <2>1 DEF StagedSoFar
  <2> QED BY <2>1, <2>2 DEF Complete, Done
<1>3. CASE OpenExport
  <2>1. /\ Done /\ job' = job /\ job.kind = "none" /\ src' = out.tree
        /\ inc' = normalize_defaults(out.v.inc, demoted') /\ out' = NoExport("past")
    BY <1>3 DEF OpenExport, Done
  <2>2. StagedSoFar(out.kind, 12, Base(out.v), src, out.tree)
    BY <2>1 DEF Complete
  <2>3. Base(out.v).inc = out.v.inc /\ out.v.inc \in SUBSET Host
    BY <2>1, BaseFacts DEF IInv, Finished, ViewOf, View
  <2>6. Payload(inc') = Payload(out.v.inc)
    BY <2>1, <2>3, DefaultsKeepPayload
  <2>4. Payload(inc') \subseteq src' /\ \A p \in src' : p[1] = "unmanaged" => p \in Payload(inc')
    BY <2>1, <2>2, <2>3, <2>6 DEF StagedSoFar
  <2>5. out'.kind = "past"
    BY <2>1 DEF NoExport
  <2> QED BY <2>1, <2>4, <2>5 DEF Complete, Done
<1> QED BY <1>1, <1>2, <1>3

\* Nothing that a finished stage of render_all or render_refine_export staged
\* gets lost on the way to the tarball, and every session's tarball holds the
\* payloads of the unmanaged files it includes.
THEOREM StagingIsComplete == Spec => []Complete
<1>1. Init => Complete
  BY DEF Init, Complete, StagedSoFar, Done, NoExport
<1>2. IInv /\ Complete /\ [Next]_vars => Complete'
  <2> SUFFICES ASSUME IInv, Complete, [Next]_vars PROVE Complete'
    OBVIOUS
  <2>1. CASE Step
    BY <2>1, StagesComplete, WritersComplete, BundleComplete, TarballComplete DEF Step
  <2>2. CASE \E h \in Host : SetInclude(h, TRUE) \/ SetInclude(h, FALSE) \/ SetUploaded(h)
    BY <2>2, SessionComplete
  <2>3. CASE StartExport \/ OpenExport
    BY <2>3, SessionComplete
  <2>4. CASE (\E h \in Host : HostFileVanishes(h) \/ StagedFileLost(h)) \/ UNCHANGED vars
    <3>1. UNCHANGED <<job, out, tree, src, inc>>
      BY <2>4 DEF HostFileVanishes, StagedFileLost, vars
    <3> QED BY <3>1 DEF Complete, Done
  <2> QED BY <2>1, <2>2, <2>3, <2>4 DEF Next
<1> QED BY <1>1, <1>2, ExportFollowsPlan, PTL DEF Spec

-----------------------------------------------------------------------------
(* What the image needs at boot                                            *)

\* How a /var directory is backed follows the includes and the upload marks.
LEMMA SameBacking ==
    ASSUME NEW v, NEW w, v.inc = w.inc, v.uploaded = w.uploaded
    PROVE  /\ \A d \in Of("vardir") : effective_var_backing(v, d) = effective_var_backing(w, d)
           /\ render_tmpfiles_conf(v) = render_tmpfiles_conf(w)
<1>1. \A k : Included(v, k) = Included(w, k)
  BY DEF Included
<1>2. \A p : repo_enabling_export(v, p) = repo_enabling_export(w, p)
  BY <1>1 DEF repo_enabling_export, dropped_owned_path, section_survives, Carries
<1>3. install_set(v) = install_set(w)
  BY <1>1, <1>2 DEF install_set
<1>4. \A p : carriage(v, p) = carriage(w, p)
  BY <1>3 DEF carriage
<1>5. \A id : unit_file_reach(v, id) = unit_file_reach(w, id)
  BY <1>4 DEF unit_file_reach
<1>6. \A d : classify_declarers(v, d) = classify_declarers(w, d)
  BY <1>5 DEF classify_declarers
<1>7. ASSUME NEW d \in Of("vardir") PROVE effective_var_backing(v, d) = effective_var_backing(w, d)
  <2>1. Carries(v, "config", d.owner) <=> Carries(w, "config", d.owner)
    BY <1>1 DEF Carries
  <2>2. /\ carriage(v, d.owner) = carriage(w, d.owner)
        /\ classify_declarers(v, d) = classify_declarers(w, d)
    BY <1>4, <1>6
  <2>3. \A a, b \in Verdicts : Is(d, a) /\ Is(d, b) => a = b
    BY RowAssumption
  <2>4. CASE Is(d, "unbacked") \/ Is(d, "tmp_run")
    BY <2>3, <2>4 DEF effective_var_backing, Verdicts
  <2>5. CASE Is(d, "tmp_usr")
    BY <2>2, <2>3, <2>5 DEF effective_var_backing, Verdicts
  <2>6. CASE Is(d, "tmp_etc")
    BY <2>1, <2>3, <2>6 DEF effective_var_backing, Verdicts
  <2>7. CASE Is(d, "declared")
    BY <2>2, <2>3, <2>7 DEF effective_var_backing, Verdicts
  <2>8. CASE ~\E a \in {"unbacked", "tmp_run", "tmp_usr", "tmp_etc", "declared"} : Is(d, a)
    BY <2>2, <2>8 DEF effective_var_backing
  <2> QED BY <2>4, <2>5, <2>6, <2>7, <2>8
<1> QED BY <1>7 DEF render_tmpfiles_conf

\* The lines about /var directories.
LEMMA VarLines ==
    ASSUME IInv, Done, NEW id
    PROVE  /\ Has("mkdir", id) <=> \E d \in Of("vardir") :
                 d.id = id /\ effective_var_backing(out.v, d) = "provision" /\ ~Is(d, "mode")
           /\ \A d \in Of("vardir") :
                 d.id = id /\ effective_var_backing(out.v, d) = "unresolved" => Has("fixme", id)
<1> DEFINE roots == config_copy_roots(write_config_tree(Base(out.v)))
<1>1. out.file = render_containerfile_inner(out.v, roots)
  BY DEF IInv, Finished
<1> HIDE DEF roots
<1>2. Blocks = 1 .. 31 /\ out.file[31] = var_dir_section_lines(out.v)[1]
  BY <1>1, Layout DEF Blocks
<1> DEFINE backed(how) == {d \in Of("vardir") : effective_var_backing(out.v, d) = how}
<1>3. out.file[31] = If(render_tmpfiles_conf(out.v) # {}, {Copy(TmpfilesConf)})
        \cup {Line("mkdir", <<d.id>>) : d \in {x \in backed("provision") : ~Is(x, "mode")}}
        \cup {Line("fixme", <<d.id>>) : d \in backed("unresolved")}
  BY <1>2 DEF var_dir_section_lines
<1>4. \A i \in 1 .. 31 : Line("mkdir", <<id>>) \in out.file[i] => i = 31
  <2>1. Line("mkdir", <<id>>).op = "mkdir"
    BY DEF Line
  <2> QED BY <1>1, <2>1, OpPlaces
<1>5. Line("mkdir", <<id>>) \in out.file[31] <=>
         \E d \in Of("vardir") : d.id = id /\ effective_var_backing(out.v, d) = "provision" /\ ~Is(d, "mode")
  BY <1>3 DEF If, Copy, Line
<1>6. \A d \in Of("vardir") : d.id = id /\ effective_var_backing(out.v, d) = "unresolved"
         => Line("fixme", <<id>>) \in out.file[31]
  BY <1>3
<1>7. 31 \in 1 .. 31
  OBVIOUS
<1> QED BY <1>2, <1>4, <1>5, <1>6, <1>7 DEF Has

\* An included package that the export counts on, as installable by name or
\* as an RPM it carries, is in the image or was warned about.
LEMMA CountedOn ==
    ASSUME IInv, Done, NEW p \in Included(out.v, "pkg"),
           is_package_installable(p) \/ p \in out.v.uploaded \/ Is(p, "cached")
    PROVE  \/ InImage(p.id)
           \/ ~is_package_installable(p) /\ p \in out.warn
           \/ Has("fixme", p.id) /\ (repo_enabling_export(out.v, p) = "lost" \/ Is(p, "unnamed"))
           \/ SkippedName(p.id)
<1>1. p \in Of("pkg") /\ p \in out.v.inc /\ out.v \in View /\ out.v.groups = {}
  BY DEF Included, IInv, Finished, ViewOf, Plan, ScanView, Done
<1>2. Routes(p) # {} \/ ~Is(p, "leaf") \/ Is(p, "suppressed") => InImage(p.id)
  BY <1>1 DEF InImage
<1> SUFFICES ASSUME Is(p, "leaf"), ~Is(p, "suppressed"), Routes(p) = {}, ~SkippedName(p.id),
                    ~(Has("fixme", p.id) /\ Is(p, "unnamed"))
             PROVE  \/ ~is_package_installable(p) /\ p \in out.warn
                    \/ Has("fixme", p.id) /\ repo_enabling_export(out.v, p) = "lost"
  BY <1>2
<1>3. /\ ~Has("rpminstall", p.id) /\ ~Has("install", p.id) /\ ~Has("enable_repo", p.id)
      /\ p.id \notin group_member_suppressed(out.v)
  BY <1>1 DEF Routes, Named, group_member_suppressed
<1>4. p \notin Active(out.v)
  BY <1>3, Rendered
<1>5. ~Is(p, "cached") \/ p \in out.v.uploaded
  <2> SUFFICES ASSUME Is(p, "cached"), p \notin out.v.uploaded PROVE FALSE
    OBVIOUS
  <2>1. repoless(out.v, p)
    BY <1>1, HostAssumption DEF repoless, Annotated, Is, Of
  <2>2. p \notin Unnamed(out.v)
    BY Rendered DEF Unnamed
  <2> QED BY <1>1, <1>4, <2>1, <2>2 DEF Active, Unnamed
<1>6. CASE ~is_package_installable(p)
  <2>1. p \in out.v.uploaded
    BY <1>5, <1>6
  <2>2. out.kind = "refine" /\ Plan(out.v) /\ out.warn = (uploaded \cap inc) \ out.v.verified
    BY <2>1 DEF Done, IInv, Finished, ViewOf, ScanView
  <2>3. p \in uploaded \cap inc
    BY <1>1, <2>1, <2>2 DEF Plan
  <2>4. repoless(out.v, p)
    BY <1>1, <2>1 DEF View, Claimable, repoless, Annotated
  <2>5. p \notin out.v.verified
    BY <1>1, <1>4, <2>4 DEF Active
  <2> QED BY <1>6, <2>2, <2>3, <2>5
<1>7. CASE is_package_installable(p)
  <2>1. p \in installable_packages(out.v)
    BY <1>7 DEF installable_packages
  <2>3. ~Is(p, "unsafe")
    BY <2>1 DEF SkippedName
  <2>2. \A how : repo_enabling_export(out.v, p) = how => p.id \in named_packages(out.v, how)
    BY <1>3, <2>1, <2>3 DEF named_packages
  <2> QED BY <1>3, <2>2, Rendered, Enabling
<1> QED BY <1>6, <1>7

\* The names that paths are made of.
Names == STRING \cup {"etc", "systemd", "system", "containers", "yum.repos.d", "tmpfiles.d",
                      "config", "drop-ins", "unmanaged", "usr", "lib", "bootc", "kargs.d",
                      "inspectah-migrated.toml"}
           \cup {h.id : h \in Host} \cup {h.owner : h \in Host}

\* The paths of the findings are made of them.
LEMMA HostPaths == \A h \in Host : h.rel \in Seq(Names)
<1>1. STRING \subseteq Names
  BY DEF Names
<1> QED BY <1>1, Widen, HostAssumption

\* The directories the inspectors look into.
LEMMA Directories ==
    ASSUME NEW s \in Seq(Names)
    PROVE  /\ IsPrefix(TmpfilesDir, s) <=> Len(s) > 1 /\ s[1] = "etc" /\ s[2] = "tmpfiles.d"
           /\ IsPrefix(RepoDir, s) <=> Len(s) > 1 /\ s[1] = "etc" /\ s[2] = "yum.repos.d"
           /\ IsPrefix(UnitDir, s) <=> Len(s) > 2 /\ s[1] = "etc" /\ s[2] = "systemd" /\ s[3] = "system"
           /\ IsPrefix(QuadletDir, s) <=> Len(s) > 2 /\ s[1] = "etc" /\ s[2] = "containers" /\ s[3] = "systemd"
<1>1. /\ "etc" \in Names /\ "systemd" \in Names /\ "system" \in Names /\ "containers" \in Names
      /\ "yum.repos.d" \in Names /\ "tmpfiles.d" \in Names
  BY DEF Names
<1>2. IsPrefix(TmpfilesDir, s) <=> Len(s) > 1 /\ s[1] = "etc" /\ s[2] = "tmpfiles.d"
  BY <1>1, ShortPrefix, Zenon DEF TmpfilesDir
<1>3. IsPrefix(RepoDir, s) <=> Len(s) > 1 /\ s[1] = "etc" /\ s[2] = "yum.repos.d"
  BY <1>1, ShortPrefix, Zenon DEF RepoDir
<1>4. IsPrefix(UnitDir, s) <=> Len(s) > 2 /\ s[1] = "etc" /\ s[2] = "systemd" /\ s[3] = "system"
  BY <1>1, ShortPrefix, Zenon DEF UnitDir
<1>5. IsPrefix(QuadletDir, s) <=> Len(s) > 2 /\ s[1] = "etc" /\ s[2] = "containers" /\ s[3] = "systemd"
  BY <1>1, ShortPrefix, Zenon DEF QuadletDir
<1> QED BY <1>2, <1>3, <1>4, <1>5

\* A fragment of /etc/tmpfiles.d that is included is carried with /etc.
LEMMA FragmentCarried ==
    ASSUME IInv, Done, NEW c \in Included(out.v, "config"), IsPrefix(TmpfilesDir, c.rel), ~Is(c, "refused")
    PROVE  Carried(<<"config">> \o c.rel)
<1> DEFINE w == Base(out.v)
           p == <<"config">> \o c.rel
           roots == config_copy_roots(write_config_tree(w))
<1>1. /\ out.file = render_containerfile_inner(out.v, roots) /\ out.v \in View
  BY DEF IInv, Finished, ViewOf
<1>2. c \in Of("config") /\ c.rel \in Seq(Names) /\ c \in Included(w, "config")
  BY <1>1, BaseFacts, HostPaths DEF Included, Of
<1>3. "etc" \in Names /\ "config" \in Names
  BY DEF Names
<1>5. Len(c.rel) > 1 /\ c.rel[1] = "etc" /\ c.rel[2] = "tmpfiles.d"
  BY <1>2, Directories
<1>6. c.rel \notin owned_elsewhere
  <2>1. \A h \in Of("dropin") : h.rel # c.rel
    BY <1>5, PathAssumption, HostPaths, Directories DEF Of
  <2>2. \A h \in Of("quadlet") \cup Of("nm") : h.rel # c.rel
    BY PathAssumption
  <2> QED BY <2>1, <2>2 DEF owned_elsewhere
<1>7. ~IsPrefix(QuadletDir, c.rel)
  BY <1>2, <1>5, Directories
<1>8. p \in write_config_tree(w)
  <2>1. p \in config_files(w)
    BY <1>2, <1>6, <1>7 DEF config_files
  <2> QED BY <2>1 DEF write_config_tree
<1>9. /\ p \in Seq(Names) /\ p[1] = "config" /\ p[2] = "etc" /\ Len(p) > 2
  <2>1. c.rel # <<>>
    BY <1>5
  <2> QED BY <1>2, <1>3, <1>5, <2>1, BelowIs
<1>10. "etc" \in roots
  BY <1>8, <1>9 DEF config_copy_roots
<1>11. Copy(<<"config", "etc">>) \in out.file[17] /\ 17 \in DOMAIN out.file
  <2> HIDE DEF roots
  <2>1. /\ 17 \in DOMAIN render_containerfile_inner(out.v, roots)
        /\ render_containerfile_inner(out.v, roots)[17] = config_section_lines(out.v, roots)[1]
    BY Layout
  <2> QED BY <1>1, <1>10, <2>1 DEF config_section_lines
<1>12. <<"config", "etc">> \in Sources
  BY <1>11 DEF Sources, LinesOf, Copy, Line
<1>13. IsPrefix(<<"config", "etc">>, p)
  <2> HIDE DEF p
  <2>1. Len(p) > 1
    BY <1>9
  <2> QED BY <1>3, <1>9, <2>1, ShortPrefix, Zenon
<1> QED BY <1>12, <1>13 DEF Carried

\* Every /var directory is made in one way, backed or asked for.
LEMMA VarDirsMade ==
    ASSUME IInv, Complete, Done, NEW d \in Of("vardir")
    PROVE  VarDirMade(d, render_tmpfiles_conf(out.v), effective_var_backing(out.v, d))
<1> DEFINE backing == effective_var_backing(out.v, d)
           tmp == TmpfilesConf \in out.tree /\ d \in render_tmpfiles_conf(out.v)
           mk == Has("mkdir", d.id)
<1>1. d \in render_tmpfiles_conf(out.v) <=> backing = "unresolved" \/ (backing = "provision" /\ Is(d, "mode"))
  BY DEF render_tmpfiles_conf
<1>2. d \in render_tmpfiles_conf(out.v) => TmpfilesConf \in out.tree
  <2>1. out.v \in View
    BY DEF IInv, Finished, ViewOf
  <2>2. render_tmpfiles_conf(Base(out.v)) = render_tmpfiles_conf(out.v)
    BY <2>1, BaseFacts, SameBacking
  <2>3. write_tmpfiles_conf(Base(out.v)) \subseteq out.tree
    BY DEF Complete, StagedSoFar
  <2> QED BY <2>2, <2>3 DEF write_tmpfiles_conf, If
<1>3. mk <=> backing = "provision" /\ ~Is(d, "mode")
  <2>1. \A e \in Of("vardir") : e.id = d.id => e = d
    BY RowAssumption
  <2> QED BY <2>1, VarLines
<1>4. backing = "unresolved" => Has("fixme", d.id)
  BY VarLines
<1>5. ASSUME backing \notin {"provision", "unresolved"}, Is(d, "rpm") \/ Is(d, "tmp_usr")
      PROVE  InImage(d.owner) \/ CountedAlthoughAbsent(d.owner)
  <2>1. /\ ~Is(d, "unbacked") /\ ~Is(d, "tmp_run") /\ ~Is(d, "tmp_etc") /\ ~Is(d, "declared")
        /\ Is(d, "rpm") => ~Is(d, "tmp_usr")
    BY <1>5, RowAssumption DEF Verdicts
  <2>2. from_carriage(carriage(out.v, d.owner)) \notin {"provision", "unresolved"}
    BY <1>5, <2>1 DEF effective_var_backing
  <2>3. carriage(out.v, d.owner) = "carried"
    BY <2>2 DEF from_carriage, carriage
  <2>4. CASE d.owner \in Baseline
    BY <2>4 DEF InImage
  <2>5. CASE d.owner \in install_set(out.v)
    <3>1. PICK x \in Included(out.v, "pkg") :
             /\ x.id = d.owner /\ repo_enabling_export(out.v, x) # "lost"
             /\ is_package_installable(x) \/ x \in out.v.uploaded \/ Is(x, "cached")
      BY <2>5 DEF install_set
    <3> QED BY <3>1, CountedOn DEF CountedAlthoughAbsent, Included
  <2> QED BY <2>3, <2>4, <2>5 DEF carriage
<1>6. ASSUME backing \notin {"provision", "unresolved"}, Is(d, "tmp_etc")
      PROVE  \E c \in Of("config") : c.id = d.owner /\ Carried(<<"config">> \o c.rel)
  <2>1. ~Is(d, "unbacked") /\ ~Is(d, "tmp_run") /\ ~Is(d, "tmp_usr") /\ ~Is(d, "declared")
    BY <1>6, RowAssumption DEF Verdicts
  <2>2. Carries(out.v, "config", d.owner)
    BY <1>6, <2>1 DEF effective_var_backing
  <2>3. PICK c \in Included(out.v, "config") : c.id = d.owner
    BY <2>2 DEF Carries
  <2>4. c \in Of("config") /\ IsPrefix(TmpfilesDir, c.rel) /\ ~Is(c, "refused")
    BY <1>6, <2>3, RowAssumption DEF Included
  <2> QED BY <2>3, <2>4, FragmentCarried
<1> HIDE DEF backing
<1>7. VarDirMade(d, render_tmpfiles_conf(out.v), backing)
  <2>1. CASE backing = "provision"
    BY <1>1, <1>2, <1>3, <2>1 DEF VarDirMade
  <2>2. CASE backing = "unresolved"
    BY <1>3, <1>4, <2>2 DEF VarDirMade
  <2>3. CASE backing \notin {"provision", "unresolved"}
    BY <1>1, <1>3, <1>5, <1>6, <2>3 DEF VarDirMade
  <2> QED BY <2>1, <2>2, <2>3
<1> QED BY <1>7 DEF backing

\* The units that are enabled: those of services, and the export's own.
LEMMA EnabledUnits ==
    ASSUME IInv, Done, NEW id, Has("enable", id), id \notin OwnUnits(out.v)
    PROVE  \E s \in Included(out.v, "service") : s.id = id /\ classify_service_presence(out.v, s) = "emit"
<1> DEFINE roots == config_copy_roots(write_config_tree(Base(out.v)))
           F == render_containerfile_inner(out.v, roots)
           l == Line("enable", <<id>>)
<1>1. out.file = F
  BY DEF IInv, Finished
<1> HIDE DEF roots
<1>2. DOMAIN F = 1 .. 31
  BY Layout
<1>3. PICK i \in 1 .. 31 : l \in F[i]
  BY <1>1, <1>2 DEF Has, Blocks
<1>4. l.op = "enable"
  BY DEF Line
<1>5. i \in {10, 15, 16, 24, 28}
  BY <1>3, <1>4, OpPlaces
<1>6. /\ F[10] = render_service_intent(out.v)[1] /\ F[24] = containers_section_lines(out.v)[2]
      /\ F[15] = scheduled_tasks_section_lines(out.v)[2] /\ F[16] = scheduled_tasks_section_lines(out.v)[3]
      /\ F[28] = kernel_boot_section_lines(out.v)[1]
  BY Layout
<1> HIDE DEF F
<1>7. CASE i = 10
  <2>1. F[10] = {Line("enable", <<s.id>>) : s \in {x \in {y \in Included(out.v, "service") :
                    Is(y, "enable") /\ classify_service_presence(out.v, y) = "emit"} : x.id \notin config_tree_units(out.v)}}
    BY <1>6 DEF render_service_intent
  <2> QED BY <1>3, <1>7, <2>1 DEF Line
<1>8. CASE i = 15
  <2>1. F[15] = {Line("enable", <<t.id>>) : t \in Included(out.v, "localtimer")
                    \cup {x \in Included(out.v, "gentimer") : ~Is(x, "reboot")}}
    BY <1>6 DEF scheduled_tasks_section_lines
  <2>2. PICK t \in Included(out.v, "localtimer") \cup {x \in Included(out.v, "gentimer") : ~Is(x, "reboot")} :
           t.id = id
    BY <1>3, <1>8, <2>1 DEF Line
  <2>3. t \in Of("localtimer") \/ (t \in Included(out.v, "gentimer") /\ Is(t, "timer"))
    BY <2>2, RowAssumption DEF Included
  <2>4. id \in config_tree_units(out.v)
    BY <2>2, <2>3 DEF config_tree_units
  <2> QED BY <2>4 DEF OwnUnits
<1>9. CASE i = 16
  <2>1. F[16] = {Line("enable", <<t.owner>>) : t \in {x \in Included(out.v, "gentimer") : Is(x, "reboot")}}
    BY <1>6 DEF scheduled_tasks_section_lines
  <2>2. PICK t \in Included(out.v, "gentimer") : Is(t, "reboot") /\ t.owner = id
    BY <1>3, <1>9, <2>1 DEF Line
  <2>3. Is(t, "service")
    BY <2>2, RowAssumption DEF Included
  <2>4. id \in config_tree_units(out.v)
    BY <2>2, <2>3 DEF config_tree_units
  <2> QED BY <2>4 DEF OwnUnits
<1>10. CASE i = 24
  <2>1. F[24] \subseteq {Line("enable", <<"flatpak-provision.service">>)}
    BY <1>6 DEF containers_section_lines, If
  <2>2. id = "flatpak-provision.service"
    BY <1>3, <1>10, <2>1 DEF Line
  <2> QED BY <2>2 DEF OwnUnits
<1>11. CASE i = 28
  <2>1. \A m \in F[28] : m.op = "enable" =>
           active_profiles(out.v) # {} /\ m = Line("enable", <<"tuned.service">>)
    BY <1>6 DEF kernel_boot_section_lines, If, Copy, Line
  <2>2. active_profiles(out.v) # {} /\ id = "tuned.service"
    BY <1>3, <1>4, <1>11, <2>1 DEF Line
  <2> QED BY <2>2 DEF OwnUnits, If
<1> QED BY <1>5, <1>7, <1>8, <1>9, <1>10, <1>11

\* The owner of an enabled unit is in the image or the plan warns about it.
LEMMA UnitsBacked ==
    ASSUME IInv, Done, ~Aggregate, NEW s \in Of("service"), Has("enable", s.id), s.id \notin OwnUnits(out.v)
    PROVE  UnitBacked(s)
<1>1. s \in Included(out.v, "service") /\ classify_service_presence(out.v, s) = "emit"
  BY EnabledUnits, RowAssumption DEF Included
<1> SUFFICES ASSUME s.owner # "", s \notin service_advisories(out.v), ~Has("fixme", s.owner),
                    ~SkippedName(s.owner)
             PROVE  InImage(s.owner)
  BY DEF UnitBacked
<1>2. CASE \E p \in Of("pkg") : p.id = s.owner
  <2>1. PICK p \in Included(out.v, "pkg") : p.id = s.owner /\ is_package_installable(p)
    BY <1>1, <1>2 DEF service_advisories
  <2> QED BY <2>1, CountedOn
<1>3. CASE ~\E p \in Of("pkg") : p.id = s.owner
  <2>1. BaseKnown
    BY <1>1, <1>3 DEF service_advisories
  <2>2. s.owner \in Baseline
    BY <1>1, <1>3, <2>1 DEF classify_service_presence
  <2> QED BY <2>2 DEF InImage
<1> QED BY <1>2, <1>3

\* What the image needs at boot is in it or asked for in the file: what
\* effective_var_backing and classify_service_presence count on is carried.
THEOREM BootAlwaysMet == Spec => []BootNeedsMet
<1>1. IInv /\ Complete => BootNeedsMet
  <2> SUFFICES ASSUME IInv, Complete, Done
               PROVE  /\ \A d \in Of("vardir") :
                           VarDirMade(d, render_tmpfiles_conf(out.v), effective_var_backing(out.v, d))
                      /\ ~Aggregate => \A s \in Of("service") :
                            Has("enable", s.id) /\ s.id \notin OwnUnits(out.v) => UnitBacked(s)
    BY DEF BootNeedsMet
  <2> QED BY VarDirsMade, UnitsBacked
<1> QED BY <1>1, ExportFollowsPlan, StagingIsComplete, PTL

-----------------------------------------------------------------------------
(* The tarball and the Containerfile in it                                 *)

\* A path is a prefix of itself, whatever its names are.
LEMMA SelfPrefix ==
    ASSUME NEW a, NEW b, NEW c, NEW d, NEW e
    PROVE  /\ IsPrefix(<<a>>, <<a, b>>) /\ IsPrefix(<<a, b>>, <<a, b>>)
           /\ IsPrefix(<<a, b, c, d>>, <<a, b, c, d>>)
           /\ IsPrefix(<<a, b, c, d, e>>, <<a, b, c, d, e>>)
<1> DEFINE S == {a, b, c, d, e}
<1>1. /\ <<a, b>> \in Seq(S) /\ <<a, b, c, d>> \in Seq(S) /\ <<a, b, c, d, e>> \in Seq(S)
  OBVIOUS
<1>2. \A s \in Seq(S) : IsPrefix(s, s)
  BY FrontIs
<1>3. IsPrefix(<<a>>, <<a, b>>)
  <2>1. Len(<<a, b>>) > 0 /\ <<a, b>>[1] = a
    OBVIOUS
  <2> QED BY <1>1, <2>1, ShortPrefix
<1> QED BY <1>1, <1>2, <1>3

\* The parent of a path, put below a directory like the path itself.
LEMMA ParentPrefix ==
    ASSUME NEW a \in Names, NEW s \in Seq(Names)
    PROVE  IsPrefix(<<a>> \o s, <<a>> \o s) /\ IsPrefix(<<a>> \o Front(s), <<a>> \o s)
<1>1. Front(s) \in Seq(Names) /\ IsPrefix(s, s) /\ IsPrefix(Front(s), s)
  BY FrontIs
<1>2. IsPrefix(<<a>> \o s, <<a>> \o s)
  BY <1>1, PrefixBelow
<1>3. IsPrefix(<<a>> \o Front(s), <<a>> \o s)
  BY <1>1, PrefixBelow
<1> QED BY <1>2, <1>3

\* The unit directory holds the units.
LEMMA UnitPath ==
    ASSUME NEW x \in Names
    PROVE  LET p == <<"config">> \o Append(UnitDir, x) IN
           /\ p \in Seq(Names) /\ Len(p) > 2 /\ p[1] = "config" /\ p[2] = "etc"
           /\ IsPrefix(UnitCopy, p)
<1> DEFINE s == Append(UnitDir, x)
<1>1. "etc" \in Names /\ "systemd" \in Names /\ "system" \in Names /\ "config" \in Names
  BY DEF Names
<1>2. UnitDir \in Seq(Names) /\ Len(UnitDir) = 3 /\ UnitDir[1] = "etc" /\ UnitDir[2] = "systemd" /\ UnitDir[3] = "system"
  BY <1>1 DEF UnitDir
<1>3. /\ s \in Seq(Names) /\ Len(s) = 4 /\ s[1] = "etc" /\ s[2] = "systemd" /\ s[3] = "system"
  <2>1. s \in Seq(Names) /\ Len(s) = Len(UnitDir) + 1 /\ \A i \in 1 .. Len(UnitDir) : s[i] = UnitDir[i]
    BY <1>2, AppendIs
  <2> HIDE DEF s
  <2>2. 1 \in 1 .. 3 /\ 2 \in 1 .. 3 /\ 3 \in 1 .. 3
    OBVIOUS
  <2> QED BY <1>2, <2>1, <2>2
<1> HIDE DEF s
<1>4. IsPrefix(UnitDir, s)
  BY <1>3, Directories
<1>5. IsPrefix(<<"config">> \o UnitDir, <<"config">> \o s)
  BY <1>1, <1>2, <1>3, <1>4, PrefixBelow
<1> DEFINE p == <<"config">> \o s
<1>6. p \in Seq(Names) /\ Len(p) = 5 /\ p[1] = "config" /\ p[2] = "etc"
  <2>1. s # <<>>
    BY <1>3
  <2>2. "config" \in Names /\ s \in Seq(Names)
    BY <1>1, <1>3
  <2>3. p \in Seq(Names) /\ Len(p) = Len(s) + 1 /\ p[1] = "config" /\ p[2] = s[1]
    BY <2>1, <2>2, BelowIs
  <2> HIDE DEF p
  <2> QED BY <1>3, <2>3
<1> QED BY <1>3, <1>5, <1>6 DEF s, UnitCopy

\* What a finished export has staged.
LEMMA StagedFiles ==
    ASSUME IInv, Complete, Done
    PROVE  /\ \A p \in write_config_tree(out.v) : p[1] # "subscription" => p \in out.tree
           /\ write_tmpfiles_conf(out.v) \subseteq out.tree
           /\ write_language_package_manifests(out.v) \subseteq out.tree
           /\ stage_ssh_keys(out.v) \subseteq out.tree
           /\ Payload(out.v.inc) \subseteq out.tree
           /\ \A p \in out.tree : p[1] = "unmanaged" => p \in Payload(out.v.inc)
           /\ out.kind = "scan" => CachedRpms \subseteq out.tree
           /\ out.kind = "refine" => src \cap CarriedRpms(out.v) \subseteq out.tree
           /\ RpmsOf(out.v.verified) \subseteq out.tree
<1> DEFINE v == out.v
           w == Base(out.v)
<1>1. v \in View /\ w \in View /\ w.inc = v.inc /\ w.uploaded = v.uploaded
  BY BaseFacts DEF IInv, Finished, ViewOf
<1>2. StagedSoFar(out.kind, 12, w, src, out.tree) /\ out.kind \in {"scan", "refine"}
  BY DEF Complete, Done
<1> HIDE DEF w
<1>3. \A p \in write_config_tree(v) : p[1] # "subscription" => p \in out.tree
  <2>1. write_config_tree(w) = write_config_tree(v)
    BY <1>1, SameTree
  <2>2. Exportable(write_config_tree(v)) \subseteq out.tree
    BY <1>2, <2>1 DEF StagedSoFar
  <2> QED BY <1>1, <2>2, Tops DEF Exportable, allowed_top_level
<1>4. write_tmpfiles_conf(v) \subseteq out.tree
  <2>1. render_tmpfiles_conf(w) = render_tmpfiles_conf(v)
    BY <1>1, SameBacking
  <2>2. write_tmpfiles_conf(w) = write_tmpfiles_conf(v)
    BY <2>1 DEF write_tmpfiles_conf
  <2> QED BY <1>2, <2>2 DEF StagedSoFar
<1>5. \A k : Included(w, k) = Included(v, k)
  BY <1>1 DEF Included
<1>6. write_language_package_manifests(v) \subseteq out.tree
  <2>1. write_language_package_manifests(w) = write_language_package_manifests(v)
    BY <1>5 DEF write_language_package_manifests
  <2> QED BY <1>2, <2>1 DEF StagedSoFar
<1>7. stage_ssh_keys(v) \subseteq out.tree
  <2>1. stage_ssh_keys(w) = stage_ssh_keys(v)
    BY <1>5 DEF stage_ssh_keys
  <2> QED BY <1>2, <2>1 DEF StagedSoFar
<1>8. Payload(v.inc) \subseteq out.tree /\ \A p \in out.tree : p[1] = "unmanaged" => p \in Payload(v.inc)
  BY <1>1, <1>2 DEF StagedSoFar
<1>9. out.kind = "scan" => CachedRpms \subseteq out.tree
  BY <1>2 DEF StagedSoFar
<1>10. out.kind = "refine" => src \cap CarriedRpms(v) \subseteq out.tree
  <2>1. CarriedRpms(w) = CarriedRpms(v)
    BY <1>1, <1>5 DEF CarriedRpms, Taken
  <2> QED BY <1>2, <2>1 DEF StagedSoFar
<1>11. RpmsOf(v.verified) \subseteq out.tree
  <2>1. out.kind = "scan" => v.verified = {}
    BY DEF IInv, Finished, ViewOf, ScanView
  <2> QED BY <1>2, <2>1 DEF IInv, Finished, RpmsOf
<1> QED BY <1>3, <1>4, <1>6, <1>7, <1>8, <1>9, <1>10, <1>11

\* The blocks of a finished export that hold a COPY.
LEMMA CopyBlocks ==
    ASSUME IInv, Done
    PROVE  LET v == out.v
               F == out.file
               image == {f \in Included(v, "unmanaged") : f.rel[1] # "srv"}
               regular == {f \in image : ~Is(f, "symlink")}
               beside(f) == {g \in regular : Front(g.rel) = Front(f.rel)} IN
           /\ DOMAIN F = 1 .. 31
           /\ F[1] = If(\E r \in Included(v, "repo") : ~Is(r, "default"), {Copy(RepoCopy)})
           /\ F[2] = gpg_copies(v)
           /\ F[13] = If(Included(v, "dropin") # {}, {Copy(<<"drop-ins">> \o UnitDir)})
           /\ F[14] = If(Included(v, "localtimer") \cup Included(v, "gentimer") # {}, {Copy(UnitCopy)})
           /\ F[17] = {Copy(<<"config", r>>) : r \in config_copy_roots(write_config_tree(v))}
           /\ F[18] = UNION {{Copy(manifest_file(l, f)) : f \in manifests_of(l.owner)} : l \in installed_environments(v)}
           /\ F[20] = {Copy(<<"unmanaged">> \o (IF Cardinality(beside(f)) > 1 THEN Front(f.rel) ELSE f.rel)) : f \in regular}
                        \cup {Line("link", f.rel) : f \in {x \in image : Is(x, "symlink") /\ Is(x, "target")}}
           /\ F[21] = {Copy(repoless_file(p)) : p \in Active(v)}
           /\ F[23] = If(Included(v, "quadlet") # {}, {Copy(<<"quadlet">>)})
                        \cup If(Included(v, "flatpak") # {},
                                {Copy(<<"flatpak">>), Copy(<<"flatpak", "flatpak-provision.service">>)})
           /\ F[27] = {Copy(ssh_key_file(u)) : u \in {x \in Created(v) : Is(x, "keys")}}
           /\ F[28] = If(Of("karg") # {}, {Copy(KargsConf)})
                        \cup If(Included(v, "sysctl") # {}, {Copy(SysctlConf)})
                        \cup {Line("tuned", <<t.id>>) : t \in active_profiles(v)}
                        \cup If(active_profiles(v) # {}, {Line("enable", <<"tuned.service">>)})
           /\ \A l \in F[31] : l.op = "COPY" => l = Copy(TmpfilesConf) /\ render_tmpfiles_conf(v) # {}
           /\ render_tmpfiles_conf(v) # {} => Copy(TmpfilesConf) \in F[31]
<1> DEFINE v == out.v
           roots == config_copy_roots(write_config_tree(v))
           F == render_containerfile_inner(v, roots)
<1>1. out.file = F
  <2>1. v \in View
    BY DEF IInv, Finished, ViewOf
  <2>2. write_config_tree(Base(v)) = write_config_tree(v)
    BY <2>1, BaseFacts, SameTree
  <2> QED BY <2>2 DEF IInv, Finished
<1> HIDE DEF roots
<1>2. DOMAIN F = 1 .. 31
  BY Layout
<1>3. /\ F[1] = packages_section_lines(v)[1] /\ F[2] = packages_section_lines(v)[2]
      /\ F[13] = drop_ins_section_lines(v)[1] /\ F[14] = scheduled_tasks_section_lines(v)[1]
      /\ F[17] = config_section_lines(v, roots)[1] /\ F[18] = language_package_lines(v)[1]
      /\ F[20] = unmanaged_file_lines(v)[1] /\ F[21] = repoless_rpm_lines(v)[1]
      /\ F[23] = containers_section_lines(v)[1] /\ F[28] = kernel_boot_section_lines(v)[1]
      /\ F[31] = var_dir_section_lines(v)[1]
  BY Layout
<1>4. F[27] = {Copy(ssh_key_file(u)) : u \in {x \in Created(v) : Is(x, "keys")}}
  BY KeyBlocks
<1> HIDE DEF F
<1>5. F[1] = If(\E r \in Included(v, "repo") : ~Is(r, "default"), {Copy(RepoCopy)}) /\ F[2] = gpg_copies(v)
  BY <1>3 DEF packages_section_lines, RepoCopy
<1>6. F[13] = If(Included(v, "dropin") # {}, {Copy(<<"drop-ins">> \o UnitDir)})
  BY <1>3 DEF drop_ins_section_lines
<1>7. F[14] = If(Included(v, "localtimer") \cup Included(v, "gentimer") # {}, {Copy(UnitCopy)})
  BY <1>3 DEF scheduled_tasks_section_lines, UnitCopy
<1>8. F[17] = {Copy(<<"config", r>>) : r \in roots}
  BY <1>3 DEF config_section_lines
<1>9. F[18] = UNION {{Copy(manifest_file(l, f)) : f \in manifests_of(l.owner)} : l \in installed_environments(v)}
  BY <1>3 DEF language_package_lines
<1>10. LET image == {f \in Included(v, "unmanaged") : f.rel[1] # "srv"}
           regular == {f \in image : ~Is(f, "symlink")}
           beside(f) == {g \in regular : Front(g.rel) = Front(f.rel)} IN
       F[20] = {Copy(<<"unmanaged">> \o (IF Cardinality(beside(f)) > 1 THEN Front(f.rel) ELSE f.rel)) : f \in regular}
                 \cup {Line("link", f.rel) : f \in {x \in image : Is(x, "symlink") /\ Is(x, "target")}}
  BY <1>3 DEF unmanaged_file_lines
<1>11. F[21] = {Copy(repoless_file(p)) : p \in Active(v)}
  BY <1>3 DEF repoless_rpm_lines, Active
<1>12. F[23] = If(Included(v, "quadlet") # {}, {Copy(<<"quadlet">>)})
                 \cup If(Included(v, "flatpak") # {},
                         {Copy(<<"flatpak">>), Copy(<<"flatpak", "flatpak-provision.service">>)})
  BY <1>3 DEF containers_section_lines
<1>13. F[28] = If(Of("karg") # {}, {Copy(KargsConf)})
                 \cup If(Included(v, "sysctl") # {}, {Copy(SysctlConf)})
                 \cup {Line("tuned", <<t.id>>) : t \in active_profiles(v)}
                 \cup If(active_profiles(v) # {}, {Line("enable", <<"tuned.service">>)})
  BY <1>3 DEF kernel_boot_section_lines
<1>14. /\ \A l \in F[31] : l.op = "COPY" => l = Copy(TmpfilesConf) /\ render_tmpfiles_conf(v) # {}
       /\ render_tmpfiles_conf(v) # {} => Copy(TmpfilesConf) \in F[31]
  BY <1>3 DEF var_dir_section_lines, If, Line
<1> QED BY <1>1, <1>2, <1>4, <1>5, <1>6, <1>7, <1>8, <1>9, <1>10, <1>11, <1>12, <1>13, <1>14 DEF roots

\* A package is installed from a carried RPM when its upload was proved, or
\* when the scan cached the RPM and no upload was claimed.
LEMMA ActiveIs ==
    ASSUME NEW v, NEW p
    PROVE  p \in Active(v) <=>
              /\ p \in Of("pkg") /\ repoless(v, p)
              /\ p \in v.verified \/ (p \in v.inc \ v.uploaded /\ Is(p, "cached") /\ ~Is(p, "unnamed"))
<1> DEFINE R == {x \in Of("pkg") : repoless(v, x)}
           proved == {x \in R : x \in v.verified}
           refused == {x \in R \ proved : x \in v.uploaded \cap v.inc}
           cached == {x \in R \ (proved \cup refused) : Is(x, "cached") /\ ~Is(x, "unnamed")}
<1>1. p \in R <=> p \in Of("pkg") /\ repoless(v, p)
  OBVIOUS
<1>2. p \in proved <=> p \in R /\ p \in v.verified
  OBVIOUS
<1>3. p \in refused <=> p \in R /\ p \notin v.verified /\ p \in v.uploaded \cap v.inc
  OBVIOUS
<1>4. p \in cached <=> p \in R /\ p \notin proved /\ p \notin refused /\ Is(p, "cached") /\ ~Is(p, "unnamed")
  OBVIOUS
<1>5. Active(v) = proved \cup (cached \cap v.inc)
  BY DEF Active
<1> HIDE DEF R, proved, refused, cached
<1> QED BY <1>1, <1>2, <1>3, <1>4, <1>5

\* The sources of the COPYs, by block.
LEMMA SourceBlocks ==
    ASSUME IInv, Done
    PROVE  /\ \A i \in 1 .. 31 : \A s : Copy(s) \in out.file[i] => s \in Sources
           /\ \A s \in Sources : \E i \in {1, 2, 13, 14, 17, 18, 20, 21, 23, 27, 28, 31} :
                 \E l \in out.file[i] : l.op = "COPY" /\ l.arg = s
<1>1. DOMAIN out.file = 1 .. 31
  BY CopyBlocks
<1>2. \A i \in 1 .. 31 : \A s : Copy(s) \in out.file[i] => s \in Sources
  BY <1>1 DEF Sources, LinesOf, Copy, Line
<1>3. ASSUME NEW s \in Sources
      PROVE  \E i \in {1, 2, 13, 14, 17, 18, 20, 21, 23, 27, 28, 31} :
                \E l \in out.file[i] : l.op = "COPY" /\ l.arg = s
  <2>1. PICK i \in 1 .. 31 : \E l \in out.file[i] : l.op = "COPY" /\ l.arg = s
    BY <1>1 DEF Sources, LinesOf
  <2>2. out.file = render_containerfile_inner(out.v, config_copy_roots(write_config_tree(Base(out.v))))
    BY DEF IInv, Finished
  <2>3. i \in {1, 2, 13, 14, 17, 18, 20, 21, 23, 27, 28, 31}
    BY <2>1, <2>2, OpPlaces
  <2> QED BY <2>1, <2>3
<1> QED BY <1>2, <1>3

\* The files the export names itself are paths.
LEMMA OwnPaths ==
    /\ IsPrefix(KargsConf, KargsConf) /\ IsPrefix(SysctlConf, SysctlConf)
    /\ IsPrefix(TmpfilesConf, TmpfilesConf)
    /\ KargsConf \in Seq(Names)
<1> DEFINE S == {"config", "usr", "lib", "bootc", "kargs.d", "inspectah-migrated.toml", "tmpfiles.d",
                "inspectah-var.conf", "sysctl", "etc", "sysctl.d", "99-inspectah-migrated.conf"}
<1>1. KargsConf \in Seq(S) /\ SysctlConf \in Seq(S) /\ TmpfilesConf \in Seq(S)
  BY DEF KargsConf, SysctlConf, TmpfilesConf
<1>2. \A s \in Seq(S) : IsPrefix(s, s)
  BY FrontIs
<1>3. KargsConf \in Seq(Names)
  BY DEF KargsConf, Names
<1> QED BY <1>1, <1>2, <1>3

\* What write_config_tree puts below config/ are paths.
LEMMA ConfigPaths ==
    ASSUME NEW v, NEW p \in write_config_tree(v), p[1] = "config"
    PROVE  p \in Seq(Names)
<1>1. "config" \in Names
  BY DEF Names
<1>2. \A h \in Host : h.rel \in Seq(Names) /\ h.id \in Names /\ h.owner \in Names
  BY HostPaths DEF Names
<1>3. \A s \in Seq(Names) : <<"config">> \o s \in Seq(Names)
  BY <1>1
<1>4. CASE p \in config_files(v) \cup plain_files(v)
  <2>1. \E h \in Host : p = <<"config">> \o h.rel
    BY <1>4 DEF config_files, plain_files, Included, Of
  <2> QED BY <1>2, <1>3, <2>1
<1>5. CASE p \in timer_files(v)
  <2>1. \E x \in Names : p = <<"config">> \o Append(UnitDir, x)
    BY <1>2, <1>5 DEF timer_files, Included, Of
  <2> QED BY <2>1, UnitPath
<1>6. CASE p = KargsConf
  BY <1>6, OwnPaths
<1>7. CASE p \in subscription_files
  <2>1. \E h \in Host : p = <<"subscription">> \o h.rel
    BY <1>7 DEF subscription_files, Of
  <2> QED BY <1>2, <2>1, Below
<1>8. CASE p \in {<<"drop-ins">> \o d.rel : d \in {x \in Included(v, "dropin") : ~Is(x, "refused")}}
  <2>1. \E h \in Host : p = <<"drop-ins">> \o h.rel
    BY <1>8 DEF Included, Of
  <2> QED BY <1>2, <2>1, Below
<1>9. CASE p \in {SysctlConf, <<"flatpak", "flatpak-install.json">>, <<"flatpak", "flatpak-provision.service">>}
           \/ \E q : p = <<"quadlet", q>>
  BY <1>9 DEF SysctlConf
<1> QED BY <1>4, <1>5, <1>6, <1>7, <1>8, <1>9 DEF write_config_tree, If

\* Every COPY of the blocks up to the config tree has its source.
LEMMA ConfigCopiesStaged ==
    ASSUME IInv, Complete, Done, NEW i \in {1, 2, 13, 14, 17}, NEW l \in out.file[i]
    PROVE  \E p \in out.tree : IsPrefix(l.arg, p)
<1> DEFINE v == out.v
<1>1. \A x : Copy(x).arg = x
  BY DEF Copy, Line
<1>2. "config" \in Names /\ "drop-ins" \in Names /\ RepoDir \in Seq(Names) /\ UnitDir \in Seq(Names)
  BY DEF Names, RepoDir, UnitDir
<1>3. \A p \in write_config_tree(v) : p[1] \in {"config", "drop-ins"} => p \in out.tree
  BY StagedFiles
<1>4. \A k : \A h \in Included(v, k) : h \in Of(k) /\ h.rel \in Seq(Names) /\ h.id \in Names /\ h.owner \in Names
  BY HostPaths DEF Included, Of, Names
<1>5. CASE i = 1
  <2>1. PICK r \in Included(v, "repo") : l = Copy(RepoCopy)
    BY <1>5, CopyBlocks DEF If
  <2>2. IsPrefix(RepoDir, r.rel) /\ ~Is(r, "refused") /\ r.rel \in Seq(Names)
    BY <1>4, PathAssumption
  <2>3. r.rel # <<>>
    BY <2>2, Directories
  <2>4. <<"config">> \o r.rel \in write_config_tree(v)
    BY <2>2, <2>3 DEF write_config_tree, plain_files
  <2>5. (<<"config">> \o r.rel)[1] = "config"
    BY <1>2, <2>2, <2>3, BelowIs
  <2>6. IsPrefix(RepoCopy, <<"config">> \o r.rel)
    BY <1>2, <2>2, PrefixBelow DEF RepoCopy
  <2> QED BY <1>1, <1>3, <2>1, <2>4, <2>5, <2>6
<1>6. CASE i = 2
  <2>1. PICK k \in safe_keys(v) : l = Copy(<<"config">> \o (IF Len(k.rel) > 1 THEN Front(k.rel) ELSE k.rel))
    BY <1>6, CopyBlocks DEF gpg_copies
  <2>2. k \in Included(v, "gpg") /\ ~Is(k, "refused")
    BY DEF safe_keys
  <2>3. k.rel \in Seq(Names) /\ k.rel # <<>>
    BY <1>4, <2>2, PathAssumption
  <2>4. <<"config">> \o k.rel \in write_config_tree(v)
    BY <2>2, <2>3 DEF write_config_tree, plain_files
  <2>5. (<<"config">> \o k.rel)[1] = "config"
    BY <1>2, <2>3, BelowIs
  <2>6. IsPrefix(l.arg, <<"config">> \o k.rel)
    BY <1>1, <1>2, <2>1, <2>3, ParentPrefix
  <2> QED BY <1>3, <2>4, <2>5, <2>6
<1>7. CASE i = 13
  <2>1. PICK d \in Included(v, "dropin") : l = Copy(<<"drop-ins">> \o UnitDir)
    BY <1>7, CopyBlocks DEF If
  <2>2. IsPrefix(UnitDir, d.rel) /\ ~Is(d, "refused") /\ d.rel \in Seq(Names)
    BY <1>4, PathAssumption
  <2>3. d.rel # <<>>
    BY <2>2, Directories
  <2>4. <<"drop-ins">> \o d.rel \in write_config_tree(v)
    BY <2>2 DEF write_config_tree
  <2>5. (<<"drop-ins">> \o d.rel)[1] = "drop-ins"
    BY <1>2, <2>2, <2>3, BelowIs
  <2>6. IsPrefix(<<"drop-ins">> \o UnitDir, <<"drop-ins">> \o d.rel)
    BY <1>2, <2>2, PrefixBelow
  <2> QED BY <1>1, <1>3, <2>1, <2>4, <2>5, <2>6
<1>8. CASE i = 14
  <2>1. PICK t \in Included(v, "localtimer") \cup Included(v, "gentimer") : l = Copy(UnitCopy)
    BY <1>8, CopyBlocks DEF If
  <2>2. \E x \in {t.id, t.owner} : <<"config">> \o Append(UnitDir, x) \in timer_files(v)
    <3>1. Is(t, "timer") \/ Is(t, "service")
      BY <2>1, RowAssumption DEF Included
    <3>2. t \in Included(v, "gentimer") \cup Of("localtimer")
      BY <2>1 DEF Included
    <3> QED BY <3>1, <3>2 DEF timer_files
  <2>3. PICK x \in {t.id, t.owner} : <<"config">> \o Append(UnitDir, x) \in timer_files(v)
    BY <2>2
  <2>4. x \in Names
    BY <1>4, <2>1, <2>3
  <2>5. <<"config">> \o Append(UnitDir, x) \in write_config_tree(v)
    BY <2>3 DEF write_config_tree
  <2> QED BY <1>1, <1>3, <2>1, <2>4, <2>5, UnitPath
<1>9. CASE i = 17
  <2>1. PICK r \in config_copy_roots(write_config_tree(v)) : l = Copy(<<"config", r>>)
    BY <1>9, CopyBlocks
  <2>2. PICK p \in write_config_tree(v) : p[1] = "config" /\ Len(p) > 2 /\ p[2] = r
    BY <2>1 DEF config_copy_roots
  <2>3. p \in Seq(Names)
    BY <2>2, ConfigPaths
  <2>4. IsPrefix(<<p[1], p[2]>>, p)
    BY <2>2, <2>3, TopPrefix
  <2>5. IsPrefix(<<"config", r>>, p)
    BY <2>2, <2>4
  <2> QED BY <1>1, <1>3, <2>1, <2>2, <2>5
<1> QED BY <1>5, <1>6, <1>7, <1>8, <1>9

\* So has every other COPY, apart from the three exceptions.
LEMMA OtherCopiesStaged ==
    ASSUME IInv, Complete, Done, NEW i \in {18, 20, 21, 23, 27, 28, 31}, NEW l \in out.file[i], l.op = "COPY"
    PROVE  \/ LostRpm(l.arg) \/ LostManifest(l.arg) \/ EmptyQuadlets(l.arg)
           \/ \E p \in out.tree : IsPrefix(l.arg, p)
<1> DEFINE v == out.v
<1>1. \A x, op : Copy(x).arg = x /\ Line(op, x).op = op
  BY DEF Copy, Line
<1>2. \A p \in write_config_tree(v) : p[1] # "subscription" => p \in out.tree
  BY StagedFiles
<1>3. CASE i = 18
  <2>1. PICK e \in installed_environments(v) : \E f \in manifests_of(e.owner) : l = Copy(manifest_file(e, f))
    BY <1>3, CopyBlocks
  <2>2. PICK f \in manifests_of(e.owner) : l = Copy(manifest_file(e, f))
    BY <2>1
  <2>3. CASE f \in e.refs
    <3>1. e \in Included(v, "lang") /\ e.owner \in {"pip", "npm", "gem"}
      BY <2>1, <2>2 DEF installed_environments, manifests_of
    <3>2. manifest_file(e, f) \in write_language_package_manifests(v)
      BY <2>3, <3>1 DEF write_language_package_manifests
    <3>3. manifest_file(e, f) \in out.tree
      BY <3>2, StagedFiles
    <3>4. IsPrefix(manifest_file(e, f), manifest_file(e, f))
      BY SelfPrefix DEF manifest_file
    <3> QED BY <1>1, <2>2, <3>3, <3>4
  <2>4. CASE f \notin e.refs
    BY <1>1, <2>1, <2>2, <2>4 DEF LostManifest
  <2> QED BY <2>3, <2>4
<1>4. CASE i = 20
  <2>1. PICK f \in Included(v, "unmanaged") :
           /\ ~Is(f, "symlink")
           /\ l.arg = <<"unmanaged">> \o Front(f.rel) \/ l.arg = <<"unmanaged">> \o f.rel
    <3> DEFINE image == {f \in Included(v, "unmanaged") : f.rel[1] # "srv"}
               regular == {f \in image : ~Is(f, "symlink")}
               source(f) == IF Cardinality({g \in regular : Front(g.rel) = Front(f.rel)}) > 1
                            THEN Front(f.rel) ELSE f.rel
    <3>1. out.file[20] = {Copy(<<"unmanaged">> \o source(f)) : f \in regular}
                          \cup {Line("link", f.rel) : f \in {x \in image : Is(x, "symlink") /\ Is(x, "target")}}
      BY CopyBlocks
    <3>2. \A f : source(f) \in {Front(f.rel), f.rel}
      OBVIOUS
    <3> HIDE DEF source
    <3>3. PICK f \in regular : l = Copy(<<"unmanaged">> \o source(f))
      BY <1>1, <1>4, <3>1
    <3>4. l.arg = <<"unmanaged">> \o source(f)
      BY <1>1, <3>3
    <3>5. l.arg = <<"unmanaged">> \o Front(f.rel) \/ l.arg = <<"unmanaged">> \o f.rel
      BY <3>2, <3>4
    <3>6. f \in Included(v, "unmanaged") /\ ~Is(f, "symlink")
      OBVIOUS
    <3> QED BY <3>5, <3>6
  <2>2. f.rel \in Seq(Names) /\ "unmanaged" \in Names
    BY HostPaths DEF Included, Of, Names
  <2>3. <<"unmanaged">> \o f.rel \in Payload(v.inc)
    BY <2>1 DEF Payload, Included
  <2>4. <<"unmanaged">> \o f.rel \in out.tree
    BY <2>3, StagedFiles
  <2> QED BY <2>1, <2>2, <2>4, ParentPrefix
<1>5. CASE i = 21
  <2>1. PICK p \in Active(v) : l = Copy(repoless_file(p))
    BY <1>5, CopyBlocks
  <2>2. IsPrefix(repoless_file(p), repoless_file(p)) /\ repoless_file(p)[1] = "repoless-packages"
    BY SelfPrefix DEF repoless_file
  <2>3. p \in v.verified \/ (p \in Included(v, "pkg") /\ Is(p, "cached") /\ ~Is(p, "unnamed") /\ p \notin v.uploaded)
    BY <2>1, ActiveIs DEF Included
  <2>4. out.kind \in {"scan", "refine"}
    BY DEF Done
  <2>5. CASE p \in v.verified
    <3>1. repoless_file(p) \in out.tree
      BY <2>5, StagedFiles DEF RpmsOf
    <3> QED BY <1>1, <2>1, <2>2, <3>1
  <2>6. CASE p \in Included(v, "pkg") /\ Is(p, "cached") /\ ~Is(p, "unnamed") /\ p \notin v.uploaded
    <3>1. repoless_file(p) \in CarriedRpms(v) /\ repoless_file(p) \in CachedRpms
      BY <2>6 DEF CarriedRpms, CachedRpms, RpmsOf, Included, Taken
    <3>2. CASE out.kind = "scan" \/ repoless_file(p) \in src
      <4>1. repoless_file(p) \in out.tree
        BY <2>4, <3>1, <3>2, StagedFiles
      <4> QED BY <1>1, <2>1, <2>2, <4>1
    <3>3. CASE out.kind = "refine" /\ repoless_file(p) \notin src
      BY <1>1, <2>1, <2>6, <3>3 DEF LostRpm
    <3> QED BY <2>4, <3>2, <3>3
  <2> QED BY <2>3, <2>5, <2>6
<1>6. CASE i = 23
  <2>1. \/ Included(v, "quadlet") # {} /\ l = Copy(<<"quadlet">>)
        \/ Included(v, "flatpak") # {} /\ l \in {Copy(<<"flatpak">>), Copy(<<"flatpak", "flatpak-provision.service">>)}
    BY <1>6, CopyBlocks DEF If
  <2>2. CASE l = Copy(<<"quadlet">>) /\ \E q \in Included(v, "quadlet") : Is(q, "content")
    <3>1. PICK q \in Included(v, "quadlet") : Is(q, "content")
      BY <2>2
    <3>2. <<"quadlet", q.id>> \in write_config_tree(v)
      BY <3>1 DEF write_config_tree
    <3>3. <<"quadlet", q.id>> \in out.tree
      BY <1>2, <3>2
    <3>4. IsPrefix(<<"quadlet">>, <<"quadlet", q.id>>)
      BY SelfPrefix
    <3> QED BY <1>1, <2>2, <3>3, <3>4
  <2>3. CASE l = Copy(<<"quadlet">>) /\ ~\E q \in Included(v, "quadlet") : Is(q, "content")
    BY <1>1, <2>3 DEF EmptyQuadlets
  <2>4. CASE Included(v, "flatpak") # {} /\ l \in {Copy(<<"flatpak">>), Copy(<<"flatpak", "flatpak-provision.service">>)}
    <3> DEFINE u == <<"flatpak", "flatpak-provision.service">>
    <3>1. u \in write_config_tree(v)
      BY <2>4 DEF write_config_tree, If
    <3>2. u \in out.tree
      BY <1>2, <3>1
    <3>3. IsPrefix(<<"flatpak">>, u) /\ IsPrefix(u, u)
      BY SelfPrefix
    <3> HIDE DEF u
    <3>4. l.arg \in {<<"flatpak">>, u}
      BY <1>1, <2>4 DEF u
    <3> QED BY <3>2, <3>3, <3>4
  <2> QED BY <2>1, <2>2, <2>3, <2>4
<1>7. CASE i = 27
  <2>1. PICK u \in Created(v) : Is(u, "keys") /\ l = Copy(ssh_key_file(u))
    BY <1>7, CopyBlocks
  <2>2. ssh_key_file(u) \in stage_ssh_keys(v)
    BY <2>1 DEF stage_ssh_keys, Created
  <2>3. ssh_key_file(u) \in out.tree
    BY <2>2, StagedFiles
  <2>4. IsPrefix(ssh_key_file(u), ssh_key_file(u))
    BY SelfPrefix DEF ssh_key_file
  <2> QED BY <1>1, <2>1, <2>3, <2>4
<1>8. CASE i = 28
  <2>1. \/ Of("karg") # {} /\ l = Copy(KargsConf)
        \/ Included(v, "sysctl") # {} /\ l = Copy(SysctlConf)
    <3>1. out.file[28] = If(Of("karg") # {}, {Copy(KargsConf)})
                          \cup If(Included(v, "sysctl") # {}, {Copy(SysctlConf)})
                          \cup {Line("tuned", <<t.id>>) : t \in active_profiles(v)}
                          \cup If(active_profiles(v) # {}, {Line("enable", <<"tuned.service">>)})
      BY CopyBlocks
    <3>2. /\ l \notin {Line("tuned", <<t.id>>) : t \in active_profiles(v)}
          /\ l # Line("enable", <<"tuned.service">>)
      BY <1>1 DEF Line
    <3> QED BY <1>8, <3>1, <3>2 DEF If
  <2>2. \E c \in {KargsConf, SysctlConf} : l = Copy(c) /\ c \in write_config_tree(v)
    BY <2>1 DEF write_config_tree, If
  <2>3. PICK c \in {KargsConf, SysctlConf} : l = Copy(c) /\ c \in write_config_tree(v)
    BY <2>2
  <2>4. c \in out.tree
    BY <1>2, <2>3 DEF KargsConf, SysctlConf
  <2>5. IsPrefix(c, c)
    BY <2>3, OwnPaths
  <2> QED BY <1>1, <2>3, <2>4, <2>5
<1>9. CASE i = 31
  <2>1. l = Copy(TmpfilesConf) /\ render_tmpfiles_conf(v) # {}
    BY <1>9, CopyBlocks
  <2>2. TmpfilesConf \in out.tree
    BY <2>1, StagedFiles DEF write_tmpfiles_conf, If
  <2> QED BY <1>1, <2>1, <2>2, OwnPaths
<1> QED BY <1>3, <1>4, <1>5, <1>6, <1>7, <1>8, <1>9

\* A file below a copied root is carried into the image.
LEMMA RootCopied ==
    ASSUME IInv, Done, NEW p \in write_config_tree(out.v), p[1] = "config", Len(p) > 2, p[2] # "tmp"
    PROVE  Carried(p)
<1>1. p[2] \in config_copy_roots(write_config_tree(out.v))
  BY DEF config_copy_roots
<1>2. Copy(<<"config", p[2]>>) \in out.file[17]
  BY <1>1, CopyBlocks
<1>3. <<"config", p[2]>> \in Sources
  BY <1>2, SourceBlocks
<1>4. p \in Seq(Names)
  BY ConfigPaths
<1>5. IsPrefix(<<p[1], p[2]>>, p)
  BY <1>4, TopPrefix
<1> QED BY <1>3, <1>5 DEF Carried

\* Every file of the config tree is carried, apart from the subscription's
\* and the keys with an unsafe path.
LEMMA ConfigTreeCarried ==
    ASSUME IInv, Done, NEW p \in write_config_tree(out.v)
    PROVE  \/ p[1] = "subscription"
           \/ \E k \in Included(out.v, "gpg") : Is(k, "unsafe") /\ p = <<"config">> \o k.rel
           \/ Carried(p)
<1> DEFINE v == out.v
<1>1. "config" \in Names /\ "drop-ins" \in Names /\ UnitDir \in Seq(Names)
  BY DEF Names, UnitDir
<1>2. \A h \in Host : h.rel \in Seq(Names) /\ h.id \in Names /\ h.owner \in Names
  BY HostPaths DEF Names
<1>3. ASSUME NEW h \in Host, p = <<"config">> \o h.rel, Len(h.rel) > 1, h.rel[1] # "tmp"
      PROVE  Carried(p)
  <2>1. h.rel # <<>> /\ h.rel \in Seq(Names)
    BY <1>2, <1>3
  <2>2. Len(p) = Len(h.rel) + 1 /\ p[1] = "config" /\ p[2] = h.rel[1]
    BY <1>1, <1>3, <2>1, BelowIs
  <2>3. Len(p) > 2
    BY <1>3, <2>1, <2>2
  <2> QED BY <1>3, <2>2, <2>3, RootCopied
<1>4. CASE p \in config_files(v)
  <2>1. PICK h \in Of("config") : p = <<"config">> \o h.rel
    BY <1>4 DEF config_files, Included
  <2>2. Len(h.rel) > 1 /\ h.rel[1] # "tmp" /\ h \in Host
    BY PathAssumption DEF Of
  <2> QED BY <1>3, <2>1, <2>2
<1>5. CASE p \in plain_files(v)
  <2>1. PICK h \in Included(v, "repo") \cup Included(v, "gpg") \cup Included(v, "zone") :
           p = <<"config">> \o h.rel /\ h.rel # <<>> /\ ~Is(h, "refused")
    BY <1>5 DEF plain_files
  <2>2. h \in Host /\ h.rel \in Seq(Names)
    BY <1>2, <2>1 DEF Included, Of
  <2>3. CASE h \in Included(v, "repo")
    <3>1. IsPrefix(RepoDir, h.rel)
      BY <2>3, PathAssumption DEF Included
    <3>2. Len(h.rel) > 1 /\ h.rel[1] = "etc"
      BY <2>2, <3>1, Directories
    <3> QED BY <1>3, <2>1, <2>2, <3>2
  <2>4. CASE h \in Included(v, "zone")
    <3>1. Len(h.rel) > 1 /\ h.rel[1] # "tmp"
      BY <2>4, PathAssumption DEF Included
    <3> QED BY <1>3, <2>1, <2>2, <3>1
  <2>5. CASE h \in Included(v, "gpg") /\ ~Is(h, "unsafe")
    <3> DEFINE d == IF Len(h.rel) > 1 THEN Front(h.rel) ELSE h.rel
    <3>1. d \in {Front(h.rel), h.rel}
      OBVIOUS
    <3>2. h \in safe_keys(v)
      BY <2>1, <2>5 DEF safe_keys
    <3>3. Copy(<<"config">> \o d) \in gpg_copies(v)
      BY <3>2 DEF gpg_copies
    <3> HIDE DEF d
    <3>4. Copy(<<"config">> \o d) \in out.file[2]
      BY <3>3, CopyBlocks
    <3>5. <<"config">> \o d \in Sources
      BY <3>4, SourceBlocks
    <3>6. IsPrefix(<<"config">> \o d, p)
      BY <1>1, <2>1, <2>2, <3>1, ParentPrefix
    <3> QED BY <3>5, <3>6 DEF Carried
  <2> QED BY <2>1, <2>3, <2>4, <2>5
<1>6. CASE p \in timer_files(v)
  <2>1. PICK x \in Names : p = <<"config">> \o Append(UnitDir, x)
    BY <1>2, <1>6 DEF timer_files, Included, Of
  <2>2. Len(p) > 2 /\ p[1] = "config" /\ p[2] = "etc"
    BY <2>1, UnitPath
  <2> QED BY <2>2, RootCopied
<1>7. CASE p \in subscription_files
  <2>1. \E h \in Host : p = <<"subscription">> \o h.rel
    BY <1>7 DEF subscription_files, Of
  <2> QED BY <1>2, <2>1, Below
<1>8. CASE p \in {<<"drop-ins">> \o d.rel : d \in {x \in Included(v, "dropin") : ~Is(x, "refused")}}
  <2>1. PICK d \in Included(v, "dropin") : p = <<"drop-ins">> \o d.rel
    BY <1>8
  <2>2. IsPrefix(UnitDir, d.rel) /\ d.rel \in Seq(Names)
    BY <1>2, PathAssumption DEF Included, Of
  <2>3. Copy(<<"drop-ins">> \o UnitDir) \in out.file[13]
    BY CopyBlocks DEF If
  <2>4. <<"drop-ins">> \o UnitDir \in Sources
    BY <2>3, SourceBlocks
  <2>5. IsPrefix(<<"drop-ins">> \o UnitDir, <<"drop-ins">> \o d.rel)
    BY <1>1, <2>2, PrefixBelow
  <2> QED BY <2>1, <2>4, <2>5 DEF Carried
<1>9. CASE (p = KargsConf /\ Of("karg") # {}) \/ (p = SysctlConf /\ Included(v, "sysctl") # {})
  <2>1. Copy(p) \in out.file[28]
    BY <1>9, CopyBlocks DEF If
  <2>2. p \in Sources
    BY <2>1, SourceBlocks
  <2> QED BY <1>9, <2>2, OwnPaths DEF Carried
<1>10. CASE \E q \in Included(v, "quadlet") : p = <<"quadlet", q.id>>
  <2>1. Copy(<<"quadlet">>) \in out.file[23]
    BY <1>10, CopyBlocks DEF If
  <2>2. <<"quadlet">> \in Sources
    BY <2>1, SourceBlocks
  <2>3. IsPrefix(<<"quadlet">>, p)
    BY <1>10, SelfPrefix
  <2> QED BY <2>2, <2>3 DEF Carried
<1>11. CASE Included(v, "flatpak") # {} /\ \E x : p = <<"flatpak", x>>
  <2>1. Copy(<<"flatpak">>) \in out.file[23]
    BY <1>11, CopyBlocks DEF If
  <2>2. <<"flatpak">> \in Sources
    BY <2>1, SourceBlocks
  <2>3. IsPrefix(<<"flatpak">>, p)
    BY <1>11, SelfPrefix
  <2> QED BY <2>2, <2>3 DEF Carried
<1> QED BY <1>4, <1>5, <1>6, <1>7, <1>8, <1>9, <1>10, <1>11 DEF write_config_tree, If

\* The RPMs of the tarball: carried when their packages are included.
LEMMA RpmsCarried ==
    ASSUME IInv, Done, NEW h \in Of("pkg"),
           h \in out.v.verified \/ (Is(h, "cached") /\ ~Is(h, "unnamed") /\ h \notin out.v.uploaded),
           h \in out.v.inc
    PROVE  Carried(repoless_file(h))
<1>1. repoless(out.v, h)
  BY HostAssumption DEF repoless, Annotated, Is, Of, IInv, Finished, ViewOf, View, Claimable
<1>2. h \in Active(out.v)
  BY <1>1, ActiveIs
<1>3. Copy(repoless_file(h)) \in out.file[21]
  BY <1>2, CopyBlocks
<1>4. repoless_file(h) \in Sources
  BY <1>3, SourceBlocks
<1>5. IsPrefix(repoless_file(h), repoless_file(h))
  BY SelfPrefix DEF repoless_file
<1> QED BY <1>4, <1>5 DEF Carried

\* The unmanaged files: carried, recreated as links, or below /srv.
LEMMA UnmanagedCarried ==
    ASSUME IInv, Done, NEW p \in Payload(out.v.inc)
    PROVE  \/ p[1] = "unmanaged" /\ (p[2] = "srv" \/ \E l \in LinesOf(out.file) :
                                        l.op = "link" /\ <<"unmanaged">> \o l.arg = p)
           \/ Carried(p)
<1> DEFINE v == out.v
           image == {f \in Included(v, "unmanaged") : f.rel[1] # "srv"}
           regular == {f \in image : ~Is(f, "symlink")}
           source(f) == IF Cardinality({g \in regular : Front(g.rel) = Front(f.rel)}) > 1
                        THEN Front(f.rel) ELSE f.rel
<1>1. PICK f \in Included(v, "unmanaged") : p = <<"unmanaged">> \o f.rel /\ (Is(f, "symlink") => Is(f, "target"))
  BY DEF Payload, Included
<1>2. f.rel \in Seq(Names) /\ f.rel # <<>> /\ "unmanaged" \in Names
  BY HostPaths, PathAssumption DEF Included, Of, Names
<1>3. p[1] = "unmanaged" /\ p[2] = f.rel[1]
  BY <1>1, <1>2, BelowIs
<1>4. out.file[20] = {Copy(<<"unmanaged">> \o source(x)) : x \in regular}
                       \cup {Line("link", x.rel) : x \in {y \in image : Is(y, "symlink") /\ Is(y, "target")}}
  BY CopyBlocks
<1>5. CASE f.rel[1] = "srv"
  BY <1>3, <1>5
<1>6. CASE f.rel[1] # "srv" /\ Is(f, "symlink")
  <2>1. Line("link", f.rel) \in out.file[20]
    BY <1>1, <1>4, <1>6
  <2>2. 20 \in DOMAIN out.file
    BY CopyBlocks
  <2>3. Line("link", f.rel) \in LinesOf(out.file)
    BY <2>1, <2>2 DEF LinesOf
  <2> QED BY <1>1, <1>3, <2>3, SameLine
<1>7. CASE f.rel[1] # "srv" /\ ~Is(f, "symlink")
  <2>1. source(f) \in {Front(f.rel), f.rel}
    OBVIOUS
  <2>2. f \in regular
    BY <1>7
  <2> HIDE DEF source, regular, image
  <2>3. Copy(<<"unmanaged">> \o source(f)) \in out.file[20]
    BY <1>4, <2>2
  <2>4. <<"unmanaged">> \o source(f) \in Sources
    BY <2>3, SourceBlocks
  <2>5. IsPrefix(<<"unmanaged">> \o source(f), p)
    BY <1>1, <1>2, <2>1, ParentPrefix
  <2> QED BY <2>4, <2>5 DEF Carried
<1> QED BY <1>5, <1>6, <1>7

\* The manifests of included environments: carried when they are installed.
LEMMA ManifestsCarried ==
    ASSUME IInv, Done, NEW p \in write_language_package_manifests(out.v)
    PROVE  \/ \E l \in Included(out.v, "lang") \ installed_environments(out.v) :
                 \E f \in l.refs : p = manifest_file(l, f)
           \/ Carried(p)
<1>1. PICK l \in Included(out.v, "lang") : \E f \in l.refs : p = manifest_file(l, f)
  BY DEF write_language_package_manifests
<1>2. PICK f \in l.refs : p = manifest_file(l, f)
  BY <1>1
<1>3. CASE l \in installed_environments(out.v)
  <2>1. f \in manifests_of(l.owner)
    BY <1>1, <1>2, RowAssumption DEF Included
  <2>2. out.file[18] = UNION {{Copy(manifest_file(e, x)) : x \in manifests_of(e.owner)} : e \in installed_environments(out.v)}
    BY CopyBlocks
  <2>3. Copy(p) \in out.file[18]
    BY <1>2, <1>3, <2>1, <2>2
  <2>4. p \in Sources
    BY <2>3, SourceBlocks
  <2>5. IsPrefix(p, p)
    BY <1>2, SelfPrefix DEF manifest_file
  <2> QED BY <2>4, <2>5 DEF Carried
<1>4. CASE l \notin installed_environments(out.v)
  BY <1>2, <1>4
<1> QED BY <1>3, <1>4

\* Every staged file is carried, apart from what is no image content.
LEMMA FilesCarried ==
    ASSUME IInv, Complete, Done, NEW p \in out.tree
    PROVE  \/ p[1] \in NotImageContent \cup KeptForOperator
           \/ p[1] = "unmanaged" /\ (p[2] = "srv" \/ \E l \in LinesOf(out.file) :
                                       l.op = "link" /\ <<"unmanaged">> \o l.arg = p)
           \/ \E h \in Of("pkg") : /\ p = repoless_file(h)
                                   /\ h \notin out.v.inc \/ (Is(h, "unnamed") /\ Has("fixme", h.id))
           \/ \E l \in Included(out.v, "lang") \ installed_environments(out.v) :
                 \E f \in l.refs : p = manifest_file(l, f)
           \/ \E k \in Included(out.v, "gpg") : Is(k, "unsafe") /\ p = <<"config">> \o k.rel
           \/ Carried(p)
<1> DEFINE v == out.v
           w == Base(out.v)
<1>1. v \in View /\ w \in View /\ w.inc = v.inc /\ w.uploaded = v.uploaded
  BY BaseFacts DEF IInv, Finished, ViewOf
<1>2. p \in AllFiles(out.kind, w) \cup RpmsOf(v.verified) /\ out.kind \in {"scan", "refine"}
  BY DEF IInv, Finished, Done
<1> HIDE DEF w
<1>3. \A k : Included(w, k) = Included(v, k)
  BY <1>1 DEF Included
<1>4. v.verified \subseteq v.inc \cap Of("pkg") /\ (out.kind = "scan" => v.uploaded = {})
  BY <1>2 DEF IInv, Finished, ViewOf, Plan, ScanView, Done, View, Claimable
<1>5. CASE p \in write_config_tree(w)
  <2>1. p \in write_config_tree(v)
    BY <1>1, <1>5, SameTree
  <2> QED BY <2>1, ConfigTreeCarried DEF KeptForOperator
<1>6. CASE p \in write_env_files(w) \cup stage_ssh_keys(w) \cup variant_files \cup compose_files
  BY <1>1, <1>6, Tops DEF NotImageContent, KeptForOperator
<1>7. CASE p \in write_tmpfiles_conf(w)
  <2>1. render_tmpfiles_conf(w) = render_tmpfiles_conf(v)
    BY <1>1, SameBacking
  <2>2. p = TmpfilesConf /\ render_tmpfiles_conf(v) # {}
    BY <1>7, <2>1 DEF write_tmpfiles_conf, If
  <2>3. Copy(TmpfilesConf) \in out.file[31]
    BY <2>2, CopyBlocks
  <2>4. TmpfilesConf \in Sources
    BY <2>3, SourceBlocks
  <2> QED BY <2>2, <2>4, OwnPaths DEF Carried
<1>8. CASE p \in write_language_package_manifests(w)
  <2>1. p \in write_language_package_manifests(v)
    BY <1>3, <1>8 DEF write_language_package_manifests
  <2> QED BY <2>1, ManifestsCarried
<1>9. CASE p \in {<<"unmanaged">> \o f.rel : f \in Included(w, "unmanaged")}
  <2>1. p[1] = "unmanaged"
    BY <1>9, Below, HostAssumption DEF Included, Of
  <2>2. p \in Payload(v.inc)
    BY <2>1, StagedFiles
  <2> QED BY <2>2, UnmanagedCarried
<1>10. ASSUME NEW h \in Of("pkg"), p = repoless_file(h),
              h \in v.verified \/ (Is(h, "cached") /\ (h \notin v.uploaded))
       PROVE  \/ \E x \in Of("pkg") : /\ p = repoless_file(x)
                                      /\ x \notin v.inc \/ (Is(x, "unnamed") /\ Has("fixme", x.id))
              \/ Carried(p)
  <2>1. CASE h \notin v.inc
    BY <1>10, <2>1
  <2>2. CASE h \in v.inc /\ (h \in v.verified \/ ~Is(h, "unnamed"))
    BY <1>10, <2>2, RpmsCarried
  <2>3. CASE h \in v.inc /\ h \notin v.verified /\ Is(h, "unnamed")
    <3>1. repoless(v, h)
      BY <1>10, <2>3, HostAssumption DEF repoless, Annotated, Is, Of
    <3>2. h \in Unnamed(v)
      BY <1>10, <2>3, <3>1 DEF Unnamed
    <3>3. out.file = render_containerfile_inner(v, config_copy_roots(write_config_tree(Base(v))))
      BY DEF IInv, Finished
    <3>4. Line("fixme", <<h.id>>) \in out.file[22]
      BY <3>2, <3>3, PackageBlocks
    <3>5. 22 \in DOMAIN out.file
      BY CopyBlocks
    <3>6. Has("fixme", h.id)
      BY <3>4, <3>5 DEF Has, Blocks
    <3> QED BY <1>10, <2>3, <3>6
  <2> QED BY <2>1, <2>2, <2>3
<1>11. CASE p \in RpmsOf(v.verified)
  <2>1. PICK h \in v.verified : p = repoless_file(h)
    BY <1>11 DEF RpmsOf
  <2>2. h \in Of("pkg")
    BY <1>4, <2>1
  <2> QED BY <1>10, <2>1, <2>2
<1>12. CASE p \in IF out.kind = "scan" THEN RpmsOf({x \in Of("pkg") : Is(x, "cached")})
                   ELSE CarriedRpms(w)
  <2>1. PICK h \in Of("pkg") : p = repoless_file(h) /\ Is(h, "cached") /\ h \notin v.uploaded
    <3>1. CASE out.kind = "scan"
      BY <1>4, <1>12, <3>1 DEF RpmsOf
    <3>2. CASE out.kind # "scan"
      BY <1>1, <1>12, <3>2 DEF CarriedRpms, Taken, RpmsOf, Included
    <3> QED BY <3>1, <3>2
  <2> QED BY <1>10, <2>1
<1> QED BY <1>2, <1>5, <1>6, <1>7, <1>8, <1>9, <1>11, <1>12 DEF AllFiles, CarriedRpms

\* The tarball and the Containerfile in it agree, both ways, in every export
\* of every session: the section renderers of render_containerfile_inner and
\* the writers of the tree choose the same files.
THEOREM TreeAlwaysMatches == Spec => []TreeMatchesCopies
<1>1. IInv /\ Complete => TreeMatchesCopies
  <2> SUFFICES ASSUME IInv, Complete, Done PROVE TreeMatchesCopies
    BY DEF TreeMatchesCopies
  <2>1. ASSUME NEW s \in Sources
        PROVE  LostRpm(s) \/ LostManifest(s) \/ EmptyQuadlets(s) \/ \E p \in out.tree : IsPrefix(s, p)
    <3>1. PICK i \in {1, 2, 13, 14, 17, 18, 20, 21, 23, 27, 28, 31} :
             \E l \in out.file[i] : l.op = "COPY" /\ l.arg = s
      BY SourceBlocks
    <3>2. PICK l \in out.file[i] : l.op = "COPY" /\ l.arg = s
      BY <3>1
    <3>3. CASE i \in {1, 2, 13, 14, 17}
      BY <3>2, <3>3, ConfigCopiesStaged
    <3>4. CASE i \in {18, 20, 21, 23, 27, 28, 31}
      BY <3>2, <3>4, OtherCopiesStaged
    <3> QED BY <3>1, <3>3, <3>4
  <2> QED BY <2>1, FilesCarried DEF TreeMatchesCopies, Carried
<1> QED BY <1>1, ExportFollowsPlan, StagingIsComplete, PTL
=============================================================================
