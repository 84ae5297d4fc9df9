--------------------------- MODULE PipelineProofs ---------------------------
(***************************************************************************)
(* For any number of calls of up, and faults wherever they may happen:     *)
(* what the archive holds that is served.                                  *)
(***************************************************************************)
EXTENDS Pipeline, TLAPS, SequenceTheorems

Line == {"new", "distro"}

LEMMA Joined ==
  ASSUME NEW S, NEW s \in Seq(S), NEW u \in Seq(S), NEW r, r = s \o u
  PROVE  /\ r \in Seq(S) /\ Len(r) = Len(s) + Len(u)
         /\ \A n \in 1..Len(s) : r[n] = s[n]
         /\ \A n \in 1..Len(u) : r[Len(s) + n] = u[n]
OBVIOUS

(* The commands by their place.                                            *)
LEMMA GlibcCommands ==
  LET c == Commands("glibc-builder")
  IN  /\ Len(c) = 20
      /\ c[1] = "configure glibc" /\ c[2] = "build glibc" /\ c[3] = "install glibc"
      /\ c[4] = "create glibc dir" /\ c[5] = "copy old glibc" /\ c[6] = "copy old glibc 2"
      /\ c[7] = "merge old glibc" /\ c[8] = "add ldconf" /\ c[9] = "merge ldconf"
      /\ c[10] = "ldconf setting" /\ c[11] = "do ldconfig" /\ c[12] = "copy busybox"
      /\ c[13] = "set link to new glibc" /\ c[14] = "libxcrypt autogen"
      /\ c[15] = "configure libxcrypt" /\ c[16] = "mkdir" /\ c[17] = "build libxcrypt"
      /\ c[18] = "install libxcrypt" /\ c[19] = "copy libxcrypt" /\ c[20] = "copy libxcrypt 2"
<1> DEFINE N == {"configure glibc", "build glibc", "install glibc", "create glibc dir", "copy old glibc",
                  "copy old glibc 2", "merge old glibc", "add ldconf", "merge ldconf", "ldconf setting",
                  "do ldconfig", "copy busybox", "set link to new glibc", "libxcrypt autogen",
                  "configure libxcrypt", "mkdir", "build libxcrypt", "install libxcrypt",
                  "copy libxcrypt", "copy libxcrypt 2"}
<1>1. Commands("glibc-builder") = (glibc_builder \o glibc_install) \o libxcrypt_builder
  BY DEF Commands
<1>2. glibc_builder \in Seq(N) /\ Len(glibc_builder) = 2
  BY DEF glibc_builder
<1>3. glibc_install \in Seq(N) /\ Len(glibc_install) = 11
  BY DEF glibc_install
<1>4. libxcrypt_builder \in Seq(N) /\ Len(libxcrypt_builder) = 7
  BY DEF libxcrypt_builder
<1> HIDE DEF N
<1> DEFINE a == glibc_builder \o glibc_install
           b == Commands("glibc-builder")
<1>5. a = glibc_builder \o glibc_install /\ b = a \o libxcrypt_builder
  BY <1>1, Zenon
<1> HIDE DEF a, b
<1>7. /\ a \in Seq(N) /\ Len(a) = 13
      /\ \A n \in 1..2 : a[n] = glibc_builder[n]
      /\ \A n \in 1..11 : a[2 + n] = glibc_install[n]
  <2>1. /\ a \in Seq(N) /\ Len(a) = Len(glibc_builder) + Len(glibc_install)
        /\ \A n \in 1..Len(glibc_builder) : a[n] = glibc_builder[n]
        /\ \A n \in 1..Len(glibc_install) : a[Len(glibc_builder) + n] = glibc_install[n]
    <3>1. glibc_builder \in Seq(N) /\ glibc_install \in Seq(N)
      BY <1>2, <1>3
    <3> QED BY <1>5, <3>1, Joined
  <2>2. 2 + 11 = 13
    OBVIOUS
  <2> QED BY <1>2, <1>3, <2>1, <2>2, Zenon
<1>8. /\ Len(b) = 20
      /\ b[1] = glibc_builder[1] /\ b[2] = glibc_builder[2]
      /\ \A n \in 1..11 : b[2 + n] = glibc_install[n]
      /\ \A n \in 1..7 : b[13 + n] = libxcrypt_builder[n]
  <2>1. /\ Len(b) = 20 /\ \A n \in 1..13 : b[n] = a[n]
        /\ \A n \in 1..7 : b[13 + n] = libxcrypt_builder[n]
    <3>1. a \in Seq(N) /\ libxcrypt_builder \in Seq(N)
      BY <1>4, <1>7, Zenon
    <3>2. /\ Len(b) = Len(a) + Len(libxcrypt_builder)
          /\ \A n \in 1..Len(a) : b[n] = a[n]
          /\ \A n \in 1..Len(libxcrypt_builder) : b[Len(a) + n] = libxcrypt_builder[n]
      BY <1>5, <3>1, Joined, SMTT(40)
    <3>3. 13 + 7 = 20
      OBVIOUS
    <3> QED BY <1>4, <1>7, <3>2, <3>3, Zenon
  <2> QED BY <1>7, <2>1, SMTT(40)
<1>9. b[1] = "configure glibc" /\ b[2] = "build glibc"
  BY <1>8, Zenon DEF glibc_builder
<1>10. /\ b[3] = glibc_install[1] /\ b[4] = glibc_install[2] /\ b[5] = glibc_install[3]
       /\ b[6] = glibc_install[4] /\ b[7] = glibc_install[5] /\ b[8] = glibc_install[6]
       /\ b[9] = glibc_install[7] /\ b[10] = glibc_install[8] /\ b[11] = glibc_install[9]
       /\ b[12] = glibc_install[10] /\ b[13] = glibc_install[11]
  BY <1>8, SMTT(40)
<1>11. /\ b[14] = libxcrypt_builder[1] /\ b[15] = libxcrypt_builder[2] /\ b[16] = libxcrypt_builder[3]
       /\ b[17] = libxcrypt_builder[4] /\ b[18] = libxcrypt_builder[5] /\ b[19] = libxcrypt_builder[6]
       /\ b[20] = libxcrypt_builder[7]
  BY <1>8, SMTT(40)
<1>12. /\ b[3] = "install glibc" /\ b[4] = "create glibc dir" /\ b[5] = "copy old glibc"
       /\ b[6] = "copy old glibc 2" /\ b[7] = "merge old glibc" /\ b[8] = "add ldconf"
       /\ b[9] = "merge ldconf" /\ b[10] = "ldconf setting" /\ b[11] = "do ldconfig"
       /\ b[12] = "copy busybox" /\ b[13] = "set link to new glibc"
  BY <1>10, Zenon DEF glibc_install
<1>13. /\ b[14] = "libxcrypt autogen" /\ b[15] = "configure libxcrypt" /\ b[16] = "mkdir"
       /\ b[17] = "build libxcrypt" /\ b[18] = "install libxcrypt" /\ b[19] = "copy libxcrypt"
       /\ b[20] = "copy libxcrypt 2"
  BY <1>11, Zenon DEF libxcrypt_builder
<1>14. Len(b) = 20
  BY <1>8
<1> QED BY <1>9, <1>12, <1>13, <1>14, Zenon DEF b

LEMMA OtherCommands ==
  /\ Len(Commands("rootfs-builder")) = 3 /\ Commands("rootfs-builder")[1] = "debootstrap"
  /\ Commands("rootfs-builder")[2] = "rm" /\ Commands("rootfs-builder")[3] = "rm dev"
  /\ Len(Commands("packager")) = 2 /\ Commands("packager")[1] = "open archive"
  /\ Commands("packager")[2] = "cpio | gzip"
BY DEF Commands

-----------------------------------------------------------------------------
(* Commands, whole or not, leave a volume.                                 *)
LEMMA EffectType ==
  ASSUME NEW v \in Volume, NEW c
  PROVE  Effect(c, v) \in Volume
<1>1. v.ld_conf \o v.conf \in Seq(Line)
  BY ConcatProperties DEF Volume, Line
<1>2. <<"new">> \in Seq(Line) /\ <<"distro">> \in Seq(Line) /\ <<>> \in Seq(Line)
  BY DEF Line
<1>10. CASE c = "debootstrap"
  BY <1>1, <1>2, <1>10, Zenon DEF Effect, Volume, Library, Line
<1>11. CASE c = "install glibc"
  BY <1>1, <1>2, <1>11, Zenon DEF Effect, Volume, Library, Line
<1>12. CASE c = "copy old glibc"
  BY <1>1, <1>2, <1>12, Zenon DEF Effect, Volume, Library, Line
<1>13. CASE c = "copy old glibc 2"
  BY <1>1, <1>2, <1>13, Zenon DEF Effect, Volume, Library, Line
<1>14. CASE c = "merge old glibc"
  BY <1>1, <1>2, <1>14, Zenon DEF Effect, Volume, Library, Line
<1>15. CASE c = "add ldconf"
  BY <1>1, <1>2, <1>15, Zenon DEF Effect, Volume, Library, Line
<1>16. CASE c = "merge ldconf"
  BY <1>1, <1>2, <1>16, Zenon DEF Effect, Volume, Library, Line
<1>17. CASE c = "ldconf setting"
  BY <1>1, <1>2, <1>17, Zenon DEF Effect, Volume, Library, Line
<1>18. CASE c = "set link to new glibc"
  BY <1>1, <1>2, <1>18, Zenon DEF Effect, Volume, Library, Line
<1>19. CASE c = "mkdir"
  BY <1>1, <1>2, <1>19 DEF Effect, Volume, Library, Line
<1>20. CASE c = "install libxcrypt"
  BY <1>1, <1>2, <1>20, Zenon DEF Effect, Volume, Library, Line
<1>21. CASE c = "copy libxcrypt"
  BY <1>1, <1>2, <1>21, Zenon DEF Effect, Volume, Library, Line
<1>7. CASE c \notin {"debootstrap", "install glibc", "copy old glibc", "copy old glibc 2", "merge old glibc",
                     "set link to new glibc", "add ldconf", "merge ldconf", "ldconf setting", "mkdir",
                     "install libxcrypt", "copy libxcrypt"}
  BY <1>7, Zenon DEF Effect
<1> QED
  BY <1>7, <1>10, <1>11, <1>12, <1>13, <1>14, <1>15, <1>16, <1>17, <1>18, <1>19, <1>20, <1>21, Zenon

LEMMA InterruptedFields ==
  ASSUME NEW v \in Volume, NEW w \in Volume, NEW x \in Interrupted(v, w)
  PROVE  /\ x \in Volume
         /\ x.base \in {v.base, "cut"} /\ (x.base = "cut" => v.base = "cut" \/ v.base # w.base)
         /\ x.libc \in {v.libc, w.libc, "cut"}
         /\ x.xdir \in {v.xdir, w.xdir}
<1> DEFINE F == {"base", "libc", "crypt", "oldlibc", "oldcrypt", "ld_conf", "conf", "link", "xdir", "xlib"}
           changed == {f \in DOMAIN v : v[f] # w[f]}
           files == {"base", "libc", "crypt", "oldlibc", "oldcrypt", "link", "xlib"}
<1>1. DOMAIN v = F
  BY DEF Volume
<1>2. PICK done \in SUBSET (changed \ {"base"}), cut \in SUBSET (changed \cap files) :
        x = [f \in DOMAIN v |-> IF f \in cut THEN "cut" ELSE IF f \in done THEN w[f] ELSE v[f]]
  BY DEF Interrupted
<1>3. \A f \in F : x[f] = IF f \in cut THEN "cut" ELSE IF f \in done THEN w[f] ELSE v[f]
  BY <1>1, <1>2, Zenon
<1>4. \A f \in F : x[f] \in {v[f], w[f], "cut"}
  <2> HIDE DEF F
  <2> QED BY <1>3, Zenon
<1>5. \A f \in F \ files : x[f] \in {v[f], w[f]}
  BY <1>2, <1>3, Zenon
<1>6. "base" \notin done /\ ("base" \in cut => v.base # w.base)
  BY <1>2, Zenon
<1>7. x.base \in {v.base, "cut"} /\ (x.base = "cut" => v.base = "cut" \/ v.base # w.base)
  BY <1>3, <1>6, Zenon
<1>8. x = [f \in F |-> x[f]]
  BY <1>1, <1>2, Zenon
<1>9. x \in Volume
  <2>1. /\ x["base"] \in {"none", "full", "cut"} /\ x["libc"] \in Library /\ x["crypt"] \in Library
        /\ x["oldlibc"] \in Library /\ x["oldcrypt"] \in Library /\ x["xlib"] \in Library
        /\ x["link"] \in {"none", "distro", "new", "cut"}
    BY <1>4 DEF Volume, Library
  <2>2. x["ld_conf"] \in Seq(Line) /\ x["conf"] \in Seq(Line) /\ x["xdir"] \in {"no", "yes"}
    BY <1>5, Zenon DEF Volume, Line
  <2> QED BY <1>8, <2>1, <2>2 DEF Volume, Line
<1> QED BY <1>4, <1>5, <1>7, <1>9

LEMMA InterruptedNothing ==
  ASSUME NEW v \in Volume, NEW x \in Interrupted(v, v)
  PROVE  x = v
<1>1. v = [f \in DOMAIN v |-> v[f]]
  BY DEF Volume
<1>2. x \in {[f \in DOMAIN v |-> IF f \in cut THEN "cut" ELSE IF f \in done THEN v[f] ELSE v[f]] :
               done \in SUBSET ({} \ {"base"}), cut \in SUBSET {}}
  BY DEF Interrupted
<1>3. PICK done \in SUBSET ({} \ {"base"}), cut \in SUBSET {} :
        x = [f \in DOMAIN v |-> IF f \in cut THEN "cut" ELSE IF f \in done THEN v[f] ELSE v[f]]
  BY <1>2
<1> QED BY <1>1, <1>3, Zenon

(* Only debootstrap touches the base, and nothing but the scripts of       *)
(* glibc-builder the rest; libxcrypt's directory is never removed.         *)
LEMMA EffectFields ==
  ASSUME NEW v \in Volume, NEW c
  PROVE  /\ c # "debootstrap" => Effect(c, v).base = v.base
         /\ c = "debootstrap" => Effect(c, v).base = "full" /\ Effect(c, v).libc = v.libc
         /\ v.xdir = "yes" => Effect(c, v).xdir = "yes"
         /\ c \in {"rm", "rm dev", "open archive", "cpio | gzip"} => Effect(c, v) = v
<1>1. CASE c \notin {"debootstrap", "install glibc", "copy old glibc", "copy old glibc 2", "merge old glibc",
                     "set link to new glibc", "add ldconf", "merge ldconf", "ldconf setting", "mkdir",
                     "install libxcrypt", "copy libxcrypt"}
  BY <1>1, Zenon DEF Effect
<1>2. CASE c \in {"debootstrap", "install glibc", "copy old glibc", "copy old glibc 2", "merge old glibc"}
  BY <1>2, Zenon DEF Effect, Volume
<1>3. CASE c \in {"set link to new glibc", "add ldconf", "merge ldconf", "ldconf setting"}
  BY <1>3, Zenon DEF Effect, Volume
<1>4. CASE c \in {"mkdir", "install libxcrypt", "copy libxcrypt"}
  BY <1>4, Zenon DEF Effect, Volume
<1> QED BY <1>1, <1>2, <1>3, <1>4, Zenon

-----------------------------------------------------------------------------
(* Services run in the order of depends_on.                                *)
Control ==
  /\ status \in [Service -> {"off", "waiting", "running", "ok", "failed"}]
  /\ pos \in Nat
  /\ \A s \in OneShot : status[s] = "running" => pos \in 1..Len(Commands(s))
  /\ status["glibc-builder"] \in {"running", "ok", "failed"} => status["rootfs-builder"] = "ok"
  /\ status["packager"] \in {"running", "ok", "failed"} =>
       status["glibc-builder"] = "ok" /\ status["rootfs-builder"] = "ok"

LEMMA EndsOf ==
  /\ \A s \in OneShot : Ends(s, TRUE) = {IF pos = Len(Commands(s)) THEN "ok" ELSE "running"}
  /\ Ends("rootfs-builder", FALSE) = IF pos = Len(Commands("rootfs-builder")) THEN {"failed"} ELSE {"running"}
  /\ Ends("glibc-builder", FALSE) = {"failed"}
  /\ Ends("packager", FALSE) = IF pos = Len(Commands("packager")) THEN {"ok", "failed"} ELSE {"failed"}
BY Zenon DEF Ends, run_silent, OneShot

(* What a step of a service that runs does to status and pos.              *)
LEMMA Advance ==
  ASSUME NEW s \in OneShot, Command(s) \/ CommandRefused(s) \/ CommandFails(s) \/ Kill(s)
  PROVE  /\ status[s] = "running" /\ (pos' = pos \/ pos' = pos + 1)
         /\ \E e \in {"running", "ok", "failed"} :
              /\ status' = [status EXCEPT ![s] = e]
              /\ e = "running" => pos' = pos + 1 /\ pos # Len(Commands(s))
<1>0. s = "rootfs-builder" \/ s = "glibc-builder" \/ s = "packager"
  BY DEF OneShot
<1>1. CASE Kill(s)
  BY <1>1, Zenon DEF Kill
<1>2. CASE ~Kill(s)
  <2>1. /\ status[s] = "running" /\ pos' = pos + 1
        /\ \E b \in {TRUE, FALSE} : \E e \in Ends(s, b) : status' = [status EXCEPT ![s] = e]
    BY <1>2, Zenon DEF Command, CommandRefused, CommandFails
  <2>2. PICK b \in {TRUE, FALSE} : \E e \in Ends(s, b) : status' = [status EXCEPT ![s] = e]
    BY <2>1, Zenon
  <2>3. PICK e \in Ends(s, b) : status' = [status EXCEPT ![s] = e]
    BY <2>2, Zenon
  <2>4. e \in {"running", "ok", "failed"} /\ (e = "running" => pos # Len(Commands(s)))
    <3>1. CASE b = TRUE
      BY <2>3, <3>1, EndsOf, Zenon
    <3>2. CASE b = FALSE
      BY <1>0, <2>3, <3>2, EndsOf, Zenon
    <3> QED BY <2>2, <3>1, <3>2, Zenon
  <2> QED BY <2>1, <2>3, <2>4, Zenon
<1> QED BY <1>1, <1>2

LEMMA ControlStep == Control /\ [Next]_vars => Control'
<1> SUFFICES ASSUME Control, [Next]_vars PROVE Control'
  OBVIOUS
<1>0. /\ Len(Commands("rootfs-builder")) = 3 /\ Len(Commands("glibc-builder")) = 20
      /\ Len(Commands("packager")) = 2
  BY GlibcCommands, OtherCommands, Zenon
<1> HIDE DEF Commands
<1> USE DEF Control, Service, OneShot
<1>1. CASE Up
  BY <1>1 DEF Up
<1>2. ASSUME NEW s \in Service, StartService(s) PROVE Control'
  <2>1. /\ status[s] = "waiting" /\ \A d \in DependsOn(s) : status[d] = "ok"
        /\ pos' = 1
        /\ \E e \in {"ok", "running"} : status' = [status EXCEPT ![s] = e]
    BY <1>2, Zenon DEF StartService, CanStart
  <2>2. /\ \A t \in OneShot : status[t] # "running"
        /\ s = "glibc-builder" => status["rootfs-builder"] = "ok"
        /\ s = "packager" => status["glibc-builder"] = "ok"
    BY <2>1 DEF DependsOn
  <2>3. PICK e \in {"ok", "running"} : status' = [status EXCEPT ![s] = e]
    BY <2>1, Zenon
  <2>4. \A t \in OneShot : status'[t] = "running" => pos' \in 1..Len(Commands(t))
    <3> SUFFICES ASSUME NEW t \in OneShot PROVE pos' \in 1..Len(Commands(t))
      OBVIOUS
    <3>1. Len(Commands(t)) = 3 \/ Len(Commands(t)) = 20 \/ Len(Commands(t)) = 2
      BY <1>0, Zenon
    <3>2. 1 \in 1..3 /\ 1 \in 1..20 /\ 1 \in 1..2
      OBVIOUS
    <3> QED BY <2>1, <3>1, <3>2, Zenon
  <2>5. /\ status'["glibc-builder"] \in {"running", "ok", "failed"} => status'["rootfs-builder"] = "ok"
        /\ status'["packager"] \in {"running", "ok", "failed"} =>
             status'["glibc-builder"] = "ok" /\ status'["rootfs-builder"] = "ok"
    BY <2>1, <2>2, <2>3
  <2>6. /\ pos' \in Nat
        /\ status' \in [Service -> {"off", "waiting", "running", "ok", "failed"}]
    BY <2>1, <2>3
  <2> QED BY <2>4, <2>5, <2>6
<1>3. ASSUME NEW s \in OneShot, Command(s) \/ CommandRefused(s) \/ CommandFails(s) \/ Kill(s)
      PROVE  Control'
  <2>1. PICK e \in {"running", "ok", "failed"} :
              /\ status' = [status EXCEPT ![s] = e]
              /\ e = "running" => pos' = pos + 1 /\ pos # Len(Commands(s))
    BY <1>3, Advance, Zenon
  <2>2. status[s] = "running" /\ (pos' = pos \/ pos' = pos + 1)
    BY <1>3, Advance, Zenon
  <2> QED BY <1>0, <2>1, <2>2
<1>4. CASE ServerStops \/ DownloadAndExtract \/ UNCHANGED vars
  BY <1>4 DEF ServerStops, DownloadAndExtract, vars
<1> QED BY <1>1, <1>2, <1>3, <1>4 DEF Next

(* No service runs when one starts.                                        *)
LEMMA StartsAlone ==
  ASSUME Control, NEW s \in Service, StartService(s)
  PROVE  /\ \A t \in OneShot : status[t] # "running"
         /\ status[s] = "waiting" /\ pos' = 1 /\ UNCHANGED <<vol, archive, extracted, bootfail>>
         /\ \E e \in {"ok", "running"} : status' = [status EXCEPT ![s] = e]
         /\ s = "packager" => status["glibc-builder"] = "ok"
         /\ s = "server" => status["packager"] = "ok"
<1>1. /\ status[s] = "waiting" /\ \A d \in DependsOn(s) : status[d] = "ok"
      /\ pos' = 1 /\ UNCHANGED <<vol, archive, extracted, bootfail>>
      /\ \E e \in {"ok", "running"} : status' = [status EXCEPT ![s] = e]
  BY Zenon DEF StartService, CanStart
<1>2. /\ \A t \in OneShot : status[t] # "running"
      /\ s = "packager" => status["glibc-builder"] = "ok"
      /\ s = "server" => status["packager"] = "ok"
  BY <1>1 DEF DependsOn, Control, Service, OneShot
<1> QED BY <1>1, <1>2, Zenon

-----------------------------------------------------------------------------
(* What the scripts of glibc-builder have done before command p.           *)
Built(p, v) ==
  /\ p > 3 => v.libc = "custom"
  /\ p > 6 => v.oldlibc = "custom"
  /\ p > 8 /\ p <= 10 => v.ld_conf # <<>> /\ Head(v.ld_conf) = "new"
  /\ p > 10 => Head(v.conf) = "new"
  /\ p > 13 => v.link = "new"
  /\ p > 16 => v.xdir = "yes"
  /\ p > 18 => v.xlib = "xcrypt"
  /\ p > 19 => v.crypt = "xcrypt"

LEMMA HeadOfJoined ==
  ASSUME NEW s \in Seq(Line), NEW u \in Seq(Line), s # <<>>
  PROVE  s \o u # <<>> /\ Head(s \o u) = Head(s)
OBVIOUS

LEMMA BuiltStep ==
  ASSUME NEW v \in Volume, NEW p \in 1..20, Built(p, v)
  PROVE  /\ Built(p + 1, Effect(Commands("glibc-builder")[p], v))
         /\ p <= 2 => Effect(Commands("glibc-builder")[p], v) = v
<1> DEFINE c == Commands("glibc-builder")[p]
           w == Effect(c, v)
<1> SUFFICES Built(p + 1, w) /\ (p <= 2 => w = v)
  OBVIOUS
<1>0. \/ p \in {1, 2, 4, 11, 12, 14, 15, 17, 20} /\ w = v
      \/ p = 3 /\ w = [v EXCEPT !.libc = "custom", !.crypt = "glibc"]
      \/ p = 5 /\ w = [v EXCEPT !.oldlibc = "distro", !.oldcrypt = "distro"]
      \/ p = 6 /\ w = [v EXCEPT !.oldlibc = v.libc, !.oldcrypt = v.crypt]
      \/ p = 7 /\ w = [v EXCEPT !.libc = v.oldlibc, !.crypt = v.oldcrypt]
      \/ p = 8 /\ w = [v EXCEPT !.ld_conf = <<"new">>]
      \/ p = 9 /\ w = [v EXCEPT !.ld_conf = v.ld_conf \o v.conf]
      \/ p = 10 /\ w = [v EXCEPT !.conf = v.ld_conf, !.ld_conf = <<>>]
      \/ p = 13 /\ w = [v EXCEPT !.link = "new"]
      \/ p = 16 /\ w = [v EXCEPT !.xdir = "yes"]
      \/ p = 18 /\ w = [v EXCEPT !.xlib = "xcrypt"]
      \/ p = 19 /\ w = [v EXCEPT !.crypt = v.xlib]
  <2>1. \/ p \in {1, 2, 4, 11, 12, 14, 15, 17, 20} \/ p = 3 \/ p = 5 \/ p = 6 \/ p = 7 \/ p = 8 \/ p = 9
        \/ p = 10 \/ p = 13 \/ p = 16 \/ p = 18 \/ p = 19
    OBVIOUS
  <2>2. CASE p \in {1, 2, 4, 11, 12, 14, 15, 17, 20}
    <3>1. c \in {"configure glibc", "build glibc", "create glibc dir", "do ldconfig", "copy busybox",
                 "libxcrypt autogen", "configure libxcrypt", "build libxcrypt", "copy libxcrypt 2"}
      BY <2>2, GlibcCommands, ZenonT(60)
    <3> HIDE DEF c
    <3>2. w = v
      BY <3>1, Zenon DEF Effect
    <3> QED BY <2>2, <3>2, Zenon
  <2>3. CASE p = 3
    BY <2>3, GlibcCommands, Zenon DEF Effect
  <2>4. CASE p = 5
    BY <2>4, GlibcCommands, Zenon DEF Effect
  <2>5. CASE p = 6
    BY <2>5, GlibcCommands, Zenon DEF Effect
  <2>6. CASE p = 7
    BY <2>6, GlibcCommands, Zenon DEF Effect
  <2>7. CASE p = 8
    BY <2>7, GlibcCommands, Zenon DEF Effect
  <2>8. CASE p = 9
    BY <2>8, GlibcCommands, Zenon DEF Effect
  <2>9. CASE p = 10
    BY <2>9, GlibcCommands, Zenon DEF Effect
  <2>10. CASE p = 13
    BY <2>10, GlibcCommands, Zenon DEF Effect
  <2>11. CASE p = 16
    BY <2>11, GlibcCommands, Zenon DEF Effect
  <2>12. CASE p = 18
    BY <2>12, GlibcCommands, Zenon DEF Effect
  <2>13. CASE p = 19
    BY <2>13, GlibcCommands, Zenon DEF Effect
  <2> QED BY <2>1, <2>2, <2>3, <2>4, <2>5, <2>6, <2>7, <2>8, <2>9, <2>10, <2>11, <2>12, <2>13, Zenon
<1> HIDE DEF w
<1>1. CASE p \in {1, 2, 4, 11, 12, 14, 15, 17, 20} /\ w = v
  BY <1>1 DEF Built
<1>2. CASE p = 3 /\ w = [v EXCEPT !.libc = "custom", !.crypt = "glibc"]
  BY <1>2 DEF Built, Volume
<1>7. CASE p = 5 /\ w = [v EXCEPT !.oldlibc = "distro", !.oldcrypt = "distro"]
  BY <1>7 DEF Built, Volume
<1>8. CASE p = 6 /\ w = [v EXCEPT !.oldlibc = v.libc, !.oldcrypt = v.crypt]
  BY <1>8 DEF Built, Volume
<1>9. CASE p = 7 /\ w = [v EXCEPT !.libc = v.oldlibc, !.crypt = v.oldcrypt]
  BY <1>9 DEF Built, Volume
<1>3. CASE p = 8 /\ w = [v EXCEPT !.ld_conf = <<"new">>]
  BY <1>3 DEF Built, Volume
<1>4. CASE p = 9 /\ w = [v EXCEPT !.ld_conf = v.ld_conf \o v.conf]
  <2>1. v.ld_conf \in Seq(Line) /\ v.conf \in Seq(Line) /\ v.ld_conf # <<>> /\ Head(v.ld_conf) = "new"
        /\ v.libc = "custom" /\ v.oldlibc = "custom"
    BY <1>4 DEF Built, Volume, Line
  <2>2. w.ld_conf = v.ld_conf \o v.conf /\ w.libc = v.libc /\ w.oldlibc = v.oldlibc
    BY <1>4 DEF Volume
  <2>3. w.ld_conf # <<>> /\ Head(w.ld_conf) = "new"
    BY <2>1, <2>2, HeadOfJoined, Zenon
  <2>4. w.libc = "custom" /\ w.oldlibc = "custom"
    BY <2>1, <2>2, Zenon
  <2>5. Built(10, w)
    BY <2>3, <2>4 DEF Built
  <2> QED BY <1>4, <2>5
<1>5. CASE p = 10 /\ w = [v EXCEPT !.conf = v.ld_conf, !.ld_conf = <<>>]
  BY <1>5 DEF Built, Volume
<1>6. CASE p = 13 /\ w = [v EXCEPT !.link = "new"]
  BY <1>6 DEF Built, Volume
<1>10. CASE p = 16 /\ w = [v EXCEPT !.xdir = "yes"]
  BY <1>10 DEF Built, Volume
<1>11. CASE p = 18 /\ w = [v EXCEPT !.xlib = "xcrypt"]
  BY <1>11 DEF Built, Volume
<1>12. CASE p = 19 /\ w = [v EXCEPT !.crypt = v.xlib]
  BY <1>12 DEF Built, Volume
<1> QED
  BY <1>0, <1>1, <1>2, <1>3, <1>4, <1>5, <1>6, <1>7, <1>8, <1>9, <1>10, <1>11, <1>12, Zenon

-----------------------------------------------------------------------------
VolumeInv ==
  /\ vol \in Volume
  /\ vol.libc # "distro"
  /\ status["glibc-builder"] = "running" => Built(pos, vol)
  /\ status["glibc-builder"] = "ok" => Built(21, vol)

(* What a step of each service leaves of the volume.                       *)
LEMMA VolumeMoves ==
  ASSUME vol \in Volume, NEW s \in OneShot, status[s] = "running",
         Command(s) \/ CommandRefused(s) \/ CommandFails(s) \/ Kill(s)
  PROVE  LET w == Effect(Commands(s)[pos], vol)
         IN  /\ vol' \in {vol, w} \cup Interrupted(vol, w)
             /\ vol' \in Volume
             /\ vol'.libc \in {vol.libc, w.libc, "cut"}
             /\ vol.xdir = "yes" => vol'.xdir = "yes"
<1> DEFINE c == Commands(s)[pos]
           w == Effect(c, vol)
<1>1. vol' \in {vol, w} \cup Interrupted(vol, w)
  BY Zenon DEF Command, CommandRefused, CommandFails, Kill
<1>2. w \in Volume /\ (vol.xdir = "yes" => w.xdir = "yes")
  BY EffectType, EffectFields, Zenon
<1> HIDE DEF w
<1>3. vol' \in Volume /\ vol'.libc \in {vol.libc, w.libc, "cut"} /\ (vol.xdir = "yes" => vol'.xdir = "yes")
  BY <1>1, <1>2, InterruptedFields, Zenon
<1> QED BY <1>1, <1>3 DEF w

LEMMA PackagerKeepsVolume ==
  ASSUME Control, vol \in Volume, status["packager"] = "running",
         Command("packager") \/ CommandRefused("packager") \/ CommandFails("packager") \/ Kill("packager")
  PROVE  vol' = vol
<1>1. "packager" \in OneShot
  BY DEF OneShot
<1>2. pos \in 1..2
  BY <1>1, OtherCommands, Zenon DEF Control
<1>3. Commands("packager")[pos] \in {"open archive", "cpio | gzip"}
  <2>1. pos = 1 \/ pos = 2
    BY <1>2
  <2> QED BY <2>1, OtherCommands, Zenon
<1>4. Effect(Commands("packager")[pos], vol) = vol
  BY <1>3, EffectFields, Zenon
<1>5. vol' \in {vol} \cup Interrupted(vol, vol)
  BY <1>1, <1>4, VolumeMoves, Zenon
<1> QED BY <1>5, InterruptedNothing, Zenon

LEMMA GlibcMoves ==
  ASSUME Control, VolumeInv, status["glibc-builder"] = "running",
         LET s == "glibc-builder" IN Command(s) \/ CommandRefused(s) \/ CommandFails(s) \/ Kill(s)
  PROVE  /\ VolumeInv'
         /\ UNCHANGED <<archive, extracted>>
         /\ vol'.base = vol.base /\ (bootfail => bootfail')
         /\ \/ status' = [status EXCEPT !["glibc-builder"] = "failed"]
            \/ /\ Possible(Commands("glibc-builder")[pos], vol)
               /\ status' = [status EXCEPT !["glibc-builder"] = IF pos = 20 THEN "ok" ELSE "running"]
               /\ pos' = pos + 1
<1> DEFINE g == "glibc-builder"
           c == Commands(g)[pos]
           w == Effect(c, vol)
<1>0. g \in OneShot /\ g # "packager"
  BY DEF OneShot
<1>1. pos \in 1..20 /\ Len(Commands(g)) = 20
  <2>1. Len(Commands(g)) = 20
    BY GlibcCommands, Zenon
  <2> QED BY <1>0, <2>1, Zenon DEF Control
<1>2. Built(pos + 1, w) /\ (pos <= 2 => w = vol)
  BY <1>1, BuiltStep, Zenon DEF VolumeInv
<1>3. w.libc # "distro"
  <2>1. pos <= 2 \/ pos + 1 > 3
    BY <1>1
  <2> HIDE DEF w
  <2>2. CASE pos <= 2
    BY <1>2, <2>2, Zenon DEF VolumeInv
  <2>3. CASE pos + 1 > 3
    <3>1. w.libc = "custom"
      BY <1>2, <2>3, Zenon DEF Built
    <3> QED BY <3>1
  <2> QED BY <2>1, <2>2, <2>3
<1>4. /\ vol' \in {vol, w} \cup Interrupted(vol, w) /\ vol' \in Volume
      /\ vol'.libc \in {vol.libc, w.libc, "cut"}
  BY <1>0, VolumeMoves, Zenon DEF VolumeInv
<1>5. vol'.libc # "distro"
  <2>1. vol.libc # "distro" /\ "cut" # "distro"
    BY DEF VolumeInv
  <2> HIDE DEF w
  <2> QED BY <1>3, <1>4, <2>1, Zenon
<1>6. c # "debootstrap"
  <2>1. \/ pos = 1 \/ pos = 2 \/ pos = 3 \/ pos = 4 \/ pos = 5 \/ pos = 6 \/ pos = 7 \/ pos = 8 \/ pos = 9
        \/ pos = 10 \/ pos = 11 \/ pos = 12 \/ pos = 13 \/ pos = 14 \/ pos = 15 \/ pos = 16 \/ pos = 17
        \/ pos = 18 \/ pos = 19 \/ pos = 20
    BY <1>1
  <2> QED BY <2>1, GlibcCommands, ZenonT(40)
<1>7. vol'.base = vol.base
  <2>1. w.base = vol.base /\ w \in Volume /\ vol \in Volume
    BY <1>6, EffectFields, EffectType, Zenon DEF VolumeInv
  <2> HIDE DEF w
  <2>2. ASSUME vol' \in Interrupted(vol, w) PROVE vol'.base = vol.base
    <3>1. vol'.base \in {vol.base, "cut"} /\ (vol'.base = "cut" => vol.base = "cut" \/ vol.base # w.base)
      BY <2>1, <2>2, InterruptedFields, Zenon
    <3> QED BY <2>1, <3>1, Zenon
  <2> QED BY <1>4, <2>1, <2>2, Zenon
<1>8. CASE Command(g)
  <2>1. /\ status' = [status EXCEPT ![g] = IF pos = 20 THEN "ok" ELSE "running"]
        /\ Possible(c, vol) /\ pos' = pos + 1 /\ vol' = w /\ archive' = archive
        /\ UNCHANGED <<extracted, bootfail>>
    BY <1>0, <1>1, <1>8, EndsOf, Zenon DEF Command, Archived
  <2>2. pos = 20 => pos + 1 = 21
    OBVIOUS
  <2>3. status[g] = "running" /\ status'[g] = IF pos = 20 THEN "ok" ELSE "running"
    BY <1>0, <2>1, Zenon DEF Control, Service
  <2> HIDE DEF w
  <2>4. /\ status'[g] = "running" => Built(pos', vol')
        /\ status'[g] = "ok" => Built(21, vol')
    <3>1. "ok" # "running"
      OBVIOUS
    <3> QED BY <1>2, <2>1, <2>2, <2>3, <3>1, Zenon
  <2> QED BY <1>4, <1>5, <1>7, <2>1, <2>4, Zenon DEF VolumeInv
<1>9. CASE ~Command(g)
  <2>1. status' = [status EXCEPT ![g] = "failed"] /\ archive' = archive /\ extracted' = extracted
    BY <1>0, <1>9, EndsOf, Zenon DEF CommandRefused, CommandFails, Kill, Unnoticed
  <2>2. bootfail => bootfail'
    BY <1>9, Zenon DEF CommandRefused, CommandFails, Kill
  <2>3. status'[g] = "failed"
    BY <1>0, <2>1, Zenon DEF Control, Service
  <2>4. status'[g] # "running" /\ status'[g] # "ok"
    BY <2>3
  <2> QED BY <1>4, <1>5, <1>7, <2>1, <2>2, <2>4, Zenon DEF VolumeInv
<1> QED BY <1>8, <1>9

(* The other steps leave the volume alone; up makes all services wait but  *)
(* a server that runs.                                                     *)
LEMMA QuietSteps ==
  ASSUME Up \/ ServerStops \/ DownloadAndExtract \/ UNCHANGED vars
  PROVE  /\ UNCHANGED <<vol, archive, pos, bootfail>>
         /\ \/ Up /\ extracted' = extracted
            \/ extracted' = extracted \/ (archive # NULL /\ archive.whole /\ extracted' = archive)
BY Zenon DEF Up, ServerStops, DownloadAndExtract, vars

LEMMA QuietStatus ==
  ASSUME Control, Up \/ ServerStops \/ DownloadAndExtract \/ UNCHANGED vars
  PROVE  \/ /\ \A s \in OneShot : status[s] # "running" /\ status'[s] = "waiting"
            /\ status'["server"] = "running" => status["server"] = "running"
         \/ /\ \A s \in OneShot : status'[s] = status[s]
            /\ status'["server"] = "running" => status["server"] = "running"
<1>1. CASE Up
  BY <1>1, Zenon DEF Up, Service, OneShot
<1>2. CASE ServerStops
  BY <1>2 DEF ServerStops, Control, Service, OneShot
<1>3. CASE DownloadAndExtract \/ UNCHANGED vars
  BY <1>3, Zenon DEF DownloadAndExtract, vars
<1> QED BY <1>1, <1>2, <1>3

LEMMA RootfsLibc ==
  ASSUME Control, vol \in Volume, status["rootfs-builder"] = "running"
  PROVE  /\ \/ pos = 1 /\ Commands("rootfs-builder")[pos] = "debootstrap"
            \/ pos > 1 /\ Effect(Commands("rootfs-builder")[pos], vol) = vol
         /\ Effect(Commands("rootfs-builder")[pos], vol).libc = vol.libc
         /\ Possible(Commands("rootfs-builder")[pos], vol)
<1> DEFINE c == Commands("rootfs-builder")[pos]
<1>1. pos = 1 \/ pos = 2 \/ pos = 3
  <2>1. "rootfs-builder" \in OneShot /\ Len(Commands("rootfs-builder")) = 3
    BY OtherCommands, Zenon DEF OneShot
  <2>2. pos \in 1..3
    BY <2>1, Zenon DEF Control
  <2> QED BY <2>2
<1>2. CASE pos = 1
  <2>1. c = "debootstrap"
    BY <1>2, OtherCommands, Zenon
  <2> HIDE DEF c
  <2>2. Effect(c, vol).libc = vol.libc /\ Possible(c, vol)
    BY <2>1, EffectFields, Zenon DEF Possible
  <2> QED BY <1>2, <2>1, <2>2 DEF c
<1>3. CASE pos = 2 \/ pos = 3
  <2>0. pos > 1
    BY <1>3
  <2>1. c \in {"rm", "rm dev"}
    BY <1>3, OtherCommands, Zenon
  <2> HIDE DEF c
  <2>2. Effect(c, vol) = vol
    BY <2>1, EffectFields, Zenon
  <2>3. Possible(c, vol)
    BY <2>1, Zenon DEF Possible
  <2> QED BY <2>0, <2>2, <2>3 DEF c
<1> QED BY <1>1, <1>2, <1>3

LEMMA VolumeStep ==
  ASSUME Control, Control', VolumeInv, [Next]_vars
  PROVE  VolumeInv'
<1>1. CASE Up \/ ServerStops \/ DownloadAndExtract \/ UNCHANGED vars
  <2>1. vol' = vol /\ pos' = pos
    BY <1>1, QuietSteps, Zenon
  <2>2. status'["glibc-builder"] = "waiting" \/ status'["glibc-builder"] = status["glibc-builder"]
    BY <1>1, QuietStatus, Zenon DEF OneShot
  <2> QED BY <2>1, <2>2 DEF VolumeInv
<1>2. ASSUME NEW s \in Service, StartService(s) PROVE VolumeInv'
  <2>1. /\ vol' = vol /\ pos' = 1 /\ status["glibc-builder"] # "running" /\ status[s] = "waiting"
        /\ \E e \in {"ok", "running"} : status' = [status EXCEPT ![s] = e]
    BY <1>2, StartsAlone, Zenon DEF OneShot
  <2>2. CASE s = "glibc-builder"
    <3>1. status' = [status EXCEPT ![s] = "running"]
      BY <1>2, <2>2 DEF StartService
    <3>2. status'["glibc-builder"] = "running"
      BY <2>2, <3>1 DEF Control
    <3>3. Built(1, vol)
      BY DEF Built
    <3> QED BY <2>1, <3>2, <3>3 DEF VolumeInv
  <2>3. CASE s # "glibc-builder"
    <3>1. status'["glibc-builder"] = status["glibc-builder"]
      BY <2>1, <2>3, Zenon DEF Control, Service, OneShot
    <3> QED BY <2>1, <3>1, Zenon DEF VolumeInv
  <2> QED BY <2>2, <2>3
<1>3. ASSUME NEW s \in OneShot, Command(s) \/ CommandRefused(s) \/ CommandFails(s) \/ Kill(s)
      PROVE  VolumeInv'
  <2>1. PICK e \in {"running", "ok", "failed"} : status' = [status EXCEPT ![s] = e]
    BY <1>3, Advance, Zenon
  <2>2. status[s] = "running" /\ s \in Service
    BY <1>3, Advance, Zenon DEF Service
  <2>3. CASE s = "glibc-builder"
    BY <1>3, <2>2, <2>3, GlibcMoves, Zenon
  <2>4. CASE s = "rootfs-builder"
    <3>1. vol' \in Volume /\ vol'.libc \in {vol.libc, "cut"}
      BY <1>3, <2>2, <2>4, VolumeMoves, RootfsLibc, Zenon DEF VolumeInv
    <3>2. status'["glibc-builder"] = status["glibc-builder"] /\ status["glibc-builder"] \notin {"running", "ok"}
      BY <2>1, <2>2, <2>4 DEF Control, Service, OneShot
    <3> QED BY <3>1, <3>2 DEF VolumeInv
  <2>5. CASE s = "packager"
    <3>1. vol' = vol
      BY <1>3, <2>2, <2>5, PackagerKeepsVolume, Zenon DEF VolumeInv
    <3>2. status'["glibc-builder"] = "ok" /\ status["glibc-builder"] = "ok"
      BY <2>1, <2>2, <2>5 DEF Control, Service, OneShot
    <3> QED BY <3>1, <3>2 DEF VolumeInv
  <2> QED BY <2>3, <2>4, <2>5 DEF OneShot
<1> QED BY <1>1, <1>2, <1>3 DEF Next

-----------------------------------------------------------------------------
(* While the server runs the packager is done or, after another up, waits  *)
(* for a build that cannot get past the mkdir of libxcrypt_builder.sh.     *)
Serving ==
  status["server"] = "running" =>
    \/ status["packager"] = "ok"
    \/ /\ status["packager"] = "waiting" /\ vol.xdir = "yes"
       /\ status["glibc-builder"] # "ok"
       /\ status["glibc-builder"] = "running" => pos <= 16

LEMMA ServingStep ==
  ASSUME Control, Control', VolumeInv, Serving, [Next]_vars
  PROVE  Serving'
<1>0. status["packager"] = "ok" => vol.xdir = "yes"
  BY DEF Control, VolumeInv, Built
<1>1. CASE Up \/ ServerStops \/ DownloadAndExtract \/ UNCHANGED vars
  <2>1. vol' = vol /\ pos' = pos
    BY <1>1, QuietSteps, Zenon
  <2>2. CASE /\ \A s \in OneShot : status[s] # "running" /\ status'[s] = "waiting"
             /\ status'["server"] = "running" => status["server"] = "running"
    BY <1>0, <2>1, <2>2 DEF Serving, OneShot
  <2>3. CASE /\ \A s \in OneShot : status'[s] = status[s]
             /\ status'["server"] = "running" => status["server"] = "running"
    BY <2>1, <2>3 DEF Serving, OneShot
  <2> QED BY <1>1, <2>2, <2>3, QuietStatus, Zenon
<1>2. ASSUME NEW s \in Service, StartService(s) PROVE Serving'
  <2>1. /\ vol' = vol /\ pos' = 1 /\ status[s] = "waiting"
        /\ \A t \in OneShot : status[t] # "running"
        /\ s = "packager" => status["glibc-builder"] = "ok"
        /\ s = "server" => status["packager"] = "ok"
    BY <1>2, StartsAlone, Zenon
  <2>2. PICK e \in {"ok", "running"} : status' = [status EXCEPT ![s] = e]
    BY <1>2, StartsAlone, Zenon
  <2>3. CASE s = "server"
    BY <2>1, <2>2, <2>3 DEF Serving, Control, Service, OneShot
  <2>4. CASE s = "packager"
    BY <2>1, <2>2, <2>4 DEF Serving, Control, Service, OneShot
  <2>5. CASE s = "rootfs-builder"
    BY <2>1, <2>2, <2>5 DEF Serving, Control, Service, OneShot
  <2>6. CASE s = "glibc-builder"
    <3>1. status' = [status EXCEPT ![s] = "running"]
      BY <1>2, <2>6 DEF StartService
    <3> QED BY <2>1, <2>6, <3>1 DEF Serving, Control, Service, OneShot
  <2> QED BY <2>3, <2>4, <2>5, <2>6 DEF Service, OneShot
<1>3. ASSUME NEW s \in OneShot, Command(s) \/ CommandRefused(s) \/ CommandFails(s) \/ Kill(s)
      PROVE  Serving'
  <2>1. PICK e \in {"running", "ok", "failed"} : status' = [status EXCEPT ![s] = e]
    BY <1>3, Advance, Zenon
  <2>2. status[s] = "running" /\ s \in Service
    BY <1>3, Advance, Zenon DEF Service
  <2>3. vol.xdir = "yes" => vol'.xdir = "yes"
    BY <1>3, <2>2, VolumeMoves, Zenon DEF VolumeInv
  <2>4. CASE s = "packager"
    BY <2>1, <2>2, <2>4 DEF Serving, Control, Service, OneShot
  <2>5. CASE s = "rootfs-builder"
    BY <2>1, <2>2, <2>3, <2>5 DEF Serving, Control, Service, OneShot
  <2>6. CASE s = "glibc-builder"
    <3>1. SUFFICES ASSUME status["server"] = "running" PROVE Serving'
      BY <2>1, <2>6 DEF Serving, Control, Service, OneShot
    <3>2. /\ status["packager"] = "waiting" /\ vol.xdir = "yes" /\ pos <= 16 /\ pos \in Nat
      BY <2>2, <2>6, <3>1 DEF Serving, Control
    <3>3. CASE status' = [status EXCEPT !["glibc-builder"] = "failed"]
      BY <2>3, <3>2, <3>3 DEF Serving, Control, Service, OneShot
    <3>4. CASE /\ Possible(Commands("glibc-builder")[pos], vol)
               /\ status' = [status EXCEPT !["glibc-builder"] = IF pos = 20 THEN "ok" ELSE "running"]
               /\ pos' = pos + 1
      <4>1. pos # 16
        <5> SUFFICES ASSUME pos = 16 PROVE FALSE
          OBVIOUS
        <5>1. Commands("glibc-builder")[pos] = "mkdir"
          BY GlibcCommands, Zenon
        <5>2. vol.xdir = "no"
          BY <3>4, <5>1, Zenon DEF Possible
        <5> QED BY <3>2, <5>2
      <4>2. pos # 20 /\ pos' <= 16
        BY <3>2, <3>4, <4>1
      <4>3. status' = [status EXCEPT !["glibc-builder"] = "running"]
        BY <3>4, <4>2
      <4> QED BY <2>3, <3>2, <4>2, <4>3 DEF Serving, Control, Service, OneShot
    <3> QED BY <1>3, <2>2, <2>6, <3>3, <3>4, GlibcMoves, Zenon
  <2> QED BY <2>4, <2>5, <2>6 DEF OneShot
<1> QED BY <1>1, <1>2, <1>3 DEF Next

(* The packager is the only one to write the archive.                      *)
LEMMA ArchiveWriter ==
  ASSUME Control, [Next]_vars, archive' # archive
  PROVE  status["packager"] = "running" /\ (Command("packager") \/ CommandFails("packager"))
<1>1. CASE Up \/ ServerStops \/ DownloadAndExtract \/ UNCHANGED vars
  BY <1>1, QuietSteps, Zenon
<1>2. ASSUME NEW s \in Service, StartService(s) PROVE FALSE
  BY <1>2, StartsAlone, Zenon
<1>3. ASSUME NEW s \in OneShot, Command(s) \/ CommandRefused(s) \/ CommandFails(s) \/ Kill(s)
      PROVE  s = "packager" /\ status[s] = "running" /\ (Command(s) \/ CommandFails(s))
  <2>1. status[s] = "running"
    BY <1>3, Advance, Zenon
  <2>2. Command(s) \/ CommandFails(s)
    BY <1>3, Zenon DEF CommandRefused, Kill
  <2>3. s # "packager" => archive' = archive
    BY <2>2, Zenon DEF Command, CommandFails, Archived, Unnoticed
  <2> QED BY <2>1, <2>2, <2>3, Zenon
<1> QED BY <1>1, <1>2, <1>3, Zenon DEF Next

-----------------------------------------------------------------------------
(* The base is complete once rootfs-builder is past debootstrap, unless    *)
(* that has failed.                                                        *)
BaseInv ==
  /\ vol.base = "cut" => bootfail
  /\ status["rootfs-builder"] = "ok" => vol.base = "full" \/ bootfail
  /\ status["rootfs-builder"] = "running" /\ pos > 1 => vol.base = "full" \/ bootfail

LEMMA BootfailStays ==
  ASSUME [Next]_vars, bootfail
  PROVE  bootfail'
BY Zenon DEF Next, Up, StartService, Command, CommandRefused, CommandFails, Kill, ServerStops,
             DownloadAndExtract, vars

LEMMA BaseStep ==
  ASSUME Control, VolumeInv, BaseInv, [Next]_vars
  PROVE  BaseInv'
<1> DEFINE r == "rootfs-builder"
<1>0. (bootfail => bootfail') /\ r \in OneShot /\ r \in Service
  BY BootfailStays, Zenon DEF OneShot, Service
<1>1. CASE Up \/ ServerStops \/ DownloadAndExtract \/ UNCHANGED vars
  <2>1. vol' = vol /\ pos' = pos
    BY <1>1, QuietSteps, Zenon
  <2>2. status'[r] = "waiting" \/ status'[r] = status[r]
    BY <1>0, <1>1, QuietStatus, Zenon
  <2>3. "waiting" # "ok" /\ "waiting" # "running"
    OBVIOUS
  <2> QED BY <1>0, <2>1, <2>2, <2>3, Zenon DEF BaseInv
<1>2. ASSUME NEW s \in Service, StartService(s) PROVE BaseInv'
  <2>1. /\ vol' = vol /\ pos' = 1 /\ status[r] # "running"
        /\ \E e \in {"ok", "running"} : status' = [status EXCEPT ![s] = e]
    BY <1>0, <1>2, StartsAlone, Zenon
  <2>2. ~(1 > 1)
    OBVIOUS
  <2>3. CASE s = r
    <3>1. status'[r] = IF vol.base # "none" THEN "ok" ELSE "running"
      BY <1>0, <1>2, <2>3, Zenon DEF StartService, Control
    <3>2. vol.base \in {"none", "full", "cut"}
      BY DEF VolumeInv, Volume
    <3>3. "running" # "ok"
      OBVIOUS
    <3> QED BY <1>0, <2>1, <2>2, <3>1, <3>2, <3>3, Zenon DEF BaseInv
  <2>4. CASE s # r
    <3>1. status'[r] = status[r]
      BY <1>0, <2>1, <2>4, Zenon DEF Control
    <3> QED BY <1>0, <2>1, <3>1, Zenon DEF BaseInv
  <2> QED BY <2>3, <2>4
<1>3. ASSUME NEW s \in OneShot, Command(s) \/ CommandRefused(s) \/ CommandFails(s) \/ Kill(s)
      PROVE  BaseInv'
  <2>1. PICK e \in {"running", "ok", "failed"} : status' = [status EXCEPT ![s] = e]
    BY <1>3, Advance, Zenon
  <2>2. status[s] = "running" /\ s \in Service
    BY <1>3, Advance, Zenon DEF Service
  <2>3. CASE s # r
    <3>1. vol'.base = vol.base
      <4>1. CASE s = "glibc-builder"
        BY <1>3, <2>2, <4>1, GlibcMoves, Zenon
      <4>2. CASE s = "packager"
        BY <1>3, <2>2, <4>2, PackagerKeepsVolume, Zenon DEF VolumeInv
      <4> QED BY <2>3, <4>1, <4>2 DEF OneShot
    <3>2. status'[r] = "ok" /\ status[r] = "ok"
      <4>1. status[r] = "ok"
        BY <2>2, <2>3 DEF Control, OneShot
      <4> QED BY <1>0, <2>1, <2>3, <4>1, Zenon DEF Control
    <3>3. "ok" # "running"
      OBVIOUS
    <3> QED BY <1>0, <3>1, <3>2, <3>3, Zenon DEF BaseInv
  <2>4. CASE s = r
    <3> DEFINE c == Commands(r)[pos]
               w == Effect(c, vol)
    <3>1. /\ \/ pos = 1 /\ c = "debootstrap"
             \/ pos > 1 /\ w = vol
          /\ Possible(c, vol)
      BY <2>2, <2>4, RootfsLibc, Zenon DEF VolumeInv
    <3>2. vol' \in {vol, w} \cup Interrupted(vol, w) /\ vol \in Volume
      BY <1>3, <2>2, <2>4, VolumeMoves, Zenon DEF VolumeInv
    <3>3. Command(r) \/ CommandFails(r) \/ Kill(r)
      BY <1>3, <2>4, <3>1, Zenon DEF CommandRefused
    <3>4. CASE pos > 1 /\ w = vol
      <4>1. vol' = vol
        <5> HIDE DEF w
        <5> QED BY <3>2, <3>4, InterruptedNothing, Zenon
      <4> QED BY <1>0, <2>2, <2>4, <3>4, <4>1, Zenon DEF BaseInv
    <3>5. CASE c = "debootstrap" /\ Command(r)
      <4>1. vol'.base = "full"
        <5>1. vol' = Effect(c, vol)
          BY <3>5, Zenon DEF Command
        <5> HIDE DEF c
        <5> QED BY <3>2, <3>5, <5>1, EffectFields, Zenon
      <4>2. "full" # "cut"
        OBVIOUS
      <4> QED BY <4>1, <4>2, Zenon DEF BaseInv
    <3>6. CASE c = "debootstrap" /\ (CommandFails(r) \/ Kill(r))
      <4>1. bootfail'
        BY <3>6, Zenon DEF CommandFails, Kill
      <4> QED BY <4>1, Zenon DEF BaseInv
    <3> QED BY <3>1, <3>3, <3>4, <3>5, <3>6, Zenon
  <2> QED BY <2>3, <2>4
<1> QED BY <1>1, <1>2, <1>3 DEF Next

-----------------------------------------------------------------------------
(* A whole archive, when no file was skipped, is a complete one.           *)
Complete(a) == Built(21, a.root) /\ (a.root.base = "full" \/ bootfail)

ArchiveInv ==
  /\ archive # NULL /\ archive.whole /\ ~archive.skipped => Complete(archive)
  /\ extracted # NULL /\ ~extracted.skipped => Complete(extracted)

LEMMA ArchiveStep ==
  ASSUME Control, VolumeInv, BaseInv, ArchiveInv, [Next]_vars
  PROVE  ArchiveInv'
<1>0. bootfail => bootfail'
  BY BootfailStays
<1>1. extracted' = extracted \/ (archive # NULL /\ archive.whole /\ extracted' = archive)
  BY Zenon DEF Next, Up, StartService, Command, CommandRefused, CommandFails, Kill, ServerStops,
               DownloadAndExtract, vars
<1>2. extracted' # NULL /\ ~extracted'.skipped => Complete(extracted)'
  BY <1>0, <1>1, Zenon DEF ArchiveInv, Complete
<1>3. CASE archive' = archive
  BY <1>0, <1>2, <1>3, Zenon DEF ArchiveInv, Complete
<1>4. CASE archive' # archive
  <2>1. status["packager"] = "running" /\ (Command("packager") \/ CommandFails("packager"))
    BY <1>4, ArchiveWriter, Zenon
  <2>2. Built(21, vol) /\ (vol.base = "full" \/ bootfail)
    BY <2>1, Zenon DEF Control, VolumeInv, BaseInv
  <2>3. archive'.root = vol
    <3>1. CASE Command("packager")
      BY <3>1, Zenon DEF Command, Archived
    <3>2. CASE CommandFails("packager")
      <4>1. archive' = [whole |-> TRUE, skipped |-> TRUE, root |-> vol]
        BY <1>4, <3>2, Zenon DEF CommandFails, Unnoticed
      <4> QED BY <4>1, Zenon
    <3> QED BY <2>1, <3>1, <3>2
  <2>4. Complete(archive)'
    BY <1>0, <2>2, <2>3, Zenon DEF Complete
  <2> QED BY <1>2, <2>4, Zenon DEF ArchiveInv
<1> QED BY <1>3, <1>4

-----------------------------------------------------------------------------
Rest ==
  /\ archive \in Archive \cup {NULL} /\ extracted \in Archive \cup {NULL}
  /\ ups \in 0..MaxUps /\ disturbed \in BOOLEAN /\ bootfail \in BOOLEAN

LEMMA ArchiveType ==
  ASSUME NEW a \in BOOLEAN, NEW b \in BOOLEAN, NEW v \in Volume
  PROVE  [whole |-> a, skipped |-> b, root |-> v] \in Archive
BY DEF Archive

LEMMA RestStep ==
  ASSUME Control, VolumeInv, Rest, [Next]_vars
  PROVE  Rest'
<1>1. archive' \in Archive \cup {NULL}
  <2>1. CASE archive' = archive
    BY <2>1 DEF Rest
  <2>2. CASE archive' # archive
    <3>1. Command("packager") \/ CommandFails("packager")
      BY <2>2, ArchiveWriter, Zenon
    <3>2. CASE Command("packager")
      <4> DEFINE a == pos = Len(Commands("packager"))
      <4>1. archive' = [whole |-> a, skipped |-> FALSE, root |-> vol]
        BY <3>2, Zenon DEF Command, Archived
      <4>2. a \in BOOLEAN /\ vol \in Volume
        BY DEF VolumeInv
      <4> HIDE DEF a
      <4> QED BY <4>1, <4>2, ArchiveType, Zenon
    <3>3. CASE CommandFails("packager")
      <4>1. archive' = [whole |-> TRUE, skipped |-> TRUE, root |-> vol]
        BY <2>2, <3>3, Zenon DEF CommandFails, Unnoticed
      <4> QED BY <4>1, ArchiveType, Zenon DEF VolumeInv
    <3> QED BY <3>1, <3>2, <3>3
  <2> QED BY <2>1, <2>2
<1>2. extracted' \in {extracted, archive}
  BY Zenon DEF Next, Up, StartService, Command, CommandRefused, CommandFails, Kill, ServerStops,
               DownloadAndExtract, vars
<1>3. ups' \in 0..MaxUps
  <2>1. ups' = ups \/ (ups < MaxUps /\ ups' = ups + 1)
    BY Zenon DEF Next, Up, StartService, Command, CommandRefused, CommandFails, Kill, ServerStops,
                 DownloadAndExtract, vars
  <2>2. ups \in 0..MaxUps
    BY DEF Rest
  <2> QED BY <2>1, <2>2, PipelineAssumption
<1>4. disturbed' \in BOOLEAN
  BY Zenon DEF Rest, Next, Up, StartService, Command, CommandRefused, CommandFails, Kill, ServerStops,
               DownloadAndExtract, vars
<1>5. bootfail' \in BOOLEAN
  BY Zenon DEF Rest, Next, Up, StartService, Command, CommandRefused, CommandFails, Kill, ServerStops,
               DownloadAndExtract, vars
<1> QED BY <1>1, <1>2, <1>3, <1>4, <1>5, Zenon DEF Rest

IInv == Control /\ VolumeInv /\ Serving /\ BaseInv /\ ArchiveInv /\ Rest

LEMMA InitIInv == Init => IInv
<1> SUFFICES ASSUME Init PROVE IInv
  OBVIOUS
<1>1. status = [s \in Service |-> "off"] /\ pos = 1 /\ vol = EmptyVolume
  BY DEF Init
<1>2. Control /\ Serving
  BY <1>1 DEF Control, Serving, Service, OneShot
<1>3. VolumeInv
  BY <1>1 DEF VolumeInv, EmptyVolume, Volume, Library, Service, OneShot
<1>4. BaseInv
  BY <1>1 DEF BaseInv, EmptyVolume, Service, OneShot
<1>5. ArchiveInv
  BY Zenon DEF Init, ArchiveInv
<1>6. Rest
  <2>1. 0 \in 0..MaxUps
    BY PipelineAssumption
  <2> QED BY <2>1, Zenon DEF Init, Rest
<1> QED BY <1>2, <1>3, <1>4, <1>5, <1>6 DEF IInv

LEMMA NextIInv == IInv /\ [Next]_vars => IInv'
<1> SUFFICES ASSUME IInv, [Next]_vars PROVE IInv'
  OBVIOUS
<1>1. Control'
  BY ControlStep DEF IInv
<1> QED BY <1>1, VolumeStep, ServingStep, BaseStep, ArchiveStep, RestStep DEF IInv

(* The inductive invariant: the order of the services, what each command   *)
(* of the scripts has done before the next starts, and what was archived.  *)
THEOREM PipelineInvariant == Spec => []IInv
BY InitIInv, NextIInv, PTL DEF Spec

(* The volume and the archive have their types, and services run in the    *)
(* order of depends_on, for any number of calls of up.                     *)
THEOREM ServiceOrder == Spec => []TypeOK
<1>1. IInv => TypeOK
  <2> SUFFICES ASSUME IInv PROVE TypeOK
    OBVIOUS
  <2>1. \A s \in OneShot : status[s] = "running" =>
          pos \in 1..Len(Commands(s)) /\ \A d \in DependsOn(s) : status[d] = "ok"
    BY DEF IInv, Control, OneShot, DependsOn
  <2> QED BY <2>1, Zenon DEF IInv, Control, VolumeInv, Rest, TypeOK
<1> QED BY PipelineInvariant, <1>1, PTL

(* No fault or repetition of glibc_install.sh puts the distribution's libc *)
(* where the new one belongs.                                              *)
THEOREM LibcStaysNew == Spec => []NewLibcKept
<1>1. IInv => NewLibcKept
  BY DEF IInv, VolumeInv, NewLibcKept
<1> QED BY PipelineInvariant, <1>1, PTL

(* An archive that can be extracted is complete, but for the two failures  *)
(* that nobody notices.                                                    *)
THEOREM ExtractionSafety == Spec => []ExtractedComplete
<1>1. IInv => ExtractedComplete
  <2> SUFFICES ASSUME IInv, extracted # NULL, ~extracted.skipped
               PROVE  /\ extracted.root.libc = "custom" /\ extracted.root.crypt = "xcrypt"
                      /\ extracted.root.link = "new" /\ Head(extracted.root.conf) = "new"
                      /\ extracted.root.base = "full" \/ bootfail
    BY Zenon DEF ExtractedComplete
  <2>1. Built(21, extracted.root) /\ (extracted.root.base = "full" \/ bootfail)
    BY Zenon DEF IInv, ArchiveInv, Complete
  <2>2. 21 > 3 /\ 21 > 10 /\ 21 > 13 /\ 21 > 19
    OBVIOUS
  <2> QED BY <2>1, <2>2, Zenon DEF Built
<1> QED BY PipelineInvariant, <1>1, PTL

(* What is served does not change while it is served.                      *)
THEOREM ServedStays == Spec => ServedArchiveStays
<1>1. IInv /\ [Next]_vars => [status["server"] = "running" => archive' = archive]_vars
  <2> SUFFICES ASSUME IInv, [Next]_vars, status["server"] = "running", archive' # archive PROVE FALSE
    OBVIOUS
  <2>1. status["packager"] = "running"
    BY ArchiveWriter, Zenon DEF IInv
  <2> QED BY <2>1 DEF IInv, Serving
<1> QED BY PipelineInvariant, <1>1, PTL DEF Spec, ServedArchiveStays
=============================================================================
