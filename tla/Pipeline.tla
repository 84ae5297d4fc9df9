------------------------------ MODULE Pipeline ------------------------------
(***************************************************************************)
(* The build pipeline (docker-compose.yaml): four services that hand a     *)
(* root file system on through two volumes.  A command of a script may     *)
(* fail, a container may be killed in the middle of one, and "up" may be   *)
(* called again: the containers start anew, the volumes stay.              *)
(***************************************************************************)
EXTENDS Naturals, Sequences

CONSTANTS MaxUps,   \* bound on the calls of "docker-compose up"
          NULL

ASSUME PipelineAssumption == MaxUps \in Nat

OneShot == {"rootfs-builder", "glibc-builder", "packager"}
Service == OneShot \cup {"server"}

(* depends_on, always with service_completed_successfully.                 *)
DependsOn(s) ==
  CASE s = "rootfs-builder" -> {}
    [] s = "glibc-builder" -> {"rootfs-builder"}
    [] s = "packager" -> {"glibc-builder"}
    [] s = "server" -> {"packager"}

(* The commands of the scripts.                                            *)
glibc_builder == <<"configure glibc", "build glibc">>

(* Mutant: the copies of the old and the new libraries change places.      *)
CopiesSwapped ==
  <<"install glibc", "create glibc dir", "copy old glibc 2", "copy old glibc",
    "merge old glibc", "add ldconf", "merge ldconf", "ldconf setting", "do ldconfig",
    "copy busybox", "set link to new glibc">>

glibc_install ==
  <<"install glibc", "create glibc dir", "copy old glibc", "copy old glibc 2",
    "merge old glibc", "add ldconf", "merge ldconf", "ldconf setting", "do ldconfig",
    "copy busybox", "set link to new glibc">>

libxcrypt_builder ==
  <<"libxcrypt autogen", "configure libxcrypt", "mkdir", "build libxcrypt",
    "install libxcrypt", "copy libxcrypt", "copy libxcrypt 2">>

(* Mutant: libxcrypt is built before glibc is installed.                   *)
XcryptFirst(s) ==
  CASE s = "rootfs-builder" -> <<"debootstrap", "rm", "rm dev">>
    [] s = "glibc-builder" -> glibc_builder \o libxcrypt_builder \o glibc_install
    [] s = "packager" -> <<"open archive", "cpio | gzip">>

(* exec_all.sh runs three scripts.                                         *)
Commands(s) ==
  CASE s = "rootfs-builder" -> <<"debootstrap", "rm", "rm dev">>
    [] s = "glibc-builder" -> glibc_builder \o glibc_install \o libxcrypt_builder
    [] s = "packager" -> <<"open archive", "cpio | gzip">>

VARIABLES
  vol,        \* the volume await-glibc-builder-output
  archive,    \* await-rootfs.cpio.gz: whole, with files skipped, of which root
  extracted,  \* the archive tool/download_and_extract.sh has extracted
  status, pos,   \* of the services; the next command of the one that runs
  ups, disturbed, bootfail   \* calls of up; a fault since the last; debootstrap's

vars == <<vol, archive, extracted, status, pos, ups, disturbed, bootfail>>

(* base: the directory await-rootfs; libc and crypt: those libraries in    *)
(* its /usr/local/lib/x86_64-linux-gnu, with old in front in glibc-old;    *)
(* conf: the lines of /etc/ld.so.conf; link: where /lib64/ld-linux leads;  *)
(* xdir, xlib: the directory libxcrypt and the library in it.              *)
EmptyVolume ==
  [base |-> "none", libc |-> "none", crypt |-> "none", oldlibc |-> "none", oldcrypt |-> "none",
   ld_conf |-> <<>>, conf |-> <<>>, link |-> "none",
   xdir |-> "no", xlib |-> "none"]

Init ==
  /\ vol = EmptyVolume /\ archive = NULL /\ extracted = NULL
  /\ status = [s \in Service |-> "off"] /\ pos = 1
  /\ ups = 0 /\ disturbed = FALSE /\ bootfail = FALSE

-----------------------------------------------------------------------------
(* What a command that succeeds does to the volume.  The distribution's    *)
(* libraries are in /lib/x86_64-linux-gnu and stay there; the other        *)
(* commands change nothing that is told apart here.                        *)
Effect(c, v) ==
  CASE c = "debootstrap" ->
         [v EXCEPT !.base = "full", !.conf = <<"distro">>, !.link = "distro"]
    [] c = "install glibc" -> [v EXCEPT !.libc = "custom", !.crypt = "glibc"]
    [] c = "copy old glibc" -> [v EXCEPT !.oldlibc = "distro", !.oldcrypt = "distro"]
    [] c = "copy old glibc 2" -> [v EXCEPT !.oldlibc = v.libc, !.oldcrypt = v.crypt]
    [] c = "merge old glibc" -> [v EXCEPT !.libc = v.oldlibc, !.crypt = v.oldcrypt]
    [] c = "add ldconf" -> [v EXCEPT !.ld_conf = <<"new">>]
    [] c = "merge ldconf" -> [v EXCEPT !.ld_conf = v.ld_conf \o v.conf]
    [] c = "ldconf setting" -> [v EXCEPT !.conf = v.ld_conf, !.ld_conf = <<>>]
    [] c = "set link to new glibc" -> [v EXCEPT !.link = "new"]
    [] c = "mkdir" -> [v EXCEPT !.xdir = "yes"]
    [] c = "install libxcrypt" -> [v EXCEPT !.xlib = "xcrypt"]
    [] c = "copy libxcrypt" -> [v EXCEPT !.crypt = v.xlib]
    [] OTHER -> v

(* Mutant: mkdir -p.                                                       *)
MkdirParents(c, v) == c = "merge ldconf" => v.conf # <<>>

(* mkdir without -p, and cat of a file that must be there.                 *)
Possible(c, v) ==
  /\ c = "mkdir" => v.xdir = "no"
  /\ c = "merge ldconf" => v.conf # <<>>

(* What one that fails or is killed may leave: of the things it changes    *)
(* some done, some not, files cut off and the link removed.  debootstrap   *)
(* is not done.                                                            *)
Interrupted(v, w) ==
  LET changed == {f \in DOMAIN v : v[f] # w[f]}
      files == {"base", "libc", "crypt", "oldlibc", "oldcrypt", "link", "xlib"}
  IN  {[f \in DOMAIN v |-> IF f \in cut THEN "cut" ELSE IF f \in done THEN w[f] ELSE v[f]] :
         done \in SUBSET (changed \ {"base"}), cut \in SUBSET (changed \cap files)}

-----------------------------------------------------------------------------
(* Mutants: service_started, and service_healthy, which a service without a *)
(* health check never is.                                                  *)
CanStartEarly(s) ==
  status[s] = "waiting" /\ \A d \in DependsOn(s) : status[d] \in {"running", "ok"}

CanStartWhenHealthy(s) ==
  status[s] = "waiting" /\ \A d \in DependsOn(s) : status[d] = "healthy"

CanStart(s) == status[s] = "waiting" /\ \A d \in DependsOn(s) : status[d] = "ok"

(* docker-compose up (external), when the last one has come to its end.    *)
(* A server that runs is left running.                                     *)
Up ==
  /\ ups < MaxUps
  /\ \A s \in OneShot : status[s] # "running"
  /\ \A s \in Service : ~CanStart(s)
  /\ status' = [s \in Service |-> IF status[s] = "running" THEN "running" ELSE "waiting"]
  /\ ups' = ups + 1 /\ disturbed' = FALSE
  /\ UNCHANGED <<vol, archive, extracted, pos, bootfail>>

(* download_rootfs.sh ends at once when the directory is there.            *)
StartService(s) ==
  /\ CanStart(s)
  /\ status' = [status EXCEPT ![s] =
                  IF s = "rootfs-builder" /\ vol.base # "none" THEN "ok" ELSE "running"]
  /\ pos' = 1
  /\ UNCHANGED <<vol, archive, extracted, ups, disturbed, bootfail>>

(* The status run_silent returns: PIPESTATUS[0].                           *)
run_silent(ok) == ok

(* What is left when a command ends.  download_rootfs.sh looks at no       *)
(* status, its own is that of the last rm.  exec_all.sh and its scripts    *)
(* stop at the first failure.  The status of the packager is gzip's: when   *)
(* find or cpio fails, it is 0.                                            *)
Ends(s, ok) ==
  LET last == pos = Len(Commands(s))
      next == IF last THEN "ok" ELSE "running"
  IN  CASE ok -> {next}
        [] ~ok /\ s = "rootfs-builder" -> IF last THEN {"failed"} ELSE {"running"}
        [] ~ok /\ s = "glibc-builder" -> {IF run_silent(FALSE) THEN next ELSE "failed"}
        [] ~ok /\ s = "packager" -> IF last THEN {"ok", "failed"} ELSE {"failed"}

Archived(s) ==
  IF s # "packager" THEN archive
  ELSE [whole |-> pos = Len(Commands(s)), skipped |-> FALSE, root |-> vol]

(* Such a failure cuts the archive off, or leaves a whole one without some *)
(* of the files.                                                           *)
Unnoticed(s, end) ==
  IF s = "packager" /\ end = "ok" THEN {archive, [whole |-> TRUE, skipped |-> TRUE, root |-> vol]}
  ELSE {archive}

Command(s) ==
  LET c == Commands(s)[pos]
  IN  /\ status[s] = "running" /\ Possible(c, vol)
      /\ vol' = Effect(c, vol) /\ archive' = Archived(s)
      /\ pos' = pos + 1
      /\ \E e \in Ends(s, TRUE) : status' = [status EXCEPT ![s] = e]
      /\ UNCHANGED <<extracted, ups, disturbed, bootfail>>

(* It cannot succeed.                                                      *)
CommandRefused(s) ==
  /\ status[s] = "running" /\ ~Possible(Commands(s)[pos], vol)
  /\ pos' = pos + 1
  /\ \E e \in Ends(s, FALSE) : status' = [status EXCEPT ![s] = e]
  /\ UNCHANGED <<vol, archive, extracted, ups, disturbed, bootfail>>

(* It fails, also where it cannot work in what an earlier call has left:   *)
(* a chroot without loader, a cp over the libraries it runs on.            *)
(* debootstrap makes its directory first (external).                       *)
CommandFails(s) ==
  LET c == Commands(s)[pos]
  IN  /\ status[s] = "running" /\ Possible(c, vol)
      /\ vol' \in Interrupted(vol, Effect(c, vol))
      /\ c = "debootstrap" => vol'.base = "cut"
      /\ pos' = pos + 1
      /\ \E e \in Ends(s, FALSE) : /\ status' = [status EXCEPT ![s] = e]
                                   /\ archive' \in Unnoticed(s, e)
      /\ disturbed' = TRUE /\ bootfail' = (bootfail \/ c = "debootstrap")
      /\ UNCHANGED <<extracted, ups>>

(* The container is killed.                                                *)
Kill(s) ==
  LET c == Commands(s)[pos]
  IN  /\ status[s] = "running" /\ Possible(c, vol)
      /\ vol' \in Interrupted(vol, Effect(c, vol))
      /\ status' = [status EXCEPT ![s] = "failed"]
      /\ disturbed' = TRUE /\ bootfail' = (bootfail \/ c = "debootstrap")
      /\ UNCHANGED <<archive, extracted, pos, ups>>

ServerStops ==
  /\ status["server"] = "running"
  /\ status' = [status EXCEPT !["server"] = "failed"]
  /\ disturbed' = TRUE
  /\ UNCHANGED <<vol, archive, extracted, pos, ups, bootfail>>

(* download_and_extract.sh: cpio fails on an archive that is cut off.      *)
DownloadAndExtract ==
  /\ status["server"] = "running" /\ archive # NULL
  /\ archive.whole
  /\ extracted' = archive
  /\ UNCHANGED <<vol, archive, status, pos, ups, disturbed, bootfail>>

Progress ==
  \/ \E s \in Service : StartService(s)
  \/ \E s \in OneShot : Command(s) \/ CommandRefused(s)

Next ==
  \/ Up
  \/ \E s \in Service : StartService(s)
  \/ \E s \in OneShot : Command(s) \/ CommandRefused(s) \/ CommandFails(s) \/ Kill(s)
  \/ ServerStops
  \/ DownloadAndExtract

Spec == Init /\ [][Next]_vars

(* Containers that can start do, and commands come to an end.              *)
FairSpec == Spec /\ WF_vars(Progress)

-----------------------------------------------------------------------------
Library == {"none", "distro", "custom", "glibc", "xcrypt", "cut"}
Volume ==
  [base : {"none", "full", "cut"}, libc : Library, crypt : Library, oldlibc : Library,
   oldcrypt : Library, ld_conf : Seq({"new", "distro"}), conf : Seq({"new", "distro"}),
   link : {"none", "distro", "new", "cut"}, xdir : {"no", "yes"}, xlib : Library]

Archive == [whole : BOOLEAN, skipped : BOOLEAN, root : Volume]

(* The state has its type, and a service runs with all it depends on done. *)
TypeOK ==
  /\ vol \in Volume
  /\ archive \in Archive \cup {NULL} /\ extracted \in Archive \cup {NULL}
  /\ status \in [Service -> {"off", "waiting", "running", "ok", "failed"}]
  /\ \A s \in OneShot : status[s] = "running" => /\ pos \in 1..Len(Commands(s))
                                                 /\ \A d \in DependsOn(s) : status[d] = "ok"
  /\ pos \in Nat /\ ups \in 0..MaxUps /\ disturbed \in BOOLEAN /\ bootfail \in BOOLEAN

(* The libc in the directory the new loader prefers is never the           *)
(* distribution's, although glibc_install.sh copies that one into          *)
(* glibc-old and glibc-old over the directory: at no kill, failure or      *)
(* repetition of the script.                                               *)
NewLibcKept == vol.libc # "distro"

(* What the download tool extracts has the new libc and loader, first in   *)
(* ld.so.conf, and libxcrypt's libcrypt and not glibc's; the rest of it is *)
(* complete.  Two failures nobody notices: debootstrap's, and the one of   *)
(* find or cpio.                                                           *)
ExtractedComplete ==
  extracted # NULL /\ ~extracted.skipped =>
    /\ extracted.root.libc = "custom" /\ extracted.root.crypt = "xcrypt"
    /\ extracted.root.link = "new" /\ Head(extracted.root.conf) = "new"
    /\ extracted.root.base = "full" \/ bootfail

(* The archive does not change while it is served, although a later up     *)
(* leaves the server running and the packager truncates the file in place: *)
(* a repetition of the build ends at the mkdir of libxcrypt_builder.sh.    *)
ServedArchiveStays == [][status["server"] = "running" => archive' = archive]_vars

(* An up without faults ends with the server running, if the volume has a  *)
(* complete root file system or none, without the directory libxcrypt and  *)
(* with the link to the distribution's loader.                             *)
UpServes ==
  (/\ status["rootfs-builder"] = "waiting" /\ ~disturbed
   /\ vol.xdir = "no" /\ vol.base \in {"none", "full"} /\ ~bootfail
   /\ vol.link \in {"none", "distro"})
    ~> (status["server"] = "running" \/ disturbed)

=============================================================================
