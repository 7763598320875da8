--------------------------- MODULE UpdateArtifact ---------------------------
(***************************************************************************)
(* How the file that updates a host is found and handed on: the daemon     *)
(* picks it from a release's assets by name, checks it against the         *)
(* checksum list and its signature, and names its kind; the desktop        *)
(* application passes the kind on as a word, the applier reads the word    *)
(* back and runs the installer for it.                                     *)
(*                                                                         *)
(* An asset's name is its extension and the words it holds on the          *)
(* architecture; the signature and the checksum list are assets as well.   *)
(***************************************************************************)
EXTENDS Naturals

\* Bound: a release has at most two packages.

VARIABLES
  platform, format,     \* of the build that runs
  assets,               \* the packages of the release: extension and architecture word
  signed, summed,       \* those with a signature asset, those in SHA256SUMS
  step,                 \* where the update is
  picked, kind, word,   \* the asset chosen, its kind, the word handed to the applier
  installer             \* what the applier runs

vars == <<platform, format, assets, signed, summed, step, picked, kind, word, installer>>

Extensions == {"app.tar.gz", "deb", "pkg.tar.zst", "rpm", "dmg"}
Words == {"AppleSilicon", "x86_64", "Arm64", "amd64", "none"}
NoAsset == <<"none", "none">>

\* The words of a name that the case-insensitive tests read as arm64.
Lowered(w) == IF w = "Arm64" THEN "arm64" ELSE w

is_macos_aarch64_artifact(a) == a[1] = "app.tar.gz" /\ a[2] \in {"AppleSilicon", "aarch64", "arm64"}

IsX86(a, extension) == a[1] = extension /\ a[2] \in {"x86_64", "amd64"}

IsArm(a, extension) == a[1] = extension /\ Lowered(a[2]) \in {"aarch64", "arm64"}

Extension(f) == CASE f = "deb" -> "deb" [] f = "pacman" -> "pkg.tar.zst" [] f = "rpm" -> "rpm"

Matches(a) ==
    CASE platform = "macos arm" -> is_macos_aarch64_artifact(a)
      [] platform = "linux x86" -> IsX86(a, Extension(format))
      [] platform = "linux arm" -> IsArm(a, Extension(format))
      [] OTHER -> FALSE

ArtifactKind == IF platform = "macos arm" THEN "AppTarGz" ELSE
    CASE format = "deb" -> "Deb" [] format = "pacman" -> "Pacman" [] format = "rpm" -> "Rpm"

Init ==
    /\ platform \in {"macos arm", "macos x86", "linux x86", "linux arm", "other"}
    /\ format \in {"deb", "pacman", "rpm"}
    /\ assets \in {{}} \cup {{a, b} : a \in Extensions \X Words, b \in Extensions \X Words}
    /\ signed \in {{}, assets} /\ summed \in {{}, assets}
    /\ step = "select" /\ picked = NoAsset /\ kind = "none" /\ word = "none" /\ installer = "none"

Stop == step' = "stopped" /\ UNCHANGED <<picked, kind>>

\* select_asset: an artifact for the platform and format, with a signature and a list of sums.
select_asset ==
    /\ step = "select"
    /\ \/ \E a \in assets :
            /\ Matches(a) /\ a \in signed /\ summed # {}
            /\ picked' = a /\ kind' = ArtifactKind /\ step' = "verify"
       \/ (\/ ~\E a \in assets : Matches(a)
           \/ signed = {} \/ summed = {}) /\ Stop
    /\ UNCHANGED <<platform, format, assets, signed, summed, word, installer>>

\* verify_sha256 and verify_minisign: the bytes are what the list and the signature say, or
\* nothing is staged.
Verify ==
    /\ step = "verify"
    /\ (picked \in summed /\ step' = "staged") \/ step' = "stopped"
    /\ UNCHANGED <<platform, format, assets, signed, summed, picked, kind, word, installer>>

staged_kind_str ==
    CASE kind = "AppTarGz" -> "app_tar_gz" [] kind = "Deb" -> "deb"
      [] kind = "Pacman" -> "pacman" [] kind = "Rpm" -> "rpm"

\* The desktop application's hand-over, in the environment of the applier.
HandOver ==
    /\ step = "staged" /\ word' = staged_kind_str /\ step' = "applier"
    /\ UNCHANGED <<platform, format, assets, signed, summed, picked, kind, installer>>

\* `orcker update` runs the applier in its own process.
InProcess ==
    /\ step = "staged" /\ step' = "run"
    /\ UNCHANGED <<platform, format, assets, signed, summed, picked, kind, word, installer>>

\* run_from_env reads the word back, or gives up.
run_from_env ==
    /\ step = "applier"
    /\ kind' = (CASE word = "deb" -> "Deb" [] word = "pacman" -> "Pacman" [] word = "rpm" -> "Rpm"
                  [] word = "app_tar_gz" -> "AppTarGz" [] OTHER -> "none")
    /\ step' = IF kind' = "none" THEN "stopped" ELSE "run"
    /\ UNCHANGED <<platform, format, assets, signed, summed, picked, word, installer>>

\* run, on macOS: the bundle is swapped.
apply_macos ==
    /\ step = "run" /\ kind = "AppTarGz" /\ step' \in {"done", "stopped"}
    /\ installer' = IF step' = "done" THEN "swap" ELSE "none"
    /\ UNCHANGED <<platform, format, assets, signed, summed, picked, kind, word>>

\* run, on Linux: the applier executes itself again as root, under an argument for the
\* format; the user may decline.  The copy that runs as root knows the argument alone.
Reexecute(k, argument) ==
    /\ step = "run" /\ kind = k /\ word' = argument /\ step' \in {"elevated", "stopped"}
    /\ UNCHANGED <<platform, format, assets, signed, summed, picked, kind, installer>>
apply_linux == Reexecute("Deb", "__install-deb")
apply_linux_pacman == Reexecute("Pacman", "__install-pacman")
apply_linux_rpm == Reexecute("Rpm", "__install-rpm")

\* It reads and verifies the staged file again and gives it to the package tool, which may
\* refuse it.
Install(argument, tool) ==
    /\ step = "elevated" /\ word = argument /\ step' \in {"done", "stopped"}
    /\ installer' = IF step' = "done" THEN tool ELSE "none"
    /\ UNCHANGED <<platform, format, assets, signed, summed, picked, kind, word>>
elevated_install_deb == Install("__install-deb", "dpkg")
elevated_install_pacman == Install("__install-pacman", "pacman")
elevated_install_rpm == Install("__install-rpm", "rpm")

Next ==
    \/ select_asset \/ Verify \/ HandOver \/ InProcess \/ run_from_env \/ apply_macos
    \/ apply_linux \/ apply_linux_pacman \/ apply_linux_rpm
    \/ elevated_install_deb \/ elevated_install_pacman \/ elevated_install_rpm

Spec == Init /\ [][Next]_vars

\* ---------------------------------------------------------------- properties
TypeOK == picked \in assets \cup {NoAsset}

\* What each installer can take, and each platform can run.
Takes(i) == CASE i = "swap" -> "app.tar.gz" [] i = "dpkg" -> "deb"
              [] i = "pacman" -> "pkg.tar.zst" [] i = "rpm" -> "rpm"
RunsOn(w) == CASE w \in {"x86_64", "amd64"} -> {"linux x86", "macos x86"}
               [] w \in {"AppleSilicon"} -> {"macos arm"}
               [] w = "Arm64" -> {"linux arm", "macos arm"} [] OTHER -> {}

\* Through four programs' naming of it, the file installed is one the installer takes and
\* the host runs; and a release that has such a package, signed and summed, is not refused
\* for want of one under the names the release workflow gives.
FittingInstaller ==
    /\ step = "done" => picked[1] = Takes(installer) /\ platform \in RunsOn(picked[2])
    /\ (step = "stopped" /\ picked = NoAsset /\ signed # {} /\ summed # {} /\ platform = "linux arm")
         => <<Extension(format), "Arm64">> \notin assets
============================================================================
