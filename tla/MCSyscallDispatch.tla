-------------------------- MODULE MCSyscallDispatch --------------------------
(***************************************************************************)
(* SyscallDispatch for TLC.  The rootfs is /data/r with the directories /  *)
(* and /a in it, and the host has a /, a /a and a /data too.  Guest paths  *)
(* have up to two segments, or name the shared folder itself.  MCPathsOf   *)
(* and MCLinks keep to the paths and links for which the engine means to   *)
(* keep its promise; the README lists the others and what becomes of them. *)
(***************************************************************************)
EXTENDS SyscallDispatch

MCRootfs  == Path(TRUE, <<"data", "r">>)
MCHostCwd == <<"app">>
MCExtends == {<<"rx", "r">>, <<"DownloadX", "Download">>}
MCDirs    == {<<"data", "r">>, <<"data", "r", "a">>, <<>>, <<"a">>, <<"data">>}

(* Links whose texts are relative and stay in the rootfs: /l leads to /a,   *)
(* and /a/l to /b.                                                         *)
MCLinks == (<<"data", "r", "l">> :> Path(FALSE, <<"a">>)) @@
           (<<"data", "r", "a", "l">> :> Path(FALSE, <<"..", "b">>))

Absolute ==
    {Path(TRUE, s) : s \in (SeqOf({"a", "l", "..", "."}, 2) \ {<<"l", "..">>})
                            \cup {<<"b">>, <<"a", "b">>, Download, StorageDownload}}

Below == {Path(FALSE, s) : s \in {<<"a">>, <<"b">>, <<"l">>, <<"a", "..", "b">>}}

(* Directories that exist, spelled in several ways. *)
DirPaths == {Path(TRUE, s) : s \in {<<>>, <<"a">>, <<"a", "..">>, <<"..", "a">>}}

MCPathsOf ==
    [c \in Calls |->
        CASE c \in AtCalls -> Absolute
          [] c = "execve"  -> Absolute \cup Below
          [] c = "chdir"   -> DirPaths
          [] OTHER         -> {EmptyPath}]

(* Anything but a name that has the rootfs or the shared folder as a       *)
(* prefix of its characters only.                                          *)
Upwards == {Path(FALSE, s) : s \in {<<"..", "b">>, <<"..", "..", "a">>}}
Named   == {Path(TRUE, s) : s \in {Download \o <<"a">>, <<"data", "r", "a">>,
                                   <<"data", "r", "..", "b">>, <<"x">>, <<"x", "a">>,
                                   <<"y">>}}
WidePathsOf ==
    [c \in Calls |->
        CASE c \in AtCalls \cup Unrewritten -> DirPaths \cup Named
          [] c \in {"execve", "execveat", "chdir"} -> DirPaths \cup Named \cup Below \cup Upwards
          [] OTHER -> {EmptyPath}]

(* /x is a link with an absolute text, as patch_bionic_and_linker makes     *)
(* them, and /y one that climbs out of the rootfs.                         *)
WideLinks == (<<"data", "r", "x">> :> Path(TRUE, <<"apex">>)) @@
             (<<"data", "r", "y">> :> Path(FALSE, <<"..", "c">>))
WideDirs  == MCDirs \cup {<<"apex">>}
=============================================================================
