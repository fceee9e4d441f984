----------------------------- MODULE GuestPaths ------------------------------
(***************************************************************************)
(* PathResolver's string functions.  A path is whether it begins with "/"  *)
(* and the sequence of its segments; the empty string is the relative path *)
(* without segments.  Doubled and trailing slashes, which normalize_path   *)
(* skips, have no counterpart.  Of the characters of a segment only this   *)
(* matters: rfind(prefix, 0) compares characters, so the last segment of a *)
(* prefix also matches a longer name that begins with it (Extends).        *)
(* The last operators are the kernel's: how it follows symbolic links,     *)
(* which PathResolver does not know of.                                    *)
(***************************************************************************)
EXTENDS SequencesExt

CONSTANTS
    Rootfs,   \* the rootfs_path given to the constructor, as a path
    Extends   \* pairs <<long, short>> of different names where short begins long

Strings == [abs : BOOLEAN, segs : Seq(STRING)]

ASSUME RootfsAssumption == Rootfs \in Strings

Path(abs, segs) == [abs |-> abs, segs |-> segs]
EmptyPath       == Path(FALSE, <<>>)
Download        == <<"sdcard", "Download">>
StorageDownload == <<"storage", "emulated", "0", "Download">>

(* normalize_path: the result always begins with "/". *)
NormalizeStep(segments, s) ==
    IF s = "." THEN segments
    ELSE IF s = ".." THEN IF segments = <<>> THEN segments ELSE Front(segments)
    ELSE Append(segments, s)

normalize_path(p) ==
    LET upTo[n \in 0 .. Len(p.segs)] ==
            IF n = 0 THEN <<>> ELSE NormalizeStep(upTo[n - 1], p.segs[n])
    IN upTo[Len(p.segs)]

(* normalized.rfind(prefix, 0) == 0 for a prefix that begins with "/".     *)
BeginsWith(segs, prefix) ==
    \/ prefix = <<>>
    \/ /\ Len(segs) >= Len(prefix)
       /\ SubSeq(segs, 1, Len(prefix) - 1) = Front(prefix)
       /\ \/ segs[Len(prefix)] = Last(prefix)
          \/ <<segs[Len(prefix)], Last(prefix)>> \in Extends

(* A path that is already inside the rootfs is not prefixed again.         *)
(* Mutants: no path is inside; the path is judged before it is normalised. *)
InsideNever(full) == FALSE
InsideUnnormalised(full) == Rootfs.abs /\ BeginsWith(full, Rootfs.segs)
InRootfs(full) == Rootfs.abs /\ BeginsWith(normalize_path(Path(TRUE, full)), Rootfs.segs)

(* resolve, for a task whose get_cwd is cwd.                               *)
resolve(cwd, p) ==
    IF p = EmptyPath THEN Rootfs
    ELSE LET full == IF p.abs THEN p.segs ELSE cwd \o p.segs
             n    == normalize_path(Path(TRUE, full))
         IN IF BeginsWith(n, Download) \/ BeginsWith(n, StorageDownload)
            THEN Path(TRUE, Download)
            ELSE IF InRootfs(full) THEN Path(TRUE, n)
            ELSE Path(Rootfs.abs, Rootfs.segs \o n)

-----------------------------------------------------------------------------
(* A kernel goes from segment to segment as well, but follows the links it *)
(* meets: links gives the text of each by its name.  A relative text is    *)
(* read from the link's directory, an absolute one from the kernel's root. *)
LinkEnd(links, h) ==
    normalize_path(IF links[h].abs THEN links[h] ELSE Path(TRUE, Front(h) \o links[h].segs))

Follow(links, h) == IF h \in DOMAIN links THEN LinkEnd(links, h) ELSE h

Walk(links, start, segs) ==
    LET upTo[n \in 0 .. Len(segs)] ==
            IF n = 0 THEN start ELSE Follow(links, NormalizeStep(upTo[n - 1], segs[n]))
    IN upTo[Len(segs)]
=============================================================================
