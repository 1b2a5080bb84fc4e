---------------------------- MODULE IdentityFile ----------------------------
(***************************************************************************)
(* create_identity_file (python/seam_sdk/identity.py): processes race to   *)
(* create the bootstrap file of an agent at one path, while others load    *)
(* it, any system call may fail, a process may be killed and the machine   *)
(* may lose power.  Each attempt generates a new identity, writes it to a  *)
(* sibling temp file, fsyncs it, publishes it with a hard link, unlinks    *)
(* the temp name and fsyncs the directory.                                 *)
(*                                                                         *)
(* The file system is external: a hard link fails when the name exists;    *)
(* after a power loss data that was not fsynced may be truncated, and a    *)
(* directory entry made since the last fsync of the directory may be gone. *)
(* Off POSIX _fsync_dir does nothing.                                      *)
(***************************************************************************)
EXTENDS Naturals

CONSTANTS
    Creators,     \* the processes that call create_identity_file
    BodySize,     \* writes a file body takes (os.write may write a part)
    MaxFiles,     \* bound on the temp files ever opened
    MaxPowerLoss  \* bound on power losses

ASSUME SizesAssumption ==
    BodySize \in Nat \ {0} /\ MaxFiles \in Nat /\ MaxPowerLoss \in Nat

Files == 1..MaxFiles

VARIABLES
    pc,        \* creator -> control point
    file,      \* creator -> the inode of its temp file, 0 before it is open
    opened,    \* how many inodes were ever created; they are 1..opened
    written,   \* inode -> how much of the body it holds
    synced,    \* the inodes whose data is on disk
    tmp,       \* the inodes whose temp name exists
    path,      \* the inode that the final path names, 0 when it does not exist
    durable,   \* path has been fsynced in its directory
    winners,   \* history: the inodes whose creator returned
    losses,    \* history: power losses so far
    posix      \* the platform: os.name = "posix"

fileVars == <<pc, file, opened, written, synced, tmp, path, durable, winners, losses, posix>>

\* "leaked": os.unlink itself failed, so the temp name stays.
Ended == {"returned", "raised", "leaked", "killed"}
PCs == {"idle", "write", "sync", "link", "unlinkPublished", "unlinkFailed", "syncDir"}
         \cup Ended

FileTypeOK ==
    /\ pc \in [Creators -> PCs]
    /\ file \in [Creators -> Files \cup {0}]
    /\ opened \in 0..MaxFiles
    /\ written \in [Files -> 0..BodySize]
    /\ synced \subseteq Files
    /\ tmp \subseteq Files
    /\ path \in Files \cup {0}
    /\ durable \in BOOLEAN
    /\ winners \subseteq Files
    /\ losses \in 0..MaxPowerLoss
    /\ posix \in BOOLEAN

FileInit ==
    /\ pc = [c \in Creators |-> "idle"]
    /\ file = [c \in Creators |-> 0]
    /\ opened = 0
    /\ written = [f \in Files |-> 0]
    /\ synced = {}
    /\ tmp = {}
    /\ path = 0
    /\ durable = FALSE
    /\ winners = {}
    /\ losses = 0
    /\ posix \in BOOLEAN

GoTo(c, l) == pc' = [pc EXCEPT ![c] = l]

\* The call begins: a fresh identity and a temp file of a random name, O_EXCL.
OpenTmp(c) ==
    /\ pc[c] = "idle"
    /\ opened < MaxFiles
    /\ opened' = opened + 1
    /\ file' = [file EXCEPT ![c] = opened + 1]
    /\ tmp' = tmp \cup {opened + 1}
    /\ GoTo(c, "write")
    /\ UNCHANGED <<written, synced, path, durable, winners, losses, posix>>

\* The temp file cannot be opened.
OpenFails(c) ==
    /\ pc[c] = "idle"
    /\ GoTo(c, "raised")
    /\ UNCHANGED <<file, opened, written, synced, tmp, path, durable, winners, losses, posix>>

\* os.write writes at least a part; the loop ends when the view is empty.
Write(c) ==
    /\ pc[c] = "write"
    /\ \E n \in (written[file[c]] + 1)..BodySize :
        /\ written' = [written EXCEPT ![file[c]] = n]
        /\ GoTo(c, IF n = BodySize THEN "sync" ELSE "write")
    /\ UNCHANGED <<file, opened, synced, tmp, path, durable, winners, losses, posix>>

\* fchmod, write or fsync fails: close, unlink the temp name, raise.
WriteFails(c) ==
    /\ pc[c] \in {"write", "sync"}
    /\ GoTo(c, "unlinkFailed")
    /\ UNCHANGED <<file, opened, written, synced, tmp, path, durable, winners, losses, posix>>

\* Faulty variant: the file is published without os.fsync.
SyncSkipped(c) ==
    /\ pc[c] = "sync"
    /\ GoTo(c, "link")
    /\ UNCHANGED <<file, opened, written, synced, tmp, path, durable, winners, losses, posix>>

\* os.fsync(fd), then os.close(fd).
Sync(c) ==
    /\ pc[c] = "sync"
    /\ synced' = synced \cup {file[c]}
    /\ GoTo(c, "link")
    /\ UNCHANGED <<file, opened, written, tmp, path, durable, winners, losses, posix>>

\* A hard link can be made: nothing exists at the final path.
PathFree == path = 0

\* os.link(tmp, final).
Link(c) ==
    /\ pc[c] = "link"
    /\ PathFree
    /\ path' = file[c]
    /\ durable' = FALSE
    /\ GoTo(c, "unlinkPublished")
    /\ UNCHANGED <<file, opened, written, synced, tmp, winners, losses, posix>>

\* os.link is refused because the path exists, or fails for another reason.
LinkFails(c) ==
    /\ pc[c] = "link"
    /\ GoTo(c, "unlinkFailed")
    /\ UNCHANGED <<file, opened, written, synced, tmp, path, durable, winners, losses, posix>>

\* Faulty variant: the temp name is unlinked on success only.
UnlinkSkippedOnFailure(c) ==
    /\ pc[c] \in {"unlinkPublished", "unlinkFailed"}
    /\ tmp' = IF pc[c] = "unlinkPublished" THEN tmp \ {file[c]} ELSE tmp
    /\ GoTo(c, IF pc[c] = "unlinkPublished" THEN "syncDir" ELSE "raised")
    /\ UNCHANGED <<file, opened, written, synced, path, durable, winners, losses, posix>>

\* The finally block: os.unlink(tmp); then _fsync_dir, or the error goes on.
Unlink(c) ==
    /\ pc[c] \in {"unlinkPublished", "unlinkFailed"}
    /\ tmp' = tmp \ {file[c]}
    /\ GoTo(c, IF pc[c] = "unlinkPublished" THEN "syncDir" ELSE "raised")
    /\ UNCHANGED <<file, opened, written, synced, path, durable, winners, losses, posix>>

\* os.unlink fails: its error is raised, also when the file was published.
UnlinkFails(c) ==
    /\ pc[c] \in {"unlinkPublished", "unlinkFailed"}
    /\ GoTo(c, "leaked")
    /\ UNCHANGED <<file, opened, written, synced, tmp, path, durable, winners, losses, posix>>

\* Faulty variant: create_identity_file returns before the directory is fsynced.
SyncDirSkipped(c) ==
    /\ pc[c] = "syncDir"
    /\ winners' = winners \cup {file[c]}
    /\ GoTo(c, "returned")
    /\ UNCHANGED <<file, opened, written, synced, tmp, path, durable, losses, posix>>

\* _fsync_dir, which returns at once off POSIX; then return (path, aid).
SyncDir(c) ==
    /\ pc[c] = "syncDir"
    /\ durable' = (durable \/ posix)
    /\ winners' = winners \cup {file[c]}
    /\ GoTo(c, "returned")
    /\ UNCHANGED <<file, opened, written, synced, tmp, path, losses, posix>>

\* _fsync_dir fails: the error is raised although the file is published.
SyncDirFails(c) ==
    /\ pc[c] = "syncDir"
    /\ posix
    /\ GoTo(c, "raised")
    /\ UNCHANGED <<file, opened, written, synced, tmp, path, durable, winners, losses, posix>>

\* A process is killed inside the call.
Kill(c) ==
    /\ pc[c] \notin Ended \cup {"idle"}
    /\ GoTo(c, "killed")
    /\ UNCHANGED <<file, opened, written, synced, tmp, path, durable, winners, losses, posix>>

\* The application calls create_identity_file again.
CallAgain(c) ==
    /\ pc[c] \in {"raised", "leaked", "killed"}
    /\ GoTo(c, "idle")
    /\ file' = [file EXCEPT ![c] = 0]
    /\ UNCHANGED <<opened, written, synced, tmp, path, durable, winners, losses, posix>>

\* Power is lost and comes back: every process is gone, what was not fsynced may
\* be gone too, and what is found now is on disk.
PowerLoss ==
    /\ losses < MaxPowerLoss
    /\ losses' = losses + 1
    /\ pc' = [c \in Creators |-> IF pc[c] \in Ended \cup {"idle"} THEN pc[c] ELSE "killed"]
    /\ \E kept \in [Files -> 0..BodySize] :
        /\ \A f \in Files : kept[f] <= written[f] /\ (f \in synced => kept[f] = written[f])
        /\ written' = kept
    /\ tmp' \in SUBSET (1..opened)
    /\ path' \in IF durable THEN {path} ELSE {path, 0}
    /\ durable' = (path' # 0)
    /\ synced' = 1..opened
    /\ UNCHANGED <<file, opened, winners, posix>>

Call(c) ==
    \/ OpenTmp(c) \/ OpenFails(c) \/ Write(c) \/ WriteFails(c) \/ Sync(c) \/ Link(c)
    \/ LinkFails(c) \/ Unlink(c) \/ UnlinkFails(c) \/ SyncDir(c) \/ SyncDirFails(c)

FileNext == PowerLoss \/ \E c \in Creators : Call(c) \/ Kill(c) \/ CallAgain(c)

FileSpec == FileInit /\ [][FileNext]_fileVars

-------------------------------------------------------------------------------
(* Properties. *)

\* A reader of the path never finds a partial file: not while creators race, not
\* after a kill, not after a power loss at any point.
NeverPartial == path # 0 => written[path] = BodySize

\* An existing file is never replaced: the path changes only from absent, or by a
\* power loss that undoes a publication nobody has been told of on POSIX.
NeverClobbers ==
    [][path' # path =>
          path = 0 \/ (losses' # losses /\ (path \in winners => ~posix))]_fileVars

\* Once create_identity_file has returned, its file is at the path for good, on
\* POSIX a power loss included; so of all racing creators at most one ever
\* returns.  Elsewhere that holds until the first power loss.
SuccessIsDurable ==
    \A f \in winners : (posix => path = f /\ durable) /\ (losses = 0 => path = f)

\* A call that ended on its own has removed its temp name, whatever step failed
\* (only a failure of the unlink itself leaves it behind).
NoTempLeft ==
    losses = 0 =>
        \A c \in Creators : pc[c] \in {"returned", "raised"} => file[c] \notin tmp
=============================================================================
