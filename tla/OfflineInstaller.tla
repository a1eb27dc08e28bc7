------------------------- MODULE OfflineInstaller -------------------------
(***************************************************************************)
(* Offline admission of an adapter archive (adapters_v1/offline_installer):*)
(* several operator processes publish the same digest into one content-    *)
(* addressed cache. An action is one file-system call, or the pure checks  *)
(* between two; a process may die at any of them.                          *)
(***************************************************************************)
EXTENDS Integers, FiniteSets

CONSTANTS
    Installers,     \* processes
    ArchiveForms,   \* [bytes, safe, typed, matches]: what an operator may supply
    Nobody

ASSUME NobodyAssumption == Nobody \notin Installers

VARIABLES
    installer,  \* process -> its position, the archive it holds, whether it made the target
    cache       \* [lock, target, payload, inventory] of the digest; who wrote each

installerVars == <<installer, cache>>

InstallerInit ==
    /\ installer = [p \in Installers |-> [pc |-> "start", archive |-> Nobody, reserved |-> FALSE]]
    /\ cache = [lock |-> Nobody, target |-> Nobody, payload |-> Nobody, inventory |-> Nobody]

Goto(p, pc) == installer' = [installer EXCEPT ![p].pc = pc]

\* _safe_member, _scan_zip, _scan_tar and the limits: relative paths that stay
\* inside, no collisions, links or special files, bounded sizes and ratios.
SafeMembers(archive) == archive.safe

\* The bytes are read once; nothing is read from the path again.
VerifyArchive(p, archive) ==
    /\ installer[p].pc = "start"
    /\ installer' = [installer EXCEPT ![p] =
            [pc |-> IF archive.bytes = "expected" /\ SafeMembers(archive) /\ archive.typed
                    THEN "verified" ELSE "held",
             archive |-> archive, reserved |-> FALSE]]
    /\ UNCHANGED cache

\* A target that is already there is not trusted.
CheckCache(p) ==
    /\ installer[p].pc = "verified"
    /\ Goto(p, IF cache.target = Nobody THEN "locking" ELSE "held")
    /\ UNCHANGED cache

\* O_CREAT | O_EXCL
TakeLock(p) ==
    /\ installer[p].pc = "locking"
    /\ IF cache.lock = Nobody
       THEN cache' = [cache EXCEPT !.lock = p] /\ Goto(p, "extracting")
       ELSE UNCHANGED cache /\ Goto(p, "held")

\* Into a temporary directory of its own; a member may prove unreadable.
Extract(p) ==
    /\ installer[p].pc = "extracting"
    /\ \E ok \in BOOLEAN : Goto(p, IF ok THEN "extracted" ELSE "failing")
    /\ UNCHANGED cache

\* mkdir never replaces.
Reserve(p) ==
    /\ installer[p].pc = "extracted"
    /\ IF cache.target = Nobody
       THEN /\ cache' = [cache EXCEPT !.target = p]
            /\ installer' = [installer EXCEPT ![p].pc = "reserved", ![p].reserved = TRUE]
       ELSE UNCHANGED cache /\ Goto(p, "failing")

MovePayload(p) ==
    /\ installer[p].pc = "reserved"
    /\ cache' = [cache EXCEPT !.payload = p]
    /\ Goto(p, "moved")

\* The declared executable and manifest are hashed where they now are.
CheckBinding(p) ==
    /\ installer[p].pc = "moved"
    /\ Goto(p, IF installer[p].archive.matches THEN "bound" ELSE "failing")
    /\ UNCHANGED cache

WriteInventory(p) ==
    /\ installer[p].pc = "bound"
    /\ cache' = [cache EXCEPT !.inventory = p]
    /\ Goto(p, "written")

\* Mutant: a failed installer removes the target whoever made it.
DiscardedAnyway(p) ==
    [lock |-> cache.lock, target |-> Nobody, payload |-> Nobody, inventory |-> Nobody]

\* What a failed process takes away: its own target, if it made it.
Discarded(p) ==
    IF installer[p].reserved
    THEN [lock |-> cache.lock, target |-> Nobody, payload |-> Nobody, inventory |-> Nobody]
    ELSE cache

Discard(p) ==
    /\ installer[p].pc = "failing"
    /\ cache' = Discarded(p)
    /\ Goto(p, "discarded")

\* finally: the lock goes last, whatever happened.
Unlock(p) ==
    /\ installer[p].pc \in {"written", "discarded"}
    /\ cache' = [cache EXCEPT !.lock = Nobody]
    /\ Goto(p, IF installer[p].pc = "written" THEN "installed" ELSE "held")

\* The process dies; what it left on disk stays.
InstallerDies(p) ==
    /\ installer[p].pc \notin {"start", "held", "installed", "dead"}
    /\ Goto(p, "dead")
    /\ UNCHANGED cache

InstallerNext ==
    \E p \in Installers :
        \/ \E a \in ArchiveForms : VerifyArchive(p, a)
        \/ CheckCache(p) \/ TakeLock(p) \/ Extract(p) \/ Reserve(p) \/ MovePayload(p)
        \/ CheckBinding(p) \/ WriteInventory(p) \/ Discard(p) \/ Unlock(p)
        \/ InstallerDies(p)

InstallerSpec == InstallerInit /\ [][InstallerNext]_installerVars

-----------------------------------------------------------------------------
\* What a process reports as installed stays in the cache, is its own, and was
\* checked against its typed binding; an inventory is never seen beside a
\* payload another process wrote or one whose binding does not hold
\* (offline_installer 241: the loser of a race must leave the winner's files).
InstalledStays ==
    /\ \A p \in Installers : installer[p].pc = "installed" =>
            /\ cache.target = p /\ cache.payload = p /\ cache.inventory = p
            /\ installer[p].archive.matches /\ installer[p].archive.bytes = "expected"
    /\ cache.inventory # Nobody =>
            cache.payload = cache.inventory /\ installer[cache.inventory].archive.matches
=============================================================================
