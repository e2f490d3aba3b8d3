------------------------------ MODULE Session ------------------------------
(***************************************************************************)
(* What the session commands of the host do to a person's directory and to *)
(* the record: `kelyfos run -workspace` with its write-back and its review *)
(* (host/run.go, host/review.go, internal/sandbox/workspace.go, diff.go),   *)
(* pause, resume, sessions rm, prune and erase (host/sessions.go).          *)
(*                                                                          *)
(* A directory, a disk image and a guest's page cache are the sets of the   *)
(* pieces of work in them.  The commands are separate processes on the same *)
(* files, and the person edits the directory whenever they like.            *)
(***************************************************************************)
EXTENDS Naturals

CONSTANTS
    Edits,       \* pieces of work the person may add to the host directory
    Writes,      \* pieces of work the agent may add to the workspace
    Base         \* what the directory holds at the start

ASSUME SessionAssumption ==
    Edits \cap Writes = {} /\ Base \notin Edits \cup Writes

\* The machines that hold a workspace image: the run, and one resume of it.
Machine == {"run", "resume"}
Work    == Edits \cup Writes \cup {Base}

VARIABLES
    host, hostHere,  \* the directory, and whether it is in place
    prev,            \* .kelyfos-previous
    outs,            \* the trees written beside the directory
    pc,              \* where each machine's command is
    disk, cache,     \* each image on the host, the guest's unflushed pages
    image,           \* which images exist
    manifest,        \* which images have their pack manifest beside them
    fp,              \* the fingerprint each write-back compares with
    tree, divert,    \* what is staged, and whether it goes beside
    note,            \* the shutdown was not confirmed
    pausedAs,        \* what the run's shutdown read from the marker
    marker,          \* the pause marker is in the run directory
    pauser,          \* where a pause is
    named,           \* the stored session: whether it is there and its disks
    chain,           \* the session's record: none, open, ended, erased, gone
    aged,            \* the record's last write is older than the floor
    lister,          \* what a prune read before it looks at each record
    \* History.
    flushed,         \* the agent's work that reached a disk
    edited,          \* the edits the person made
    exposed,         \* edits made where no later comparison can see them
    commits,         \* write-backs that replaced the directory
    badPrune         \* a prune deleted a record in use

dirs   == <<host, hostHere, prev, outs>>
images == <<disk, cache, image, manifest>>
stage  == <<fp, tree, divert>>
stored == <<marker, pauser, named>>
record == <<chain, aged, lister, badPrune>>
hist   == <<flushed, edited, exposed, commits>>
vars   == <<dirs, pc, images, stage, note, pausedAs, stored, record, hist>>

Absent == [here |-> FALSE, disk |-> {}, mem |-> {}]

TypeOK ==
    /\ {host, prev, outs, edited, exposed, flushed} \subseteq SUBSET Work
    /\ {hostHere, marker, aged, badPrune, pausedAs, note} \subseteq BOOLEAN
    /\ pc \in [Machine -> {"off", "packed", "up", "stopping", "stopped",
                           "staged", "checked", "aside", "placed", "ended"}]
    /\ {disk, cache, tree} \subseteq [Machine -> SUBSET Work]
    /\ fp \in [Machine -> SUBSET Work] /\ divert \in [Machine -> BOOLEAN]
    /\ image \subseteq Machine /\ manifest \subseteq Machine
    /\ pauser \in {"idle", "marked", "frozen", "stored"}
    /\ named \in [here : BOOLEAN, disk : SUBSET Work, mem : SUBSET Work]
    /\ chain \in {"none", "open", "ended", "erased", "gone"}
    /\ lister \in {"idle", "live", "free"}
    /\ commits \in Nat

Init ==
    /\ host = {Base} /\ hostHere = TRUE /\ prev = {} /\ outs = {}
    /\ pc = [m \in Machine |-> "off"]
    /\ disk = [m \in Machine |-> {}]
    /\ cache = disk /\ tree = disk /\ fp = disk
    /\ image = {} /\ manifest = {} /\ divert = [m \in Machine |-> FALSE]
    /\ note = FALSE /\ pausedAs = FALSE /\ marker = FALSE /\ pauser = "idle"
    /\ named = Absent
    /\ chain = "none" /\ aged = FALSE /\ lister = "idle"
    /\ flushed = {} /\ edited = {} /\ exposed = {}
    /\ commits = 0 /\ badPrune = FALSE

\* A command's next step; and its end, when what it had in hand is gone.
At(m, step) == pc' = [pc EXCEPT ![m] = step]
End(m) ==
    /\ At(m, "ended") /\ fp' = [fp EXCEPT ![m] = {}]
    /\ tree' = [tree EXCEPT ![m] = {}]
    /\ divert' = [divert EXCEPT ![m] = FALSE]

Running(m)  == pc[m] \in {"up", "stopping"}

---------------------------------------------------------------------------
(* The person and the agent.                                                *)

\* An edit made after the last comparison of a write-back is seen by none.
UserEdits(x) ==
    /\ hostHere /\ x \notin edited /\ edited' = edited \cup {x}
    /\ host' = host \cup {x}
    /\ exposed' = IF \E m \in Machine : pc[m] = "checked" /\ ~divert[m]
                  THEN exposed \cup {x} ELSE exposed
    /\ UNCHANGED <<hostHere, prev, outs, pc, images, stage, note, pausedAs,
                   stored, record, flushed, commits>>

AgentWrites(m, x) ==
    /\ Running(m) /\ x \notin disk[m] \cup cache[m]
    /\ cache' = [cache EXCEPT ![m] = @ \cup {x}]
    /\ UNCHANGED <<dirs, pc, disk, image, manifest, stage, note, pausedAs,
                   stored, record, hist>>

\* The guest's kernel writes back, or its shutdown does.
Flushed(m) ==
    /\ disk' = [disk EXCEPT ![m] = @ \cup cache[m]]
    /\ cache' = [cache EXCEPT ![m] = {}]
    /\ flushed' = flushed \cup cache[m]

GuestFlushes(m) ==
    /\ Running(m) /\ cache[m] # {} /\ Flushed(m)
    /\ UNCHANGED <<dirs, pc, image, manifest, stage, note, pausedAs, stored,
                   record, edited, exposed, commits>>

---------------------------------------------------------------------------
(* kelyfos run.                                                             *)

\* PackWorkspace: the image is made first, then the directory fingerprinted
\* and its manifest written; an edit between the two is in neither the image
\* nor a difference.
Pack ==
    /\ pc["run"] = "off" /\ At("run", "packed")
    /\ disk' = [disk EXCEPT !["run"] = host]
    /\ image' = image \cup {"run"}
    /\ UNCHANGED <<dirs, cache, manifest, stage, note, pausedAs, stored,
                   record, hist>>

Boot ==
    /\ pc["run"] = "packed" /\ At("run", "up")
    /\ fp' = [fp EXCEPT !["run"] = host]
    /\ exposed' = exposed \cup (host \ disk["run"])
    /\ manifest' = manifest \cup {"run"}
    /\ chain' = "open" /\ aged' = FALSE
    /\ UNCHANGED <<dirs, disk, cache, image, tree, divert, note, pausedAs,
                   stored, lister, badPrune, flushed, edited, commits>>

\* The run's deferred function reads the marker before it shuts down.
ReadMarker ==
    /\ pc["run"] = "up" /\ At("run", "stopping")
    /\ pausedAs' = marker
    /\ UNCHANGED <<dirs, images, stage, note, stored, record, hist>>

\* Shutdown of a machine with a workspace: flushed and confirmed; or refused
\* and killed, which leaves the note and what the disk had; or the machine
\* had died, when the image may come back empty.
Stopped(m) ==
    /\ At(m, "stopped")
    /\ \/ Flushed(m) /\ note' = (note /\ m # "run")
       \/ /\ cache' = [cache EXCEPT ![m] = {}] /\ note' = (m = "run" \/ note)
          /\ UNCHANGED <<disk, flushed>>
       \/ /\ disk' = [disk EXCEPT ![m] = {}]
          /\ cache' = [cache EXCEPT ![m] = {}]
          /\ flushed' = flushed \ disk[m] /\ note' = (note /\ m # "run")

\* Then session.end, unless the session was paused, and the run directory.
StopRun ==
    /\ pc["run"] = "stopping" /\ Stopped("run")
    /\ chain' = IF pausedAs THEN chain ELSE "ended"
    /\ aged' = (aged /\ pausedAs) /\ marker' = FALSE
    /\ UNCHANGED <<dirs, image, manifest, stage, pausedAs, pauser, named,
                   lister, badPrune, edited, exposed, commits>>

\* The command returns without writing back: paused, --no-sync-back, a note,
\* an image that cannot be listed or extracted.  The image is kept.
SkipWriteBack(m) ==
    /\ pc[m] = "stopped" /\ End(m)
    /\ UNCHANGED <<dirs, images, note, pausedAs, stored, record, hist>>

\* Mutant: an empty image is extracted whatever its manifest says.
MayStageAnything(m) == TRUE

\* An image that packed something and comes back empty is refused, if its
\* manifest is there to tell.
MayStage(m) == ~(disk[m] = {} /\ m \in manifest)

\* Stage: fingerprint, list, extract beside the directory.  A resume takes
\* its fingerprint here, when it adopts the image.
Stage(m) ==
    LET print == IF m = "resume" THEN host ELSE fp[m] IN
    /\ pc[m] = "stopped" /\ hostHere
    /\ m = "run" => ~pausedAs /\ ~note
    /\ MayStage(m)
    /\ At(m, "staged")
    /\ fp' = [fp EXCEPT ![m] = print]
    /\ exposed' = exposed \cup IF m = "resume" THEN host \ disk[m] ELSE {}
    /\ tree' = [tree EXCEPT ![m] = disk[m]]
    /\ divert' = [divert EXCEPT ![m] = host # print]
    /\ UNCHANGED <<dirs, images, note, pausedAs, stored, record, flushed,
                   edited, commits>>

\* --review: a yes goes on to Commit, anything else writes beside.
Review(m, yes) ==
    /\ m = "run" /\ pc[m] = "staged" /\ ~yes
    /\ At(m, "checked") /\ divert' = [divert EXCEPT ![m] = TRUE]
    /\ UNCHANGED <<dirs, images, fp, tree, note, pausedAs, stored, record,
                   hist>>

\* Mutant: Commit trusts the comparison Stage made.
CommitTrustsStage(m) ==
    /\ pc[m] = "staged" /\ At(m, "checked")
    /\ UNCHANGED <<dirs, images, stage, note, pausedAs, stored, record,
                   hist>>

\* Commit: the directory is compared once more.
CommitCheck(m) ==
    /\ pc[m] = "staged" /\ At(m, "checked")
    /\ divert' = [divert EXCEPT ![m] = @ \/ (hostHere /\ host # fp[m])]
    /\ UNCHANGED <<dirs, images, fp, tree, note, pausedAs, stored, record,
                   hist>>

\* The directory, if it is there, steps aside (its predecessor is removed
\* first), then the tree takes its name; a rename that fails puts it back.
CommitAside(m) ==
    /\ pc[m] = "checked" /\ ~divert[m] /\ At(m, "aside")
    /\ prev' = host /\ host' = {} /\ hostHere' = FALSE
    /\ commits' = commits + 1
    /\ UNCHANGED <<outs, images, stage, note, pausedAs, stored, record,
                   flushed, edited, exposed>>

CommitPlace(m) ==
    /\ pc[m] = "aside"
    /\ \/ /\ ~hostHere \/ host = {}
          /\ At(m, "placed") /\ host' = tree[m] /\ hostHere' = TRUE
          /\ UNCHANGED <<prev, stage>>
       \/ /\ End(m)
          /\ IF ~hostHere /\ prev # {}
             THEN host' = prev /\ prev' = {} /\ hostHere' = TRUE
             ELSE UNCHANGED <<host, prev, hostHere>>
    /\ UNCHANGED <<outs, images, note, pausedAs, stored, record, hist>>

CommitDiverted(m) ==
    /\ pc[m] = "checked" /\ divert[m]
    /\ \/ At(m, "placed") /\ outs' = outs \cup tree[m] /\ UNCHANGED stage
       \/ End(m) /\ UNCHANGED outs
    /\ UNCHANGED <<host, hostHere, prev, images, note, pausedAs, stored,
                   record, hist>>

\* Mutant: the image goes as soon as its tree is staged.
DropImageEarly(m) ==
    /\ pc[m] \in {"staged", "placed"} /\ m \in image
    /\ IF pc[m] = "placed" THEN End(m) ELSE UNCHANGED <<pc, stage>>
    /\ image' = image \ {m} /\ manifest' = manifest \ {m}
    /\ disk' = [disk EXCEPT ![m] = {}]
    /\ UNCHANGED <<dirs, cache, note, pausedAs, stored, record, hist>>

\* Only then is the image removed.
DropImage(m) ==
    /\ pc[m] = "placed" /\ End(m)
    /\ image' = image \ {m} /\ manifest' = manifest \ {m}
    /\ disk' = [disk EXCEPT ![m] = {}]
    /\ UNCHANGED <<dirs, cache, note, pausedAs, stored, record, hist>>

\* The command is killed: nothing of what it still had to do happens.
KillCommand(m) ==
    /\ pc[m] \notin {"off", "ended"} /\ End(m)
    /\ cache' = [cache EXCEPT ![m] = {}]
    /\ marker' = (marker /\ m # "run")
    /\ UNCHANGED <<dirs, disk, image, manifest, note, pausedAs, pauser,
                   named, record, hist>>

---------------------------------------------------------------------------
(* kelyfos pause, from another process.                                     *)

PauseMark ==
    /\ pauser = "idle" /\ Running("run") /\ ~named.here
    /\ pauser' = "marked" /\ marker' = TRUE
    /\ UNCHANGED <<dirs, pc, images, stage, note, pausedAs, named, record,
                   hist>>

\* SnapshotRunning: the machine is paused, its memory and its disks copied,
\* without the manifest, and it is resumed.
Frozen(m) == [here |-> TRUE, disk |-> disk[m], mem |-> cache[m]]

PauseFreeze ==
    /\ pauser = "marked" /\ Running("run")
    /\ pauser' = "frozen" /\ named' = [Frozen("run") EXCEPT !.here = FALSE]
    /\ UNCHANGED <<dirs, pc, images, stage, note, pausedAs, marker, record,
                   hist>>

\* The metadata makes the session one; then session.pause is recorded.
PauseStore ==
    /\ pauser = "frozen" /\ pauser' = "stored"
    /\ named' = [named EXCEPT !.here = TRUE]
    /\ aged' = (aged /\ chain = "gone")
    /\ UNCHANGED <<dirs, pc, images, stage, note, pausedAs, marker, chain,
                   lister, badPrune, hist>>

\* The guest is asked to halt: the run sees its machine end.  Or it does not.
PauseStop ==
    /\ pauser = "stored" /\ pauser' = "idle"
    /\ \/ pc["run"] = "up" /\ At("run", "stopping") /\ pausedAs' = marker
       \/ UNCHANGED <<pc, pausedAs>>
    /\ UNCHANGED <<dirs, images, stage, note, marker, named, record, hist>>

\* An error before the session is stored takes the marker away; a kill of the
\* pause leaves it.
PauseFails ==
    /\ pauser \in {"marked", "frozen"} /\ pauser' = "idle"
    /\ marker' \in {FALSE, marker}
    /\ UNCHANGED <<dirs, pc, images, stage, note, pausedAs, named, record,
                   hist>>

---------------------------------------------------------------------------
(* kelyfos resume, sessions rm.                                            *)

\* The name is read and its record opened; the machine is restored from the
\* stored disks; then the state record exists and session.resume is written.
Resume ==
    /\ named.here /\ pc["resume"] = "off" /\ At("resume", "packed")
    /\ disk' = [disk EXCEPT !["resume"] = named.disk]
    /\ cache' = [cache EXCEPT !["resume"] = named.mem]
    /\ image' = image \cup {"resume"}
    /\ UNCHANGED <<dirs, manifest, stage, note, pausedAs, stored, record, hist>>

Restored ==
    /\ pc["resume"] = "packed" /\ At("resume", "up") /\ aged' = FALSE
    /\ UNCHANGED <<dirs, images, stage, note, pausedAs, stored, chain, lister,
                   badPrune, hist>>

StopResume ==
    /\ pc["resume"] = "up" /\ Stopped("resume")
    /\ UNCHANGED <<dirs, image, manifest, stage, pausedAs, stored, record,
                   edited, exposed, commits>>

SessionsRemove ==
    /\ named.here /\ named' = Absent
    /\ UNCHANGED <<dirs, pc, images, stage, note, pausedAs, marker, pauser,
                   record, hist>>

---------------------------------------------------------------------------
(* kelyfos sessions prune and erase.                                        *)

HasRunDir == pc["run"] \in {"up", "stopping"}
IsRunning == HasRunDir \/ pc["resume"] = "up"

\* Long enough passes; a prune takes the time once.
Ages ==
    /\ chain \in {"open", "ended", "erased"} /\ ~aged /\ lister = "idle"
    /\ aged' = TRUE
    /\ UNCHANGED <<dirs, pc, images, stage, note, pausedAs, stored, chain,
                   lister, badPrune, hist>>

\* Mutant: only the machines that run protect a record.
PruneListsRunning ==
    /\ lister = "idle" /\ lister' = IF IsRunning THEN "live" ELSE "free"
    /\ UNCHANGED <<dirs, pc, images, stage, note, pausedAs, stored, chain,
                   aged, badPrune, hist>>

\* The paused sessions and the running machines, listed once.
PruneLists ==
    /\ lister = "idle"
    /\ lister' = IF named.here \/ IsRunning THEN "live" ELSE "free"
    /\ UNCHANGED <<dirs, pc, images, stage, note, pausedAs, stored, chain,
                   aged, badPrune, hist>>

\* Then each record: skipped if listed or if its run directory is there, or
\* if it is younger than the floor.
PruneEntry ==
    /\ lister # "idle" /\ lister' = "idle"
    /\ LET prunes == lister = "free" /\ ~HasRunDir /\ aged
                     /\ chain \in {"open", "ended", "erased"} IN
       /\ chain' = IF prunes THEN "gone" ELSE chain
       /\ aged' = (aged /\ ~prunes)
       /\ badPrune' = (badPrune \/ (prunes /\ (named.here \/ IsRunning)))
    /\ UNCHANGED <<dirs, pc, images, stage, note, pausedAs, stored, hist>>

\* A record that has ended and is in nobody's use (recorder.Erase asks for
\* session.end; the rewrite itself is FlightRecorder's).
Erase ==
    /\ chain = "ended" /\ ~named.here /\ ~IsRunning
    /\ chain' = "erased" /\ aged' = FALSE
    /\ UNCHANGED <<dirs, pc, images, stage, note, pausedAs, stored, lister,
                   badPrune, hist>>

---------------------------------------------------------------------------
WriteBack(m) ==
    \/ SkipWriteBack(m) \/ Stage(m) \/ Review(m, FALSE) \/ CommitCheck(m)
    \/ CommitAside(m) \/ CommitPlace(m) \/ CommitDiverted(m) \/ DropImage(m)

Next ==
    \/ \E x \in Edits : UserEdits(x)
    \/ \E m \in Machine, x \in Writes : AgentWrites(m, x)
    \/ \E m \in Machine : GuestFlushes(m) \/ WriteBack(m) \/ KillCommand(m)
    \/ Pack \/ Boot \/ ReadMarker \/ StopRun
    \/ PauseMark \/ PauseFreeze \/ PauseStore \/ PauseStop \/ PauseFails
    \/ Resume \/ Restored \/ StopResume \/ SessionsRemove
    \/ Ages \/ PruneLists \/ PruneEntry \/ Erase

Spec == Init /\ [][Next]_vars

---------------------------------------------------------------------------
(* Properties.                                                              *)

\* Everything the disks, the directories and the stored sessions hold.
OnDisk ==
    host \cup prev \cup outs
    \cup UNION {disk[m] : m \in Machine}

\* Work of the agent that reached a disk is never lost by the commands that
\* move it, whoever is killed in the middle: it is in the directory, beside
\* it, or in an image that was kept (run.go:514, workspace.go:282).
WorkKept == flushed \subseteq OnDisk

\* While at most one write-back replaces the directory, an edit of the person
\* stays in it or sends the results beside it: only an edit no comparison can
\* see is moved, and it is moved aside, not lost (workspace.go:249).
EditsStay ==
    commits <= 1 => /\ edited \subseteq host \cup prev
                    /\ hostHere => edited \ exposed \subseteq host

\* A run never replaces a directory by an image that lost everything
\* (workspace.go:187); a resume has no manifest to tell.
EmptyRefused == (hostHere /\ host = {}) => pc["resume"] # "off"

\* A prune deletes no record of a paused session or of a machine that still
\* writes to it, though it lists them before it looks at each record
\* (sessions.go:586).  A resume is covered by its name until it is up.
PruneSafe == ~badPrune

\* Neither a write-back nor a prune takes what a machine still has or never lost.
SessionSafe == TypeOK /\ EmptyRefused /\ PruneSafe

\* What the comments promise beyond that (workspace.go:96, sessions.go:1111):
\* an edit made while the session was paused stays in the directory.
PausedEditsStay == hostHere => edited \subseteq host

\* diff.go:89: the manifest travels, so an empty image is refused everywhere.
NeverEmptied == hostHere => host # {}

---------------------------------------------------------------------------
(* Inductive strengthenings, for SessionProofs.                             *)

\* The machine's command has not replaced the directory, nor given up.
Before(m) == pc[m] \in {"off", "packed", "up", "stopping", "stopped",
                        "staged", "checked"}

\* Each command replaces the directory at most once, so commits counts them.
Counted ==
    /\ \A m \in Machine : /\ Before(m) => commits <= 1
                          /\ pc[m] = "aside" => commits >= 1
    /\ (\A m \in Machine : Before(m)) => commits = 0
    /\ (\A m \in Machine : pc[m] = "aside") => commits >= 2

\* A directory that stepped aside left nothing under its name; what is staged
\* is what the image holds, until the image goes.
Arranged ==
    /\ ~hostHere => host = {}
    /\ \A m \in Machine :
         /\ pc[m] = "off" => disk[m] = {}
         /\ pc[m] \in {"staged", "checked", "aside", "placed"} =>
              tree[m] = disk[m]

\* The agent's work is in the directory only after a write-back, in the one
\* set aside only after two, and in none before its image is removed.
WorkTraced ==
    /\ flushed \cup named.mem \subseteq Writes
    /\ commits = 0 => host \cap Writes = {}
    /\ commits <= 1 => prev \cap Writes = {}
    /\ \A m \in Machine :
         /\ cache[m] \subseteq Writes
         /\ pc[m] = "placed" =>
              disk[m] \cap Writes \subseteq host \cup prev \cup outs

\* What a write-back compared with the directory is in its tree, or exposed.
Compared(m) ==
    /\ pc[m] \in {"staged", "checked"} => fp[m] \ tree[m] \subseteq exposed
    /\ commits = 0 /\ pc[m] = "checked" /\ ~divert[m] =>
         edited \ exposed \subseteq tree[m]
    /\ commits = 1 /\ pc[m] = "aside" =>
         ~hostHere /\ edited \ exposed \subseteq tree[m]

EditsTraced ==
    /\ commits = 0 => hostHere /\ edited \subseteq host
    /\ pc["run"] \in {"up", "stopping", "stopped"} =>
         \/ fp["run"] \ disk["run"] \subseteq exposed
         \/ pc["run"] = "stopped" /\ disk["run"] = {}
    /\ \A m \in Machine : Compared(m)

\* The run's manifest is beside its image from the boot to the write-back.
Witnessed ==
    /\ pc["run"] \in {"up", "stopping", "stopped"} => "run" \in manifest
    /\ pc["run"] \in {"staged", "checked", "aside"} => tree["run"] # {}

\* A prune that saw nobody meets a record in use only while it is young.
YoungWhenUsed ==
    /\ aged => chain \in {"open", "ended", "erased"}
    /\ lister = "free" /\ (named.here \/ pc["resume"] = "up") => ~aged
=============================================================================
