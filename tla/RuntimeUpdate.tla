----------------------------- MODULE RuntimeUpdate -----------------------------
(***************************************************************************)
(* dysflow update (cli/commands/install): the runtime is overwritten in    *)
(* place, part by part, and only its package.json says which version is    *)
(* installed; a companion file pins the channel.  An update may fail or be *)
(* killed between two parts and two updates may run at once.               *)
(*                                                                         *)
(* "application" stands for dist, scripts and lockfile, "bundle" for the   *)
(* retained skills, the Pi facade, the docs and the launchers, "agents"    *)
(* for what is put into the agents' own directories (PointerRollout has    *)
(* the pointers).  A command that is refused changes nothing and is left   *)
(* out, and so is the system marker, which always gets the same value.     *)
(***************************************************************************)
EXTENDS Naturals, Sequences

CONSTANTS
    Updaters,          \* processes that run an update
    Channels,          \* "stable" and others
    RollingChannels,   \* channels without comparable versions
    MaxVersion,        \* bound on published versions
    MaxUpdateFaults,   \* bound on failing steps
    NoState,           \* no readable install state
    Mixed              \* a part of which only some files were copied

ASSUME UpdateAssumption ==
    /\ "stable" \in Channels /\ RollingChannels \subseteq Channels
    /\ MaxVersion \in Nat \ {0} /\ MaxUpdateFaults \in Nat

VARIABLES
    installed,      \* the build each part of the runtime comes from
    state,          \* the install state: the recorded channel and version
    latest,         \* the version that each channel offers
    updater,        \* the local state of each updater
    updateFaults,
    overlapping,    \* updaters that ran beside another
    broken,         \* an update failed half-way, overlapped or was run from another
                    \* package, and none has succeeded since
    guessed         \* the recorded channel was never compared with the bytes

updateVars == <<installed, state, latest, updater, updateFaults, overlapping, broken, guessed>>

Builds == [channel : Channels, version : 1..MaxVersion]

ASSUME BuildsAssumption == NoState \notin Builds /\ Mixed \notin Builds

\* Mutant of Steps: the dependencies are installed before the manifest is there.
StepsDependenciesFirst == <<"application", "dependencies", "manifest", "bundle", "agents">>

\* The order in which the parts are overwritten.
Steps == <<"application", "manifest", "dependencies", "bundle", "agents">>
PartNames == {Steps[i] : i \in DOMAIN Steps}

NoUpdate == [at |-> "idle", channel |-> "stable", force |-> FALSE, pin |-> NoState,
             version |-> 0, latest |-> 1, next |-> 1]
Over == {"idle", "updated", "current", "failed"}
Updating == {u \in Updaters : updater[u].at \notin Over}

\* What package.json says; 0 when it cannot be read.
InstalledVersion == IF installed["manifest"] = Mixed THEN 0 ELSE installed["manifest"].version

InOnePiece ==
    installed["manifest"] # Mixed /\ \A p \in PartNames : installed[p] = installed["manifest"]

UpdateFault == updateFaults < MaxUpdateFaults /\ updateFaults' = updateFaults + 1

\* An updater that is over keeps no local variables.
UpdaterBecomes(u, l) ==
    updater' = [updater EXCEPT ![u] = IF l.at \in Over THEN [NoUpdate EXCEPT !.at = l.at] ELSE l]

-----------------------------------------------------------------------------
\* A channel publishes its next version.
Publish(c) ==
    /\ latest[c] < MaxVersion
    /\ latest' = [latest EXCEPT ![c] = @ + 1]
    /\ UNCHANGED <<installed, state, updater, updateFaults, overlapping, broken, guessed>>

\* Mutant of ChannelPinAllows: a runtime may change its channel without --force.
ChannelPinOpen(channel, force) == TRUE

\* An update changes the recorded channel only with --force.
ChannelPinAllows(channel, force) ==
    force \/ state = NoState \/ (state # NoState /\ state.channel = channel)

\* The command line, or the environment, names a channel or leaves it open.
ResolvedChannel(requested) ==
    IF requested # "unset" THEN requested
    ELSE IF state # NoState THEN state.channel ELSE "stable"

\* The install state and package.json are read before the network is asked.
BeginUpdate(u) ==
    /\ updater[u].at = "idle"
    /\ \E requested \in Channels \cup {"unset"}, force \in BOOLEAN :
         LET channel == ResolvedChannel(requested) IN
         /\ ChannelPinAllows(channel, force)
         /\ UpdaterBecomes(u, [NoUpdate EXCEPT !.at = "resolving", !.channel = channel, !.force = force,
                                         !.pin = state, !.version = InstalledVersion])
    /\ overlapping' = IF Updating = {} THEN overlapping ELSE overlapping \cup Updating \cup {u}
    /\ broken' = (broken \/ Updating # {})
    /\ UNCHANGED <<installed, state, latest, updateFaults, guessed>>

UpdateNeeded(l, version) ==
    \/ l.channel \in RollingChannels
    \/ l.pin # NoState /\ l.pin.channel # l.channel
    \/ l.force
    \/ l.version = 0
    \/ version > l.version

\* The release is resolved, and when it is needed its package is prepared and
\* examined; nothing is written before all of that has succeeded.
ResolveRelease(u) ==
    LET l == updater[u]
        version == latest[l.channel]
    IN
    /\ l.at = "resolving"
    /\ \/ /\ UpdaterBecomes(u, [l EXCEPT !.latest = version,
                                   !.at = IF UpdateNeeded(l, version) THEN "copying" ELSE "refreshing"])
          /\ UNCHANGED updateFaults
       \/ UpdateFault /\ UpdaterBecomes(u, [l EXCEPT !.at = "failed"])
    /\ UNCHANGED <<installed, state, latest, overlapping, broken, guessed>>

\* The next part is overwritten; the dependencies are installed from the manifest
\* and the lockfile that are in the runtime by then.
CopyPart(u) ==
    LET l == updater[u]
        p == Steps[l.next]
        build == [channel |-> l.channel, version |-> l.latest]
    IN
    /\ l.at = "copying"
    /\ \/ /\ installed' = [installed EXCEPT ![p] = IF p = "dependencies" THEN installed["manifest"]
                                                                        ELSE build]
          /\ UpdaterBecomes(u, IF l.next < Len(Steps) THEN [l EXCEPT !.next = @ + 1]
                                               ELSE [l EXCEPT !.at = "recording"])
          /\ UNCHANGED <<updateFaults, broken>>
       \/ /\ UpdateFault
          /\ installed' \in {installed, [installed EXCEPT ![p] = Mixed]}
          /\ UpdaterBecomes(u, [l EXCEPT !.at = "failed"]) /\ broken' = TRUE
    /\ UNCHANGED <<state, latest, overlapping, guessed>>

\* Nothing newer: the agents get what the running package holds, which is the
\* installed one when the runtime's own launcher was used, or any other.
RefreshAgents(u) ==
    LET l == updater[u] IN
    /\ l.at = "refreshing"
    /\ \/ /\ installed' = [installed EXCEPT !["agents"] = installed["bundle"]]
          /\ UpdaterBecomes(u, [l EXCEPT !.at = "pinning"])
          /\ UNCHANGED <<updateFaults, broken>>
       \/ /\ \E build \in Builds : installed' = [installed EXCEPT !["agents"] = build]
          /\ UpdaterBecomes(u, [l EXCEPT !.at = "pinning"]) /\ broken' = TRUE
          /\ UNCHANGED updateFaults
       \/ /\ UpdateFault /\ installed' = [installed EXCEPT !["agents"] = Mixed]
          /\ UpdaterBecomes(u, [l EXCEPT !.at = "failed"]) /\ broken' = TRUE
    /\ UNCHANGED <<state, latest, overlapping, guessed>>

\* After an update the version is read from the disk again; otherwise it is the
\* one that was read at the start.
RecordedState(l) ==
    [channel |-> l.channel,
     version |-> IF l.at = "pinning" THEN l.version
                 ELSE IF InstalledVersion = 0 THEN l.latest ELSE InstalledVersion]

\* The state file is replaced by a rename, and the command returns.
RecordState(u) ==
    LET l == updater[u] IN
    /\ l.at \in {"recording", "pinning"}
    /\ \/ /\ state' = RecordedState(l)
          /\ UpdaterBecomes(u, [l EXCEPT !.at = IF @ = "recording" THEN "updated" ELSE "current"])
          /\ broken' = (broken /\ (l.at = "pinning" \/ u \in overlapping))
          /\ guessed' = IF l.at = "recording" THEN FALSE ELSE guessed \/ l.pin = NoState
          /\ UNCHANGED updateFaults
       \/ /\ UpdateFault /\ UpdaterBecomes(u, [l EXCEPT !.at = "failed"])
          /\ broken' = (broken \/ l.at = "recording")
          /\ UNCHANGED <<state, guessed>>
    /\ UNCHANGED <<installed, latest, overlapping>>

\* The process is killed, perhaps in the middle of a part.
UpdateKilled(u) ==
    LET l == updater[u]
        p == IF l.at = "copying" THEN Steps[l.next] ELSE "agents"
    IN
    /\ u \in Updating
    /\ installed' \in {installed} \cup (IF l.at \in {"copying", "refreshing"}
                                       THEN {[installed EXCEPT ![p] = Mixed]} ELSE {})
    /\ UpdaterBecomes(u, [l EXCEPT !.at = "failed"])
    /\ broken' = (broken \/ l.at \in {"copying", "refreshing", "recording"})
    /\ UNCHANGED <<state, latest, updateFaults, overlapping, guessed>>

-----------------------------------------------------------------------------
\* A whole stable runtime, installed with or before the install state.
UpdateInit ==
    LET build == [channel |-> "stable", version |-> 1] IN
    /\ installed = [p \in PartNames |-> build]
    /\ state \in {NoState, build}
    /\ latest = [c \in Channels |-> 1]
    /\ updater = [u \in Updaters |-> NoUpdate]
    /\ updateFaults = 0 /\ overlapping = {} /\ broken = FALSE /\ guessed = FALSE

UpdateNextOf(us) ==
    \E u \in us : \/ BeginUpdate(u) \/ ResolveRelease(u) \/ CopyPart(u)
                 \/ RefreshAgents(u) \/ RecordState(u) \/ UpdateKilled(u)

UpdateNext == (\E c \in Channels : Publish(c)) \/ UpdateNextOf(Updaters)

UpdateSpec == UpdateInit /\ [][UpdateNext]_updateVars

-----------------------------------------------------------------------------
\* The values the variables take.
UpdateTypeOK ==
    /\ installed \in [PartNames -> Builds \cup {Mixed}]
    /\ state \in Builds \cup {NoState}
    /\ latest \in [Channels -> 1..MaxVersion]
    /\ \A u \in Updaters :
         /\ updater[u].at \in Over \cup {"resolving", "copying", "refreshing", "recording", "pinning"}
         /\ updater[u].next \in DOMAIN Steps /\ updater[u].version \in 0..MaxVersion
    /\ updateFaults \in 0..MaxUpdateFaults /\ overlapping \subseteq Updaters

\* An update that reports an upgrade and ran alone has left every part of the
\* runtime, its dependencies included, at one build, and has recorded that build.
UpdatedIsWhole ==
    [][\A u \in Updaters \ overlapping :
          updater[u].at = "recording" /\ updater'[u].at = "updated"
            => InOnePiece' /\ state' = installed'["manifest"]]_updateVars

\* "Dysflow runtime is up to date" is said of a runtime in one piece, unless an
\* update was cut short, overlapped another or was run from another package:
\* package.json, which is copied second, is all that the next update looks at.
UpToDateIsExplained ==
    [][\A u \in Updaters :
          updater[u].at # "current" /\ updater'[u].at = "current" => InOnePiece' \/ broken]_updateVars

\* The install state "records which channel produced the bytes currently
\* installed", and their version, whenever no update is running, was cut short,
\* overlapped or was run from another package; a pin written for a runtime without one is only a guess.
RecordTellsBytes ==
    Updating = {} /\ ~broken /\ state # NoState =>
        /\ state.version = installed["manifest"].version
        /\ guessed \/ state.channel = installed["manifest"].channel

\* What the updater tells is what is installed: in the install state it leaves, in
\* "updated" and in "up to date".
UpdateHonest == [](UpdateTypeOK /\ RecordTellsBytes) /\ UpdatedIsWhole /\ UpToDateIsExplained

\* "A runtime stays on the channel it was installed from unless the operator says
\* otherwise": bytes of another channel than the recorded one are copied only by a
\* forced update, by one that is run from another package, beside another update or
\* after one that was cut short: the next update, "up to date" on the old channel,
\* spreads the other channel's bundle.
PinHeld ==
    [][\A p \in PartNames :
          installed'[p] # installed[p] /\ installed'[p] # Mixed /\ state # NoState
            => \/ installed'[p].channel = state.channel
               \/ broken \/ broken' \/ \E u \in Updating : updater[u].force]_updateVars
=============================================================================
