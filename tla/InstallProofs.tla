---------------------------- MODULE InstallProofs ----------------------------
(***************************************************************************)
(* Theorems about dysflow update: what RuntimeUpdate records and says of   *)
(* the runtime it overwrites, and what PointerRollout does to the user's   *)
(* instruction files.                                                      *)
(***************************************************************************)
EXTENDS RuntimeUpdate, PointerRollout, TLAPS

-----------------------------------------------------------------------------
(* The update of the runtime.                                              *)

Locals ==
    [at : Over \cup {"resolving", "copying", "refreshing", "recording", "pinning"},
     channel : Channels, force : BOOLEAN, pin : Builds \cup {NoState},
     version : 0..MaxVersion, latest : 1..MaxVersion, next : 1..5]

\* The runtime counts as current only when its version could be read, and the
\* copying starts with the first part.
LocalsFit ==
    \A u \in Updaters :
        /\ updater[u].at \in {"refreshing", "pinning"} => updater[u].version # 0
        /\ updater[u].at = "resolving" => updater[u].next = 1

\* The types, with the whole local state of each updater.
UpdateTypes ==
    /\ installed \in [PartNames -> Builds \cup {Mixed}]
    /\ state \in Builds \cup {NoState}
    /\ latest \in [Channels -> 1..MaxVersion]
    /\ updater \in [Updaters -> Locals]
    /\ updateFaults \in 0..MaxUpdateFaults /\ overlapping \subseteq Updaters
    /\ broken \in BOOLEAN /\ guessed \in BOOLEAN

\* The build that u installs.
BuildOf(u) == [channel |-> updater[u].channel, version |-> updater[u].latest]

\* An updater that ran beside no other is the only one, one that overlapped has
\* begun, and while nothing is broken nobody who runs has overlapped.
AloneIsAlone ==
    /\ \A u \in Updating : u \notin overlapping => Updating = {u}
    /\ \A u \in overlapping : updater[u].at # "idle"
    /\ ~broken => Updating \cap overlapping = {}

\* What an updater that runs alone has copied so far is its build.
CopiedSoFar ==
    \A u \in Updating \ overlapping :
        /\ updater[u].at = "copying" =>
             \A i \in 1..5 : i < updater[u].next => installed[Steps[i]] = BuildOf(u)
        /\ updater[u].at = "recording" =>
             \A p \in PartNames : installed[p] = BuildOf(u)

\* The install state fits the bytes: the version, and the channel unless guessed.
RecordFits ==
    state # NoState =>
        /\ state.version = installed["manifest"].version
        /\ guessed \/ state.channel = installed["manifest"].channel

\* While nothing is broken, the runtime is in one piece and its record fits,
\* but for the time in which it is overwritten.
WholeUnlessCopying ==
    ~broken /\ (\A u \in Updating : updater[u].at \notin {"copying", "recording"})
        => InOnePiece /\ RecordFits

\* While nothing is broken, what an updater read when it began still holds, and
\* its channel is the recorded one, or is forced.
ReadBy(u) ==
    /\ updater[u].pin = state
    /\ updater[u].force \/ state = NoState \/ state.channel = updater[u].channel
    /\ updater[u].at \in {"resolving", "refreshing", "pinning"} =>
         updater[u].version = installed["manifest"].version
    /\ updater[u].at \in {"refreshing", "pinning"} =>
         state = NoState \/ state.channel = updater[u].channel
ReadIsCurrent == ~broken => \A u \in Updating : ReadBy(u)

UpdateInv ==
    /\ UpdateTypes /\ LocalsFit /\ AloneIsAlone
    /\ CopiedSoFar /\ WholeUnlessCopying /\ ReadIsCurrent

(* The order of the parts, written out.                                    *)
LEMMA StepOrder ==
  /\ Len(Steps) = 5 /\ DOMAIN Steps = 1..5
  /\ Steps[1] = "application" /\ Steps[2] = "manifest" /\ Steps[3] = "dependencies"
  /\ Steps[4] = "bundle" /\ Steps[5] = "agents"
  /\ PartNames = {"application", "manifest", "dependencies", "bundle", "agents"}
<1>1. /\ Len(Steps) = 5 /\ DOMAIN Steps = 1..5
      /\ Steps[1] = "application" /\ Steps[2] = "manifest" /\ Steps[3] = "dependencies"
      /\ Steps[4] = "bundle" /\ Steps[5] = "agents"
  BY DEF Steps
<1>2. PartNames = {Steps[i] : i \in 1..5}
  BY <1>1 DEF PartNames
<1> QED
  BY <1>1, <1>2

(* An updater that does nothing has local state.                           *)
LEMMA NoUpdateLocals == NoUpdate \in Locals
<1>1. 0 \in 0..MaxVersion /\ 1 \in 1..MaxVersion /\ 1 \in 1..5 /\ "stable" \in Channels
  BY UpdateAssumption
<1> QED
  BY <1>1 DEF NoUpdate, Locals, Over

(* What UpdaterBecomes does to the local states.                           *)
LEMMA BecomesLocals ==
  ASSUME updater \in [Updaters -> Locals], NEW u \in Updaters, NEW l \in Locals,
         UpdaterBecomes(u, l)
  PROVE  /\ updater' \in [Updaters -> Locals]
         /\ updater'[u].at = l.at
         /\ l.at \notin Over => updater'[u] = l
         /\ \A v \in Updaters : v # u => updater'[v] = updater[v]
<1>1. [NoUpdate EXCEPT !.at = l.at] \in Locals
  BY NoUpdateLocals DEF Locals
<1>2. [NoUpdate EXCEPT !.at = l.at].at = l.at
  BY DEF NoUpdate
<1> QED
  BY <1>1, <1>2 DEF UpdaterBecomes

(* The types are kept, and each step changes at most one updater.          *)
LEMMA UpdateTypesNext ==
  ASSUME UpdateTypes, LocalsFit, [UpdateNext]_updateVars PROVE UpdateTypes'
<1> USE UpdateAssumption, BuildsAssumption DEF UpdateTypes
<1>1. ASSUME NEW c \in Channels, Publish(c) PROVE UpdateTypes'
  BY <1>1 DEF Publish
<1>2. ASSUME NEW u \in Updaters, BeginUpdate(u) PROVE UpdateTypes'
  <2>1. PICK requested \in Channels \cup {"unset"}, force \in BOOLEAN :
          UpdaterBecomes(u, [NoUpdate EXCEPT !.at = "resolving",
             !.channel = ResolvedChannel(requested), !.force = force,
             !.pin = state, !.version = InstalledVersion])
    BY <1>2 DEF BeginUpdate
  <2>2. ResolvedChannel(requested) \in Channels
    BY DEF ResolvedChannel, Builds
  <2>3. InstalledVersion \in 0..MaxVersion
    BY StepOrder DEF InstalledVersion, Builds
  <2>4. [NoUpdate EXCEPT !.at = "resolving",
             !.channel = ResolvedChannel(requested), !.force = force,
             !.pin = state, !.version = InstalledVersion] \in Locals
    BY <2>2, <2>3, NoUpdateLocals DEF Locals
  <2>5. updater' \in [Updaters -> Locals]
    BY <2>1, <2>4, BecomesLocals
  <2>6. broken' \in BOOLEAN
    BY <1>2 DEF BeginUpdate
  <2> QED
    BY <1>2, <2>5, <2>6 DEF BeginUpdate, Updating
<1>3. ASSUME NEW u \in Updaters, ResolveRelease(u) PROVE UpdateTypes'
  <2> DEFINE l == updater[u]
  <2>1. l \in Locals
    OBVIOUS
  <2>2. latest[l.channel] \in 1..MaxVersion
    BY DEF Locals
  <2>3. /\ [l EXCEPT !.latest = latest[l.channel], !.at = "copying"] \in Locals
        /\ [l EXCEPT !.latest = latest[l.channel], !.at = "refreshing"] \in Locals
        /\ [l EXCEPT !.at = "failed"] \in Locals
    BY <2>1, <2>2 DEF Locals, Over
  <2>4. updater' \in [Updaters -> Locals]
    BY <1>3, <2>3, BecomesLocals DEF ResolveRelease
  <2> QED
    BY <1>3, <2>4 DEF ResolveRelease, UpdateFault
<1>4. ASSUME NEW u \in Updaters, CopyPart(u) PROVE UpdateTypes'
  <2> DEFINE l == updater[u]
  <2>1. l \in Locals
    OBVIOUS
  <2>2. /\ l.next < 5 => [l EXCEPT !.next = @ + 1] \in Locals
        /\ [l EXCEPT !.at = "recording"] \in Locals /\ [l EXCEPT !.at = "failed"] \in Locals
        /\ BuildOf(u) \in Builds
    BY <2>1 DEF Locals, Over, BuildOf, Builds
  <2>3. updater' \in [Updaters -> Locals]
    BY <1>4, <2>2, BecomesLocals, StepOrder DEF CopyPart
  <2>4. installed' \in [PartNames -> Builds \cup {Mixed}]
    BY <1>4, <2>2, StepOrder DEF CopyPart, BuildOf
  <2>5. broken' \in BOOLEAN
    BY <1>4 DEF CopyPart
  <2> QED
    BY <1>4, <2>3, <2>4, <2>5 DEF CopyPart, UpdateFault
<1>5. ASSUME NEW u \in Updaters, RefreshAgents(u) PROVE UpdateTypes'
  <2> DEFINE l == updater[u]
  <2>1. [l EXCEPT !.at = "pinning"] \in Locals /\ [l EXCEPT !.at = "failed"] \in Locals
    BY DEF Locals, Over
  <2>2. updater' \in [Updaters -> Locals]
    BY <1>5, <2>1, BecomesLocals DEF RefreshAgents
  <2>3. installed' \in [PartNames -> Builds \cup {Mixed}]
    BY <1>5, StepOrder DEF RefreshAgents
  <2>4. broken' \in BOOLEAN
    BY <1>5 DEF RefreshAgents
  <2> QED
    BY <1>5, <2>2, <2>3, <2>4 DEF RefreshAgents, UpdateFault
<1>6. ASSUME NEW u \in Updaters, RecordState(u) PROVE UpdateTypes'
  <2> DEFINE l == updater[u]
  <2>1. /\ [l EXCEPT !.at = "updated"] \in Locals /\ [l EXCEPT !.at = "failed"] \in Locals
        /\ [l EXCEPT !.at = "current"] \in Locals
    BY DEF Locals, Over
  <2>2. updater' \in [Updaters -> Locals]
    BY <1>6, <2>1, BecomesLocals DEF RecordState
  <2>3. l.at = "pinning" => l.version \in 1..MaxVersion
    BY DEF LocalsFit, Locals
  <2>4. state' \in Builds \cup {NoState}
    <3>1. InstalledVersion \in 0..MaxVersion /\ l.channel \in Channels /\ l.latest \in 1..MaxVersion
      BY StepOrder DEF InstalledVersion, Builds, Locals
    <3>2. RecordedState(l) \in Builds
      BY <2>3, <3>1 DEF RecordedState, Builds
    <3> QED
      BY <1>6, <3>2 DEF RecordState
  <2>5. broken' \in BOOLEAN /\ guessed' \in BOOLEAN
    BY <1>6 DEF RecordState
  <2>6. updateFaults' \in 0..MaxUpdateFaults
    <3>1. UNCHANGED updateFaults \/ UpdateFault
      BY <1>6, Zenon DEF RecordState
    <3> QED
      BY <3>1 DEF UpdateFault
  <2>7. UNCHANGED <<installed, latest, overlapping>>
    BY <1>6 DEF RecordState
  <2> QED
    BY <2>2, <2>4, <2>5, <2>6, <2>7
<1>7. ASSUME NEW u \in Updaters, UpdateKilled(u) PROVE UpdateTypes'
  <2> DEFINE l == updater[u]
  <2>1. [l EXCEPT !.at = "failed"] \in Locals
    BY DEF Locals, Over
  <2>2. updater' \in [Updaters -> Locals]
    BY <1>7, <2>1, BecomesLocals DEF UpdateKilled
  <2>3. installed' \in [PartNames -> Builds \cup {Mixed}]
    BY <1>7, StepOrder DEF UpdateKilled
  <2>4. broken' \in BOOLEAN
    BY <1>7 DEF UpdateKilled
  <2> QED
    BY <1>7, <2>2, <2>3, <2>4 DEF UpdateKilled
<1>8. CASE UNCHANGED updateVars
  BY <1>8 DEF updateVars
<1> QED
  BY <1>1, <1>2, <1>3, <1>4, <1>5, <1>6, <1>7, <1>8 DEF UpdateNext, UpdateNextOf

(* What u was asked for, and what it read when it began, stays.            *)
Keeps(u) ==
    /\ updater'[u].channel = updater[u].channel /\ updater'[u].force = updater[u].force
    /\ updater'[u].pin = updater[u].pin /\ updater'[u].version = updater[u].version

(* What a step makes of the local state of the updater that takes it.      *)
LEMMA ResolveReleaseLocals ==
  ASSUME UpdateTypes, NEW u \in Updaters, ResolveRelease(u)
  PROVE  LET l == updater[u]
             version == latest[l.channel]
         IN  /\ l.at = "resolving"
             /\ \/ /\ UpdateNeeded(l, version)
                   /\ updater'[u].at = "copying" /\ updater'[u].next = l.next /\ Keeps(u)
                \/ /\ ~UpdateNeeded(l, version)
                   /\ updater'[u].at = "refreshing" /\ Keeps(u)
                \/ updater'[u].at = "failed"
             /\ \A v \in Updaters : v # u => updater'[v] = updater[v]
<1> DEFINE l == updater[u]
           version == latest[l.channel]
           needed == [l EXCEPT !.latest = version, !.at = "copying"]
           current == [l EXCEPT !.latest = version, !.at = "refreshing"]
           failed == [l EXCEPT !.at = "failed"]
<1>1. l \in Locals /\ version \in 1..MaxVersion
  BY DEF UpdateTypes, Locals
<1>2. /\ needed \in Locals /\ needed.at = "copying"
      /\ current \in Locals /\ current.at = "refreshing"
      /\ failed \in Locals /\ failed.at = "failed"
  BY <1>1 DEF Locals, Over
<1>3. /\ l.at = "resolving"
      /\ \/ UpdateNeeded(l, version) /\ UpdaterBecomes(u, needed)
         \/ ~UpdateNeeded(l, version) /\ UpdaterBecomes(u, current)
         \/ UpdaterBecomes(u, failed)
  BY DEF ResolveRelease
<1> HIDE DEF needed, current, failed
<1>4. updater \in [Updaters -> Locals] /\ "copying" \notin Over /\ "refreshing" \notin Over
  BY DEF UpdateTypes, Over
<1>5. /\ \A v \in Updaters : v # u => updater'[v] = updater[v]
      /\ \/ UpdateNeeded(l, version) /\ updater'[u] = needed
         \/ ~UpdateNeeded(l, version) /\ updater'[u] = current
         \/ updater'[u].at = "failed"
  BY <1>2, <1>3, <1>4, BecomesLocals
<1> QED
  BY <1>1, <1>3, <1>5 DEF needed, current, Keeps, Locals

LEMMA CopyPartLocals ==
  ASSUME UpdateTypes, NEW u \in Updaters, CopyPart(u)
  PROVE  LET l == updater[u] IN
         /\ l.at = "copying"
         /\ \/ /\ l.next < 5 /\ updater'[u].next = l.next + 1 /\ updater'[u].at = "copying"
               /\ Keeps(u) /\ updater'[u].latest = l.latest
            \/ /\ l.next = 5 /\ updater'[u].at = "recording"
               /\ Keeps(u) /\ updater'[u].latest = l.latest
            \/ updater'[u].at = "failed" /\ broken' = TRUE
         /\ updater'[u].at # "failed" =>
              /\ broken' = broken
              /\ installed' = [installed EXCEPT ![Steps[l.next]] =
                    IF Steps[l.next] = "dependencies" THEN installed["manifest"] ELSE BuildOf(u)]
         /\ \A v \in Updaters : v # u => updater'[v] = updater[v]
<1> DEFINE l == updater[u]
           further == [l EXCEPT !.next = @ + 1]
           copied == [l EXCEPT !.at = "recording"]
           failed == [l EXCEPT !.at = "failed"]
           put == installed' = [installed EXCEPT ![Steps[l.next]] =
                    IF Steps[l.next] = "dependencies" THEN installed["manifest"] ELSE BuildOf(u)]
<1>1. l \in Locals /\ l.next \in 1..5
  BY DEF UpdateTypes, Locals
<1>2. /\ l.next < 5 => further \in Locals /\ further.at = l.at
      /\ copied \in Locals /\ copied.at = "recording"
      /\ failed \in Locals /\ failed.at = "failed"
  BY <1>1 DEF Locals, Over
<1>3. /\ l.at = "copying"
      /\ \/ l.next < 5 /\ UpdaterBecomes(u, further) /\ broken' = broken /\ put
         \/ ~(l.next < 5) /\ UpdaterBecomes(u, copied) /\ broken' = broken /\ put
         \/ UpdaterBecomes(u, failed) /\ broken' = TRUE
  BY StepOrder DEF CopyPart, BuildOf
<1> HIDE DEF further, copied, failed, put
<1>4. updater \in [Updaters -> Locals] /\ "copying" \notin Over /\ "recording" \notin Over
  BY DEF UpdateTypes, Over
<1>5. /\ \A v \in Updaters : v # u => updater'[v] = updater[v]
      /\ \/ l.next < 5 /\ updater'[u] = further /\ broken' = broken /\ put
         \/ l.next = 5 /\ updater'[u] = copied /\ broken' = broken /\ put
         \/ updater'[u].at = "failed" /\ broken' = TRUE
  BY <1>1, <1>2, <1>3, <1>4, BecomesLocals
<1> QED
  BY <1>1, <1>3, <1>5 DEF further, copied, put, Keeps, Locals

LEMMA RefreshAgentsLocals ==
  ASSUME UpdateTypes, NEW u \in Updaters, RefreshAgents(u)
  PROVE  LET l == updater[u] IN
         /\ l.at = "refreshing"
         /\ \/ /\ updater'[u].at = "pinning" /\ Keeps(u) /\ broken' = broken
               /\ installed' = [installed EXCEPT !["agents"] = installed["bundle"]]
            \/ updater'[u].at \in {"pinning", "failed"} /\ broken' = TRUE
         /\ updater'[u].at = "pinning" => Keeps(u)
         /\ \A v \in Updaters : v # u => updater'[v] = updater[v]
<1> DEFINE l == updater[u]
           refreshed == [l EXCEPT !.at = "pinning"]
           failed == [l EXCEPT !.at = "failed"]
<1>1. l \in Locals /\ updater \in [Updaters -> Locals] /\ "pinning" \notin Over
  BY DEF UpdateTypes, Over
<1>2. /\ refreshed \in Locals /\ refreshed.at = "pinning"
      /\ failed \in Locals /\ failed.at = "failed"
  BY <1>1 DEF Locals, Over
<1>3. /\ l.at = "refreshing"
      /\ \/ /\ UpdaterBecomes(u, refreshed) /\ broken' = broken
            /\ installed' = [installed EXCEPT !["agents"] = installed["bundle"]]
         \/ UpdaterBecomes(u, refreshed) /\ broken' = TRUE
         \/ UpdaterBecomes(u, failed) /\ broken' = TRUE
  BY DEF RefreshAgents
<1> HIDE DEF refreshed, failed
<1>4. /\ \A v \in Updaters : v # u => updater'[v] = updater[v]
      /\ \/ /\ updater'[u] = refreshed /\ broken' = broken
            /\ installed' = [installed EXCEPT !["agents"] = installed["bundle"]]
         \/ updater'[u] = refreshed /\ broken' = TRUE
         \/ updater'[u].at = "failed" /\ broken' = TRUE
  BY <1>1, <1>2, <1>3, BecomesLocals
<1> QED
  BY <1>1, <1>2, <1>3, <1>4 DEF refreshed, Keeps, Locals

LEMMA RecordStateLocals ==
  ASSUME UpdateTypes, NEW u \in Updaters, RecordState(u)
  PROVE  LET l == updater[u] IN
         /\ \/ l.at = "recording" /\ updater'[u].at = "updated" /\ state' = RecordedState(l)
               /\ (~broken' => ~broken \/ u \notin overlapping) /\ guessed' = FALSE
            \/ l.at = "pinning" /\ updater'[u].at = "current" /\ state' = RecordedState(l)
               /\ broken' = broken /\ (guessed \/ l.pin = NoState => guessed')
            \/ l.at \in {"recording", "pinning"} /\ updater'[u].at = "failed"
               /\ state' = state /\ guessed' = guessed
               /\ (~broken' => ~broken /\ l.at = "pinning")
         /\ \A v \in Updaters : v # u => updater'[v] = updater[v]
<1> DEFINE l == updater[u]
           updated == [l EXCEPT !.at = "updated"]
           current == [l EXCEPT !.at = "current"]
           failed == [l EXCEPT !.at = "failed"]
<1>1. l \in Locals /\ updater \in [Updaters -> Locals] /\ broken \in BOOLEAN /\ guessed \in BOOLEAN
  BY DEF UpdateTypes
<1>2. /\ updated \in Locals /\ updated.at = "updated"
      /\ current \in Locals /\ current.at = "current"
      /\ failed \in Locals /\ failed.at = "failed"
  BY <1>1 DEF Locals, Over
<1>3. /\ l.at \in {"recording", "pinning"}
      /\ \/ /\ UpdaterBecomes(u, [l EXCEPT !.at = IF @ = "recording" THEN "updated" ELSE "current"])
            /\ state' = RecordedState(l)
            /\ broken' = (broken /\ (l.at = "pinning" \/ u \in overlapping))
            /\ guessed' = IF l.at = "recording" THEN FALSE ELSE guessed \/ l.pin = NoState
         \/ /\ UpdaterBecomes(u, failed) /\ state' = state /\ guessed' = guessed
            /\ broken' = (broken \/ l.at = "recording")
  BY Zenon DEF RecordState
<1>4. [l EXCEPT !.at = IF @ = "recording" THEN "updated" ELSE "current"]
        = IF l.at = "recording" THEN updated ELSE current
  BY <1>1 DEF Locals
<1> HIDE DEF updated, current, failed
<1>5. \/ /\ l.at = "recording" /\ UpdaterBecomes(u, updated) /\ state' = RecordedState(l)
         /\ (~broken' => ~broken \/ u \notin overlapping) /\ guessed' = FALSE
      \/ /\ l.at = "pinning" /\ UpdaterBecomes(u, current) /\ state' = RecordedState(l)
         /\ broken' = broken /\ (guessed \/ l.pin = NoState => guessed')
      \/ /\ l.at \in {"recording", "pinning"} /\ UpdaterBecomes(u, failed)
         /\ state' = state /\ guessed' = guessed
         /\ (~broken' => ~broken /\ l.at = "pinning")
  <2>1. CASE l.at = "recording"
    BY <1>1, <1>3, <1>4, <2>1
  <2>2. CASE l.at = "pinning"
    BY <1>1, <1>3, <1>4, <2>2
  <2> QED
    BY <1>3, <2>1, <2>2
<1>6. /\ UpdaterBecomes(u, updated) => updater'[u].at = "updated"
      /\ UpdaterBecomes(u, current) => updater'[u].at = "current"
      /\ UpdaterBecomes(u, failed) => updater'[u].at = "failed"
      /\ \A v \in Updaters : v # u => updater'[v] = updater[v]
  BY <1>1, <1>2, <1>5, BecomesLocals
<1> QED
  BY <1>5, <1>6

LEMMA UpdateKilledLocals ==
  ASSUME UpdateTypes, NEW u \in Updaters, UpdateKilled(u)
  PROVE  /\ u \in Updating /\ updater'[u].at = "failed"
         /\ ~broken' => ~broken /\ updater[u].at \notin {"copying", "refreshing", "recording"}
         /\ \A v \in Updaters : v # u => updater'[v] = updater[v]
<1> DEFINE failed == [updater[u] EXCEPT !.at = "failed"]
<1>1. failed \in Locals /\ failed.at = "failed" /\ updater \in [Updaters -> Locals]
  BY DEF UpdateTypes, Locals, Over
<1>2. UpdaterBecomes(u, failed) /\ u \in Updating
  BY DEF UpdateKilled
<1>3. broken' = (broken \/ updater[u].at \in {"copying", "refreshing", "recording"})
  BY Zenon DEF UpdateKilled
<1> HIDE DEF failed
<1> QED
  BY <1>1, <1>2, <1>3, BecomesLocals

(* LocalsFit: ResolveRelease takes a version that cannot be read for    *)
(* one that needs an update.                                               *)
LEMMA LocalsFitNext ==
  ASSUME UpdateTypes, LocalsFit, [UpdateNext]_updateVars PROVE LocalsFit'
<1> USE DEF UpdateTypes, LocalsFit
<1>1. ASSUME NEW u \in Updaters, BeginUpdate(u) PROVE LocalsFit'
  BY <1>1 DEF BeginUpdate, UpdaterBecomes, NoUpdate, Over
<1>2. ASSUME NEW u \in Updaters, ResolveRelease(u) PROVE LocalsFit'
  BY <1>2, ResolveReleaseLocals DEF UpdateNeeded, Keeps
<1>3. ASSUME NEW u \in Updaters, CopyPart(u) PROVE LocalsFit'
  BY <1>3, CopyPartLocals
<1>4. ASSUME NEW u \in Updaters, RefreshAgents(u) PROVE LocalsFit'
  BY <1>4, RefreshAgentsLocals DEF Keeps
<1>5. ASSUME NEW u \in Updaters, RecordState(u) PROVE LocalsFit'
  BY <1>5, RecordStateLocals
<1>6. ASSUME NEW u \in Updaters, UpdateKilled(u) PROVE LocalsFit'
  BY <1>6, UpdateKilledLocals
<1>7. ASSUME UNCHANGED updater PROVE LocalsFit'
  BY <1>7
<1> QED
  BY <1>1, <1>2, <1>3, <1>4, <1>5, <1>6, <1>7
  DEF UpdateNext, UpdateNextOf, Publish, updateVars

(* A running updater moves on or comes to its end, and the others stay.    *)
Moves(u) ==
    /\ u \in Updating
    /\ updater' \in [Updaters -> Locals] /\ updater'[u].at # "idle"
    /\ \A v \in Updaters \ {u} : updater'[v] = updater[v]
    /\ overlapping' = overlapping

(* The updaters that are running after such a step.                        *)
LEMMA MovesUpdating ==
  ASSUME UpdateTypes, NEW u \in Updaters, Moves(u)
  PROVE  /\ updater'[u].at \in Over => Updating' = Updating \ {u}
         /\ updater'[u].at \notin Over => Updating' = Updating
BY DEF Moves, Updating

(* Such a step leaves an updater alone that was alone.                     *)
LEMMA MovesAlone ==
  ASSUME UpdateTypes, AloneIsAlone, NEW u \in Updaters, Moves(u),
         ~broken' => ~broken \/ Updating' = {}
  PROVE  AloneIsAlone'
<1>1. Updating' = Updating \/ Updating' = Updating \ {u}
  BY MovesUpdating
<1>2. ASSUME NEW v \in Updating', v \notin overlapping' PROVE Updating' = {v}
  BY <1>1, <1>2 DEF AloneIsAlone, Moves
<1>3. ASSUME NEW v \in overlapping' PROVE updater'[v].at # "idle"
  BY <1>3 DEF AloneIsAlone, Moves, UpdateTypes
<1>4. ASSUME ~broken' PROVE Updating' \cap overlapping' = {}
  BY <1>1, <1>4 DEF AloneIsAlone, Moves
<1> QED
  BY <1>2, <1>3, <1>4 DEF AloneIsAlone

(* The steps that move an updater, in these terms.                         *)
LEMMA StepsMove ==
  ASSUME UpdateTypes, LocalsFit, NEW u \in Updaters,
         ResolveRelease(u) \/ CopyPart(u) \/ RefreshAgents(u) \/ RecordState(u) \/ UpdateKilled(u)
  PROVE  Moves(u)
<1>1. updater' \in [Updaters -> Locals]
  BY UpdateTypesNext DEF UpdateNext, UpdateNextOf, UpdateTypes
<1>2. u \in Updating
  BY DEF Updating, Over, ResolveRelease, CopyPart, RefreshAgents, RecordState, UpdateKilled
<1>3. updater'[u].at # "idle" /\ \A v \in Updaters \ {u} : updater'[v] = updater[v]
  <2>1. CASE ResolveRelease(u)
    BY <2>1, ResolveReleaseLocals
  <2>2. CASE CopyPart(u)
    BY <2>2, CopyPartLocals
  <2>3. CASE RefreshAgents(u)
    BY <2>3, RefreshAgentsLocals
  <2>4. CASE RecordState(u)
    BY <2>4, RecordStateLocals
  <2>5. CASE UpdateKilled(u)
    BY <2>5, UpdateKilledLocals
  <2> QED
    BY <2>1, <2>2, <2>3, <2>4, <2>5
<1>4. overlapping' = overlapping
  BY DEF ResolveRelease, CopyPart, RefreshAgents, RecordState, UpdateKilled
<1> QED
  BY <1>1, <1>2, <1>3, <1>4 DEF Moves

(* An update that begins beside another breaks, and else is alone.         *)
LEMMA BeginUpdateInv ==
  ASSUME UpdateInv, UpdateTypes', LocalsFit', NEW u \in Updaters, BeginUpdate(u)
  PROVE  UpdateInv'
<1> USE DEF UpdateInv
<1>1. PICK requested \in Channels \cup {"unset"}, force \in BOOLEAN :
        /\ ChannelPinAllows(ResolvedChannel(requested), force)
        /\ UpdaterBecomes(u, [NoUpdate EXCEPT !.at = "resolving",
             !.channel = ResolvedChannel(requested), !.force = force,
             !.pin = state, !.version = InstalledVersion])
  BY DEF BeginUpdate
<1>2. /\ updater'[u].at = "resolving" /\ updater'[u].pin = state
      /\ updater'[u].channel = ResolvedChannel(requested) /\ updater'[u].force = force
      /\ updater'[u].version = InstalledVersion
      /\ \A v \in Updaters : v # u => updater'[v] = updater[v]
  BY <1>1 DEF UpdaterBecomes, UpdateTypes, NoUpdate, Over
<1>3. updater[u].at = "idle" /\ u \notin Updating /\ u \notin overlapping
  BY DEF BeginUpdate, Updating, Over, AloneIsAlone
<1>4. Updating' = Updating \cup {u}
  BY <1>2 DEF Updating, Over
<1>5. UNCHANGED <<installed, state, guessed>>
  BY DEF BeginUpdate
<1>6. CASE Updating = {}
  <2>1. overlapping' = overlapping /\ Updating' = {u} /\ broken' = broken
    <3>1. broken' = (broken \/ Updating # {})
      BY Zenon DEF BeginUpdate
    <3> QED
      BY <1>4, <1>6, <3>1 DEF BeginUpdate, UpdateTypes
  <2>2. AloneIsAlone'
    BY <1>2, <1>3, <2>1 DEF AloneIsAlone, UpdateTypes
  <2>3. CopiedSoFar'
    BY <1>2, <2>1 DEF CopiedSoFar
  <2>4. ~broken => InOnePiece /\ RecordFits
    BY <1>6 DEF WholeUnlessCopying
  <2>5. WholeUnlessCopying'
    BY <1>5, <2>1, <2>4 DEF WholeUnlessCopying, InOnePiece, RecordFits
  <2>6. ~broken => InstalledVersion = installed["manifest"].version
    BY <2>4 DEF InOnePiece, InstalledVersion
  <2>7. ReadIsCurrent'
    BY <1>1, <1>2, <1>5, <2>1, <2>6 DEF ReadIsCurrent, ReadBy, ChannelPinAllows
  <2> QED
    BY <2>2, <2>3, <2>5, <2>7
<1>7. CASE Updating # {}
  <2>1. broken' /\ overlapping' = overlapping \cup Updating \cup {u}
    <3>1. broken' = (broken \/ Updating # {})
      BY Zenon DEF BeginUpdate
    <3> QED
      BY <1>7, <3>1 DEF BeginUpdate
  <2>2. AloneIsAlone'
    BY <1>2, <1>4, <2>1 DEF AloneIsAlone, UpdateTypes, Updating, Over
  <2>3. CopiedSoFar'
    BY <1>4, <2>1 DEF CopiedSoFar
  <2> QED
    BY <2>1, <2>2, <2>3 DEF WholeUnlessCopying, ReadIsCurrent
<1> QED
  BY <1>6, <1>7

(* The release is resolved: nothing is written yet.                        *)
LEMMA ResolveReleaseInv ==
  ASSUME UpdateInv, UpdateTypes', LocalsFit', NEW u \in Updaters, ResolveRelease(u)
  PROVE  UpdateInv'
<1> USE DEF UpdateInv
<1>1. UNCHANGED <<installed, state, guessed, broken, overlapping>>
  BY DEF ResolveRelease
<1>2. Moves(u) /\ updater[u].at = "resolving"
  BY StepsMove, ResolveReleaseLocals
<1>3. AloneIsAlone'
  BY <1>1, <1>2, MovesAlone
<1>4. Updating' = Updating \/ Updating' = Updating \ {u}
  BY <1>2, MovesUpdating
<1>5. CopiedSoFar'
  <2>1. ASSUME NEW v \in Updating', v # u PROVE updater'[v] = updater[v] /\ v \in Updating
    BY <1>2, <1>4, <2>1 DEF Moves, Updating
  <2>2. updater'[u].at = "copying" => updater'[u].next = 1
    BY ResolveReleaseLocals DEF LocalsFit
  <2>3. updater'[u].at # "recording"
    BY ResolveReleaseLocals
  <2>4. ASSUME NEW v \in Updating', v \notin overlapping' PROVE v = u
    BY <1>1, <1>2, <1>4, <2>4 DEF AloneIsAlone, Moves
  <2> QED
    BY <2>2, <2>3, <2>4 DEF CopiedSoFar
<1>6. ~broken => Updating = {u}
  BY <1>2 DEF AloneIsAlone, Moves
<1>7. ~broken => InOnePiece /\ RecordFits
  BY <1>2, <1>6 DEF WholeUnlessCopying
<1>8. WholeUnlessCopying'
  BY <1>1, <1>7 DEF WholeUnlessCopying, InOnePiece, RecordFits
<1>9. ReadIsCurrent'
  <2>1. SUFFICES ASSUME ~broken, u \in Updating' PROVE ReadBy(u)'
    BY <1>1, <1>4, <1>6 DEF ReadIsCurrent
  <2>2. ReadBy(u)
    BY <1>2, <2>1 DEF ReadIsCurrent, Moves
  <2>3. updater'[u].at \notin Over
    BY <2>1 DEF Updating
  <2>4. Keeps(u) /\ (updater'[u].at = "refreshing" => ~UpdateNeeded(updater[u], latest[updater[u].channel]))
    BY <2>3, ResolveReleaseLocals DEF Over
  <2> QED
    BY <1>1, <1>2, <2>2, <2>4, ResolveReleaseLocals DEF ReadBy, UpdateNeeded, Keeps
<1> QED
  BY <1>3, <1>5, <1>8, <1>9

(* A part is copied, or the copying fails and the runtime is broken.       *)
LEMMA CopyPartInv ==
  ASSUME UpdateInv, UpdateTypes', LocalsFit', NEW u \in Updaters, CopyPart(u)
  PROVE  UpdateInv'
<1> USE DEF UpdateInv
<1>1. UNCHANGED <<state, guessed, overlapping>>
  BY DEF CopyPart
<1>2. Moves(u) /\ updater[u].at = "copying" /\ updater[u].next \in 1..5
  BY StepsMove, CopyPartLocals DEF UpdateTypes, Locals
<1>3. ~broken' => ~broken /\ updater'[u].at # "failed"
  BY CopyPartLocals
<1>4. AloneIsAlone'
  BY <1>2, <1>3, MovesAlone
<1>5. Updating' = Updating \/ Updating' = Updating \ {u}
  BY <1>2, MovesUpdating
<1>6. ASSUME NEW v \in Updating', v \notin overlapping' PROVE v = u /\ u \notin overlapping
  BY <1>1, <1>2, <1>5, <1>6 DEF AloneIsAlone, Moves
<1>7. CopiedSoFar'
  <2>1. SUFFICES ASSUME u \in Updating', u \notin overlapping
                 PROVE  /\ updater'[u].at = "copying" => \A i \in 1..5 :
                              i < updater'[u].next => installed'[Steps[i]] = BuildOf(u)'
                        /\ updater'[u].at = "recording" =>
                              \A p \in PartNames : installed'[p] = BuildOf(u)'
    BY <1>6 DEF CopiedSoFar
  <2>2. updater'[u].at # "failed"
    BY <2>1 DEF Updating, Over
  <2>3. BuildOf(u)' = BuildOf(u)
    BY <2>2, CopyPartLocals DEF BuildOf, Keeps
  <2>4. \A i \in 1..5 : i < updater[u].next => installed[Steps[i]] = BuildOf(u)
    BY <1>2, <2>1 DEF CopiedSoFar, Moves
  <2>5. installed' = [installed EXCEPT ![Steps[updater[u].next]] =
           IF Steps[updater[u].next] = "dependencies" THEN installed["manifest"] ELSE BuildOf(u)]
    BY <2>2, CopyPartLocals
  <2>6. updater[u].next = 3 => installed["manifest"] = BuildOf(u)
    BY <2>4, StepOrder
  <2>7. \A i \in 1..5 : i <= updater[u].next => installed'[Steps[i]] = BuildOf(u)
    <3>1. installed'[Steps[updater[u].next]] = BuildOf(u)
      BY <1>2, <2>5, <2>6, StepOrder DEF UpdateTypes
    <3>2. ASSUME NEW i \in 1..5, i < updater[u].next PROVE installed'[Steps[i]] = BuildOf(u)
      <4>1. Steps[i] # Steps[updater[u].next] /\ Steps[i] \in PartNames
        BY <1>2, <3>2, StepOrder
      <4> QED
        BY <2>4, <2>5, <3>2, <4>1 DEF UpdateTypes
    <3> QED
      BY <1>2, <3>1, <3>2
  <2>8. CASE updater'[u].at = "copying"
    <3>1. updater'[u].next = updater[u].next + 1
      BY <2>2, <2>8, CopyPartLocals
    <3>2. ASSUME NEW i \in 1..5, i < updater'[u].next PROVE installed'[Steps[i]] = BuildOf(u)'
      BY <1>2, <2>3, <2>7, <3>1, <3>2
    <3> QED
      BY <2>8, <3>2
  <2>9. CASE updater'[u].at = "recording"
    <3>1. updater[u].next = 5
      BY <2>2, <2>9, CopyPartLocals
    <3>2. \A i \in 1..5 : installed'[Steps[i]] = BuildOf(u)'
      BY <2>3, <2>7, <3>1
    <3>3. \A p \in PartNames : installed'[p] = BuildOf(u)'
      BY <3>2, StepOrder
    <3> QED
      BY <2>9, <3>3
  <2> QED
    BY <2>8, <2>9
<1>8. ~broken' => Updating' = {u} /\ updater'[u].at \in {"copying", "recording"}
  <2>1. ~broken' => Updating = {u}
    BY <1>2, <1>3 DEF AloneIsAlone, Moves
  <2> QED
    BY <1>2, <1>3, <2>1, CopyPartLocals, MovesUpdating DEF Over
<1>9. WholeUnlessCopying'
  BY <1>8 DEF WholeUnlessCopying
<1>10. ReadIsCurrent'
  <2>1. SUFFICES ASSUME ~broken' PROVE ReadBy(u)'
    BY <1>8 DEF ReadIsCurrent
  <2>2. ReadBy(u) /\ Keeps(u)
    BY <1>2, <1>3, <2>1, CopyPartLocals DEF ReadIsCurrent, Moves
  <2> QED
    BY <1>1, <1>8, <2>1, <2>2 DEF ReadBy, Keeps
<1> QED
  BY <1>4, <1>7, <1>9, <1>10

(* The agents get the bundle of a runtime in one piece, which changes      *)
(* nothing, or the refreshing fails and the runtime is broken.             *)
LEMMA RefreshAgentsInv ==
  ASSUME UpdateInv, UpdateTypes', LocalsFit', NEW u \in Updaters, RefreshAgents(u)
  PROVE  UpdateInv' /\ (~broken' => installed' = installed)
<1> USE DEF UpdateInv
<1>1. UNCHANGED <<state, guessed, overlapping>>
  BY DEF RefreshAgents
<1>2. Moves(u) /\ updater[u].at = "refreshing" /\ updater'[u].at \in {"pinning", "failed"}
  BY StepsMove, RefreshAgentsLocals
<1>3. ~broken' => ~broken /\ updater'[u].at = "pinning" /\ Keeps(u)
  BY RefreshAgentsLocals
<1>4. AloneIsAlone'
  BY <1>2, <1>3, MovesAlone
<1>5. Updating' = Updating \/ Updating' = Updating \ {u}
  BY <1>2, MovesUpdating
<1>6. CopiedSoFar'
  <2>1. ASSUME NEW v \in Updating', v \notin overlapping' PROVE v = u
    BY <1>1, <1>2, <1>5, <2>1 DEF AloneIsAlone, Moves
  <2> QED
    BY <1>2, <2>1 DEF CopiedSoFar
<1>7. ~broken' => Updating = {u}
  BY <1>2, <1>3 DEF AloneIsAlone, Moves
<1>8. ~broken' => InOnePiece /\ RecordFits
  BY <1>2, <1>3, <1>7 DEF WholeUnlessCopying
<1>9. ~broken' => installed' = installed
  <2>1. InOnePiece => installed["agents"] = installed["bundle"]
    BY StepOrder DEF InOnePiece
  <2>2. ~broken' => installed' = [installed EXCEPT !["agents"] = installed["bundle"]]
    BY <1>3, RefreshAgentsLocals
  <2> QED
    BY <1>8, <2>1, <2>2 DEF UpdateTypes
<1>10. WholeUnlessCopying'
  BY <1>1, <1>8, <1>9 DEF WholeUnlessCopying, InOnePiece, RecordFits
<1>11. ReadIsCurrent'
  <2>1. SUFFICES ASSUME ~broken' PROVE ReadBy(u)'
    BY <1>5, <1>7 DEF ReadIsCurrent
  <2>2. ReadBy(u) /\ Keeps(u)
    BY <1>2, <1>3, <2>1 DEF ReadIsCurrent, Moves
  <2> QED
    BY <1>1, <1>2, <1>9, <2>1, <2>2 DEF ReadBy, Keeps
<1> QED
  BY <1>4, <1>6, <1>9, <1>10, <1>11

(* The end of an update: an upgrade that ran alone has written one build   *)
(* and records it; "up to date" records the version that was read.         *)
LEMMA RecordStateInv ==
  ASSUME UpdateInv, UpdateTypes', LocalsFit', NEW u \in Updaters, RecordState(u)
  PROVE  /\ UpdateInv'
         /\ updater'[u].at = "updated" /\ u \notin overlapping =>
              InOnePiece' /\ state' = installed'["manifest"]
         /\ updater'[u].at = "current" /\ ~broken => InOnePiece'
<1> USE DEF UpdateInv
<1>1. UNCHANGED <<installed, overlapping>>
  BY DEF RecordState
<1>2. /\ Moves(u) /\ updater[u].at \in {"recording", "pinning"}
      /\ updater'[u].at \in {"updated", "current", "failed"}
  BY StepsMove, RecordStateLocals
<1>3. Updating' = Updating \ {u}
  BY <1>2, MovesUpdating DEF Over
<1>4. ~broken' => Updating = {u}
  BY <1>2, RecordStateLocals DEF AloneIsAlone, Moves
<1>5. AloneIsAlone'
  BY <1>2, <1>3, <1>4, MovesAlone
<1>6. CopiedSoFar' /\ ReadIsCurrent'
  BY <1>1, <1>2, <1>3, <1>4 DEF CopiedSoFar, ReadIsCurrent, AloneIsAlone, Moves
<1>7. ASSUME updater'[u].at = "updated", u \notin overlapping
      PROVE  InOnePiece' /\ state' = installed'["manifest"]
  <2>1. updater[u].at = "recording" /\ state' = RecordedState(updater[u])
    BY <1>7, RecordStateLocals
  <2>2. \A p \in PartNames : installed[p] = BuildOf(u)
    BY <1>2, <1>7, <2>1 DEF CopiedSoFar, Moves
  <2>3. BuildOf(u) \in Builds /\ BuildOf(u).version = updater[u].latest /\ updater[u].latest # 0
    BY DEF BuildOf, Builds, UpdateTypes, Locals
  <2>4. BuildOf(u) # Mixed
    BY <2>3, BuildsAssumption
  <2>5. InOnePiece /\ installed["manifest"] = BuildOf(u)
    BY <2>2, <2>4, StepOrder DEF InOnePiece
  <2>6. InstalledVersion = updater[u].latest
    BY <2>3, <2>4, <2>5 DEF InstalledVersion
  <2>7. RecordedState(updater[u]) = BuildOf(u)
    BY <2>1, <2>3, <2>6 DEF RecordedState, BuildOf
  <2> QED
    BY <1>1, <2>1, <2>5, <2>7 DEF InOnePiece
<1>8. ASSUME updater[u].at = "pinning", ~broken
      PROVE  /\ InOnePiece /\ RecordFits /\ ReadBy(u)
  BY <1>2, <1>8 DEF WholeUnlessCopying, ReadIsCurrent, AloneIsAlone, Moves
<1>9. ASSUME ~broken' PROVE InOnePiece' /\ RecordFits'
  <2>1. CASE updater'[u].at = "updated"
    <3>1. u \notin overlapping
      BY <1>2, <1>9, <2>1, RecordStateLocals DEF AloneIsAlone, Moves
    <3> QED
      BY <1>7, <2>1, <3>1 DEF RecordFits
  <2>2. CASE updater'[u].at = "current"
    <3>1. /\ updater[u].at = "pinning" /\ ~broken /\ state' = RecordedState(updater[u])
          /\ guessed \/ updater[u].pin = NoState => guessed'
      BY <1>9, <2>2, RecordStateLocals
    <3>2. InOnePiece /\ RecordFits /\ ReadBy(u)
      BY <1>8, <3>1
    <3>3. /\ state'.version = updater[u].version /\ state'.channel = updater[u].channel
      BY <3>1 DEF RecordedState
    <3> QED
      BY <1>1, <3>1, <3>2, <3>3 DEF InOnePiece, RecordFits, ReadBy
  <2>3. CASE updater'[u].at = "failed"
    <3>1. updater[u].at = "pinning" /\ ~broken /\ state' = state /\ guessed' = guessed
      BY <1>9, <2>3, RecordStateLocals
    <3> QED
      BY <1>1, <1>8, <3>1 DEF InOnePiece, RecordFits
  <2> QED
    BY <1>2, <2>1, <2>2, <2>3
<1>10. updater'[u].at = "current" /\ ~broken => InOnePiece'
  BY <1>1, <1>8, RecordStateLocals DEF InOnePiece
<1> QED
  BY <1>5, <1>6, <1>7, <1>9, <1>10 DEF WholeUnlessCopying

(* A kill breaks the runtime unless it comes before or after the copying.  *)
LEMMA UpdateKilledInv ==
  ASSUME UpdateInv, UpdateTypes', LocalsFit', NEW u \in Updaters, UpdateKilled(u)
  PROVE  UpdateInv'
<1> USE DEF UpdateInv
<1>1. UNCHANGED <<state, guessed, overlapping>>
  BY DEF UpdateKilled
<1>2. Moves(u) /\ updater'[u].at = "failed"
  BY StepsMove, UpdateKilledLocals
<1>3. ~broken' => ~broken /\ updater[u].at \notin {"copying", "refreshing", "recording"}
  BY UpdateKilledLocals
<1>4. Updating' = Updating \ {u}
  BY <1>2, MovesUpdating DEF Over
<1>5. AloneIsAlone'
  BY <1>2, <1>3, MovesAlone
<1>6. ~broken' => Updating = {u}
  BY <1>2, <1>3 DEF AloneIsAlone, Moves
<1>7. CopiedSoFar' /\ ReadIsCurrent'
  BY <1>1, <1>2, <1>4, <1>6 DEF CopiedSoFar, ReadIsCurrent, AloneIsAlone, Moves
<1>8. ~broken' => InOnePiece /\ RecordFits
  BY <1>2, <1>3, <1>6 DEF WholeUnlessCopying
<1>9. ~broken' => installed' = installed
  BY <1>3 DEF UpdateKilled
<1>10. WholeUnlessCopying'
  BY <1>1, <1>8, <1>9 DEF WholeUnlessCopying, InOnePiece, RecordFits
<1> QED
  BY <1>5, <1>7, <1>10

(* The inductive invariant of the update.                                  *)
LEMMA UpdateInvInit == UpdateInit => UpdateInv
<1> SUFFICES ASSUME UpdateInit PROVE UpdateInv
  OBVIOUS
<1>1. [channel |-> "stable", version |-> 1] \in Builds
  BY UpdateAssumption DEF Builds
<1>2. UpdateTypes
  <2>1. 0 \in 0..MaxUpdateFaults /\ 1 \in 1..MaxVersion
    BY UpdateAssumption
  <2> QED
    BY <1>1, <2>1, NoUpdateLocals DEF UpdateInit, UpdateTypes
<1>3. \A u \in Updaters : updater[u] = NoUpdate
  BY DEF UpdateInit
<1>4. Updating = {} /\ LocalsFit
  BY <1>3 DEF Updating, NoUpdate, Over, LocalsFit
<1>5. InOnePiece /\ RecordFits
  BY <1>1, StepOrder, BuildsAssumption DEF UpdateInit, InOnePiece, RecordFits
<1> QED
  BY <1>2, <1>4, <1>5
  DEF UpdateInit, UpdateInv, AloneIsAlone, CopiedSoFar, WholeUnlessCopying, ReadIsCurrent

LEMMA UpdateInvNext == ASSUME UpdateInv, [UpdateNext]_updateVars PROVE UpdateInv'
<1>1. UpdateTypes' /\ LocalsFit'
  BY UpdateTypesNext, LocalsFitNext DEF UpdateInv
<1>2. CASE UNCHANGED <<installed, state, updater, overlapping, broken, guessed>>
  BY <1>1, <1>2
  DEF UpdateInv, AloneIsAlone, CopiedSoFar, WholeUnlessCopying, ReadIsCurrent, ReadBy,
      Updating, BuildOf, InOnePiece, RecordFits
<1> QED
  BY <1>1, <1>2, BeginUpdateInv, ResolveReleaseInv, CopyPartInv, RefreshAgentsInv,
     RecordStateInv, UpdateKilledInv
  DEF UpdateNext, UpdateNextOf, Publish, updateVars

(* Only RecordState ends an update that was not cut short.                 *)
LEMMA RecordingEnds ==
  ASSUME UpdateTypes, LocalsFit, [UpdateNext]_updateVars, NEW u \in Updaters,
         updater'[u].at # updater[u].at, updater'[u].at \in {"updated", "current"}
  PROVE  RecordState(u)
<1>1. ASSUME NEW v \in Updaters, BeginUpdate(v) PROVE FALSE
  BY <1>1 DEF BeginUpdate, UpdaterBecomes, UpdateTypes, NoUpdate, Over
<1>2. ASSUME NEW v \in Updaters, ResolveRelease(v) PROVE FALSE
  BY <1>2, ResolveReleaseLocals
<1>3. ASSUME NEW v \in Updaters, CopyPart(v) PROVE FALSE
  BY <1>3, CopyPartLocals
<1>4. ASSUME NEW v \in Updaters, RefreshAgents(v) PROVE FALSE
  BY <1>4, RefreshAgentsLocals
<1>5. ASSUME NEW v \in Updaters, UpdateKilled(v) PROVE FALSE
  BY <1>5, UpdateKilledLocals
<1>6. ASSUME NEW v \in Updaters, RecordState(v), v # u PROVE FALSE
  BY <1>6, RecordStateLocals
<1>7. ASSUME UNCHANGED updater PROVE FALSE
  BY <1>7
<1> QED
  BY <1>1, <1>2, <1>3, <1>4, <1>5, <1>6, <1>7
  DEF UpdateNext, UpdateNextOf, Publish, updateVars

(* dysflow update, for any channels, versions, updaters and faults: an     *)
(* upgrade that ran alone has left one build and recorded it, "up to date" *)
(* is said of a runtime in one piece, and the install state tells the      *)
(* bytes, unless an update was cut short, overlapped another or was run    *)
(* from a package that is not the installed one.                           *)
THEOREM UpdatesAreHonest == UpdateSpec => UpdateHonest
<1>1. UpdateInv => UpdateTypeOK /\ RecordTellsBytes
  <2>1. UpdateInv => RecordTellsBytes
    BY DEF UpdateInv, WholeUnlessCopying, RecordTellsBytes, RecordFits
  <2>2. UpdateInv => UpdateTypeOK
    BY StepOrder DEF UpdateInv, UpdateTypes, UpdateTypeOK, Locals
  <2> QED
    BY <2>1, <2>2
<1>2. ASSUME UpdateInv, [UpdateNext]_updateVars
      PROVE  \A u \in Updaters \ overlapping :
               updater[u].at = "recording" /\ updater'[u].at = "updated"
                 => InOnePiece' /\ state' = installed'["manifest"]
  <2>1. SUFFICES ASSUME NEW u \in Updaters \ overlapping,
                        updater[u].at = "recording", updater'[u].at = "updated"
                 PROVE  InOnePiece' /\ state' = installed'["manifest"]
    OBVIOUS
  <2>2. RecordState(u)
    BY <1>2, <2>1, RecordingEnds DEF UpdateInv
  <2> QED
    BY <1>2, <2>1, <2>2, RecordStateInv, UpdateTypesNext, LocalsFitNext DEF UpdateInv
<1>3. ASSUME UpdateInv, [UpdateNext]_updateVars
      PROVE  \A u \in Updaters :
               updater[u].at # "current" /\ updater'[u].at = "current" => InOnePiece' \/ broken
  <2>1. SUFFICES ASSUME NEW u \in Updaters,
                        updater[u].at # "current", updater'[u].at = "current"
                 PROVE  InOnePiece' \/ broken
    OBVIOUS
  <2>2. RecordState(u)
    BY <1>3, <2>1, RecordingEnds DEF UpdateInv
  <2> QED
    BY <1>3, <2>1, <2>2, RecordStateInv, UpdateTypesNext, LocalsFitNext DEF UpdateInv
<1>4. UpdateSpec => []UpdateInv
  BY UpdateInvInit, UpdateInvNext, PTL DEF UpdateSpec
<1> QED
  BY <1>1, <1>2, <1>3, <1>4, PTL
  DEF UpdateSpec, UpdateHonest, UpdatedIsWhole, UpToDateIsExplained

(* "A runtime stays on the channel it was installed from unless the        *)
(* operator says otherwise": bytes of another channel arrive only with     *)
(* --force, beside another update, after one that was cut short, or from   *)
(* the package that a command not of this runtime is run from.             *)
THEOREM PinsAreHeld == UpdateSpec => PinHeld
<1>1. ASSUME UpdateInv, [UpdateNext]_updateVars,
             NEW p \in PartNames, installed'[p] # installed[p], installed'[p] # Mixed,
             state # NoState, ~broken, ~broken', \A u \in Updating : ~updater[u].force
      PROVE  installed'[p].channel = state.channel
  <2> USE DEF UpdateInv
  <2>1. PICK u \in Updaters : CopyPart(u) \/ RefreshAgents(u) \/ UpdateKilled(u)
    BY <1>1 DEF UpdateNext, UpdateNextOf, Publish, BeginUpdate, ResolveRelease, RecordState, updateVars
  <2>2. Moves(u) /\ u \in Updating /\ u \notin overlapping
    BY <1>1, <2>1, StepsMove DEF Moves, AloneIsAlone
  <2>3. ReadBy(u) /\ state.channel = updater[u].channel
    BY <1>1, <2>2 DEF ReadIsCurrent, ReadBy
  <2>4. BuildOf(u).channel = state.channel
    BY <2>3 DEF BuildOf
  <2>5. CASE CopyPart(u)
    <3>1. \/ installed' = [installed EXCEPT ![Steps[updater[u].next]] =
               IF Steps[updater[u].next] = "dependencies" THEN installed["manifest"] ELSE BuildOf(u)]
          \/ installed' \in {installed, [installed EXCEPT ![Steps[updater[u].next]] = Mixed]}
      BY <2>5 DEF CopyPart, BuildOf
    <3>2. updater[u].at = "copying" /\ updater[u].next \in 1..5
      BY <1>1, <2>5, CopyPartLocals DEF UpdateTypes, Locals
    <3>3. Steps[updater[u].next] = "dependencies" => installed["manifest"] = BuildOf(u)
      <4>1. Steps[updater[u].next] = "dependencies" => 2 < updater[u].next
        BY <3>2, StepOrder
      <4> QED
        BY <1>1, <2>2, <3>2, <4>1, StepOrder DEF CopiedSoFar
    <3> QED
      BY <1>1, <2>4, <3>1, <3>3 DEF UpdateTypes
  <2>6. CASE RefreshAgents(u)
    <3>1. updater[u].at = "refreshing"
      BY <1>1, <2>6, RefreshAgentsLocals
    <3>2. InOnePiece
      BY <1>1, <2>2, <3>1 DEF WholeUnlessCopying, AloneIsAlone
    <3>3. installed["bundle"] = installed["agents"]
      BY <3>2, StepOrder DEF InOnePiece
    <3> QED
      BY <1>1, <2>6, <3>3 DEF RefreshAgents, UpdateTypes
  <2>7. CASE UpdateKilled(u)
    BY <1>1, <2>7 DEF UpdateKilled, UpdateTypes
  <2> QED
    BY <2>1, <2>5, <2>6, <2>7
<1>2. ASSUME UpdateInv, [UpdateNext]_updateVars
      PROVE  \A p \in PartNames :
               installed'[p] # installed[p] /\ installed'[p] # Mixed /\ state # NoState
                 => \/ installed'[p].channel = state.channel
                    \/ broken \/ broken' \/ \E u \in Updating : updater[u].force
  BY <1>1, <1>2
<1>3. UpdateSpec => []UpdateInv
  BY UpdateInvInit, UpdateInvNext, PTL DEF UpdateSpec
<1> QED
  BY <1>2, <1>3, PTL DEF UpdateSpec, PinHeld

-----------------------------------------------------------------------------
(* The rollout of the pointer blocks.                                      *)

Files == Content \cup {NoFile}
Done == {"idle", "ok", "failed", "dead"}
Loop == {"target", "backup", "write", "fill", "verify"}

RolloutLocals ==
    [at : Done \cup Loop \cup {"rollback", "restore"}, next : 1..Len(Targets), current : Files,
     mutations : Seq(TargetFiles \X Files), failures : BOOLEAN, rollbackFailures : BOOLEAN,
     before : {<<>>} \cup [TargetFiles -> Files]]

\* The types, with the whole local state of each rollout.
RolloutTypes ==
    /\ instructions \in [TargetFiles -> Files]
    /\ edition \in [TargetFiles -> Nat] /\ edits \in 0..MaxEdits
    /\ backups \in [TargetFiles -> SUBSET Nat]
    /\ rollout \in [Rollouts -> RolloutLocals]
    /\ disturbed \subseteq Rollouts /\ overwritten \subseteq TargetFiles
    /\ \A r \in Rollouts :
         /\ rollout[r].at \in Done => rollout[r].mutations = <<>>
         /\ rollout[r].at = "target" => rollout[r].current = NoFile
         /\ rollout[r].at = "backup" => rollout[r].current \in Content

\* The user's text in f needs the file no more.
Saved(f) == edition[f] = 0 \/ edition[f] \in backups[f]

\* A rollout on its way to write a file has the user's text of it in its hands,
\* and one that writes it, or may write it back, has saved the text before.
HasSaved(r) ==
    /\ rollout[r].at = "backup" /\ File(r) \notin overwritten
         => Saved(File(r)) \/ rollout[r].current.text = edition[File(r)]
    /\ rollout[r].at \in {"write", "fill"} /\ File(r) \notin overwritten => Saved(File(r))
    /\ \A i \in DOMAIN rollout[r].mutations :
         rollout[r].mutations[i][1] \notin overwritten => Saved(rollout[r].mutations[i][1])
WritersHaveSaved == \A r \in Rollouts : HasSaved(r)

KeptInv == RolloutTypes /\ WritersHaveSaved /\ UserTextKept

\* Rollout r has not changed f, or has restored it.
Untouched(r, f) == \A i \in DOMAIN rollout[r].mutations : rollout[r].mutations[i][1] # f

\* What an undisturbed rollout knows: it is alone, every file it has not touched
\* is as it was when it began, it remembers the others as they were then, and as
\* long as nothing has failed the files before the current one are installed.
Undisturbed(r) ==
    LET l == rollout[r] IN
    /\ Running = {r}
    /\ l.before \in [TargetFiles -> Files]
    /\ ~l.rollbackFailures => \A f \in TargetFiles : Untouched(r, f) => instructions[f] = l.before[f]
    /\ \A i \in DOMAIN l.mutations : l.mutations[i][2] = l.before[l.mutations[i][1]]
    /\ l.at \in Loop => ~l.rollbackFailures
    /\ l.at \in Loop => \A i \in DOMAIN l.mutations : \E j \in 1..l.next :
         /\ l.mutations[i][1] = Targets[j]
         /\ l.at \in {"target", "backup", "write"} => j # l.next
    /\ l.at \in Loop \ {"target"} => l.current = l.before[File(r)]
    /\ l.at = "fill" => ~Untouched(r, File(r))
    /\ l.at = "verify" => instructions[File(r)] = NextContent(File(r), l.before[File(r)])
    /\ l.at \in Loop /\ ~l.failures => \A j \in 1..l.next - 1 :
         instructions[Targets[j]] = NextContent(Targets[j], l.before[Targets[j]])

UndisturbedKnow == \A r \in Running \ disturbed : Undisturbed(r)

LEMMA TargetFacts ==
  /\ Len(Targets) \in Nat \ {0} /\ DOMAIN Targets = 1..Len(Targets)
  /\ \A i \in 1..Len(Targets) : Targets[i] \in TargetFiles
  /\ \A f \in TargetFiles : \E i \in 1..Len(Targets) : f = Targets[i]
  /\ \A i, j \in 1..Len(Targets) : Targets[i] = Targets[j] => i = j
<1>1. Len(Targets) \in Nat \ {0} /\ DOMAIN Targets = 1..Len(Targets)
  BY TargetsAssumption
<1> QED
  BY <1>1, TargetsAssumption DEF TargetFiles

LEMMA NoRolloutLocals ==
  ASSUME NEW at \in Done
  PROVE  [NoRollout EXCEPT !.at = at] \in RolloutLocals
<1>1. 1 \in 1..Len(Targets) /\ <<>> \in Seq(TargetFiles \X Files) /\ NoFile \in Files
  BY TargetFacts DEF Files
<1> QED
  BY <1>1 DEF NoRollout, RolloutLocals

(* What Sets does to the local states.                                     *)
LEMMA SetsLocals ==
  ASSUME rollout \in [Rollouts -> RolloutLocals], NEW r \in Rollouts,
         NEW l \in RolloutLocals, Sets(r, l)
  PROVE  /\ rollout' \in [Rollouts -> RolloutLocals]
         /\ rollout'[r].at = l.at
         /\ l.at \notin Done => rollout'[r] = l
         /\ l.at \in {"ok", "failed", "dead"} => rollout'[r].mutations = <<>>
         /\ \A q \in Rollouts : q # r => rollout'[q] = rollout[q]
<1> DEFINE over == [NoRollout EXCEPT !.at = l.at]
<1>1. l.at \in {"ok", "failed", "dead"} =>
        over \in RolloutLocals /\ over.at = l.at /\ over.mutations = <<>>
  BY NoRolloutLocals DEF NoRollout, Done
<1>2. rollout' = [rollout EXCEPT ![r] = IF l.at \in {"ok", "failed", "dead"} THEN over ELSE l]
  BY DEF Sets
<1> HIDE DEF over
<1> QED
  BY <1>1, <1>2 DEF Done

(* The rollout goes on, with these mutations and perhaps a failure.        *)
Keeping(r, mutations, failures) ==
    /\ rollout'[r].mutations = mutations /\ rollout'[r].failures = failures
    /\ rollout'[r].before = rollout[r].before
    /\ rollout'[r].rollbackFailures = rollout[r].rollbackFailures

(* It leaves a target: for the next one, for the rollback, or with success. *)
Leaves(r, mutations, failures) ==
    \/ /\ rollout'[r].at = "target" /\ rollout[r].next < Len(Targets)
       /\ rollout'[r].next = rollout[r].next + 1 /\ rollout'[r].current = NoFile
       /\ Keeping(r, mutations, failures)
    \/ rollout'[r].at = "rollback" /\ failures /\ Keeping(r, mutations, failures)
    \/ /\ rollout'[r].at = "ok" /\ rollout[r].next = Len(Targets) /\ ~failures
       /\ rollout'[r].mutations = <<>>

(* The other rollouts stay where they are.                                 *)
OthersStay(r) ==
    /\ rollout' \in [Rollouts -> RolloutLocals]
    /\ \A q \in Rollouts : q # r => rollout'[q] = rollout[q]

LEMMA FollowingLocals ==
  ASSUME rollout \in [Rollouts -> RolloutLocals], NEW r \in Rollouts,
         NEW l \in RolloutLocals, Sets(r, Following(l)), l.next = rollout[r].next,
         l.before = rollout[r].before, l.rollbackFailures = rollout[r].rollbackFailures
  PROVE  OthersStay(r) /\ Leaves(r, l.mutations, l.failures)
<1> DEFINE next == [l EXCEPT !.next = @ + 1, !.at = "target", !.current = NoFile]
           end == [next EXCEPT !.next = 1, !.at = IF l.failures THEN "rollback" ELSE "ok"]
<1>1. /\ l.next \in 1..Len(Targets) /\ l.failures \in BOOLEAN
      /\ Len(Targets) \in Nat \ {0} /\ 1 \in 1..Len(Targets) /\ NoFile \in Files
  BY TargetFacts DEF RolloutLocals, Files
<1>2. /\ next.next = l.next + 1 /\ next.current = NoFile /\ next.at = "target"
      /\ next.mutations = l.mutations /\ next.before = l.before
      /\ next.failures = l.failures /\ next.rollbackFailures = l.rollbackFailures
      /\ end.mutations = l.mutations /\ end.before = l.before
      /\ end.failures = l.failures /\ end.rollbackFailures = l.rollbackFailures
      /\ end.at = IF l.failures THEN "rollback" ELSE "ok"
  BY DEF RolloutLocals
<1>3. Following(l) = IF l.next < Len(Targets) THEN next ELSE end
  <2>1. next.next <= Len(Targets) <=> l.next < Len(Targets)
    BY <1>1, <1>2
  <2> QED
    BY <2>1 DEF Following
<1>4. l.next < Len(Targets) => next \in RolloutLocals
  <2>1. l.next < Len(Targets) => l.next + 1 \in 1..Len(Targets)
    BY <1>1
  <2> QED
    BY <1>1, <2>1 DEF RolloutLocals, Loop
<1>5. end \in RolloutLocals
  BY <1>1 DEF RolloutLocals, Done
<1>6. "target" \notin Done /\ "rollback" \notin Done
  BY DEF Done
<1> HIDE DEF next, end
<1>7. CASE l.next < Len(Targets)
  <2>1. Sets(r, next)
    BY <1>3, <1>7
  <2>2. rollout'[r] = next /\ OthersStay(r)
    BY <1>2, <1>4, <1>6, <1>7, <2>1, SetsLocals DEF OthersStay
  <2> QED
    BY <1>2, <1>7, <2>2 DEF Leaves, Keeping
<1>8. CASE ~(l.next < Len(Targets)) /\ l.failures
  <2>1. Sets(r, end)
    BY <1>3, <1>8
  <2>2. rollout'[r] = end /\ OthersStay(r)
    BY <1>2, <1>5, <1>6, <1>8, <2>1, SetsLocals DEF OthersStay
  <2> QED
    BY <1>2, <1>8, <2>2 DEF Leaves, Keeping
<1>9. CASE ~(l.next < Len(Targets)) /\ ~l.failures
  <2>1. Sets(r, end)
    BY <1>3, <1>9
  <2>2. rollout'[r].at = "ok" /\ rollout'[r].mutations = <<>> /\ OthersStay(r)
    BY <1>2, <1>5, <1>9, <2>1, SetsLocals DEF OthersStay
  <2> QED
    BY <1>1, <1>9, <2>2 DEF Leaves
<1> QED
  BY <1>7, <1>8, <1>9

(* It goes on to another point of the same target.                         *)
Continues(r, at, current, mutations) ==
    /\ rollout'[r].at = at /\ rollout'[r].next = rollout[r].next
    /\ rollout'[r].current = current /\ Keeping(r, mutations, rollout[r].failures)

(* What each step makes of the local state of its rollout.                 *)
LEMMA BeginLocals ==
  ASSUME RolloutTypes, NEW r \in Rollouts, Begin(r)
  PROVE  /\ OthersStay(r) /\ rollout[r].at = "idle"
         /\ rollout'[r].at = "target" /\ rollout'[r].next = 1 /\ rollout'[r].current = NoFile
         /\ rollout'[r].mutations = <<>> /\ rollout'[r].before = instructions
         /\ rollout'[r].failures = FALSE /\ rollout'[r].rollbackFailures = FALSE
<1> DEFINE l == [NoRollout EXCEPT !.at = "target", !.before = instructions]
<1>1. 1 \in 1..Len(Targets) /\ <<>> \in Seq(TargetFiles \X Files) /\ NoFile \in Files
  BY TargetFacts DEF Files
<1>2. l \in RolloutLocals /\ l.at \notin Done
  BY <1>1 DEF NoRollout, RolloutLocals, RolloutTypes, Loop, Done
<1>3. Sets(r, l) /\ rollout[r].at = "idle"
  BY DEF Begin
<1>4. OthersStay(r) /\ rollout'[r] = l
  BY <1>2, <1>3, SetsLocals DEF RolloutTypes, OthersStay
<1> QED
  BY <1>3, <1>4 DEF NoRollout

(* A step to another point of the target, and a step away from it.         *)
LEMMA ContinuesLocals ==
  ASSUME RolloutTypes, NEW r \in Rollouts, NEW at \in Loop, NEW current \in Files,
         NEW mutations \in Seq(TargetFiles \X Files),
         Sets(r, [rollout[r] EXCEPT !.at = at, !.current = current, !.mutations = mutations])
  PROVE  OthersStay(r) /\ Continues(r, at, current, mutations)
<1> DEFINE l == [rollout[r] EXCEPT !.at = at, !.current = current, !.mutations = mutations]
<1>1. rollout[r] \in RolloutLocals
  BY DEF RolloutTypes
<1>2. /\ l \in RolloutLocals /\ l.at \notin Done
      /\ l.at = at /\ l.current = current /\ l.mutations = mutations
      /\ l.next = rollout[r].next /\ l.before = rollout[r].before
      /\ l.failures = rollout[r].failures /\ l.rollbackFailures = rollout[r].rollbackFailures
  BY <1>1 DEF RolloutLocals, Loop, Done
<1> HIDE DEF l
<1>3. OthersStay(r) /\ rollout'[r] = l
  BY <1>2, SetsLocals DEF RolloutTypes, OthersStay, l
<1> QED
  BY <1>2, <1>3 DEF Continues, Keeping

LEMMA LeavesLocals ==
  ASSUME RolloutTypes, NEW r \in Rollouts, NEW mutations \in Seq(TargetFiles \X Files),
         NEW failures \in BOOLEAN,
         Sets(r, Following([rollout[r] EXCEPT !.mutations = mutations, !.failures = failures]))
  PROVE  OthersStay(r) /\ Leaves(r, mutations, failures)
<1> DEFINE l == [rollout[r] EXCEPT !.mutations = mutations, !.failures = failures]
<1>1. rollout[r] \in RolloutLocals
  BY DEF RolloutTypes
<1>2. /\ l \in RolloutLocals /\ l.mutations = mutations /\ l.failures = failures
      /\ l.next = rollout[r].next /\ l.before = rollout[r].before
      /\ l.rollbackFailures = rollout[r].rollbackFailures
  BY <1>1 DEF RolloutLocals
<1>3. Sets(r, Following(l)) /\ rollout \in [Rollouts -> RolloutLocals]
  BY DEF RolloutTypes
<1> HIDE DEF l
<1> QED
  BY <1>2, <1>3, FollowingLocals

(* Records of local state that differ in some fields only.                 *)
LEMMA SameLocals ==
  ASSUME RolloutTypes, NEW r \in Rollouts
  PROVE  LET l == rollout[r] IN
         /\ l = [l EXCEPT !.mutations = l.mutations, !.failures = l.failures]
         /\ [l EXCEPT !.failures = TRUE] = [l EXCEPT !.mutations = l.mutations, !.failures = TRUE]
         /\ \A at : [l EXCEPT !.at = at]
              = [l EXCEPT !.at = at, !.current = l.current, !.mutations = l.mutations]
         /\ \A at, c : [l EXCEPT !.at = at, !.current = c]
              = [l EXCEPT !.at = at, !.current = c, !.mutations = l.mutations]
<1>1. rollout[r] \in RolloutLocals
  BY DEF RolloutTypes
<1> QED
  BY <1>1 DEF RolloutLocals

LEMMA FileFacts ==
  ASSUME RolloutTypes, NEW r \in Rollouts
  PROVE  /\ rollout[r].next \in 1..Len(Targets) /\ File(r) \in TargetFiles
         /\ rollout[r].mutations \in Seq(TargetFiles \X Files) /\ rollout[r].current \in Files
         /\ rollout[r].failures \in BOOLEAN /\ rollout[r].rollbackFailures \in BOOLEAN
         /\ instructions[File(r)] \in Files
<1>1. rollout[r] \in RolloutLocals
  BY DEF RolloutTypes
<1>2. rollout[r].next \in 1..Len(Targets) /\ File(r) \in TargetFiles
  BY <1>1, TargetFacts DEF RolloutLocals, File
<1> QED
  BY <1>1, <1>2 DEF RolloutLocals, RolloutTypes

LEMMA ReadTargetLocals ==
  ASSUME RolloutTypes, NEW r \in Rollouts, ReadTarget(r)
  PROVE  LET l == rollout[r]
             f == File(r)
             c == instructions[f]
         IN  /\ OthersStay(r) /\ l.at = "target"
             /\ disturbed \subseteq disturbed' /\ overwritten \subseteq overwritten'
             /\ disturbed' \subseteq disturbed \cup {r} /\ overwritten' \subseteq overwritten \cup {f}
             /\ \/ /\ Continues(r, "write", NoFile, l.mutations)
                   /\ c = NoFile \/ (r \in disturbed' /\ f \in overwritten')
                \/ c = NextContent(f, c) /\ c # NoFile /\ Leaves(r, l.mutations, l.failures)
                \/ Leaves(r, l.mutations, TRUE)
                \/ c # NoFile /\ Continues(r, "backup", c, l.mutations)
<1> DEFINE l == rollout[r]
           f == File(r)
           c == instructions[f]
<1>1. /\ l.at = "target" /\ l.current = NoFile
      /\ \/ /\ \/ c = NoFile /\ Sets(r, [l EXCEPT !.at = "write"])
               \/ Sets(r, Following([l EXCEPT !.failures = TRUE]))
               \/ c # NoFile /\ c = NextContent(f, c) /\ Sets(r, Following(l))
               \/ c # NoFile /\ Sets(r, [l EXCEPT !.at = "backup", !.current = c])
            /\ UNCHANGED <<disturbed, overwritten>>
         \/ /\ Sets(r, [l EXCEPT !.at = "write"])
            /\ disturbed' = disturbed \cup {r} /\ overwritten' = overwritten \cup {f}
  BY DEF ReadTarget, TargetFails, NextTarget, RolloutTypes
<1>2. l.mutations \in Seq(TargetFiles \X Files) /\ c \in Files /\ l.failures \in BOOLEAN
      /\ NoFile \in Files
  BY FileFacts DEF Files
<1>3. "write" \in Loop /\ "backup" \in Loop
  BY DEF Loop
<1>4. ASSUME Sets(r, [l EXCEPT !.at = "write"])
      PROVE  OthersStay(r) /\ Continues(r, "write", NoFile, l.mutations)
  <2>1. Sets(r, [rollout[r] EXCEPT !.at = "write", !.current = NoFile, !.mutations = l.mutations])
    BY <1>1, <1>4, SameLocals
  <2> QED
    BY <1>2, <1>3, <2>1, ContinuesLocals
<1>5. ASSUME Sets(r, Following([l EXCEPT !.failures = TRUE]))
      PROVE  OthersStay(r) /\ Leaves(r, l.mutations, TRUE)
  BY <1>2, <1>5, SameLocals, LeavesLocals
<1>6. ASSUME Sets(r, Following(l))
      PROVE  OthersStay(r) /\ Leaves(r, l.mutations, l.failures)
  <2>1. Sets(r, Following([rollout[r] EXCEPT !.mutations = l.mutations, !.failures = l.failures]))
    BY <1>6, SameLocals
  <2> QED
    BY <1>2, <2>1, LeavesLocals
<1>7. ASSUME Sets(r, [l EXCEPT !.at = "backup", !.current = c])
      PROVE  OthersStay(r) /\ Continues(r, "backup", c, l.mutations)
  <2>1. Sets(r, [rollout[r] EXCEPT !.at = "backup", !.current = c, !.mutations = l.mutations])
    BY <1>7, SameLocals
  <2> QED
    BY <1>2, <1>3, <2>1, ContinuesLocals
<1> HIDE DEF l, f, c
<1>8. /\ disturbed \subseteq disturbed' /\ overwritten \subseteq overwritten'
      /\ disturbed' \subseteq disturbed \cup {r} /\ overwritten' \subseteq overwritten \cup {f}
  BY <1>1
<1>9. /\ OthersStay(r)
      /\ \/ /\ Continues(r, "write", NoFile, l.mutations)
            /\ c = NoFile \/ (r \in disturbed' /\ f \in overwritten')
         \/ c = NextContent(f, c) /\ c # NoFile /\ Leaves(r, l.mutations, l.failures)
         \/ Leaves(r, l.mutations, TRUE)
         \/ c # NoFile /\ Continues(r, "backup", c, l.mutations)
  BY <1>1, <1>4, <1>5, <1>6, <1>7
<1> QED
  BY <1>1, <1>8, <1>9 DEF l, f, c

LEMMA BackUpLocals ==
  ASSUME RolloutTypes, NEW r \in Rollouts, BackUp(r)
  PROVE  LET l == rollout[r] IN
         /\ OthersStay(r) /\ l.at = "backup"
         /\ \/ /\ Continues(r, "write", l.current, l.mutations)
               /\ backups' = [backups EXCEPT ![File(r)] = @ \cup {l.current.text}]
            \/ Leaves(r, l.mutations, TRUE) /\ backups' = backups
<1> DEFINE l == rollout[r]
           saving == backups' = [backups EXCEPT ![File(r)] = @ \cup {l.current.text}]
<1>1. /\ l.at = "backup"
      /\ \/ saving /\ Sets(r, [l EXCEPT !.at = "write"])
         \/ Sets(r, Following([l EXCEPT !.failures = TRUE])) /\ backups' = backups
  BY DEF BackUp, TargetFails
<1>2. l.mutations \in Seq(TargetFiles \X Files) /\ l.current \in Files /\ "write" \in Loop
  BY FileFacts DEF Loop
<1>3. ASSUME Sets(r, [l EXCEPT !.at = "write"])
      PROVE  OthersStay(r) /\ Continues(r, "write", l.current, l.mutations)
  BY <1>2, <1>3, SameLocals, ContinuesLocals
<1>4. ASSUME Sets(r, Following([l EXCEPT !.failures = TRUE]))
      PROVE  OthersStay(r) /\ Leaves(r, l.mutations, TRUE)
  BY <1>2, <1>4, SameLocals, LeavesLocals
<1> QED
  BY <1>1, <1>3, <1>4

\* What r has mutated once it has remembered the current target.
Remembering(r) == Append(rollout[r].mutations, <<File(r), rollout[r].current>>)

LEMMA TruncateLocals ==
  ASSUME RolloutTypes, NEW r \in Rollouts, Truncate(r)
  PROVE  /\ OthersStay(r) /\ rollout[r].at = "write"
         /\ Remembering(r) \in Seq(TargetFiles \X Files)
         /\ \/ /\ Continues(r, "fill", rollout[r].current, Remembering(r))
               /\ instructions' = [instructions EXCEPT ![File(r)] = EmptyFile]
            \/ Leaves(r, Remembering(r), TRUE) /\ instructions' = instructions
<1> DEFINE l == [rollout[r] EXCEPT !.mutations = Remembering(r)]
<1>1. /\ rollout[r].at = "write"
      /\ \/ /\ Sets(r, [l EXCEPT !.at = "fill"])
            /\ instructions' = [instructions EXCEPT ![File(r)] = EmptyFile]
         \/ Sets(r, Following([l EXCEPT !.failures = TRUE])) /\ instructions' = instructions
  BY DEF Truncate, Remembering
<1>2. /\ rollout[r] \in RolloutLocals /\ rollout[r].current \in Files /\ "fill" \in Loop
      /\ Remembering(r) \in Seq(TargetFiles \X Files)
  BY FileFacts DEF Loop, RolloutTypes, Remembering
<1>3. /\ [l EXCEPT !.at = "fill"] = [rollout[r] EXCEPT !.at = "fill",
             !.current = rollout[r].current, !.mutations = Remembering(r)]
      /\ [l EXCEPT !.failures = TRUE]
             = [rollout[r] EXCEPT !.mutations = Remembering(r), !.failures = TRUE]
  BY <1>2 DEF RolloutLocals
<1>4. ASSUME Sets(r, [l EXCEPT !.at = "fill"])
      PROVE  OthersStay(r) /\ Continues(r, "fill", rollout[r].current, Remembering(r))
  BY <1>2, <1>3, <1>4, ContinuesLocals
<1>5. ASSUME Sets(r, Following([l EXCEPT !.failures = TRUE]))
      PROVE  OthersStay(r) /\ Leaves(r, Remembering(r), TRUE)
  BY <1>2, <1>3, <1>5, LeavesLocals
<1> QED
  BY <1>1, <1>2, <1>4, <1>5

LEMMA FillLocals ==
  ASSUME RolloutTypes, NEW r \in Rollouts, Fill(r)
  PROVE  LET l == rollout[r] IN
         /\ OthersStay(r) /\ l.at = "fill"
         /\ \/ /\ Continues(r, "verify", l.current, l.mutations)
               /\ instructions' = [instructions EXCEPT ![File(r)] = NextContent(File(r), l.current)]
            \/ Leaves(r, l.mutations, TRUE) /\ instructions' = instructions
<1> DEFINE l == rollout[r]
           put == instructions' = [instructions EXCEPT ![File(r)] = NextContent(File(r), l.current)]
<1>1. /\ l.at = "fill"
      /\ \/ put /\ Sets(r, [l EXCEPT !.at = "verify"])
         \/ Sets(r, Following([l EXCEPT !.failures = TRUE])) /\ instructions' = instructions
  BY DEF Fill, TargetFails
<1>2. l.mutations \in Seq(TargetFiles \X Files) /\ l.current \in Files /\ "verify" \in Loop
  BY FileFacts DEF Loop
<1>3. ASSUME Sets(r, [l EXCEPT !.at = "verify"])
      PROVE  OthersStay(r) /\ Continues(r, "verify", l.current, l.mutations)
  BY <1>2, <1>3, SameLocals, ContinuesLocals
<1>4. ASSUME Sets(r, Following([l EXCEPT !.failures = TRUE]))
      PROVE  OthersStay(r) /\ Leaves(r, l.mutations, TRUE)
  BY <1>2, <1>4, SameLocals, LeavesLocals
<1> QED
  BY <1>1, <1>3, <1>4

LEMMA VerifyLocals ==
  ASSUME RolloutTypes, NEW r \in Rollouts, Verify(r)
  PROVE  LET l == rollout[r] IN
         /\ OthersStay(r) /\ l.at = "verify"
         /\ Leaves(r, l.mutations, l.failures) \/ Leaves(r, l.mutations, TRUE)
<1> DEFINE l == rollout[r]
<1>1. /\ l.at = "verify"
      /\ Sets(r, Following(l)) \/ Sets(r, Following([l EXCEPT !.failures = TRUE]))
  BY DEF Verify, NextTarget, TargetFails
<1>2. l.mutations \in Seq(TargetFiles \X Files) /\ l.failures \in BOOLEAN
  BY FileFacts
<1>3. ASSUME Sets(r, Following(l))
      PROVE  OthersStay(r) /\ Leaves(r, l.mutations, l.failures)
  <2>1. Sets(r, Following([rollout[r] EXCEPT !.mutations = l.mutations, !.failures = l.failures]))
    BY <1>3, SameLocals
  <2> QED
    BY <1>2, <2>1, LeavesLocals
<1>4. ASSUME Sets(r, Following([l EXCEPT !.failures = TRUE]))
      PROVE  OthersStay(r) /\ Leaves(r, l.mutations, TRUE)
  BY <1>2, <1>4, SameLocals, LeavesLocals
<1> QED
  BY <1>1, <1>3, <1>4

(* The rollback ends, empties the file of the last mutation, undoes it, or *)
(* fails to.                                                               *)
LEMMA RollbackLocals ==
  ASSUME RolloutTypes, NEW r \in Rollouts, Rollback(r) \/ WriteBack(r)
  PROVE  LET l == rollout[r]
             n == Len(l.mutations)
             last == l.mutations[n]
         IN  /\ OthersStay(r) /\ l.at \in {"rollback", "restore"}
             /\ \/ /\ l.mutations = <<>> /\ rollout'[r].at = "failed"
                   /\ rollout'[r].mutations = <<>> /\ instructions' = instructions
                \/ /\ n \in DOMAIN l.mutations /\ rollout'[r].at = "rollback"
                   /\ rollout'[r].before = l.before
                   /\ DOMAIN rollout'[r].mutations = 1..n - 1
                   /\ \A i \in 1..n - 1 : rollout'[r].mutations[i] = l.mutations[i]
                   /\ \/ /\ instructions' = [instructions EXCEPT ![last[1]] = last[2]]
                         /\ rollout'[r].rollbackFailures = l.rollbackFailures
                      \/ /\ rollout'[r].rollbackFailures = TRUE /\ instructions' = instructions
                \/ /\ n \in DOMAIN l.mutations /\ rollout'[r].at = "restore"
                   /\ rollout'[r].before = l.before /\ rollout'[r].mutations = l.mutations
                   /\ rollout'[r].rollbackFailures = l.rollbackFailures
                   /\ instructions' = [instructions EXCEPT ![last[1]] = EmptyFile]
<1> DEFINE l == rollout[r]
           n == Len(l.mutations)
           last == l.mutations[n]
           shorter == SubSeq(l.mutations, 1, n - 1)
           rest == Undone(l)
           failing == NotUndone(l)
           restoring == [l EXCEPT !.at = "restore"]
           ended == [l EXCEPT !.at = "failed"]
<1>1. /\ l.at \in {"rollback", "restore"}
      /\ \/ l.mutations = <<>> /\ Sets(r, ended) /\ instructions' = instructions
         \/ /\ l.mutations # <<>>
            /\ \/ instructions' = [instructions EXCEPT ![last[1]] = last[2]] /\ Sets(r, rest)
               \/ instructions' = instructions /\ Sets(r, failing)
               \/ instructions' = [instructions EXCEPT ![last[1]] = EmptyFile] /\ Sets(r, restoring)
  BY DEF Rollback, WriteBack, LastMutation
<1>2. l \in RolloutLocals /\ l.mutations \in Seq(TargetFiles \X Files)
  BY FileFacts DEF RolloutTypes
<1>3. /\ ended \in RolloutLocals /\ ended.at = "failed"
      /\ "rollback" \notin Done /\ "restore" \notin Done
  BY <1>2 DEF RolloutLocals, Done
<1>4. ASSUME l.mutations # <<>>
      PROVE  /\ n \in DOMAIN l.mutations /\ shorter \in Seq(TargetFiles \X Files)
             /\ DOMAIN shorter = 1..n - 1 /\ \A i \in 1..n - 1 : shorter[i] = l.mutations[i]
  <2>1. n \in Nat \ {0}
    BY <1>2, <1>4
  <2> QED
    BY <1>2, <2>1
<1>5. ASSUME l.mutations # <<>>
      PROVE  /\ rest \in RolloutLocals /\ rest.at = "rollback" /\ rest.mutations = shorter
             /\ rest.before = l.before /\ rest.rollbackFailures = l.rollbackFailures
             /\ failing \in RolloutLocals /\ failing.at = "rollback" /\ failing.mutations = shorter
             /\ failing.before = l.before /\ failing.rollbackFailures = TRUE
  <2> HIDE DEF shorter
  <2>1. rest = [l EXCEPT !.at = "rollback", !.mutations = shorter]
    BY DEF Undone, shorter
  <2>2. failing = [rest EXCEPT !.rollbackFailures = TRUE]
    BY DEF NotUndone
  <2> HIDE DEF rest, failing
  <2>3. /\ rest \in RolloutLocals /\ rest.at = "rollback" /\ rest.mutations = shorter
        /\ rest.before = l.before /\ rest.rollbackFailures = l.rollbackFailures
    BY <1>2, <1>4, <1>5, <2>1 DEF RolloutLocals
  <2> QED
    BY <2>2, <2>3 DEF RolloutLocals
<1>6. /\ restoring \in RolloutLocals /\ restoring.at = "restore"
      /\ restoring.mutations = l.mutations
      /\ restoring.before = l.before /\ restoring.rollbackFailures = l.rollbackFailures
  BY <1>2 DEF RolloutLocals
<1> HIDE DEF shorter, rest, failing, restoring, ended
<1>7. CASE l.mutations = <<>>
  BY <1>1, <1>3, <1>7, SetsLocals DEF RolloutTypes, OthersStay
<1>8. CASE l.mutations # <<>> /\ Sets(r, rest)
                /\ instructions' = [instructions EXCEPT ![last[1]] = last[2]]
  <2>1. OthersStay(r) /\ rollout'[r] = rest
    BY <1>3, <1>5, <1>8, SetsLocals DEF RolloutTypes, OthersStay
  <2> QED
    BY <1>1, <1>4, <1>5, <1>8, <2>1
<1>9. CASE l.mutations # <<>> /\ Sets(r, failing) /\ instructions' = instructions
  <2>1. OthersStay(r) /\ rollout'[r] = failing
    BY <1>3, <1>5, <1>9, SetsLocals DEF RolloutTypes, OthersStay
  <2> QED
    BY <1>1, <1>4, <1>5, <1>9, <2>1
<1>10. CASE l.mutations # <<>> /\ Sets(r, restoring)
                 /\ instructions' = [instructions EXCEPT ![last[1]] = EmptyFile]
  <2>1. OthersStay(r) /\ rollout'[r] = restoring
    BY <1>3, <1>6, <1>10, SetsLocals DEF RolloutTypes, OthersStay
  <2> QED
    BY <1>1, <1>4, <1>6, <1>10, <2>1
<1> QED
  BY <1>1, <1>7, <1>8, <1>9, <1>10

LEMMA RolloutKilledLocals ==
  ASSUME RolloutTypes, NEW r \in Rollouts, RolloutKilled(r)
  PROVE  /\ OthersStay(r) /\ r \in Running
         /\ rollout'[r].at = "dead" /\ rollout'[r].mutations = <<>>
         /\ instructions' = instructions
<1> DEFINE dead == [NoRollout EXCEPT !.at = "dead"]
<1>1. dead \in RolloutLocals /\ dead.at = "dead"
  BY NoRolloutLocals DEF Done, NoRollout
<1>2. Sets(r, dead) /\ r \in Running /\ instructions' = instructions
  BY DEF RolloutKilled
<1> HIDE DEF dead
<1>3. OthersStay(r) /\ rollout'[r].at = "dead" /\ rollout'[r].mutations = <<>>
  BY <1>1, <1>2, SetsLocals DEF RolloutTypes, OthersStay
<1> QED
  BY <1>2, <1>3

LEMMA ContentFacts ==
  /\ EmptyFile \in Content /\ Content \subseteq Files /\ NoFile \in Files /\ NoFile \notin Content
  /\ \A c \in Content : c.text \in Nat
  /\ \A f, c : c \in Files => NextContent(f, c) \in Content
<1>1. 0 \in 0..(MaxEdits + 1) /\ 0..(MaxEdits + 1) \subseteq Nat
  BY RolloutAssumption
<1> QED
  BY <1>1, TargetsAssumption DEF EmptyFile, Content, Blocks, Files, NextContent

(* The local states stay well-formed when that of r does.                  *)
LEMMA LocalTypes ==
  ASSUME RolloutTypes, NEW r \in Rollouts, OthersStay(r),
         rollout'[r].at \in Done => rollout'[r].mutations = <<>>,
         rollout'[r].at = "target" => rollout'[r].current = NoFile,
         rollout'[r].at = "backup" => rollout'[r].current \in Content
  PROVE  /\ rollout' \in [Rollouts -> RolloutLocals]
         /\ \A q \in Rollouts :
              /\ rollout'[q].at \in Done => rollout'[q].mutations = <<>>
              /\ rollout'[q].at = "target" => rollout'[q].current = NoFile
              /\ rollout'[q].at = "backup" => rollout'[q].current \in Content
BY DEF RolloutTypes, OthersStay

LEMMA RolloutTypesNext == ASSUME RolloutTypes, [RolloutNext]_rolloutVars PROVE RolloutTypes'
<1> USE DEF RolloutTypes
<1>1. ASSUME NEW r \in Rollouts, Begin(r) PROVE RolloutTypes'
  BY <1>1, BeginLocals, LocalTypes DEF Begin, Done, Running
<1>2. ASSUME NEW r \in Rollouts, ReadTarget(r) PROVE RolloutTypes'
  <2>1. instructions[File(r)] \in Files /\ File(r) \in TargetFiles
    BY FileFacts
  <2>2. /\ rollout'[r].at \in Done => rollout'[r].mutations = <<>>
        /\ rollout'[r].at = "target" => rollout'[r].current = NoFile
        /\ rollout'[r].at = "backup" => rollout'[r].current \in Content
    BY <1>2, <2>1, ReadTargetLocals DEF Continues, Leaves, Done, Files
  <2>3. disturbed' \subseteq Rollouts /\ overwritten' \subseteq TargetFiles
    BY <1>2, <2>1, ReadTargetLocals
  <2>4. UNCHANGED <<instructions, edition, edits, backups>>
    BY <1>2 DEF ReadTarget
  <2> QED
    BY <1>2, <2>2, <2>3, <2>4, ReadTargetLocals, LocalTypes
<1>3. ASSUME NEW r \in Rollouts, BackUp(r) PROVE RolloutTypes'
  <2>1. /\ rollout'[r].at \in Done => rollout'[r].mutations = <<>>
        /\ rollout'[r].at = "target" => rollout'[r].current = NoFile
        /\ rollout'[r].at # "backup"
    BY <1>3, BackUpLocals DEF Continues, Leaves, Done
  <2>2. rollout[r].current.text \in Nat /\ File(r) \in TargetFiles
    BY <1>3, BackUpLocals, ContentFacts, FileFacts
  <2>3. backups' \in [TargetFiles -> SUBSET Nat]
    <3>1. backups[File(r)] \cup {rollout[r].current.text} \in SUBSET Nat
      BY <2>2
    <3> QED
      BY <1>3, <2>2, <3>1, BackUpLocals
  <2>4. UNCHANGED <<instructions, edition, edits, disturbed, overwritten>>
    BY <1>3 DEF BackUp
  <2> QED
    BY <1>3, <2>1, <2>3, <2>4, BackUpLocals, LocalTypes
<1>4. ASSUME NEW r \in Rollouts, Truncate(r) PROVE RolloutTypes'
  <2>1. /\ rollout'[r].at \in Done => rollout'[r].mutations = <<>>
        /\ rollout'[r].at = "target" => rollout'[r].current = NoFile
        /\ rollout'[r].at # "backup"
    BY <1>4, TruncateLocals DEF Continues, Leaves, Done
  <2>2. instructions' \in [TargetFiles -> Files]
    BY <1>4, TruncateLocals, ContentFacts, FileFacts
  <2>3. UNCHANGED <<edition, edits, backups, disturbed, overwritten>>
    BY <1>4 DEF Truncate
  <2> QED
    BY <1>4, <2>1, <2>2, <2>3, TruncateLocals, LocalTypes
<1>5. ASSUME NEW r \in Rollouts, Fill(r) PROVE RolloutTypes'
  <2>1. /\ rollout'[r].at \in Done => rollout'[r].mutations = <<>>
        /\ rollout'[r].at = "target" => rollout'[r].current = NoFile
        /\ rollout'[r].at # "backup"
    BY <1>5, FillLocals DEF Continues, Leaves, Done
  <2>2. NextContent(File(r), rollout[r].current) \in Files
    BY ContentFacts, FileFacts
  <2>3. instructions' \in [TargetFiles -> Files]
    BY <1>5, <2>2, FillLocals
  <2>4. UNCHANGED <<edition, edits, backups, disturbed, overwritten>>
    BY <1>5 DEF Fill
  <2> QED
    BY <1>5, <2>1, <2>3, <2>4, FillLocals, LocalTypes
<1>6. ASSUME NEW r \in Rollouts, Verify(r) PROVE RolloutTypes'
  <2>1. /\ rollout'[r].at \in Done => rollout'[r].mutations = <<>>
        /\ rollout'[r].at = "target" => rollout'[r].current = NoFile
        /\ rollout'[r].at # "backup"
    BY <1>6, VerifyLocals DEF Leaves, Done
  <2>2. UNCHANGED <<instructions, edition, edits, backups, disturbed, overwritten>>
    BY <1>6 DEF Verify
  <2> QED
    BY <1>6, <2>1, <2>2, VerifyLocals, LocalTypes
<1>7. ASSUME NEW r \in Rollouts, Rollback(r) \/ WriteBack(r) PROVE RolloutTypes'
  <2>1. /\ rollout'[r].at \in Done => rollout'[r].mutations = <<>>
        /\ rollout'[r].at # "target" /\ rollout'[r].at # "backup"
    BY <1>7, RollbackLocals DEF Done
  <2>2. \A i \in DOMAIN rollout[r].mutations :
          rollout[r].mutations[i][1] \in TargetFiles /\ rollout[r].mutations[i][2] \in Files
    BY FileFacts
  <2>3. instructions' \in [TargetFiles -> Files]
    BY <1>7, <2>2, RollbackLocals, ContentFacts
  <2>4. UNCHANGED <<edition, edits, backups, disturbed, overwritten>>
    BY <1>7 DEF Rollback, WriteBack
  <2> QED
    BY <1>7, <2>1, <2>3, <2>4, RollbackLocals, LocalTypes
<1>8. ASSUME NEW r \in Rollouts, RolloutKilled(r) PROVE RolloutTypes'
  <2>1. instructions' \in [TargetFiles -> Files]
    BY <1>8, RolloutKilledLocals, ContentFacts
  <2>2. UNCHANGED <<edition, edits, backups, disturbed, overwritten>>
    BY <1>8 DEF RolloutKilled
  <2> QED
    BY <1>8, <2>1, <2>2, RolloutKilledLocals, LocalTypes
<1>9. ASSUME NEW f \in TargetFiles, UserEdits(f) PROVE RolloutTypes'
  <2>1. /\ edits < MaxEdits /\ edits' = edits + 1
        /\ edition' = [edition EXCEPT ![f] = edits + 2]
        /\ instructions' = [instructions EXCEPT ![f].text = edits + 2]
        /\ disturbed' = disturbed \cup Running
        /\ overwritten' \subseteq overwritten \cup {f}
        /\ UNCHANGED <<backups, rollout>> /\ instructions[f] # NoFile
    BY <1>9 DEF UserEdits
  <2>2. edits + 2 \in 0..(MaxEdits + 1) /\ edits + 2 \in Nat /\ edits' \in 0..MaxEdits
    BY <2>1, RolloutAssumption
  <2>3. instructions[f] \in Content
    BY <2>1 DEF Files
  <2>4. [instructions[f] EXCEPT !.text = edits + 2] \in Files
    BY <2>2, <2>3 DEF Content, Files
  <2>5. instructions' \in [TargetFiles -> Files]
    BY <2>1, <2>4
  <2> QED
    BY <2>1, <2>2, <2>5 DEF Running
<1>10. CASE UNCHANGED rolloutVars
  BY <1>10 DEF rolloutVars
<1> QED
  BY <1>1, <1>2, <1>3, <1>4, <1>5, <1>6, <1>7, <1>8, <1>9, <1>10
  DEF RolloutNext, RolloutsNext, RolloutStep, UserNext

(* A step of r that takes nothing back leaves the others their savings.    *)
LEMMA OthersHaveSaved ==
  ASSUME RolloutTypes, WritersHaveSaved, NEW r \in Rollouts, OthersStay(r),
         edition' = edition, overwritten \subseteq overwritten',
         \A f \in TargetFiles : backups[f] \subseteq backups'[f],
         HasSaved(r)'
  PROVE  WritersHaveSaved'
<1>1. ASSUME NEW f \in TargetFiles, Saved(f) PROVE Saved(f)'
  BY <1>1 DEF Saved
<1>2. ASSUME NEW q \in Rollouts, q # r PROVE HasSaved(q)'
  <2>1. rollout'[q] = rollout[q] /\ File(q)' = File(q) /\ File(q) \in TargetFiles
    BY <1>2, FileFacts DEF OthersStay, File
  <2>2. \A i \in DOMAIN rollout[q].mutations : rollout[q].mutations[i][1] \in TargetFiles
    BY <1>2, FileFacts
  <2>3. HasSaved(q)
    BY DEF WritersHaveSaved
  <2> QED
    BY <1>1, <2>1, <2>2, <2>3 DEF HasSaved
<1> QED
  BY <1>2 DEF WritersHaveSaved

(* Leaving a target, a rollout keeps its savings.                          *)
LEMMA LeavingHasSaved ==
  ASSUME RolloutTypes, NEW r \in Rollouts, NEW mutations, NEW failures,
         Leaves(r, mutations, failures), edition' = edition, backups' = backups,
         overwritten \subseteq overwritten',
         \A i \in DOMAIN mutations : mutations[i][1] \notin overwritten => Saved(mutations[i][1])
  PROVE  HasSaved(r)'
BY DEF Leaves, Keeping, HasSaved, Saved

(* Overwriting files whose text is saved loses no text.                    *)
LEMMA SavedIsKept ==
  ASSUME RolloutTypes, UserTextKept, edition' = edition, backups' = backups,
         overwritten \subseteq overwritten',
         NEW f \in TargetFiles, NEW c \in Files,
         instructions' = instructions \/ instructions' = [instructions EXCEPT ![f] = c],
         f \notin overwritten => Saved(f)
  PROVE  UserTextKept'
BY DEF RolloutTypes, UserTextKept, Saved

LEMMA NoMutations == DOMAIN <<>> = {}
<1>1. <<>> \in Seq({}) /\ Len(<<>>) = 0
  OBVIOUS
<1> QED
  BY <1>1

LEMMA KeptNext ==
  ASSUME KeptInv, [RolloutNext]_rolloutVars
  PROVE  WritersHaveSaved' /\ UserTextKept'
<1> USE DEF KeptInv
<1> DEFINE Goal == WritersHaveSaved' /\ UserTextKept'
<1>0. ASSUME NEW r \in Rollouts
      PROVE  /\ HasSaved(r) /\ File(r) \in TargetFiles
             /\ \A i \in DOMAIN rollout[r].mutations :
                  rollout[r].mutations[i][1] \in TargetFiles /\ rollout[r].mutations[i][2] \in Files
  BY <1>0, FileFacts DEF WritersHaveSaved
<1>1. ASSUME NEW r \in Rollouts, Begin(r) PROVE Goal
  <2>1. UNCHANGED <<instructions, edition, backups, overwritten>>
    BY <1>1 DEF Begin
  <2>2. rollout'[r].at = "target" /\ DOMAIN rollout'[r].mutations = {}
    BY <1>1, BeginLocals, NoMutations
  <2>3. HasSaved(r)'
    BY <2>2 DEF HasSaved
  <2> QED
    BY <1>1, <2>1, <2>3, BeginLocals, OthersHaveSaved DEF UserTextKept
<1>2. ASSUME NEW r \in Rollouts, ReadTarget(r) PROVE Goal
  <2>1. UNCHANGED <<instructions, edition, backups>> /\ overwritten \subseteq overwritten'
    BY <1>2, ReadTargetLocals DEF ReadTarget
  <2>2. \A i \in DOMAIN rollout[r].mutations :
          rollout[r].mutations[i][1] \notin overwritten => Saved(rollout[r].mutations[i][1])
    BY <1>0 DEF HasSaved
  <2>3. UserTextKept'
    BY <2>1 DEF UserTextKept
  <2>4. CASE Leaves(r, rollout[r].mutations, rollout[r].failures) \/ Leaves(r, rollout[r].mutations, TRUE)
    BY <1>2, <2>1, <2>2, <2>3, <2>4, LeavingHasSaved, ReadTargetLocals, OthersHaveSaved
  <2>5. CASE /\ Continues(r, "write", NoFile, rollout[r].mutations)
             /\ instructions[File(r)] = NoFile \/ File(r) \in overwritten'
    <3>1. File(r) \notin overwritten' => Saved(File(r))
      BY <1>0, <2>1, <2>5 DEF UserTextKept, Saved
    <3>2. File(r)' = File(r)
      BY <2>5 DEF Continues, File
    <3>3. HasSaved(r)'
      BY <2>1, <2>2, <2>5, <3>1, <3>2 DEF Continues, Keeping, HasSaved, Saved
    <3> QED
      BY <1>2, <2>1, <2>3, <3>3, ReadTargetLocals, OthersHaveSaved
  <2>6. CASE instructions[File(r)] # NoFile
               /\ Continues(r, "backup", instructions[File(r)], rollout[r].mutations)
    <3>1. File(r) \notin overwritten =>
             Saved(File(r)) \/ instructions[File(r)].text = edition[File(r)]
      BY <1>0 DEF UserTextKept, Saved
    <3>2. File(r)' = File(r)
      BY <2>6 DEF Continues, File
    <3>3. HasSaved(r)'
      BY <2>1, <2>2, <2>6, <3>1, <3>2 DEF Continues, Keeping, HasSaved, Saved
    <3> QED
      BY <1>2, <2>1, <2>3, <3>3, ReadTargetLocals, OthersHaveSaved
  <2> QED
    BY <1>2, <2>4, <2>5, <2>6, ReadTargetLocals
<1>3. ASSUME NEW r \in Rollouts, BackUp(r) PROVE Goal
  <2>1. UNCHANGED <<instructions, edition, overwritten>>
    BY <1>3 DEF BackUp
  <2>2. \A f \in TargetFiles : backups[f] \subseteq backups'[f]
    BY <1>0, <1>3, BackUpLocals DEF RolloutTypes
  <2>3. UserTextKept'
    BY <2>1, <2>2 DEF UserTextKept
  <2>4. CASE Leaves(r, rollout[r].mutations, TRUE) /\ backups' = backups
    BY <1>0, <1>3, <2>1, <2>2, <2>3, <2>4, LeavingHasSaved, BackUpLocals, OthersHaveSaved DEF HasSaved
  <2>5. CASE /\ Continues(r, "write", rollout[r].current, rollout[r].mutations)
             /\ backups' = [backups EXCEPT ![File(r)] = @ \cup {rollout[r].current.text}]
    <3>1. rollout[r].at = "backup" /\ HasSaved(r)
      BY <1>0, <1>3, BackUpLocals
    <3>2. File(r) \notin overwritten => Saved(File(r))'
      <4>1. rollout[r].current.text \in backups'[File(r)] /\ backups[File(r)] \subseteq backups'[File(r)]
        BY <1>0, <2>5 DEF RolloutTypes
      <4>2. File(r)' = File(r)
        BY <2>5 DEF Continues, File
      <4> QED
        BY <2>1, <3>1, <4>1, <4>2 DEF HasSaved, Saved
    <3>3. \A i \in DOMAIN rollout[r].mutations :
            rollout[r].mutations[i][1] \notin overwritten => Saved(rollout[r].mutations[i][1])
      BY <3>1 DEF HasSaved
    <3>4. ASSUME NEW i \in DOMAIN rollout'[r].mutations, rollout'[r].mutations[i][1] \notin overwritten'
          PROVE  Saved(rollout[r].mutations[i][1])'
      <4>1. rollout'[r].mutations = rollout[r].mutations
        BY <2>5 DEF Continues, Keeping
      <4>2. i \in DOMAIN rollout[r].mutations /\ rollout[r].mutations[i][1] \in TargetFiles
        BY <1>0, <3>4, <4>1
      <4> QED
        BY <2>1, <2>2, <3>3, <3>4, <4>1, <4>2 DEF Saved
    <3>5. HasSaved(r)'
      <4>1. rollout'[r].at = "write" /\ File(r)' = File(r)
        BY <2>5 DEF Continues, File
      <4>2. File(r)' \notin overwritten' => Saved(File(r))'
        BY <2>1, <3>2, <4>1
      <4> QED
        BY <2>1, <3>4, <4>1, <4>2 DEF HasSaved, Saved
    <3> QED
      BY <1>3, <2>1, <2>2, <2>3, <3>5, BackUpLocals, OthersHaveSaved
  <2> QED
    BY <1>3, <2>4, <2>5, BackUpLocals
<1>4. ASSUME NEW r \in Rollouts, Truncate(r) PROVE Goal
  <2>1. UNCHANGED <<edition, backups, overwritten>>
    BY <1>4 DEF Truncate
  <2>2. rollout[r].at = "write" /\ (File(r) \notin overwritten => Saved(File(r)))
    BY <1>0, <1>4, TruncateLocals DEF HasSaved
  <2>3. UserTextKept'
    BY <1>0, <1>4, <2>1, <2>2, TruncateLocals, ContentFacts, SavedIsKept
  <2>4. \A i \in DOMAIN Remembering(r) :
          Remembering(r)[i][1] \notin overwritten => Saved(Remembering(r)[i][1])
    <3>1. /\ rollout[r].mutations \in Seq(TargetFiles \X Files)
          /\ HasSaved(r)
      BY <1>0, FileFacts
    <3> QED
      BY <2>2, <3>1 DEF Remembering, HasSaved
  <2>5. CASE Leaves(r, Remembering(r), TRUE)
    BY <1>4, <2>1, <2>3, <2>4, <2>5, LeavingHasSaved, TruncateLocals, OthersHaveSaved
  <2>6. CASE Continues(r, "fill", rollout[r].current, Remembering(r))
    <3>1. File(r)' = File(r)
      BY <2>6 DEF Continues, File
    <3>2. HasSaved(r)'
      BY <2>1, <2>2, <2>4, <2>6, <3>1 DEF Continues, Keeping, HasSaved, Saved
    <3> QED
      BY <1>4, <2>1, <2>3, <3>2, TruncateLocals, OthersHaveSaved
  <2> QED
    BY <1>4, <2>5, <2>6, TruncateLocals
<1>5. ASSUME NEW r \in Rollouts, Fill(r) PROVE Goal
  <2>1. UNCHANGED <<edition, backups, overwritten>>
    BY <1>5 DEF Fill
  <2>2. rollout[r].at = "fill" /\ (File(r) \notin overwritten => Saved(File(r)))
    BY <1>0, <1>5, FillLocals DEF HasSaved
  <2>3. NextContent(File(r), rollout[r].current) \in Files
    BY ContentFacts, FileFacts
  <2>4. UserTextKept'
    BY <1>0, <1>5, <2>1, <2>2, <2>3, FillLocals, SavedIsKept
  <2>5. \A i \in DOMAIN rollout[r].mutations :
          rollout[r].mutations[i][1] \notin overwritten => Saved(rollout[r].mutations[i][1])
    BY <1>0 DEF HasSaved
  <2>6. CASE Leaves(r, rollout[r].mutations, TRUE)
    BY <1>5, <2>1, <2>4, <2>5, <2>6, LeavingHasSaved, FillLocals, OthersHaveSaved
  <2>7. CASE Continues(r, "verify", rollout[r].current, rollout[r].mutations)
    <3>1. HasSaved(r)'
      BY <2>1, <2>5, <2>7 DEF Continues, Keeping, HasSaved, Saved
    <3> QED
      BY <1>5, <2>1, <2>4, <3>1, FillLocals, OthersHaveSaved
  <2> QED
    BY <1>5, <2>6, <2>7, FillLocals
<1>6. ASSUME NEW r \in Rollouts, Verify(r) PROVE Goal
  <2>1. UNCHANGED <<instructions, edition, backups, overwritten>>
    BY <1>6 DEF Verify
  <2>2. \A i \in DOMAIN rollout[r].mutations :
          rollout[r].mutations[i][1] \notin overwritten => Saved(rollout[r].mutations[i][1])
    BY <1>0 DEF HasSaved
  <2> QED
    BY <1>6, <2>1, <2>2, LeavingHasSaved, VerifyLocals, OthersHaveSaved DEF UserTextKept
<1>7. ASSUME NEW r \in Rollouts, Rollback(r) \/ WriteBack(r) PROVE Goal
  <2>1. UNCHANGED <<edition, backups, overwritten>>
    BY <1>7 DEF Rollback, WriteBack
  <2>2. \A i \in DOMAIN rollout[r].mutations :
          rollout[r].mutations[i][1] \notin overwritten => Saved(rollout[r].mutations[i][1])
    BY <1>0 DEF HasSaved
  <2>3. HasSaved(r)'
    <3>1. Len(rollout[r].mutations) \in Nat /\ DOMAIN rollout[r].mutations = 1..Len(rollout[r].mutations)
      BY FileFacts
    <3> QED
      <4>1. rollout'[r].at \in {"failed", "rollback", "restore"}
        BY <1>7, RollbackLocals
      <4>2. \A i \in DOMAIN rollout'[r].mutations :
              i \in DOMAIN rollout[r].mutations /\ rollout'[r].mutations[i] = rollout[r].mutations[i]
        <5>1. CASE rollout'[r].mutations = <<>>
          BY <5>1, NoMutations
        <5>3. CASE rollout'[r].mutations = rollout[r].mutations
          BY <5>3
        <5>2. CASE rollout'[r].mutations # <<>> /\ rollout'[r].mutations # rollout[r].mutations
          <6> DEFINE n == Len(rollout[r].mutations)
          <6>1. /\ DOMAIN rollout'[r].mutations = 1..n - 1
                /\ \A i \in 1..n - 1 : rollout'[r].mutations[i] = rollout[r].mutations[i]
            BY <1>7, <5>2, RollbackLocals
          <6>2. 1..n - 1 \subseteq 1..n
            BY <3>1
          <6> QED
            BY <3>1, <6>1, <6>2
        <5> QED
          BY <5>1, <5>2, <5>3
      <4> QED
        BY <2>1, <2>2, <4>1, <4>2 DEF HasSaved, Saved
  <2>4. UserTextKept'
    <3>1. CASE instructions' = instructions
      BY <2>1, <3>1 DEF UserTextKept
    <3>2. CASE instructions' # instructions
      <4> DEFINE last == rollout[r].mutations[Len(rollout[r].mutations)]
      <4>1. /\ Len(rollout[r].mutations) \in DOMAIN rollout[r].mutations
            /\ \/ instructions' = [instructions EXCEPT ![last[1]] = last[2]]
               \/ instructions' = [instructions EXCEPT ![last[1]] = EmptyFile]
        BY <1>7, <3>2, RollbackLocals
      <4>2. /\ last[1] \in TargetFiles /\ last[2] \in Files /\ EmptyFile \in Files
            /\ last[1] \notin overwritten => Saved(last[1])
        BY <1>0, <2>2, <4>1, ContentFacts
      <4> HIDE DEF last
      <4> QED
        BY <2>1, <4>1, <4>2, SavedIsKept
    <3> QED
      BY <3>1, <3>2
  <2> QED
    BY <1>7, <2>1, <2>3, <2>4, RollbackLocals, OthersHaveSaved
<1>8. ASSUME NEW r \in Rollouts, RolloutKilled(r) PROVE Goal
  <2>1. UNCHANGED <<edition, backups, overwritten>>
    BY <1>8 DEF RolloutKilled
  <2>2. UserTextKept'
    BY <1>8, <2>1, RolloutKilledLocals DEF UserTextKept
  <2>3. HasSaved(r)'
    BY <1>8, RolloutKilledLocals DEF HasSaved
  <2> QED
    BY <1>8, <2>1, <2>2, <2>3, RolloutKilledLocals, OthersHaveSaved
<1>9. ASSUME NEW f \in TargetFiles, UserEdits(f) PROVE Goal
  <2>1. /\ edition' = [edition EXCEPT ![f] = edits + 2] /\ instructions[f] # NoFile
        /\ instructions' = [instructions EXCEPT ![f].text = edits + 2]
        /\ UNCHANGED <<backups, rollout>>
        /\ overwritten' = IF \E r \in Rollouts : MayWrite(r, f)
                          THEN overwritten \cup {f} ELSE overwritten \ {f}
    BY <1>9 DEF UserEdits
  <2>2. instructions'[f] # NoFile /\ instructions'[f].text = edition'[f]
    <3>1. instructions[f] \in Content
      BY <2>1 DEF RolloutTypes, Files
    <3>2. edits + 2 \in 0..(MaxEdits + 1)
      BY <1>9, RolloutAssumption DEF RolloutTypes, UserEdits
    <3> DEFINE saved == [instructions[f] EXCEPT !.text = edits + 2]
    <3>3. saved.text = edits + 2 /\ saved \in Content
      BY <3>1, <3>2 DEF Content
    <3>4. instructions'[f] = saved /\ edition'[f] = edits + 2
      BY <2>1 DEF RolloutTypes
    <3> HIDE DEF saved
    <3> QED
      BY <3>3, <3>4, ContentFacts
  <2>3. \A g \in TargetFiles \ {f} : edition'[g] = edition[g] /\ instructions'[g] = instructions[g]
    BY <2>1 DEF RolloutTypes
  <2>4. UserTextKept'
    BY <2>1, <2>2, <2>3 DEF UserTextKept
  <2>5. ASSUME NEW r \in Rollouts PROVE HasSaved(r)'
    <3>1. HasSaved(r) /\ File(r)' = File(r) /\ rollout'[r] = rollout[r] /\ File(r) \in TargetFiles
      BY <1>0, <2>1 DEF File
    <3>2. rollout[r].mutations # <<>> => r \in Running
      BY DEF RolloutTypes, Running, Done
    <3>3. ASSUME NEW g \in TargetFiles, g \notin overwritten', MayWrite(r, g)
          PROVE  /\ g \notin overwritten /\ edition'[g] = edition[g]
                 /\ Saved(g) => Saved(g)'
      BY <2>1, <2>3, <3>3 DEF Saved
    <3>4. ASSUME rollout[r].at \in {"backup", "write", "fill"} PROVE MayWrite(r, File(r))
      BY <3>4 DEF MayWrite, Running
    <3>5. ASSUME NEW i \in DOMAIN rollout[r].mutations PROVE MayWrite(r, rollout[r].mutations[i][1])
      <4>1. rollout[r].mutations # <<>>
        BY <3>5
      <4> QED
        BY <3>2, <4>1 DEF MayWrite
    <3>6. \A i \in DOMAIN rollout[r].mutations : rollout[r].mutations[i][1] \in TargetFiles
      BY <1>0
    <3> QED
      BY <3>1, <3>3, <3>4, <3>5, <3>6 DEF HasSaved
  <2> QED
    BY <2>4, <2>5 DEF WritersHaveSaved
<1>10. CASE UNCHANGED rolloutVars
  BY <1>10 DEF rolloutVars, WritersHaveSaved, HasSaved, UserTextKept, Saved, File
<1> QED
  BY <1>1, <1>2, <1>3, <1>4, <1>5, <1>6, <1>7, <1>8, <1>9, <1>10
  DEF RolloutNext, RolloutsNext, RolloutStep, UserNext

LEMMA KeptInit == RolloutInit => KeptInv
<1> SUFFICES ASSUME RolloutInit PROVE KeptInv
  OBVIOUS
<1> USE DEF RolloutInit
<1>1. instructions \in [TargetFiles -> Files]
  BY TargetsAssumption DEF Files
<1>2. edition \in [TargetFiles -> Nat]
  <2>1. ASSUME NEW f \in TargetFiles, instructions[f] # NoFile PROVE instructions[f].text \in Nat
    BY <1>1, <2>1, ContentFacts DEF Files
  <2> QED
    BY <2>1
<1>3. NoRollout \in RolloutLocals /\ NoRollout.at = "idle" /\ NoRollout.mutations = <<>>
  <2>1. 1 \in 1..Len(Targets) /\ <<>> \in Seq(TargetFiles \X Files) /\ NoFile \in Files
    BY TargetFacts DEF Files
  <2> QED
    BY <2>1 DEF NoRollout, RolloutLocals, Done
<1>4. RolloutTypes
  BY <1>1, <1>2, <1>3, RolloutAssumption DEF RolloutTypes
<1>5. WritersHaveSaved
  BY <1>3, NoMutations DEF WritersHaveSaved, HasSaved
<1>6. UserTextKept
  BY DEF UserTextKept
<1> QED
  BY <1>4, <1>5, <1>6 DEF KeptInv

LEMMA KeptAlways == RolloutSpec => []KeptInv
<1>1. ASSUME KeptInv, [RolloutNext]_rolloutVars PROVE KeptInv'
  BY <1>1, KeptNext, RolloutTypesNext DEF KeptInv
<1> QED
  BY <1>1, KeptInit, PTL DEF RolloutSpec

(* A rollout remembers at most one mutation for each target it has         *)
(* reached, so the rollback never has more to undo than there are files.   *)
Remembered(l) ==
    /\ l.at \in {"target", "backup", "write"} => Len(l.mutations) < l.next
    /\ Len(l.mutations) <= Len(Targets)
    /\ l.at \in {"fill", "verify"} => Len(l.mutations) <= l.next
AllRemembered == \A r \in Rollouts : Remembered(rollout[r])

LEMMA NothingRemembered == Len(<<>>) = 0
OBVIOUS

LEMMA LeavingRemembered ==
  ASSUME RolloutTypes, NEW r \in Rollouts, NEW mutations \in Seq(TargetFiles \X Files), NEW failures,
         Leaves(r, mutations, failures), Len(mutations) <= rollout[r].next
  PROVE  Remembered(rollout[r])'
<1>1. /\ rollout[r].next \in 1..Len(Targets) /\ Len(Targets) \in Nat \ {0} /\ Len(mutations) \in Nat
      /\ Len(mutations) <= Len(Targets) /\ Len(mutations) < rollout[r].next + 1
  <2>1. rollout[r].next \in 1..Len(Targets) /\ Len(Targets) \in Nat \ {0} /\ Len(mutations) \in Nat
    BY FileFacts, TargetFacts
  <2> QED
    BY <2>1
<1>2. CASE rollout'[r].at = "target" /\ rollout'[r].next = rollout[r].next + 1
              /\ rollout'[r].mutations = mutations
  BY <1>1, <1>2 DEF Remembered
<1>3. CASE rollout'[r].at = "rollback" /\ rollout'[r].mutations = mutations
  BY <1>1, <1>3 DEF Remembered
<1>4. CASE rollout'[r].at = "ok" /\ rollout'[r].mutations = <<>>
  BY <1>1, <1>4, NothingRemembered DEF Remembered
<1> QED
  BY <1>2, <1>3, <1>4 DEF Leaves, Keeping

LEMMA AllRememberedNext ==
  ASSUME RolloutTypes, AllRemembered, [RolloutNext]_rolloutVars
  PROVE  AllRemembered'
<1>0. ASSUME NEW r \in Rollouts
      PROVE  /\ rollout[r].mutations \in Seq(TargetFiles \X Files)
             /\ Len(rollout[r].mutations) \in Nat /\ rollout[r].next \in 1..Len(Targets)
             /\ Len(Targets) \in Nat \ {0} /\ Remembered(rollout[r])
  BY <1>0, FileFacts, TargetFacts DEF AllRemembered
<1>1. ASSUME NEW r \in Rollouts, OthersStay(r), Remembered(rollout[r])' PROVE AllRemembered'
  BY <1>1 DEF AllRemembered, OthersStay, Remembered
<1>2. ASSUME NEW r \in Rollouts, NEW at, NEW current,
             Continues(r, at, current, rollout[r].mutations),
             \/ rollout[r].at \in {"target", "backup", "write"}
             \/ at = "verify" /\ rollout[r].at = "fill"
      PROVE  Remembered(rollout[r])'
  <2>1. /\ rollout'[r].next = rollout[r].next /\ rollout'[r].mutations = rollout[r].mutations
        /\ rollout'[r].at = at
    BY <1>2 DEF Continues, Keeping
  <2> QED
    BY <1>0, <1>2, <2>1 DEF Remembered
<1>3. ASSUME NEW r \in Rollouts, rollout[r].at \in Loop, NEW failures,
             Leaves(r, rollout[r].mutations, failures)
      PROVE  Remembered(rollout[r])'
  <2>1. Len(rollout[r].mutations) <= rollout[r].next
    BY <1>0, <1>3 DEF Remembered, Loop
  <2> QED
    BY <1>0, <1>3, <2>1, LeavingRemembered
<1>4. ASSUME NEW r \in Rollouts, Begin(r) PROVE AllRemembered'
  <2>1. /\ OthersStay(r) /\ rollout'[r].at = "target" /\ rollout'[r].next = 1
        /\ Len(rollout'[r].mutations) = 0
    BY <1>4, BeginLocals, NothingRemembered
  <2>2. 0 < 1 /\ 0 <= Len(Targets)
    BY <1>0
  <2> QED
    BY <1>1, <2>1, <2>2 DEF Remembered
<1>5. ASSUME NEW r \in Rollouts, ReadTarget(r) PROVE AllRemembered'
  BY <1>1, <1>2, <1>3, <1>5, ReadTargetLocals DEF Loop
<1>6. ASSUME NEW r \in Rollouts, BackUp(r) PROVE AllRemembered'
  BY <1>1, <1>2, <1>3, <1>6, BackUpLocals DEF Loop
<1>7. ASSUME NEW r \in Rollouts, Truncate(r) PROVE AllRemembered'
  <2>1. /\ OthersStay(r) /\ rollout[r].at = "write" /\ Remembering(r) \in Seq(TargetFiles \X Files)
        /\ Continues(r, "fill", rollout[r].current, Remembering(r)) \/ Leaves(r, Remembering(r), TRUE)
    BY <1>7, TruncateLocals
  <2>2. Len(Remembering(r)) = Len(rollout[r].mutations) + 1
    BY <1>0 DEF Remembering
  <2>3. Len(Remembering(r)) <= rollout[r].next /\ Len(Remembering(r)) <= Len(Targets)
    BY <1>0, <2>1, <2>2 DEF Remembered
  <2>4. CASE Continues(r, "fill", rollout[r].current, Remembering(r))
    <3>1. rollout'[r].at = "fill" /\ rollout'[r].next = rollout[r].next
          /\ rollout'[r].mutations = Remembering(r)
      BY <2>4 DEF Continues, Keeping
    <3> QED
      BY <1>1, <2>1, <2>3, <3>1 DEF Remembered
  <2>5. CASE Leaves(r, Remembering(r), TRUE)
    BY <1>1, <2>1, <2>3, <2>5, LeavingRemembered
  <2> QED
    BY <2>1, <2>4, <2>5
<1>8. ASSUME NEW r \in Rollouts, Fill(r) PROVE AllRemembered'
  BY <1>1, <1>2, <1>3, <1>8, FillLocals DEF Loop
<1>9. ASSUME NEW r \in Rollouts, Verify(r) PROVE AllRemembered'
  BY <1>1, <1>3, <1>9, VerifyLocals DEF Loop
<1>10. ASSUME NEW r \in Rollouts, Rollback(r) \/ WriteBack(r) PROVE AllRemembered'
  <2> DEFINE n == Len(rollout[r].mutations)
  <2>1. /\ OthersStay(r)
        /\ \/ rollout'[r].at = "failed" /\ rollout'[r].mutations = <<>>
           \/ /\ n \in DOMAIN rollout[r].mutations /\ rollout'[r].at = "rollback"
              /\ DOMAIN rollout'[r].mutations = 1..n - 1
           \/ rollout'[r].at = "restore" /\ rollout'[r].mutations = rollout[r].mutations
    BY <1>10, RollbackLocals
  <2>2. rollout'[r].mutations \in Seq(TargetFiles \X Files)
    BY <2>1 DEF OthersStay, RolloutLocals
  <2>3. CASE rollout'[r].at = "failed" /\ rollout'[r].mutations = <<>>
    BY <1>0, <1>1, <2>1, <2>3, NothingRemembered DEF Remembered
  <2>4. CASE /\ n \in DOMAIN rollout[r].mutations /\ rollout'[r].at = "rollback"
             /\ DOMAIN rollout'[r].mutations = 1..n - 1
    <3>1. n \in 1..n /\ n \in Nat
      BY <1>0, <2>4
    <3>2. Len(rollout'[r].mutations) = n - 1
      BY <2>2, <2>4, <3>1
    <3>3. n <= Len(Targets) /\ Len(Targets) \in Nat
      BY <1>0 DEF Remembered
    <3>4. Len(rollout'[r].mutations) <= Len(Targets)
      BY <3>1, <3>2, <3>3
    <3> QED
      BY <1>1, <2>1, <2>4, <3>4 DEF Remembered
  <2>5. CASE rollout'[r].at = "restore" /\ rollout'[r].mutations = rollout[r].mutations
    BY <1>0, <1>1, <2>1, <2>5 DEF Remembered
  <2> QED
    BY <2>1, <2>3, <2>4, <2>5
<1>11. ASSUME NEW r \in Rollouts, RolloutKilled(r) PROVE AllRemembered'
  BY <1>0, <1>1, <1>11, RolloutKilledLocals, NothingRemembered DEF Remembered
<1>12. CASE rollout' = rollout
  BY <1>12 DEF AllRemembered, Remembered
<1> QED
  BY <1>4, <1>5, <1>6, <1>7, <1>8, <1>9, <1>10, <1>11, <1>12
  DEF RolloutNext, RolloutsNext, RolloutStep, UserNext, UserEdits, rolloutVars

(* The editions and the faults stay within their bounds.                   *)
Editions == 0..(MaxEdits + 1)
EditionsFit ==
    /\ edition \in [TargetFiles -> Editions] /\ backups \in [TargetFiles -> SUBSET Editions]
    /\ rolloutFaults \in 0..MaxRolloutFaults

LEMMA EditionsFitNext ==
  ASSUME RolloutTypes, EditionsFit, [RolloutNext]_rolloutVars
  PROVE  EditionsFit'
<1>1. rolloutFaults' = rolloutFaults \/ RolloutFault
  BY DEF RolloutNext, RolloutsNext, RolloutStep, UserNext, UserEdits, rolloutVars, Begin, ReadTarget,
     BackUp, Truncate, Fill, Verify, Rollback, WriteBack, RolloutKilled
<1>2. rolloutFaults' \in 0..MaxRolloutFaults
  BY <1>1, RolloutAssumption DEF RolloutFault, EditionsFit
<1>3. ASSUME NEW r \in Rollouts, BackUp(r) PROVE EditionsFit'
  <2>1. rollout[r].current.text \in Editions /\ File(r) \in TargetFiles
    BY <1>3, BackUpLocals, FileFacts DEF RolloutTypes, Content, Editions
  <2>2. backups[File(r)] \cup {rollout[r].current.text} \in SUBSET Editions
    BY <2>1 DEF EditionsFit
  <2>3. backups' \in [TargetFiles -> SUBSET Editions]
    BY <1>3, <2>1, <2>2, BackUpLocals DEF EditionsFit
  <2> QED
    BY <1>2, <1>3, <2>3 DEF BackUp, EditionsFit
<1>4. ASSUME NEW f \in TargetFiles, UserEdits(f) PROVE EditionsFit'
  <2>1. edits + 2 \in Editions
    BY <1>4, RolloutAssumption DEF UserEdits, RolloutTypes, Editions
  <2> QED
    BY <1>2, <1>4, <2>1 DEF UserEdits, EditionsFit
<1>5. CASE UNCHANGED <<edition, backups>>
  BY <1>2, <1>5 DEF EditionsFit
<1> QED
  BY <1>3, <1>4, <1>5 DEF RolloutNext, RolloutsNext, RolloutStep, UserNext, rolloutVars, Begin,
     ReadTarget, Truncate, Fill, Verify, Rollback, WriteBack, RolloutKilled

(* Whatever fails and whoever dies, with any number of rollouts at once,   *)
(* the files stay instruction files, no rollback has more to undo than     *)
(* there are files, and the text that the user saved last is in its file   *)
(* or in a backup, unless it was saved under a rollout or the file was     *)
(* taken for missing.                                                      *)
THEOREM UserTextIsKept == RolloutSpec => []RolloutSafe
<1>1. ASSUME KeptInv, AllRemembered, EditionsFit PROVE RolloutSafe
  <2>1. RolloutTypes
    BY <1>1 DEF KeptInv
  <2>2. ASSUME NEW r \in Rollouts
        PROVE  /\ rollout[r].at \in {"idle", "target", "backup", "write", "fill", "verify",
                                     "rollback", "restore", "ok", "failed", "dead"}
               /\ rollout[r].next \in DOMAIN Targets
               /\ Len(rollout[r].mutations) <= Len(Targets)
    <3>1. rollout[r].at \in Done \cup Loop \cup {"rollback", "restore"}
      BY <2>1 DEF RolloutTypes, RolloutLocals
    <3> QED
      BY <1>1, <2>1, <3>1, FileFacts, TargetFacts DEF AllRemembered, Remembered, Done, Loop
  <2>3. RolloutTypeOK
    BY <1>1, <2>1, <2>2 DEF RolloutTypes, RolloutTypeOK, EditionsFit, Editions, Files
  <2> QED
    BY <1>1, <2>3 DEF KeptInv, RolloutSafe
<1>2. RolloutInit => AllRemembered /\ EditionsFit
  <2> SUFFICES ASSUME RolloutInit PROVE AllRemembered /\ EditionsFit
    OBVIOUS
  <2>1. instructions \in [TargetFiles -> Files] /\ 0 \in Editions
    BY KeptInit, RolloutAssumption DEF KeptInv, RolloutTypes, Editions
  <2>2. ASSUME NEW f \in TargetFiles, instructions[f] # NoFile PROVE instructions[f].text \in Editions
    BY <2>1, <2>2 DEF Files, Content, Editions
  <2>3. EditionsFit
    BY <2>1, <2>2 DEF RolloutInit, EditionsFit
  <2>4. AllRemembered
    BY NothingRemembered, TargetFacts DEF RolloutInit, AllRemembered, Remembered, NoRollout
  <2> QED
    BY <2>3, <2>4
<1>3. ASSUME KeptInv, AllRemembered, EditionsFit, [RolloutNext]_rolloutVars
      PROVE  AllRemembered' /\ EditionsFit'
  BY <1>3, AllRememberedNext, EditionsFitNext DEF KeptInv
<1> QED
  BY <1>1, <1>2, <1>3, KeptAlways, PTL DEF RolloutSpec

(* Only one rollout can be undisturbed: the one that takes the step.       *)
LEMMA OnlyUndisturbed ==
  ASSUME RolloutTypes, UndisturbedKnow, NEW r \in Rollouts, r \in Running, OthersStay(r),
         disturbed \subseteq disturbed',
         Undisturbed(r) /\ rollout'[r].at \notin Done /\ r \notin disturbed' /\ Running' = {r}
           => Undisturbed(r)'
  PROVE  UndisturbedKnow'
<1>1. ASSUME NEW q \in Rollouts, q # r PROVE q \in Running' <=> q \in Running
  BY <1>1 DEF OthersStay, Running
<1>2. ASSUME NEW q \in Rollouts, q \in Running', q \notin disturbed', q # r PROVE FALSE
  <2>1. q \in Running /\ q \notin disturbed
    BY <1>1, <1>2
  <2>2. Running = {q}
    BY <2>1 DEF UndisturbedKnow, Undisturbed
  <2> QED
    BY <1>2, <2>2
<1>3. ASSUME r \in Running', r \notin disturbed' PROVE Undisturbed(r)'
  <2>1. Undisturbed(r)
    BY <1>3 DEF UndisturbedKnow
  <2>2. Running = {r}
    BY <2>1 DEF Undisturbed
  <2>3. Running' = {r}
    BY <1>1, <1>3, <2>2 DEF Running
  <2>4. rollout'[r].at \notin Done
    BY <1>3 DEF Running, Done
  <2> QED
    BY <1>3, <2>1, <2>3, <2>4
<1> QED
  BY <1>2, <1>3 DEF UndisturbedKnow, Running

(* The file that a rollout is about to write is not one it has written.    *)
LEMMA CurrentIsUntouched ==
  ASSUME RolloutTypes, NEW r \in Rollouts, Undisturbed(r),
         rollout[r].at \in {"target", "backup", "write"}
  PROVE  Untouched(r, File(r)) /\ instructions[File(r)] = rollout[r].before[File(r)]
<1>1. rollout[r].next \in 1..Len(Targets) /\ File(r) \in TargetFiles
  BY FileFacts
<1>2. rollout[r].at \in Loop
  BY DEF Loop
<1>3. Untouched(r, File(r))
  <2> SUFFICES ASSUME NEW i \in DOMAIN rollout[r].mutations,
                      rollout[r].mutations[i][1] = File(r)
               PROVE  FALSE
    BY DEF Untouched
  <2>1. PICK j \in 1..rollout[r].next :
          rollout[r].mutations[i][1] = Targets[j] /\ j # rollout[r].next
    BY <1>2 DEF Undisturbed
  <2>2. j \in 1..Len(Targets)
    BY <1>1, <2>1, TargetFacts
  <2> QED
    BY <1>1, <2>1, <2>2, TargetFacts DEF File
<1> QED
  BY <1>1, <1>2, <1>3 DEF Undisturbed

(* Leaving a target whose file is as it should be.                         *)
LEMMA LeavesUndisturbed ==
  ASSUME RolloutTypes, NEW r \in Rollouts, Undisturbed(r), rollout[r].at \in Loop,
         NEW mutations, NEW failures \in BOOLEAN, Leaves(r, mutations, failures),
         rollout'[r].at \notin Done, Running' = {r}, instructions' = instructions,
         \A i \in DOMAIN mutations :
            /\ mutations[i][2] = rollout[r].before[mutations[i][1]]
            /\ \E j \in 1..rollout[r].next : mutations[i][1] = Targets[j],
         \A f \in TargetFiles : (\A i \in DOMAIN mutations : mutations[i][1] # f)
                                  => instructions[f] = rollout[r].before[f],
         ~failures => /\ ~rollout[r].failures
                      /\ instructions[File(r)] = NextContent(File(r), rollout[r].before[File(r)])
  PROVE  Undisturbed(r)'
<1>1. /\ rollout'[r].mutations = mutations /\ rollout'[r].failures = failures
      /\ rollout'[r].before = rollout[r].before
      /\ rollout'[r].rollbackFailures = rollout[r].rollbackFailures
      /\ rollout'[r].at \in {"target", "rollback"}
      /\ rollout'[r].at = "target" => rollout'[r].next = rollout[r].next + 1
  BY DEF Leaves, Keeping, Done
<1>2. rollout[r].next \in 1..Len(Targets) /\ Len(Targets) \in Nat
  BY FileFacts, TargetFacts
<1>3. /\ rollout[r].before \in [TargetFiles -> Files] /\ ~rollout[r].rollbackFailures
      /\ ~rollout[r].failures => \A j \in 1..rollout[r].next - 1 :
           instructions[Targets[j]] = NextContent(Targets[j], rollout[r].before[Targets[j]])
  BY DEF Undisturbed
<1>4. ASSUME rollout'[r].at = "target"
      PROVE  \A i \in DOMAIN mutations : \E j \in 1..rollout[r].next + 1 :
                mutations[i][1] = Targets[j] /\ j # rollout[r].next + 1
  <2>1. \A j \in 1..rollout[r].next : j \in 1..rollout[r].next + 1 /\ j # rollout[r].next + 1
    BY <1>2
  <2> QED
    BY <2>1
<1>5. ASSUME ~failures, NEW j \in 1..(rollout[r].next + 1) - 1
      PROVE  instructions[Targets[j]] = NextContent(Targets[j], rollout[r].before[Targets[j]])
  <2>1. CASE j = rollout[r].next
    BY <1>5, <2>1 DEF File
  <2>2. CASE j # rollout[r].next
    <3>1. j \in 1..rollout[r].next - 1
      BY <1>2, <2>2
    <3> QED
      BY <1>3, <1>5, <3>1
  <2> QED
    BY <2>1, <2>2
<1>6. \A f \in TargetFiles : Untouched(r, f)' => instructions'[f] = rollout'[r].before[f]
  BY <1>1 DEF Untouched
<1>7. rollout'[r].at = "rollback" => rollout'[r].at \notin Loop
  BY DEF Loop
<1> QED
  BY <1>1, <1>3, <1>4, <1>5, <1>6, <1>7 DEF Undisturbed

LEMMA BeginUndisturbed ==
  ASSUME RolloutTypes, UndisturbedKnow, NEW r \in Rollouts, Begin(r)
  PROVE  UndisturbedKnow'
<1>1. /\ rollout'[r].at = "target" /\ rollout'[r].next = 1
      /\ rollout'[r].mutations = <<>> /\ rollout'[r].before = instructions
      /\ rollout'[r].failures = FALSE /\ rollout'[r].rollbackFailures = FALSE
      /\ OthersStay(r)
  BY BeginLocals
<1>2. /\ instructions' = instructions
      /\ disturbed' = IF Running = {} THEN disturbed ELSE disturbed \cup Running \cup {r}
  BY DEF Begin
<1>3. Running' = Running \cup {r}
  BY <1>1 DEF Running, OthersStay
<1>4. CASE Running # {}
  BY <1>2, <1>3, <1>4 DEF UndisturbedKnow
<1>5. CASE Running = {}
  <2>1. 1..(1 - 1) = {} /\ DOMAIN <<>> = {}
    BY NoMutations
  <2>2. Undisturbed(r)'
    BY <1>1, <1>2, <1>3, <1>5, <2>1 DEF Undisturbed, Untouched, RolloutTypes
  <2> QED
    BY <1>3, <1>5, <2>2 DEF UndisturbedKnow
<1> QED
  BY <1>4, <1>5

LEMMA ReadTargetUndisturbed ==
  ASSUME RolloutTypes, UndisturbedKnow, NEW r \in Rollouts, ReadTarget(r)
  PROVE  UndisturbedKnow'
<1> DEFINE l == rollout[r]
           f == File(r)
           c == instructions[f]
<1>1. /\ OthersStay(r) /\ l.at = "target" /\ disturbed \subseteq disturbed'
      /\ \/ Continues(r, "write", NoFile, l.mutations) /\ (c = NoFile \/ r \in disturbed')
         \/ c = NextContent(f, c) /\ Leaves(r, l.mutations, l.failures)
         \/ Leaves(r, l.mutations, TRUE)
         \/ Continues(r, "backup", c, l.mutations)
  BY ReadTargetLocals
<1>2. r \in Running /\ l.at \in Loop /\ instructions' = instructions
  BY <1>1 DEF Running, Loop, ReadTarget
<1>3. ASSUME Undisturbed(r), rollout'[r].at \notin Done, r \notin disturbed', Running' = {r}
      PROVE  Undisturbed(r)'
  <2>1. Untouched(r, f) /\ c = l.before[f] /\ f \in TargetFiles
    BY <1>1, <1>3, CurrentIsUntouched, FileFacts
  <2>2. /\ \A i \in DOMAIN l.mutations :
             /\ l.mutations[i][2] = l.before[l.mutations[i][1]]
             /\ \E j \in 1..l.next : l.mutations[i][1] = Targets[j]
        /\ \A g \in TargetFiles : (\A i \in DOMAIN l.mutations : l.mutations[i][1] # g)
                                     => instructions[g] = l.before[g]
    BY <1>2, <1>3 DEF Undisturbed, Untouched
  <2>3. l.failures \in BOOLEAN /\ TRUE \in BOOLEAN
    BY FileFacts
  <2>4. CASE c = NextContent(f, c) /\ Leaves(r, l.mutations, l.failures)
    BY <1>2, <1>3, <2>1, <2>2, <2>3, <2>4, LeavesUndisturbed
  <2>5. CASE Leaves(r, l.mutations, TRUE)
    BY <1>2, <1>3, <2>2, <2>3, <2>5, LeavesUndisturbed
  <2>6. CASE \E at \in {"write", "backup"} : Continues(r, at, c, l.mutations)
    <3>1. /\ rollout'[r].mutations = l.mutations /\ rollout'[r].failures = l.failures
          /\ rollout'[r].before = l.before /\ rollout'[r].next = l.next
          /\ rollout'[r].rollbackFailures = l.rollbackFailures
          /\ rollout'[r].at \in {"write", "backup"} /\ rollout'[r].current = c
          /\ File(r)' = f
      BY <2>6 DEF Continues, Keeping, File
    <3> QED
      BY <1>1, <1>2, <1>3, <2>1, <3>1 DEF Undisturbed, Untouched
  <2> QED
    BY <1>1, <1>3, <2>4, <2>5, <2>6
<1> QED
  BY <1>1, <1>2, <1>3, OnlyUndisturbed

LEMMA BackUpUndisturbed ==
  ASSUME RolloutTypes, UndisturbedKnow, NEW r \in Rollouts, BackUp(r)
  PROVE  UndisturbedKnow'
<1> DEFINE l == rollout[r]
<1>1. /\ OthersStay(r) /\ l.at = "backup" /\ disturbed' = disturbed /\ instructions' = instructions
      /\ Continues(r, "write", l.current, l.mutations) \/ Leaves(r, l.mutations, TRUE)
  BY BackUpLocals DEF BackUp
<1>2. r \in Running /\ l.at \in Loop
  BY <1>1 DEF Running, Loop
<1>3. ASSUME Undisturbed(r), rollout'[r].at \notin Done, r \notin disturbed', Running' = {r}
      PROVE  Undisturbed(r)'
  <2>1. /\ \A i \in DOMAIN l.mutations :
             /\ l.mutations[i][2] = l.before[l.mutations[i][1]]
             /\ \E j \in 1..l.next : l.mutations[i][1] = Targets[j]
        /\ \A g \in TargetFiles : (\A i \in DOMAIN l.mutations : l.mutations[i][1] # g)
                                     => instructions[g] = l.before[g]
    BY <1>2, <1>3 DEF Undisturbed, Untouched
  <2>2. CASE Leaves(r, l.mutations, TRUE)
    BY <1>1, <1>2, <1>3, <2>1, <2>2, LeavesUndisturbed
  <2>3. CASE Continues(r, "write", l.current, l.mutations)
    <3>1. /\ rollout'[r].mutations = l.mutations /\ rollout'[r].failures = l.failures
          /\ rollout'[r].before = l.before /\ rollout'[r].next = l.next
          /\ rollout'[r].rollbackFailures = l.rollbackFailures
          /\ rollout'[r].at = "write" /\ rollout'[r].current = l.current
          /\ File(r)' = File(r)
      BY <2>3 DEF Continues, Keeping, File
    <3> QED
      BY <1>1, <1>2, <1>3, <3>1 DEF Undisturbed, Untouched
  <2> QED
    BY <1>1, <2>2, <2>3
<1> QED
  BY <1>1, <1>2, <1>3, OnlyUndisturbed

LEMMA TruncateUndisturbed ==
  ASSUME RolloutTypes, UndisturbedKnow, NEW r \in Rollouts, Truncate(r)
  PROVE  UndisturbedKnow'
<1> DEFINE l == rollout[r]
           f == File(r)
           n == Len(l.mutations)
<1>1. /\ OthersStay(r) /\ l.at = "write" /\ disturbed' = disturbed
      /\ \/ /\ Continues(r, "fill", l.current, Remembering(r))
            /\ instructions' = [instructions EXCEPT ![f] = EmptyFile]
         \/ Leaves(r, Remembering(r), TRUE) /\ instructions' = instructions
  BY TruncateLocals DEF Truncate
<1>2. r \in Running /\ l.at \in Loop
  BY <1>1 DEF Running, Loop
<1>3. /\ n \in Nat /\ DOMAIN l.mutations = 1..n /\ DOMAIN Remembering(r) = 1..n + 1
      /\ Remembering(r)[n + 1] = <<f, l.current>>
      /\ \A i \in 1..n : Remembering(r)[i] = l.mutations[i] /\ i \in 1..n + 1
      /\ \A i \in 1..n + 1 : i \in 1..n \/ i = n + 1
  <2>1. l.mutations \in Seq(TargetFiles \X Files)
    BY FileFacts
  <2> QED
    BY <2>1 DEF Remembering
<1>4. ASSUME Undisturbed(r), rollout'[r].at \notin Done, r \notin disturbed', Running' = {r}
      PROVE  Undisturbed(r)'
  <2>1. l.current = l.before[f] /\ l.next \in 1..Len(Targets) /\ f = Targets[l.next] /\ f \in TargetFiles
    BY <1>1, <1>2, <1>4, FileFacts DEF Undisturbed, File
  <2>2. ASSUME NEW i \in DOMAIN Remembering(r)
        PROVE  /\ Remembering(r)[i][2] = l.before[Remembering(r)[i][1]]
               /\ \E j \in 1..l.next : Remembering(r)[i][1] = Targets[j]
    <3>1. CASE i = n + 1
      BY <1>3, <2>1, <3>1
    <3>2. CASE i \in 1..n
      BY <1>2, <1>3, <1>4, <3>2 DEF Undisturbed
    <3> QED
      BY <1>3, <2>2, <3>1, <3>2
  <2>3. ASSUME NEW g \in TargetFiles, \A i \in DOMAIN Remembering(r) : Remembering(r)[i][1] # g
        PROVE  instructions[g] = l.before[g] /\ g # f
    <3>1. g # f
      <4>1. n + 1 \in 1..n + 1
        BY <1>3
      <4> QED
        BY <1>3, <2>3, <4>1
    <3>2. Untouched(r, g)
      BY <1>3, <2>3 DEF Untouched
    <3> QED
      BY <1>2, <1>4, <3>1, <3>2 DEF Undisturbed
  <2>4. CASE Leaves(r, Remembering(r), TRUE) /\ instructions' = instructions
    BY <1>2, <1>4, <2>2, <2>3, <2>4, LeavesUndisturbed
  <2>5. CASE /\ Continues(r, "fill", l.current, Remembering(r))
             /\ instructions' = [instructions EXCEPT ![f] = EmptyFile]
    <3>1. /\ rollout'[r].mutations = Remembering(r) /\ rollout'[r].failures = l.failures
          /\ rollout'[r].before = l.before /\ rollout'[r].next = l.next
          /\ rollout'[r].rollbackFailures = l.rollbackFailures
          /\ rollout'[r].at = "fill" /\ rollout'[r].current = l.current
          /\ File(r)' = f
      BY <2>5 DEF Continues, Keeping, File
    <3>2. \A g \in TargetFiles : Untouched(r, g)' => instructions'[g] = l.before[g]
      BY <2>3, <2>5, <3>1 DEF Untouched, RolloutTypes
    <3>3. ~Untouched(r, f)'
      <4>1. n + 1 \in 1..n + 1
        BY <1>3
      <4> QED
        BY <1>3, <3>1, <4>1 DEF Untouched
    <3>4. ASSUME NEW j \in 1..l.next - 1 PROVE instructions'[Targets[j]] = instructions[Targets[j]]
      <4>1. j \in 1..Len(Targets) /\ j # l.next
        BY <2>1, TargetFacts
      <4>2. Targets[j] \in TargetFiles /\ Targets[j] # f
        BY <2>1, <4>1, TargetFacts
      <4> QED
        BY <2>5, <4>2 DEF RolloutTypes
    <3>5. l.before \in [TargetFiles -> Files] /\ ~l.rollbackFailures
      BY <1>2, <1>4 DEF Undisturbed
    <3>6. l.failures \/ \A j \in 1..l.next - 1 :
            instructions'[Targets[j]] = NextContent(Targets[j], l.before[Targets[j]])
      BY <1>2, <1>4, <3>4 DEF Undisturbed
    <3> QED
      BY <1>4, <2>1, <2>2, <3>1, <3>2, <3>3, <3>5, <3>6 DEF Undisturbed
  <2> QED
    BY <1>1, <2>4, <2>5
<1> QED
  BY <1>1, <1>2, <1>4, OnlyUndisturbed

LEMMA FillUndisturbed ==
  ASSUME RolloutTypes, UndisturbedKnow, NEW r \in Rollouts, Fill(r)
  PROVE  UndisturbedKnow'
<1> DEFINE l == rollout[r]
           f == File(r)
<1>1. /\ OthersStay(r) /\ l.at = "fill" /\ disturbed' = disturbed
      /\ \/ /\ Continues(r, "verify", l.current, l.mutations)
            /\ instructions' = [instructions EXCEPT ![f] = NextContent(f, l.current)]
         \/ Leaves(r, l.mutations, TRUE) /\ instructions' = instructions
  BY FillLocals DEF Fill
<1>2. r \in Running /\ l.at \in Loop
  BY <1>1 DEF Running, Loop
<1>3. ASSUME Undisturbed(r), rollout'[r].at \notin Done, r \notin disturbed', Running' = {r}
      PROVE  Undisturbed(r)'
  <2>1. /\ l.next \in 1..Len(Targets) /\ f = Targets[l.next] /\ f \in TargetFiles
        /\ l.current = l.before[f] /\ ~Untouched(r, f)
    BY <1>1, <1>2, <1>3, FileFacts DEF Undisturbed, File
  <2>2. /\ \A i \in DOMAIN l.mutations :
             /\ l.mutations[i][2] = l.before[l.mutations[i][1]]
             /\ \E j \in 1..l.next : l.mutations[i][1] = Targets[j]
        /\ \A g \in TargetFiles : (\A i \in DOMAIN l.mutations : l.mutations[i][1] # g)
                                     => instructions[g] = l.before[g]
    BY <1>2, <1>3 DEF Undisturbed, Untouched
  <2>3. CASE Leaves(r, l.mutations, TRUE) /\ instructions' = instructions
    BY <1>2, <1>3, <2>2, <2>3, LeavesUndisturbed
  <2>4. CASE /\ Continues(r, "verify", l.current, l.mutations)
             /\ instructions' = [instructions EXCEPT ![f] = NextContent(f, l.current)]
    <3>1. /\ rollout'[r].mutations = l.mutations /\ rollout'[r].failures = l.failures
          /\ rollout'[r].before = l.before /\ rollout'[r].next = l.next
          /\ rollout'[r].rollbackFailures = l.rollbackFailures
          /\ rollout'[r].at = "verify" /\ rollout'[r].current = l.current
          /\ File(r)' = f
      BY <2>4 DEF Continues, Keeping, File
    <3>2. instructions'[f] = NextContent(f, l.before[f])
      BY <2>1, <2>4 DEF RolloutTypes
    <3>3. \A g \in TargetFiles : Untouched(r, g)' => instructions'[g] = l.before[g]
      BY <2>1, <2>2, <2>4, <3>1 DEF Untouched, RolloutTypes
    <3>4. ASSUME NEW j \in 1..l.next - 1 PROVE instructions'[Targets[j]] = instructions[Targets[j]]
      <4>1. j \in 1..Len(Targets) /\ j # l.next
        BY <2>1, TargetFacts
      <4>2. Targets[j] \in TargetFiles /\ Targets[j] # f
        BY <2>1, <4>1, TargetFacts
      <4> QED
        BY <2>4, <4>2 DEF RolloutTypes
    <3>5. l.before \in [TargetFiles -> Files] /\ ~l.rollbackFailures
      BY <1>2, <1>3 DEF Undisturbed
    <3>6. l.failures \/ \A j \in 1..l.next - 1 :
            instructions'[Targets[j]] = NextContent(Targets[j], l.before[Targets[j]])
      BY <1>2, <1>3, <3>4 DEF Undisturbed
    <3> QED
      BY <1>3, <2>1, <2>2, <3>1, <3>2, <3>3, <3>5, <3>6 DEF Undisturbed
  <2> QED
    BY <1>1, <2>3, <2>4
<1> QED
  BY <1>1, <1>2, <1>3, OnlyUndisturbed

LEMMA VerifyUndisturbed ==
  ASSUME RolloutTypes, UndisturbedKnow, NEW r \in Rollouts, Verify(r)
  PROVE  UndisturbedKnow'
<1> DEFINE l == rollout[r]
<1>1. /\ OthersStay(r) /\ l.at = "verify" /\ disturbed' = disturbed /\ instructions' = instructions
      /\ Leaves(r, l.mutations, l.failures) \/ Leaves(r, l.mutations, TRUE)
  BY VerifyLocals DEF Verify
<1>2. r \in Running /\ l.at \in Loop /\ l.failures \in BOOLEAN
  BY <1>1, FileFacts DEF Running, Loop
<1>3. ASSUME Undisturbed(r), rollout'[r].at \notin Done, r \notin disturbed', Running' = {r}
      PROVE  Undisturbed(r)'
  <2>1. /\ \A i \in DOMAIN l.mutations :
             /\ l.mutations[i][2] = l.before[l.mutations[i][1]]
             /\ \E j \in 1..l.next : l.mutations[i][1] = Targets[j]
        /\ \A g \in TargetFiles : (\A i \in DOMAIN l.mutations : l.mutations[i][1] # g)
                                     => instructions[g] = l.before[g]
        /\ instructions[File(r)] = NextContent(File(r), l.before[File(r)])
    BY <1>1, <1>2, <1>3 DEF Undisturbed, Untouched
  <2>2. CASE Leaves(r, l.mutations, l.failures)
    BY <1>1, <1>2, <1>3, <2>1, <2>2, LeavesUndisturbed
  <2>3. CASE Leaves(r, l.mutations, TRUE)
    BY <1>1, <1>2, <1>3, <2>1, <2>3, LeavesUndisturbed
  <2> QED
    BY <1>1, <2>2, <2>3
<1> QED
  BY <1>1, <1>2, <1>3, OnlyUndisturbed

LEMMA RollbackUndisturbed ==
  ASSUME RolloutTypes, UndisturbedKnow, NEW r \in Rollouts, Rollback(r) \/ WriteBack(r)
  PROVE  UndisturbedKnow'
<1> DEFINE l == rollout[r]
           n == Len(l.mutations)
           last == l.mutations[n]
<1>1. OthersStay(r) /\ l.at \in {"rollback", "restore"} /\ disturbed' = disturbed
  BY RollbackLocals DEF Rollback, WriteBack
<1>2. r \in Running /\ n \in Nat /\ DOMAIN l.mutations = 1..n
  BY <1>1, FileFacts DEF Running
<1>3. ASSUME Undisturbed(r), rollout'[r].at \notin Done, r \notin disturbed', Running' = {r},
             rollout'[r].at # "restore"
      PROVE  Undisturbed(r)'
  <2>1. /\ n \in DOMAIN l.mutations /\ rollout'[r].at = "rollback"
        /\ rollout'[r].before = l.before /\ DOMAIN rollout'[r].mutations = 1..n - 1
        /\ \A i \in 1..n - 1 : rollout'[r].mutations[i] = l.mutations[i]
        /\ \/ /\ instructions' = [instructions EXCEPT ![last[1]] = last[2]]
              /\ rollout'[r].rollbackFailures = l.rollbackFailures
           \/ rollout'[r].rollbackFailures = TRUE
    BY <1>3, RollbackLocals DEF Done
  <2>2. /\ l.before \in [TargetFiles -> Files] /\ last[2] = l.before[last[1]]
        /\ \A i \in 1..n : l.mutations[i][2] = l.before[l.mutations[i][1]]
    BY <1>2, <1>3, <2>1 DEF Undisturbed
  <2>3. \A i \in 1..n - 1 : i \in 1..n
    BY <1>2
  <2>4. \A i \in 1..n : i = n \/ i \in 1..n - 1
    BY <1>2
  <2>5. ASSUME ~rollout'[r].rollbackFailures, NEW f \in TargetFiles, Untouched(r, f)'
        PROVE  instructions'[f] = l.before[f]
    <3>1. /\ instructions' = [instructions EXCEPT ![last[1]] = last[2]] /\ ~l.rollbackFailures
      BY <2>1, <2>5
    <3>2. CASE f = last[1]
      BY <2>2, <3>1, <3>2 DEF RolloutTypes
    <3>3. CASE f # last[1]
      <4>1. Untouched(r, f)
        BY <1>2, <2>1, <2>4, <2>5, <3>3 DEF Untouched
      <4> QED
        BY <1>3, <3>1, <3>3, <4>1 DEF Undisturbed, RolloutTypes
    <3> QED
      BY <3>2, <3>3
  <2>6. rollout'[r].at \notin Loop
    BY <2>1 DEF Loop
  <2>7. \A i \in DOMAIN rollout'[r].mutations :
          rollout'[r].mutations[i][2] = rollout'[r].before[rollout'[r].mutations[i][1]]
    BY <2>1, <2>2, <2>3
  <2>8. rollout'[r].before \in [TargetFiles -> Files] /\ rollout'[r].at \notin {"fill", "verify"}
    BY <2>1, <2>2
  <2>9. ~rollout'[r].rollbackFailures =>
          \A f \in TargetFiles : Untouched(r, f)' => instructions'[f] = rollout'[r].before[f]
    BY <2>1, <2>5
  <2> QED
    BY <1>3, <2>6, <2>7, <2>8, <2>9 DEF Undisturbed
<1>4. ASSUME Undisturbed(r), Running' = {r}, rollout'[r].at = "restore"
      PROVE  Undisturbed(r)'
  <2>1. /\ n \in DOMAIN l.mutations
        /\ rollout'[r].before = l.before /\ rollout'[r].mutations = l.mutations
        /\ rollout'[r].rollbackFailures = l.rollbackFailures
        /\ instructions' = [instructions EXCEPT ![last[1]] = EmptyFile]
    BY <1>4, RollbackLocals
  <2>2. \A f \in TargetFiles : Untouched(r, f)' => Untouched(r, f) /\ f # last[1]
    BY <2>1 DEF Untouched
  <2>3. ~rollout'[r].rollbackFailures =>
          \A f \in TargetFiles : Untouched(r, f)' => instructions'[f] = rollout'[r].before[f]
    BY <1>4, <2>1, <2>2 DEF Undisturbed, RolloutTypes
  <2>4. rollout'[r].at \notin Loop
    BY <1>4 DEF Loop
  <2> QED
    BY <1>4, <2>1, <2>3, <2>4 DEF Undisturbed
<1> QED
  BY <1>1, <1>2, <1>3, <1>4, OnlyUndisturbed

LEMMA UndisturbedNext ==
  ASSUME RolloutTypes, UndisturbedKnow, [RolloutNext]_rolloutVars
  PROVE  UndisturbedKnow'
<1>1. ASSUME NEW r \in Rollouts, RolloutKilled(r) PROVE UndisturbedKnow'
  <2>1. OthersStay(r) /\ r \in Running /\ rollout'[r].at \in Done /\ disturbed' = disturbed
    BY <1>1, RolloutKilledLocals DEF RolloutKilled, Done
  <2> QED
    BY <2>1, OnlyUndisturbed
<1>2. ASSUME NEW f \in TargetFiles, UserEdits(f) PROVE UndisturbedKnow'
  <2>1. disturbed' = disturbed \cup Running /\ Running' = Running
    BY <1>2 DEF UserEdits, Running
  <2> QED
    BY <2>1 DEF UndisturbedKnow
<1>3. CASE UNCHANGED rolloutVars
  BY <1>3 DEF rolloutVars, UndisturbedKnow, Undisturbed, Untouched, Running, File
<1> QED
  BY <1>1, <1>2, <1>3, BeginUndisturbed, ReadTargetUndisturbed, BackUpUndisturbed,
     TruncateUndisturbed, FillUndisturbed, VerifyUndisturbed, RollbackUndisturbed
  DEF RolloutNext, RolloutsNext, RolloutStep, UserNext

LEMMA UndisturbedInit == RolloutInit => UndisturbedKnow
BY DEF RolloutInit, UndisturbedKnow, Running, NoRollout

(* A rollout that leaves its last target with nothing failed is installed. *)
LEMMA LastIsInstalled ==
  ASSUME RolloutTypes, NEW r \in Rollouts, Undisturbed(r), rollout[r].at \in Loop,
         ~rollout[r].failures, rollout[r].next = Len(Targets),
         instructions[File(r)] = NextContent(File(r), rollout[r].before[File(r)])
  PROVE  \A f \in TargetFiles : instructions[f] = NextContent(f, rollout[r].before[f])
<1> TAKE f \in TargetFiles
<1>1. PICK j \in 1..Len(Targets) : f = Targets[j]
  BY TargetFacts
<1>2. CASE j = Len(Targets)
  BY <1>1, <1>2 DEF File
<1>3. CASE j # Len(Targets)
  <2>1. Len(Targets) \in Nat
    BY TargetFacts
  <2>2. j \in 1..rollout[r].next - 1
    BY <1>1, <1>3, <2>1
  <2> QED
    BY <1>1, <2>2 DEF Undisturbed
<1> QED
  BY <1>2, <1>3

(* The step that ends an undisturbed rollout, failed or ok.                *)
LEMMA EndsHonestly ==
  ASSUME RolloutTypes, UndisturbedKnow, [RolloutNext]_rolloutVars,
         NEW r \in Rollouts, r \notin disturbed
  PROVE  /\ rollout[r].at = "rollback" /\ rollout'[r].at = "failed" /\ ~rollout[r].rollbackFailures
              => instructions' = rollout[r].before
         /\ rollout[r].at # "ok" /\ rollout'[r].at = "ok"
              => \A f \in TargetFiles : instructions'[f] = NextContent(f, rollout[r].before[f])
<1> DEFINE l == rollout[r]
           FailedUndone == l.at = "rollback" /\ rollout'[r].at = "failed" /\ ~l.rollbackFailures
                       => instructions' = l.before
           Installed == l.at # "ok" /\ rollout'[r].at = "ok"
              => \A f \in TargetFiles : instructions'[f] = NextContent(f, l.before[f])
<1>0. ASSUME r \in Running PROVE Undisturbed(r)
  BY <1>0 DEF UndisturbedKnow
<1>1. ASSUME NEW q \in Rollouts, OthersStay(q), q # r PROVE FailedUndone /\ Installed
  BY <1>1 DEF OthersStay
<1>2. CASE Begin(r)
  BY <1>2, BeginLocals
<1>3. CASE ReadTarget(r)
  <2>1. l.at = "target" /\ instructions' = instructions
    BY <1>3 DEF ReadTarget
  <2>2. r \in Running /\ l.at \in Loop
    BY <2>1 DEF Running, Loop
  <2>3. ASSUME rollout'[r].at = "ok"
        PROVE  /\ instructions[File(r)] = NextContent(File(r), instructions[File(r)])
               /\ ~l.failures /\ l.next = Len(Targets)
    BY <1>3, <2>3, ReadTargetLocals DEF Leaves, Continues
  <2>4. instructions[File(r)] = l.before[File(r)]
    BY <1>0, <2>1, <2>2, CurrentIsUntouched
  <2> QED
    BY <1>0, <2>1, <2>2, <2>3, <2>4, LastIsInstalled
<1>4. CASE BackUp(r)
  BY <1>4, BackUpLocals DEF Leaves, Continues
<1>5. CASE Truncate(r)
  BY <1>5, TruncateLocals DEF Leaves, Continues
<1>6. CASE Fill(r)
  BY <1>6, FillLocals DEF Leaves, Continues
<1>7. CASE Verify(r)
  <2>1. l.at = "verify" /\ instructions' = instructions
    BY <1>7 DEF Verify
  <2>2. r \in Running /\ l.at \in Loop
    BY <2>1 DEF Running, Loop
  <2>3. ASSUME rollout'[r].at = "ok" PROVE ~l.failures /\ l.next = Len(Targets)
    BY <1>7, <2>3, VerifyLocals DEF Leaves
  <2>4. instructions[File(r)] = NextContent(File(r), l.before[File(r)])
    BY <1>0, <2>1, <2>2 DEF Undisturbed
  <2> QED
    BY <1>0, <2>1, <2>2, <2>3, <2>4, LastIsInstalled
<1>8. CASE Rollback(r) \/ WriteBack(r)
  <2>1. l.at \in {"rollback", "restore"} /\ rollout'[r].at # "ok"
    BY <1>8, RollbackLocals
  <2>2. r \in Running
    BY <2>1 DEF Running
  <2>3. ASSUME rollout'[r].at = "failed", ~l.rollbackFailures PROVE instructions' = l.before
    <3>1. l.mutations = <<>> /\ instructions' = instructions
      BY <1>8, <2>3, RollbackLocals
    <3>2. \A f \in TargetFiles : Untouched(r, f)
      BY <3>1, NoMutations DEF Untouched
    <3>3. l.before \in [TargetFiles -> Files] /\ \A f \in TargetFiles : instructions[f] = l.before[f]
      BY <1>0, <2>2, <2>3, <3>2 DEF Undisturbed
    <3> QED
      BY <3>1, <3>3 DEF RolloutTypes
  <2> QED
    BY <2>1, <2>3
<1>9. CASE RolloutKilled(r)
  BY <1>9, RolloutKilledLocals
<1>10. CASE rollout' = rollout
  BY <1>10
<1>11. ASSUME NEW q \in Rollouts, Begin(q) \/ RolloutStep(q) \/ RolloutKilled(q) PROVE OthersStay(q)
  BY <1>11, BeginLocals, ReadTargetLocals, BackUpLocals, TruncateLocals, FillLocals,
     VerifyLocals, RollbackLocals, RolloutKilledLocals DEF RolloutStep
<1>12. CASE RolloutsNext(Rollouts)
  BY <1>1, <1>2, <1>3, <1>4, <1>5, <1>6, <1>7, <1>8, <1>9, <1>11, <1>12
  DEF RolloutsNext, RolloutStep
<1>13. CASE UserNext \/ UNCHANGED rolloutVars
  BY <1>10, <1>13 DEF UserNext, UserEdits, rolloutVars
<1> QED
  BY <1>12, <1>13 DEF RolloutNext

(* The outcome of an undisturbed rollout tells the files, for any number   *)
(* of targets and of failing calls: failed without rollback failures means *)
(* that every file is as it was, ok that every file has the new block and  *)
(* the user's text.                                                        *)
THEOREM RolloutsAreHonest == RolloutSpec => RolloutHonest
<1> DEFINE Inv == RolloutTypes /\ UndisturbedKnow
<1>1. RolloutInit => Inv
  BY KeptInit, UndisturbedInit DEF KeptInv
<1>2. ASSUME Inv, [RolloutNext]_rolloutVars PROVE Inv'
  BY <1>2, RolloutTypesNext, UndisturbedNext
<1>3. ASSUME Inv, [RolloutNext]_rolloutVars
      PROVE  /\ \A r \in Rollouts \ disturbed :
                  rollout[r].at = "rollback" /\ rollout'[r].at = "failed"
                    /\ ~rollout[r].rollbackFailures => instructions' = rollout[r].before
             /\ \A r \in Rollouts \ disturbed :
                  rollout[r].at # "ok" /\ rollout'[r].at = "ok"
                    => \A f \in TargetFiles :
                         instructions'[f] = NextContent(f, rollout[r].before[f])
  BY <1>3, EndsHonestly
<1> HIDE DEF Inv
<1>4. RolloutSpec => []Inv
  BY <1>1, <1>2, PTL DEF RolloutSpec
<1> QED
  BY <1>3, <1>4, PTL DEF RolloutSpec, RolloutHonest, FailedRolloutUndone, OkIsInstalled

=============================================================================
