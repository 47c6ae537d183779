------------------------------- MODULE Logger -------------------------------
(***************************************************************************)
(* The logger of crates/polylog/src: who may install it, which events its  *)
(* console and its file show, the level that all threads share and the     *)
(* overrides of it that come and go.                                       *)
(*                                                                         *)
(* A target is its module path, a sequence of names.  External: tracing's  *)
(* one global subscriber, which someone else may have set, the log crate's *)
(* bridge to it, and the worker of tracing-appender, whose queue may be    *)
(* full and which writes all it has when its guard is dropped.             *)
(***************************************************************************)
EXTENDS Integers, Sequences, SequencesExt

CONSTANTS Installers,   \* threads that call install, once each
          LogBuilders,  \* what they may have built: level, file, target_level calls
          OverrideLevels,  \* of LogLevelOverrides, held by one thread each
          Targets,      \* of the events, but for those of the bridge
          PathNames,    \* names in module paths
          MaxLines      \* bound on the lines of the console

(* The path of a target or a prefix has at least one name.                 *)
ModulePath == Seq(PathNames) \ {<<>>}
TargetOverride == [prefix : ModulePath, level : 0..3]

ASSUME LoggerBounds ==
    /\ OverrideLevels \subseteq 0..3 /\ MaxLines \in Nat
    /\ \A b \in LogBuilders : b.level \in 0..3 /\ b.calls \in Seq(TargetOverride)
    /\ Targets \subseteq ModulePath /\ <<"log">> \in ModulePath

VARIABLES initialized, minLevel,  \* INITIALIZED and MIN_LEVEL
          installer,  \* where each install is, and what it installs
          subscriber, \* "none", "foreign" or "polylog"
          layers,     \* the builder that the subscriber's layers were made from
          overriding, \* the overrides that live: what they set, what they found
          tidy,       \* history: overrides were nested, none around an install
          guard,      \* of the worker: "none", "held", "dropped"
          lines       \* counts: shown, shown while the worker ran, queued,
                      \* written, and those it had no room for

loggerVars == <<initialized, minLevel, installer, subscriber, layers, overriding,
                tidy, guard, lines>>

Info == 1
Error == 3
NoBuilder == [level |-> Info, file |-> FALSE, calls |-> <<>>]
NoLines == [shown |-> 0, due |-> 0, queued |-> 0, written |-> 0, missed |-> 0]

LoggerInit ==
    /\ initialized = FALSE /\ minLevel = Info
    /\ installer = [t \in Installers |-> [phase |-> "building", builder |-> NoBuilder]]
    /\ subscriber = "none" /\ layers = NoBuilder
    /\ overriding = <<>> /\ tidy = TRUE
    /\ guard = "none" /\ lines = NoLines

-----------------------------------------------------------------------------
(* LogBuilder::target_level: a prefix keeps its place and changes level.   *)
TargetLevel(overrides, call) ==
    IF \E i \in DOMAIN overrides : overrides[i].prefix = call.prefix
    THEN [i \in DOMAIN overrides |-> IF overrides[i].prefix = call.prefix THEN call
                                     ELSE overrides[i]]
    ELSE Append(overrides, call)

(* What the builder has after each of its calls.                           *)
OverridesAfter(calls) ==
    LET after[n \in 0..Len(calls)] ==
            IF n = 0 THEN <<>> ELSE TargetLevel(after[n - 1], calls[n])
    IN  after

TargetOverrides(builder) == OverridesAfter(builder.calls)[Len(builder.calls)]

TargetMatches(target, prefix) == IsPrefix(prefix, target)

(* LogConfig::from: the longest prefix first, otherwise in their order.    *)
SortedBefore(overrides, i, j) ==
    LET length(k) == Len(overrides[k].prefix)
    IN  length(i) > length(j) \/ (length(i) = length(j) /\ i < j)

(* effective_min_level: the first that matches.                            *)
EffectiveMinLevel(target, overrides, global) ==
    LET matching == {i \in DOMAIN overrides : TargetMatches(target, overrides[i].prefix)}
        first    == CHOOSE i \in matching :
                        \A j \in matching \ {i} : SortedBefore(overrides, i, j)
    IN  IF matching = {} THEN global ELSE overrides[first].level

(* An event that comes through the bridge has the target "log"; its own is *)
(* a field, which the console shows and no filter sees.                    *)
MetaTarget(event) == IF event.bridged THEN <<"log">> ELSE event.target

(* render_event of either layer, up to the words; TRACE is no Level.       *)
IsRendered(event) ==
    /\ event.level \in 0..3
    /\ event.level >= EffectiveMinLevel(MetaTarget(event), TargetOverrides(layers), minLevel)

-----------------------------------------------------------------------------
(* install_with_config, step by step.                                      *)

Phase(t, phase) == installer' = [installer EXCEPT ![t].phase = phase]
Untouched == UNCHANGED <<overriding, lines>>

(* Mutant: the flag is read, and set by the step that stores the level.    *)
ClaimByReading(t) ==
    /\ installer[t].phase = "building"
    /\ \E b \in LogBuilders :
          installer' = [installer EXCEPT ![t] =
              [phase |-> IF initialized THEN "already" ELSE "claimed", builder |-> b]]
    /\ UNCHANGED <<initialized, minLevel, subscriber, layers, guard, tidy>> /\ Untouched

(* compare_exchange *)
Claim(t) ==
    /\ installer[t].phase = "building"
    /\ \E b \in LogBuilders :
          installer' = [installer EXCEPT ![t] =
              [phase |-> IF initialized THEN "already" ELSE "claimed", builder |-> b]]
    /\ initialized' = TRUE
    /\ UNCHANGED <<minLevel, subscriber, layers, guard, tidy>> /\ Untouched

StoreLevel(t) ==
    /\ installer[t].phase = "claimed"
    /\ initialized' = TRUE
    /\ minLevel' = installer[t].builder.level
    /\ tidy' = (tidy /\ overriding = <<>>)
    /\ Phase(t, "leveled")
    /\ UNCHANGED <<subscriber, layers, guard>> /\ Untouched

(* build_file_layer cannot make its directory: the flag is taken back, the *)
(* level stays.                                                            *)
FileSetupFails(t) ==
    /\ installer[t].phase = "leveled" /\ installer[t].builder.file
    /\ initialized' = FALSE
    /\ Phase(t, "failed")
    /\ UNCHANGED <<minLevel, subscriber, layers, guard, tidy>> /\ Untouched

TryInit(t) ==
    /\ installer[t].phase = "leveled" /\ subscriber = "none"
    /\ subscriber' = "polylog"
    /\ layers' = installer[t].builder
    /\ guard' = IF installer[t].builder.file THEN "held" ELSE "none"
    /\ Phase(t, "installed")
    /\ UNCHANGED <<initialized, minLevel, tidy>> /\ Untouched

SetGlobalDefaultFails(t) ==
    /\ installer[t].phase = "leveled" /\ subscriber # "none"
    /\ initialized' = FALSE
    /\ Phase(t, "failed")
    /\ UNCHANGED <<minLevel, subscriber, layers, guard, tidy>> /\ Untouched

SomeoneElseSubscribes ==
    /\ subscriber = "none" /\ subscriber' = "foreign"
    /\ UNCHANGED <<initialized, minLevel, installer, layers, guard, tidy>> /\ Untouched

-----------------------------------------------------------------------------
(* LogLevelOverride::new loads the level in one step and stores its own in *)
(* the next; dropping it stores what was loaded.                           *)

Living(level) == {i \in DOMAIN overriding : overriding[i].level = level}
Installing == \E t \in Installers : installer[t].phase \in {"claimed", "leveled"}

Load(level) ==
    /\ Living(level) = {}
    /\ overriding' = Append(overriding, [level |-> level, previous |-> minLevel,
                                         stored |-> FALSE])
    /\ UNCHANGED <<initialized, minLevel, installer, subscriber, layers, tidy, guard, lines>>

Store(level) ==
    /\ \E i \in Living(level) :
          /\ ~overriding[i].stored
          /\ overriding' = [overriding EXCEPT ![i].stored = TRUE]
          /\ minLevel' = level
          /\ tidy' = (tidy /\ i = Len(overriding))
    /\ UNCHANGED <<initialized, installer, subscriber, layers, guard, lines>>

DropOverride(level) ==
    /\ \E i \in Living(level) :
          /\ overriding[i].stored
          /\ minLevel' = overriding[i].previous
          /\ overriding' = RemoveAt(overriding, i)
          /\ tidy' = (tidy /\ i = Len(overriding))
    /\ UNCHANGED <<initialized, installer, subscriber, layers, guard, lines>>

-----------------------------------------------------------------------------
Events == [target : Targets, level : -1..3, bridged : BOOLEAN]

(* Both layers see an event; a queue without room loses the file's line.   *)
Emit ==
    /\ subscriber = "polylog" /\ lines.shown < MaxLines
    /\ \E e \in [target : {<<"app">>}, level : {Info, Error}, bridged : {FALSE}] : IsRendered(e)
    /\ \E room \in BOOLEAN :
          lines' = IF guard # "held" THEN [lines EXCEPT !.shown = @ + 1]
                   ELSE [lines EXCEPT !.shown = @ + 1, !.due = @ + 1,
                                      !.queued = IF room THEN @ + 1 ELSE @,
                                      !.missed = IF room THEN @ ELSE @ + 1]
    /\ UNCHANGED <<initialized, minLevel, installer, subscriber, layers, overriding, tidy, guard>>

WorkerWrites ==
    /\ guard = "held" /\ lines.queued > 0
    /\ lines' = [lines EXCEPT !.queued = @ - 1, !.written = @ + 1]
    /\ UNCHANGED <<initialized, minLevel, installer, subscriber, layers, overriding, tidy, guard>>

(* The host drops the InitGuard.                                           *)
DropGuard ==
    /\ guard = "held" /\ guard' = "dropped"
    /\ lines' = [lines EXCEPT !.written = @ + lines.queued, !.queued = 0]
    /\ UNCHANGED <<initialized, minLevel, installer, subscriber, layers, overriding, tidy>>

LoggerNext ==
    \/ \E t \in Installers :
          \/ Claim(t) \/ StoreLevel(t) \/ FileSetupFails(t)
          \/ TryInit(t) \/ SetGlobalDefaultFails(t)
    \/ SomeoneElseSubscribes
    \/ \E l \in OverrideLevels : Load(l) \/ Store(l) \/ DropOverride(l)
    \/ Emit \/ WorkerWrites \/ DropGuard

LoggerSpec == LoggerInit /\ [][LoggerNext]_loggerVars

-----------------------------------------------------------------------------
(* However installs race and fail: the layers are those of the one that    *)
(* was told of success, and while it has the subscriber nobody claims the  *)
(* flag or touches the level by another install;                           *)
OneLogger ==
    /\ subscriber = "polylog" =>
          \E t \in Installers :
              /\ installer[t] = [phase |-> "installed", builder |-> layers]
              /\ initialized /\ \A s \in Installers \ {t} : installer[s].phase # "installed"
    /\ ~Installing => (initialized <=> subscriber = "polylog")

(* overrides that are nested leave the level that was there before them;   *)
BaseLevel ==
    LET done == {t \in Installers : installer[t].phase \in {"leveled", "failed", "installed"}}
    IN  {Info} \cup {installer[t].builder.level : t \in done}

OverridesNest ==
    tidy => IF overriding = <<>> THEN minLevel \in BaseLevel
            ELSE LET top == overriding[Len(overriding)]
                 IN  minLevel = IF top.stored THEN top.level ELSE top.previous

(* an event is shown by the last call for the most specific prefix of its  *)
(* target, whatever the order of the calls, and if it came through the     *)
(* bridge only by one for the bridge;                                      *)
MostSpecific ==
    subscriber = "polylog" =>
    \A e \in Events :
        LET calls    == layers.calls
            target   == IF e.bridged THEN <<"log">> ELSE e.target
            matching == {i \in DOMAIN calls : IsPrefix(calls[i].prefix, target)}
            longest  == {i \in matching : \A j \in matching :
                            Len(calls[j].prefix) <= Len(calls[i].prefix)}
        IN  IsRendered(e) <=> e.level >= 0 /\ e.level >= IF matching = {} THEN minLevel
                                         ELSE calls[Max(longest)].level

(* and when the guard is gone, the file has the lines that were shown      *)
(* while it was there, but for those the queue had no room for.            *)
GuardFlushes == guard # "held" => lines.due = lines.written + lines.missed

LoggerKeeps == OneLogger /\ OverridesNest /\ MostSpecific /\ GuardFlushes

(* Why: one install at a time goes on and the flag tells of it,            *)
Left(o) == IF o.stored THEN o.level ELSE o.previous

Phases == {"building", "already", "claimed", "leveled", "failed", "installed"}

InstallsAlternate ==
    /\ \A t \in Installers : installer[t].phase \in {"claimed", "leveled"} =>
          /\ initialized /\ subscriber # "polylog"
          /\ \A s \in Installers \ {t} :
                installer[s].phase \notin {"claimed", "leveled"}
    /\ subscriber # "polylog" => \A t \in Installers : installer[t].phase # "installed"

InstallsInv ==
    /\ installer \in [Installers -> [phase : Phases, builder : LogBuilders \cup {NoBuilder}]]
    /\ \A t \in Installers :
          installer[t].phase # "building" => installer[t].builder \in LogBuilders
    /\ OneLogger /\ InstallsAlternate

(* the overrides found what those below them had left,                     *)
Override == [level : OverrideLevels, previous : 0..3, stored : BOOLEAN]

OverridesStack ==
    tidy =>
        /\ overriding # <<>> =>
              overriding[1].previous \in BaseLevel
              /\ minLevel = Left(overriding[Len(overriding)])
        /\ \A i \in 2..Len(overriding) : overriding[i].previous = Left(overriding[i - 1])

LevelsInv ==
    minLevel \in 0..3 /\ overriding \in Seq(Override) /\ OverridesNest /\ OverridesStack

(* and the file's lines are written, queued or lost.                       *)
LinesInv ==
    /\ lines \in [shown : Nat, due : Nat, queued : Nat, written : Nat, missed : Nat]
    /\ lines.due = lines.queued + lines.written + lines.missed
    /\ guard # "held" => lines.queued = 0
    /\ subscriber # "polylog" => guard = "none"

LoggerInv == InstallsInv /\ LevelsInv /\ LinesInv
=============================================================================
