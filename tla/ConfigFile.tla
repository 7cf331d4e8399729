------------------------------ MODULE ConfigFile ------------------------------
(***************************************************************************)
(* The config.yaml of each profile: the consoles that read, change and     *)
(* replace it (_armed.write_armed, ConsoleHandlers.set_armed,              *)
(* update_config, _persist_config) and the gateway that asks it whether    *)
(* the guard is armed, through a cache (_armed.read_armed).                *)
(*                                                                         *)
(* A console runs one handler at a time.  Another console, an editor or a  *)
(* profile switch may come between its reading and its replacing the file. *)
(***************************************************************************)
EXTENDS EventStreams, SequencesExt

CONSTANTS
  Profiles,
  Gated,      \* the profile the gateway is pinned to
  Consoles,   \* console processes; SSE is that of Main
  Main,
  Rejected,   \* a value reconfigure() refuses and from_dict() accepts
  Values,     \* the values of a setting
  Initial,    \* the value every setting starts with
  ArmedTTL,   \* _ARMED_TTL_S, in ticks
  Grain,      \* ticks that share an mtime
  ArmedCacheMax,
  MaxCalls, MaxClock   \* bounds: handler calls, edits and switches together; time

ASSUME ConfigFileAssumption ==
  /\ Gated \in Profiles /\ Main \in Consoles
  /\ ArmedTTL \in Nat /\ Grain \in Nat \ {0} /\ ArmedCacheMax \in Nat \ {0}
  /\ Rejected \in Values /\ Initial \in Values \ {Rejected}
  /\ Nothing \notin Nat

VARIABLES
  files,        \* [Profiles -> the petasos section, its mtime, its readability]
  active,       \* the profile active_profile names
  memory,       \* [Consoles -> the settings its pipeline runs]
  job,          \* [Consoles -> the handler it is in, or Nothing]
  sent,         \* the armed bit last broadcast by Main, or Nothing
  cache,        \* _ARMED_CACHE of the gateway, oldest first
  reading,      \* the gateway between os.stat and the parse
  disarmedAt,   \* when the gated file last said disarmed
  clock, calls

fileVars == <<files, active, disarmedAt>>
gateVars == <<cache, reading>>
consoleVars == <<memory, job, sent>>
boundVars == <<clock, calls>>
switchVars == <<fileVars, gateVars, consoleVars, boundVars, streamVars>>

(* Nothing new begins once the shutdown hook has run.                      *)
OneMore ==
  /\ calls < MaxCalls /\ ~down
  /\ calls' = calls + 1

Section(f) == [a |-> f.a, b |-> f.b]

(* What stat tells of a file: two contents may have the same size.         *)
Stat(f) == [mtime |-> f.mtime, size |-> (IF f.enabled THEN 0 ELSE 1) + f.a + f.b]

ReplaceFile(p, f) ==
  /\ files' = [files EXCEPT ![p] = [f EXCEPT !.mtime = clock \div Grain]]
  /\ disarmedAt' = IF p = Gated /\ ~f.enabled THEN clock ELSE disarmedAt

-----------------------------------------------------------------------------
(* set_armed: a named profile must be the equipped one.                    *)

BeginArm(c, armed, named) ==
  /\ job[c] = Nothing /\ OneMore
  /\ named \in {Nothing, active}
  /\ job' = [job EXCEPT ![c] = [kind |-> "arm", target |-> active, enabled |-> armed,
                                base |-> files[active], phase |-> "replace"]]
  /\ UNCHANGED <<memory, sent, fileVars, gateVars, clock, streamVars>>

(* The bit changes, every other key stays as it was read.  A file that     *)
(* does not parse, or a replace the system refuses, leaves all as it is.   *)
ArmReplaces(c) ==
  LET j == job[c] IN
  /\ j # Nothing /\ j.kind = "arm" /\ j.phase = "replace"
  /\ j.base.readable
  /\ ReplaceFile(j.target, [j.base EXCEPT !.enabled = j.enabled])
  /\ job' = [job EXCEPT ![c].phase = "announce"]
  /\ UNCHANGED <<memory, sent, active, gateVars, boundVars, streamVars>>

ArmFailsLoudly(c) ==
  LET j == job[c] IN
  /\ j # Nothing /\ j.kind = "arm" /\ j.phase = "replace"
  /\ job' = [job EXCEPT ![c] = Nothing]
  /\ IF c = Main THEN BroadcastArmed(j.enabled) ELSE UNCHANGED streamVars
  /\ UNCHANGED <<memory, sent, fileVars, gateVars, boundVars>>

ArmFails(c) ==
  LET j == job[c] IN
  /\ j # Nothing /\ j.kind = "arm" /\ j.phase = "replace"
  /\ job' = [job EXCEPT ![c] = Nothing]
  /\ UNCHANGED <<memory, sent, fileVars, gateVars, boundVars, streamVars>>

(* The flip that was written is broadcast to the tabs of this console.     *)
Announce(c) ==
  LET j == job[c] IN
  /\ j # Nothing /\ j.phase = "announce"
  /\ job' = [job EXCEPT ![c] = Nothing]
  /\ IF c = Main THEN sent' = j.enabled /\ BroadcastArmed(j.enabled)
                 ELSE UNCHANGED <<sent, streamVars>>
  /\ UNCHANGED <<memory, fileVars, gateVars, boundVars>>

-----------------------------------------------------------------------------
(* update_config.                                                          *)

Appliable(s) == s.a # Rejected

(* The equipped profile: the change is merged into what the console runs,  *)
(* applied, and then persisted to the profile that is active by then.      *)
BeginSave(c, key, value) ==
  LET merged == [memory[c] EXCEPT ![key] = value] IN
  /\ job[c] = Nothing /\ OneMore
  /\ Appliable(merged)
  /\ memory' = [memory EXCEPT ![c] = merged]
  /\ job' = [job EXCEPT ![c] = [kind |-> "save", target |-> Nothing, settings |-> merged,
                                phase |-> "read"]]
  /\ UNCHANGED <<sent, fileVars, gateVars, clock, streamVars>>

(* Any other profile: merged into its own section, tried on throw-away     *)
(* components, and persisted only.                                         *)
BeginStage(c, p, key, value) ==
  LET merged == [Section(files[p]) EXCEPT ![key] = value] IN
  /\ job[c] = Nothing /\ OneMore
  /\ p # active /\ files[p].readable
  /\ Appliable(merged)
  /\ job' = [job EXCEPT ![c] = [kind |-> "stage", target |-> p, settings |-> merged,
                                phase |-> "read"]]
  /\ UNCHANGED <<memory, sent, fileVars, gateVars, clock, streamVars>>

(* _persist_config reads the file for the keys it must not drop.           *)
PersistReads(c) ==
  LET j == job[c]
      p == IF j.target = Nothing THEN active ELSE j.target
  IN  /\ j # Nothing /\ j.phase = "read"
      /\ files[p].readable
      /\ job' = [job EXCEPT ![c] = [kind |-> j.kind, target |-> p, settings |-> j.settings,
                                    base |-> files[p], phase |-> "replace"]]
      /\ UNCHANGED <<memory, sent, fileVars, gateVars, boundVars, streamVars>>

PersistDropsBit(c) ==
  LET j == job[c] IN
  /\ j # Nothing /\ j.kind # "arm" /\ j.phase = "replace"
  /\ ReplaceFile(j.target, [j.base EXCEPT !.a = j.settings.a, !.b = j.settings.b, !.enabled = TRUE])
  /\ job' = [job EXCEPT ![c] = Nothing]
  /\ UNCHANGED <<memory, sent, active, gateVars, boundVars, streamVars>>

(* The section becomes the settings, and the armed bit that was read.      *)
PersistReplaces(c) ==
  LET j == job[c] IN
  /\ j # Nothing /\ j.kind # "arm" /\ j.phase = "replace"
  /\ ReplaceFile(j.target, [j.base EXCEPT !.a = j.settings.a, !.b = j.settings.b])
  /\ job' = [job EXCEPT ![c] = Nothing]
  /\ UNCHANGED <<memory, sent, active, gateVars, boundVars, streamVars>>

(* It could not be read or replaced; what was applied stays applied.       *)
PersistFails(c) ==
  /\ job[c] # Nothing
  /\ job[c].kind # "arm" /\ job[c].phase \in {"read", "replace"}
  /\ job' = [job EXCEPT ![c] = Nothing]
  /\ UNCHANGED <<memory, sent, fileVars, gateVars, boundVars, streamVars>>

-----------------------------------------------------------------------------
(* The gateway.                                                            *)

CacheHitWhateverAge(key) == {e \in {cache[i] : i \in DOMAIN cache} : e.key = key}

(* An entry of the same mtime and size answers for less than a TTL.        *)
CacheHit(key) == {e \in {cache[i] : i \in DOMAIN cache} : e.key = key /\ clock - e.at < ArmedTTL}

(* read_armed up to the cache: a hit is an answer, a miss parses the file. *)
StatGated ==
  /\ reading = Nothing
  /\ files[Gated].readable
  /\ CacheHit(Stat(files[Gated])) = {}
  /\ reading' = [key |-> Stat(files[Gated]), at |-> clock]
  /\ UNCHANGED <<cache, fileVars, consoleVars, boundVars, streamVars>>

(* The cache without the entry of a key, of which there is at most one.    *)
Popped(key) ==
  LET found == {i \in DOMAIN cache : cache[i].key = key}
  IN  IF found = {} THEN cache ELSE RemoveAt(cache, CHOOSE i \in found : TRUE)

(* The section that is read is that of the file by now, stored under the   *)
(* key that was seen before; what cannot be read is armed.                 *)
ParseGated ==
  LET f == files[Gated]
      all == Append(Popped(reading.key), [key |-> reading.key, at |-> reading.at,
                             armed |-> f.readable => f.enabled])
  IN  /\ reading # Nothing
      /\ reading' = Nothing
      /\ cache' = SubSeq(all, IF Len(all) > ArmedCacheMax THEN Len(all) - ArmedCacheMax + 1 ELSE 1,
                         Len(all))
      /\ UNCHANGED <<fileVars, consoleVars, boundVars, streamVars>>

-----------------------------------------------------------------------------
Tick ==
  /\ clock < MaxClock /\ ~down
  /\ clock' = clock + 1
  /\ disarmedAt' = IF files[Gated].enabled THEN disarmedAt ELSE clock'
  /\ UNCHANGED <<files, active, gateVars, consoleVars, calls, streamVars>>

(* A profile switch, and an editor that leaves YAML that does not parse,   *)
(* or repairs it.                                                          *)
SwitchProfile(p) ==
  /\ OneMore
  /\ p # active
  /\ active' = p
  /\ UNCHANGED <<files, disarmedAt, gateVars, consoleVars, clock, streamVars>>

EditFile(p, f) ==
  /\ OneMore
  /\ ReplaceFile(p, f)
  /\ UNCHANGED <<active, gateVars, consoleVars, clock, streamVars>>

ConfigFileInit ==
  /\ files = [p \in Profiles |-> [a |-> Initial, b |-> Initial, enabled |-> TRUE, mtime |-> 0,
                                  readable |-> TRUE]]
  /\ active \in Profiles
  /\ memory = [c \in Consoles |-> Section(files[active])]
  /\ job = [c \in Consoles |-> Nothing]
  /\ sent = Nothing
  /\ cache = <<>>
  /\ reading = Nothing
  /\ disarmedAt = Nothing
  /\ clock = 0 /\ calls = 0
  /\ StreamsInit

Handlers(c) ==
  \/ \E armed \in BOOLEAN, named \in {Nothing} \cup Profiles : BeginArm(c, armed, named)
  \/ ArmReplaces(c)
  \/ ArmFails(c)
  \/ Announce(c)
  \/ \E key \in {"a", "b"}, value \in Values :
       \/ BeginSave(c, key, value)
       \/ \E p \in Profiles : BeginStage(c, p, key, value)
  \/ PersistReads(c)
  \/ PersistReplaces(c)
  \/ PersistFails(c)

Outside ==
  \E p \in Profiles :
    \/ SwitchProfile(p)
    \/ EditFile(p, [files[p] EXCEPT !.readable = ~@])
    \/ EditFile(p, [files[p] EXCEPT !.enabled = ~@])

Streams == StreamsNext /\ UNCHANGED <<fileVars, gateVars, consoleVars, boundVars>>

ConfigFileNext ==
  \/ \E c \in Consoles : Handlers(c)
  \/ StatGated \/ ParseGated
  \/ Tick
  \/ Outside
  \/ Streams

ConfigFileSpec == ConfigFileInit /\ [][ConfigFileNext]_switchVars

-----------------------------------------------------------------------------
(* The bits read_armed may answer with now, from its cache.                *)
Answers == {e.armed : e \in CacheHit(Stat(files[Gated]))}

(* The gateway acts on "disarmed" only if the file said so less than a TTL *)
(* ago, whatever was rewritten within one mtime or one size and whatever   *)
(* was replaced between its stat and its parse (_armed.py:65-92).          *)
DisarmExpires ==
  (FALSE \in Answers) => (disarmedAt # Nothing /\ clock - disarmedAt < ArmedTTL)

(* A writer changes of a file what it was asked to: arming keeps the       *)
(* settings, a save keeps the armed bit, both keep the other settings of   *)
(* the section they merged into - unless another writer replaced the file  *)
(* since this one read it (_armed.py:117, server.py:596-606).              *)
Writing(c, p) == job[c] # Nothing /\ job[c].phase = "replace" /\ job[c].target = p
                   /\ job'[c] # job[c]
WritersKeepTheRest ==
  [][\A p \in Profiles, c \in Consoles :
       (Writing(c, p) /\ files'[p] # files[p] /\ job[c].base = files[p]) =>
         IF job[c].kind = "arm" THEN Section(files'[p]) = Section(files[p])
                                ELSE files'[p].enabled = files[p].enabled]_switchVars

(* A tab that has been sent everything shows the bit that was last written *)
(* here since it subscribed; a flip that failed is not shown               *)
(* (server.py:2300-2308).                                                  *)
TabsFollowTheFile ==
  \A t \in subscribers \ missed :
    (seen[t] # Nothing /\ \A i \in DOMAIN queue[t] : queue[t][i].kind # "armed") => seen[t] = sent

(* The streams keep up with the console: a live tab learns of the last     *)
(* flip, and every live response learns of the shutdown, however full the  *)
(* queues were (server.py:2300-2308, _sse.py:73-87).                       *)
StreamsKeepUp == TabsFollowTheFile /\ ShutdownEnds
=============================================================================
