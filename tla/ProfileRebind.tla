---------------------------- MODULE ProfileRebind ----------------------------
(***************************************************************************)
(* The profile the reference plugin is bound to.  register() pins a home   *)
(* and starts _deferred_init(), which builds the pipeline and the guard on *)
(* a thread of its own; a trusted profile change re-pins another home from *)
(* the host's thread (_rebind_to_resolution()); the tool calls meanwhile   *)
(* look for changes of the pinned home's config.yaml.  What a rebind or a  *)
(* tool call finds is applied by a coroutine on the plugin's event loop,   *)
(* whose completions are delivered in the order of the applications.       *)
(*                                                                         *)
(* Nobody edits a config.yaml here (LiveReload does that): a section is    *)
(* known by its home, and the cache slot of a home by the home whose key   *)
(* it was committed with.                                                  *)
(***************************************************************************)
EXTENDS Values, Naturals, Sequences

CONSTANTS
  Homes,
  Valid,         \* homes whose petasos: section builds and applies
  Sectionless,   \* homes whose config.yaml has none
  BootHome,
  Callers,       \* threads that run _pre_tool_call()
  Rebinder,      \* the host's profile-change callback
  MaxRebinds     \* bound

RebindAssumption ==
  /\ Valid \cup Sectionless \subseteq Homes /\ Valid \cap Sectionless = {} /\ BootHome \in Homes
  /\ Rebinder \notin Callers /\ None \notin Homes /\ MaxRebinds \in Nat

VARIABLES
  pinned,     \* _session_resolution
  staged,     \* _config
  init,       \* _deferred_init(): where it is, what it has read; it holds _init_lock until it ends
  policy,     \* the home of the configuration in force; "defaults"; None without a pipeline
  protects,   \* _guard._selfmod_home; None without a guard
  keyed,      \* the homes whose enforcement spool has its key
  slot,       \* _RELOAD_CACHE
  rebind,     \* the profile change under way
  caller,     \* _maybe_reconfigure() of each tool call
  posted,     \* applications submitted to the loop
  done,       \* completions to be delivered, in order
  rebinds

rbvars == <<pinned, staged, init, policy, protects, keyed, slot, rebind, caller, posted, done, rebinds>>

Live == init.at = "live"
Building == init.at \in {"building", "keying", "guarding", "publishing"}
Built(home) == IF home \in Valid THEN home ELSE "defaults"

-----------------------------------------------------------------------------
(* _deferred_init().                                                       *)
InitBegins ==
  /\ init.at = "registered"
  /\ init' = [init EXCEPT !.at = "building", !.reads = staged]
  /\ UNCHANGED <<pinned, staged, policy, protects, keyed, slot, rebind, caller, posted, done, rebinds>>

InitPipeline ==
  /\ init.at = "building"
  /\ policy' = Built(init.reads)
  /\ init' = [init EXCEPT !.at = "keying"]
  /\ UNCHANGED <<pinned, staged, protects, keyed, slot, rebind, caller, posted, done, rebinds>>

InitKeys ==
  /\ init.at = "keying"
  /\ keyed' = keyed \cup {pinned}
  /\ init' = [init EXCEPT !.at = "guarding"]
  /\ UNCHANGED <<pinned, staged, policy, protects, slot, rebind, caller, posted, done, rebinds>>

(* The guard is constructed for the home that is pinned ...                *)
InitGuard ==
  /\ init.at = "guarding"
  /\ init' = [init EXCEPT !.at = "publishing", !.reads = pinned]
  /\ UNCHANGED <<pinned, staged, policy, protects, keyed, slot, rebind, caller, posted, done, rebinds>>

(* ... and published.                                                      *)
InitPublishes ==
  /\ init.at = "publishing"
  /\ protects' = init.reads
  /\ init' = [init EXCEPT !.at = "live"]
  /\ UNCHANGED <<pinned, staged, policy, keyed, slot, rebind, caller, posted, done, rebinds>>

InitFails ==
  /\ Building /\ init.at # "publishing"
  /\ init' = [init EXCEPT !.at = "failed"]
  /\ UNCHANGED <<pinned, staged, policy, protects, keyed, slot, rebind, caller, posted, done, rebinds>>

-----------------------------------------------------------------------------
(* _rebind_to_profile(); a payload that is not a home leaves all as it is. *)
RebindGo(place) == rebind' = [rebind EXCEPT !.at = place]

Pin(home) ==
  /\ rebind.at = "idle" /\ rebinds < MaxRebinds
  /\ rebinds' = rebinds + 1
  /\ pinned' = home
  /\ rebind' = [at |-> "pinned", home |-> home]
  /\ UNCHANGED <<staged, init, policy, protects, keyed, slot, caller, posted, done>>

(* What has been published by now follows: the guard, the spool's key.     *)
Follow ==
  /\ rebind.at = "pinned"
  /\ protects' = IF protects # None THEN rebind.home ELSE None
  /\ RebindGo("guarded")
  /\ UNCHANGED <<pinned, staged, init, policy, keyed, slot, caller, posted, done, rebinds>>

Rekey ==
  /\ rebind.at = "guarded"
  /\ keyed' = IF policy # None THEN keyed \cup {rebind.home} ELSE keyed
  /\ RebindGo("keyed")
  /\ UNCHANGED <<pinned, staged, init, policy, protects, slot, caller, posted, done, rebinds>>

Forget ==
  /\ rebind.at = "keyed"
  /\ slot' = [h \in Homes |-> None]
  /\ RebindGo("reset")
  /\ UNCHANGED <<pinned, staged, init, policy, protects, keyed, caller, posted, done, rebinds>>

(* Under _init_lock: either the build has ended or it will read _config.   *)
Decide ==
  /\ rebind.at = "reset" /\ ~Building
  /\ staged' = rebind.home
  /\ RebindGo(IF Live THEN "live" ELSE "idle")
  /\ UNCHANGED <<pinned, init, policy, protects, keyed, slot, caller, posted, done, rebinds>>

(* _apply_live(): a section that is new and builds is submitted.           *)
Dispatch ==
  /\ rebind.at = "live"
  /\ posted' = IF rebind.home \in Valid /\ slot[rebind.home] # rebind.home
               THEN posted \cup {[home |-> rebind.home, by |-> Rebinder, nth |-> rebinds]} ELSE posted
  /\ RebindGo("idle")
  /\ UNCHANGED <<pinned, staged, init, policy, protects, keyed, slot, caller, done, rebinds>>

-----------------------------------------------------------------------------
(* _maybe_reconfigure(): the home is read, then its cache slot.            *)
CallerGo(c, place) == caller' = [caller EXCEPT ![c].at = place]

Peek(c) ==
  /\ caller[c].at = "idle" /\ Live
  /\ caller' = [caller EXCEPT ![c].at = "peeking", ![c].home = pinned]
  /\ UNCHANGED <<pinned, staged, init, policy, protects, keyed, slot, rebind, posted, done, rebinds>>

Found(c) ==
  LET home == caller[c].home IN
  /\ caller[c].at = "peeking"
  /\ IF home \in Valid /\ slot[home] # home
       THEN CallerGo(c, "waiting") /\ posted' = posted \cup {[home |-> home, by |-> c, nth |-> 0]}
     ELSE CallerGo(c, "idle") /\ UNCHANGED posted
  /\ UNCHANGED <<pinned, staged, init, policy, protects, keyed, slot, rebind, done, rebinds>>

(* Mutant: the commit names the home that was read.                        *)
CommitHomeAsRead(c) ==
  /\ caller[c].at = "applied"
  /\ caller' = [caller EXCEPT ![c].at = "committing", ![c].to = caller[c].home]
  /\ UNCHANGED <<pinned, staged, init, policy, protects, keyed, slot, rebind, posted, done, rebinds>>

(* The commit names the home that is pinned now, whichever was read.       *)
CommitHome(c) ==
  /\ caller[c].at = "applied"
  /\ caller' = [caller EXCEPT ![c].at = "committing", ![c].to = pinned]
  /\ UNCHANGED <<pinned, staged, init, policy, protects, keyed, slot, rebind, posted, done, rebinds>>

Commit(c) ==
  /\ caller[c].at = "committing"
  /\ slot' = [slot EXCEPT ![caller[c].to] = caller[c].home]
  /\ CallerGo(c, "idle")
  /\ UNCHANGED <<pinned, staged, init, policy, protects, keyed, rebind, posted, done, rebinds>>

-----------------------------------------------------------------------------
(* _apply_reconfigure() has the inspect mutex.                             *)
Apply(job) ==
  /\ job \in posted
  /\ posted' = posted \ {job}
  /\ policy' = job.home
  /\ keyed' = keyed \cup {pinned}
  /\ done' = Append(done, job)
  /\ UNCHANGED <<pinned, staged, init, protects, slot, rebind, caller, rebinds>>

(* The loop completes a future: a rebind's callback commits the home it    *)
(* was for, a tool call's thread goes on.                                  *)
Deliver ==
  LET job == Head(done) IN
  /\ done # <<>>
  /\ done' = Tail(done)
  /\ IF job.by = Rebinder
       THEN slot' = [slot EXCEPT ![job.home] = job.home] /\ UNCHANGED caller
     ELSE CallerGo(job.by, "applied") /\ UNCHANGED slot
  /\ UNCHANGED <<pinned, staged, init, policy, protects, keyed, rebind, posted, rebinds>>

Init ==
  /\ pinned = BootHome /\ staged = BootHome
  /\ init = [at |-> "registered", reads |-> None]
  /\ policy = None /\ protects = None /\ keyed = {}
  /\ slot = [h \in Homes |-> None]
  /\ rebind = [at |-> "idle", home |-> None]
  /\ caller = [c \in Callers |-> [at |-> "idle", home |-> None, to |-> None]]
  /\ posted = {} /\ done = <<>>
  /\ rebinds = 0

Inits == InitBegins \/ InitPipeline \/ InitKeys \/ InitGuard \/ InitPublishes
Rebinds == Follow \/ Rekey \/ Forget \/ Decide \/ Dispatch
Calls(c) == Peek(c) \/ Found(c) \/ CommitHome(c) \/ Commit(c)
Applies == \E job \in posted : Apply(job)

Next ==
  \/ Inits \/ InitFails
  \/ \E home \in Homes : Pin(home)
  \/ Rebinds
  \/ \E c \in Callers : Calls(c)
  \/ Applies
  \/ Deliver

(* Tool calls keep coming, and no thread is starved.                       *)
RebindFairness ==
  /\ WF_rbvars(Inits \/ InitFails) /\ WF_rbvars(Rebinds) /\ WF_rbvars(Deliver) /\ WF_rbvars(Applies)
  /\ \A c \in Callers : WF_rbvars(Calls(c))

-----------------------------------------------------------------------------
Quiet ==
  /\ Live /\ rebind.at = "idle" /\ posted = {} /\ done = <<>>
  /\ \A c \in Callers : caller[c].at = "idle"

(* Once the plugin is live and the profile stops changing, the spool of    *)
(* the pinned home has its key, and the policy of that home is in force if *)
(* it is a valid one (plugin 1926-1957, 2029-2143).                        *)
PolicyFollowsHome ==
  Live ~> (pinned \in keyed /\ (pinned \in Valid => policy = pinned))

(* Whatever rebinds, builds and tool calls overlap, the policy in force at *)
(* rest is that of the last home that was pinned.                          *)
RebindsConverge == Quiet => (pinned \in Valid => policy = pinned)
=============================================================================
