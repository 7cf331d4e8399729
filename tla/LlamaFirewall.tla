---------------------------- MODULE LlamaFirewall ----------------------------
(***************************************************************************)
(* LlamaFirewallScanner (llama_firewall.py).  The backend may ask for a    *)
(* token on the terminal when it is constructed and in its first scan, so  *)
(* both run with sys.stdin replaced by the null device.  The replacement   *)
(* is of the process and _STDIN_GUARD, for which nobody waits, admits one  *)
(* at a time; there is a scanner in every guarded profile, each with its   *)
(* own scans, and a cancelled scan leaves its thread behind.               *)
(***************************************************************************)
EXTENDS Values, FiniteSets, Naturals

CONSTANTS
  Firewalls,   \* the scanners of the process
  Enabled,     \* [Firewalls -> SUBSET {"prompt_guard", "alignment_check", "code_shield"}]
  FwThreads,   \* the worker threads there may be
  MaxFwScans   \* bound: calls of scan()

ASSUME LlamaFirewallAssumption ==
  /\ None \notin Firewalls \cup FwThreads \cup {"absent", "warming", "crash"}
  /\ Firewalls \cap FwThreads = {}
  /\ Enabled \in [Firewalls -> SUBSET {"prompt_guard", "alignment_check", "code_shield"}]

VARIABLES
  site,     \* the package is installed, the model is cached or there is a token
  stdin,    \* "host" or "devnull"
  swap,     \* who holds _STDIN_GUARD, a scanner that loads or a thread; what each saved
  fw,       \* the attributes of a scanner
  co,       \* the coroutine of a scanner's scan
  thr,      \* _scan_sync() of each thread
  fwScans,
  asked,    \* history: the streams that a prompt of the backend was read from
  ready,    \* history: the scanners whose prompt_guard has its model
  crashed   \* history: the scanners whose last load crashed

firewallVars == <<site, stdin, swap, fw, co, thr, fwScans, asked, ready, crashed>>

FwFresh == [loaded |-> FALSE, error |-> None, retryable |-> FALSE, parts |-> {}, warmed |-> FALSE]
Resting == [at |-> "idle", of |-> None, left |-> {}, good |-> FALSE, eof |-> FALSE,
            raised |-> FALSE]

Prerequisite(i) == "prompt_guard" \notin Enabled[i] \/ site.model

(* availability() of a scanner with these attributes.                      *)
FwAvailable(i, a) ==
  /\ ~(a.error # None /\ ~a.retryable)
  /\ site.package
  /\ a.parts = {} => Prerequisite(i)

FwAt(i, place) == co' = [co EXCEPT ![i].at = place]
FwAnswer(i, a) == co' = [co EXCEPT ![i] = [at |-> "idle", thread |-> None, answer |-> a]]

(* _stdin_swap(): entered if the guard is free.                            *)
SwapIn(who) ==
  /\ swap' = [holder |-> who, saved |-> [swap.saved EXCEPT ![who] = stdin]]
  /\ stdin' = "devnull"
SwapOut(who) ==
  /\ stdin' = swap.saved[who]
  /\ swap' = [holder |-> None, saved |-> [swap.saved EXCEPT ![who] = None]]

-----------------------------------------------------------------------------
FwCall(i) ==
  /\ co[i].at = "idle" /\ fwScans < MaxFwScans
  /\ fwScans' = fwScans + 1
  /\ co' = [co EXCEPT ![i] = [at |-> "ensuring", thread |-> None, answer |-> None]]
  /\ UNCHANGED <<site, stdin, swap, fw, thr, asked, ready, crashed>>

EnsureKnown(i) ==
  /\ co[i].at = "ensuring"
  /\ fw[i].loaded \/ fw[i].error # None
  /\ ~(fw[i].error # None /\ fw[i].retryable)
  /\ IF fw[i].error = None THEN FwAt(i, "ensured") ELSE FwAnswer(i, "error")
  /\ UNCHANGED <<site, stdin, swap, fw, thr, fwScans, asked, ready, crashed>>

Loadable(i) ==
  /\ co[i].at = "ensuring"
  /\ fw[i].error = None => ~fw[i].loaded
  /\ fw[i].error # None => fw[i].retryable

(* The backend is not there: a retry refines the error, the import or the  *)
(* prerequisite of a first load sets it.                                   *)
EnsureUnavailable(i) ==
  /\ Loadable(i)
  /\ ~site.package \/ ~Prerequisite(i)
  /\ fw' = [fw EXCEPT ![i] = [@ EXCEPT !.error = "absent", !.retryable = TRUE, !.parts = {}]]
  /\ FwAnswer(i, "error")
  /\ UNCHANGED <<site, stdin, swap, thr, fwScans, asked, ready, crashed>>

(* Another scanner loads, or a scan warms up.                              *)
FwWarmingUp(i) ==
  /\ Loadable(i) /\ site.package /\ Prerequisite(i)
  /\ swap.holder # None
  /\ fw' = [fw EXCEPT ![i] = [@ EXCEPT !.error = "warming", !.retryable = TRUE,
                                       !.parts = IF fw[i].error = "warming"
                                                 THEN fw[i].parts ELSE {}]]
  /\ FwAnswer(i, "error")
  /\ UNCHANGED <<site, stdin, swap, thr, fwScans, asked, ready, crashed>>

EnsureLoads(i) ==
  /\ Loadable(i) /\ site.package /\ Prerequisite(i)
  /\ swap.holder = None
  /\ SwapIn(i)
  /\ fw' = [fw EXCEPT ![i] = [FwFresh EXCEPT !.warmed = fw[i].warmed]]
  /\ FwAt(i, "loading")
  /\ UNCHANGED <<site, thr, fwScans, asked, ready, crashed>>

LoadPart(i) ==
  /\ co[i].at = "loading"
  /\ \E part \in Enabled[i] \ fw[i].parts : fw' = [fw EXCEPT ![i].parts = @ \cup {part}]
  /\ UNCHANGED <<site, stdin, swap, co, thr, fwScans, asked, ready, crashed>>

FwLoad(i) ==
  /\ co[i].at = "loading" /\ fw[i].parts = Enabled[i]
  /\ SwapOut(i)
  /\ fw' = [fw EXCEPT ![i].loaded = TRUE]
  /\ FwAt(i, "ensured")
  /\ crashed' = crashed \ {i}
  /\ UNCHANGED <<site, thr, fwScans, asked, ready>>

(* The constructor raises, or asks and reads the end of the file.  The     *)
(* handler sets the error, then takes availability() for the class of it.  *)
LoadCrashes(i, asks) ==
  LET failed == [fw[i] EXCEPT !.parts = {}, !.error = "crash"] IN
  /\ co[i].at = "loading" /\ fw[i].parts # Enabled[i]
  /\ asked' = IF asks THEN asked \cup {stdin} ELSE asked
  /\ SwapOut(i)
  /\ fw' = [fw EXCEPT ![i] = IF FwAvailable(i, failed)
                             THEN [failed EXCEPT !.loaded = TRUE, !.retryable = FALSE]
                             ELSE [failed EXCEPT !.retryable = TRUE]]
  /\ FwAnswer(i, "error")
  /\ crashed' = crashed \cup {i}
  /\ UNCHANGED <<site, thr, fwScans, ready>>

FwDispatch(i, t) ==
  /\ co[i].at = "ensured" /\ thr[t].at = "idle"
  /\ IF fw[i].parts = {} THEN FwAnswer(i, "error") /\ UNCHANGED thr
     ELSE /\ co' = [co EXCEPT ![i].at = "awaiting", ![i].thread = t]
          /\ thr' = [thr EXCEPT ![t] = [Resting EXCEPT !.at = "queued", !.of = i]]
  /\ UNCHANGED <<site, stdin, swap, fw, fwScans, asked, ready, crashed>>

(* The pipeline gives the scan up; the thread goes on.                     *)
FwCancel(i) ==
  /\ co[i].at = "awaiting"
  /\ FwAnswer(i, "cancelled")
  /\ UNCHANGED <<site, stdin, swap, fw, thr, fwScans, asked, ready, crashed>>

Reply(t, a) == IF co[thr[t].of].thread = t THEN FwAnswer(thr[t].of, a) ELSE UNCHANGED co

BeginWarm(t) ==
  /\ thr[t].at = "queued" /\ fw[thr[t].of].warmed
  /\ thr' = [thr EXCEPT ![t] = [@ EXCEPT !.at = "scanning", !.left = fw[thr[t].of].parts]]
  /\ UNCHANGED <<site, stdin, swap, fw, co, fwScans, asked, ready, crashed>>

BeginRefused(t) ==
  /\ thr[t].at = "queued" /\ ~fw[thr[t].of].warmed /\ swap.holder # None
  /\ thr' = [thr EXCEPT ![t] = Resting]
  /\ Reply(t, "error")
  /\ UNCHANGED <<site, stdin, swap, fw, fwScans, asked, ready, crashed>>

(* Mutant: the swap is entered whoever holds the guard.                    *)
BeginColdUnguarded(t) ==
  /\ thr[t].at = "queued" /\ ~fw[thr[t].of].warmed
  /\ SwapIn(t)
  /\ thr' = [thr EXCEPT ![t] = [@ EXCEPT !.at = "warming", !.left = fw[thr[t].of].parts]]
  /\ UNCHANGED <<site, fw, co, fwScans, asked, ready, crashed>>

BeginCold(t) ==
  /\ thr[t].at = "queued" /\ ~fw[thr[t].of].warmed /\ swap.holder = None
  /\ SwapIn(t)
  /\ thr' = [thr EXCEPT ![t] = [@ EXCEPT !.at = "warming", !.left = fw[thr[t].of].parts]]
  /\ UNCHANGED <<site, fw, co, fwScans, asked, ready, crashed>>

(* One component scans the text.  A prompt_guard that has no model yet may *)
(* ask for a token; whatever raises is an error of the scan.               *)
PartReturns(t, part) ==
  /\ thr[t].at \in {"warming", "scanning"} /\ part \in thr[t].left
  /\ thr' = [thr EXCEPT ![t] = [@ EXCEPT !.left = thr[t].left \ {part},
                                           !.good = thr[t].good \/ part = "prompt_guard"]]
  /\ ready' = IF part = "prompt_guard" THEN ready \cup {thr[t].of} ELSE ready
  /\ UNCHANGED <<site, stdin, swap, fw, co, fwScans, asked, crashed>>

PartRaises(t, part) ==
  /\ thr[t].at \in {"warming", "scanning"} /\ part \in thr[t].left
  /\ thr' = [thr EXCEPT ![t] = [@ EXCEPT !.left = thr[t].left \ {part}, !.raised = TRUE]]
  /\ UNCHANGED <<site, stdin, swap, fw, co, fwScans, asked, ready, crashed>>

PartAsks(t) ==
  /\ thr[t].at \in {"warming", "scanning"} /\ "prompt_guard" \in thr[t].left
  /\ thr[t].of \notin ready
  /\ asked' = asked \cup {stdin}
  /\ thr' = [thr EXCEPT ![t] = [@ EXCEPT !.left = thr[t].left \ {"prompt_guard"},
                                           !.raised = TRUE, !.eof = TRUE]]
  /\ UNCHANGED <<site, stdin, swap, fw, co, fwScans, ready, crashed>>

Warms(t) ==
  /\ ~thr[t].eof
  /\ "prompt_guard" \in fw[thr[t].of].parts => thr[t].good

FwFinish(t) ==
  /\ thr[t].at \in {"warming", "scanning"} /\ thr[t].left = {}
  /\ IF thr[t].at = "warming"
       THEN /\ SwapOut(t)
            /\ fw' = IF Warms(t) THEN [fw EXCEPT ![thr[t].of].warmed = TRUE] ELSE fw
     ELSE UNCHANGED <<stdin, swap, fw>>
  /\ thr' = [thr EXCEPT ![t] = Resting]
  /\ Reply(t, IF thr[t].raised THEN "error" ELSE "clean")
  /\ UNCHANGED <<site, fwScans, asked, ready, crashed>>

FwProvision ==
  /\ site' \in [package : BOOLEAN, model : BOOLEAN]
  /\ site' # site /\ site.package => site'.package
  /\ site.model => site'.model
  /\ UNCHANGED <<stdin, swap, fw, co, thr, fwScans, asked, ready, crashed>>

FirewallInit ==
  /\ site \in [package : BOOLEAN, model : BOOLEAN]
  /\ stdin = "host"
  /\ swap = [holder |-> None, saved |-> [x \in Firewalls \cup FwThreads |-> None]]
  /\ fw = [i \in Firewalls |-> FwFresh]
  /\ co = [i \in Firewalls |-> [at |-> "idle", thread |-> None, answer |-> None]]
  /\ thr = [t \in FwThreads |-> Resting]
  /\ fwScans = 0
  /\ asked = {} /\ ready = {} /\ crashed = {}

FirewallNext ==
  \/ FwProvision
  \/ \E i \in Firewalls :
       \/ FwCall(i) \/ EnsureKnown(i) \/ EnsureUnavailable(i) \/ FwWarmingUp(i) \/ EnsureLoads(i)
       \/ LoadPart(i) \/ FwLoad(i) \/ FwCancel(i)
       \/ \E asks \in BOOLEAN : LoadCrashes(i, asks)
       \/ \E t \in FwThreads : FwDispatch(i, t)
  \/ \E t \in FwThreads :
       \/ BeginWarm(t) \/ BeginRefused(t) \/ BeginCold(t) \/ PartAsks(t) \/ FwFinish(t)
       \/ \E part \in thr[t].left : PartReturns(t, part) \/ PartRaises(t, part)

FirewallSpec == FirewallInit /\ [][FirewallNext]_firewallVars

-----------------------------------------------------------------------------
(* Whatever loads, scans and cancellations overlap, the terminal is that   *)
(* of the host again once nobody holds the guard, and no prompt of the     *)
(* backend is ever read from it (llama_firewall.py:66-84, 371-425).        *)
TerminalKept ==
  /\ swap.holder = None => stdin = "host"
  /\ "host" \notin asked
=============================================================================
