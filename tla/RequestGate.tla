------------------------------ MODULE RequestGate ------------------------------
(***************************************************************************)
(* The spacing queue of provider requests (withProviderRequestSpacing,     *)
(* packages/core/src/provider_request_gate.ts) for one credential pair.    *)
(*                                                                         *)
(* Starts are chained one after the other.  A caller whose signal aborts   *)
(* is rejected at once, but its start stays in the chain until its turn.   *)
(* Times are kept as what is left of them.                                 *)
(***************************************************************************)
EXTENDS Naturals, Sequences

CONSTANTS
  Requests,  \* requests with the credential pair
  Intervals  \* values resolveProviderMinIntervalMs may have, in some unit

ASSUME GateAssumption == Intervals \subseteq Nat

VARIABLES
  caller,   \* where each caller of withProviderRequestSpacing is
  stopped,  \* requests whose signal is aborted
  interval, \* intervalMs of each request
  line,     \* requests whose start has not settled, in the order of the chain
  stage,    \* where each request's start is
  wait,     \* what is left of its timer
  left,     \* what is left until entry.nextAllowedAt
  quiet     \* history: what is left of the interval of the last request sent

startVars == <<interval, line, stage, wait, left>>
gateVars  == <<caller, stopped, startVars, quiet>>

Less(n) == IF n > 0 THEN n - 1 ELSE 0

-----------------------------------------------------------------------------
(***************************************************************************)
(* A call: an aborted one throws, one without an interval is sent, any     *)
(* other is chained behind the tail.                                       *)
(***************************************************************************)
Refused(r) ==
  /\ caller[r] = "idle" /\ r \in stopped
  /\ caller' = [caller EXCEPT ![r] = "rejected"]
  /\ UNCHANGED <<stopped, startVars, quiet>>

SentUnspaced(r) ==
  /\ caller[r] = "idle" /\ r \notin stopped
  /\ 0 \in Intervals
  /\ caller' = [caller EXCEPT ![r] = "sent"]
  /\ UNCHANGED <<stopped, startVars, quiet>>

Queues(r, ms) ==
  /\ caller[r] = "idle" /\ r \notin stopped
  /\ caller' = [caller EXCEPT ![r] = "waiting"]
  /\ interval' = [interval EXCEPT ![r] = ms]
  /\ stage' = [stage EXCEPT ![r] = "queued"]
  /\ line' = Append(line, r)
  /\ UNCHANGED <<stopped, wait, left, quiet>>

-----------------------------------------------------------------------------
MayStartAny(r) == stage[r] \in {"queued", "delay"}  \* mutant: not chained to the tail

(***************************************************************************)
(* A start runs when those before it have settled (entry.tail).            *)
(***************************************************************************)
MayStart(r) == line # <<>> /\ r = Head(line)

Settled == line' = Tail(line)

(***************************************************************************)
(* nextAllowedAt is far enough: the slot is taken.                         *)
(***************************************************************************)
Reserves(r) ==
  /\ left' = interval[r]
  /\ stage' = [stage EXCEPT ![r] = "reserved"]
  /\ Settled

TurnComes(r) ==
  /\ stage[r] = "queued" /\ MayStart(r)
  /\ r \notin stopped
  /\ IF left > 0
     THEN /\ stage' = [stage EXCEPT ![r] = "delay"]
          /\ wait' = [wait EXCEPT ![r] = left]
          /\ UNCHANGED <<left, line>>
     ELSE Reserves(r) /\ UNCHANGED wait
  /\ UNCHANGED <<caller, stopped, interval, quiet>>

DelayOver(r) ==
  /\ stage[r] = "delay" /\ wait[r] = 0
  /\ r \notin stopped
  /\ Reserves(r)
  /\ UNCHANGED <<caller, stopped, interval, wait, quiet>>

DroppedPoisoning(r) ==                          \* mutant: entry.tail = start
  /\ stage[r] \in {"queued", "delay"} /\ MayStart(r)
  /\ r \in stopped
  /\ line' = <<>>
  /\ stage' = [s \in Requests |-> IF stage[s] = "reserved" THEN stage[s] ELSE "none"]
  /\ wait' = [s \in Requests |-> 0]
  /\ caller' = [s \in Requests |-> IF stage[s] = "queued" THEN "rejected" ELSE caller[s]]
  /\ UNCHANGED <<stopped, interval, left, quiet>>

(***************************************************************************)
(* The start of an aborted request rejects, when its turn comes or in its  *)
(* delay, without a trace in the chain.                                    *)
(***************************************************************************)
Dropped(r) ==
  /\ stage[r] \in {"queued", "delay"} /\ MayStart(r)
  /\ r \in stopped
  /\ stage' = [stage EXCEPT ![r] = "none"]
  /\ wait' = [wait EXCEPT ![r] = 0]
  /\ Settled
  /\ UNCHANGED <<caller, stopped, interval, left, quiet>>

(***************************************************************************)
(* The caller goes on, a few microtasks later, and looks at its signal     *)
(* once more.                                                              *)
(***************************************************************************)
Resumes(r) ==
  /\ stage[r] = "reserved"
  /\ stage' = [stage EXCEPT ![r] = "none"]
  /\ IF caller[r] = "waiting"
     THEN caller' = [caller EXCEPT ![r] = "sent"] /\ quiet' = interval[r]
     ELSE UNCHANGED <<caller, quiet>>
  /\ UNCHANGED <<stopped, interval, line, wait, left>>

(***************************************************************************)
(* A signal is aborted: whoever waits is rejected at once.                 *)
(***************************************************************************)
Aborts(r) ==
  /\ r \notin stopped
  /\ stopped' = stopped \cup {r}
  /\ caller' = [caller EXCEPT ![r] = IF @ = "waiting" THEN "rejected" ELSE @]
  /\ UNCHANGED <<startVars, quiet>>

(***************************************************************************)
(* Time passes between macrotasks only.                                    *)
(***************************************************************************)
ClockTicks ==
  /\ \A r \in Requests : stage[r] # "reserved"
  /\ left > 0 \/ quiet > 0
  /\ left' = Less(left)
  /\ quiet' = Less(quiet)
  /\ wait' = [r \in Requests |-> Less(wait[r])]
  /\ UNCHANGED <<caller, stopped, interval, line, stage>>

-----------------------------------------------------------------------------
GateInit ==
  /\ caller = [r \in Requests |-> "idle"]
  /\ stopped = {}
  /\ interval = [r \in Requests |-> 0]
  /\ line = <<>>
  /\ stage = [r \in Requests |-> "none"]
  /\ wait = [r \in Requests |-> 0]
  /\ left = 0 /\ quiet = 0

StartStep(r) == TurnComes(r) \/ DelayOver(r) \/ Dropped(r) \/ Resumes(r)

GateNext ==
  \/ \E r \in Requests :
       \/ Refused(r) \/ SentUnspaced(r)
       \/ \E ms \in Intervals \ {0} : Queues(r, ms)
       \/ StartStep(r)
       \/ Aborts(r)
  \/ ClockTicks

GateSpec == GateInit /\ [][GateNext]_gateVars

(***************************************************************************)
(* Promises settle, timers fire and time passes.                           *)
(***************************************************************************)
GateFairness ==
  /\ \A r \in Requests : WF_gateVars(StartStep(r))
  /\ WF_gateVars(ClockTicks)

-----------------------------------------------------------------------------
GateTypeOK ==
  /\ caller \in [Requests -> {"idle", "waiting", "sent", "rejected"}]
  /\ stopped \in SUBSET Requests
  /\ interval \in [Requests -> Nat]
  /\ line \in Seq(Requests)
  /\ stage \in [Requests -> {"none", "queued", "delay", "reserved"}]
  /\ wait \in [Requests -> Nat]
  /\ left \in Nat /\ quiet \in Nat

(***************************************************************************)
(* After a spaced request no other spaced one is sent before its interval  *)
(* is over, whatever is queued, waits for a timer or is aborted meanwhile  *)
(* ("Minimum ms between the start of consecutive requests", line 31).      *)
(***************************************************************************)
RequestsAreSpaced ==
  [][\A r \in Requests : caller[r] = "waiting" /\ caller'[r] = "sent" => quiet = 0]_gateVars

(***************************************************************************)
(* The queue drains: requests in it are sent, but for those whose own      *)
(* signal is aborted, and a cancelled one neither breaks the chain nor     *)
(* rejects those behind it (lines 67 to 93).                               *)
(***************************************************************************)
Due == {r \in Requests : stage[r] # "none" /\ r \notin stopped}

Unserved == {r \in Requests : caller[r] = "rejected" /\ r \notin stopped}

QueueDrains == Due # {} ~> Due \cup Unserved = {}
=============================================================================
