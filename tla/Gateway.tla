------------------------------- MODULE Gateway -------------------------------
(***************************************************************************)
(* One chat model of grapharc/gateway shared by callers on threads of      *)
(* their own: the retry driver of resilience.py, the SpendMeter of         *)
(* spend.py, the call and the usage envelope of openai_compat.py and       *)
(* claude_cli.py, and the reader of that envelope in harness/agent.py.     *)
(* The provider is external. A step ends where another thread may run      *)
(* before the next access to the object the threads share.                 *)
(***************************************************************************)
EXTENDS Integers, FiniteSets, FiniteSetsExt

CONSTANTS
  Caller,      \* the threads
  MaxAsked,    \* bound: calls of one caller
  MaxAttempts, \* RetryPolicy.max_attempts
  Initial, MaxBackoff,  \* RetryPolicy.initial_backoff_seconds, max_backoff_seconds
  Ceiling,     \* SpendMeter.ceiling_usd
  Bills        \* what the provider may bill for a call

ASSUME GatewayAssumption ==
  /\ IsFiniteSet(Caller) /\ MaxAsked \in Nat
  /\ MaxAttempts \in Nat \ {0} /\ Initial \in Nat /\ MaxBackoff \in Nat
  /\ Ceiling \in Nat \ {0}
  /\ IsFiniteSet(Bills) /\ Bills \subseteq Nat /\ Bills # {}

VARIABLES
  backend,  \* "openai" (openai_compat.py) or "cli" (claude_cli.py)
  at,       \* caller -> where its call is
  used,     \* caller -> calls begun
  call,     \* caller -> its call under way
  usage,    \* last_usage of the shared model
  meter,    \* SpendMeter: spent_usd, calls, unpriced_calls
  bill,     \* ghost: what the provider billed, in answers that state it or hidden
  priced    \* ghost: <<caller, call number, price in its trace event>>

gatewayVars == <<backend, at, used, call, usage, meter, bill, priced>>

NoCost == -1     \* cost_usd = None
NoCall == [attempt |-> 0, streaming |-> FALSE, shown |-> FALSE, failure |-> {},
           wait |-> 0, asked |-> 0, cost |-> NoCost]

(* What a failure's exception or text gives as evidence: a verdict of the   *)
(* provider (401, "invalid api key"), a reason to try again (429, 5xx,      *)
(* "timed out"), both in one text, or neither.                              *)
Evidence == SUBSET {"verdict", "busy"}

(* is_transient, and _cli_failure, which looks for a verdict first: nothing *)
(* is retried without evidence of transience.                               *)
IsTransient(evidence) == "busy" \in evidence /\ "verdict" \notin evidence

(* Mutant: streaming calls are retried like any other.                      *)
EffectivePolicy_Always(c) == MaxAttempts

(* _effective_policy: NO_RETRY while streaming.                             *)
EffectivePolicy(c) == IF call[c].streaming THEN 1 ELSE MaxAttempts

(* base_delay: from attempt to attempt the wait doubles, up to the cap.      *)
Growth[n \in 1..MaxAttempts] == IF n = 1 THEN Initial ELSE 2 * Growth[n - 1]
BaseDelay(n) == Min({Growth[n], MaxBackoff})

(* delay_for with a jitter of a quarter, at the ends of what random() draws. *)
DelayFor(n, draw, after) ==
  LET jittered == (BaseDelay(n) * (4 - draw)) \div 4
  IN Max({jittered, Min({after, MaxBackoff})})

GatewayInit ==
  /\ backend \in {"openai", "cli"}
  /\ at = [c \in Caller |-> "idle"]
  /\ used = [c \in Caller |-> 0]
  /\ call = [c \in Caller |-> NoCall]
  /\ usage = NoCost
  /\ meter = [spent |-> 0, calls |-> 0, unpriced |-> 0]
  /\ bill = [stated |-> 0, hidden |-> 0] /\ priced = {}

(***************************************************************************)
(* _generate, up to the provider's answer.                                 *)
(***************************************************************************)
(* Mutant: a call is refused only once the ceiling has been crossed by as   *)
(* much again.                                                              *)
Headroom_Late == meter.spent < 2 * Ceiling

(* ensure_headroom refuses at or over the ceiling.                          *)
Headroom == meter.spent < Ceiling

(* Only an OpenAI-compatible backend streams; `streaming` is its field, and *)
(* _stream forgets the envelope of the call before.                         *)
Begin(c) ==
  /\ at[c] = "idle" /\ used[c] < MaxAsked
  /\ used' = [used EXCEPT ![c] = @ + 1]
  /\ \E streaming \in IF backend = "openai" THEN BOOLEAN ELSE {FALSE} :
       IF Headroom
       THEN /\ at' = [at EXCEPT ![c] = "provider"]
            /\ call' = [call EXCEPT ![c] = [NoCall EXCEPT !.attempt = 1, !.streaming = streaming]]
            /\ usage' = IF streaming THEN NoCost ELSE usage
       ELSE UNCHANGED <<at, call, usage>>
  /\ UNCHANGED <<backend, meter, bill, priced>>

(* A chunk reaches the caller through on_llm_new_token.                     *)
Chunk(c) ==
  /\ at[c] = "provider" /\ call[c].streaming /\ ~call[c].shown
  /\ call' = [call EXCEPT ![c].shown = TRUE]
  /\ UNCHANGED <<backend, at, used, usage, meter, bill, priced>>

(* call_with_retry waits and calls again, or raises what it caught. The     *)
(* provider may have billed the attempt: claude_cli raises on an answer     *)
(* marked is_error, cost and all, and a timeout or a stream that breaks     *)
(* leaves no answer to read a cost from.                                    *)
Fails(c) ==
  /\ at[c] = "provider"
  /\ \E cost \in Bills \union {0} : bill' = [bill EXCEPT !.hidden = @ + cost]
  /\ \E evidence \in Evidence :
       IF call[c].attempt < EffectivePolicy(c) /\ IsTransient(evidence)
       THEN \E draw \in {0, 1}, after \in {0, 3 * MaxBackoff} :
              /\ call' = [call EXCEPT
                   ![c].attempt = @ + 1, ![c].failure = evidence, ![c].asked = after,
                   ![c].wait = DelayFor(call[c].attempt, draw, after)]
              /\ UNCHANGED at
       ELSE /\ at' = [at EXCEPT ![c] = "idle"]
            /\ call' = [call EXCEPT ![c] = NoCall]
  /\ UNCHANGED <<backend, used, usage, meter, priced>>

(* SpendMeter.charge: a call without a cost is counted, never guessed.      *)
Charged(amount) ==
  [meter EXCEPT !.calls = @ + 1,
                !.unpriced = IF amount = NoCost THEN @ + 1 ELSE @,
                !.spent = IF amount = NoCost THEN @ ELSE @ + amount]

(* The provider answers and bills, and may not say how much                 *)
(* (payload.get("total_cost_usd"), _provider_cost); a streamed answer       *)
(* states no usage, and _stream, which _generate consumed, has charged it   *)
(* already.                                                                 *)
Answers(c) ==
  /\ at[c] = "provider"
  /\ \E cost \in Bills, said \in IF call[c].streaming THEN {FALSE} ELSE BOOLEAN :
       /\ bill' = IF said THEN [bill EXCEPT !.stated = @ + cost] ELSE [bill EXCEPT !.hidden = @ + cost]
       /\ call' = [call EXCEPT ![c] = [NoCall EXCEPT !.cost = IF said THEN cost ELSE NoCost]]
  /\ meter' = IF call[c].streaming THEN Charged(NoCost) ELSE meter
  /\ at' = [at EXCEPT ![c] = "record"]
  /\ UNCHANGED <<backend, used, usage, priced>>

(***************************************************************************)
(* Settling the call: _record_usage, then charge.                          *)
(***************************************************************************)
RecordUsage(c) ==
  /\ at[c] = "record"
  /\ usage' = call[c].cost
  /\ at' = [at EXCEPT ![c] = "charge"]
  /\ UNCHANGED <<backend, used, call, meter, bill, priced>>

(* _settle charges what the shared envelope says by now, claude_cli what    *)
(* its own call returned. A charge past the ceiling raises, and the answer  *)
(* is lost with it.                                                         *)
ChargeCall(c) ==
  LET amount == IF backend = "openai" THEN usage ELSE call[c].cost IN
  /\ at[c] = "charge"
  /\ meter' = Charged(amount)
  /\ IF amount # NoCost /\ meter.spent + amount > Ceiling
     THEN at' = [at EXCEPT ![c] = "idle"] /\ call' = [call EXCEPT ![c] = NoCall]
     ELSE at' = [at EXCEPT ![c] = "price"] /\ UNCHANGED call
  /\ UNCHANGED <<backend, used, usage, bill, priced>>

(* AgentNode reads the price of the call off the model: _last_price.        *)
LastPrice(c) ==
  /\ at[c] = "price"
  /\ priced' = priced \cup {<<c, used[c], usage, call[c].cost>>}
  /\ at' = [at EXCEPT ![c] = "idle"]
  /\ call' = [call EXCEPT ![c] = NoCall]
  /\ UNCHANGED <<backend, used, usage, meter, bill>>

CallStep(c) ==
  Begin(c) \/ Chunk(c) \/ Fails(c) \/ Answers(c) \/ RecordUsage(c) \/ ChargeCall(c) \/ LastPrice(c)

GatewayNext == \E c \in Caller : CallStep(c)

GatewaySpec == GatewayInit /\ [][GatewayNext]_gatewayVars

(***************************************************************************)
(* Properties.                                                             *)
(***************************************************************************)
MaxCost == Max(Bills)
InFlight == {c \in Caller : at[c] \in {"record", "charge"}}

Costs(f) == MapThenSumSet(LAMBDA c : f[c], DOMAIN f)

(* What an answer under way states and the meter has yet to hear.           *)
Owed(c) == IF call[c].cost = NoCost THEN 0 ELSE call[c].cost

(* The bound SpendMeter's docstring states, of what it speaks of, which is  *)
(* the bill that answers state: whatever the threads do, which attempts     *)
(* fail and which answers come without a cost, the backend that charges its *)
(* own call's cost has spent that bill once, but for the calls it has yet   *)
(* to charge, and it passes the ceiling by no more than one call of each    *)
(* caller. Of what is billed for failed attempts and in answers without a   *)
(* cost nothing is bounded: the meter is not told.                          *)
BillIsBounded ==
  backend = "cli" =>
    /\ bill.stated = meter.spent + Costs([c \in InFlight |-> Owed(c)])
    /\ bill.stated < Ceiling + Cardinality(Caller) * MaxCost

(* resilience.py: a request is sent again only when its failure could go    *)
(* away, and never once a token of the answer was shown; the wait before    *)
(* it is at least what the provider asked for, at most the cap, and grows   *)
(* with every draw until the cap.                                           *)
ReissueIsSafe ==
  [][\A c \in Caller : call'[c].attempt = call[c].attempt + 1 /\ call[c].attempt > 0 =>
       /\ ~call[c].shown
       /\ "verdict" \notin call'[c].failure
       /\ call'[c].wait <= MaxBackoff
       /\ call'[c].wait >= Min({call'[c].asked, MaxBackoff})
       /\ BaseDelay(call[c].attempt) < MaxBackoff /\ call[c].asked = 0
            => call'[c].wait > call[c].wait]_gatewayVars

(* Said in the repository and refuted by TLC; README.md tells each.         *)

(* What agent.py says of the price it traces: it is this call's, read right *)
(* after invoke() returned.                                                 *)
PriceIsTheCalls == \A p \in priced : p[3] = p[4]

(* What spend.py says of the bill the meter did not see: once no call is    *)
(* under way, unpriced_calls tells that there is one.                       *)
UnpricedIsTheSignal ==
  backend = "cli" /\ bill.hidden > 0 /\ (\A c \in Caller : at[c] = "idle")
    => meter.unpriced > 0
=============================================================================
