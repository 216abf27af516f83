--------------------------- MODULE CircuitBreaker ---------------------------
(***************************************************************************)
(* The circuit breaker of one symbol (execution/circuit_breaker.py).  The  *)
(* scanner feeds it the entry spread of each direction, the automatic      *)
(* opener asks it before it opens, and a job of its own writes the stored  *)
(* settings over its parameters.  Jitter ratios are counted in units of    *)
(* 1/Scale; Scale is a multiple of every denominator the window can give.  *)
(***************************************************************************)
EXTENDS Integers, Sequences, FiniteSets

CONSTANTS
  Directions,        \* the two directions of the pair
  Spreads,           \* entry spreads a scan can compute
  Detection,         \* detection_seconds
  Cooldown,          \* cooldown_seconds
  InitialThreshold,  \* cb_initial_threshold, in units of 1/Scale
  Multiplier,        \* baseline_multiplier
  MinSamples,        \* min_baseline_samples
  BaselineCap,       \* maxlen of baseline_jitters
  MaxTime,           \* bound: the clock
  MaxUpdates         \* bound: quotes fed

BreakerAssumption ==
  /\ Spreads \subseteq Int
  /\ Detection \in Nat /\ Cooldown \in Nat
  /\ InitialThreshold \in Nat /\ Multiplier \in Nat
  /\ MinSamples \in Nat /\ BaselineCap \in Nat \ {0}
  /\ MaxTime \in Nat /\ MaxUpdates \in Nat

Scale == 60

VARIABLES
  now,       \* the clock
  window,    \* per direction, the (time, spread) pairs kept
  jitter,    \* per direction, last_jitter
  baseline,  \* baseline_jitters
  current,   \* current_jitter_ratio
  threshold,
  state,     \* "CLOSED" or "OPEN"
  tripped,   \* last_trip_time
  updates,   \* how many quotes were fed
  trip       \* history: what the last trip rested on

vars == <<now, window, jitter, baseline, current, threshold, state, tripped, updates, trip>>

NoTrip == [turned |-> FALSE, above |-> 0, samples |-> 0]

Init ==
  /\ now = 0 /\ updates = 0
  /\ window = [d \in Directions |-> <<>>]
  /\ jitter = [d \in Directions |-> 0]
  /\ baseline = <<>> /\ current = 0
  /\ threshold = InitialThreshold
  /\ state = "CLOSED" /\ tripped = 0 /\ trip = NoTrip

-----------------------------------------------------------------------------
Least(S) == CHOOSE x \in S : \A y \in S : x <= y
Largest(S) == CHOOSE x \in S : \A y \in S : y <= x

(* _prune_window: the front of a window goes as long as it is older than   *)
(* the detection window; the sample just added is not.                     *)
Prune(w) == SubSeq(w, Least({i \in DOMAIN w : w[i].at >= now - Detection}), Len(w))

(* The moves of a window that are not zero, and the way they go. *)
Moves(w) == {i \in 1 .. Len(w) - 1 : w[i + 1].spread # w[i].spread}
Rises(w, i) == w[i].spread < w[i + 1].spread

(* The moves whose sign is not that of the move before them. *)
Turns(w) ==
  {j \in Moves(w) : \E i \in Moves(w) :
      /\ i < j /\ \A k \in Moves(w) : ~ (i < k /\ k < j)
      /\ Rises(w, i) # Rises(w, j)}

(* _calculate_jitter: changes of sign over the pairs of moves. *)
Jitter(w) ==
  IF Len(w) < 3 \/ Cardinality(Moves(w)) < 2 THEN 0
  ELSE (Cardinality(Turns(w)) * Scale) \div (Cardinality(Moves(w)) - 1)

(* The sample at an index of the sorted samples, the first at 0: no more   *)
(* than the index are below it, and more than the index are not above it.  *)
Sorted(samples, at) ==
  CHOOSE x \in {samples[i] : i \in DOMAIN samples} :
    /\ Cardinality({i \in DOMAIN samples : samples[i] < x}) <= at
    /\ Cardinality({i \in DOMAIN samples : samples[i] <= x}) > at

(* The sample at index int(0.75 n) of the sorted baseline. *)
P75(samples) ==
  LET at == (Len(samples) * 3) \div 4
  IN Sorted(samples, IF at < Len(samples) THEN at ELSE Len(samples) - 1)

(* _update_baseline: the threshold that follows from the samples kept. *)
Adapted(samples) ==
  IF Len(samples) >= MinSamples THEN P75(samples) * Multiplier ELSE threshold

(* Reference for the history: a window of the detection length in which    *)
(* the spread went one way and then the other.                             *)
Turned(w) ==
  /\ \E i, j, k \in DOMAIN w :
        /\ i < j /\ j < k
        /\ \/ w[i].spread < w[j].spread /\ w[j].spread > w[k].spread
           \/ w[i].spread > w[j].spread /\ w[j].spread < w[k].spread
  /\ \A i, j \in DOMAIN w : w[j].at - w[i].at <= Detection

(* A bug the run must notice: the ratio is compared with the threshold the *)
(* previous sample, or the settings job, left.                             *)
TripsUnadapted(top, samples) == state = "CLOSED" /\ top > threshold

(* The comparison update ends with, after the baseline took the sample.    *)
Trips(top, samples) == state = "CLOSED" /\ top > Adapted(samples)

(* A bug the run must notice: the baseline has no length of its own.       *)
SampledForever(top) == Append(baseline, top)

(* The baseline with a new sample. *)
Sampled(top) ==
  LET all == Append(baseline, top) IN IF Len(all) > BaselineCap THEN Tail(all) ELSE all

(* update: a quote of one direction.  The ratio compared is the largest of *)
(* all directions, each as its own last update left it.                    *)
Update(d, spread) ==
  LET w == Prune(Append(window[d], [at |-> now, spread |-> spread]))
      seen == [jitter EXCEPT ![d] = Jitter(w)]
      top == Largest({seen[e] : e \in Directions})
      samples == Sampled(top)
      trips == Trips(top, samples)
  IN /\ updates < MaxUpdates
     /\ updates' = updates + 1
     /\ window' = [window EXCEPT ![d] = w]
     /\ jitter' = seen
     /\ current' = top
     /\ baseline' = samples
     /\ threshold' = Adapted(samples)
     /\ state' = IF trips THEN "OPEN" ELSE state
     /\ tripped' = IF trips THEN now ELSE tripped
     /\ trip' = IF trips
          THEN [turned |-> \E e \in Directions : Turned(window'[e]) /\ seen[e] = top,
                above |-> Cardinality({i \in DOMAIN samples : samples[i] * Multiplier >= top}),
                samples |-> Len(samples)]
          ELSE trip
     /\ UNCHANGED now

(* is_blocked, asked by the opener: an open breaker whose cooldown is over *)
(* closes when it is asked, and only then.                                 *)
IsBlocked ==
  /\ state = "OPEN" /\ now - tripped >= Cooldown
  /\ state' = "CLOSED"
  /\ UNCHANGED <<now, window, jitter, baseline, current, threshold, tripped, updates, trip>>

(* apply_config, from reload_config: the stored settings are written over  *)
(* the parameters, the adapted threshold included.                         *)
ApplyConfig ==
  /\ threshold # InitialThreshold
  /\ threshold' = InitialThreshold
  /\ UNCHANGED <<now, window, jitter, baseline, current, state, tripped, updates, trip>>

Tick ==
  /\ now < MaxTime
  /\ now' = now + 1
  /\ UNCHANGED <<window, jitter, baseline, current, threshold, state, tripped, updates, trip>>

Next ==
  \/ \E d \in Directions, spread \in Spreads : Update(d, spread)
  \/ IsBlocked
  \/ ApplyConfig
  \/ Tick

Spec == Init /\ [][Next]_vars

-----------------------------------------------------------------------------
TypeOK ==
  /\ now \in 0 .. MaxTime /\ updates \in 0 .. MaxUpdates
  /\ window \in [Directions -> Seq([at : 0 .. MaxTime, spread : Spreads])]
  /\ jitter \in [Directions -> 0 .. Scale]
  /\ baseline \in Seq(0 .. Scale) /\ Len(baseline) <= BaselineCap
  /\ current \in 0 .. Scale
  /\ threshold \in Nat
  /\ state \in {"CLOSED", "OPEN"} /\ tripped \in 0 .. MaxTime
  /\ trip \in [turned : BOOLEAN, above : 0 .. BaselineCap, samples : 0 .. BaselineCap]

(* The breaker opens for a reason: some direction turned within one        *)
(* detection window of its own, and, once there are enough samples, the    *)
(* ratio is beyond the multiple of all but a quarter of them, whatever the *)
(* settings job wrote in between (SymbolBreaker.update, _update_baseline). *)
TripIsWarranted ==
  state = "OPEN" =>
    /\ trip.turned
    /\ (trip.samples >= MinSamples) => (4 * trip.above <= trip.samples)
=============================================================================
