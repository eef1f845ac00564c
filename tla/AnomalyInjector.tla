--------------------------- MODULE AnomalyInjector ---------------------------
(***************************************************************************)
(* services/generator/app/anomaly_injector.py: one host's injector, a state*)
(* machine stepped once per tick.  The rolls of its random generator are   *)
(* choices.  Of a perturbed sample only how far the perturbation has come  *)
(* is kept, which is what its multiplier is computed from.                 *)
(***************************************************************************)
EXTENDS Naturals

CONSTANTS
    CooldownTicks,  \* gen_anomaly_cooldown_ticks
    RampDurations   \* rng.integers(40, 81)

ASSUME InjectorAssumption ==
    /\ CooldownTicks \in Nat
    /\ RampDurations \subseteq Nat \ {0}

(* AnomalyInjector(..): nothing active, no cooldown.                       *)
FreshInjector == [type |-> "none", duration |-> 0, tick_index |-> 0, cooldown_remaining |-> 0]

(* _ActiveSpike, whose two multipliers are a peak and a partial decay, or  *)
(* _ActiveRamp.                                                            *)
Perturbations ==
    {[FreshInjector EXCEPT !.type = "spike", !.duration = 2]}
        \cup {[FreshInjector EXCEPT !.type = "ramp", !.duration = d] : d \in RampDurations}

(* What an injector and the perturbation of a sample may be.               *)
Types == {"none", "spike", "ramp"}

Injector == [type : Types, duration : Nat, tick_index : Nat, cooldown_remaining : 0..CooldownTicks]

Samples == [type : Types, duration : Nat, tick : Nat]

(* Faulty: the cooldown is armed only where a new perturbation is rolled.  *)
AfterFinishIdle == FreshInjector

AfterFinish == [FreshInjector EXCEPT !.cooldown_remaining = CooldownTicks]

Sample(injector, tick) ==
    [type |-> injector.type, duration |-> injector.duration, tick |-> tick]

(* apply() and, when it has finished, the return to the cooldown.          *)
Apply(active) ==
    LET tick == active.tick_index + 1
    IN  [injector |-> IF tick >= active.duration THEN AfterFinish
                      ELSE [active EXCEPT !.tick_index = tick],
         sample   |-> Sample(active, tick)]

Pass(injector) == [injector |-> injector, sample |-> Sample(FreshInjector, 0)]

(* maybe_inject: the injector and the sample after one tick.               *)
MaybeInject(injector) ==
    IF injector.type # "none" THEN {Apply(injector)}
    ELSE IF injector.cooldown_remaining > 0
    THEN {Pass([injector EXCEPT !.cooldown_remaining = @ - 1])}
    ELSE {Pass(injector)} \cup {Apply(active) : active \in Perturbations}
=============================================================================
