------------------------------- MODULE CpuPin -------------------------------
(***************************************************************************)
(* CpuFreqPin (cpufreq.rs), which benchmarks hold: the governor of every   *)
(* processor and the turbo knob are host-wide, and several benchmarks may  *)
(* run.  engage reads a knob and then writes it; Drop writes back what     *)
(* this guard changed; a benchmark that is killed runs no Drop.            *)
(*                                                                         *)
(* The turbo knob is one of the knobs here: pinned is "performance" for a  *)
(* processor and "off" for turbo.                                          *)
(***************************************************************************)
EXTENDS Naturals

CONSTANTS
    Benches,        \* bound: benchmarks
    Knobs,          \* the processors in order, and then turbo
    MaxKills        \* bound: benchmarks killed

ASSUME PinConstants == Knobs \in Nat \ {0} /\ MaxKills \in Nat

VARIABLES
    knob,       \* what each knob says
    found,      \* what it said before any benchmark
    bench,      \* where a benchmark is
    nextKnob,   \* the knob it is at
    current,    \* what it has read there
    restore,    \* restore_governors and restore_turbo
    skipped,    \* knobs it could not read or write
    pinKills, restoreFailed

pinVars == <<knob, found, bench, nextKnob, current, restore, skipped, pinKills, restoreFailed>>

KnobIds == 1 .. Knobs
Values == {"pinned", "scaling"}

PinTypeOK ==
    /\ knob \in [KnobIds -> Values] /\ found \in [KnobIds -> Values]
    /\ bench \in [Benches -> {"none", "read", "write", "running", "restoring", "over"}]
    /\ nextKnob \in [Benches -> 1 .. Knobs + 1]
    /\ current \in [Benches -> Values]
    /\ \A b \in Benches : restore[b] \subseteq KnobIds \X Values /\ skipped[b] \in 0 .. Knobs
    /\ pinKills \in 0 .. MaxKills /\ restoreFailed \in BOOLEAN
    /\ \A b \in Benches : bench[b] \in {"none", "over"} => restore[b] = {}

PinInit ==
    /\ found \in [KnobIds -> Values] /\ knob = found
    /\ bench = [b \in Benches |-> "none"] /\ nextKnob = [b \in Benches |-> 1]
    /\ current = [b \in Benches |-> "scaling"] /\ restore = [b \in Benches |-> {}]
    /\ skipped = [b \in Benches |-> 0] /\ pinKills = 0 /\ restoreFailed = FALSE

-----------------------------------------------------------------------------
PinGo(b, s) == bench' = [bench EXCEPT ![b] = s]
PinRest == <<found, pinKills, restoreFailed>>

\* Nothing is pinned when the processors cannot be enumerated.
Engage(b) ==
    /\ bench[b] = "none"
    /\ \/ PinGo(b, "read") /\ UNCHANGED skipped
       \/ PinGo(b, "running") /\ skipped' = [skipped EXCEPT ![b] = Knobs]
    /\ UNCHANGED <<knob, nextKnob, current, restore, PinRest>>

\* One knob further, or all of them are done.
Onward(b) ==
    /\ nextKnob' = [nextKnob EXCEPT ![b] = @ + 1]
    /\ PinGo(b, IF nextKnob[b] = Knobs THEN "running" ELSE "read")

\* Pinned already: not recorded.  Unreadable, or no such governor: skipped.
ReadKnob(b) ==
    LET k == nextKnob[b] IN
    /\ bench[b] = "read"
    /\ \/ knob[k] = "pinned" /\ Onward(b) /\ UNCHANGED <<current, skipped>>
       \/ /\ knob[k] # "pinned" /\ PinGo(b, "write")
          /\ current' = [current EXCEPT ![b] = knob[k]] /\ UNCHANGED <<nextKnob, skipped>>
       \/ Onward(b) /\ skipped' = [skipped EXCEPT ![b] = @ + 1] /\ UNCHANGED current
    /\ UNCHANGED <<knob, restore, PinRest>>

\* Mutant: the change is not recorded.
RecordedNot(b, ok) == restore[b]
\* restore_governors.push, after the write.
Recorded(b, ok) ==
    IF ok THEN restore[b] \cup {<<nextKnob[b], current[b]>>} ELSE restore[b]

WriteKnob(b, ok) ==
    /\ bench[b] = "write" /\ Onward(b)
    /\ restore' = [restore EXCEPT ![b] = Recorded(b, ok)]
    /\ IF ok THEN knob' = [knob EXCEPT ![nextKnob[b]] = "pinned"] /\ UNCHANGED skipped
             ELSE skipped' = [skipped EXCEPT ![b] = @ + 1] /\ UNCHANGED knob
    /\ UNCHANGED <<current, PinRest>>

\* Drop, of a benchmark that ends or panics.
DropPin(b) ==
    /\ bench[b] = "running" /\ PinGo(b, "restoring")
    /\ UNCHANGED <<knob, nextKnob, current, restore, skipped, PinRest>>

\* A write that fails is warned of, and the next one is made.
RestoreKnob(b, ok) ==
    /\ bench[b] = "restoring" /\ restore[b] # {}
    /\ \E r \in restore[b] :
       /\ \A y \in restore[b] : r[1] <= y[1]
       /\ restore' = [restore EXCEPT ![b] = @ \ {r}]
       /\ knob' = IF ok THEN [knob EXCEPT ![r[1]] = r[2]] ELSE knob
    /\ restoreFailed' = (restoreFailed \/ ~ok)
    /\ UNCHANGED <<found, bench, nextKnob, current, skipped, pinKills>>

\* All that this guard changed.
Restored(b) == restore[b] = {}

DropDone(b) ==
    /\ bench[b] = "restoring" /\ Restored(b) /\ PinGo(b, "over")
    /\ UNCHANGED <<knob, nextKnob, current, restore, skipped, PinRest>>

KillBench(b) ==
    /\ bench[b] \notin {"none", "over"} /\ pinKills < MaxKills /\ pinKills' = pinKills + 1
    /\ PinGo(b, "over") /\ restore' = [restore EXCEPT ![b] = {}]
    /\ UNCHANGED <<knob, found, nextKnob, current, skipped, restoreFailed>>

PinNext ==
    \E b \in Benches :
        \/ Engage(b) \/ ReadKnob(b) \/ DropPin(b) \/ DropDone(b) \/ KillBench(b)
        \/ \E ok \in BOOLEAN : WriteKnob(b, ok) \/ RestoreKnob(b, ok)

PinSpec == PinInit /\ [][PinNext]_pinVars

-----------------------------------------------------------------------------
(* Properties. *)

\* Benchmarks that overlap in any way leave the host as the first one found it: once
\* none is left, and none was killed or failed to write back, every knob is restored,
\* each by the one that changed it.
EndsAsFound ==
    (\A b \in Benches : bench[b] \in {"none", "over"}) /\ pinKills = 0 /\ ~restoreFailed
        => knob = found

\* The host's CPU frequency settings outlast no benchmark.
CpuPinSafe ==
  /\ PinTypeOK
  /\ EndsAsFound
=============================================================================
