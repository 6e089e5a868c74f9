------------------------------ MODULE LiveState ------------------------------
(***************************************************************************)
(* The live row of ONE device and the history the reconciliation trigger   *)
(* keeps of its optical power.  A report passes through three conversions: *)
(*                                                                         *)
(*   - the decoder (JSON, USP protobuf or CWMP Inform) makes of it two     *)
(*     JSON values, the metrics and the parameters;                        *)
(*   - the upsert concatenates them (||) to the columns of the row;        *)
(*   - the trigger reads the optical power of the old and of the new row   *)
(*     and appends to the history when it appears or jumps.                *)
(*                                                                         *)
(* A JSON object is a function on the keys it has; any other JSON value is *)
(* NotObject.  A power is an integer in 0.01 dBm.                          *)
(***************************************************************************)
EXTENDS Integers, Sequences

CONSTANTS
    MetricKeys,    \* the metric names the trigger reads, the preferred one first
    ParamKeys,     \* the parameter paths it reads next
    RxKey,         \* rx_optical_power, the name the decoders normalise to
    Names,         \* the keys of the objects that reports carry
    Reports,       \* the reports of the device
    MaxRecords,    \* bound: the history rows considered
    MaxQuiet,      \* bound: the upserts in a row that add no record
    Null,          \* JSON null
    Text,          \* a string that is no number
    NotObject,     \* an array or a scalar
    None

\* A JSON object has some of the names, each with a number, null, or a string that
\* is no number.
Scalar == Int \cup {Null, Text}
HasFields(j) == \E K \in SUBSET Names : j \in [K -> Scalar]
IsValue(j) == j = NotObject \/ HasFields(j)
IsOptional(j) == j = None \/ IsValue(j)

\* What the decoders are given ...
IsReport(r) ==
    \/ /\ r.format = "json"
       /\ IsOptional(r.telemetry_metrics) /\ IsOptional(r.metrics)
       /\ IsOptional(r.current_parameters) /\ IsOptional(r.parameters)
    \/ r.format = "usp" /\ HasFields(r.parameters)
    \/ r.format = "inform" /\ r.power \in Int \cup {None} /\ HasFields(r.parameters)

\* ... and what they make of it.
IsUpdate(u) == DOMAIN u = {"metrics", "params"} /\ IsValue(u.metrics) /\ IsValue(u.params)

\* Why a row is added to the history.
Reasons == {"initial_state", "optical_signal_variation"}

ASSUME LiveStateAssumption ==
    /\ MetricKeys \in Seq(Names) /\ ParamKeys \in Seq(Names)
    /\ MetricKeys # <<>> /\ RxKey = MetricKeys[1]
    /\ \A r \in Reports : IsReport(r)
    /\ MaxRecords \in Nat /\ MaxQuiet \in Nat
    /\ Null # Text /\ Null \notin Int /\ Text \notin Int
    /\ None \notin Scalar \cup Reasons /\ None # NotObject
    /\ ~HasFields(None) /\ ~HasFields(NotObject)

VARIABLES
    row,       \* None, or the metrics and parameters columns of the live row
    history,   \* the powers and reasons in cpe_historical_metrics
    quiet,     \* history: how often the power shown was upserted since it
               \* appeared or was recorded
    reported,  \* history: the power the device reported last
    mixed      \* history: the row was merged with a report that is not plain

vars == <<row, history, quiet, reported, mixed>>

Keys(s) == {s[k] : k \in DOMAIN s}
IsObject(j) == j # None /\ j # NotObject
Empty == [k \in {} |-> Null]
IsNumber(v) == v \notin {Null, Text}

\* f overridden by g: insert() in a loop, || on two objects.
Over(f, g) ==
    [k \in DOMAIN f \cup DOMAIN g |-> IF k \in DOMAIN g THEN g[k] ELSE f[k]]

-----------------------------------------------------------------------------
(* The decoders *)

\* Two spellings of one JSON field, either of which may be missing: when both
\* are there and one is no object, both are dropped.
Consolidate(a, b) ==
    CASE IsObject(a) /\ IsObject(b) -> Over(a, b)
      [] b = None /\ a # None       -> a
      [] a = None /\ b # None       -> b
      [] OTHER                      -> Empty

\* The optical parameters that hold a number.
OpticalNumbers(params) ==
    IF IsObject(params)
    THEN {k \in Keys(ParamKeys) \cap DOMAIN params : IsNumber(params[k])}
    ELSE {}

\* decode_json: metrics override telemetry_metrics, parameters override
\* current_parameters; an optical parameter (the first in key order, which is
\* that of ParamKeys) is copied to the metrics unless rx_optical_power is there.
DecodeJson(r) ==
    LET m == Consolidate(r.telemetry_metrics, r.metrics)
        p == Consolidate(r.current_parameters, r.parameters)
        first == CHOOSE k \in OpticalNumbers(p) :
                    \E i \in DOMAIN ParamKeys :
                       /\ ParamKeys[i] = k
                       /\ \A j \in 1 .. i - 1 : ParamKeys[j] \notin OpticalNumbers(p)
        copies == IsObject(m) /\ RxKey \notin DOMAIN m /\ OpticalNumbers(p) # {}
    IN  {[metrics |-> IF copies THEN Over(m, [k \in {RxKey} |-> p[first]]) ELSE m,
          params |-> p]}

\* decode_protobuf: the parameters as they came, and an optical one as power;
\* of several, whichever the hash map yields last.
DecodeUsp(r) ==
    LET found == OpticalNumbers(r.parameters) IN
    IF found = {}
    THEN {[metrics |-> Empty, params |-> r.parameters]}
    ELSE {[metrics |-> [k \in {RxKey} |-> r.parameters[o]], params |-> r.parameters] :
             o \in found}

\* into_telemetry_update: the power in dBm if one could be read (see OpticalPower).
into_telemetry_update(power, parameters) ==
    [metrics |-> IF power = None THEN Empty ELSE [k \in {RxKey} |-> power],
     params |-> parameters]

\* parse_inform: the parameters as they came.
DecodeInform(r) == {into_telemetry_update(r.power, r.parameters)}

Decode(r) ==
    CASE r.format = "json"   -> DecodeJson(r)
      [] r.format = "usp"    -> DecodeUsp(r)
      [] r.format = "inform" -> DecodeInform(r)

-----------------------------------------------------------------------------
(* The upsert *)

\* Defect: what the row has already wins.
ConcatKeepsOld(a, b) == IF IsObject(a) /\ IsObject(b) THEN Over(b, a) ELSE NotObject

\* Defect: the report replaces the column.
ConcatReplaces(a, b) == b

\* jsonb || jsonb: unless both are objects the result is an array.
Concat(a, b) == IF IsObject(a) /\ IsObject(b) THEN Over(a, b) ELSE NotObject

\* The row after the upsert of u.
Merged(u) ==
    IF row = None
    THEN u
    ELSE [metrics |-> Concat(row.metrics, u.metrics),
          params |-> Concat(row.params, u.params)]

-----------------------------------------------------------------------------
(* reconcile_live_to_history *)

\* COALESCE of ->> : the value of the first key that is there and not null.
Coalesce(j, keys) ==
    LET found == {i \in DOMAIN keys :
                     IsObject(j) /\ keys[i] \in DOMAIN j /\ j[keys[i]] # Null}
    IN  IF found = {} THEN None
        ELSE j[keys[CHOOSE i \in found : \A k \in found : i <= k]]

\* The optical power of a row, None when there is none or it is no number.
Power(r) ==
    LET m == Coalesce(r.metrics, MetricKeys)
        v == IF m = None THEN Coalesce(r.params, ParamKeys) ELSE m
    IN  IF v = None \/ ~IsNumber(v) THEN None ELSE v

Magnitude(n) == IF n < 0 THEN -n ELSE n

\* Defect: every reading is recorded.
ReasonAlways(old, new) ==
    IF new = None THEN None
    ELSE IF old = None THEN "initial_state" ELSE "optical_signal_variation"

\* Defect: a baseline is recorded on INSERT only.
ReasonBaselineOnInsert(old, new) ==
    IF new = None THEN None
    ELSE IF row = None THEN "initial_state"
    ELSE IF old # None /\ Magnitude(new - old) > 100 THEN "optical_signal_variation"
    ELSE None

\* The change_reason of the history row that is due, None when none is.
Reason(old, new) ==
    IF new = None THEN None
    ELSE IF old = None THEN "initial_state"
    ELSE IF Magnitude(new - old) > 100 THEN "optical_signal_variation"
    ELSE None

OldPower == IF row = None THEN None ELSE Power(row)

\* Defect: the column takes any number.
FitsAlways(power) == power # None

\* NUMERIC(6,2): a larger power aborts the upsert.
MaxPower == 999999
Fits(power) == Magnitude(power) <= MaxPower

-----------------------------------------------------------------------------
Init ==
    /\ row = None
    /\ history = <<>>
    /\ quiet = 0
    /\ reported = None
    /\ mixed = FALSE

\* What a report says of the optical power under the normalised name.
IsPlain(u) == IsObject(u.metrics) /\ IsObject(u.params) /\ RxKey \in DOMAIN u.metrics
                 /\ IsNumber(u.metrics[RxKey])

\* Upsert and trigger are one statement: when the trigger fails the row stays.
Report(r) ==
    /\ Len(history) < MaxRecords
    /\ quiet < MaxQuiet
    /\ \E u \in Decode(r) :
          LET new == Power(Merged(u))
              reason == Reason(OldPower, new)
          IN
          \/ /\ reason # None => Fits(new)
             /\ row' = Merged(u)
             /\ history' = IF reason = None THEN history
                           ELSE Append(history, [power |-> new, reason |-> reason])
             /\ quiet' = IF reason # None \/ OldPower = None \/ new = None THEN 0
                         ELSE quiet + 1
             /\ mixed' = (mixed \/ ~IsPlain(u))
             /\ reported' = IF IsPlain(u) THEN u.metrics[RxKey] ELSE reported
          \/ /\ reason # None /\ ~Fits(new)
             /\ UNCHANGED vars

\* DELETE /cpes/{id}: the cascade reaches both tables.
DeleteCpe ==
    /\ row # None
    /\ row' = None
    /\ history' = <<>>
    /\ quiet' = 0
    /\ reported' = None
    /\ mixed' = FALSE

\* The database recovers from a crash: the unlogged row is gone, the history is
\* not.
Truncate ==
    /\ row # None
    /\ row' = None
    /\ quiet' = 0
    /\ reported' = None
    /\ mixed' = FALSE
    /\ UNCHANGED history

Next ==
    \/ \E r \in Reports : Report(r)
    \/ DeleteCpe
    \/ Truncate

Spec == Init /\ [][Next]_vars

-----------------------------------------------------------------------------
(* Properties *)

(***************************************************************************)
(* Type invariant of the row and of the history.                           *)
(***************************************************************************)
TypeOK ==
    /\ row # None => IsUpdate(row)
    /\ history \in Seq([power : -MaxPower .. MaxPower, reason : Reasons])
    /\ quiet \in Nat
    /\ reported \in Int \cup {None}
    /\ mixed \in BOOLEAN

(***************************************************************************)
(* What the history says of the power a row shows.  When the power appears,*)
(* with the first report, with a later one, as a parameter once a metric is*)
(* null, or again after it had gone with a null, a text or a lost table, it*)
(* is the last one recorded, exactly; from there on it can leave the last  *)
(* record by 1.00 dBm with each upsert and by no more.  (It can drift away *)
(* in small steps: the trigger compares with the row, not with the record.)*)
(***************************************************************************)
ShownPowerIsNearRecord ==
    row # None /\ Power(row) # None =>
        /\ history # <<>>
        /\ Magnitude(Power(row) - history[Len(history)].power) <= 100 * quiet

(***************************************************************************)
(* The upsert can be repeated: when the sink retries a report whose        *)
(* acknowledgement was lost, be it the first one or a later one, no second *)
(* record is made.                                                         *)
(***************************************************************************)
RetryAddsNoRecord ==
    \A r \in Reports : \A u \in Decode(r) :
        LET once == Merged(u)
            twice == [metrics |-> Concat(once.metrics, u.metrics),
                      params |-> Concat(once.params, u.params)]
        IN  Reason(Power(once), Power(twice)) = None

(***************************************************************************)
(* As long as every report that was merged carries rx_optical_power in an  *)
(* object, the power the trigger compares is the one reported last.        *)
(***************************************************************************)
PlainPowerIsTracked == row # None /\ ~mixed => Power(row) = reported

(***************************************************************************)
(* The upsert keeps the parameters of earlier reports, whatever format the *)
(* later ones have: unless the column has become an array, every parameter *)
(* that was reported is still found under its path; and an array never     *)
(* becomes an object again as long as the row lives.                       *)
(***************************************************************************)
ParametersStay ==
    [][row # None /\ row' # None /\ IsObject(row'.params) =>
          /\ IsObject(row.params)
          /\ DOMAIN row.params \subseteq DOMAIN row'.params]_vars

=============================================================================
