--------------------------- MODULE LiveStateProofs ---------------------------
(***************************************************************************)
(* Proofs about LiveState, for every set of reports and of names, and      *)
(* every list of the names the trigger reads.                              *)
(***************************************************************************)
EXTENDS LiveState, SequenceTheorems, WellFoundedInduction, TLAPS

-----------------------------------------------------------------------------
(* The first of several places in a list.  The trigger's COALESCE and the decoder
   of JSON reports choose it. *)

LEMMA NatMin ==
    ASSUME NEW T, T \subseteq Nat, T # {}
    PROVE  \E x \in T : \A y \in T : x <= y
<1> DEFINE R == OpToRel(<, Nat)
<1>1. \A a, b \in Nat : a < b => <<a, b>> \in R
  BY DEF OpToRel
<1>2. PICK x \in T : \A y \in T : ~ (<<y, x>> \in R)
  <2>1. IsWellFoundedOn(R, Nat)
    BY NatLessThanWellFounded
  <2> HIDE DEF R
  <2>. QED
    BY <2>1, WFMin
<1> HIDE DEF R
<1>3. ASSUME NEW y \in T PROVE ~ (y < x)
  <2>1. y \in Nat /\ x \in Nat
    OBVIOUS
  <2>2. y < x => <<y, x>> \in R
    BY <1>1, <2>1, Zenon
  <2>. QED
    BY <1>2, <2>2
<1>. QED
  BY <1>3

-----------------------------------------------------------------------------
(* Operators on JSON values *)

\* A value is an object exactly if it has fields; a number is an integer.
LEMMA Values ==
    /\ \A j : HasFields(j) => IsObject(j) /\ DOMAIN j \subseteq Names
                                /\ \A k \in DOMAIN j : j[k] \in Scalar
    /\ \A j : IsOptional(j) /\ IsObject(j) => HasFields(j)
    /\ \A v \in Scalar : v # None /\ (IsNumber(v) <=> v \in Int)
<1>1. \A j : HasFields(j) => DOMAIN j \subseteq Names /\ \A k \in DOMAIN j : j[k] \in Scalar
  BY DEF HasFields
<1>2. \A j : HasFields(j) => IsObject(j)
  BY LiveStateAssumption, Zenon DEF IsObject
<1>3. \A j : IsOptional(j) /\ IsObject(j) => HasFields(j)
  BY DEF IsOptional, IsValue, IsObject
<1>4. \A v \in Scalar : v # None /\ (IsNumber(v) <=> v \in Int)
  BY LiveStateAssumption DEF IsNumber, Scalar
<1>. QED
  BY <1>1, <1>2, <1>3, <1>4

LEMMA OverFields ==
    ASSUME NEW f, NEW g, HasFields(f), HasFields(g)
    PROVE  /\ HasFields(Over(f, g))
           /\ DOMAIN Over(f, g) = DOMAIN f \cup DOMAIN g
           /\ \A k \in DOMAIN g : Over(f, g)[k] = g[k]
           /\ Over(Over(f, g), g) = Over(f, g)
<1>1. DOMAIN f \in SUBSET Names /\ DOMAIN g \in SUBSET Names
  BY Values
<1>2. Over(f, g) \in [DOMAIN f \cup DOMAIN g -> Scalar]
  BY Values DEF Over
<1>3. HasFields(Over(f, g))
  <2>1. DOMAIN f \cup DOMAIN g \in SUBSET Names
    BY <1>1
  <2>. QED
    BY <1>2, <2>1 DEF HasFields
<1>4. /\ DOMAIN Over(f, g) = DOMAIN f \cup DOMAIN g
      /\ \A k \in DOMAIN f \cup DOMAIN g : Over(f, g)[k] = IF k \in DOMAIN g THEN g[k] ELSE f[k]
  BY DEF Over
<1>5. Over(Over(f, g), g) = Over(f, g)
  BY <1>4 DEF Over
<1>. QED
  BY <1>3, <1>4, <1>5

LEMMA ConcatValue ==
    ASSUME NEW a, NEW b, IsValue(a), IsValue(b)
    PROVE  /\ IsValue(Concat(a, b))
           /\ IsObject(Concat(a, b)) => IsObject(a) /\ IsObject(b) /\ Concat(a, b) = Over(a, b)
           /\ Concat(Concat(a, b), b) = Concat(a, b)
<1>1. CASE IsObject(a) /\ IsObject(b)
  <2>1. HasFields(a) /\ HasFields(b)
    BY <1>1, Values DEF IsOptional
  <2>2. Concat(a, b) = Over(a, b) /\ HasFields(Over(a, b))
    BY <1>1, <2>1, OverFields DEF Concat
  <2>3. Concat(Over(a, b), b) = Over(Over(a, b), b)
    BY <1>1, <2>2, Values DEF Concat
  <2>. QED
    BY <1>1, <2>1, <2>2, <2>3, OverFields DEF IsValue
<1>2. CASE ~(IsObject(a) /\ IsObject(b))
  <2>1. Concat(a, b) = NotObject /\ ~IsObject(NotObject)
    BY <1>2 DEF Concat, IsObject
  <2>. QED
    BY <2>1 DEF IsValue, Concat
<1>. QED
  BY <1>1, <1>2

LEMMA ConcatItself ==
    ASSUME NEW a, IsValue(a)
    PROVE  Concat(a, a) = a
<1>1. CASE IsObject(a)
  <2>1. HasFields(a)
    BY <1>1, Values DEF IsOptional
  <2>2. a = [k \in DOMAIN a |-> a[k]]
    BY <2>1 DEF HasFields
  <2>. QED
    BY <1>1, <2>2 DEF Concat, Over
<1>2. CASE ~IsObject(a)
  <2>1. a # None
    BY LiveStateAssumption DEF IsValue
  <2>. QED
    BY <1>2, <2>1 DEF Concat, IsObject
<1>. QED
  BY <1>1, <1>2

LEMMA ConsolidateValue ==
    ASSUME NEW a, NEW b, IsOptional(a), IsOptional(b)
    PROVE  IsValue(Consolidate(a, b))
<1>1. IsValue(Empty)
  <2>1. {} \in SUBSET Names /\ Empty \in [{} -> Scalar]
    BY DEF Empty
  <2>. QED
    BY <2>1 DEF IsValue, HasFields
<1>2. CASE IsObject(a) /\ IsObject(b)
  BY <1>2, Values, OverFields DEF Consolidate, IsValue
<1>3. CASE ~(IsObject(a) /\ IsObject(b))
  BY <1>1, <1>3 DEF Consolidate, IsOptional
<1>. QED
  BY <1>2, <1>3

\* An object with the one key rx_optical_power.
LEMMA RxFields ==
    ASSUME NEW v \in Scalar
    PROVE  HasFields([k \in {RxKey} |-> v])
<1>1. RxKey \in Names
  BY LiveStateAssumption, LenProperties, ElementOfSeq
<1>2. {RxKey} \in SUBSET Names /\ [k \in {RxKey} |-> v] \in [{RxKey} -> Scalar]
  BY <1>1
<1>. QED
  BY <1>2 DEF HasFields

LEMMA OpticalNumbersFields ==
    ASSUME NEW p, IsOptional(p), NEW k \in OpticalNumbers(p)
    PROVE  IsObject(p) /\ k \in Keys(ParamKeys) /\ k \in DOMAIN p /\ p[k] \in Scalar
BY Values DEF OpticalNumbers

-----------------------------------------------------------------------------
(* The decoders *)

LEMMA DecodeIsUpdate ==
    ASSUME NEW r \in Reports, NEW u \in Decode(r)
    PROVE  IsUpdate(u)
<1>0. IsReport(r)
  BY LiveStateAssumption
<1>1. IsValue(Empty)
  <2>1. {} \in SUBSET Names /\ Empty \in [{} -> Scalar]
    BY DEF Empty
  <2>. QED
    BY <2>1 DEF IsValue, HasFields
<1>2. CASE r.format = "json"
  <2> DEFINE m == Consolidate(r.telemetry_metrics, r.metrics)
             p == Consolidate(r.current_parameters, r.parameters)
             IsFirst(k) == \E i \in DOMAIN ParamKeys :
                              /\ ParamKeys[i] = k
                              /\ \A j \in 1 .. i - 1 : ParamKeys[j] \notin OpticalNumbers(p)
             first == CHOOSE k \in OpticalNumbers(p) : IsFirst(k)
  <2>1. IsValue(m) /\ IsValue(p)
    BY <1>0, <1>2, ConsolidateValue DEF IsReport
  <2>2. u = [metrics |-> IF IsObject(m) /\ RxKey \notin DOMAIN m /\ OpticalNumbers(p) # {}
                         THEN Over(m, [k \in {RxKey} |-> p[first]]) ELSE m,
             params |-> p]
    BY <1>2 DEF Decode, DecodeJson
  <2> HIDE DEF m, p
  <2>3. ASSUME OpticalNumbers(p) # {} PROVE p[first] \in Scalar
    <3> DEFINE T == {i \in DOMAIN ParamKeys : ParamKeys[i] \in OpticalNumbers(p)}
    <3>1. DOMAIN ParamKeys = 1 .. Len(ParamKeys) /\ Len(ParamKeys) \in Nat
      BY LiveStateAssumption, LenProperties
    <3>2. T \subseteq Nat /\ T # {}
      BY <2>1, <2>3, <3>1, OpticalNumbersFields DEF IsOptional, Keys
    <3>3. PICK i \in T : \A j \in T : i <= j
      BY <3>2, NatMin
    <3>4. ParamKeys[i] \in OpticalNumbers(p) /\ IsFirst(ParamKeys[i])
      BY <3>1, <3>3
    <3>5. first \in OpticalNumbers(p)
      BY <3>4
    <3>. QED
      BY <2>1, <3>5, OpticalNumbersFields DEF IsOptional
  <2> HIDE DEF first
  <2>4. ASSUME IsObject(m), OpticalNumbers(p) # {}
        PROVE  IsValue(Over(m, [k \in {RxKey} |-> p[first]]))
    BY <2>1, <2>3, <2>4, Values, RxFields, OverFields DEF IsOptional, IsValue
  <2>. QED
    BY <2>1, <2>2, <2>4 DEF IsUpdate
<1>3. CASE r.format = "usp"
  <2>1. HasFields(r.parameters) /\ u \in DecodeUsp(r)
    BY <1>0, <1>3 DEF IsReport, Decode
  <2>2. IsValue(r.parameters)
    BY <2>1 DEF IsValue
  <2>3. CASE u = [metrics |-> Empty, params |-> r.parameters]
    BY <1>1, <2>2, <2>3 DEF IsUpdate
  <2>4. ASSUME NEW o \in OpticalNumbers(r.parameters),
               u = [metrics |-> [k \in {RxKey} |-> r.parameters[o]], params |-> r.parameters]
        PROVE  IsUpdate(u)
    <3>1. r.parameters[o] \in Scalar
      BY <2>2, OpticalNumbersFields DEF IsOptional
    <3>2. IsValue([k \in {RxKey} |-> r.parameters[o]])
      BY <3>1, RxFields DEF IsValue
    <3>. QED
      BY <2>2, <2>4, <3>2 DEF IsUpdate
  <2>. QED
    BY <2>1, <2>3, <2>4 DEF DecodeUsp
<1>4. CASE r.format = "inform"
  <2>1. HasFields(r.parameters) /\ r.power \in Int \cup {None}
    BY <1>0, <1>4 DEF IsReport
  <2>2. u = into_telemetry_update(r.power, r.parameters)
    BY <1>4 DEF Decode, DecodeInform
  <2>3. IsValue(r.parameters)
    BY <2>1 DEF IsValue
  <2>4. r.power # None => IsValue([k \in {RxKey} |-> r.power])
    BY <2>1, RxFields DEF IsValue, Scalar
  <2>. QED
    BY <1>1, <2>2, <2>3, <2>4 DEF IsUpdate, into_telemetry_update
<1>. QED
  BY <1>0, <1>2, <1>3, <1>4 DEF IsReport

LEMMA MergedIsUpdate ==
    ASSUME NEW u, IsUpdate(u), row # None => IsUpdate(row)
    PROVE  IsUpdate(Merged(u))
BY ConcatValue DEF IsUpdate, Merged

-----------------------------------------------------------------------------
(* The trigger *)

LEMMA CoalesceScalar ==
    ASSUME NEW j, IsValue(j), NEW keys, keys \in Seq(Names)
    PROVE  /\ Coalesce(j, keys) \in Scalar \cup {None}
           /\ keys # <<>> /\ IsObject(j) /\ keys[1] \in DOMAIN j /\ j[keys[1]] # Null =>
                 Coalesce(j, keys) = j[keys[1]]
<1> DEFINE found == {i \in DOMAIN keys :
                        IsObject(j) /\ keys[i] \in DOMAIN j /\ j[keys[i]] # Null}
           first == CHOOSE i \in found : \A k \in found : i <= k
<1>1. Coalesce(j, keys) = IF found = {} THEN None ELSE j[keys[first]]
  BY DEF Coalesce
<1>2. found \subseteq Nat \ {0}
  BY LenProperties
<1>3. found # {} => first \in found /\ \A k \in found : first <= k
  <2>. SUFFICES ASSUME found # {}
                PROVE  \E i \in found : \A k \in found : i <= k
    OBVIOUS
  <2>1. found \subseteq Nat
    BY <1>2
  <2> HIDE DEF found
  <2>. QED
    BY <2>1, NatMin
<1>4. \A i \in found : j[keys[i]] \in Scalar
  BY Values DEF IsOptional
<1>5. ASSUME keys # <<>>, IsObject(j), keys[1] \in DOMAIN j, j[keys[1]] # Null
      PROVE  first = 1 /\ found # {}
  <2>1. 1 \in found
    <3>1. 1 \in DOMAIN keys
      BY <1>5, LenProperties, EmptySeq
    <3>. QED
      BY <1>5, <3>1
  <2>2. first \in found /\ first <= 1 /\ found # {}
    <3> HIDE DEF found, first
    <3>. QED
      BY <1>3, <2>1
  <2>3. first \in Nat \ {0}
    <3> HIDE DEF found, first
    <3>. QED
      BY <1>2, <2>2
  <2> HIDE DEF found, first
  <2>. QED
    BY <2>2, <2>3, SMT
<1> HIDE DEF found, first
<1>. QED
  BY <1>1, <1>3, <1>4, <1>5

LEMMA PowerNumber ==
    ASSUME NEW u, IsUpdate(u)
    PROVE  /\ Power(u) \in Int \cup {None}
           /\ IsObject(u.metrics) /\ RxKey \in DOMAIN u.metrics /\ IsNumber(u.metrics[RxKey]) =>
                 Power(u) = u.metrics[RxKey]
<1> DEFINE m == Coalesce(u.metrics, MetricKeys)
           v == IF m = None THEN Coalesce(u.params, ParamKeys) ELSE m
<1>1. IsValue(u.metrics) /\ IsValue(u.params)
  BY DEF IsUpdate
<1>2. m \in Scalar \cup {None} /\ Coalesce(u.params, ParamKeys) \in Scalar \cup {None}
  BY <1>1, CoalesceScalar, LiveStateAssumption
<1>3. Power(u) = IF v = None \/ ~IsNumber(v) THEN None ELSE v
  BY DEF Power
<1>4. ASSUME IsObject(u.metrics), RxKey \in DOMAIN u.metrics, IsNumber(u.metrics[RxKey])
      PROVE  m = u.metrics[RxKey] /\ m \in Scalar
  <2>1. u.metrics[RxKey] # Null /\ u.metrics[RxKey] \in Scalar
    BY <1>1, <1>4, Values DEF IsNumber, IsOptional
  <2>2. m = u.metrics[RxKey]
    BY <1>1, <1>4, <2>1, CoalesceScalar, LiveStateAssumption
  <2>. QED
    BY <2>1, <2>2
<1> HIDE DEF m
<1>. QED
  BY <1>2, <1>3, <1>4, Values

\* A record is made of a number that fits its column.
Record == [power : -MaxPower .. MaxPower, reason : Reasons]

LEMMA ReasonIsDue ==
    ASSUME NEW new \in Int \cup {None}, NEW old \in Int \cup {None}
    PROVE  /\ Reason(old, new) # None /\ Fits(new) =>
                 [power |-> new, reason |-> Reason(old, new)] \in Record
           /\ new # None /\ old = None => Reason(old, new) # None
           /\ Reason(new, new) = None
<1>0. MaxPower \in Int
  BY SMT DEF MaxPower
<1>1. \A n \in Int : Magnitude(n - n) = 0 /\ (Magnitude(n) <= MaxPower => n \in -MaxPower .. MaxPower)
  BY <1>0, SMT DEF Magnitude
<1>2. Reason(old, new) # None =>
          new # None /\ Reason(old, new) \in Reasons
  BY DEF Reason, Reasons
<1>3. Reason(new, new) = None
  BY <1>1 DEF Reason
<1>4. new # None /\ old = None => Reason(old, new) # None
  BY LiveStateAssumption DEF Reason, Reasons
<1>. QED
  BY <1>1, <1>2, <1>3, <1>4 DEF Fits, Record

-----------------------------------------------------------------------------
(* Steps *)

\* What a report that is taken does; one whose power does not fit leaves everything.
LEMMA ReportStep ==
    ASSUME TypeOK, NEW r \in Reports, Report(r)
    PROVE  \/ UNCHANGED vars
           \/ \E u :
                 /\ IsUpdate(u) /\ IsUpdate(Merged(u)) /\ row' = Merged(u)
                 /\ Power(Merged(u)) \in Int \cup {None}
                 /\ OldPower \in Int \cup {None}
                 /\ LET reason == Reason(OldPower, Power(Merged(u)))
                    IN  /\ reason # None => Fits(Power(Merged(u)))
                        /\ history' = IF reason = None THEN history
                                      ELSE Append(history, [power |-> Power(Merged(u)),
                                                            reason |-> reason])
                        /\ quiet' = IF reason # None \/ OldPower = None \/ Power(Merged(u)) = None
                                    THEN 0 ELSE quiet + 1
                 /\ mixed' = (mixed \/ ~IsPlain(u))
                 /\ reported' = IF IsPlain(u) THEN u.metrics[RxKey] ELSE reported
<1>1. ASSUME ~ UNCHANGED vars
      PROVE  \E u \in Decode(r) :
                /\ row' = Merged(u)
                /\ LET reason == Reason(OldPower, Power(Merged(u)))
                   IN  /\ reason # None => Fits(Power(Merged(u)))
                       /\ history' = IF reason = None THEN history
                                     ELSE Append(history, [power |-> Power(Merged(u)),
                                                           reason |-> reason])
                       /\ quiet' = IF reason # None \/ OldPower = None \/ Power(Merged(u)) = None
                                   THEN 0 ELSE quiet + 1
                /\ mixed' = (mixed \/ ~IsPlain(u))
                /\ reported' = IF IsPlain(u) THEN u.metrics[RxKey] ELSE reported
  BY <1>1 DEF Report
<1>2. ASSUME NEW u \in Decode(r)
      PROVE  IsUpdate(u) /\ IsUpdate(Merged(u)) /\ Power(Merged(u)) \in Int \cup {None}
  BY DecodeIsUpdate, MergedIsUpdate, PowerNumber DEF TypeOK
<1>3. OldPower \in Int \cup {None}
  BY PowerNumber DEF OldPower, TypeOK
<1>. QED
  BY <1>1, <1>2, <1>3, Zenon

LEMMA PlainNumber ==
    ASSUME NEW u, IsUpdate(u), IsPlain(u)
    PROVE  u.metrics[RxKey] \in Int /\ u.metrics[RxKey] # Null
BY Values DEF IsUpdate, IsPlain, IsOptional, IsNumber

LEMMA TypeStep ==
    ASSUME TypeOK, [Next]_vars
    PROVE  TypeOK'
<1>1. ASSUME NEW r \in Reports, Report(r), ~ UNCHANGED vars PROVE TypeOK'
  <2>1. PICK u : /\ IsUpdate(u) /\ IsUpdate(Merged(u)) /\ row' = Merged(u)
                 /\ Power(Merged(u)) \in Int \cup {None}
                 /\ OldPower \in Int \cup {None}
                 /\ LET reason == Reason(OldPower, Power(Merged(u)))
                    IN  /\ reason # None => Fits(Power(Merged(u)))
                        /\ history' = IF reason = None THEN history
                                      ELSE Append(history, [power |-> Power(Merged(u)),
                                                            reason |-> reason])
                        /\ quiet' = IF reason # None \/ OldPower = None \/ Power(Merged(u)) = None
                                    THEN 0 ELSE quiet + 1
                 /\ mixed' = (mixed \/ ~IsPlain(u))
                 /\ reported' = IF IsPlain(u) THEN u.metrics[RxKey] ELSE reported
    BY <1>1, ReportStep
  <2> DEFINE reason == Reason(OldPower, Power(Merged(u)))
  <2>2. history' \in Seq(Record)
    <3>1. history \in Seq(Record)
      BY Zenon DEF TypeOK, Record
    <3>2. reason # None => [power |-> Power(Merged(u)), reason |-> reason] \in Record
      BY <2>1, ReasonIsDue
    <3>3. history' = history \/ (reason # None /\
              history' = Append(history, [power |-> Power(Merged(u)), reason |-> reason]))
      BY <2>1
    <3> HIDE DEF reason
    <3>. QED
      BY <3>1, <3>2, <3>3, AppendProperties
  <2>3. reported' \in Int \cup {None}
    BY <2>1, PlainNumber DEF TypeOK
  <2>4. mixed' \in BOOLEAN /\ IsUpdate(row')
    BY <2>1
  <2>5. quiet' \in Nat
    <3>1. quiet \in Nat /\ (quiet' = 0 \/ quiet' = quiet + 1)
      BY <2>1 DEF TypeOK
    <3>. QED
      BY <3>1
  <2>. QED
    BY <2>2, <2>3, <2>4, <2>5 DEF TypeOK, Record
<1>2. CASE DeleteCpe \/ Truncate
  <2>1. /\ row' = None /\ quiet' = 0 /\ reported' = None /\ mixed' = FALSE
        /\ history' = <<>> \/ history' = history
    BY <1>2 DEF DeleteCpe, Truncate
  <2>2. history' \in Seq(Record)
    <3>1. history \in Seq(Record)
      BY Zenon DEF TypeOK, Record
    <3>. QED
      BY <2>1, <3>1, EmptySeq
  <2>. QED
    BY <2>1, <2>2, Zenon DEF TypeOK, Record
<1>3. CASE UNCHANGED vars
  BY <1>3 DEF vars, TypeOK
<1>. QED
  BY <1>1, <1>2, <1>3 DEF Next

\* The live row, its history and what the device reported keep their shapes: the trigger
\* never appends a power its column cannot hold, nor a row without a reason.
THEOREM LiveStateTypes == Spec => []TypeOK
<1>1. Init => TypeOK
  <2>1. <<>> \in Seq(Record)
    BY EmptySeq
  <2>2. 0 \in Nat
    OBVIOUS
  <2>. QED
    BY <2>1, <2>2, Zenon DEF Init, TypeOK, Record
<1>2. TypeOK /\ [Next]_vars => TypeOK'
  BY TypeStep
<1>. QED
  BY <1>1, <1>2, PTL DEF Spec

-----------------------------------------------------------------------------
(* The history follows the row.  When the power of the row appears it is recorded, so
   it is no distance away from the last record; every further upsert that adds no record
   moves it by 1.00 dBm at most. *)

\* What the trigger lets pass without a record.
LEMMA SmallStep ==
    ASSUME NEW new \in Int \cup {None}, NEW old \in Int \cup {None},
           new # None, Reason(old, new) = None
    PROVE  old # None /\ Magnitude(new - old) <= 100
<1>1. None \notin {"initial_state", "optical_signal_variation"}
  BY LiveStateAssumption DEF Reasons
<1>2. old # None
  BY <1>1 DEF Reason
<1>3. ~(Magnitude(new - old) > 100)
  BY <1>1, <1>2, Zenon DEF Reason
<1>4. Magnitude(new - old) \in Int
  BY <1>2 DEF Magnitude
<1>. QED
  BY <1>2, <1>3, <1>4

LEMMA TriangleStep ==
    ASSUME NEW a \in Int, NEW b \in Int, NEW c \in Int, NEW n \in Nat,
           Magnitude(a - b) <= 100, Magnitude(b - c) <= 100 * n
    PROVE  Magnitude(a - c) <= 100 * (n + 1)
BY SMT DEF Magnitude

LEMMA NearRecordStep ==
    ASSUME TypeOK, ShownPowerIsNearRecord, [Next]_vars
    PROVE  ShownPowerIsNearRecord'
<1>1. ASSUME NEW r \in Reports, Report(r), ~ UNCHANGED vars PROVE ShownPowerIsNearRecord'
  <2>1. PICK u : /\ row' = Merged(u)
                 /\ Power(Merged(u)) \in Int \cup {None}
                 /\ OldPower \in Int \cup {None}
                 /\ LET reason == Reason(OldPower, Power(Merged(u)))
                    IN  /\ reason # None => Fits(Power(Merged(u)))
                        /\ history' = IF reason = None THEN history
                                      ELSE Append(history, [power |-> Power(Merged(u)),
                                                            reason |-> reason])
                        /\ quiet' = IF reason # None \/ OldPower = None \/ Power(Merged(u)) = None
                                    THEN 0 ELSE quiet + 1
    BY <1>1, ReportStep
  <2> DEFINE new == Power(Merged(u))
             reason == Reason(OldPower, new)
             last == history[Len(history)].power
  <2>2. Power(row)' = new /\ new \in Int \cup {None} /\ OldPower \in Int \cup {None}
    BY <2>1
  <2>3. history \in Seq(Record) /\ quiet \in Nat
    BY Zenon DEF TypeOK, Record
  <2>4. CASE reason # None
    <3> DEFINE e == [power |-> new, reason |-> reason]
    <3>1. history' = Append(history, e) /\ quiet' = 0
      BY <2>1, <2>4
    <3>2. e \in Record
      BY <2>1, <2>4, ReasonIsDue
    <3>3. e.power = new
      OBVIOUS
    <3> HIDE DEF e, new, reason
    <3>4. history' # <<>> /\ history'[Len(history')] = e
      BY <2>3, <3>1, <3>2, AppendProperties
    <3>5. ASSUME new # None PROVE Magnitude(new - new) <= 100 * 0
      BY <2>2, <3>5, SMT DEF Magnitude
    <3>. QED
      BY <2>2, <3>1, <3>3, <3>4, <3>5 DEF ShownPowerIsNearRecord
  <2>5. CASE reason = None /\ new # None
    <3>1. OldPower # None /\ Magnitude(new - OldPower) <= 100
      BY <2>2, <2>5, SmallStep
    <3>2. history' = history /\ quiet' = quiet + 1
      BY <2>1, <2>5, <3>1
    <3> HIDE DEF new, reason
    <3>3. history # <<>> /\ Magnitude(OldPower - last) <= 100 * quiet
      BY <3>1 DEF OldPower, ShownPowerIsNearRecord
    <3>4. last \in Int
      <4>1. Len(history) \in 1 .. Len(history)
        BY <2>3, <3>3, EmptySeq, LenProperties
      <4>2. history[Len(history)] \in Record
        BY <2>3, <4>1, ElementOfSeq
      <4>. QED
        BY <4>2 DEF Record
    <3> HIDE DEF last
    <3>5. Magnitude(new - last) <= 100 * (quiet + 1)
      BY <2>2, <2>3, <2>5, <3>1, <3>3, <3>4, TriangleStep
    <3>. QED
      BY <2>2, <3>2, <3>3, <3>5 DEF ShownPowerIsNearRecord, last
  <2>6. CASE new = None
    BY <2>2, <2>6 DEF ShownPowerIsNearRecord
  <2>. QED
    BY <2>4, <2>5, <2>6
<1>2. CASE DeleteCpe \/ Truncate
  BY <1>2 DEF DeleteCpe, Truncate, ShownPowerIsNearRecord
<1>3. CASE UNCHANGED vars
  BY <1>3 DEF vars, ShownPowerIsNearRecord
<1>. QED
  BY <1>1, <1>2, <1>3 DEF Next

\* When a row comes to show an optical power, by whatever sequence of reports, deletions
\* and crashes, the trigger records it; and as long as it stays, the power shown is within
\* 1.00 dBm of the last record for each upsert since that added none.
THEOREM PowerOnRecord == Spec => []ShownPowerIsNearRecord
<1>1. Init => ShownPowerIsNearRecord
  BY DEF Init, ShownPowerIsNearRecord
<1>2. TypeOK /\ ShownPowerIsNearRecord /\ [Next]_vars => ShownPowerIsNearRecord'
  BY NearRecordStep
<1>. QED
  BY <1>1, <1>2, LiveStateTypes, PTL DEF Spec

\* A report that is upserted twice leaves the row of the first time, and no second record.
THEOREM RetryIsIdempotent == Spec => []RetryAddsNoRecord
<1>1. ASSUME TypeOK PROVE RetryAddsNoRecord
  <2>. SUFFICES ASSUME NEW r \in Reports, NEW u \in Decode(r)
                PROVE  LET once == Merged(u)
                           twice == [metrics |-> Concat(once.metrics, u.metrics),
                                     params |-> Concat(once.params, u.params)]
                       IN  Reason(Power(once), Power(twice)) = None
    BY DEF RetryAddsNoRecord
  <2>1. IsUpdate(u)
    BY DecodeIsUpdate
  <2>2. IsUpdate(Merged(u))
    BY <1>1, <2>1, MergedIsUpdate DEF TypeOK
  <2>3. /\ Concat(Merged(u).metrics, u.metrics) = Merged(u).metrics
        /\ Concat(Merged(u).params, u.params) = Merged(u).params
    <3>1. CASE row = None
      BY <2>1, <3>1, ConcatItself DEF IsUpdate, Merged
    <3>2. CASE row # None
      <4>1. IsUpdate(row)
        BY <1>1, <3>2 DEF TypeOK
      <4>2. Merged(u) = [metrics |-> Concat(row.metrics, u.metrics),
                         params |-> Concat(row.params, u.params)]
        BY <3>2 DEF Merged
      <4>. QED
        BY <2>1, <4>1, <4>2, ConcatValue DEF IsUpdate
    <3>. QED
      BY <3>1, <3>2
  <2>4. Power(Merged(u)) \in Int \cup {None}
    BY <2>2, PowerNumber
  <2>5. Power([metrics |-> Concat(Merged(u).metrics, u.metrics),
               params |-> Concat(Merged(u).params, u.params)]) = Power(Merged(u))
    BY <2>3 DEF Power
  <2>. QED
    BY <2>4, <2>5, ReasonIsDue
<1>. QED
  BY <1>1, LiveStateTypes, PTL

-----------------------------------------------------------------------------
(* The preferred name.  As long as all reports of a row are plain its metrics stay an
   object, with the number reported last under rx_optical_power. *)

PlainRow ==
    row # None /\ ~mixed =>
        /\ IsObject(row.metrics) /\ RxKey \in DOMAIN row.metrics
        /\ IsNumber(row.metrics[RxKey]) /\ row.metrics[RxKey] = reported

LEMMA PlainStep ==
    ASSUME TypeOK, PlainRow, [Next]_vars
    PROVE  PlainRow'
<1>1. ASSUME NEW r \in Reports, Report(r), ~ UNCHANGED vars PROVE PlainRow'
  <2>1. PICK u : /\ IsUpdate(u) /\ row' = Merged(u)
                 /\ mixed' = (mixed \/ ~IsPlain(u))
                 /\ reported' = IF IsPlain(u) THEN u.metrics[RxKey] ELSE reported
    BY <1>1, ReportStep
  <2>. SUFFICES ASSUME ~mixed'
                PROVE  /\ IsObject(row'.metrics) /\ RxKey \in DOMAIN row'.metrics
                       /\ IsNumber(row'.metrics[RxKey]) /\ row'.metrics[RxKey] = reported'
    BY DEF PlainRow
  <2>2. ~mixed /\ IsPlain(u) /\ reported' = u.metrics[RxKey]
    BY <2>1, Zenon
  <2>3. IsObject(u.metrics) /\ RxKey \in DOMAIN u.metrics /\ IsNumber(u.metrics[RxKey])
    BY <2>2 DEF IsPlain
  <2>4. CASE row = None
    BY <2>1, <2>2, <2>3, <2>4 DEF Merged
  <2>5. CASE row # None
    <3>1. HasFields(row.metrics) /\ HasFields(u.metrics) /\ IsObject(row.metrics)
      BY <2>1, <2>2, <2>3, <2>5, Values DEF PlainRow, TypeOK, IsUpdate, IsOptional
    <3>2. row'.metrics = Over(row.metrics, u.metrics)
      BY <2>1, <2>3, <2>5, <3>1 DEF Merged, Concat
    <3> DEFINE o == Over(row.metrics, u.metrics)
    <3>3. /\ HasFields(o)
          /\ DOMAIN o = DOMAIN row.metrics \cup DOMAIN u.metrics
          /\ \A k \in DOMAIN u.metrics : o[k] = u.metrics[k]
      BY <3>1, OverFields, Zenon
    <3>4. IsObject(o) /\ RxKey \in DOMAIN o /\ o[RxKey] = u.metrics[RxKey]
      BY <2>3, <3>3, Values
    <3>. QED
      BY <2>2, <2>3, <3>2, <3>4, Zenon
  <2>. QED
    BY <2>4, <2>5
<1>2. CASE DeleteCpe \/ Truncate
  BY <1>2 DEF DeleteCpe, Truncate, PlainRow
<1>3. CASE UNCHANGED vars
  BY <1>3 DEF vars, PlainRow
<1>. QED
  BY <1>1, <1>2, <1>3 DEF Next

\* As long as every report that was merged carries rx_optical_power in an object, the
\* power the trigger compares is the one reported last.
THEOREM PlainReportsAreTracked == Spec => []PlainPowerIsTracked
<1>1. Init => PlainRow
  BY DEF Init, PlainRow
<1>2. TypeOK /\ PlainRow /\ [Next]_vars => PlainRow'
  BY PlainStep
<1>3. ASSUME TypeOK, PlainRow PROVE PlainPowerIsTracked
  BY <1>3, PowerNumber DEF TypeOK, PlainRow, PlainPowerIsTracked
<1>. QED
  BY <1>1, <1>2, <1>3, LiveStateTypes, PTL DEF Spec

-----------------------------------------------------------------------------
(* The parameters *)

\* Unless the column has become an array, every parameter that was reported is still found
\* under its path, and an array never becomes an object again as long as the row lives.
THEOREM ParametersAreKept == Spec => ParametersStay
<1> DEFINE Stay == row # None /\ row' # None /\ IsObject(row'.params) =>
                      /\ IsObject(row.params)
                      /\ DOMAIN row.params \subseteq DOMAIN row'.params
<1>1. ASSUME TypeOK, [Next]_vars PROVE Stay
  <2>1. ASSUME NEW r \in Reports, Report(r), ~ UNCHANGED vars PROVE Stay
    <3>1. PICK u : IsUpdate(u) /\ row' = Merged(u)
      BY <1>1, <2>1, ReportStep
    <3>. SUFFICES ASSUME row # None, IsObject(row'.params)
                  PROVE  IsObject(row.params) /\ DOMAIN row.params \subseteq DOMAIN row'.params
      OBVIOUS
    <3>2. IsValue(row.params) /\ IsValue(u.params) /\ row'.params = Concat(row.params, u.params)
      BY <1>1, <3>1 DEF TypeOK, IsUpdate, Merged
    <3>3. /\ IsObject(row.params) /\ IsObject(u.params)
          /\ row'.params = Over(row.params, u.params)
      BY <3>2, ConcatValue
    <3>4. HasFields(row.params) /\ HasFields(u.params)
      BY <3>2, <3>3, Values DEF IsOptional
    <3>5. DOMAIN Over(row.params, u.params) = DOMAIN row.params \cup DOMAIN u.params
      BY <3>4, OverFields, Zenon
    <3>. QED
      BY <3>3, <3>5
  <2>2. CASE DeleteCpe \/ Truncate
    BY <2>2 DEF DeleteCpe, Truncate
  <2>3. CASE UNCHANGED vars
    BY <2>3 DEF vars
  <2>. QED
    BY <1>1, <2>1, <2>2, <2>3 DEF Next
<1>2. TypeOK /\ [Next]_vars => Stay
  BY <1>1
<1>. QED
  BY <1>2, LiveStateTypes, PTL DEF Spec, ParametersStay

=============================================================================
