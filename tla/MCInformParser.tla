--------------------------- MODULE MCInformParser ---------------------------
(***************************************************************************)
(* Three families of Informs for TLC: one receive power, with every integer*)
(* up to one beyond the widest scale and the decimals around the bounds of *)
(* the range, zero and a receiver's working point; every kind of damage    *)
(* with up to two prefixes more than can be repaired; and up to three      *)
(* parameters, in every order, of a few that compete.                      *)
(***************************************************************************)
EXTENDS InformParser

EdgeDecimals == (-60020 .. -59980) \cup (-19520 .. -19480) \cup (-20 .. 20) \cup (29980 .. 30020)
WidestIntegers == -100001 .. 50001

Sound(ps) == [undeclared |-> 0, shielded |-> FALSE, malformed |-> FALSE, inform |-> TRUE,
              device |-> TRUE, serial |-> TRUE, parameters |-> ps]

RxParameters ==
    [words : {{"optical", "rx", "rxpower"}}, form : {"decimal"}, n : EdgeDecimals]
    \cup [words : {{"optical", "rx", "rxpower"}}, form : {"integer"}, n : WidestIntegers]

OnePower == {Sound(<<p>>) : p \in RxParameters}

Damaged ==
    [undeclared : 0 .. 7, shielded : BOOLEAN, malformed : BOOLEAN, inform : BOOLEAN,
     device : BOOLEAN, serial : BOOLEAN, parameters : {<<>>}]

Text(words, f, m) == [words |-> words, form |-> f, n |-> m]

Competing == {
    Text({"optical", "rx", "rxpower"}, "integer", -1950),
    Text({"optical", "signallevel"}, "decimal", -21304),
    Text({"optical", "rx", "rxpower"}, "blank", 0),
    Text({"pon", "rx"}, "integer", 60000),
    Text({"optical", "tx", "txpower", "rx"}, "integer", 240),
    Text({"optical", "transmitlevel"}, "integer", 2300),
    Text({"optical", "rx", "tx"}, "integer", -7),
    Text({"IPAddress"}, "blank", 1),
    Text({"IPAddress"}, "blank", 2),
    Text({"URL"}, "blank", 3),
    Text({"URL"}, "blank", 4),
    Text({"URL"}, "blank", 0),
    Text({"SoftwareVersion"}, "blank", 5)}

Mixed == {Sound(ps) : ps \in UNION {[1 .. k -> Competing] : k \in 2 .. 3}}

Informs == OnePower \cup Damaged \cup Mixed

=============================================================================
