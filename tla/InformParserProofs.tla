-------------------------- MODULE InformParserProofs --------------------------
(***************************************************************************)
(* Proofs about InformParser and OpticalPower, for every set of documents  *)
(* and every number of repair rounds.                                      *)
(***************************************************************************)
EXTENDS InformParser, TLAPS

(***************************************************************************)
(* The inductive invariant: a power that was read is the one of the text's *)
(* scale, and None is the answer to a text without a scale only.           *)
(***************************************************************************)
Near(m, c) == Within(10 * c - m, -5, 5)

DecimalScale(m, c) == Within(m, -60000, 30000) /\ Near(m, c)

IntegerScale(m, c) ==
    \/ Within(m, -60, 30) /\ c = 100 * m
    \/ (Within(m, -9999, -61) \/ Within(m, 31, 999)) /\ c = m
    \/ (Within(m, -99999, -10000) \/ Within(m, 1000, 50000)) /\ Near(m, c)

NoIntegerScale(m) == m < -99999 \/ m = 0 \/ m > 50000

DecimalInv == form = "decimal" /\ parsed \in Int => DecimalScale(n, parsed)
IntegerInv == form = "integer" /\ parsed \in Int => IntegerScale(n, parsed)
NoneInv == form = "integer" /\ parsed # Unread /\ parsed \notin Int => NoIntegerScale(n)
BlankInv == form = "blank" => parsed \notin Int
FormInv == form \in {"blank", "decimal", "integer"} /\ n \in Int

ParsedInv == FormInv /\ BlankInv /\ DecimalInv /\ IntegerInv /\ NoneInv

-----------------------------------------------------------------------------
(* Lemmas about the scales *)

\* Rounding moves a value by at most half a hundredth of a dBm ...
LEMMA RoundedIsNear ==
  ASSUME NEW m \in Int, NEW c \in Rounded(m)
  PROVE  c \in Int /\ Near(m, c)
BY DEF Rounded, Near, Within

\* ... and keeps the sign.
LEMMA SignKept ==
  ASSUME NEW m \in Int, NEW c \in Int, Near(m, c)
  PROVE  c * m >= 0
<1>. USE DEF Near, Within
<1>1. CASE m > 5
  <2>1. c > 0
    BY <1>1
  <2>. QED
    BY <1>1, <2>1
<1>2. CASE m < -5
  <2>1. c < 0
    BY <1>2
  <2>. QED
    BY <1>2, <2>1
<1>3. CASE -5 <= m /\ m <= 5
  <2>1. CASE c = 0
    BY <2>1
  <2>2. CASE c = 1
    BY <2>2
  <2>3. CASE c = -1
    BY <2>3
  <2>. QED
    BY <1>3, <2>1, <2>2, <2>3
<1>. QED
  BY <1>1, <1>2, <1>3

\* What an integer of some scale stands for.
LEMMA IntegerPower ==
  ASSUME NEW m \in Int, NEW c \in Int, IntegerScale(m, c)
  PROVE  Within(c, -999999, 999999) /\ c * m >= 0
<1>1. CASE Within(m, -60, 30) /\ c = 100 * m
  BY <1>1 DEF Within
<1>2. CASE (Within(m, -9999, -61) \/ Within(m, 31, 999)) /\ c = m
  BY <1>2 DEF Within
<1>3. CASE (Within(m, -99999, -10000) \/ Within(m, 1000, 50000)) /\ Near(m, c)
  <2>1. c * m >= 0
    BY <1>3, SignKept
  <2>. QED
    BY <1>3, <2>1 DEF Near, Within
<1>. QED
  BY <1>1, <1>2, <1>3 DEF IntegerScale

-----------------------------------------------------------------------------
\* A text that is yet to be read satisfies the invariant.
LEMMA UnreadKeeps ==
  ASSUME form' \in {"blank", "decimal", "integer"}, n' \in Int, parsed' = Unread
  PROVE  ParsedInv'
BY AnswerAssumption DEF ParsedInv, FormInv, BlankInv, DecimalInv, IntegerInv, NoneInv

LEMMA DecimalKeeps ==
  ASSUME ParsedInv, form = "decimal", parsed' \in DecimalPowers(n), UNCHANGED <<form, n>>
  PROVE  ParsedInv'
<1>1. FormInv' /\ BlankInv' /\ IntegerInv' /\ NoneInv'
  BY DEF ParsedInv, FormInv, BlankInv, IntegerInv, NoneInv
<1>2. n \in Int
  BY DEF ParsedInv, FormInv
<1>3. parsed' \in Int => Within(n, -60000, 30000) /\ parsed' \in Rounded(n)
  BY AnswerAssumption DEF DecimalPowers
<1>4. parsed' \in Int => DecimalScale(n, parsed')
  BY <1>2, <1>3, RoundedIsNear DEF DecimalScale
<1>. QED
  BY <1>1, <1>4 DEF ParsedInv, DecimalInv

LEMMA IntegerKeeps ==
  ASSUME ParsedInv, form = "integer", parsed' \in IntegerPowers(n), UNCHANGED <<form, n>>
  PROVE  ParsedInv'
<1>1. FormInv' /\ BlankInv' /\ DecimalInv'
  BY DEF ParsedInv, FormInv, BlankInv, DecimalInv
<1>2. n \in Int
  BY DEF ParsedInv, FormInv
<1>3. CASE (Within(n, -60, -1) \/ Within(n, 1, 30)) /\ parsed' = 100 * n
  <2>1. parsed' \in Int /\ IntegerScale(n, parsed')
    BY <1>2, <1>3, SMT DEF IntegerScale, Within
  <2>. QED
    BY <1>1, <2>1 DEF ParsedInv, IntegerInv, NoneInv
<1>4. CASE (Within(n, -9999, -61) \/ Within(n, 31, 999)) /\ parsed' = n
  <2>1. parsed' \in Int /\ IntegerScale(n, parsed')
    BY <1>2, <1>4, SMT DEF IntegerScale, Within
  <2>. QED
    BY <1>1, <2>1 DEF ParsedInv, IntegerInv, NoneInv
<1>5. CASE (Within(n, -99999, -10000) \/ Within(n, 1000, 50000)) /\ parsed' \in Rounded(n)
  <2>1. parsed' \in Int /\ Near(n, parsed')
    BY <1>2, <1>5, RoundedIsNear
  <2>2. IntegerScale(n, parsed')
    BY <1>2, <1>5, <2>1 DEF IntegerScale
  <2>. QED
    BY <1>1, <2>1, <2>2 DEF ParsedInv, IntegerInv, NoneInv
<1>6. CASE (n < -99999 \/ n = 0 \/ n > 50000) /\ parsed' = None
  <2>1. NoIntegerScale(n)
    BY <1>2, <1>6 DEF NoIntegerScale
  <2>. QED
    BY <1>1, <1>6, <2>1, AnswerAssumption DEF ParsedInv, IntegerInv, NoneInv
<1>7. \/ Within(n, -60, -1) \/ Within(n, 1, 30)
      \/ Within(n, -9999, -61) \/ Within(n, 31, 999)
      \/ Within(n, -99999, -10000) \/ Within(n, 1000, 50000)
      \/ n < -99999 \/ n = 0 \/ n > 50000
  BY <1>2 DEF Within
<1>8. /\ (Within(n, -60, -1) \/ Within(n, 1, 30)) => parsed' = 100 * n
      /\ (Within(n, -9999, -61) \/ Within(n, 31, 999)) => parsed' = n
      /\ (Within(n, -99999, -10000) \/ Within(n, 1000, 50000)) => parsed' \in Rounded(n)
      /\ (n < -99999 \/ n = 0 \/ n > 50000) => parsed' = None
  BY <1>2 DEF IntegerPowers, Within
<1>. QED
  BY <1>3, <1>4, <1>5, <1>6, <1>7, <1>8

LEMMA ReadKeeps == ParsedInv /\ parse_optical_power => ParsedInv'
<1>. SUFFICES ASSUME ParsedInv, parse_optical_power PROVE ParsedInv'
  OBVIOUS
<1>1. CASE form = "decimal"
  BY <1>1, DecimalKeeps DEF parse_optical_power, Powers
<1>2. CASE form = "integer"
  BY <1>2, IntegerKeeps DEF parse_optical_power, Powers
<1>3. CASE form = "blank"
  BY <1>3, AnswerAssumption
     DEF parse_optical_power, Powers, ParsedInv, FormInv, BlankInv, DecimalInv, IntegerInv, NoneInv
<1>. QED
  BY <1>1, <1>2, <1>3 DEF ParsedInv, FormInv

-----------------------------------------------------------------------------
(* The document.  Until it is parsed, the prefixes that are missing are the
   undeclared ones less a declaration per round, or all of them when a comment
   catches the declarations; afterwards the verdict is fixed. *)

Numbers ==
    /\ document \in Document
    /\ rounds \in 0 .. MaxRounds
    /\ missing \in Nat
    /\ cursor \in Nat \ {0}

RepairInv ==
    missing = IF document.shielded THEN document.undeclared ELSE document.undeclared - rounds

VerdictInv ==
    /\ pc \in {"repair", "identify", "parameters", "done", "failed"}
    /\ pc = "identify" => ~document.malformed /\ missing = 0

DocumentInv == Numbers /\ RepairInv /\ VerdictInv /\ AcceptedExactly

LEMMA ParameterTyped ==
  ASSUME NEW d \in Document, NEW i \in 1 .. Len(d.parameters)
  PROVE  /\ Len(d.parameters) \in Nat
         /\ d.parameters[i] \in Parameter
         /\ d.parameters[i].form \in {"blank", "decimal", "integer"}
         /\ d.parameters[i].n \in Int
<1>1. d.parameters \in Seq(Parameter)
  BY DEF Document
<1>2. d.parameters[i] \in Parameter
  BY <1>1
<1>. QED
  BY <1>1, <1>2 DEF Parameter

LEMMA DocumentInit == Init => DocumentInv
BY DocumentAssumption DEF Init, DocumentInv, Numbers, RepairInv, VerdictInv, AcceptedExactly, Document

LEMMA DocumentNext == DocumentInv /\ [Next]_informVars => DocumentInv'
<1>. SUFFICES ASSUME DocumentInv, [Next]_informVars PROVE DocumentInv'
  OBVIOUS
<1>. USE DEF DocumentInv, Numbers, RepairInv, VerdictInv, AcceptedExactly
<1>. /\ document.undeclared \in Nat /\ document.shielded \in BOOLEAN
     /\ Len(document.parameters) \in Nat
  BY DEF Document
<1>1. CASE Repair
  BY <1>1, DocumentAssumption DEF Repair
<1>2. CASE ParseDocument
  <2>1. missing = 0 <=> document.undeclared = 0 \/ (document.undeclared = rounds /\ ~document.shielded)
    OBVIOUS
  <2>2. missing > 0 /\ rounds = MaxRounds /\ ~document.shielded => document.undeclared > MaxRounds
    OBVIOUS
  <2>. QED
    BY <1>2, <2>1, <2>2 DEF ParseDocument, Acceptable
<1>3. CASE Identify
  <2>1. document.inform /\ document.device => Acceptable(document)
    BY <1>3 DEF Identify, Acceptable
  <2>. QED
    BY <1>3, <2>1 DEF Identify, Load, Acceptable
<1>4. CASE ReadPower
  BY <1>4 DEF ReadPower
<1>5. CASE TakeParameter
  BY <1>5 DEF TakeParameter, Load
<1>6. CASE UNCHANGED informVars
  BY <1>6 DEF informVars
<1>. QED
  BY <1>1, <1>2, <1>3, <1>4, <1>5, <1>6 DEF Next

LEMMA DocumentInvariant == Spec => []DocumentInv
BY DocumentInit, DocumentNext, PTL DEF Spec

\* A parameter is loaded with its text, and with no answer yet.
LEMMA LoadKeeps ==
  ASSUME document \in Document, NEW i \in Nat \ {0}, Load(i)
  PROVE  ParsedInv'
<1>1. CASE i <= Len(document.parameters)
  <2>1. i \in 1 .. Len(document.parameters)
    BY <1>1 DEF Document
  <2>2. form' \in {"blank", "decimal", "integer"} /\ n' \in Int
    BY <1>1, <2>1, ParameterTyped DEF Load
  <2>. QED
    BY <2>2, UnreadKeeps DEF Load
<1>2. CASE ~(i <= Len(document.parameters))
  BY <1>2, UnreadKeeps DEF Load
<1>. QED
  BY <1>1, <1>2

LEMMA ParsedNext == DocumentInv /\ ParsedInv /\ [Next]_informVars => ParsedInv'
<1>. SUFFICES ASSUME DocumentInv, ParsedInv, [Next]_informVars PROVE ParsedInv'
  OBVIOUS
<1>1. document \in Document /\ cursor \in Nat \ {0}
  BY DEF DocumentInv, Numbers
<1>2. CASE UNCHANGED textVars
  BY <1>2, Zenon DEF textVars, ParsedInv, FormInv, BlankInv, DecimalInv, IntegerInv, NoneInv
<1>3. CASE ReadPower
  BY <1>3, ReadKeeps DEF ReadPower
<1>4. CASE Identify
  BY <1>1, <1>2, <1>4, LoadKeeps DEF Identify
<1>5. CASE TakeParameter
  BY <1>1, <1>5, LoadKeeps DEF TakeParameter
<1>. QED
  BY <1>2, <1>3, <1>4, <1>5 DEF Next, Repair, ParseDocument, informVars

LEMMA ParsedInvariant == Spec => []ParsedInv
<1>1. Init => ParsedInv
  BY AnswerAssumption DEF Init, ParsedInv, FormInv, BlankInv, DecimalInv, IntegerInv, NoneInv
<1>. QED
  BY <1>1, DocumentInvariant, ParsedNext, PTL DEF Spec

-----------------------------------------------------------------------------
(* The parameters.  What has been found so far is what the reference says of the
   parameters before the cursor; the parameter at the cursor is the last of those
   before the next one. *)

CursorInv ==
    /\ pc = "parameters" =>
          /\ cursor \in 1 .. Len(document.parameters)
          /\ form = document.parameters[cursor].form
          /\ n = document.parameters[cursor].n
          /\ parsed # Unread => parsed \in Powers(form, n)
    /\ pc \in {"repair", "identify"} =>
          rx_optical_power = None /\ tx_optical_power = None /\ ip_address = None

LEMMA CursorInit == Init => CursorInv
BY DEF Init, CursorInv

LEMMA CursorNext == DocumentInv /\ CursorInv /\ [Next]_informVars => CursorInv'
<1>. SUFFICES ASSUME DocumentInv, CursorInv, [Next]_informVars PROVE CursorInv'
  OBVIOUS
<1>. USE DEF CursorInv
<1>1. document \in Document /\ cursor \in Nat \ {0} /\ Len(document.parameters) \in Nat
  BY DEF DocumentInv, Numbers, Document
<1>2. CASE Repair
  BY <1>2 DEF Repair, textVars, found
<1>3. CASE ParseDocument
  BY <1>3 DEF ParseDocument, textVars, found
<1>4. CASE Identify
  BY <1>1, <1>4 DEF Identify, Load, textVars
<1>5. CASE ReadPower
  BY <1>5 DEF ReadPower, parse_optical_power, found
<1>6. CASE TakeParameter
  BY <1>1, <1>6 DEF TakeParameter, Load
<1>7. CASE UNCHANGED informVars
  BY <1>7 DEF informVars, textVars, found
<1>. QED
  BY <1>2, <1>3, <1>4, <1>5, <1>6, <1>7 DEF Next

\* A reading of one more parameter, which comes after all others of its kind.
LEMMA OneMoreReading ==
  ASSUME NEW is \in SUBSET Nat, NEW c \in Nat, \A i \in is : i < c,
         NEW power, IsLastReadable(power, is), NEW q \in PowersOf(c)
  PROVE  IsLastReadable(IF q # None THEN q ELSE power, is \cup {c})
<1>1. CASE q # None
  <2>1. \A j \in is \cup {c} : ~(j > c)
    OBVIOUS
  <2>. QED
    BY <1>1, <2>1 DEF IsLastReadable
<1>2. CASE q = None
  BY <1>2 DEF IsLastReadable
<1>. QED
  BY <1>1, <1>2

\* No key of the receive power is called a transmit power.
LEMMA ReceiveKeysReceive ==
  IsLastReadable(rx_optical_power, ReceiveKeys) => ReceivePowerIsReceived
BY DEF ReceivePowerIsReceived, IsLastReadable, ReceiveKeys, is_optical_rx_power_key, CalledTransmit

LEMMA PowersNext ==
  DocumentInv /\ CursorInv /\ PowersAreLastReadable /\ [Next]_informVars => PowersAreLastReadable'
<1>. SUFFICES ASSUME DocumentInv, CursorInv, PowersAreLastReadable, [Next]_informVars
              PROVE  PowersAreLastReadable'
  OBVIOUS
<1>1. document \in Document /\ cursor \in Nat \ {0}
  BY DEF DocumentInv, Numbers
<1>2. CASE Identify /\ pc' # "failed"
  <2>1. rx_optical_power' = None /\ tx_optical_power' = None /\ cursor' = 1
    BY <1>2 DEF Identify, CursorInv, Load
  <2>2. ReceiveKeys' = {} /\ TransmitKeys' = {}
    BY <2>1 DEF ReceiveKeys, TransmitKeys
  <2>. QED
    BY <2>1, <2>2 DEF PowersAreLastReadable, IsLastReadable, ReceivePowerIsReceived
<1>3. CASE TakeParameter
  <2>1. /\ pc = "parameters" /\ cursor' = cursor + 1 /\ document' = document
        /\ PowersOf(cursor) = Powers(form, n)
    BY <1>3 DEF TakeParameter, Load, CursorInv, PowersOf
  <2>2. IsOptical => parsed \in PowersOf(cursor)
    BY <1>3, <2>1 DEF TakeParameter, CursorInv
  <2>3. /\ ReceiveKeys \in SUBSET Nat /\ TransmitKeys \in SUBSET Nat
        /\ \A i \in ReceiveKeys \cup TransmitKeys : i < cursor
    BY <1>1 DEF ReceiveKeys, TransmitKeys
  <2>4. IsLastReadable(rx_optical_power, ReceiveKeys) /\ IsLastReadable(tx_optical_power, TransmitKeys)
    BY <2>1 DEF PowersAreLastReadable
  <2>5. IsLastReadable(rx_optical_power', ReceiveKeys')
    <3>1. CASE is_optical_rx_power_key(Words)
      <4>1. ReceiveKeys' = ReceiveKeys \cup {cursor}
        BY <1>1, <2>1, <3>1 DEF ReceiveKeys, Words
      <4>2. rx_optical_power' = IF parsed # None THEN parsed ELSE rx_optical_power
        BY <1>3, <3>1 DEF TakeParameter, KeepPower
      <4>3. parsed \in PowersOf(cursor)
        BY <2>2, <3>1 DEF IsOptical
      <4>. QED
        BY <1>1, <2>3, <2>4, <4>1, <4>2, <4>3, OneMoreReading
    <3>2. CASE ~is_optical_rx_power_key(Words)
      <4>1. ReceiveKeys' = ReceiveKeys
        BY <1>1, <2>1, <3>2 DEF ReceiveKeys, Words
      <4>2. rx_optical_power' = rx_optical_power
        BY <1>3, <3>2 DEF TakeParameter, KeepPower
      <4>. QED
        BY <2>4, <4>1, <4>2
    <3>. QED
      BY <3>1, <3>2
  <2>6. IsLastReadable(tx_optical_power', TransmitKeys')
    <3>1. CASE is_optical_tx_power_key(Words)
      <4>1. TransmitKeys' = TransmitKeys \cup {cursor}
        BY <1>1, <2>1, <3>1 DEF TransmitKeys, Words
      <4>2. tx_optical_power' = IF parsed # None THEN parsed ELSE tx_optical_power
        BY <1>3, <3>1 DEF TakeParameter, KeepPower
      <4>3. parsed \in PowersOf(cursor)
        BY <2>2, <3>1 DEF IsOptical
      <4>. QED
        BY <1>1, <2>3, <2>4, <4>1, <4>2, <4>3, OneMoreReading
    <3>2. CASE ~is_optical_tx_power_key(Words)
      <4>1. TransmitKeys' = TransmitKeys
        BY <1>1, <2>1, <3>2 DEF TransmitKeys, Words
      <4>2. tx_optical_power' = tx_optical_power
        BY <1>3, <3>2 DEF TakeParameter, KeepPower
      <4>. QED
        BY <2>4, <4>1, <4>2
    <3>. QED
      BY <3>1, <3>2
  <2>7. IsLastReadable(rx_optical_power, ReceiveKeys)' /\ IsLastReadable(tx_optical_power, TransmitKeys)'
    BY <2>1, <2>5, <2>6 DEF IsLastReadable, PowersOf
  <2>8. IsLastReadable(rx_optical_power, ReceiveKeys)' => ReceivePowerIsReceived'
    BY ReceiveKeysReceive, PTL
  <2>. QED
    BY <2>7, <2>8 DEF PowersAreLastReadable
<1>4. CASE \/ Repair \/ ParseDocument \/ ReadPower
           \/ UNCHANGED informVars \/ (Identify /\ pc' = "failed")
  <2>1. pc' \in {"parameters", "done"} =>
           pc' = pc /\ UNCHANGED <<document, cursor, rx_optical_power, tx_optical_power>>
    BY <1>4 DEF Repair, ParseDocument, ReadPower, informVars, found
  <2>. QED
    BY <2>1 DEF PowersAreLastReadable, IsLastReadable, PowersOf, ReceiveKeys, TransmitKeys,
                ReceivePowerIsReceived
<1>. QED
  BY <1>2, <1>3, <1>4 DEF Next

LEMMA AddressNext ==
  DocumentInv /\ CursorInv /\ AddressOutranksUrl /\ [Next]_informVars => AddressOutranksUrl'
<1>. SUFFICES ASSUME DocumentInv, CursorInv, AddressOutranksUrl, [Next]_informVars
              PROVE  AddressOutranksUrl'
  OBVIOUS
<1>1. document \in Document /\ cursor \in Nat \ {0}
  BY DEF DocumentInv, Numbers
<1>2. CASE Identify /\ pc' # "failed"
  <2>1. ip_address' = None /\ cursor' = 1
    BY <1>2 DEF Identify, CursorInv, Load
  <2>2. AddressKeys' = {} /\ UrlKeys' = {}
    BY <2>1 DEF AddressKeys, UrlKeys
  <2>. QED
    BY <2>1, <2>2 DEF AddressOutranksUrl
<1>3. CASE TakeParameter
  <2>1. /\ pc = "parameters" /\ cursor' = cursor + 1 /\ document' = document
        /\ cursor \in 1 .. Len(document.parameters)
        /\ form = document.parameters[cursor].form /\ n = document.parameters[cursor].n
        /\ ip_address' = IF "IPAddress" \in Words \/ FromUrl THEN n ELSE ip_address
    BY <1>3 DEF TakeParameter, Load, CursorInv
  <2>2. AddressKeys' = IF "IPAddress" \in Words THEN AddressKeys \cup {cursor} ELSE AddressKeys
    BY <1>1, <2>1 DEF AddressKeys, Words
  <2>3. UrlKeys' = IF "URL" \in Words /\ form = "blank" /\ n # 0
                   THEN UrlKeys \cup {cursor} ELSE UrlKeys
    BY <1>1, <2>1 DEF UrlKeys, Words
  <2>4. /\ AddressKeys \subseteq 1 .. Len(document.parameters)
        /\ UrlKeys \subseteq 1 .. Len(document.parameters)
        /\ \A i \in AddressKeys \cup UrlKeys : i < cursor
    BY <1>1, <2>1 DEF AddressKeys, UrlKeys
  <2>5. \A i \in AddressKeys \cup UrlKeys : document.parameters[i].n # None
    BY <1>1, <2>4, ParameterTyped, AnswerAssumption
  <2>6. CASE "IPAddress" \in Words
    <3>1. ip_address' = document'.parameters[cursor].n /\ cursor \in AddressKeys'
      BY <2>1, <2>2, <2>6
    <3>2. \A j \in AddressKeys' : j <= cursor
      BY <1>1, <2>2, <2>4, <2>6
    <3>. QED
      BY <3>1, <3>2 DEF AddressOutranksUrl
  <2>7. CASE "IPAddress" \notin Words /\ AddressKeys # {}
    <3>1. PICK i \in AddressKeys : /\ ip_address = document.parameters[i].n
                                   /\ \A j \in AddressKeys : j <= i
      BY <2>1, <2>7 DEF AddressOutranksUrl
    <3>2. ip_address' = ip_address /\ AddressKeys' = AddressKeys
      BY <2>1, <2>2, <2>5, <2>7, <3>1 DEF FromUrl
    <3>. QED
      BY <2>1, <3>1, <3>2 DEF AddressOutranksUrl
  <2>8. CASE "IPAddress" \notin Words /\ AddressKeys = {} /\ UrlKeys # {}
    <3>1. PICK i \in UrlKeys : /\ ip_address = document.parameters[i].n
                               /\ \A j \in UrlKeys : i <= j
      BY <2>1, <2>8 DEF AddressOutranksUrl
    <3>2. ip_address' = ip_address /\ AddressKeys' = {}
      BY <2>1, <2>2, <2>5, <2>8, <3>1 DEF FromUrl
    <3>3. i \in UrlKeys' /\ \A j \in UrlKeys' : i <= j
      BY <1>1, <2>3, <2>4, <3>1
    <3>. QED
      BY <2>1, <3>1, <3>2, <3>3 DEF AddressOutranksUrl
  <2>9. CASE "IPAddress" \notin Words /\ AddressKeys = {} /\ UrlKeys = {}
    <3>1. ip_address = None
      BY <2>1, <2>9 DEF AddressOutranksUrl
    <3>2. AddressKeys' = {}
      BY <2>2, <2>9
    <3>3. CASE FromUrl
      <4>1. ip_address' = document'.parameters[cursor].n /\ UrlKeys' = {cursor}
        BY <2>1, <2>3, <2>9, <3>3 DEF FromUrl
      <4>2. cursor \in UrlKeys' /\ \A j \in UrlKeys' : cursor <= j
        BY <1>1, <4>1
      <4>. QED
        BY <3>2, <4>1, <4>2 DEF AddressOutranksUrl
    <3>4. CASE ~FromUrl
      <4>1. ip_address' = None /\ UrlKeys' = {}
        BY <2>1, <2>3, <2>9, <3>1, <3>4 DEF FromUrl
      <4>. QED
        BY <3>2, <4>1 DEF AddressOutranksUrl
    <3>. QED
      BY <3>3, <3>4
  <2>. QED
    BY <2>6, <2>7, <2>8, <2>9
<1>4. CASE \/ Repair \/ ParseDocument \/ ReadPower
           \/ UNCHANGED informVars \/ (Identify /\ pc' = "failed")
  <2>1. pc' \in {"parameters", "done"} => pc' = pc /\ UNCHANGED <<document, cursor, ip_address>>
    BY <1>4 DEF Repair, ParseDocument, ReadPower, informVars, found
  <2>. QED
    BY <2>1 DEF AddressOutranksUrl, AddressKeys, UrlKeys
<1>. QED
  BY <1>2, <1>3, <1>4 DEF Next

-----------------------------------------------------------------------------
(* The theorems *)

\* A decimal text is read as a power within half a hundredth of a dBm of what it
\* says, between -60 dBm and +30 dBm.
THEOREM DecimalReading == Spec => []DecimalIsRead
<1>1. ParsedInv => DecimalIsRead
  <2>. SUFFICES ASSUME ParsedInv, form = "decimal", parsed \in Int
                PROVE  Within(10 * parsed - n, -5, 5) /\ Within(parsed, -6000, 3000)
    BY DEF DecimalIsRead, Result
  <2>1. n \in Int /\ DecimalScale(n, parsed)
    BY DEF ParsedInv, FormInv, DecimalInv
  <2>. QED
    BY <2>1 DEF DecimalScale, Near, Within
<1>. QED
  BY <1>1, ParsedInvariant, PTL

\* A power fits the column of the history and has the sign of the text.
THEOREM PowersAreRecordable == Spec => []PowerIsRecordable
<1>1. ParsedInv => PowerIsRecordable
  <2>. SUFFICES ASSUME ParsedInv, parsed \in Int
                PROVE  /\ Within(parsed, -999999, 999999)
                       /\ form # "blank"
                       /\ parsed * n >= 0
    BY DEF PowerIsRecordable, Result
  <2>1. n \in Int
    BY DEF ParsedInv, FormInv
  <2>2. CASE form = "decimal"
    <3>1. DecimalScale(n, parsed)
      BY <2>2 DEF ParsedInv, DecimalInv
    <3>2. parsed * n >= 0
      BY <2>1, <3>1, SignKept DEF DecimalScale
    <3>. QED
      BY <2>1, <2>2, <3>1, <3>2 DEF DecimalScale, Near, Within
  <2>3. CASE form = "integer"
    <3>1. IntegerScale(n, parsed)
      BY <2>3 DEF ParsedInv, IntegerInv
    <3>. QED
      BY <2>1, <2>3, <3>1, IntegerPower
  <2>. QED
    BY <2>2, <2>3 DEF ParsedInv, FormInv, BlankInv
<1>. QED
  BY <1>1, ParsedInvariant, PTL

\* The integer scales agree on every power a receiver can report.
THEOREM ScalesAgree == Spec => []ReceiverScalesAgree
<1>1. ParsedInv => ReceiverScalesAgree
  <2>. SUFFICES ASSUME ParsedInv, form = "integer", parsed # Unread
                PROVE  /\ Within(n, -60, -10) => parsed = 100 * n
                       /\ Within(n, -6000, -1000) => parsed = n
                       /\ Within(n, -60000, -10000) =>
                             parsed \in Int /\ Within(10 * parsed - n, -5, 5)
    BY DEF ReceiverScalesAgree, Result
  <2>1. n \in Int
    BY DEF ParsedInv, FormInv
  <2>2. CASE parsed \notin Int
    BY <2>1, <2>2 DEF ParsedInv, NoneInv, NoIntegerScale, Within
  <2>3. CASE parsed \in Int
    <3>1. IntegerScale(n, parsed)
      BY <2>3 DEF ParsedInv, IntegerInv
    <3>. QED
      BY <2>1, <2>3, <3>1 DEF IntegerScale, Near, Within
  <2>. QED
    BY <2>2, <2>3
<1>. QED
  BY <1>1, ParsedInvariant, PTL

\* An Inform is accepted exactly when its damage is within what can be repaired.
THEOREM RepairIsExact == Spec => []AcceptedExactly
<1>1. DocumentInv => AcceptedExactly
  BY DEF DocumentInv
<1>. QED
  BY <1>1, DocumentInvariant, PTL

\* The powers of an Inform are those of its last parameters with a readable value, and the
\* receive power is no reading of a parameter that is called a transmit power.
THEOREM PowersFound == Spec => []PowersAreLastReadable
<1>1. Init => PowersAreLastReadable
  BY DEF Init, PowersAreLastReadable
<1>. QED
  BY <1>1, CursorInit, CursorNext, PowersNext, DocumentInvariant, PTL DEF Spec

\* The address of an Inform is its last WAN address, or else the host of its first URL.
THEOREM AddressFound == Spec => []AddressOutranksUrl
<1>1. Init => AddressOutranksUrl
  BY DEF Init, AddressOutranksUrl
<1>. QED
  BY <1>1, CursorInit, CursorNext, AddressNext, DocumentInvariant, PTL DEF Spec

=============================================================================
