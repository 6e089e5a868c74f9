----------------------------- MODULE InformParser -----------------------------
(***************************************************************************)
(* parse_inform: from the text of an Inform to the device's name, powers,  *)
(* address and version.  Firmware that uses undeclared namespace prefixes  *)
(* is tolerated: the declarations are put into the root element, one per   *)
(* round.  The parameters are then read in the order of the document, and  *)
(* a later one may replace what an earlier one has set.                    *)
(***************************************************************************)
EXTENDS OpticalPower, Sequences

CONSTANTS
    Documents,  \* the Informs considered
    MaxRounds   \* how often a declaration is put in (5)

(***************************************************************************)
(* A document has a number of undeclared prefixes; tags in a comment before*)
(* the root element that catch the declarations (shielded); an error of    *)
(* another kind; the elements Inform and DeviceId; a serial number; and    *)
(* parameters.  The name of a parameter is the set of the words the code   *)
(* looks for in it, its value a text: "blank" texts are told apart by n,   *)
(* which is 0 for the ones no host can be read from.  Header ID, events and*)
(* hardware version are left out: they decide nothing.                     *)
(***************************************************************************)
KeyWords == {"txpower", "transmitlevel", "signallevel", "rxpower", "optical", "pon",
             "rx", "tx", "IPAddress", "URL", "SoftwareVersion"}

Parameter == [words : SUBSET KeyWords, form : {"blank", "decimal", "integer"}, n : Int]

Document == [undeclared : Nat, shielded : BOOLEAN, malformed : BOOLEAN, inform : BOOLEAN,
             device : BOOLEAN, serial : BOOLEAN, parameters : Seq(Parameter)]

ASSUME DocumentAssumption ==
    /\ Documents \subseteq Document
    /\ MaxRounds \in Nat

VARIABLES
    document,
    pc,        \* where parse_inform stands: repair, identify, parameters, done or failed
    rounds,    \* how many declarations it has put in
    missing,   \* how many prefixes are still undeclared
    cursor,    \* the parameter that is read next
    cpe_id,    \* the name: the serial number, or one composed of OUI and class
    rx_optical_power, tx_optical_power, ip_address, software_version

found == <<cpe_id, rx_optical_power, tx_optical_power, ip_address, software_version>>
informVars == <<textVars, document, pc, rounds, missing, cursor, found>>

Init ==
    /\ document \in Documents
    /\ pc = "repair"
    /\ rounds = 0
    /\ missing = document.undeclared
    /\ cursor = 1
    /\ form = "blank"
    /\ n = 0
    /\ parsed = Unread
    /\ cpe_id = None
    /\ rx_optical_power = None
    /\ tx_optical_power = None
    /\ ip_address = None
    /\ software_version = None

-----------------------------------------------------------------------------
(* The names of parameters *)

\* Defect: a name that says transmit power is not excluded.
rx_power_key_with_tx(words) ==
    \/ words \cap {"signallevel", "rxpower"} # {}
    \/ "rx" \in words /\ words \cap {"optical", "pon"} # {}

is_optical_rx_power_key(words) ==
    /\ words \cap {"txpower", "transmitlevel"} = {}
    /\ \/ words \cap {"signallevel", "rxpower"} # {}
       \/ "rx" \in words /\ words \cap {"optical", "pon"} # {}

is_optical_tx_power_key(words) ==
    \/ words \cap {"txpower", "transmitlevel"} # {}
    \/ "tx" \in words /\ words \cap {"optical", "pon"} # {}

-----------------------------------------------------------------------------
(* The document *)

\* inject_single_namespace puts the declaration into the first tag that is no
\* comment, instruction or DOCTYPE by its first characters.
Repair ==
    /\ pc = "repair"
    /\ ~document.malformed
    /\ missing > 0
    /\ rounds < MaxRounds
    /\ rounds' = rounds + 1
    /\ missing' = IF document.shielded THEN missing ELSE missing - 1
    /\ UNCHANGED <<textVars, document, pc, cursor, found>>

\* Defect: the document counts as parsed only if a round of the loop parsed it.
ParseDocumentInLoop ==
    /\ pc = "repair"
    /\ document.malformed \/ missing = 0 \/ rounds = MaxRounds
    /\ pc' = IF ~document.malformed /\ missing = 0 /\ rounds < MaxRounds THEN "identify" ELSE "failed"
    /\ UNCHANGED <<textVars, document, rounds, missing, cursor, found>>

\* The document as it is after the loop is parsed once more.
ParseDocument ==
    /\ pc = "repair"
    /\ document.malformed \/ missing = 0 \/ rounds = MaxRounds
    /\ pc' = IF ~document.malformed /\ missing = 0 THEN "identify" ELSE "failed"
    /\ UNCHANGED <<textVars, document, rounds, missing, cursor, found>>

\* The value of parameter i is the next text, if there is a parameter i.
Load(i) ==
    /\ cursor' = i
    /\ parsed' = Unread
    /\ IF i <= Len(document.parameters)
       THEN /\ pc' = "parameters"
            /\ form' = document.parameters[i].form
            /\ n' = document.parameters[i].n
       ELSE /\ pc' = "done"
            /\ form' = "blank"
            /\ n' = 0

Identify ==
    /\ pc = "identify"
    /\ IF document.inform /\ document.device
       THEN /\ cpe_id' = IF document.serial THEN "serial" ELSE "composed"
            /\ Load(1)
       ELSE /\ pc' = "failed"
            /\ UNCHANGED <<textVars, cursor, cpe_id>>
    /\ UNCHANGED <<document, rounds, missing, rx_optical_power, tx_optical_power, ip_address,
                   software_version>>

Words == document.parameters[cursor].words

IsOptical == is_optical_rx_power_key(Words) \/ is_optical_tx_power_key(Words)

ReadPower ==
    /\ pc = "parameters"
    /\ IsOptical
    /\ parse_optical_power
    /\ UNCHANGED <<document, pc, rounds, missing, cursor, found>>

\* Defect: a text that is no power clears the one that was found.
KeepPowerOrClear(power, isKey) == IF isKey THEN parsed ELSE power

\* A power that could be read replaces the one found before.
KeepPower(power, isKey) == IF isKey /\ parsed # None THEN parsed ELSE power

\* Defect: any URL counts, not only one without an address before it.
FromUrlAlways == "URL" \in Words /\ form = "blank" /\ n # 0

\* The connection request URL helps out while no address is known.
FromUrl == "URL" \in Words /\ form = "blank" /\ n # 0 /\ ip_address = None

TakeParameter ==
    /\ pc = "parameters"
    /\ IsOptical => parsed # Unread
    /\ rx_optical_power' = KeepPower(rx_optical_power, is_optical_rx_power_key(Words))
    /\ tx_optical_power' = KeepPower(tx_optical_power, is_optical_tx_power_key(Words))
    /\ software_version' = IF "SoftwareVersion" \in Words THEN n ELSE software_version
    /\ ip_address' = IF "IPAddress" \in Words \/ FromUrl THEN n ELSE ip_address
    /\ Load(cursor + 1)
    /\ UNCHANGED <<document, rounds, missing, cpe_id>>

Next == Repair \/ ParseDocument \/ Identify \/ ReadPower \/ TakeParameter

Spec == Init /\ [][Next]_informVars

-----------------------------------------------------------------------------
(* Properties *)

(***************************************************************************)
(* An Inform is accepted exactly when it is well-formed but for at most    *)
(* MaxRounds undeclared prefixes, has its elements, and no comment before  *)
(* the root of a document that needs repair catches the declarations: the  *)
(* last one is put in by the last round and used by the parse after it.    *)
(***************************************************************************)
Acceptable(d) ==
    /\ ~d.malformed /\ d.inform /\ d.device
    /\ d.undeclared = 0 \/ (d.undeclared <= MaxRounds /\ ~d.shielded)

AcceptedExactly ==
    /\ pc \in {"parameters", "done"} => Acceptable(document)
    /\ pc = "failed" => ~Acceptable(document)

(***************************************************************************)
(* The powers of an Inform are those of the last parameters of their kind  *)
(* with a readable value: one without light, or out of range, does not hide*)
(* an earlier one, and there is no power when no parameter has one.  Which *)
(* kind a name is of the code's own predicates say, and a name with optical*)
(* (or pon), rx and tx is of both; but whatever they say, the receive power*)
(* is the reading of a parameter that is not called TxPower nor            *)
(* TransmitOpticalLevel.                                                   *)
(***************************************************************************)
PowersOf(i) == Powers(document.parameters[i].form, document.parameters[i].n)

IsLastReadable(power, is) ==
    \/ power = None /\ \A i \in is : None \in PowersOf(i)
    \/ \E i \in is :
          /\ power \in PowersOf(i) \ {None}
          /\ \A j \in is : j > i => None \in PowersOf(j)

ReceiveKeys ==
    {i \in 1 .. cursor - 1 : is_optical_rx_power_key(document.parameters[i].words)}

TransmitKeys ==
    {i \in 1 .. cursor - 1 : is_optical_tx_power_key(document.parameters[i].words)}

CalledTransmit(words) == words \cap {"txpower", "transmitlevel"} # {}

ReceivePowerIsReceived ==
    rx_optical_power # None =>
        \E i \in 1 .. cursor - 1 : /\ rx_optical_power \in PowersOf(i)
                                  /\ ~CalledTransmit(document.parameters[i].words)

PowersAreLastReadable ==
    pc \in {"parameters", "done"} =>
        /\ IsLastReadable(rx_optical_power, ReceiveKeys)
        /\ IsLastReadable(tx_optical_power, TransmitKeys)
        /\ ReceivePowerIsReceived

(***************************************************************************)
(* The address is the last one a WAN parameter has, wherever the connection*)
(* request URL stands; failing that, the host of the first URL with one.   *)
(***************************************************************************)
AddressKeys == {i \in 1 .. cursor - 1 : "IPAddress" \in document.parameters[i].words}

UrlKeys ==
    {i \in 1 .. cursor - 1 : /\ "URL" \in document.parameters[i].words
                             /\ document.parameters[i].form = "blank"
                             /\ document.parameters[i].n # 0}

AddressOutranksUrl ==
    pc \in {"parameters", "done"} =>
        \/ \E i \in AddressKeys : /\ ip_address = document.parameters[i].n
                                  /\ \A j \in AddressKeys : j <= i
        \/ /\ AddressKeys = {}
           /\ \/ \E i \in UrlKeys : /\ ip_address = document.parameters[i].n
                                    /\ \A j \in UrlKeys : i <= j
              \/ UrlKeys = {} /\ ip_address = None

=============================================================================
