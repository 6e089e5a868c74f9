------------------------------ MODULE CommandRpc ------------------------------
(***************************************************************************)
(* The XML documents the CWMP server sends: InformResponse, a Fault, and   *)
(* for a dispatched command the RPC build_soap_rpc_for_command makes of it,*)
(* a Reboot or a GetParameterValues whatever the command says.  A document *)
(* is its method, what it carries and the namespace prefixes it uses; a    *)
(* command type is the set of the words the code looks for in it.          *)
(***************************************************************************)
EXTENDS Integers, Sequences, SequencesExt

CONSTANTS
    Names    \* names of parameters

VARIABLES
    asked,    \* the last command dispatched
    document  \* the last document sent

rpcVars == <<asked, document>>

\* A payload may have either list or both; absent is an empty list and a flag.
Lists == BoundedSeq(Names, 2)

Command == [words : SUBSET {"reboot", "getparam", "parameter"},
            hasParameterNames : BOOLEAN, parameter_names : Lists, names : Lists]

NoCommand == [words |-> {}, hasParameterNames |-> FALSE, parameter_names |-> <<>>, names |-> <<>>]

\* The namespace prefixes every envelope declares in its first tag.
Declared == {"SOAP-ENV", "SOAP-ENC", "xsi", "xsd", "cwmp"}

Envelope(method, carried, prefixes) ==
    [method |-> method, carried |-> carried, used |-> prefixes \cup {"SOAP-ENV"}]

generate_inform_response == Envelope("InformResponse", <<>>, {"cwmp"})

generate_reboot_rpc == Envelope("Reboot", <<>>, {"cwmp"})

generate_get_parameter_values_rpc(wanted) ==
    Envelope("GetParameterValues", wanted, {"cwmp", "soap-enc"})

\* The only caller gives no header, so no cwmp:ID is in it.
build_soap_fault == Envelope("Fault", <<>>, {})

DefaultName == "Device.DeviceInfo.SoftwareVersion"

Init ==
    /\ asked = NoCommand
    /\ document = generate_inform_response

-----------------------------------------------------------------------------
\* The first list that is present is used, the second only without it.
Wanted(cmd) ==
    LET listed == IF cmd.hasParameterNames THEN cmd.parameter_names ELSE cmd.names
    IN  IF listed = <<>> THEN <<DefaultName>> ELSE listed

IsGet(cmd) == "reboot" \notin cmd.words /\ cmd.words # {}

build_soap_rpc_for_command(cmd) ==
    /\ asked' = cmd
    /\ document' = IF IsGet(cmd)
                   THEN generate_get_parameter_values_rpc(Wanted(cmd))
                   ELSE generate_reboot_rpc

AnswerInform ==
    /\ asked' = NoCommand
    /\ document' \in {generate_inform_response, build_soap_fault}

Next ==
    \/ \E cmd \in Command : build_soap_rpc_for_command(cmd)
    \/ AnswerInform

Spec == Init /\ [][Next]_rpcVars

-----------------------------------------------------------------------------
(***************************************************************************)
(* A device can parse every document the server sends: each namespace      *)
(* prefix a document uses is declared in it.                               *)
(***************************************************************************)
DocumentIsWellFormed == document.used \subseteq Declared

=============================================================================
