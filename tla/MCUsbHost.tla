---------------------------- MODULE MCUsbHost ----------------------------
(* UsbHost for TLC: the transfers a gamepad driver queues.                  *)
EXTENDS UsbHost, TLC

Td(pid, req, len, bad, delay) ==
    [pid |-> pid, req |-> req, len |-> len, bad |-> bad, delay |-> delay]

\* Control requests with and without a data stage, a bad one, and a data stage
\* whose buffer is not mapped; polls that report, that do not, and that fail.
MCTemplates ==
    (Ctl :> {Td("Setup", "GetDescriptor", 1, FALSE, 7),
             Td("Setup", "SetAddress", 1, FALSE, 0),
             Td("Setup", "UnknownDescriptor", 1, FALSE, 0),
             Td("In", "None", 1, FALSE, 0),
             Td("Out", "None", 1, FALSE, 0)})
    @@ (Intr :> {Td("In", "None", 2, FALSE, 0), Td("In", "None", 1, FALSE, 0),
                 Td("In", "None", 2, TRUE, 7)})

MCBudgets == {[registers |-> b[1], transfers |-> b[2], host |-> b[3]] :
               b \in {<<2, 1, 0>>, <<1, 2, 0>>, <<1, 1, 1>>, <<0, 3, 0>>, <<0, 2, 2>>}}

MCPtrWrites == {<<"ControlHeadED", Ctl>>, <<"BulkCurrentED", Intr>>}

\* The driver resets the port, then acknowledges the changes and enables it.
MCPortWrites == {[clear |-> {}, reset |-> TRUE, enable |-> FALSE],
                 [clear |-> {"connect", "reset"}, reset |-> FALSE, enable |-> TRUE]}
=============================================================================
